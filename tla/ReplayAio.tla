----------------------------- MODULE ReplayAio -----------------------------
(***************************************************************************)
(* One input file of btreplay (struct thr_info): the sub thread reads      *)
(* bunches of IOs and submits them, the rec thread reclaims what the       *)
(* kernel has completed.  They share a pool of `naios' IOCBs, the counters *)
(* naios_free and naios_out, a mutex, and one condition variable on which  *)
(* both may wait.                                                          *)
(*                                                                         *)
(* io_submit is called without the mutex and naios_out raised after it, so *)
(* an IO can complete and be reclaimed before it was counted.  The mutex   *)
(* is never held across a step: each critical section is one step.  Which  *)
(* iteration is replayed is in ReplayBarrier.                              *)
(***************************************************************************)
EXTENDS Integers, FiniteSets

CONSTANTS
    naios,       \* IOCBs of the file, -d
    MaxPkts,     \* the most IOs in a bunch (BT_MAX_PKTS)
    NBunches,    \* bound: bunches in the file
    MaySignal    \* may SIGINT or SIGTERM arrive?

ASSUME PoolAssumption   == naios \in Nat \ {0} /\ MaxPkts \in Nat \ {0}
ASSUME InputAssumption  == NBunches \in Nat
ASSUME SignalAssumption == MaySignal \in BOOLEAN

VARIABLES
    sub,          \* where the sub thread is
    bunches,      \* bunches it has yet to read
    left,         \* IOs of its bunch it has yet to submit (npkts - i)
    ntodo,        \* IOs it submits in this turn
    rec,          \* where the rec thread is
    batch,        \* its local naios_out
    ndone,        \* events io_getevents gave it
    naios_free, naios_out,
    send_wait, reap_wait, send_done, reap_done,
    waiting,      \* threads blocked on tip->cond
    signal_done,
    inflight,     \* kernel: submitted and not completed
    completed     \* kernel: completed and not fetched

subVars   == <<sub, bunches, left, ntodo>>
recVars   == <<rec, batch, ndone>>
poolVars  == <<naios_free, naios_out>>
flagVars  == <<send_wait, reap_wait>>
doneVars  == <<send_done, reap_done, signal_done>>
kernelVars == <<inflight, completed>>
vars == <<subVars, recVars, poolVars, flagVars, doneVars, waiting, kernelVars>>

TypeOK ==
    /\ sub \in {"next", "bunch", "nfree", "map", "submit", "count", "end",
                "done"}
    /\ bunches \in 0 .. NBunches
    /\ left \in 0 .. MaxPkts
    /\ ntodo \in 0 .. MaxPkts
    /\ rec \in {"test", "wait", "fetch", "reclaim", "exit", "done"}
    /\ batch \in 0 .. naios
    /\ ndone \in 0 .. naios
    /\ naios_free \in 0 .. naios
    /\ naios_out \in 0 .. naios
    /\ send_wait \in BOOLEAN
    /\ reap_wait \in BOOLEAN
    /\ send_done \in BOOLEAN
    /\ reap_done \in BOOLEAN
    /\ signal_done \in BOOLEAN
    /\ waiting \subseteq {"sub", "rec"}
    /\ inflight \in 0 .. naios
    /\ completed \in 0 .. naios

\* tip_init
Init ==
    /\ sub = "next"
    /\ bunches = NBunches
    /\ left = 0
    /\ ntodo = 0
    /\ rec = "test"
    /\ batch = 0
    /\ ndone = 0
    /\ naios_free = naios
    /\ naios_out = 0
    /\ send_wait = FALSE
    /\ reap_wait = FALSE
    /\ send_done = FALSE
    /\ reap_done = FALSE
    /\ signal_done = FALSE
    /\ waiting = {}
    /\ inflight = 0
    /\ completed = 0

is_send_done == signal_done \/ send_done
\* Mutant of is_reap_done: does not look at naios_out.
is_reap_done_Sent == send_done

is_reap_done == send_done /\ naios_out = 0

\* pthread_cond_signal(&tip->cond) wakes one of the threads blocked on it.
CondSignal ==
    \/ waiting = {} /\ UNCHANGED waiting
    \/ \E w \in waiting : waiting' = waiting \ {w}

-----------------------------------------------------------------------------
(* The sub thread: replay_sub, process_bunch. *)

Sub(from) == sub = from /\ "sub" \notin waiting

\* while (!is_send_done(tip) && next_bunch(tip, &bunch))
NextBunch ==
    /\ Sub("next")
    /\ \/ /\ ~is_send_done /\ bunches > 0
          /\ bunches' = bunches - 1
          /\ left' \in 1 .. MaxPkts
          /\ sub' = "bunch"
       \/ /\ is_send_done \/ bunches = 0
          /\ sub' = "end"
          /\ UNCHANGED <<bunches, left>>
    /\ UNCHANGED <<ntodo, recVars, poolVars, flagVars, doneVars, waiting,
                   kernelVars>>

\* while (!is_send_done(tip) && (i < bunch->hdr.npkts))
BunchLoop ==
    /\ Sub("bunch")
    /\ sub' = IF is_send_done \/ left = 0 THEN "next" ELSE "nfree"
    /\ UNCHANGED <<bunches, left, ntodo, recVars, poolVars, flagVars, doneVars,
                   waiting, kernelVars>>

\* Mutant of NfreeCurrent: all of the bunch is taken at once.
NfreeCurrent_Unclamped ==
    /\ Sub("nfree")
    /\ \/ /\ ~is_send_done /\ naios_free = 0
          /\ send_wait' = TRUE
          /\ waiting' = waiting \cup {"sub"}
          /\ UNCHANGED <<sub, ntodo>>
       \/ /\ ~is_send_done /\ naios_free > 0
          /\ ntodo' = left
          /\ sub' = "map"
          /\ UNCHANGED <<send_wait, waiting>>
    /\ UNCHANGED <<bunches, left, recVars, poolVars, reap_wait, doneVars,
                   kernelVars>>

\* nfree_current: one turn of its loop. A signal makes it return 0, and ntodo
\* is 0 with it, which process_bunch and iocbs_map assert it is not.
NfreeCurrent ==
    /\ Sub("nfree")
    /\ \/ /\ ~is_send_done /\ naios_free = 0
          /\ send_wait' = TRUE
          /\ waiting' = waiting \cup {"sub"}
          /\ UNCHANGED <<sub, ntodo>>
       \/ /\ ~is_send_done /\ naios_free > 0
          /\ ntodo' = IF naios_free < left THEN naios_free ELSE left
          /\ sub' = "map"
          /\ UNCHANGED <<send_wait, waiting>>
       \/ /\ is_send_done
          /\ ntodo' = 0
          /\ sub' = "map"
          /\ UNCHANGED <<send_wait, waiting>>
    /\ UNCHANGED <<bunches, left, recVars, poolVars, reap_wait, doneVars,
                   kernelVars>>

\* iocbs_map takes ntodo IOCBs off the free list (its assertions are compiled
\* out, -DNDEBUG); stall only delays; `if (ntodo)' there is something to submit.
IocbsMap ==
    /\ Sub("map")
    /\ naios_free' = naios_free - ntodo
    /\ sub' = IF ntodo = 0 THEN "bunch" ELSE "submit"
    /\ UNCHANGED <<bunches, left, ntodo, recVars, naios_out, flagVars, doneVars,
                   waiting, kernelVars>>

\* io_submit, without the mutex; a short count is fatal and left out.
IoSubmit ==
    /\ Sub("submit")
    /\ inflight' = inflight + ntodo
    /\ sub' = "count"
    /\ UNCHANGED <<bunches, left, ntodo, recVars, poolVars, flagVars, doneVars,
                   waiting, completed>>

\* Mutant of CountSubmitted: wakes nobody.
CountSubmitted_Silent ==
    /\ Sub("count")
    /\ naios_out' = naios_out + ntodo
    /\ left' = left - ntodo
    /\ ntodo' = 0
    /\ sub' = "bunch"
    /\ UNCHANGED <<bunches, recVars, naios_free, flagVars, doneVars, waiting,
                   kernelVars>>

\* naios_out += ndone, and the rec thread is woken if it waits.
CountSubmitted ==
    /\ Sub("count")
    /\ naios_out' = naios_out + ntodo
    /\ IF reap_wait THEN reap_wait' = FALSE /\ CondSignal
                    ELSE UNCHANGED <<reap_wait, waiting>>
    /\ left' = left - ntodo
    /\ ntodo' = 0
    /\ sub' = "bunch"
    /\ UNCHANGED <<bunches, recVars, naios_free, send_wait, doneVars, kernelVars>>

\* replay_sub: tip->send_done = 1, with neither the mutex nor a signal.
SubEnds ==
    /\ Sub("end")
    /\ send_done' = TRUE
    /\ sub' = "done"
    /\ UNCHANGED <<bunches, left, ntodo, recVars, poolVars, flagVars, reap_done,
                   signal_done, waiting, kernelVars>>

-----------------------------------------------------------------------------
(* The rec thread: replay_rec. *)

Rec(from) == rec = from /\ "rec" \notin waiting

\* reap_wait_aios: is_reap_done, read without the mutex.
RecTest ==
    /\ Rec("test")
    /\ rec' = IF is_reap_done THEN "exit" ELSE "wait"
    /\ UNCHANGED <<subVars, batch, ndone, poolVars, flagVars, doneVars, waiting,
                   kernelVars>>

\* reap_wait_aios: one turn of `while (tip->naios_out == 0)', which does not
\* look at send_done again.
RecWait ==
    /\ Rec("wait")
    /\ IF naios_out = 0
       THEN /\ reap_wait' = TRUE
            /\ waiting' = waiting \cup {"rec"}
            /\ UNCHANGED <<rec, batch>>
       ELSE /\ rec' = "fetch"
            /\ batch' = naios_out
            /\ UNCHANGED <<reap_wait, waiting>>
    /\ UNCHANGED <<subVars, ndone, poolVars, send_wait, doneVars, kernelVars>>

\* io_getevents(ctx, 1, naios_out, ...): at least one event, at most the batch.
Fetch ==
    /\ Rec("fetch")
    /\ \E n \in 1 .. batch :
          /\ n <= completed
          /\ ndone' = n
          /\ completed' = completed - n
    /\ rec' = "reclaim"
    /\ UNCHANGED <<subVars, batch, poolVars, flagVars, doneVars, waiting, inflight>>

\* Reclaim as it would be if it put `freed' IOCBs back and woke the sub thread
\* only if `wakes', and its mutants: an IOCB is not put back; nobody is woken.
ReclaimWith(freed, wakes) ==
    /\ Rec("reclaim")
    /\ naios_free' = naios_free + freed
    /\ naios_out' = naios_out - ndone
    /\ batch' = IF naios_out' < batch THEN naios_out' ELSE batch
    /\ ndone' = 0
    /\ IF send_wait /\ wakes THEN send_wait' = FALSE /\ CondSignal
                             ELSE UNCHANGED <<send_wait, waiting>>
    /\ rec' = IF batch' > 0 THEN "fetch" ELSE "test"
    /\ UNCHANGED <<subVars, reap_wait, doneVars, kernelVars>>

Reclaim_Leaks  == ReclaimWith(ndone - 1, TRUE)
Reclaim_Silent == ReclaimWith(ndone, FALSE)

\* reclaim_ios, under the mutex, and its `goto again'.
Reclaim ==
    /\ Rec("reclaim")
    /\ naios_free' = naios_free + ndone
    /\ naios_out' = naios_out - ndone
    /\ batch' = IF naios_out' < batch THEN naios_out' ELSE batch
    /\ ndone' = 0
    /\ IF send_wait THEN send_wait' = FALSE /\ CondSignal
                    ELSE UNCHANGED <<send_wait, waiting>>
    /\ rec' = IF batch' > 0 THEN "fetch" ELSE "test"
    /\ UNCHANGED <<subVars, reap_wait, doneVars, kernelVars>>

RecEnds ==
    /\ Rec("exit")
    /\ reap_done' = TRUE
    /\ rec' = "done"
    /\ UNCHANGED <<subVars, batch, ndone, poolVars, flagVars, send_done,
                   signal_done, waiting, kernelVars>>

-----------------------------------------------------------------------------
(* The kernel and the signal handler. *)

Complete ==
    /\ inflight > 0
    /\ inflight' = inflight - 1
    /\ completed' = completed + 1
    /\ UNCHANGED <<subVars, recVars, poolVars, flagVars, doneVars, waiting>>

\* set_signal_done
Signal ==
    /\ MaySignal /\ ~signal_done
    /\ signal_done' = TRUE
    /\ UNCHANGED <<subVars, recVars, poolVars, flagVars, send_done, reap_done,
                   waiting, kernelVars>>

\* The file is replayed.
Finished == sub = "done" /\ UNCHANGED vars

SubStep == \/ NextBunch \/ BunchLoop \/ NfreeCurrent \/ IocbsMap \/ IoSubmit
           \/ CountSubmitted \/ SubEnds
RecStep == RecTest \/ RecWait \/ Fetch \/ Reclaim \/ RecEnds

Next == SubStep \/ RecStep \/ Complete \/ Signal \/ Finished

Spec == Init /\ [][Next]_vars

\* Threads run, and the kernel completes what it was given.
FairSpec == Spec /\ WF_vars(SubStep) /\ WF_vars(RecStep) /\ WF_vars(Complete)

-----------------------------------------------------------------------------
(* Properties. *)

Mapped    == IF sub = "submit" THEN ntodo ELSE 0  \* taken, not submitted
Uncounted == IF sub = "count" THEN ntodo ELSE 0       \* submitted, not counted
Reaped    == IF rec = "reclaim" THEN ndone ELSE 0     \* fetched, not reclaimed

\* Every IOCB is free, mapped, in the kernel's hands or fetched: none leaks and
\* none is used twice, whatever the order of submission, completion and
\* reclaiming (tip_release: naios_free == naios at the end).
PoolAccount == naios_free + Mapped + inflight + completed + Reaped = naios

\* naios_out lags behind io_submit: it misses exactly the IOs submitted and not
\* counted. The reaper may already hold those, and naios_out still does not
\* fall below zero.
OutAccount == naios_out + Uncounted = inflight + completed + Reaped

\* The assertions of process_bunch, iocbs_map, reclaim_ios and replay_rec, of
\* which the build with -DNDEBUG tests none: they hold also without being
\* tested, but for `0 < ntodo', which fails after a signal and only then.
AssertionsHold ==
    /\ sub = "map" => ntodo <= naios_free /\ (0 < ntodo \/ is_send_done)
    /\ sub = "count" => naios_out + ntodo <= naios
    /\ rec = "reclaim" => 0 < ndone /\ ndone <= batch /\ ndone <= naios_out
    /\ rec = "exit" => send_done

\* tip->cond serves two conditions and is signalled, not broadcast: that wakes
\* the right thread only because the two never wait together.
OneWaiter == waiting # {"sub", "rec"}

\* Once the rec thread has left, there is nothing left for it to do: all IOCBs
\* are back and no IO is out (the assertions of tip_release).
LeavesNothing == reap_done => naios_free = naios /\ inflight + completed = 0

\* A thread sleeps on tip->cond only while what it waits for is not there, or
\* has been woken: no wake-up is lost, although naios_out is read and send_wait
\* and reap_wait are kept by two threads.
NoLostWakeup ==
    /\ "sub" \in waiting => send_wait /\ naios_free = 0
    /\ "rec" \in waiting => reap_wait /\ naios_out = 0

\* What the other invariants rest on: where a waiter stands, what a thread
\* knows of its local counts, and that the reaper leaves only when the sub
\* thread is done and no IO is counted.
LocalKnowledge ==
    /\ "sub" \in waiting => sub = "nfree"
    /\ "rec" \in waiting => rec = "wait"
    /\ sub = "nfree" => 0 < left
    /\ sub \in {"map", "submit", "count"} => ntodo <= left
    /\ sub \in {"submit", "count"} => 0 < ntodo
    /\ rec \in {"fetch", "reclaim"} => 0 < batch /\ batch <= naios_out
    /\ rec = "reclaim" => 0 < ndone /\ ndone <= batch
    /\ send_done => sub = "done"
    /\ reap_done => rec = "done"
    /\ rec \in {"exit", "done"} => send_done /\ naios_out = 0

\* The inductive invariant.
IInv ==
    /\ TypeOK
    /\ PoolAccount
    /\ OutAccount
    /\ AssertionsHold
    /\ NoLostWakeup
    /\ LocalKnowledge

\* The sub thread never waits for an IOCB for ever: it submits the file, or a
\* signal ends it, although the signal itself wakes nobody; and every IO that was
\* submitted is reclaimed.
SubFinishes ==
    /\ <>(sub = "done")
    /\ send_done ~> naios_free = naios

\* thr_info: "reap_done: When true, the rec thread has completed work", and
\* reap_wait_aios "Will return 0 if we are done": when the sub thread is done
\* the rec thread gets done as well.
ReaperFinishes == send_done ~> reap_done

=============================================================================
