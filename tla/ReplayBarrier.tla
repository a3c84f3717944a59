--------------------------- MODULE ReplayBarrier ---------------------------
(***************************************************************************)
(* How btreplay's main thread leads its files through the iterations: one  *)
(* sub and one rec thread per input file, and four counters under          *)
(* condition variables of their own.  What a thread does within an         *)
(* iteration is in ReplayAio; here it plays for a while.                   *)
(*                                                                         *)
(* Only the main thread waits on the counters and every wait is a loop     *)
(* over a test under the mutex, so a wait is a guard.  The threads that    *)
(* wait for the start take a token each, whoever comes first.              *)
(***************************************************************************)
EXTENDS Integers, FiniteSets

CONSTANTS
    Files,           \* input files, struct thr_info
    def_iterations,  \* -I
    MaySignal        \* may SIGINT or SIGTERM arrive?

ASSUME FilesAssumption      == IsFiniteSet(Files) /\ Files # {}
ASSUME IterationsAssumption == def_iterations \in Nat \ {0}
ASSUME SignalAssumption     == MaySignal \in BOOLEAN

nfiles == Cardinality(Files)

VARIABLES
    main,        \* where the main thread is
    i,           \* its iteration
    sub,         \* where each sub thread is
    iterations,  \* iterations each sub thread has left; -1 when it is through
    reclaimed,   \* rec threads that have ended
    iter_start,  \* tokens of this iteration
    n_replays_ready, n_iters_done, n_replays_done, n_reclaims_done,
    signal_done

mainVars  == <<main, i>>
subVars   == <<sub, iterations>>
counters  == <<n_replays_ready, n_iters_done, n_replays_done, n_reclaims_done>>
vars == <<mainVars, subVars, reclaimed, iter_start, counters, signal_done>>

TypeOK ==
    /\ main \in {"ready", "start", "iters", "replays", "reclaims", "release", "exit"}
    /\ i \in 0 .. def_iterations
    /\ sub \in [Files -> {"open", "loop", "wait", "play", "ended", "done"}]
    /\ iterations \in [Files -> -1 .. def_iterations]
    /\ reclaimed \subseteq Files
    /\ iter_start \in 0 .. nfiles
    /\ n_replays_ready \in 0 .. nfiles
    /\ n_iters_done \in 0 .. nfiles
    /\ n_replays_done \in 0 .. nfiles
    /\ n_reclaims_done \in 0 .. nfiles
    /\ signal_done \in BOOLEAN

Init ==
    /\ main = "ready"
    /\ i = 0
    /\ sub = [f \in Files |-> "open"]
    /\ iterations = [f \in Files |-> def_iterations]
    /\ reclaimed = {}
    /\ iter_start = 0
    /\ n_replays_ready = 0
    /\ n_iters_done = 0
    /\ n_replays_done = 0
    /\ n_reclaims_done = 0
    /\ signal_done = FALSE

-----------------------------------------------------------------------------
(* __set_cv and __wait_cv, under the counter's mutex.  The Makefile builds with
   -DNDEBUG: that a counter is below its limit is not tested. *)

set_cv(n)  == n' = n + 1
wait_cv(n) == n >= nfiles /\ n' = 0

-----------------------------------------------------------------------------
(* The sub thread of a file: replay_sub, and the end of its rec thread. *)

\* The device is open; set_replay_ready.
Ready(f) ==
    /\ sub[f] = "open"
    /\ set_cv(n_replays_ready)
    /\ sub' = [sub EXCEPT ![f] = "loop"]
    /\ UNCHANGED <<mainVars, iterations, reclaimed, iter_start, n_iters_done,
                   n_replays_done, n_reclaims_done, signal_done>>

\* Mutant of Loop: one iteration too many.
Loop_OneMore(f) ==
    /\ sub[f] = "loop"
    /\ \/ /\ ~signal_done /\ iterations[f] >= 0
          /\ iterations' = [iterations EXCEPT ![f] = @ - 1]
          /\ sub' = [sub EXCEPT ![f] = "wait"]
       \/ /\ signal_done \/ iterations[f] < 0
          /\ iterations' = iterations
          /\ sub' = [sub EXCEPT ![f] = "ended"]
    /\ UNCHANGED <<mainVars, reclaimed, iter_start, counters, signal_done>>

\* while (!is_send_done(tip) && tip->iterations--), and tip->send_done = 1 at
\* its end.
Loop(f) ==
    /\ sub[f] = "loop"
    /\ iterations' = IF signal_done THEN iterations
                                    ELSE [iterations EXCEPT ![f] = @ - 1]
    /\ sub' = [sub EXCEPT ![f] = IF ~signal_done /\ iterations[f] > 0
                                 THEN "wait" ELSE "ended"]
    /\ UNCHANGED <<mainVars, reclaimed, iter_start, counters, signal_done>>

\* wait_iter_start
TakeToken(f) ==
    /\ sub[f] = "wait"
    /\ iter_start > 0
    /\ iter_start' = iter_start - 1
    /\ sub' = [sub EXCEPT ![f] = "play"]
    /\ UNCHANGED <<mainVars, iterations, reclaimed, counters, signal_done>>

\* The bunches are submitted, all of them or up to a signal; set_iter_done and
\* reset_input_file.
PlayEnds(f) ==
    /\ sub[f] = "play"
    /\ set_cv(n_iters_done)
    /\ sub' = [sub EXCEPT ![f] = "loop"]
    /\ UNCHANGED <<mainVars, iterations, reclaimed, iter_start, n_replays_ready,
                   n_replays_done, n_reclaims_done, signal_done>>

\* set_replay_done
ReplayDone(f) ==
    /\ sub[f] = "ended"
    /\ set_cv(n_replays_done)
    /\ sub' = [sub EXCEPT ![f] = "done"]
    /\ UNCHANGED <<mainVars, iterations, reclaimed, iter_start, n_replays_ready,
                   n_iters_done, n_reclaims_done, signal_done>>

\* replay_rec ends: set_reclaim_done.
RecDone(f) ==
    /\ sub[f] \in {"ended", "done"}
    /\ f \notin reclaimed
    /\ reclaimed' = reclaimed \cup {f}
    /\ set_cv(n_reclaims_done)
    /\ UNCHANGED <<mainVars, subVars, iter_start, n_replays_ready, n_iters_done,
                   n_replays_done, signal_done>>

-----------------------------------------------------------------------------
(* The main thread. *)

\* wait_replays_ready, and the first test of the loop over the iterations.
ReplaysReady ==
    /\ main = "ready"
    /\ wait_cv(n_replays_ready)
    /\ main' = "start"
    /\ UNCHANGED <<i, subVars, reclaimed, iter_start, n_iters_done,
                   n_replays_done, n_reclaims_done, signal_done>>

\* start_iter
StartIter ==
    /\ main = "start"
    /\ iter_start' = nfiles
    /\ main' = "iters"
    /\ UNCHANGED <<i, subVars, reclaimed, counters, signal_done>>

\* Mutant of ItersDone: one file may still play.
ItersDone_OneEarly ==
    /\ main = "iters"
    /\ n_iters_done + 1 >= nfiles
    /\ n_iters_done' = 0
    /\ i' = i + 1
    /\ main' = IF i + 1 < def_iterations THEN "start" ELSE "replays"
    /\ UNCHANGED <<subVars, reclaimed, iter_start, n_replays_ready,
                   n_replays_done, n_reclaims_done, signal_done>>

\* wait_iters_done, and the next test of the loop.
ItersDone ==
    /\ main = "iters"
    /\ wait_cv(n_iters_done)
    /\ i' = i + 1
    /\ main' = IF i + 1 < def_iterations THEN "start" ELSE "replays"
    /\ UNCHANGED <<subVars, reclaimed, iter_start, n_replays_ready,
                   n_replays_done, n_reclaims_done, signal_done>>

\* Mutant of ReplaysDone: one thread may be missing.
ReplaysDone_OneEarly ==
    /\ main = "replays"
    /\ n_replays_done + 1 >= nfiles
    /\ n_replays_done' = 0
    /\ main' = "reclaims"
    /\ UNCHANGED <<i, subVars, reclaimed, iter_start, n_replays_ready,
                   n_iters_done, n_reclaims_done, signal_done>>

\* wait_replays_done
ReplaysDone ==
    /\ main = "replays"
    /\ wait_cv(n_replays_done)
    /\ main' = "reclaims"
    /\ UNCHANGED <<i, subVars, reclaimed, iter_start, n_replays_ready,
                   n_iters_done, n_reclaims_done, signal_done>>

\* wait_reclaims_done
ReclaimsDone ==
    /\ main = "reclaims"
    /\ wait_cv(n_reclaims_done)
    /\ main' = "release"
    /\ UNCHANGED <<i, subVars, reclaimed, iter_start, n_replays_ready,
                   n_iters_done, n_replays_done, signal_done>>

\* rem_input_files: tip_release of every file joins its threads, which return
\* after their last count, and frees what they used.
RemInputFiles ==
    /\ main = "release"
    /\ reclaimed = Files /\ \A f \in Files : sub[f] = "done"
    /\ main' = "exit"
    /\ UNCHANGED <<i, subVars, reclaimed, iter_start, counters, signal_done>>

\* set_signal_done
Signal ==
    /\ MaySignal /\ ~signal_done
    /\ signal_done' = TRUE
    /\ UNCHANGED <<mainVars, subVars, reclaimed, iter_start, counters>>

Exited == main = "exit" /\ UNCHANGED vars

SubStep(f) == Ready(f) \/ Loop(f) \/ TakeToken(f) \/ PlayEnds(f) \/ ReplayDone(f)
MainStep   == ReplaysReady \/ StartIter \/ ItersDone \/ ReplaysDone \/ ReclaimsDone
              \/ RemInputFiles

Next ==
    \/ \E f \in Files : SubStep(f) \/ RecDone(f)
    \/ MainStep
    \/ Signal
    \/ Exited

Spec == Init /\ [][Next]_vars

\* Threads run, and an iteration ends: SubFinishes of ReplayAio. That a rec
\* thread ends is not assumed: it may sleep for ever (ReplayAio, ReaperFinishes).
FairSpec == Spec /\ WF_vars(MainStep) /\ \A f \in Files : WF_vars(SubStep(f))

-----------------------------------------------------------------------------
(* Properties. *)

Playing == {f \in Files : sub[f] = "play"}

\* Every token of an iteration is waiting to be taken, held by a thread that
\* plays, or counted as done; between two iterations there is none. With it the
\* assertions of start_iter, wait_iter_start and __set_cv would hold.
TokenAccount ==
    iter_start + Cardinality(Playing) + n_iters_done
        = IF main = "iters" THEN nfiles ELSE 0

\* What tip_release asserts of each file when main gets there (in a build that
\* tests it): both its threads are through, so that the joins do not wait.
Released ==
    main \in {"release", "exit"} => reclaimed = Files /\ \A f \in Files : sub[f] = "done"

Opened == {f \in Files : sub[f] # "open"}
Done   == {f \in Files : sub[f] = "done"}

\* What the other three counters count, up to the wait that resets them, and what
\* main knows after it.
Counted ==
    /\ n_replays_ready = IF main = "ready" THEN Cardinality(Opened) ELSE 0
    /\ n_replays_done = IF main \in {"reclaims", "release", "exit"} THEN 0
                                                                  ELSE Cardinality(Done)
    /\ n_reclaims_done = IF main \in {"release", "exit"} THEN 0 ELSE Cardinality(reclaimed)
    /\ main # "ready" => Opened = Files
    /\ main \in {"reclaims", "release", "exit"} => Done = Files
    /\ main \in {"release", "exit"} => reclaimed = Files

\* The iterations main and the sub threads have before them.
Rounds ==
    /\ main \in {"ready", "start", "iters"} => i < def_iterations
    /\ \A f \in Files : sub[f] \notin {"ended", "done"} => iterations[f] >= 0

\* The inductive invariant.
IInv == TypeOK /\ TokenAccount /\ Counted /\ Rounds

\* All iterations are played unless a signal intervenes: then a sub thread may
\* leave before its set_iter_done, and wait_iters_done waits for it for ever.
\* After them every sub thread comes to its end, also on a signal. The program
\* then ends if the rec threads do: main waits for them without a bound.
ReplayEnds ==
    /\ <>(main = "replays" \/ signal_done)
    /\ main = "replays" ~> main = "reclaims"
    /\ (main = "reclaims" /\ reclaimed = Files) ~> main = "exit"

=============================================================================
