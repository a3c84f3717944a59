---------------------------- MODULE RecordReplay ----------------------------
(***************************************************************************)
(* One iteration of btreplay on the files of btrecord: main takes in the   *)
(* files, then the sub thread of each reads its bunches, maps what the     *)
(* free IOCBs allow of one (ReplayAio), stalls until the bunch is due and  *)
(* submits.  clock is gettime() - rgenesis; it is read by each thread when *)
(* it likes.  A signal ends the stalls, and the threads with the IOs they  *)
(* have mapped.                                                            *)
(***************************************************************************)
EXTENDS BtRecord

CONSTANTS
    naios,           \* -d: IOCBs of a file
    Stalls,          \* the values of ~no_stalls (-N)
    AccFactors,      \* the values of acc_factor (-x)
    MaxClock         \* bound of the clock

ASSUME ReplayAssumption ==
    /\ naios \in Nat \ {0} /\ MaxClock \in Nat
    /\ Stalls \subseteq BOOLEAN /\ AccFactors \subseteq Nat \ {0}

VARIABLES
    stalls, acc_factor,
    nadded,          \* files main has looked at
    kept,            \* input_files
    genesis,         \* the earliest time in the headers; MaxTime + 1 before
    clock,
    sub,             \* per file: where its sub thread is
    nread,           \* per file: bunches read
    i,               \* per file: packets of the bunch that were submitted
    ntodo,           \* per file: packets mapped
    signal_done,
    submitted        \* per file, history: the packets submitted

replayVars       == <<nadded, kept, genesis, clock, sub, nread, i, ntodo, signal_done,
                      submitted>>
options          == <<stalls, acc_factor>>
recordReplayVars == <<recordVars, options, replayVars>>

ReplayTypeOK ==
    /\ RecordTypeOK
    /\ nadded \in 0 .. NFiles /\ kept \subseteq Files
    /\ genesis \in 0 .. MaxTime + 1 /\ clock \in 0 .. MaxClock
    /\ sub \in [Files -> {"off", "next", "bunch", "stall", "done"}]
    /\ \A f \in Files : nread[f] \in 0 .. MaxQs /\ i[f] \in 0 .. max_pkts_per_bunch
                        /\ ntodo[f] \in 0 .. naios
    /\ signal_done \in BOOLEAN

ReplayInit ==
    /\ RecordInit
    /\ stalls \in Stalls /\ acc_factor \in AccFactors
    /\ nadded = 0 /\ kept = {} /\ genesis = MaxTime + 1
    /\ clock = 0
    /\ signal_done = FALSE
    /\ sub = [f \in Files |-> "off"]
    /\ nread = [f \in Files |-> 0]
    /\ i = [f \in Files |-> 0]
    /\ ntodo = [f \in Files |-> 0]
    /\ submitted = [f \in Files |-> <<>>]

\* find_input_files looks for the files of the CPUs until one is missing.
Found == {f \in Files : hdr[f] # NoHeader}

\* add_input_file: a file that counts no bunch is passed over.
AddInputFile ==
    LET f == nadded + 1 IN
    /\ rpc = "end" /\ f \in Found
    /\ nadded' = f
    /\ IF hdr[f].nbunches = 0 THEN UNCHANGED <<kept, genesis>>
       ELSE /\ kept' = kept \cup {f}
            /\ genesis' = Min({genesis, hdr[f].genesis})
    /\ UNCHANGED <<recordVars, clock, signal_done, sub, nread, i, ntodo, submitted>>

\* tip_init of all files, and the start of the iteration: rgenesis is set.
StartIter ==
    /\ rpc = "end" /\ nadded = Cardinality(Found)
    /\ \A f \in Files : sub[f] = "off"
    /\ sub' = [f \in Files |-> IF f \in kept THEN "next" ELSE "off"]
    /\ UNCHANGED <<recordVars, nadded, kept, genesis, clock, signal_done, nread, i, ntodo,
                   submitted>>

\* while (!is_send_done(tip) && next_bunch(tip, &bunch)): the next one, or the end of
\* the file.
NextBunch(f) ==
    /\ sub[f] = "next"
    /\ IF ~signal_done /\ nread[f] < Len(file[f])
       THEN /\ nread' = [nread EXCEPT ![f] = @ + 1]
            /\ i' = [i EXCEPT ![f] = 0]
            /\ sub' = [sub EXCEPT ![f] = "bunch"]
       ELSE sub' = [sub EXCEPT ![f] = "done"] /\ UNCHANGED <<nread, i>>
    /\ UNCHANGED <<recordVars, nadded, kept, genesis, clock, signal_done, ntodo, submitted>>

Bunch(f) == file[f][nread[f]]

\* process_bunch: nfree_current gives 1 .. naios, whatever is free at the moment. On a
\* signal the loop ends; one that comes after its test makes nfree_current return 0, and
\* the loop ends with nothing mapped.
Map(f) ==
    /\ sub[f] = "bunch"
    /\ IF ~signal_done /\ i[f] < Len(Bunch(f).pkts)
       THEN /\ \E nfree \in 1 .. naios :
                  ntodo' = [ntodo EXCEPT ![f] = Min({nfree, Len(Bunch(f).pkts) - i[f]})]
            /\ sub' = [sub EXCEPT ![f] = "stall"]
       ELSE sub' = [sub EXCEPT ![f] = "next"] /\ UNCHANGED ntodo
    /\ UNCHANGED <<recordVars, nadded, kept, genesis, clock, signal_done, nread, i, submitted>>

\* stall: the time the bunch is due.
Due(f) == (Bunch(f).time_stamp - genesis) \div acc_factor

\* The end of the stall, which a signal brings about as well, and io_submit.
Submit(f) ==
    /\ sub[f] = "stall"
    /\ stalls /\ ~signal_done => clock >= Due(f)
    /\ submitted' = [submitted EXCEPT ![f] =
                        @ \o SubSeq(Bunch(f).pkts, i[f] + 1, i[f] + ntodo[f])]
    /\ i' = [i EXCEPT ![f] = @ + ntodo[f]]
    /\ ntodo' = [ntodo EXCEPT ![f] = 0]
    /\ sub' = [sub EXCEPT ![f] = "bunch"]
    /\ UNCHANGED <<recordVars, nadded, kept, genesis, clock, signal_done, nread>>

\* set_signal_done
Signal ==
    /\ rpc = "end" /\ ~signal_done
    /\ signal_done' = TRUE
    /\ UNCHANGED <<recordVars, nadded, kept, genesis, clock, sub, nread, i, ntodo, submitted>>

Replaying == \E f \in Files : sub[f] \notin {"off", "done"}

Tick ==
    /\ Replaying /\ clock < MaxClock
    /\ clock' = clock + 1
    /\ UNCHANGED <<recordVars, nadded, kept, genesis, signal_done, sub, nread, i, ntodo,
                   submitted>>

Ended ==
    /\ rpc = "end" /\ nadded = Cardinality(Found) /\ ~Replaying
    /\ UNCHANGED <<recordVars, replayVars>>

ReplayNext ==
    /\ \/ RecordNext /\ UNCHANGED replayVars
       \/ AddInputFile \/ StartIter \/ Signal \/ Tick \/ Ended
       \/ \E f \in Files : NextBunch(f) \/ Map(f) \/ Submit(f)
    /\ UNCHANGED options

ReplaySpec == ReplayInit /\ [][ReplayNext]_recordReplayVars

-----------------------------------------------------------------------------
Finished(f) == rpc = "end" /\ f < rfile

\* Through both programs: what btreplay submits of a CPU is what was queued there,
\* in order and once, and when it is done and no signal came it is all of it, whatever
\* the sizes of the bunches and of the pool. A file that btrecord finished is passed over only
\* if it holds one bunch or none (the header leaves the last one out); one in which
\* btrecord was killed is passed over whatever it holds.
ReplaysTheRecording ==
    \A f \in Files :
        /\ submitted[f] = [k \in 1 .. Len(submitted[f]) |-> k]
        /\ sub[f] = "done" /\ ~signal_done => Len(submitted[f]) = Len(queued[f])
        /\ Finished(f) /\ nadded >= f /\ f \notin kept => Len(file[f]) <= 1
        /\ f \in kept => Finished(f)

\* stall: until a signal an IO is submitted earlier than it was recorded, counted from
\* the first IO of the files that are replayed, by no more than the bunch it is in spans.
NeverEarly ==
    [][stalls /\ ~signal_done => \A f \in Files :
          submitted'[f] # submitted[f] =>
              (queued[f][Last(submitted'[f])] - genesis - max_bunch_tm) \div acc_factor
                  <= clock]_recordReplayVars

=============================================================================
