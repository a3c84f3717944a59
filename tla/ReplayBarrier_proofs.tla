------------------------ MODULE ReplayBarrier_proofs ------------------------
(***************************************************************************)
(* For any number of files and of iterations, threads of any speed and a   *)
(* signal at any step: the start tokens balance, every counter counts what *)
(* it is for, and main releases a file only when its threads are through.  *)
(***************************************************************************)
EXTENDS ReplayBarrier, FiniteSetTheorems, TLAPS

USE FilesAssumption, IterationsAssumption, SignalAssumption

-----------------------------------------------------------------------------
(* Counting files. *)

\* A set of files has at most nfiles elements, and all of them if it has nfiles.
LEMMA FileSets ==
    ASSUME NEW S \in SUBSET Files
    PROVE  /\ IsFiniteSet(S)
           /\ Cardinality(S) \in 0 .. nfiles
           /\ Cardinality(S) >= nfiles => S = Files
<1>1. IsFiniteSet(S) /\ Cardinality(S) <= nfiles /\ (Cardinality(S) = nfiles => S = Files)
  BY FS_Subset DEF nfiles
<1>2. Cardinality(S) \in Nat /\ nfiles \in Nat
  BY <1>1, FS_CardinalityType DEF nfiles
<1> QED
  BY <1>1, <1>2

\* One file more, or one less, in a set of them.
LEMMA OneMore ==
    ASSUME NEW S \in SUBSET Files, NEW f \in Files, f \notin S
    PROVE  Cardinality(S \cup {f}) = Cardinality(S) + 1
BY FileSets, FS_AddElement

LEMMA OneLess ==
    ASSUME NEW S \in SUBSET Files, NEW f \in S
    PROVE  Cardinality(S \ {f}) = Cardinality(S) - 1
BY FileSets, FS_RemoveElement

LEMMA NoFiles == Cardinality({}) = 0
BY FS_EmptySet

LEMMA SomeFiles == nfiles \in Nat /\ nfiles > 0
<1>1. nfiles \in Nat
  BY FileSets DEF nfiles
<1>2. nfiles # 0
  BY FS_EmptySet DEF nfiles
<1> QED
  BY <1>1, <1>2

Labels == {"open", "loop", "wait", "play", "ended", "done"}

\* A sub thread that moves on changes the sets it is counted in, and no others.
LEMMA Moves ==
    ASSUME sub \in [Files -> Labels], NEW f \in Files, NEW l \in Labels \ {"open"},
           sub' = [sub EXCEPT ![f] = l]
    PROVE  /\ sub' \in [Files -> Labels]
           /\ Opened' = Opened \cup {f}
           /\ Playing' = IF l = "play" THEN Playing \cup {f} ELSE Playing \ {f}
           /\ Done' = IF l = "done" THEN Done \cup {f} ELSE Done \ {f}
<1>1. \A g \in Files : sub'[g] = IF g = f THEN l ELSE sub[g]
  BY DEF Labels
<1>2. l # "open"
  OBVIOUS
<1>3. sub' \in [Files -> Labels]
  BY DEF Labels
<1>4. Opened' = Opened \cup {f}
  BY <1>1, <1>2 DEF Opened
<1>5. Playing' = IF l = "play" THEN Playing \cup {f} ELSE Playing \ {f}
  BY <1>1 DEF Playing
<1>6. Done' = IF l = "done" THEN Done \cup {f} ELSE Done \ {f}
  BY <1>1 DEF Done
<1> QED
  BY <1>3, <1>4, <1>5, <1>6

LEMMA CountedSets ==
    /\ Opened \in SUBSET Files /\ Playing \in SUBSET Files /\ Done \in SUBSET Files
BY DEF Opened, Playing, Done

LEMMA Stays ==
    ASSUME UNCHANGED sub
    PROVE  Opened' = Opened /\ Playing' = Playing /\ Done' = Done
BY DEF Opened, Playing, Done

-----------------------------------------------------------------------------
(* The steps of the threads of a file. *)

\* A file that is ready is one more of those main waits for before the first start.
LEMMA ReadyStep ==
    ASSUME IInv, NEW f \in Files, Ready(f)
    PROVE  IInv'
<1>1. /\ sub[f] = "open" /\ sub' = [sub EXCEPT ![f] = "loop"]
      /\ n_replays_ready' = n_replays_ready + 1
      /\ UNCHANGED <<main, i, iterations, reclaimed, iter_start, n_iters_done, n_replays_done,
                     n_reclaims_done, signal_done>>
  BY DEF Ready, set_cv, mainVars
<1>2. TypeOK /\ sub \in [Files -> Labels]
  BY DEF IInv, TypeOK, Labels
<1>3. sub' \in [Files -> Labels] /\ Opened' = Opened \cup {f}
      /\ Playing' = Playing \ {f} /\ Done' = Done \ {f}
  BY <1>1, <1>2, Moves DEF Labels
<1>4. f \notin Opened /\ Playing' = Playing /\ Done' = Done
  BY <1>1, <1>3 DEF Opened, Playing, Done
<1>5. main = "ready" /\ n_replays_ready = Cardinality(Opened)
  BY <1>4 DEF IInv, Counted
<1>6. n_replays_ready' = Cardinality(Opened') /\ n_replays_ready' \in 0 .. nfiles
  <2>1. Opened' \in SUBSET Files
    BY <1>3, CountedSets
  <2> QED
    BY <1>1, <1>3, <1>4, <1>5, <2>1, OneMore, CountedSets, FileSets
<1>7. TypeOK'
  BY <1>1, <1>2, <1>3, <1>6 DEF TypeOK, Labels
<1>8. TokenAccount' /\ Counted'
  BY <1>1, <1>4, <1>5, <1>6 DEF IInv, TokenAccount, Counted
<1>9. Rounds'
  BY <1>1, <1>2 DEF IInv, Rounds, Labels
<1> QED
  BY <1>7, <1>8, <1>9 DEF IInv

\* replay_sub's loop counts nothing.
LEMMA LoopStep ==
    ASSUME IInv, NEW f \in Files, Loop(f)
    PROVE  IInv'
<1> DEFINE l == IF ~signal_done /\ iterations[f] > 0 THEN "wait" ELSE "ended"
<1>1. /\ sub[f] = "loop" /\ sub' = [sub EXCEPT ![f] = l]
      /\ iterations' = IF signal_done THEN iterations ELSE [iterations EXCEPT ![f] = @ - 1]
      /\ UNCHANGED <<main, i, reclaimed, iter_start, n_replays_ready, n_iters_done,
                     n_replays_done, n_reclaims_done, signal_done>>
  BY DEF Loop, mainVars, counters
<1>2. TypeOK /\ sub \in [Files -> Labels]
  BY DEF IInv, TypeOK, Labels
<1>3. l \in {"wait", "ended"}
  OBVIOUS
<1>4. sub' \in [Files -> Labels] /\ Opened' = Opened \cup {f}
      /\ Playing' = Playing \ {f} /\ Done' = Done \ {f}
  <2> HIDE DEF l
  <2> QED
    BY <1>1, <1>2, <1>3, Moves DEF Labels
<1>5. Opened' = Opened /\ Playing' = Playing /\ Done' = Done
  BY <1>1, <1>4 DEF Opened, Playing, Done
<1>6. iterations[f] >= 0 /\ iterations[f] \in Int /\ iterations \in [Files -> -1 .. def_iterations]
  BY <1>1, <1>2 DEF IInv, Rounds, TypeOK
<1>7. iterations' \in [Files -> -1 .. def_iterations]
  BY <1>1, <1>6
<1>8. TypeOK'
  BY <1>1, <1>2, <1>4, <1>7 DEF TypeOK, Labels
<1>9. TokenAccount' /\ Counted'
  BY <1>1, <1>5 DEF IInv, TokenAccount, Counted
<1>10. Rounds'
  <2>1. \A g \in Files : sub'[g] \notin {"ended", "done"} => iterations'[g] >= 0
    <3> SUFFICES ASSUME NEW g \in Files, sub'[g] \notin {"ended", "done"}
                 PROVE  iterations'[g] >= 0
      OBVIOUS
    <3>1. CASE g = f
      BY <1>1, <1>2, <1>6, <3>1
    <3>2. CASE g # f
      BY <1>1, <1>2, <1>6, <3>2 DEF IInv, Rounds
    <3> QED
      BY <3>1, <3>2
  <2> QED
    BY <1>1, <2>1 DEF IInv, Rounds
<1> QED
  BY <1>8, <1>9, <1>10 DEF IInv

\* wait_iter_start: a token becomes a file that plays.
LEMMA TakeTokenStep ==
    ASSUME IInv, NEW f \in Files, TakeToken(f)
    PROVE  IInv'
<1>1. /\ sub[f] = "wait" /\ sub' = [sub EXCEPT ![f] = "play"]
      /\ iter_start > 0 /\ iter_start' = iter_start - 1
      /\ UNCHANGED <<main, i, iterations, reclaimed, n_replays_ready, n_iters_done,
                     n_replays_done, n_reclaims_done, signal_done>>
  BY DEF TakeToken, mainVars, counters
<1>2. TypeOK /\ sub \in [Files -> Labels] /\ nfiles \in Nat
  BY SomeFiles DEF IInv, TypeOK, Labels
<1>3. sub' \in [Files -> Labels] /\ Opened' = Opened \cup {f}
      /\ Playing' = Playing \cup {f} /\ Done' = Done \ {f}
  BY <1>1, <1>2, Moves DEF Labels
<1>4. Opened' = Opened /\ Done' = Done /\ f \notin Playing
  BY <1>1, <1>3 DEF Opened, Playing, Done
<1>5. Cardinality(Playing') = Cardinality(Playing) + 1 /\ Cardinality(Playing) \in Nat
  BY <1>3, <1>4, OneMore, CountedSets, FileSets
<1>6. iter_start' \in 0 .. nfiles
  BY <1>1, <1>2 DEF TypeOK
<1>7. TypeOK'
  BY <1>1, <1>2, <1>3, <1>6 DEF TypeOK, Labels
<1>8. TokenAccount'
  BY <1>1, <1>2, <1>5 DEF IInv, TokenAccount, TypeOK
<1>9. Counted'
  BY <1>1, <1>4 DEF IInv, Counted
<1>10. Rounds'
  BY <1>1, <1>2 DEF IInv, Rounds, Labels
<1> QED
  BY <1>7, <1>8, <1>9, <1>10 DEF IInv

\* set_iter_done: a file that plays becomes one that is counted.
LEMMA PlayEndsStep ==
    ASSUME IInv, NEW f \in Files, PlayEnds(f)
    PROVE  IInv'
<1>1. /\ sub[f] = "play" /\ sub' = [sub EXCEPT ![f] = "loop"]
      /\ n_iters_done' = n_iters_done + 1
      /\ UNCHANGED <<main, i, iterations, reclaimed, iter_start, n_replays_ready,
                     n_replays_done, n_reclaims_done, signal_done>>
  BY DEF PlayEnds, set_cv, mainVars
<1>2. TypeOK /\ sub \in [Files -> Labels] /\ nfiles \in Nat
  BY SomeFiles DEF IInv, TypeOK, Labels
<1>3. sub' \in [Files -> Labels] /\ Opened' = Opened \cup {f}
      /\ Playing' = Playing \ {f} /\ Done' = Done \ {f}
  BY <1>1, <1>2, Moves DEF Labels
<1>4. Opened' = Opened /\ Done' = Done /\ f \in Playing
  BY <1>1, <1>3 DEF Opened, Playing, Done
<1>5. /\ Cardinality(Playing') = Cardinality(Playing) - 1
      /\ Cardinality(Playing) \in Nat /\ Cardinality(Playing') \in Nat
  <2>1. Playing' \in SUBSET Files
    BY <1>3, CountedSets
  <2> QED
    BY <1>3, <1>4, <2>1, OneLess, CountedSets, FileSets
<1>6. TokenAccount'
  BY <1>1, <1>2, <1>5 DEF IInv, TokenAccount, TypeOK
<1>7. n_iters_done' \in 0 .. nfiles
  BY <1>1, <1>2, <1>5, <1>6, SomeFiles DEF IInv, TokenAccount, TypeOK
<1>8. TypeOK'
  BY <1>1, <1>2, <1>3, <1>7 DEF TypeOK, Labels
<1>9. Counted'
  BY <1>1, <1>4 DEF IInv, Counted
<1>10. Rounds'
  BY <1>1, <1>2 DEF IInv, Rounds, Labels
<1> QED
  BY <1>6, <1>8, <1>9, <1>10 DEF IInv

\* set_replay_done
LEMMA ReplayDoneStep ==
    ASSUME IInv, NEW f \in Files, ReplayDone(f)
    PROVE  IInv'
<1>1. /\ sub[f] = "ended" /\ sub' = [sub EXCEPT ![f] = "done"]
      /\ n_replays_done' = n_replays_done + 1
      /\ UNCHANGED <<main, i, iterations, reclaimed, iter_start, n_replays_ready,
                     n_iters_done, n_reclaims_done, signal_done>>
  BY DEF ReplayDone, set_cv, mainVars
<1>2. TypeOK /\ sub \in [Files -> Labels]
  BY DEF IInv, TypeOK, Labels
<1>3. sub' \in [Files -> Labels] /\ Opened' = Opened \cup {f}
      /\ Playing' = Playing \ {f} /\ Done' = Done \cup {f}
  BY <1>1, <1>2, Moves DEF Labels
<1>4. Opened' = Opened /\ Playing' = Playing /\ f \notin Done
  BY <1>1, <1>3 DEF Opened, Playing, Done
<1>5. main \notin {"reclaims", "release", "exit"} /\ n_replays_done = Cardinality(Done)
  BY <1>4 DEF IInv, Counted
<1>6. n_replays_done' = Cardinality(Done') /\ n_replays_done' \in 0 .. nfiles
  <2>1. Done' \in SUBSET Files
    BY <1>3, CountedSets
  <2> QED
    BY <1>1, <1>3, <1>4, <1>5, <2>1, OneMore, CountedSets, FileSets
<1>7. TypeOK'
  BY <1>1, <1>2, <1>3, <1>6 DEF TypeOK, Labels
<1>8. TokenAccount' /\ Counted'
  BY <1>1, <1>4, <1>5, <1>6 DEF IInv, TokenAccount, Counted
<1>9. Rounds'
  BY <1>1, <1>2 DEF IInv, Rounds, Labels
<1> QED
  BY <1>7, <1>8, <1>9 DEF IInv

\* set_reclaim_done
LEMMA RecDoneStep ==
    ASSUME IInv, NEW f \in Files, RecDone(f)
    PROVE  IInv'
<1>1. /\ f \notin reclaimed /\ reclaimed' = reclaimed \cup {f}
      /\ n_reclaims_done' = n_reclaims_done + 1
      /\ UNCHANGED <<main, i, sub, iterations, iter_start, n_replays_ready,
                     n_iters_done, n_replays_done, signal_done>>
  BY DEF RecDone, set_cv, mainVars, subVars
<1>2. TypeOK /\ reclaimed \in SUBSET Files /\ reclaimed' \in SUBSET Files
  BY <1>1 DEF IInv, TypeOK
<1>3. Opened' = Opened /\ Playing' = Playing /\ Done' = Done
  BY <1>1, Stays
<1>4. main \notin {"release", "exit"} /\ n_reclaims_done = Cardinality(reclaimed)
  BY <1>1 DEF IInv, Counted
<1>5. n_reclaims_done' = Cardinality(reclaimed') /\ n_reclaims_done' \in 0 .. nfiles
  BY <1>1, <1>2, <1>4, OneMore, FileSets
<1>6. TypeOK'
  BY <1>1, <1>2, <1>5 DEF TypeOK
<1>7. TokenAccount' /\ Counted'
  BY <1>1, <1>3, <1>4, <1>5 DEF IInv, TokenAccount, Counted
<1>8. Rounds'
  BY <1>1 DEF IInv, Rounds
<1> QED
  BY <1>6, <1>7, <1>8 DEF IInv

-----------------------------------------------------------------------------
(* The steps of main. *)

\* wait_replays_ready returns when all files are open.
LEMMA ReplaysReadyStep ==
    ASSUME IInv, ReplaysReady
    PROVE  IInv'
<1>1. /\ main = "ready" /\ main' = "start"
      /\ n_replays_ready >= nfiles /\ n_replays_ready' = 0
      /\ UNCHANGED <<i, sub, iterations, reclaimed, iter_start, n_iters_done, n_replays_done,
                     n_reclaims_done, signal_done>>
  BY DEF ReplaysReady, wait_cv, subVars
<1>2. TypeOK /\ nfiles \in Nat
  BY SomeFiles DEF IInv
<1>3. Opened' = Opened /\ Playing' = Playing /\ Done' = Done
  BY <1>1, Stays
<1>4. Opened = Files
  BY <1>1, CountedSets, FileSets DEF IInv, Counted
<1>5. TypeOK'
  BY <1>1, <1>2 DEF TypeOK
<1>6. TokenAccount' /\ Counted' /\ Rounds'
  BY <1>1, <1>3, <1>4 DEF IInv, TokenAccount, Counted, Rounds
<1> QED
  BY <1>5, <1>6 DEF IInv

\* start_iter finds no token and nobody playing, and adds a token per file.
LEMMA StartIterStep ==
    ASSUME IInv, StartIter
    PROVE  IInv'
<1>1. /\ main = "start" /\ main' = "iters" /\ iter_start' = nfiles
      /\ UNCHANGED <<i, sub, iterations, reclaimed, n_replays_ready, n_iters_done,
                     n_replays_done, n_reclaims_done, signal_done>>
  BY DEF StartIter, subVars, counters
<1>2. TypeOK /\ nfiles \in Nat
  BY SomeFiles DEF IInv
<1>3. Opened' = Opened /\ Playing' = Playing /\ Done' = Done
  BY <1>1, Stays
<1>4. /\ Cardinality(Playing) \in Nat
      /\ iter_start + Cardinality(Playing) + n_iters_done = 0
  BY <1>1, CountedSets, FileSets DEF IInv, TokenAccount
<1>5. Cardinality(Playing) = 0 /\ n_iters_done = 0
  BY <1>2, <1>4 DEF TypeOK
<1>6. TypeOK'
  BY <1>1, <1>2 DEF TypeOK
<1>7. TokenAccount'
  BY <1>1, <1>2, <1>3, <1>5 DEF TokenAccount
<1>8. Counted' /\ Rounds'
  BY <1>1, <1>3 DEF IInv, Counted, Rounds
<1> QED
  BY <1>6, <1>7, <1>8 DEF IInv

\* wait_iters_done returns when all tokens have come back as counts.
LEMMA ItersDoneStep ==
    ASSUME IInv, ItersDone
    PROVE  IInv'
<1>1. /\ main = "iters" /\ main' = IF i + 1 < def_iterations THEN "start" ELSE "replays"
      /\ n_iters_done >= nfiles /\ n_iters_done' = 0 /\ i' = i + 1
      /\ UNCHANGED <<sub, iterations, reclaimed, iter_start, n_replays_ready,
                     n_replays_done, n_reclaims_done, signal_done>>
  BY DEF ItersDone, wait_cv, subVars
<1>2. TypeOK /\ nfiles \in Nat /\ i \in Nat /\ i < def_iterations
  BY <1>1, SomeFiles DEF IInv, TypeOK, Rounds
<1>3. Opened' = Opened /\ Playing' = Playing /\ Done' = Done
  BY <1>1, Stays
<1>4. /\ Cardinality(Playing) \in Nat
      /\ iter_start + Cardinality(Playing) + n_iters_done = nfiles
  BY <1>1, CountedSets, FileSets DEF IInv, TokenAccount
<1>5. Cardinality(Playing) = 0 /\ iter_start = 0
  BY <1>1, <1>2, <1>4 DEF TypeOK
<1>6. TypeOK'
  BY <1>1, <1>2 DEF TypeOK
<1>7. TokenAccount'
  BY <1>1, <1>3, <1>5 DEF TokenAccount
<1>8. Counted' /\ Rounds'
  BY <1>1, <1>2, <1>3 DEF IInv, Counted, Rounds
<1> QED
  BY <1>6, <1>7, <1>8 DEF IInv

\* wait_replays_done returns when all sub threads are through.
LEMMA ReplaysDoneStep ==
    ASSUME IInv, ReplaysDone
    PROVE  IInv'
<1>1. /\ main = "replays" /\ main' = "reclaims"
      /\ n_replays_done >= nfiles /\ n_replays_done' = 0
      /\ UNCHANGED <<i, sub, iterations, reclaimed, iter_start, n_replays_ready, n_iters_done,
                     n_reclaims_done, signal_done>>
  BY DEF ReplaysDone, wait_cv, subVars
<1>2. TypeOK /\ nfiles \in Nat
  BY SomeFiles DEF IInv
<1>3. Opened' = Opened /\ Playing' = Playing /\ Done' = Done
  BY <1>1, Stays
<1>4. Done = Files
  BY <1>1, CountedSets, FileSets DEF IInv, Counted
<1>5. TypeOK'
  BY <1>1, <1>2 DEF TypeOK
<1>6. TokenAccount' /\ Counted' /\ Rounds'
  BY <1>1, <1>3, <1>4 DEF IInv, TokenAccount, Counted, Rounds
<1> QED
  BY <1>5, <1>6 DEF IInv

\* wait_reclaims_done returns when all rec threads are through.
LEMMA ReclaimsDoneStep ==
    ASSUME IInv, ReclaimsDone
    PROVE  IInv'
<1>1. /\ main = "reclaims" /\ main' = "release"
      /\ n_reclaims_done >= nfiles /\ n_reclaims_done' = 0
      /\ UNCHANGED <<i, sub, iterations, reclaimed, iter_start, n_replays_ready, n_iters_done,
                     n_replays_done, signal_done>>
  BY DEF ReclaimsDone, wait_cv, subVars
<1>2. TypeOK /\ nfiles \in Nat /\ reclaimed \in SUBSET Files
  BY SomeFiles DEF IInv, TypeOK
<1>3. Opened' = Opened /\ Playing' = Playing /\ Done' = Done
  BY <1>1, Stays
<1>4. reclaimed = Files
  BY <1>1, <1>2, FileSets DEF IInv, Counted
<1>5. TypeOK'
  BY <1>1, <1>2 DEF TypeOK
<1>6. TokenAccount' /\ Counted' /\ Rounds'
  BY <1>1, <1>3, <1>4 DEF IInv, TokenAccount, Counted, Rounds
<1> QED
  BY <1>5, <1>6 DEF IInv

\* rem_input_files, signals and stuttering leave the counters and the threads alone.
LEMMA QuietStep ==
    ASSUME IInv, RemInputFiles \/ Signal \/ UNCHANGED vars
    PROVE  IInv'
<1>1. /\ UNCHANGED <<i, sub, iterations, reclaimed, iter_start, n_replays_ready, n_iters_done,
                     n_replays_done, n_reclaims_done>>
      /\ main' = main \/ (main = "release" /\ main' = "exit")
      /\ signal_done' \in BOOLEAN
  BY DEF RemInputFiles, Signal, vars, mainVars, subVars, counters, IInv, TypeOK
<1>2. Opened' = Opened /\ Playing' = Playing /\ Done' = Done
  BY <1>1, Stays
<1>3. TypeOK'
  BY <1>1 DEF IInv, TypeOK
<1>4. TokenAccount' /\ Counted' /\ Rounds'
  BY <1>1, <1>2 DEF IInv, TokenAccount, Counted, Rounds
<1> QED
  BY <1>3, <1>4 DEF IInv

-----------------------------------------------------------------------------
\* The tokens and the counters of every start, whoever takes whose token.
THEOREM InductiveInvariant == Spec => []IInv
<1>1. Init => IInv
  <2> SUFFICES ASSUME Init
               PROVE  IInv
    OBVIOUS
  <2>1. Opened = {} /\ Playing = {} /\ Done = {}
    BY DEF Init, Opened, Playing, Done
  <2>2. TypeOK
    <3>1. sub \in [Files -> {"open", "loop", "wait", "play", "ended", "done"}]
      BY DEF Init
    <3>2. iterations \in [Files -> -1 .. def_iterations] /\ i \in 0 .. def_iterations
      BY DEF Init
    <3>3. main = "ready" /\ reclaimed \subseteq Files /\ signal_done \in BOOLEAN
      BY DEF Init
    <3>4. /\ iter_start \in 0 .. nfiles /\ n_replays_ready \in 0 .. nfiles
          /\ n_iters_done \in 0 .. nfiles /\ n_replays_done \in 0 .. nfiles
          /\ n_reclaims_done \in 0 .. nfiles
      BY SomeFiles DEF Init
    <3> QED
      BY <3>1, <3>2, <3>3, <3>4 DEF TypeOK
  <2>3. TokenAccount /\ Counted
    BY <2>1, NoFiles DEF Init, TokenAccount, Counted
  <2>4. Rounds
    BY DEF Init, Rounds
  <2> QED
    BY <2>2, <2>3, <2>4 DEF IInv
<1>2. IInv /\ [Next]_vars => IInv'
  <2> SUFFICES ASSUME IInv, [Next]_vars
               PROVE  IInv'
    OBVIOUS
  <2>1. ASSUME NEW f \in Files, SubStep(f) \/ RecDone(f)
        PROVE  IInv'
    BY <2>1, ReadyStep, LoopStep, TakeTokenStep, PlayEndsStep, ReplayDoneStep, RecDoneStep
       DEF SubStep
  <2>2. CASE MainStep
    BY <2>2, ReplaysReadyStep, StartIterStep, ItersDoneStep, ReplaysDoneStep, ReclaimsDoneStep,
       QuietStep DEF MainStep
  <2>3. CASE Signal \/ Exited \/ UNCHANGED vars
    BY <2>3, QuietStep DEF Exited
  <2> QED
    BY <2>1, <2>2, <2>3 DEF Next
<1> QED
  BY <1>1, <1>2, PTL DEF Spec

\* Between two iterations there is no token, and in one there are as many as files.
THEOREM TokensBalance == Spec => []TokenAccount
<1>1. IInv => TokenAccount
  BY DEF IInv
<1> QED
  BY <1>1, InductiveInvariant, PTL

\* main comes to tip_release only when both threads of every file are through.
THEOREM ReleasedUnused == Spec => []Released
<1>1. IInv => Released
  BY DEF IInv, Counted, Done, Released
<1> QED
  BY <1>1, InductiveInvariant, PTL
=============================================================================
