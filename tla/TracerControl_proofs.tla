------------------------ MODULE TracerControl_proofs ------------------------
(***************************************************************************)
(* For any number of CPUs, sub-buffers and signals: the counters of a      *)
(* blktrace run count what they say, the trace starts only with a tracer   *)
(* on every CPU, nobody is joined too early, and, when no signal arrives   *)
(* before the trace was started, no sub-buffer is left behind.             *)
(*   For any traces of any number of CPUs, bunches and pools of IOCBs:     *)
(* btreplay submits what btrecord recorded, and not too early.  (This part *)
(* is on RecordReplay, and shares nothing with the other.)                 *)
(***************************************************************************)
EXTENDS TracerControl, RecordReplay, FiniteSetTheorems, SequenceTheorems, TLAPS

USE NCpusAssumption, MaxDataAssumption, SignalsAssumption, ModesAssumption

-----------------------------------------------------------------------------
(* Counting tracers. *)

\* A set of CPUs has at most NCpus elements, and all of them if it has NCpus.
LEMMA CpuSets ==
    ASSUME NEW S \in SUBSET Cpus
    PROVE  /\ IsFiniteSet(S)
           /\ Cardinality(S) \in 0 .. NCpus
           /\ Cardinality(S) = NCpus => S = Cpus
<1>1. IsFiniteSet(Cpus) /\ Cardinality(Cpus) = NCpus
  BY FS_Interval DEF Cpus
<1>2. /\ IsFiniteSet(S)
      /\ Cardinality(S) <= NCpus
      /\ Cardinality(S) = NCpus => S = Cpus
  BY <1>1, FS_Subset
<1> QED
  BY <1>2, FS_CardinalityType

\* One more tracer in a set of tracers is one more in its number.
LEMMA OneMore ==
    ASSUME NEW S \in SUBSET Cpus, NEW c \in Cpus, c \notin S
    PROVE  Cardinality(S \cup {c}) = Cardinality(S) + 1
BY CpuSets, FS_AddElement

\* A step that does not create a thread and is no tracer's leaves pc and the
\* counters alone.
LEMMA QuietStep ==
    ASSUME [Next]_vars
    PROVE  \/ UNCHANGED <<pc, nthreads_running, nthreads_error, nthreads_leaving>>
           \/ CreateThread
           \/ \E c \in Cpus : TracerStep(c)
BY DEF Next, vars, mainVars, tracerVars, countVars, mtVars, stopVars, kernelVars,
       MainStep, SetUp, ListTracer, CreateEnds, MtWaitLoop, WaitTracersReady,
       UnblockTracers, StartButs, GiveUp, ProcessTraceBufs, WaitTracersLeaving,
       JoinTracers, ExitTracing, WaitTimesOut, HandleSigint, StopStep, StopIoctl,
       StopTell, StopTold, StopBroadcast, Produce, KeepWaiting, Exited

\* The three counters are the numbers of tracers in three sets of places, and
\* every step that moves a tracer into one of them counts it.
LEMMA CountedStep ==
    ASSUME TypeOK, Counted, [Next]_vars
    PROVE  Counted'
<1> USE DEF Running, Failed, Gone
<1>1. pc \in [Cpus -> {"none", "init", "check", "block", "loop",
                       "poll", "drain", "close", "left", "error"}]
  BY DEF TypeOK
<1>2. CASE UNCHANGED <<pc, nthreads_running, nthreads_error, nthreads_leaving>>
  BY <1>2 DEF Counted
<1>3. ASSUME UNCHANGED <<nthreads_running, nthreads_error, nthreads_leaving>>,
             Running' = Running, Failed' = Failed, Gone' = Gone
      PROVE  Counted'
  BY <1>3 DEF Counted
<1>4. CASE CreateThread
  <2>1. /\ created + 1 \in Cpus
        /\ pc[created + 1] = "none"
        /\ pc' = [pc EXCEPT ![created + 1] = "init"]
        /\ UNCHANGED <<nthreads_running, nthreads_error, nthreads_leaving>>
    BY <1>4 DEF CreateThread, countVars, TypeOK, Cpus
  <2> QED
    BY <1>1, <1>3, <2>1
<1>5. ASSUME NEW c \in Cpus, TracerStep(c)
      PROVE  Counted'
  <2>1. CASE TracerReady(c)
    <3>1. /\ pc[c] = "init"
          /\ UNCHANGED nthreads_leaving
      BY <2>1 DEF TracerReady
    <3>2. CASE /\ pc' = [pc EXCEPT ![c] = "check"]
               /\ nthreads_running' = nthreads_running + 1
               /\ UNCHANGED nthreads_error
      <4>1. Running' = Running \cup {c} /\ c \notin Running
        BY <1>1, <3>1, <3>2
      <4>2. Failed' = Failed /\ Gone' = Gone
        BY <1>1, <3>1, <3>2
      <4>3. Cardinality(Running') = Cardinality(Running) + 1
        BY <4>1, OneMore
      <4> QED
        BY <3>1, <3>2, <4>2, <4>3 DEF Counted
    <3>3. CASE /\ pc' = [pc EXCEPT ![c] = "error"]
               /\ nthreads_error' = nthreads_error + 1
               /\ UNCHANGED nthreads_running
      <4>1. Failed' = Failed \cup {c} /\ c \notin Failed
        BY <1>1, <3>1, <3>3
      <4>2. Running' = Running /\ Gone' = Gone
        BY <1>1, <3>1, <3>3
      <4>3. Cardinality(Failed') = Cardinality(Failed) + 1
        BY <4>1, OneMore
      <4> QED
        BY <3>1, <3>3, <4>2, <4>3 DEF Counted
    <3> QED
      BY <2>1, <3>2, <3>3 DEF TracerReady
  <2>2. CASE TracerLeave(c)
    <3>1. /\ pc[c] = "close"
          /\ pc' = [pc EXCEPT ![c] = "left"]
          /\ nthreads_leaving' = nthreads_leaving + 1
          /\ UNCHANGED <<nthreads_running, nthreads_error>>
      BY <2>2 DEF TracerLeave
    <3>2. Gone' = Gone \cup {c} /\ c \notin Gone
      BY <1>1, <3>1
    <3>3. Running' = Running /\ Failed' = Failed
      BY <1>1, <3>1
    <3>4. Cardinality(Gone') = Cardinality(Gone) + 1
      BY <3>2, OneMore
    <3> QED
      BY <3>1, <3>3, <3>4 DEF Counted
  <2>3. CASE TracerCheck(c) \/ TracerBlock(c) \/ TracerLoop(c) \/ TracerPoll(c)
             \/ TracerDrain(c)
    <3>1. UNCHANGED <<nthreads_running, nthreads_error, nthreads_leaving>>
      BY <2>3 DEF TracerCheck, TracerBlock, TracerLoop, TracerPoll, TracerDrain,
                  countVars
    <3>2. PICK l \in {"check", "block", "loop", "poll", "drain", "close"} :
               /\ pc[c] \in {"check", "block", "loop", "poll", "drain"}
               /\ pc' = [pc EXCEPT ![c] = l]
      <4>1. CASE TracerDrain(c)
        BY <1>1, <4>1 DEF TracerDrain
      <4>2. CASE TracerPoll(c)
        BY <4>2 DEF TracerPoll
      <4> QED
        BY <2>3, <4>1, <4>2 DEF TracerCheck, TracerBlock, TracerLoop
    <3> QED
      BY <1>1, <1>3, <3>1, <3>2
  <2> QED
    BY <1>5, <2>1, <2>2, <2>3 DEF TracerStep
<1> QED
  BY <1>2, <1>4, <1>5, QuietStep

-----------------------------------------------------------------------------
(* The invariant holds initially and every step keeps each of its parts. *)

LEMMA InitIInv == Init => IInv
<1> SUFFICES ASSUME Init
             PROVE  IInv
  OBVIOUS
<1> USE DEF Init
<1>1. TypeOK
  <2>1. /\ 0 \in 0 .. NCpus
        /\ 0 \in 0 .. MaxData
        /\ MaxSignals \in 0 .. MaxSignals
    OBVIOUS
  <2> QED
    BY <2>1, Zenon DEF TypeOK, NoOwner
<1>2. Counted
  <2>1. Running = {} /\ Failed = {} /\ Gone = {}
    BY DEF Running, Failed, Gone
  <2> QED
    BY <2>1, FS_EmptySet DEF Counted
<1>3. Listed /\ LeavingMeansAll /\ QuitOrder
  BY DEF Listed, LeavingMeansAll, QuitOrder, Stoppers
<1>4. \A c \in Cpus : avail[c] <= produced[c]
  OBVIOUS
<1> QED
  BY <1>1, <1>2, <1>3, <1>4 DEF IInv

\* Who moves whom: all a step can do to pc.
LEMMA PcStep ==
    ASSUME TypeOK, [Next]_vars
    PROVE  \/ UNCHANGED pc
           \/ \E c \in Cpus, l \in {"init", "check", "block", "loop", "poll",
                                    "drain", "close", "left", "error"} :
                 pc' = [pc EXCEPT ![c] = l]
<1>1. CASE CreateThread
  <2>1. created + 1 \in Cpus
    BY <1>1 DEF CreateThread, TypeOK, Cpus
  <2> QED
    BY <1>1, <2>1 DEF CreateThread
<1>2. ASSUME NEW c \in Cpus, TracerStep(c)
      PROVE  \/ UNCHANGED pc
             \/ \E l \in {"check", "block", "loop", "poll", "drain", "close",
                          "left", "error"} : pc' = [pc EXCEPT ![c] = l]
  BY <1>2 DEF TracerStep, TracerReady, TracerCheck, TracerBlock, TracerLoop,
              TracerPoll, TracerDrain, TracerLeave
<1> QED
  BY <1>1, <1>2, QuietStep

LEMMA TypeStep ==
    ASSUME IInv, [Next]_vars
    PROVE  TypeOK' /\ (\A c \in Cpus : avail[c] <= produced[c])'
<1> USE DEF vars, mainVars, tracerVars, countVars, mtVars, stopVars, kernelVars
<1>0. TypeOK /\ Counted
  BY DEF IInv
<1>1. /\ nthreads_running' \in 0 .. NCpus
      /\ nthreads_error' \in 0 .. NCpus
      /\ nthreads_leaving' \in 0 .. NCpus
  <2>1. Counted'
    BY <1>0, CountedStep
  <2>2. /\ Running' \in SUBSET Cpus
        /\ Failed' \in SUBSET Cpus
        /\ Gone' \in SUBSET Cpus
    BY DEF Running, Failed, Gone
  <2> QED
    BY <2>1, <2>2, CpuSets DEF Counted
<1>2. pc' \in [Cpus -> {"none", "init", "check", "block", "loop",
                        "poll", "drain", "close", "left", "error"}]
  BY <1>0, PcStep DEF TypeOK
<1>3. CASE MainStep
  <2>1. waiting' \subseteq Cpus \cup {Master}
    BY <1>0, <1>3 DEF TypeOK, MainStep, SetUp, CreateThread, ListTracer, CreateEnds,
       MtWaitLoop, WaitTracersReady, UnblockTracers, SignalAll, StartButs, GiveUp,
       ProcessTraceBufs, WaitTracersLeaving, JoinTracers, ExitTracing
  <2>2. /\ main' \in {"setup", "create", "ready", "decide", "start", "stop",
                       "process", "leaving", "join", "atexit", "exited"}
        /\ created' \in 0 .. NCpus
        /\ trace' \in {"setup", "running", "stopped"}
    BY <1>0, <1>3 DEF TypeOK, MainStep, SetUp, CreateThread, ListTracer, CreateEnds,
       MtWaitLoop, WaitTracersReady, UnblockTracers, StartButs, GiveUp,
       ProcessTraceBufs, WaitTracersLeaving, JoinTracers, ExitTracing
  <2>3. tracers_run' \in BOOLEAN
    BY <1>0, <1>3 DEF TypeOK, MainStep, SetUp, CreateThread, ListTracer, CreateEnds,
       MtWaitLoop, WaitTracersReady, UnblockTracers, StartButs, GiveUp,
       ProcessTraceBufs, WaitTracersLeaving, JoinTracers, ExitTracing
  <2>4. stop' \in [Stoppers -> {"idle", "ioctl", "tell", "broadcast"}]
    BY <1>0, <1>3 DEF TypeOK, MainStep, SetUp, CreateThread, ListTracer, CreateEnds,
       MtWaitLoop, WaitTracersReady, UnblockTracers, StartButs, GiveUp,
       ProcessTraceBufs, WaitTracersLeaving, JoinTracers, ExitTracing
  <2>5. UNCHANGED <<is_done, mt_owner, done, told, signals, avail, produced>>
    BY <1>3 DEF MainStep, SetUp, CreateThread, ListTracer, CreateEnds,
       MtWaitLoop, WaitTracersReady, UnblockTracers, StartButs, GiveUp,
       ProcessTraceBufs, WaitTracersLeaving, JoinTracers, ExitTracing
  <2> QED
    BY <1>0, <1>1, <1>2, <2>1, <2>2, <2>3, <2>4, <2>5 DEF IInv, TypeOK
<1>4. CASE WaitTimesOut \/ KeepWaiting \/ Exited \/ UNCHANGED vars
  <2>1. waiting' \subseteq waiting
    BY <1>4 DEF WaitTimesOut, KeepWaiting, Exited
  <2>2. UNCHANGED <<main, created, is_done, tracers_run, mt_owner, done, stop,
                    told, signals, trace, avail, produced>>
    BY <1>4 DEF WaitTimesOut, KeepWaiting, Exited
  <2> QED
    BY <1>0, <1>1, <1>2, <2>1, <2>2 DEF IInv, TypeOK
<1>5. ASSUME NEW s \in Stoppers, StopStep(s) \/ HandleSigint
      PROVE  TypeOK' /\ (\A c \in Cpus : avail[c] <= produced[c])'
  <2>1. /\ UNCHANGED <<main, created, tracers_run, mt_owner, avail, produced>>
        /\ waiting' \subseteq waiting
        /\ trace' \in {"setup", "running", "stopped"}
        /\ signals' \in 0 .. MaxSignals
    BY <1>0, <1>5 DEF TypeOK, StopStep, StopIoctl, StopTell, StopTold, StopBroadcast,
                      SignalAll, HandleSigint
  <2>2. stop' \in [Stoppers -> {"idle", "ioctl", "tell", "broadcast"}]
    BY <1>0, <1>5 DEF TypeOK, StopStep, StopIoctl, StopTell, StopTold, StopBroadcast,
                      HandleSigint, Stoppers
  <2>3. told' \in [Stoppers -> 0 .. NCpus]
    BY <1>0, <1>5 DEF TypeOK, StopStep, StopIoctl, StopTell, StopTold, StopBroadcast,
                      HandleSigint
  <2>4. is_done' \in [Cpus -> BOOLEAN]
    BY <1>0, <1>5 DEF TypeOK, StopStep, StopIoctl, StopTell, StopTold, StopBroadcast,
                      HandleSigint
  <2>5. done' \in BOOLEAN
    BY <1>0, <1>5 DEF TypeOK, StopStep, StopIoctl, StopTell, StopTold, StopBroadcast,
                      HandleSigint
  <2> QED
    BY <1>0, <1>1, <1>2, <2>1, <2>2, <2>3, <2>4, <2>5 DEF IInv, TypeOK
<1>6. ASSUME NEW c \in Cpus, TracerStep(c)
      PROVE  TypeOK' /\ (\A d \in Cpus : avail[d] <= produced[d])'
  <2>1. /\ UNCHANGED <<main, created, is_done, tracers_run, done, stop, told,
                       signals, trace, produced>>
        /\ mt_owner' \in Cpus \cup {NoOwner}
    BY <1>0, <1>6 DEF TypeOK, TracerStep, TracerReady, TracerCheck, TracerBlock,
                      TracerLoop, TracerPoll, TracerDrain, TracerLeave
  <2>2. waiting' \subseteq Cpus \cup {Master}
    BY <1>0, <1>6 DEF TypeOK, TracerStep, TracerReady, TracerCheck, TracerBlock,
                      TracerLoop, TracerPoll, TracerDrain, TracerLeave, SignalOne
  <2>3. /\ avail' \in [Cpus -> 0 .. MaxData]
        /\ \A d \in Cpus : avail'[d] <= avail[d]
    BY <1>0, <1>6 DEF TypeOK, TracerStep, TracerReady, TracerCheck, TracerBlock,
                      TracerLoop, TracerPoll, TracerDrain, TracerLeave, Read
  <2> QED
    BY <1>0, <1>1, <1>2, <2>1, <2>2, <2>3 DEF IInv, TypeOK
<1>7. ASSUME NEW c \in Cpus, Produce(c)
      PROVE  TypeOK' /\ (\A d \in Cpus : avail[d] <= produced[d])'
  BY <1>0, <1>1, <1>2, <1>7 DEF IInv, TypeOK, Produce
<1> QED
  BY <1>3, <1>4, <1>5, <1>6, <1>7 DEF Next, Stoppers

\* wait_tracers_ready waits for every thread on the list, and then there is no
\* other; unblock_tracers runs only if all CPUs have a running tracer.
LEMMA ListedStep ==
    ASSUME IInv, [Next]_vars
    PROVE  Listed'
<1> USE DEF vars, mainVars, tracerVars, countVars, mtVars, stopVars, kernelVars
<1>0. TypeOK /\ Counted /\ Listed
  BY DEF IInv
<1>1. CASE UNCHANGED <<main, created, pc>>
  BY <1>0, <1>1 DEF Listed, Running
<1>2. CASE SetUp \/ CreateThread \/ ListTracer \/ CreateEnds
  <2>1. CASE SetUp
    BY <1>0, <2>1 DEF Listed, MainAt, SetUp, Cpus
  <2>2. CASE CreateThread
    <3>1. /\ main = "create" /\ UNCHANGED <<main, created>>
          /\ created + 1 \in Cpus
          /\ pc' = [pc EXCEPT ![created + 1] = "init"]
      BY <1>0, <2>2 DEF CreateThread, MainAt, TypeOK, Cpus
    <3> QED
      BY <1>0, <3>1 DEF Listed, TypeOK, Cpus
  <2>3. CASE ListTracer
    BY <1>0, <2>3 DEF Listed, TypeOK, MainAt, ListTracer, Cpus
  <2>4. CASE CreateEnds
    BY <1>0, <2>4, SMTT(30) DEF Listed, TypeOK, MainAt, CreateEnds, Cpus
  <2> QED
    BY <1>2, <2>1, <2>2, <2>3, <2>4
<1>3. CASE WaitTracersReady /\ main' # main
  <2>1. /\ main = "ready"
        /\ main' = "decide"
        /\ UNCHANGED <<created, pc>>
        /\ nthreads_running + nthreads_error >= created
    BY <1>3 DEF WaitTracersReady, MtWaitLoop, MainAt, AllReady
  <2>2. \A c \in Cpus : pc[c] # "init"
    <3> DEFINE Settled == Running \cup Failed
    <3>1. Settled \in SUBSET (1 .. created) /\ created \in 0 .. NCpus
      BY <1>0, <2>1 DEF Listed, TypeOK, Running, Failed, Cpus
    <3>2. IsFiniteSet(1 .. created) /\ Cardinality(1 .. created) = created
      BY <3>1, FS_Interval
    <3>3. Cardinality(Settled) = Cardinality(Running) + Cardinality(Failed)
      <4>1. Running \cap Failed = {}
        BY DEF Running, Failed
      <4>2. IsFiniteSet(Running) /\ IsFiniteSet(Failed)
        BY CpuSets DEF Running, Failed
      <4>3. /\ Cardinality(Running) \in Nat
            /\ Cardinality(Failed) \in Nat
            /\ Cardinality(Running \cap Failed) = 0
        BY <4>1, <4>2, FS_CardinalityType, FS_EmptySet
      <4>4. Cardinality(Running \cup Failed)
              = Cardinality(Running) + Cardinality(Failed) - Cardinality(Running \cap Failed)
        BY <4>2, FS_Union
      <4> QED
        BY <4>3, <4>4
    <3>4. Settled = 1 .. created
      <4>1. Cardinality(Settled) >= created
        BY <1>0, <2>1, <3>3 DEF Counted
      <4>2. Cardinality(Settled) <= created /\ Cardinality(Settled) \in Nat
        BY <3>1, <3>2, FS_Subset, FS_CardinalityType
      <4>3. Cardinality(Settled) = Cardinality(1 .. created)
        BY <3>1, <3>2, <4>1, <4>2
      <4> QED
        BY <3>1, <3>2, <4>3, FS_Subset
    <3>5. ASSUME NEW c \in Cpus
          PROVE  pc[c] # "init"
      <4>1. CASE c \in 1 .. created
        BY <3>4, <4>1 DEF Running, Failed
      <4>2. CASE c \notin 1 .. created
        BY <1>0, <2>1, <3>1, <4>2 DEF Listed, Cpus
      <4> QED
        BY <4>1, <4>2
    <3> QED
      BY <3>5
  <2> QED
    BY <1>0, <2>1, <2>2 DEF Listed
<1>4. CASE UnblockTracers
  <2>1. /\ main = "decide" /\ main' = "start"
        /\ UNCHANGED <<created, pc>>
        /\ nthreads_running = NCpus
    BY <1>4 DEF UnblockTracers, MainAt
  <2>2. Running = Cpus
    BY <1>0, <2>1, CpuSets DEF Counted, Running
  <2> QED
    BY <1>0, <2>1, <2>2 DEF Listed, Running
<1>5. CASE \/ StartButs \/ GiveUp \/ ProcessTraceBufs
           \/ (WaitTracersLeaving /\ main' # main) \/ JoinTracers \/ ExitTracing
  BY <1>0, <1>5 DEF Listed, MainAt, StartButs, GiveUp, ProcessTraceBufs,
                    WaitTracersLeaving, MtWaitLoop, JoinTracers, ExitTracing
<1>6. ASSUME NEW c \in Cpus, TracerStep(c)
      PROVE  Listed'
  <2>1. UNCHANGED <<main, created>>
    BY <1>6 DEF TracerStep, TracerReady, TracerCheck, TracerBlock, TracerLoop,
                TracerPoll, TracerDrain, TracerLeave
  <2>2. \/ UNCHANGED pc
        \/ /\ pc[c] = "init"
           /\ \E l \in {"check", "error"} : pc' = [pc EXCEPT ![c] = l]
        \/ /\ pc[c] \in {"check", "block", "loop", "poll", "drain", "close"}
           /\ \E l \in {"check", "block", "loop", "poll", "drain", "close", "left"} :
                 pc' = [pc EXCEPT ![c] = l]
    BY <1>6 DEF TracerStep, TracerReady, TracerCheck, TracerBlock, TracerLoop,
                TracerPoll, TracerDrain, TracerLeave
  <2>3. pc[c] = "init" => main \in {"setup", "create", "ready"}
    BY <1>0 DEF Listed
  <2>4. \A d \in Cpus : /\ pc'[d] = "none" <=> pc[d] = "none"
                        /\ pc'[d] = "init" => pc[d] = "init"
    BY <1>0, <2>2 DEF TypeOK
  <2>5. main = "start" => Running' = Running
    BY <1>0, <2>2, <2>3 DEF TypeOK, Running
  <2> QED
    <3>1. \A d \in 1 .. created : d \in Cpus
      BY <1>0 DEF TypeOK, Cpus
    <3> QED
      BY <1>0, <2>1, <2>4, <2>5, <3>1 DEF Listed
<1> QED
  BY <1>1, <1>2, <1>3, <1>4, <1>5, <1>6 DEF Next, MainStep, WaitTracersReady,
     WaitTracersLeaving, MtWaitLoop, WaitTimesOut, HandleSigint, StopStep, StopIoctl,
     StopTell, StopTold, StopBroadcast, Produce, KeepWaiting, Exited

\* The number of those who left reaches that of those who ran only when the
\* two sets are the same, whatever became of the others.
LEMMA LeavingStep ==
    ASSUME IInv, [Next]_vars
    PROVE  LeavingMeansAll'
<1> USE DEF vars, mainVars, tracerVars, countVars, mtVars, stopVars, kernelVars
<1>0. TypeOK /\ Counted /\ Listed /\ LeavingMeansAll
  BY DEF IInv
<1>1. CASE UNCHANGED <<main, pc>>
  BY <1>0, <1>1 DEF LeavingMeansAll
<1>2. CASE WaitTracersLeaving /\ main' # main
  <2>1. /\ main = "leaving"
        /\ UNCHANGED pc
        /\ nthreads_leaving >= nthreads_running
    BY <1>2 DEF WaitTracersLeaving, MtWaitLoop, MainAt, AllLeaving
  <2>2. Gone = Running
    <3>1. Gone \in SUBSET Running /\ IsFiniteSet(Running)
      BY CpuSets DEF Gone, Running
    <3>2. /\ Cardinality(Gone) <= Cardinality(Running)
          /\ Cardinality(Running) = Cardinality(Gone) => Running = Gone
      BY <3>1, FS_Subset
    <3>3. Cardinality(Gone) \in Nat /\ Cardinality(Running) \in Nat
      BY CpuSets DEF Gone, Running
    <3> QED
      BY <1>0, <2>1, <3>2, <3>3 DEF Counted
  <2> QED
    BY <1>0, <2>1, <2>2 DEF LeavingMeansAll, Listed, TypeOK, Gone, Running
<1>3. CASE MainStep /\ main' # "join"
  BY <1>3 DEF LeavingMeansAll
<1>4. CASE MainStep /\ ~WaitTracersLeaving
  BY <1>1, <1>3, <1>4 DEF MainStep, SetUp, CreateThread, ListTracer, CreateEnds,
     WaitTracersReady, MtWaitLoop, UnblockTracers, StartButs, GiveUp, MainAt,
     ProcessTraceBufs, JoinTracers, ExitTracing
<1>5. ASSUME NEW c \in Cpus, TracerStep(c)
      PROVE  LeavingMeansAll'
  BY <1>0, <1>5 DEF LeavingMeansAll, TypeOK, TracerStep, TracerReady, TracerCheck,
     TracerBlock, TracerLoop, TracerPoll, TracerDrain, TracerLeave
<1> QED
  BY <1>1, <1>2, <1>4, <1>5 DEF Next, MainStep, WaitTracersLeaving, MtWaitLoop,
     WaitTimesOut, HandleSigint, StopStep, StopIoctl, StopTell, StopTold,
     StopBroadcast, Produce, KeepWaiting, Exited

\* Without a signal before the start, a tracer is told to quit only when the
\* trace is stopped for good, so that its drain finds all there will ever be.
LEMMA QuitOrderStep ==
    ASSUME IInv, [Next]_vars, ~EarlySignals
    PROVE  QuitOrder'
<1> USE DEF vars, mainVars, tracerVars, countVars, mtVars, stopVars, kernelVars
<1>0. TypeOK /\ QuitOrder
  BY DEF IInv
<1>1. CASE UNCHANGED <<main, trace, stop, is_done, pc, avail>>
  BY <1>0, <1>1 DEF QuitOrder
<1>2. CASE MainStep
  <2>1. MainRuns /\ UNCHANGED <<is_done, avail>>
    BY <1>2 DEF MainStep, MainAt, SetUp, CreateThread, ListTracer, CreateEnds,
       WaitTracersReady, WaitTracersLeaving, MtWaitLoop, UnblockTracers, StartButs,
       GiveUp, ProcessTraceBufs, JoinTracers, ExitTracing
  <2>2. CASE StartButs
    BY <1>0, <2>1, <2>2 DEF QuitOrder, StartButs, MainAt, MainRuns, Stoppers
  <2>3. CASE GiveUp
    BY <1>0, <2>1, <2>3 DEF QuitOrder, GiveUp, MainAt, MainRuns, Stoppers, TypeOK
  <2>4. CASE JoinTracers
    BY <1>0, <2>1, <2>4 DEF QuitOrder, JoinTracers, MainAt, MainRuns, Stoppers
  <2>5. CASE CreateThread
    <3>1. created + 1 \in Cpus /\ pc' = [pc EXCEPT ![created + 1] = "init"]
      BY <1>0, <2>5 DEF CreateThread, TypeOK, Cpus
    <3>2. UNCHANGED <<main, trace, stop>>
      BY <2>5 DEF CreateThread
    <3> QED
      BY <1>0, <2>1, <3>1, <3>2 DEF QuitOrder, TypeOK
  <2>6. CASE \/ SetUp \/ ListTracer \/ CreateEnds \/ WaitTracersReady
             \/ UnblockTracers \/ ProcessTraceBufs \/ WaitTracersLeaving \/ ExitTracing
    <3>1. UNCHANGED <<trace, stop, pc>>
      BY <2>6 DEF SetUp, ListTracer, CreateEnds, WaitTracersReady, MtWaitLoop,
                  UnblockTracers, ProcessTraceBufs, WaitTracersLeaving, ExitTracing
    <3>2. main' \in {"setup", "create", "ready", "decide", "start"}
            => main \in {"setup", "create", "ready", "decide", "start"}
      BY <2>6 DEF SetUp, ListTracer, CreateEnds, WaitTracersReady, MtWaitLoop, MainAt,
                  UnblockTracers, ProcessTraceBufs, WaitTracersLeaving, ExitTracing
    <3> QED
      BY <1>0, <2>1, <3>1, <3>2 DEF QuitOrder
  <2> QED
    BY <1>2, <2>2, <2>3, <2>4, <2>5, <2>6 DEF MainStep
<1>3. CASE HandleSigint
  <2>1. main \notin {"setup", "create", "ready", "decide", "start"}
    BY <1>0, <1>3 DEF HandleSigint, QuitOrder
  <2>2. /\ stop' = [stop EXCEPT !["handler"] = "ioctl"]
        /\ UNCHANGED <<main, trace, is_done, pc, avail>>
    BY <1>3 DEF HandleSigint
  <2> QED
    BY <1>0, <2>1, <2>2 DEF QuitOrder, TypeOK
<1>4. ASSUME NEW s \in Stoppers, StopStep(s)
      PROVE  QuitOrder'
  <2>1. /\ main \notin {"setup", "create", "ready", "decide", "start"}
        /\ UNCHANGED <<main, pc, avail>>
    BY <1>0, <1>4 DEF QuitOrder, StopStep, StopIoctl, StopTell, StopTold, StopBroadcast
  <2>2. CASE StopIoctl(s)
    BY <1>0, <2>1, <2>2 DEF QuitOrder, StopIoctl, TypeOK
  <2>3. CASE StopTell(s)
    BY <1>0, <2>1, <2>3 DEF QuitOrder, StopTell, TypeOK
  <2>4. CASE StopTold(s) \/ StopBroadcast(s)
    BY <1>0, <2>1, <2>4 DEF QuitOrder, StopTold, StopBroadcast, TypeOK
  <2> QED
    BY <1>4, <2>2, <2>3, <2>4 DEF StopStep
<1>5. ASSUME NEW c \in Cpus, TracerStep(c)
      PROVE  QuitOrder'
  <2>1. UNCHANGED <<main, trace, stop, is_done>>
    BY <1>5 DEF TracerStep, TracerReady, TracerCheck, TracerBlock, TracerLoop,
                TracerPoll, TracerDrain, TracerLeave
  <2>2. \A d \in Cpus : avail[d] = 0 => avail'[d] = 0
    BY <1>0, <1>5 DEF TypeOK, TracerStep, TracerReady, TracerCheck, TracerBlock,
       TracerLoop, TracerPoll, TracerDrain, TracerLeave, Read
  <2>3. /\ \A d \in Cpus : d # c => pc'[d] = pc[d]
        /\ pc'[c] = "drain" => is_done[c]
        /\ pc'[c] \in {"close", "left"} => is_done[c] /\ avail'[c] = 0
    BY <1>0, <1>5 DEF TypeOK, QuitOrder, TracerStep, TracerReady, TracerCheck,
       TracerBlock, TracerLoop, TracerPoll, TracerDrain, TracerLeave, Read
  <2> QED
    BY <1>0, <2>1, <2>2, <2>3 DEF QuitOrder
<1>6. ASSUME NEW c \in Cpus, Produce(c)
      PROVE  QuitOrder'
  BY <1>0, <1>6 DEF QuitOrder, Produce, TypeOK
<1> QED
  BY <1>1, <1>2, <1>3, <1>4, <1>5, <1>6 DEF Next, WaitTimesOut, KeepWaiting, Exited

-----------------------------------------------------------------------------
(* The theorems. *)

\* The conjunction the other theorems follow from is inductive.
THEOREM InductiveInvariant == Spec => []IInv
<1>1. IInv /\ [Next]_vars => IInv'
  BY TypeStep, CountedStep, ListedStep, LeavingStep, QuitOrderStep DEF IInv
<1> QED
  BY <1>1, InitIInv, PTL DEF Spec

\* wait_tracers_leaving compares two counters; it lets the main thread go on
\* only when no tracer will touch its files again.
THEOREM NobodyJoinedEarly == Spec => []LeavingMeansAll
BY InductiveInvariant, PTL DEF IInv

\* run_tracers starts the kernel trace only with a running tracer on every CPU.
THEOREM StartsComplete == Spec => StartsWhenAllReady
<1> USE DEF vars, mainVars, tracerVars, countVars, mtVars, stopVars, kernelVars
<1>1. ASSUME IInv, [Next]_vars, trace # "running", trace' = "running"
      PROVE  \A c \in Cpus : pc[c] \notin {"none", "init", "error"}
  <2>1. main = "start"
    BY <1>1 DEF Next, MainStep, SetUp, CreateThread, ListTracer, CreateEnds,
       WaitTracersReady, WaitTracersLeaving, MtWaitLoop, UnblockTracers, StartButs,
       GiveUp, ProcessTraceBufs, JoinTracers, ExitTracing, MainAt, WaitTimesOut,
       HandleSigint, StopStep, StopIoctl, StopTell, StopTold, StopBroadcast,
       TracerStep, TracerReady, TracerCheck, TracerBlock, TracerLoop, TracerPoll,
       TracerDrain, TracerLeave, Produce, KeepWaiting, Exited
  <2> QED
    BY <1>1, <2>1 DEF IInv, Listed, Running
<1>2. IInv /\ [Next]_vars
        => [trace # "running" /\ trace' = "running"
            => \A c \in Cpus : pc[c] \notin {"none", "init", "error"}]_vars
  BY <1>1
<1> QED
  BY <1>2, InductiveInvariant, PTL DEF Spec, StartsWhenAllReady

\* thread_main's drain leaves no sub-buffer unread when the trace is over,
\* if no signal arrives before the trace was started.
THEOREM DrainIsComplete ==
    ASSUME EarlySignals = FALSE
    PROVE  Spec => []NothingLeftBehind
<1>1. IInv => NothingLeftBehind
  BY DEF IInv, QuitOrder, NothingLeftBehind
<1> QED
  BY <1>1, InductiveInvariant, PTL

-----------------------------------------------------------------------------
(* btrecord and btreplay. *)

ABunch == [time_stamp : Nat, pkts : Seq(Nat)]
Header == [genesis : Nat, nbunches : Int]

\* How many packets are ahead of the k-th bunch of B, and how many there are.
Ahead(B, k) == IF k = 1 THEN 0 ELSE B[k - 1].pkts[Len(B[k - 1].pkts)]
Ends(B)     == Ahead(B, Len(B) + 1)

\* The bunch c has the packets behind the n-th, of the Qs q, and spans no more than
\* a bunch may.
InBunch(c, n, q) ==
    \A j \in 1 .. Len(c.pkts) :
        /\ c.pkts[j] = n + j /\ n + j <= Len(q)
        /\ q[n + j] - c.time_stamp <= max_bunch_tm

\* Each bunch goes on where the one before it ends.
GoOn(B, q) == \A k \in 1 .. Len(B) : B[k].pkts # <<>> /\ InBunch(B[k], Ahead(B, k), q)

\* A bunch that goes on from the n-th packet ends with the packet n + Len.
LEMMA BunchEnds ==
    ASSUME NEW c \in ABunch, NEW n \in Nat, NEW q, InBunch(c, n, q), c.pkts # <<>>
    PROVE  Len(c.pkts) \in Nat \ {0} /\ c.pkts[Len(c.pkts)] = n + Len(c.pkts)
<1>1. c.pkts \in Seq(Nat)
  BY DEF ABunch
<1>2. PICK m : m = Len(c.pkts)
  OBVIOUS
<1>3. m \in Nat /\ m # 0
  BY <1>1, <1>2
<1>4. c.pkts[m] = n + m
  BY <1>2, <1>3 DEF InBunch
<1> QED
  BY <1>2, <1>3, <1>4

\* What is ahead of the bunches.
LEMMA AheadFacts ==
    ASSUME NEW B \in Seq(ABunch), NEW q, GoOn(B, q)
    PROVE  /\ Ahead(B, 1) = 0
           /\ \A k \in 1 .. Len(B) + 1 : Ahead(B, k) \in Nat
           /\ \A k \in 1 .. Len(B) : /\ Len(B[k].pkts) \in Nat \ {0}
                                     /\ Ahead(B, k + 1) = Ahead(B, k) + Len(B[k].pkts)
           /\ Ends(B) \in Nat
<1>1. Len(B) \in Nat /\ \A k \in 1 .. Len(B) : B[k] \in ABunch /\ B[k].pkts # <<>>
  BY DEF GoOn
<1>2. ASSUME NEW k \in 1 .. Len(B) + 1 PROVE Ahead(B, k) \in Nat
  <2>1. CASE k = 1
    BY <2>1 DEF Ahead
  <2>2. CASE k # 1
    <3>1. k - 1 \in 1 .. Len(B)
      BY <1>1, <2>2
    <3>2. B[k - 1].pkts \in Seq(Nat) /\ B[k - 1].pkts # <<>>
      BY <1>1, <3>1 DEF ABunch
    <3>3. Len(B[k - 1].pkts) \in 1 .. Len(B[k - 1].pkts)
      BY <3>2
    <3> QED
      BY <2>2, <3>2, <3>3 DEF Ahead
  <2> QED
    BY <2>1, <2>2
<1>3. ASSUME NEW k \in 1 .. Len(B)
      PROVE  /\ Len(B[k].pkts) \in Nat \ {0}
             /\ Ahead(B, k + 1) = Ahead(B, k) + Len(B[k].pkts)
  <2>1. k + 1 # 1 /\ (k + 1) - 1 = k /\ k \in 1 .. Len(B) + 1
    BY <1>1
  <2>2. Ahead(B, k + 1) = B[k].pkts[Len(B[k].pkts)]
    BY <2>1 DEF Ahead
  <2>3. InBunch(B[k], Ahead(B, k), q)
    BY DEF GoOn
  <2> QED
    BY <1>1, <1>2, <2>1, <2>2, <2>3, BunchEnds
<1>4. Ahead(B, 1) = 0
  BY DEF Ahead
<1> QED
  BY <1>1, <1>2, <1>3, <1>4 DEF Ends

\* The first bunches do so too, and what is ahead of them is what was.
LEMMA CutBunches ==
    ASSUME NEW B \in Seq(ABunch), NEW q, GoOn(B, q), NEW m \in 0 .. Len(B)
    PROVE  SubSeq(B, 1, m) \in Seq(ABunch) /\ GoOn(SubSeq(B, 1, m), q)
<1>1. Len(B) \in Nat /\ m \in Nat /\ m <= Len(B)
  OBVIOUS
<1>2. PICK C : C = SubSeq(B, 1, m)
  OBVIOUS
<1>3. C \in Seq(ABunch) /\ Len(C) = m /\ \A k \in 1 .. m : C[k] = B[k]
  BY <1>1, <1>2
<1>4. ASSUME NEW k \in 1 .. m PROVE Ahead(C, k) = Ahead(B, k)
  <2>1. k = 1 \/ k - 1 \in 1 .. m
    BY <1>1
  <2> QED
    BY <1>3, <2>1 DEF Ahead
<1>5. \A k \in 1 .. m : k \in 1 .. Len(B)
  BY <1>1
<1>6. GoOn(C, q)
  BY <1>3, <1>4, <1>5 DEF GoOn
<1> QED
  BY <1>2, <1>3, <1>6

\* Another one goes on.
LEMMA AppendBunch ==
    ASSUME NEW B \in Seq(ABunch), NEW q, GoOn(B, q), NEW c \in ABunch, c.pkts # <<>>,
           InBunch(c, Ends(B), q)
    PROVE  /\ Append(B, c) \in Seq(ABunch) /\ GoOn(Append(B, c), q)
           /\ Len(Append(B, c)) = Len(B) + 1
           /\ Ends(Append(B, c)) = Ends(B) + Len(c.pkts)
<1>1. PICK C : C = Append(B, c)
  OBVIOUS
<1>2. PICK n : n = Len(B)
  OBVIOUS
<1>3. /\ n \in Nat /\ C \in Seq(ABunch) /\ Len(C) = n + 1 /\ C[n + 1] = c
      /\ \A k \in 1 .. n : C[k] = B[k]
  BY <1>1, <1>2
<1>4. ASSUME NEW k \in 1 .. n + 1 PROVE Ahead(C, k) = Ahead(B, k)
  <2>1. k = 1 \/ k - 1 \in 1 .. n
    BY <1>3
  <2> QED
    BY <1>3, <2>1 DEF Ahead
<1>5. ASSUME NEW k \in 1 .. n + 1 PROVE C[k].pkts # <<>> /\ InBunch(C[k], Ahead(C, k), q)
  <2>1. CASE k = n + 1
    BY <1>2, <1>3, <1>4, <2>1 DEF Ends
  <2>2. CASE k \in 1 .. n
    BY <1>2, <1>3, <1>4, <2>2 DEF GoOn
  <2> QED
    BY <1>3, <2>1, <2>2
<1>6. GoOn(C, q)
  BY <1>3, <1>5 DEF GoOn
<1>7. Ends(C) = Ends(B) + Len(c.pkts)
  <2>1. n + 1 \in 1 .. n + 1
    BY <1>3
  <2>2. Ahead(C, (n + 1) + 1) = Ahead(C, n + 1) + Len(c.pkts)
    BY <1>3, <1>6, <2>1, AheadFacts
  <2> QED
    BY <1>2, <1>3, <1>4, <2>1, <2>2 DEF Ends
<1> QED
  BY <1>1, <1>2, <1>3, <1>6, <1>7

\* More Qs are read.
LEMMA MoreQs ==
    ASSUME NEW q \in Seq(Nat), NEW t \in Nat
    PROVE  /\ \A c \in ABunch : \A n \in Nat : InBunch(c, n, q) => InBunch(c, n, Append(q, t))
           /\ \A B \in Seq(ABunch) : GoOn(B, q) => GoOn(B, Append(q, t))
<1>1. PICK r : r = Append(q, t)
  OBVIOUS
<1>2. /\ Len(q) \in Nat /\ Len(r) = Len(q) + 1
      /\ \A k \in 1 .. Len(q) : r[k] = q[k]
  BY <1>1
<1>3. ASSUME NEW c \in ABunch, NEW n \in Nat, InBunch(c, n, q) PROVE InBunch(c, n, r)
  <2>1. ASSUME NEW j \in 1 .. Len(c.pkts)
        PROVE  /\ c.pkts[j] = n + j /\ n + j <= Len(r)
               /\ r[n + j] - c.time_stamp <= max_bunch_tm
    <3>1. /\ c.pkts[j] = n + j /\ n + j <= Len(q)
          /\ q[n + j] - c.time_stamp <= max_bunch_tm
      BY <1>3 DEF InBunch
    <3>2. n + j \in 1 .. Len(q)
      BY <1>2, <3>1
    <3> QED
      BY <1>2, <3>1, <3>2
  <2> QED
    BY <2>1 DEF InBunch
<1>4. ASSUME NEW B \in Seq(ABunch), GoOn(B, q) PROVE GoOn(B, r)
  <2>1. \A k \in 1 .. Len(B) : B[k] \in ABunch /\ Ahead(B, k) \in Nat
    BY <1>4, AheadFacts
  <2> QED
    BY <1>3, <1>4, <2>1 DEF GoOn
<1> QED
  BY <1>1, <1>3, <1>4

RecordTypes ==
    /\ rpc \in {"open", "read", "end"} /\ rfile \in Nat
    /\ queued \in [Files -> Seq(Nat)] /\ genesis_of \in Nat /\ cur \in ABunch
    /\ hdr \in [Files -> Header] /\ file \in [Files -> Seq(ABunch)]

\* btrecord at its file: what it has read is in the bunches written and in the one it
\* fills.
Reading(f) ==
    /\ InBunch(cur, Ends(file[f]), queued[f])
    /\ Len(queued[f]) = Ends(file[f]) + Len(cur.pkts)
    /\ cur.pkts = <<>> => cur = NoBunch /\ file[f] = <<>>

\* The file of a CPU: done, at hand or left behind, or to come.
FileInv(f) ==
    /\ GoOn(file[f], queued[f])
    /\ f < rfile => Ends(file[f]) = Len(queued[f]) /\ Len(file[f]) <= hdr[f].nbunches + 1
    /\ f = rfile /\ rpc # "open" => hdr[f] = EmptyHeader
    /\ f = rfile /\ rpc = "read" => Reading(f)
    /\ f > rfile \/ (f = rfile /\ rpc = "open") =>
          file[f] = <<>> /\ queued[f] = <<>> /\ hdr[f] = NoHeader

SubTypes ==
    /\ stalls \in BOOLEAN /\ acc_factor \in Nat \ {0} /\ nadded \in Nat /\ genesis \in Int
    /\ clock \in Nat /\ signal_done \in BOOLEAN
    /\ sub \in [Files -> {"off", "next", "bunch", "stall", "done"}]
    /\ nread \in [Files -> Nat] /\ i \in [Files -> Nat] /\ ntodo \in [Files -> Nat]
    /\ submitted \in [Files -> Seq(Nat)]

\* Main takes in the files that were finished and hold something by their header.
TakenIn(f) ==
    /\ rpc # "end" => kept = {} /\ nadded = 0
    /\ f \in kept => f < rfile
    /\ f <= nadded /\ f < rfile /\ f \notin kept => hdr[f].nbunches = 0

\* A sub thread has submitted what is ahead of its bunch, and of that what is ahead of
\* its place; between two bunches and at its end, unless a signal ended the last one.
SubInv(f) ==
    /\ sub[f] # "off" => f \in kept
    /\ \A k \in 1 .. Len(submitted[f]) : submitted[f][k] = k
    /\ sub[f] = "off" => nread[f] = 0 /\ submitted[f] = <<>>
    /\ nread[f] <= Len(file[f])
    /\ sub[f] = "next" /\ ~signal_done => Len(submitted[f]) = Ahead(file[f], nread[f] + 1)
    /\ sub[f] = "done" /\ ~signal_done => Len(submitted[f]) = Ends(file[f])
    /\ sub[f] \in {"bunch", "stall"} =>
          /\ nread[f] > 0 /\ i[f] <= Len(Bunch(f).pkts)
          /\ Len(submitted[f]) = Ahead(file[f], nread[f]) + i[f]
    /\ sub[f] = "stall" => ntodo[f] > 0 /\ i[f] + ntodo[f] <= Len(Bunch(f).pkts)

RecordInv == /\ RecordTypes /\ (rpc # "end" => rfile \in Files)
             /\ \A f \in Files : FileInv(f)
ReplayInv == RecordInv /\ SubTypes /\ \A f \in Files : TakenIn(f) /\ SubInv(f)

LEMMA EmptyFile ==
    /\ <<>> \in Seq(ABunch) /\ Ends(<<>>) = 0 /\ \A q : GoOn(<<>>, q)
    /\ NoBunch \in ABunch /\ \A n, q : InBunch(NoBunch, n, q)
    /\ NoHeader \in Header /\ EmptyHeader \in Header
<1>1. Len(<<>>) = 0 /\ <<>> \in Seq(Nat) /\ <<>> \in Seq(ABunch)
  OBVIOUS
<1>2. /\ NoBunch \in ABunch /\ NoBunch.pkts = <<>>
      /\ NoHeader \in Header /\ EmptyHeader \in Header
  BY <1>1 DEF NoBunch, ABunch, NoHeader, EmptyHeader, Header
<1>3. Ends(<<>>) = 0
  BY <1>1 DEF Ends, Ahead
<1>4. \A q : GoOn(<<>>, q)
  BY <1>1 DEF GoOn
<1>5. \A n, q : InBunch(NoBunch, n, q)
  BY <1>1, <1>2 DEF InBunch
<1> QED
  BY <1>1, <1>2, <1>3, <1>4, <1>5

\* stream_open
LEMMA StreamOpenStep ==
    ASSUME RecordInv, StreamOpen
    PROVE  RecordInv'
<1>1. /\ rpc = "open" /\ rfile \in Files /\ rpc' = "read" /\ cur' = NoBunch /\ genesis_of' = 0
      /\ hdr' = [hdr EXCEPT ![rfile] = EmptyHeader] /\ UNCHANGED <<rfile, queued, file>>
  BY DEF RecordInv, StreamOpen
<1>2. RecordTypes' /\ hdr'[rfile] = EmptyHeader /\ \A f \in Files : f # rfile => hdr'[f] = hdr[f]
  BY <1>1, EmptyFile DEF RecordInv, RecordTypes
<1>3. ASSUME NEW f \in Files PROVE FileInv(f)'
  <2>1. CASE f = rfile
    <3>1. FileInv(f) /\ rfile \in Nat /\ file[f] = <<>> /\ queued[f] = <<>>
      BY <1>1, <2>1 DEF RecordInv, RecordTypes, FileInv
    <3>2. Reading(f)'
      <4>1. Len(NoBunch.pkts) = 0
        BY DEF NoBunch
      <4> QED
        BY <1>1, <3>1, <4>1, EmptyFile DEF Reading
    <3> QED
      BY <1>1, <1>2, <2>1, <3>1, <3>2 DEF FileInv
  <2>2. CASE f # rfile
    BY <1>1, <1>2, <2>2 DEF RecordInv, FileInv
  <2> QED
    BY <2>1, <2>2
<1> QED
  BY <1>1, <1>2, <1>3 DEF RecordInv

\* What stream_flush writes: all that was read.
LEMMA FlushedFacts ==
    ASSUME RecordInv, rpc = "read"
    PROVE  /\ rfile \in Files /\ Flushed(file[rfile]) \in Seq(ABunch)
           /\ GoOn(Flushed(file[rfile]), queued[rfile])
           /\ Ends(Flushed(file[rfile])) = Len(queued[rfile])
           /\ Len(Flushed(file[rfile])) <= Len(file[rfile]) + 1
<1>1. /\ rfile \in Files /\ file[rfile] \in Seq(ABunch) /\ cur \in ABunch
      /\ queued[rfile] \in Seq(Nat)
      /\ GoOn(file[rfile], queued[rfile]) /\ Reading(rfile)
  BY DEF RecordInv, RecordTypes, FileInv
<1>2. CASE cur.pkts = <<>>
  <2>1. Flushed(file[rfile]) = file[rfile] /\ Len(cur.pkts) = 0
    BY <1>2 DEF Flushed
  <2>2. Len(file[rfile]) \in Nat /\ Ends(file[rfile]) \in Nat
    BY <1>1, AheadFacts
  <2> QED
    BY <1>1, <2>1, <2>2 DEF Reading
<1>3. CASE cur.pkts # <<>>
  <2>1. Flushed(file[rfile]) = Append(file[rfile], cur) /\ InBunch(cur, Ends(file[rfile]), queued[rfile])
    BY <1>1, <1>3 DEF Flushed, Reading
  <2>2. Len(file[rfile]) \in Nat
    BY <1>1
  <2> QED
    BY <1>1, <1>3, <2>1, <2>2, AppendBunch DEF Reading
<1> QED
  BY <1>2, <1>3

\* stream_close
LEMMA StreamCloseStep ==
    ASSUME RecordInv, StreamClose
    PROVE  RecordInv' /\ rfile' = rfile + 1 /\ rfile \in Files
<1>1. /\ rpc = "read" /\ rfile' = rfile + 1 /\ rpc' = (IF rfile = NFiles THEN "end" ELSE "open")
      /\ hdr' = [hdr EXCEPT ![rfile] = [genesis |-> genesis_of, nbunches |-> Len(file[rfile])]]
      /\ file' = [file EXCEPT ![rfile] = Flushed(@)] /\ UNCHANGED <<queued, genesis_of, cur>>
  BY DEF StreamClose
<1>2. /\ rfile \in Files /\ Flushed(file[rfile]) \in Seq(ABunch)
      /\ GoOn(Flushed(file[rfile]), queued[rfile])
      /\ Ends(Flushed(file[rfile])) = Len(queued[rfile])
      /\ Len(Flushed(file[rfile])) <= Len(file[rfile]) + 1
  BY <1>1, FlushedFacts
<1>3. /\ rfile \in Nat /\ NFiles \in Nat /\ rfile <= NFiles /\ Len(file[rfile]) \in Nat
      /\ genesis_of \in Nat
  BY <1>2, RecordAssumption DEF Files, RecordInv, RecordTypes
<1>4. /\ file'[rfile] = Flushed(file[rfile]) /\ hdr'[rfile].nbunches = Len(file[rfile])
      /\ \A f \in Files : f # rfile => file'[f] = file[f] /\ hdr'[f] = hdr[f]
      /\ [genesis |-> genesis_of, nbunches |-> Len(file[rfile])] \in Header
  BY <1>1, <1>2, <1>3 DEF RecordInv, RecordTypes, Header
<1>5. RecordTypes' /\ (rpc' # "end" => rfile' \in Files)
  <2>1. rpc' # "end" => rfile' \in Files
    BY <1>1, <1>3 DEF Files
  <2> QED
    BY <1>1, <1>2, <1>3, <1>4, <2>1 DEF RecordInv, RecordTypes
<1>6. ASSUME NEW f \in Files PROVE FileInv(f)'
  <2>1. f \in Nat /\ f <= NFiles /\ FileInv(f)
    BY <1>3 DEF Files, RecordInv
  <2>2. CASE f = rfile
    BY <1>1, <1>2, <1>3, <1>4, <2>2 DEF FileInv
  <2>3. CASE f < rfile
    BY <1>1, <1>3, <1>4, <2>1, <2>3 DEF FileInv
  <2>4. CASE f > rfile
    BY <1>1, <1>3, <1>4, <2>1, <2>4 DEF FileInv
  <2> QED
    BY <1>3, <2>1, <2>2, <2>3, <2>4
<1> QED
  BY <1>1, <1>2, <1>5, <1>6 DEF RecordInv

\* btrecord is killed.
LEMMA KilledStep ==
    ASSUME RecordInv, Killed
    PROVE  RecordInv' /\ rfile' = rfile
<1>1. PICK n \in 0 .. Len(file[rfile]) :
          /\ rpc = "read" /\ rpc' = "end" /\ file' = [file EXCEPT ![rfile] = SubSeq(@, 1, n)]
          /\ UNCHANGED <<rfile, queued, genesis_of, cur, hdr>>
  BY DEF Killed
<1>2. /\ rfile \in Files /\ rfile \in Nat /\ file[rfile] \in Seq(ABunch)
      /\ GoOn(file[rfile], queued[rfile])
  BY <1>1 DEF RecordInv, RecordTypes, FileInv
<1>3. /\ SubSeq(file[rfile], 1, n) \in Seq(ABunch)
      /\ GoOn(SubSeq(file[rfile], 1, n), queued[rfile])
  BY <1>2, CutBunches
<1>4. /\ file'[rfile] = SubSeq(file[rfile], 1, n)
      /\ \A f \in Files : f # rfile => file'[f] = file[f]
  BY <1>1, <1>2 DEF RecordInv, RecordTypes
<1>5. RecordTypes'
  BY <1>1, <1>3, <1>4 DEF RecordInv, RecordTypes
<1>6. ASSUME NEW f \in Files PROVE FileInv(f)'
  <2>1. FileInv(f)
    BY DEF RecordInv
  <2>2. CASE f = rfile
    BY <1>1, <1>2, <1>3, <1>4, <2>1, <2>2 DEF FileInv
  <2>3. CASE f # rfile
    BY <1>1, <1>4, <2>1, <2>3 DEF FileInv
  <2> QED
    BY <2>2, <2>3
<1> QED
  BY <1>1, <1>5, <1>6 DEF RecordInv

\* next_io and stream_add_io
LEMMA NextIoStep ==
    ASSUME RecordInv, NextIo
    PROVE  RecordInv'
<1>1. PICK t \in Times :
         /\ rpc = "read" /\ queued' = [queued EXCEPT ![rfile] = Append(@, t)]
         /\ genesis_of' = (IF genesis_of = 0 THEN t ELSE genesis_of)
         /\ StreamAddIo(Len(queued[rfile]) + 1, t) /\ UNCHANGED <<rpc, rfile, hdr>>
  BY DEF NextIo
<1>2. PICK q, r, B : q = queued[rfile] /\ r = Append(q, t) /\ B = file[rfile]
  OBVIOUS
<1>3. /\ rfile \in Files /\ t \in Nat /\ rfile \in Nat /\ cur \in ABunch
      /\ q \in Seq(Nat) /\ Len(q) \in Nat /\ B \in Seq(ABunch) /\ GoOn(B, q) /\ Reading(rfile)
      /\ r \in Seq(Nat) /\ Len(r) = Len(q) + 1 /\ r[Len(q) + 1] = t
  BY <1>1, <1>2, RecordAssumption DEF Times, RecordInv, RecordTypes, FileInv
<1>4. /\ queued'[rfile] = r /\ \A f \in Files : f # rfile => queued'[f] = queued[f]
      /\ queued' \in [Files -> Seq(Nat)]
  BY <1>1, <1>2, <1>3 DEF RecordInv, RecordTypes
<1>5. max_bunch_tm \in Nat
  BY RecordAssumption
<1>6. /\ cur' \in ABunch /\ cur'.pkts # <<>> /\ file' \in [Files -> Seq(ABunch)]
      /\ \A f \in Files : f # rfile => file'[f] = file[f]
      /\ GoOn(file'[rfile], r) /\ InBunch(cur', Ends(file'[rfile]), r)
      /\ Len(r) = Ends(file'[rfile]) + Len(cur'.pkts)
  <2>1. CASE cur # NoBunch /\ ~BunchDone(t)
    <3>1. cur' = [cur EXCEPT !.pkts = Append(@, Len(q) + 1)] /\ file' = file
      BY <1>1, <1>2, <2>1 DEF StreamAddIo
    <3>2. PICK p, m, n : p = cur.pkts /\ m = Len(p) /\ n = Ends(B)
      OBVIOUS
    <3>3. p \in Seq(Nat) /\ p # <<>> /\ m \in Nat /\ cur.time_stamp \in Nat /\ n \in Nat
      BY <1>2, <1>3, <2>1, <3>2, AheadFacts, SMTT(30) DEF Reading, ABunch
    <3>4. Len(q) = n + m /\ InBunch(cur, n, q)
      BY <1>2, <1>3, <3>2 DEF Reading
    <3>5. /\ cur' \in ABunch /\ cur'.time_stamp = cur.time_stamp
          /\ cur'.pkts = Append(p, Len(q) + 1)
      <4>1. PICK p1 : p1 = Append(p, Len(q) + 1)
        OBVIOUS
      <4>2. p1 \in Seq(Nat) /\ cur' = [cur EXCEPT !.pkts = p1]
        BY <1>3, <3>1, <3>2, <3>3, <4>1
      <4> QED
        BY <1>3, <4>1, <4>2 DEF ABunch
    <3>6. /\ Len(cur'.pkts) = m + 1 /\ cur'.pkts # <<>> /\ cur'.pkts[m + 1] = Len(q) + 1
          /\ \A j \in 1 .. m : cur'.pkts[j] = p[j]
      BY <3>2, <3>3, <3>5, SMTT(30)
    <3>7. t - cur.time_stamp <= max_bunch_tm
      BY <1>3, <1>5, <2>1, <3>3, SMTT(30) DEF BunchDone
    <3>8. InBunch(cur, n, r)
      BY <1>2, <1>3, <3>3, <3>4, MoreQs
    <3>9. InBunch(cur', n, r)
      <4>1. ASSUME NEW j \in 1 .. m + 1
            PROVE  /\ cur'.pkts[j] = n + j /\ n + j <= Len(r)
                   /\ r[n + j] - cur'.time_stamp <= max_bunch_tm
        <5>1. CASE j \in 1 .. m
          BY <3>2, <3>5, <3>6, <3>8, <5>1 DEF InBunch
        <5>2. CASE j = m + 1
          <6>1. n + j = Len(q) + 1
            BY <3>3, <3>4, <5>2
          <6> QED
            BY <1>3, <3>5, <3>6, <3>7, <5>2, <6>1
        <5> QED
          BY <3>3, <5>1, <5>2
      <4> QED
        BY <3>6, <4>1 DEF InBunch
    <3>10. GoOn(B, r)
      BY <1>2, <1>3, MoreQs
    <3>11. Len(r) = n + (m + 1)
      BY <1>3, <3>3, <3>4
    <3> QED
      BY <1>2, <1>3, <3>1, <3>2, <3>5, <3>6, <3>9, <3>10, <3>11 DEF RecordInv, RecordTypes
  <2>2. CASE ~(cur # NoBunch /\ ~BunchDone(t))
    <3>1. /\ file' = [file EXCEPT ![rfile] = Flushed(@)]
          /\ cur' = [time_stamp |-> t, pkts |-> <<Len(q) + 1>>]
      BY <1>1, <1>2, <2>2 DEF StreamAddIo
    <3>2. PICK C : C = Flushed(file[rfile])
      OBVIOUS
    <3>3. C \in Seq(ABunch) /\ GoOn(C, q) /\ Ends(C) = Len(q)
      BY <1>1, <1>2, <3>2, FlushedFacts
    <3>4. /\ cur' \in ABunch /\ cur'.pkts = <<Len(q) + 1>> /\ cur'.time_stamp = t
          /\ Len(cur'.pkts) = 1 /\ cur'.pkts # <<>> /\ cur'.pkts[1] = Len(q) + 1
      BY <1>3, <3>1 DEF ABunch
    <3>5. /\ file'[rfile] = C /\ file' \in [Files -> Seq(ABunch)]
          /\ \A f \in Files : f # rfile => file'[f] = file[f]
      BY <1>3, <3>1, <3>2, <3>3 DEF RecordInv, RecordTypes
    <3>6. InBunch(cur', Len(q), r)
      <4>1. r[Len(q) + 1] - cur'.time_stamp <= max_bunch_tm
        BY <1>3, <1>5, <3>4
      <4> QED
        BY <1>3, <3>4, <4>1 DEF InBunch
    <3>7. GoOn(C, r)
      BY <1>2, <1>3, <3>3, MoreQs
    <3> QED
      BY <1>3, <3>3, <3>4, <3>5, <3>6, <3>7
  <2> QED
    BY <2>1, <2>2
<1>7. RecordTypes'
  BY <1>1, <1>3, <1>4, <1>6 DEF RecordInv, RecordTypes
<1>8. ASSUME NEW f \in Files PROVE FileInv(f)'
  <2>1. CASE f = rfile
    <3>1. Reading(f)'
      BY <1>1, <1>4, <1>6, <2>1 DEF Reading
    <3>2. hdr[f] = EmptyHeader
      BY <1>1, <1>3, <2>1 DEF RecordInv, FileInv
    <3>3. GoOn(file[f], queued[f])'
      BY <1>4, <1>6, <2>1
    <3>4. ~(f < rfile) /\ ~(f > rfile)
      BY <1>3, <2>1
    <3> QED
      BY <1>1, <2>1, <3>1, <3>2, <3>3, <3>4 DEF FileInv
  <2>2. CASE f # rfile
    BY <1>1, <1>4, <1>6, <2>2 DEF RecordInv, FileInv
  <2> QED
    BY <2>1, <2>2
<1> QED
  BY <1>1, <1>3, <1>7, <1>8 DEF RecordInv

\* btrecord goes on: nothing of btreplay has begun.
LEMMA RecordStep ==
    ASSUME ReplayInv, RecordNext, UNCHANGED <<replayVars, options>>
    PROVE  ReplayInv'
<1>1. /\ RecordInv' /\ rpc # "end"
      /\ rfile' = rfile \/ (rfile' = rfile + 1 /\ rfile \in Nat)
  <2>1. RecordInv
    BY DEF ReplayInv
  <2>2. CASE StreamOpen
    BY <2>1, <2>2, StreamOpenStep DEF StreamOpen
  <2>3. CASE NextIo
    BY <2>1, <2>3, NextIoStep DEF NextIo
  <2>4. CASE StreamClose
    BY <2>1, <2>4, StreamCloseStep DEF StreamClose, RecordInv, RecordTypes
  <2>5. CASE Killed
    BY <2>1, <2>5, KilledStep DEF Killed
  <2> QED
    BY <2>2, <2>3, <2>4, <2>5 DEF RecordNext
<1>2. /\ UNCHANGED <<nadded, kept, genesis, clock, sub, nread, i, ntodo, submitted>>
      /\ UNCHANGED <<stalls, acc_factor, signal_done>>
  BY DEF replayVars, options
<1>3. ASSUME NEW f \in Files PROVE TakenIn(f)' /\ SubInv(f)'
  <2>1. /\ TakenIn(f) /\ SubInv(f) /\ kept = {} /\ nadded = 0 /\ f \in Nat /\ f > 0
        /\ file'[f] \in Seq(ABunch)
    BY <1>1, RecordAssumption, SMTT(30) DEF ReplayInv, TakenIn, Files, RecordInv, RecordTypes
  <2>2. sub[f] = "off" /\ nread[f] = 0 /\ Len(file'[f]) >= 0
    BY <2>1 DEF SubInv
  <2> QED
    BY <1>2, <2>1, <2>2 DEF TakenIn, SubInv
<1> QED
  BY <1>1, <1>2, <1>3 DEF ReplayInv, SubTypes

\* btreplay leaves the files alone.
LEMMA FilesStay ==
    ASSUME RecordInv, UNCHANGED recordVars
    PROVE  RecordInv'
<1>1. UNCHANGED <<rpc, rfile, queued, genesis_of, cur, hdr, file>>
  BY DEF recordVars
<1>2. \A f \in Files : FileInv(f)'
  BY <1>1 DEF RecordInv, FileInv, Reading
<1> QED
  BY <1>1, <1>2 DEF RecordInv, RecordTypes

\* The lesser of two numbers.
LEMMA MinOfTwo ==
    ASSUME NEW a \in Int, NEW b \in Int
    PROVE  Min({a, b}) \in {a, b} /\ Min({a, b}) <= a /\ Min({a, b}) <= b
<1>1. \E x \in {a, b} : \A y \in {a, b} : x <= y
  <2>1. CASE a <= b
    BY <2>1
  <2>2. CASE ~(a <= b)
    BY <2>2
  <2> QED
    BY <2>1, <2>2
<1> QED
  BY <1>1 DEF Min

\* add_input_file
LEMMA AddInputFileStep ==
    ASSUME ReplayInv, AddInputFile, UNCHANGED options
    PROVE  ReplayInv'
<1>1. PICK g : g = nadded + 1
  OBVIOUS
<1>2. /\ rpc = "end" /\ g \in Found /\ nadded' = g
      /\ \/ hdr[g].nbunches = 0 /\ UNCHANGED <<kept, genesis>>
         \/ /\ hdr[g].nbunches # 0 /\ kept' = kept \cup {g}
            /\ genesis' = Min({genesis, hdr[g].genesis})
      /\ UNCHANGED recordVars /\ UNCHANGED <<clock, sub, nread, i, ntodo, submitted>>
      /\ UNCHANGED <<stalls, acc_factor, signal_done>>
  BY <1>1 DEF AddInputFile, options
<1>3. RecordInv /\ RecordInv' /\ UNCHANGED <<rpc, rfile, queued, hdr, file>>
  BY <1>2, FilesStay DEF ReplayInv, recordVars
<1>4. /\ g \in Files /\ g \in Nat /\ hdr[g] # NoHeader /\ nadded \in Nat /\ rfile \in Nat
      /\ hdr[g] \in Header /\ genesis \in Int
  BY <1>2, RecordAssumption DEF Found, Files, ReplayInv, SubTypes, RecordInv, RecordTypes
<1>5. hdr[g].nbunches # 0 => g < rfile
  <2>1. FileInv(g)
    BY <1>3, <1>4 DEF RecordInv
  <2>2. g = rfile => hdr[g].nbunches = 0
    BY <1>2, <2>1 DEF FileInv, EmptyHeader
  <2>3. ~(g > rfile)
    BY <1>4, <2>1 DEF FileInv
  <2> QED
    BY <1>4, <2>2, <2>3
<1>6. SubTypes'
  <2>1. genesis' \in Int
    <3>1. hdr[g].genesis \in Int
      BY <1>4 DEF Header
    <3>2. Min({genesis, hdr[g].genesis}) \in {genesis, hdr[g].genesis}
      BY <1>4, <3>1, MinOfTwo
    <3> QED
      BY <1>2, <1>4, <3>1, <3>2
  <2> QED
    BY <1>2, <1>4, <2>1 DEF ReplayInv, SubTypes
<1>7. ASSUME NEW f \in Files PROVE TakenIn(f)' /\ SubInv(f)'
  <2>1. f \in Nat /\ TakenIn(f) /\ SubInv(f)
    BY RecordAssumption DEF Files, ReplayInv
  <2>2. TakenIn(f)'
    <3>1. f \in kept' => f < rfile
      BY <1>2, <1>5, <2>1 DEF TakenIn
    <3>2. f <= nadded' => f <= nadded \/ f = g
      BY <1>1, <1>2, <1>4, <2>1
    <3> QED
      BY <1>2, <1>3, <2>1, <3>1, <3>2 DEF TakenIn
  <2>3. SubInv(f)'
    BY <1>2, <1>3, <2>1 DEF SubInv, Bunch
  <2> QED
    BY <2>2, <2>3
<1> QED
  BY <1>3, <1>6, <1>7 DEF ReplayInv

\* The iteration starts.
LEMMA StartIterStep ==
    ASSUME ReplayInv, StartIter, UNCHANGED options
    PROVE  ReplayInv'
<1>1. /\ \A f \in Files : sub[f] = "off"
      /\ sub' = [f \in Files |-> IF f \in kept THEN "next" ELSE "off"]
      /\ UNCHANGED recordVars /\ UNCHANGED <<nadded, kept, genesis, clock, nread, i, ntodo>>
      /\ UNCHANGED <<submitted, stalls, acc_factor, signal_done>>
  BY DEF StartIter, options
<1>2. RecordInv /\ RecordInv' /\ UNCHANGED <<rpc, rfile, queued, hdr, file>>
  BY <1>1, FilesStay DEF ReplayInv, recordVars
<1>3. SubTypes'
  BY <1>1 DEF ReplayInv, SubTypes
<1>4. ASSUME NEW f \in Files PROVE TakenIn(f)' /\ SubInv(f)'
  <2>1. TakenIn(f) /\ SubInv(f) /\ nread[f] = 0 /\ submitted[f] = <<>>
    BY <1>1 DEF ReplayInv, SubInv
  <2>2. Ahead(file[f], 1) = 0
    BY DEF Ahead
  <2>3. sub'[f] = IF f \in kept THEN "next" ELSE "off"
    BY <1>1
  <2>4. TakenIn(f)'
    BY <1>1, <1>2, <2>1 DEF TakenIn
  <2>5. SubInv(f)'
    BY <1>1, <1>2, <2>1, <2>2, <2>3 DEF SubInv
  <2> QED
    BY <2>4, <2>5
<1> QED
  BY <1>2, <1>3, <1>4 DEF ReplayInv

\* A sub thread f makes a step: the others stay where they are.
LEMMA OthersStay ==
    ASSUME ReplayInv, NEW f \in Files, UNCHANGED recordVars,
           UNCHANGED <<nadded, kept, genesis, clock, stalls, acc_factor, signal_done>>,
           SubTypes', SubInv(f)',
           \A g \in Files : g # f =>
               /\ sub'[g] = sub[g] /\ nread'[g] = nread[g] /\ i'[g] = i[g]
               /\ ntodo'[g] = ntodo[g] /\ submitted'[g] = submitted[g]
    PROVE  ReplayInv'
<1>1. RecordInv' /\ UNCHANGED <<rpc, rfile, queued, hdr, file>>
  BY FilesStay DEF ReplayInv, recordVars
<1>2. ASSUME NEW g \in Files PROVE TakenIn(g)' /\ SubInv(g)'
  <2>1. TakenIn(g)'
    BY <1>1 DEF ReplayInv, TakenIn
  <2>2. SubInv(g)'
    <3>1. CASE g = f
      BY <3>1
    <3>2. CASE g # f
      BY <1>1, <3>2 DEF ReplayInv, SubInv, Bunch
    <3> QED
      BY <3>1, <3>2
  <2> QED
    BY <2>1, <2>2
<1> QED
  BY <1>1, <1>2 DEF ReplayInv

\* Where a sub thread is.
LEMMA SubFacts ==
    ASSUME ReplayInv, NEW f \in Files
    PROVE  /\ SubInv(f) /\ file[f] \in Seq(ABunch) /\ GoOn(file[f], queued[f])
           /\ nread[f] \in Nat /\ i[f] \in Nat /\ ntodo[f] \in Nat /\ Len(file[f]) \in Nat
           /\ submitted[f] \in Seq(Nat)
           /\ sub[f] \in {"bunch", "stall"} =>
                 /\ nread[f] \in 1 .. Len(file[f]) /\ Bunch(f) \in ABunch
                 /\ Len(Bunch(f).pkts) \in Nat /\ Bunch(f).pkts \in Seq(Nat)
                 /\ Ahead(file[f], nread[f]) \in Nat
                 /\ Ahead(file[f], nread[f] + 1) = Ahead(file[f], nread[f]) + Len(Bunch(f).pkts)
                 /\ InBunch(Bunch(f), Ahead(file[f], nread[f]), queued[f])
<1>1. /\ SubInv(f) /\ file[f] \in Seq(ABunch) /\ GoOn(file[f], queued[f])
      /\ nread[f] \in Nat /\ i[f] \in Nat /\ ntodo[f] \in Nat /\ Len(file[f]) \in Nat
      /\ submitted[f] \in Seq(Nat)
  BY DEF ReplayInv, SubTypes, RecordInv, RecordTypes, FileInv
<1>2. ASSUME sub[f] \in {"bunch", "stall"} PROVE nread[f] \in 1 .. Len(file[f])
  BY <1>1, <1>2 DEF SubInv
<1>3. ASSUME nread[f] \in 1 .. Len(file[f])
      PROVE  /\ Bunch(f) \in ABunch /\ Bunch(f).pkts \in Seq(Nat) /\ Len(Bunch(f).pkts) \in Nat
             /\ Ahead(file[f], nread[f]) \in Nat
             /\ Ahead(file[f], nread[f] + 1) = Ahead(file[f], nread[f]) + Len(Bunch(f).pkts)
             /\ InBunch(Bunch(f), Ahead(file[f], nread[f]), queued[f])
  <2>1. Bunch(f) \in ABunch /\ Bunch(f) = file[f][nread[f]]
    BY <1>1, <1>3 DEF Bunch
  <2>2. nread[f] \in 1 .. Len(file[f]) + 1
    BY <1>1, <1>3
  <2> QED
    BY <1>1, <1>3, <2>1, <2>2, AheadFacts DEF GoOn, ABunch
<1> QED
  BY <1>1, <1>2, <1>3

\* next_bunch
LEMMA NextBunchStep ==
    ASSUME ReplayInv, NEW f \in Files, NextBunch(f), UNCHANGED options
    PROVE  ReplayInv'
<1>1. /\ sub[f] = "next" /\ UNCHANGED recordVars /\ UNCHANGED <<nadded, kept, genesis, clock>>
      /\ UNCHANGED <<ntodo, submitted, stalls, acc_factor, signal_done>> /\ file' = file
  BY DEF NextBunch, options, recordVars
<1>2. /\ SubInv(f) /\ file[f] \in Seq(ABunch) /\ GoOn(file[f], queued[f])
      /\ nread[f] \in Nat /\ Len(file[f]) \in Nat /\ nread[f] <= Len(file[f])
      /\ ~signal_done => Len(submitted[f]) = Ahead(file[f], nread[f] + 1)
  BY <1>1, SubFacts DEF SubInv
<1>3. CASE ~signal_done /\ nread[f] < Len(file[f])
  <2>1. /\ nread' = [nread EXCEPT ![f] = @ + 1] /\ i' = [i EXCEPT ![f] = 0]
        /\ sub' = [sub EXCEPT ![f] = "bunch"]
    BY <1>3 DEF NextBunch
  <2>2. /\ nread'[f] = nread[f] + 1 /\ i'[f] = 0 /\ sub'[f] = "bunch" /\ SubTypes'
    BY <1>1, <1>2, <2>1, SMTT(30) DEF ReplayInv, SubTypes
  <2>3. nread'[f] \in 1 .. Len(file[f])
    BY <1>2, <1>3, <2>2
  <2>4. Len(Bunch(f)'.pkts) \in Nat /\ Ahead(file[f], nread'[f]) \in Nat
    <3>1. Bunch(f)' = file[f][nread'[f]]
      BY <1>1 DEF Bunch
    <3>2. nread'[f] \in 1 .. Len(file[f]) + 1
      BY <1>2, <2>3
    <3> QED
      BY <1>2, <2>3, <3>1, <3>2, AheadFacts
  <2>5. Len(submitted[f]) = Ahead(file[f], nread'[f]) + i'[f] /\ i'[f] <= Len(Bunch(f)'.pkts)
    BY <1>2, <1>3, <2>2, <2>4
  <2>6. SubInv(f)'
    BY <1>1, <1>2, <2>2, <2>3, <2>5 DEF SubInv
  <2> QED
    BY <1>1, <2>1, <2>2, <2>6, OthersStay DEF ReplayInv, SubTypes
<1>4. CASE ~(~signal_done /\ nread[f] < Len(file[f]))
  <2>1. sub' = [sub EXCEPT ![f] = "done"] /\ UNCHANGED <<nread, i>>
    BY <1>4 DEF NextBunch
  <2>2. sub'[f] = "done" /\ SubTypes'
    BY <1>1, <2>1 DEF ReplayInv, SubTypes
  <2>3. ~signal_done => nread[f] = Len(file[f])
    BY <1>2, <1>4
  <2>4. ~signal_done => Len(submitted[f]) = Ends(file[f])
    BY <1>2, <2>3 DEF Ends
  <2>5. SubInv(f)'
    BY <1>1, <1>2, <2>1, <2>2, <2>4 DEF SubInv
  <2> QED
    BY <1>1, <2>1, <2>2, <2>5, OthersStay DEF ReplayInv, SubTypes
<1> QED
  BY <1>3, <1>4

\* process_bunch, as far as IOCBs are free.
LEMMA MapStep ==
    ASSUME ReplayInv, NEW f \in Files, Map(f), UNCHANGED options
    PROVE  ReplayInv'
<1>1. /\ sub[f] = "bunch" /\ UNCHANGED recordVars /\ UNCHANGED <<nadded, kept, genesis, clock>>
      /\ UNCHANGED <<nread, i, submitted, stalls, acc_factor, signal_done>> /\ file' = file
  BY DEF Map, options, recordVars
<1>2. PICK m : m = Len(Bunch(f).pkts)
  OBVIOUS
<1>3. /\ SubInv(f) /\ i[f] \in Nat /\ m \in Nat /\ i[f] <= m /\ Bunch(f)' = Bunch(f)
      /\ nread[f] \in 1 .. Len(file[f])
      /\ Len(submitted[f]) = Ahead(file[f], nread[f]) + i[f]
      /\ Ahead(file[f], nread[f] + 1) = Ahead(file[f], nread[f]) + m
  BY <1>1, <1>2, SubFacts DEF SubInv, Bunch
<1>4. CASE ~signal_done /\ i[f] < m
  <2>1. PICK nfree \in 1 .. naios : ntodo' = [ntodo EXCEPT ![f] = Min({nfree, m - i[f]})]
    BY <1>2, <1>4 DEF Map
  <2>2. sub' = [sub EXCEPT ![f] = "stall"]
    BY <1>2, <1>4 DEF Map
  <2>3. PICK n : n = Min({nfree, m - i[f]})
    OBVIOUS
  <2>4. n \in Nat /\ n > 0 /\ i[f] + n <= m
    <3>1. PICK d : d = m - i[f]
      OBVIOUS
    <3>2. nfree \in Int /\ nfree > 0 /\ d \in Int /\ d > 0
      BY <1>3, <1>4, <3>1, ReplayAssumption
    <3>3. Min({nfree, d}) \in {nfree, d} /\ Min({nfree, d}) <= d
      BY <3>2, MinOfTwo
    <3>4. n \in {nfree, d} /\ n <= d
      BY <2>3, <3>1, <3>3
    <3> QED
      BY <1>3, <3>1, <3>2, <3>4
  <2>5. sub'[f] = "stall" /\ ntodo'[f] = n /\ SubTypes'
    BY <1>1, <2>1, <2>2, <2>3, <2>4 DEF ReplayInv, SubTypes
  <2>6. SubInv(f)'
    BY <1>1, <1>2, <1>3, <2>4, <2>5 DEF SubInv
  <2> QED
    BY <1>1, <2>1, <2>2, <2>5, <2>6, OthersStay DEF ReplayInv, SubTypes
<1>5. CASE ~(~signal_done /\ i[f] < m)
  <2>1. sub' = [sub EXCEPT ![f] = "next"] /\ UNCHANGED ntodo
    BY <1>2, <1>5 DEF Map
  <2>2. sub'[f] = "next" /\ SubTypes'
    BY <1>1, <2>1 DEF ReplayInv, SubTypes
  <2>3. ~signal_done => i[f] = m
    BY <1>3, <1>5
  <2>4. ~signal_done => Len(submitted[f]) = Ahead(file[f], nread[f] + 1)
    BY <1>3, <2>3
  <2>5. SubInv(f)'
    BY <1>1, <1>3, <2>1, <2>2, <2>4 DEF SubInv
  <2> QED
    BY <1>1, <2>1, <2>2, <2>5, OthersStay DEF ReplayInv, SubTypes
<1> QED
  BY <1>4, <1>5

\* s has the d numbers behind z.
Behind(s, z, d) == s \in Seq(Nat) /\ Len(s) = d /\ \A j \in 1 .. d : s[j] = z + j

\* The places of p from behind the x-th to the n-th.
LEMMA CutNumbers ==
    ASSUME NEW p, NEW a \in Nat, NEW m \in Nat, NEW x \in Nat, NEW n \in Nat,
           x < n, n <= m, Behind(p, a, m)
    PROVE  Behind(SubSeq(p, x + 1, n), a + x, n - x)
<1>1. PICK y : y = x + 1
  OBVIOUS
<1>2. y \in Int /\ n \in Int /\ y <= n
  BY <1>1
<1>3. \A j \in y .. n : p[j] \in Nat
  <2>1. p \in Seq(Nat) /\ \A j \in y .. n : j \in 1 .. Len(p)
    BY <1>1 DEF Behind
  <2> QED
    BY <2>1
<1>4. PICK w : w = SubSeq(p, y, n)
  OBVIOUS
<1>5. w \in Seq(Nat)
  BY <1>2, <1>3, <1>4, SubSeqProperties
<1>6. Len(w) = n - y + 1
  BY <1>2, <1>3, <1>4, SubSeqProperties
<1>7. \A j \in 1 .. n - y + 1 : w[j] = p[y + j - 1]
  BY <1>2, <1>3, <1>4, SubSeqProperties
<1>8. n - y + 1 = n - x
  BY <1>1
<1>9. ASSUME NEW j \in 1 .. n - x PROVE w[j] = (a + x) + j
  <2>1. y + j - 1 = x + j /\ x + j \in 1 .. m
    BY <1>1
  <2>2. w[j] = p[x + j]
    BY <1>7, <1>8, <2>1, Zenon
  <2>3. p[x + j] = a + (x + j)
    BY <2>1 DEF Behind
  <2> QED
    BY <2>2, <2>3
<1> QED
  BY <1>1, <1>4, <1>5, <1>6, <1>8, <1>9 DEF Behind

\* After the numbers behind 0 come those behind them.
LEMMA NumbersGoOn ==
    ASSUME NEW s, NEW w, NEW z \in Nat, NEW d \in Nat, Behind(s, 0, z), Behind(w, z, d)
    PROVE  Behind(s \o w, 0, z + d)
<1>1. PICK u : u = s \o w
  OBVIOUS
<1>2. s \in Seq(Nat) /\ w \in Seq(Nat) /\ Len(s) = z /\ Len(w) = d
  BY DEF Behind
<1>3. u \in Seq(Nat) /\ Len(u) = Len(s) + Len(w)
  BY <1>1, <1>2, ConcatProperties
<1>4. \A k \in 1 .. Len(s) + Len(w) : u[k] = IF k <= Len(s) THEN s[k] ELSE w[k - Len(s)]
  BY <1>1, <1>2, ConcatProperties
<1>5. ASSUME NEW k \in 1 .. z + d PROVE u[k] = 0 + k
  <2>1. CASE k <= z
    <3>1. k \in 1 .. z
      BY <2>1
    <3>2. s[k] = 0 + k
      BY <3>1 DEF Behind
    <3> QED
      BY <1>2, <1>4, <2>1, <3>2
  <2>2. CASE ~(k <= z)
    <3>1. PICK j : j = k - z
      OBVIOUS
    <3>2. j \in 1 .. d /\ z + j = k
      BY <2>2, <3>1
    <3>3. u[k] = w[j]
      BY <1>2, <1>4, <2>2, <3>1
    <3>4. w[j] = z + j
      BY <3>2 DEF Behind
    <3> QED
      BY <3>2, <3>3, <3>4
  <2> QED
    BY <2>1, <2>2
<1> QED
  BY <1>1, <1>2, <1>3, <1>5 DEF Behind

\* What a thread submits: the packets of its bunch from its place on.
LEMMA SubmitFacts ==
    ASSUME ReplayInv, NEW f \in Files, Submit(f)
    PROVE  /\ i[f] + ntodo[f] \in 1 .. Len(Bunch(f).pkts)
           /\ submitted'[f] \in Seq(Nat)
           /\ Len(submitted'[f]) = Ahead(file[f], nread[f]) + (i[f] + ntodo[f])
           /\ \A k \in 1 .. Len(submitted'[f]) : submitted'[f][k] = k
<1>1. PICK p, s, a, x, n, m :
         /\ p = Bunch(f).pkts /\ s = submitted[f] /\ a = Ahead(file[f], nread[f])
         /\ x = i[f] /\ n = i[f] + ntodo[f] /\ m = Len(p)
  OBVIOUS
<1>2. sub[f] = "stall" /\ submitted' = [submitted EXCEPT ![f] = s \o SubSeq(p, x + 1, n)]
  BY <1>1 DEF Submit
<1>3. /\ x \in Nat /\ ntodo[f] \in Nat /\ ntodo[f] > 0 /\ n <= m /\ m \in Nat
      /\ p \in Seq(Nat) /\ s \in Seq(Nat) /\ a \in Nat /\ Len(s) = a + x
      /\ \A k \in 1 .. Len(s) : s[k] = k
      /\ InBunch(Bunch(f), a, queued[f])
  BY <1>1, <1>2, SubFacts DEF SubInv
<1>4. Behind(p, a, m)
  BY <1>1, <1>3 DEF InBunch, Behind
<1>5. n \in Nat /\ x < n /\ n \in 1 .. m
  BY <1>1, <1>3
<1>6. PICK w : w = SubSeq(p, x + 1, n)
  OBVIOUS
<1>7. Behind(w, a + x, n - x)
  BY <1>3, <1>4, <1>5, <1>6, CutNumbers
<1>8. PICK z, d : z = a + x /\ d = n - x
  OBVIOUS
<1>9. z \in Nat /\ d \in Nat /\ z + d = a + n
  BY <1>3, <1>5, <1>8
<1>10. Behind(s, 0, z)
  BY <1>3, <1>8 DEF Behind
<1>11. Behind(s \o w, 0, z + d)
  BY <1>7, <1>8, <1>9, <1>10, NumbersGoOn
<1>12. submitted'[f] = s \o w
  BY <1>2, <1>6 DEF ReplayInv, SubTypes
<1>13. Behind(submitted'[f], 0, a + n)
  BY <1>9, <1>11, <1>12
<1> QED
  BY <1>1, <1>3, <1>5, <1>13 DEF Behind

\* io_submit
LEMMA SubmitStep ==
    ASSUME ReplayInv, NEW f \in Files, Submit(f), UNCHANGED options
    PROVE  ReplayInv'
<1>1. /\ UNCHANGED recordVars /\ UNCHANGED <<nadded, kept, genesis, clock, nread>>
      /\ UNCHANGED <<stalls, acc_factor, signal_done>> /\ file' = file /\ sub[f] = "stall"
      /\ i' = [i EXCEPT ![f] = @ + ntodo[f]] /\ ntodo' = [ntodo EXCEPT ![f] = 0]
      /\ sub' = [sub EXCEPT ![f] = "bunch"]
  BY DEF Submit, options, recordVars
<1>2. \A g \in Files : g # f => submitted'[g] = submitted[g]
  BY DEF Submit, ReplayInv, SubTypes
<1>3. PICK n : n = i[f] + ntodo[f]
  OBVIOUS
<1>4. /\ n \in 1 .. Len(Bunch(f).pkts) /\ submitted'[f] \in Seq(Nat)
      /\ Len(submitted'[f]) = Ahead(file[f], nread[f]) + n
      /\ \A k \in 1 .. Len(submitted'[f]) : submitted'[f][k] = k
  BY <1>3, SubmitFacts
<1>5. /\ SubInv(f) /\ i[f] \in Nat /\ ntodo[f] \in Nat /\ Bunch(f)' = Bunch(f)
      /\ nread[f] \in 1 .. Len(file[f])
  BY <1>1, SubFacts DEF Bunch
<1>6. sub'[f] = "bunch" /\ i'[f] = n /\ ntodo'[f] = 0
  BY <1>1, <1>3 DEF ReplayInv, SubTypes
<1>7. submitted' \in [Files -> Seq(Nat)]
  <2>1. PICK v : submitted' = [submitted EXCEPT ![f] = v]
    BY DEF Submit
  <2> QED
    BY <1>4, <2>1 DEF ReplayInv, SubTypes
<1>8. SubTypes'
  <2>1. n \in Nat /\ SubTypes
    BY <1>3, <1>5 DEF ReplayInv
  <2>2. i' \in [Files -> Nat]
    BY <1>1, <1>3, <2>1 DEF SubTypes
  <2>3. ntodo' \in [Files -> Nat] /\ sub' \in [Files -> {"off", "next", "bunch", "stall", "done"}]
    BY <1>1, <2>1 DEF SubTypes
  <2> QED
    BY <1>1, <1>7, <2>1, <2>2, <2>3 DEF SubTypes
<1>9. SubInv(f)'
  BY <1>1, <1>4, <1>5, <1>6 DEF SubInv
<1> QED
  BY <1>1, <1>2, <1>8, <1>9, OthersStay DEF ReplayInv, SubTypes

\* The clock goes on, a signal comes, or nothing happens.
LEMMA TickStep ==
    ASSUME ReplayInv, UNCHANGED recordVars, clock' = clock \/ clock' = clock + 1,
           signal_done' = signal_done \/ signal_done' = TRUE,
           UNCHANGED <<nadded, kept, genesis, sub, nread, i, ntodo, submitted>>,
           UNCHANGED <<stalls, acc_factor>>
    PROVE  ReplayInv'
<1>1. RecordInv' /\ UNCHANGED <<rpc, rfile, queued, hdr, file>>
  BY FilesStay DEF ReplayInv, recordVars
<1>2. SubTypes'
  <2>1. signal_done' \in BOOLEAN
    BY DEF ReplayInv, SubTypes
  <2>2. clock' \in Nat
    BY DEF ReplayInv, SubTypes
  <2> QED
    BY <2>1, <2>2, Zenon DEF ReplayInv, SubTypes
<1>3. ASSUME NEW f \in Files PROVE TakenIn(f)' /\ SubInv(f)'
  <2>1. TakenIn(f) /\ SubInv(f) /\ Bunch(f)' = Bunch(f) /\ TakenIn(f)'
    BY <1>1 DEF ReplayInv, TakenIn, Bunch
  <2>2. CASE signal_done' = signal_done
    BY <1>1, <2>1, <2>2 DEF SubInv
  <2>3. CASE signal_done' = TRUE
    BY <1>1, <2>1, <2>3 DEF SubInv
  <2> QED
    BY <2>1, <2>2, <2>3, Zenon
<1> QED
  BY <1>1, <1>2, <1>3 DEF ReplayInv

\* What both programs keep.
LEMMA ReplayInvIsInductive ==
    ReplayInv /\ [ReplayNext]_recordReplayVars => ReplayInv'
<1> SUFFICES ASSUME ReplayInv, [ReplayNext]_recordReplayVars PROVE ReplayInv'
  OBVIOUS
<1>1. CASE RecordNext /\ UNCHANGED replayVars /\ UNCHANGED options
  BY <1>1, RecordStep
<1>2. CASE AddInputFile /\ UNCHANGED options
  BY <1>2, AddInputFileStep
<1>3. CASE StartIter /\ UNCHANGED options
  BY <1>3, StartIterStep
<1>4. CASE Tick /\ UNCHANGED options
  BY <1>4, TickStep DEF Tick, options
<1>5. CASE Ended /\ UNCHANGED options
  BY <1>5, TickStep DEF Ended, replayVars, options
<1>6. CASE Signal /\ UNCHANGED options
  BY <1>6, TickStep DEF Signal, options
<1>7. ASSUME NEW f \in Files, NextBunch(f), UNCHANGED options PROVE ReplayInv'
  BY <1>7, NextBunchStep
<1>8. ASSUME NEW f \in Files, Map(f), UNCHANGED options PROVE ReplayInv'
  BY <1>8, MapStep
<1>9. ASSUME NEW f \in Files, Submit(f), UNCHANGED options PROVE ReplayInv'
  BY <1>9, SubmitStep
<1>10. CASE UNCHANGED recordReplayVars
  BY <1>10, TickStep DEF recordReplayVars, replayVars, options
<1> QED
  BY <1>1, <1>2, <1>3, <1>4, <1>5, <1>6, <1>7, <1>8, <1>9, <1>10 DEF ReplayNext

\* At the start no file has been opened and none is taken in.
LEMMA ReplayInvInit == ReplayInit => ReplayInv
<1> SUFFICES ASSUME ReplayInit PROVE ReplayInv
  OBVIOUS
<1>1. /\ rpc = "open" /\ rfile = 1 /\ genesis_of = 0 /\ cur = NoBunch
      /\ queued = [f \in Files |-> <<>>] /\ hdr = [f \in Files |-> NoHeader]
      /\ file = [f \in Files |-> <<>>]
  BY DEF ReplayInit, RecordInit
<1>2. /\ stalls \in Stalls /\ acc_factor \in AccFactors /\ nadded = 0 /\ kept = {}
      /\ genesis = MaxTime + 1 /\ clock = 0 /\ signal_done = FALSE /\ sub = [f \in Files |-> "off"]
      /\ nread = [f \in Files |-> 0] /\ i = [f \in Files |-> 0]
      /\ ntodo = [f \in Files |-> 0] /\ submitted = [f \in Files |-> <<>>]
  BY DEF ReplayInit
<1>3. <<>> \in Seq(Nat) /\ <<>> \in Seq(ABunch) /\ Len(<<>>) = 0
  OBVIOUS
<1>4. RecordTypes
  BY <1>1, <1>3, EmptyFile DEF RecordTypes
<1>5. rfile \in Files
  BY <1>1, RecordAssumption DEF Files
<1>6. ASSUME NEW f \in Files PROVE FileInv(f)
  <2>1. f \in Nat /\ ~(f < rfile)
    BY <1>1, RecordAssumption DEF Files
  <2> QED
    BY <1>1, <2>1, EmptyFile DEF FileInv
<1>7. SubTypes
  <2>1. stalls \in BOOLEAN /\ acc_factor \in Nat \ {0}
    BY <1>2, ReplayAssumption
  <2>2. genesis \in Int /\ nadded \in Nat /\ clock \in Nat
    BY <1>2, RecordAssumption
  <2>3. /\ sub \in [Files -> {"off", "next", "bunch", "stall", "done"}]
        /\ nread \in [Files -> Nat] /\ i \in [Files -> Nat] /\ ntodo \in [Files -> Nat]
        /\ submitted \in [Files -> Seq(Nat)]
    BY <1>2, <1>3
  <2>4. signal_done \in BOOLEAN
    BY <1>2
  <2> QED
    BY <2>1, <2>2, <2>3, <2>4, Zenon DEF SubTypes
<1>8. ASSUME NEW f \in Files PROVE TakenIn(f) /\ SubInv(f)
  <2>1. f \in Nat /\ f > 0
    BY RecordAssumption DEF Files
  <2>2. TakenIn(f)
    BY <1>2, <2>1 DEF TakenIn
  <2>3. file[f] = <<>> /\ sub[f] = "off" /\ nread[f] = 0 /\ submitted[f] = <<>>
    BY <1>1, <1>2
  <2>4. SubInv(f)
    BY <1>3, <2>3 DEF SubInv
  <2> QED
    BY <2>2, <2>4
<1> QED
  BY <1>4, <1>5, <1>6, <1>7, <1>8 DEF ReplayInv, RecordInv

\* btrecord and btreplay: every file holds bunches that go on from each other and, when
\* it was finished, all that was queued; main takes in only files that were finished;
\* and a sub thread has submitted what is ahead of its place, which without a signal is
\* all of a bunch when it goes on to the next, and all of its file when it is done.
THEOREM ReplayInvariant == ReplaySpec => []ReplayInv
<1>1. ReplayInv /\ [ReplayNext]_recordReplayVars => ReplayInv'
  BY ReplayInvIsInductive
<1> QED
  BY <1>1, ReplayInvInit, PTL DEF ReplaySpec

\* The sub threads of btreplay (process_bunch, next_bunch) submit what btrecord found
\* queued, in order and once, and all of it when they are done and no signal came;
\* add_input_file takes in the files stream_close finished, and passes over those of at
\* most one bunch.
THEOREM RecordingIsReplayed == ReplaySpec => []ReplaysTheRecording
<1>1. ReplayInv => ReplaysTheRecording
  <2> SUFFICES ASSUME ReplayInv, NEW f \in Files
               PROVE  /\ submitted[f] = [k \in 1 .. Len(submitted[f]) |-> k]
                      /\ sub[f] = "done" /\ ~signal_done => Len(submitted[f]) = Len(queued[f])
                      /\ Finished(f) /\ nadded >= f /\ f \notin kept => Len(file[f]) <= 1
                      /\ f \in kept => Finished(f)
    BY DEF ReplaysTheRecording
  <2>1. PICK s : s = submitted[f]
    OBVIOUS
  <2>2. s = [k \in 1 .. Len(s) |-> k]
    <3>1. s \in Seq(Nat) /\ \A k \in 1 .. Len(s) : s[k] = k
      BY <2>1 DEF ReplayInv, SubTypes, SubInv
    <3>2. s \in [1 .. Len(s) -> Nat]
      BY <3>1, LenProperties
    <3> QED
      BY <3>1, <3>2, Zenon
  <2>3. TakenIn(f) /\ SubInv(f) /\ FileInv(f) /\ f \in Nat /\ rfile \in Nat /\ nadded \in Nat
    BY RecordAssumption, SMTT(30) DEF ReplayInv, RecordInv, RecordTypes, SubTypes, Files
  <2>4. f \in kept => f < rfile /\ Finished(f)
    BY <2>3 DEF TakenIn, Finished
  <2>5. sub[f] = "done" /\ ~signal_done => Len(submitted[f]) = Len(queued[f])
    BY <2>3, <2>4 DEF SubInv, FileInv
  <2>6. Finished(f) /\ nadded >= f /\ f \notin kept => Len(file[f]) <= 1
    <3>1. SUFFICES ASSUME f < rfile, nadded >= f, f \notin kept PROVE Len(file[f]) <= 1
      BY DEF Finished
    <3>2. hdr[f].nbunches = 0 /\ Len(file[f]) <= hdr[f].nbunches + 1
      BY <2>3, <3>1 DEF TakenIn, FileInv
    <3> QED
      BY <3>2
  <2> QED
    BY <2>1, <2>2, <2>4, <2>5, <2>6
<1> QED
  BY <1>1, ReplayInvariant, PTL

\* Division keeps the order.
LEMMA DivKeepsOrder ==
    ASSUME NEW a \in Int, NEW b \in Int, NEW d \in Nat, d > 0, a <= b
    PROVE  a \div d \in Int /\ b \div d \in Int /\ a \div d <= b \div d
<1>1. PICK p, r : p = a \div d /\ r = b \div d
  OBVIOUS
<1>2. p \in Int /\ r \in Int
  BY <1>1
<1>3. d * p <= a /\ b < d * r + d
  BY <1>1
<1>4. ASSUME p > r PROVE FALSE
  <2>1. PICK e : e = p - (r + 1)
    OBVIOUS
  <2>2. e \in Nat /\ p = (r + 1) + e
    BY <1>2, <1>4, <2>1
  <2>3. d * p = (d * r + d) + d * e /\ d * e >= 0
    BY <1>2, <2>2
  <2> QED
    BY <1>2, <1>3, <2>2, <2>3
<1> QED
  BY <1>1, <1>2, <1>4

\* The packets a thread submits are of its bunch, whose time has come.
LEMMA SubmitIsInTime ==
    ASSUME ReplayInv, NEW f \in Files, Submit(f), stalls, ~signal_done
    PROVE  (queued[f][Last(submitted'[f])] - genesis - max_bunch_tm) \div acc_factor <= clock
<1>1. PICK a, n, L, c : /\ a = Ahead(file[f], nread[f]) /\ n = i[f] + ntodo[f]
                        /\ L = a + n /\ c = Bunch(f)
  OBVIOUS
<1>2. sub[f] = "stall" /\ clock >= Due(f)
  BY DEF Submit
<1>3. /\ a \in Nat /\ InBunch(c, a, queued[f]) /\ c \in ABunch /\ Len(c.pkts) \in Nat
  BY <1>1, <1>2, SubFacts
<1>4. /\ n \in 1 .. Len(c.pkts) /\ Len(submitted'[f]) = L
      /\ \A k \in 1 .. Len(submitted'[f]) : submitted'[f][k] = k
  BY <1>1, SubmitFacts
<1>5. L \in Nat /\ L > 0
  BY <1>1, <1>3, <1>4
<1>6. Last(submitted'[f]) = L
  BY <1>4, <1>5 DEF Last
<1>7. PICK t, g, e : t = queued[f][L] /\ g = genesis /\ e = c.time_stamp
  OBVIOUS
<1>8. L <= Len(queued[f]) /\ t - e <= max_bunch_tm
  BY <1>1, <1>3, <1>4, <1>7 DEF InBunch
<1>9. /\ t \in Nat /\ g \in Int /\ e \in Nat /\ max_bunch_tm \in Nat /\ clock \in Nat
      /\ acc_factor \in Nat /\ acc_factor > 0
  <2>1. /\ queued[f] \in Seq(Nat) /\ genesis \in Int /\ clock \in Nat
        /\ acc_factor \in Nat \ {0}
    BY DEF ReplayInv, RecordInv, RecordTypes, SubTypes
  <2>2. L \in 1 .. Len(queued[f])
    BY <1>5, <1>8, <2>1
  <2>3. t \in Nat
    BY <1>7, <2>1, <2>2
  <2> QED
    BY <1>3, <1>7, <2>1, <2>3, RecordAssumption DEF ABunch
<1>10. PICK x, y : x = t - g - max_bunch_tm /\ y = e - g
  OBVIOUS
<1>11. x \in Int /\ y \in Int /\ x <= y
  BY <1>8, <1>9, <1>10
<1>12. x \div acc_factor \in Int /\ y \div acc_factor \in Int
       /\ x \div acc_factor <= y \div acc_factor
  BY <1>9, <1>11, DivKeepsOrder
<1>13. y \div acc_factor <= clock
  <2>1. Due(f) = y \div acc_factor
    BY <1>1, <1>7, <1>10 DEF Due
  <2> QED
    BY <1>2, <1>9, <1>12, <2>1
<1>14. x \div acc_factor <= clock
  BY <1>9, <1>12, <1>13
<1> QED
  BY <1>6, <1>7, <1>10, <1>14

\* stall: when btreplay stalls and no signal has come no packet is submitted earlier than it was recorded by
\* more than a bunch spans, both counted from the first IO of the files replayed.
THEOREM NoneTooEarly == ReplaySpec => NeverEarly
<1>1. ASSUME ReplayInv, [ReplayNext]_recordReplayVars, stalls, ~signal_done, NEW f \in Files,
             submitted'[f] # submitted[f]
      PROVE  (queued[f][Last(submitted'[f])] - genesis - max_bunch_tm) \div acc_factor
                 <= clock
  <2>1. \E g \in Files : Submit(g)
    <3>1. submitted' # submitted
      BY <1>1
    <3>2. RecordNext /\ UNCHANGED replayVars => submitted' = submitted
      BY DEF replayVars
    <3>3. AddInputFile \/ StartIter \/ Signal \/ Tick \/ Ended => submitted' = submitted
      BY DEF AddInputFile, StartIter, Signal, Tick, Ended, replayVars
    <3>4. \A g \in Files : NextBunch(g) \/ Map(g) => submitted' = submitted
      BY DEF NextBunch, Map
    <3>5. UNCHANGED recordReplayVars => submitted' = submitted
      BY DEF recordReplayVars, replayVars
    <3> QED
      BY <1>1, <3>1, <3>2, <3>3, <3>4, <3>5 DEF ReplayNext
  <2>2. PICK g \in Files : Submit(g)
    BY <2>1
  <2>3. g = f
    BY <1>1, <2>2 DEF Submit, ReplayInv, SubTypes
  <2> QED
    BY <1>1, <2>2, <2>3, SubmitIsInTime
<1>2. ReplayInv /\ [ReplayNext]_recordReplayVars =>
        [stalls /\ ~signal_done => \A f \in Files :
            submitted'[f] # submitted[f] =>
                (queued[f][Last(submitted'[f])] - genesis - max_bunch_tm) \div acc_factor
                    <= clock]_recordReplayVars
  BY <1>1
<1> QED
  BY <1>2, ReplayInvariant, PTL DEF ReplaySpec, NeverEarly

=============================================================================
