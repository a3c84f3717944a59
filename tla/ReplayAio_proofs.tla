-------------------------- MODULE ReplayAio_proofs --------------------------
(***************************************************************************)
(* For every pool size, bunch size and number of bunches, and whenever a   *)
(* signal arrives: the two threads of a btreplay file account for every    *)
(* IOCB, their assertions hold (that there is an IO to map: unless a       *)
(* signal came), and no wake-up on the shared condition variable is lost   *)
(* or goes to the wrong thread.                                            *)
(***************************************************************************)
EXTENDS ReplayAio, TLAPS

\* pthread_cond_signal with a single waiter wakes that one.
LEMMA SignalWakesTheWaiter ==
    ASSUME NEW t, waiting = {t}, CondSignal
    PROVE  waiting' = {}
BY DEF CondSignal

\* A signal never adds a waiter.
LEMMA SignalOnlyWakes ==
    ASSUME CondSignal
    PROVE  waiting' \subseteq waiting
BY DEF CondSignal

USE PoolAssumption, InputAssumption, SignalAssumption

LEMMA InitIInv == Init => IInv
<1> SUFFICES ASSUME Init
             PROVE  IInv
  OBVIOUS
<1> USE DEF Init
<1>1. TypeOK
  <2>1. naios \in 0 .. naios /\ 0 \in 0 .. naios /\ 0 \in 0 .. MaxPkts
    OBVIOUS
  <2>2. NBunches \in 0 .. NBunches
    OBVIOUS
  <2> QED
    BY <2>1, <2>2, Zenon DEF TypeOK
<1>2. PoolAccount /\ OutAccount
  BY DEF PoolAccount, OutAccount, Mapped, Uncounted, Reaped
<1>3. AssertionsHold /\ LocalKnowledge
  BY DEF AssertionsHold, LocalKnowledge
<1>4. NoLostWakeup
  BY DEF NoLostWakeup
<1> QED
  BY <1>1, <1>2, <1>3, <1>4 DEF IInv

LEMMA NextIInv == IInv /\ [Next]_vars => IInv'
<1> SUFFICES ASSUME IInv, [Next]_vars
             PROVE  IInv'
  OBVIOUS
<1> USE DEF IInv, TypeOK, PoolAccount, OutAccount, AssertionsHold, NoLostWakeup,
            LocalKnowledge, Mapped, Uncounted, Reaped, Sub, Rec, is_send_done,
            is_reap_done, subVars, recVars, poolVars, flagVars, doneVars, kernelVars
<1>1. CASE NextBunch
  BY <1>1 DEF NextBunch
<1>2. CASE BunchLoop
  BY <1>2 DEF BunchLoop
<1>3. CASE NfreeCurrent
  <2>1. sub = "nfree" /\ sub' \in {"nfree", "map"}
    BY <1>3 DEF NfreeCurrent
  <2>2. CASE sub' = "nfree"
    <3>1. /\ naios_free = 0 /\ send_wait'
          /\ waiting' = waiting \cup {"sub"}
          /\ ntodo' = ntodo
      BY <1>3, <2>2 DEF NfreeCurrent
    <3>2. /\ waiting' \subseteq {"sub", "rec"}
          /\ "rec" \in waiting' => "rec" \in waiting
      BY <3>1
    <3> QED
      BY <1>3, <2>2, <3>1, <3>2 DEF NfreeCurrent
  <2>3. CASE sub' = "map"
    <3>1. /\ ntodo' \in 0 .. MaxPkts /\ ntodo' <= left /\ ntodo' <= naios_free
          /\ 0 < ntodo' \/ is_send_done
      BY <1>3, <2>3 DEF NfreeCurrent
    <3>2. UNCHANGED <<send_wait, waiting>>
      BY <1>3, <2>3 DEF NfreeCurrent
    <3> QED
      BY <1>3, <2>3, <3>1, <3>2 DEF NfreeCurrent
  <2> QED
    BY <2>1, <2>2, <2>3
<1>4. CASE IocbsMap
  BY <1>4 DEF IocbsMap
<1>5. CASE IoSubmit
  BY <1>5 DEF IoSubmit
<1>6. CASE CountSubmitted
  <2>1. waiting' \subseteq waiting
    BY <1>6, SignalOnlyWakes DEF CountSubmitted
  <2>2. "rec" \notin waiting'
    <3>1. CASE "rec" \in waiting
      <4>1. waiting = {"rec"} /\ CondSignal
        BY <1>6, <3>1 DEF CountSubmitted
      <4> QED
        BY <4>1, SignalWakesTheWaiter
    <3>2. CASE "rec" \notin waiting
      BY <2>1, <3>2
    <3> QED
      BY <3>1, <3>2
  <2>3. naios_out' = naios_out + ntodo /\ naios_out' \in 0 .. naios
    BY <1>6 DEF CountSubmitted
  <2>4. TypeOK'
    <3>1. waiting' \subseteq {"sub", "rec"}
      BY <2>1
    <3>2. left' \in 0 .. MaxPkts /\ ntodo' \in 0 .. MaxPkts
      BY <1>6 DEF CountSubmitted
    <3>3. sub' = "bunch" /\ send_wait' \in BOOLEAN /\ reap_wait' \in BOOLEAN
      BY <1>6 DEF CountSubmitted
    <3> QED
      BY <1>6, <2>3, <3>1, <3>2, <3>3 DEF CountSubmitted
  <2>5. PoolAccount' /\ OutAccount' /\ AssertionsHold'
    BY <1>6 DEF CountSubmitted
  <2>6. NoLostWakeup' /\ LocalKnowledge'
    BY <1>6, <2>1, <2>2, <2>3 DEF CountSubmitted
  <2> QED
    BY <2>4, <2>5, <2>6
<1>7. CASE SubEnds
  BY <1>7 DEF SubEnds
<1>8. CASE RecTest
  BY <1>8 DEF RecTest
<1>9. CASE RecWait
  <2>1. waiting' \in {waiting, waiting \cup {"rec"}} /\ waiting' \subseteq {"sub", "rec"}
    BY <1>9 DEF RecWait
  <2>2. TypeOK'
    BY <1>9, <2>1 DEF RecWait
  <2>3. PoolAccount' /\ OutAccount' /\ AssertionsHold'
    BY <1>9 DEF RecWait
  <2>4. NoLostWakeup' /\ LocalKnowledge'
    BY <1>9, <2>1 DEF RecWait
  <2> QED
    BY <2>2, <2>3, <2>4
<1>10. CASE Fetch
  BY <1>10 DEF Fetch
<1>11. CASE Reclaim
  <2>1. waiting' \subseteq waiting
    BY <1>11, SignalOnlyWakes DEF Reclaim
  <2>2. "sub" \notin waiting'
    <3>1. CASE "sub" \in waiting
      <4>1. waiting = {"sub"} /\ CondSignal
        BY <1>11, <3>1 DEF Reclaim
      <4> QED
        BY <4>1, SignalWakesTheWaiter
    <3>2. CASE "sub" \notin waiting
      BY <2>1, <3>2
    <3> QED
      BY <3>1, <3>2
  <2>3. /\ naios_out' = naios_out - ndone /\ naios_out' \in 0 .. naios
        /\ naios_free' = naios_free + ndone /\ naios_free' \in 0 .. naios
    BY <1>11 DEF Reclaim
  <2>4. batch' \in 0 .. naios /\ batch' <= naios_out'
    BY <1>11, <2>3 DEF Reclaim
  <2>5. TypeOK'
    <3>1. waiting' \subseteq {"sub", "rec"}
      BY <2>1
    <3>2. rec' \in {"fetch", "test"} /\ ndone' = 0 /\ send_wait' \in BOOLEAN
      BY <1>11 DEF Reclaim
    <3> QED
      BY <1>11, <2>3, <2>4, <3>1, <3>2 DEF Reclaim
  <2>6. PoolAccount' /\ OutAccount' /\ AssertionsHold'
    BY <1>11, <2>3 DEF Reclaim
  <2>7. "rec" \notin waiting'
    BY <1>11, <2>1 DEF Reclaim
  <2>8. NoLostWakeup'
    BY <2>2, <2>7
  <2>9. LocalKnowledge'
    BY <1>11, <2>2, <2>3, <2>4, <2>7 DEF Reclaim
  <2> QED
    BY <2>5, <2>6, <2>8, <2>9
<1>12. CASE RecEnds
  BY <1>12 DEF RecEnds
<1>13. CASE Complete
  BY <1>13 DEF Complete
<1>14. CASE Signal
  BY <1>14 DEF Signal
<1>15. CASE UNCHANGED vars
  BY <1>15 DEF vars
<1> QED
  BY <1>1, <1>2, <1>3, <1>4, <1>5, <1>6, <1>7, <1>8, <1>9, <1>10, <1>11, <1>12,
     <1>13, <1>14, <1>15 DEF Next, SubStep, RecStep, Finished

\* The conjunction is an invariant of every behaviour.
THEOREM InductiveInvariant == Spec => []IInv
BY InitIInv, NextIInv, PTL DEF Spec

\* The pool's counters, the local counts and the kernel's stay in their ranges.
THEOREM TypeCorrect == Spec => []TypeOK
<1>1. IInv => TypeOK
  BY DEF IInv
<1> QED
  BY <1>1, InductiveInvariant, PTL

\* No IOCB is lost or used twice.
THEOREM PoolIsConserved == Spec => [](PoolAccount /\ OutAccount)
<1>1. IInv => PoolAccount /\ OutAccount
  BY DEF IInv
<1> QED
  BY <1>1, InductiveInvariant, PTL

\* The assertions of iocbs_map, process_bunch, reclaim_ios and replay_rec hold,
\* but for 0 < ntodo, which fails after a signal only.
THEOREM AssertionsAreTrue == Spec => []AssertionsHold
<1>1. IInv => AssertionsHold
  BY DEF IInv
<1> QED
  BY <1>1, InductiveInvariant, PTL

\* A sleeping thread has nothing to do, or has been woken.
THEOREM WakeupsAreNotLost == Spec => []NoLostWakeup
<1>1. IInv => NoLostWakeup
  BY DEF IInv
<1> QED
  BY <1>1, InductiveInvariant, PTL

\* The two threads never wait at once: when no IOCB is free, all are out.
THEOREM NeverBothWait == Spec => []OneWaiter
<1>1. IInv => OneWaiter
  <2> SUFFICES ASSUME IInv, waiting = {"sub", "rec"}
               PROVE  FALSE
    BY DEF OneWaiter
  <2>1. naios_free = 0 /\ naios_out = 0 /\ sub = "nfree" /\ rec = "wait"
    BY DEF IInv, NoLostWakeup, LocalKnowledge
  <2>2. inflight + completed = 0 /\ inflight + completed = naios
    BY <2>1, PoolAssumption
    DEF IInv, TypeOK, PoolAccount, OutAccount, Mapped, Uncounted, Reaped
  <2> QED
    BY <2>2, PoolAssumption
<1> QED
  BY <1>1, InductiveInvariant, PTL

\* When the rec thread has left, every IOCB is on the free list again.
THEOREM NothingIsLeft == Spec => []LeavesNothing
<1>1. IInv => LeavesNothing
  BY PoolAssumption
  DEF IInv, LeavesNothing, TypeOK, PoolAccount, OutAccount, LocalKnowledge,
      Mapped, Uncounted, Reaped
<1> QED
  BY <1>1, InductiveInvariant, PTL
=============================================================================
