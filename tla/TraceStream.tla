---------------------------- MODULE TraceStream ----------------------------
(***************************************************************************)
(* What blktrace promises of every (device, CPU) pair it traces, whichever *)
(* way the data leaves: the events the kernel recorded come out whole, in  *)
(* order, none twice and none skipped, and when the run is over they have  *)
(* all come out.  A connection or a write may fail and break a stream:     *)
(* what came out of it by then stays, and nothing is promised of what      *)
(* still comes.  The other streams are delivered all the same.             *)
(*                                                                         *)
(* A stream is measured in units (of bytes); EventEnds are the offsets at  *)
(* which its events end.                                                   *)
(***************************************************************************)
EXTENDS Integers

CONSTANTS
    Streams,    \* the (device, CPU) pairs
    EventEnds   \* per stream, the offsets at which its events end

VARIABLES
    recorded,   \* per stream, how far the kernel has recorded
    delivered,  \* per stream, how far the whole events in the output reach
    broken,     \* per stream, its connection or a write has failed
    closed      \* the run is over

vars == <<recorded, delivered, broken, closed>>

Init ==
    /\ recorded = [s \in Streams |-> 0]
    /\ delivered = [s \in Streams |-> 0]
    /\ broken = [s \in Streams |-> FALSE]
    /\ closed = FALSE

\* The kernel records whole events.
Record(s) ==
    /\ ~closed
    /\ \E e \in EventEnds[s] :
          /\ recorded[s] < e
          /\ recorded' = [recorded EXCEPT ![s] = e]
    /\ UNCHANGED <<delivered, broken, closed>>

\* The next events of one stream come out.
Deliver(s) ==
    /\ ~closed
    /\ ~broken[s]
    /\ \E e \in EventEnds[s] :
          /\ delivered[s] < e
          /\ e <= recorded[s]
          /\ delivered' = [delivered EXCEPT ![s] = e]
    /\ UNCHANGED <<recorded, broken, closed>>

\* A connection fails, and with it all the streams it carries.
Break(S) ==
    /\ ~closed
    /\ broken' = [s \in Streams |-> broken[s] \/ s \in S]
    /\ UNCHANGED <<recorded, delivered, closed>>

\* A write fails on the way: some more events of its stream have come out whole.
Cut(s) ==
    /\ ~closed
    /\ ~broken[s]
    /\ \E e \in {delivered[s]} \cup EventEnds[s] :
          /\ delivered[s] <= e
          /\ e <= recorded[s]
          /\ delivered' = [delivered EXCEPT ![s] = e]
    /\ broken' = [broken EXCEPT ![s] = TRUE]
    /\ UNCHANGED <<recorded, closed>>

Close ==
    /\ ~closed
    /\ \A s \in Streams : ~broken[s] => delivered[s] = recorded[s]
    /\ closed' = TRUE
    /\ UNCHANGED <<recorded, delivered, broken>>

Next ==
    \/ Close
    \/ \E s \in Streams : Record(s) \/ Deliver(s) \/ Cut(s)
    \/ \E S \in SUBSET Streams : Break(S)

Spec == Init /\ [][Next]_vars
=============================================================================
