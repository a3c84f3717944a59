---------------------------- MODULE MCNetServer ----------------------------
(***************************************************************************)
(* Two runs of one host: a (send) has a connection for each of up to two   *)
(* CPUs, a1 and a2, and one device; b (sendfile) has one CPU and a         *)
(* connection for each of up to two devices, b1 and b2, of which a has one *)
(* too.  Each configuration takes three of the connections.                *)
(*                                                                         *)
(* The files that the server writes, and blktrace without a network, are   *)
(* MmapOutput: an alternative that the initial state chooses.              *)
(***************************************************************************)
EXTENDS NetServer, MmapOutput

CONSTANTS a, b, h, d1, d2, a1, a2, b1, b2

MCHostOf  == [r \in Runs |-> h]
MCRunOf   == [c \in Conns |-> IF c \in {b1, b2} THEN b ELSE a]
MCDevsOf  == [c \in Conns |-> IF c = b1 THEN <<d2>> ELSE <<d1>>]
MCEarlier == [c \in Conns |-> IF c = b2 THEN {b1} \cap Conns ELSE {}]
MCDataOf  == [c \in Conns |-> IF c \in {a1, b1} THEN 1 ELSE 0]

VARIABLE part   \* "net" or "file"

MCInit == Init /\ OutputInit /\ part \in {"net", "file"}

MCNext ==
    \/ part = "net" /\ Next /\ UNCHANGED <<outputVars, part>>
    \/ part = "file" /\ OutputNext /\ UNCHANGED <<vars, part>>

\* The fairness of FairSpec, where there is a network.
MCSpec ==
    /\ MCInit /\ [][MCNext]_<<vars, outputVars, part>>
    /\ WF_vars(part = "net" /\ AddConnection)
    /\ \A c \in Conns :
          WF_vars(part = "net" /\ ClientStep(c)) /\ WF_vars(part = "net" /\ ServerStep(c))

=============================================================================
