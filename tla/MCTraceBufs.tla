---------------------------- MODULE MCTraceBufs ----------------------------
(* Bounds for TLC. *)
EXTENDS TraceBufs

\* A short and a long event on one CPU, a short one on the other.
TwoCpus == (<<1, 1>> :> {1, 3}) @@ (<<1, 2>> :> {1})

=============================================================================
