----------------------------- MODULE MCBlkIoMon -----------------------------
(* Bounds for TLC. *)
EXTENDS BlkIoMon

\* One sector of each of two devices.
DevOfKey(k) == IF k = "b" THEN 2 ELSE 1

\* One IO may be done within a microsecond.
SomeGaps == <<{2}, {1, 2}, {2}>>

=============================================================================
