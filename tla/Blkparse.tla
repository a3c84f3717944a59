------------------------------ MODULE Blkparse ------------------------------
(***************************************************************************)
(* The readers of traces: blkparse, whose main chooses do_fifo or do_file  *)
(* and the stopwatch once, and blkrawverify.                               *)
(***************************************************************************)
EXTENDS LiveParse, MsMerge, RawVerify

vars == <<reader, stopwatch, genesis_time, liveVars, mergeVars, verifyVars>>

Init ==
    /\ reader \in Readers
    /\ stopwatch \in Stopwatches
    /\ genesis_time = 0
    /\ LiveInit
    /\ MergeInit
    /\ VerifyInit

Ended == lpc = "end" \/ mpc = "end" \/ vpc = "end"

Next ==
    \/ LiveNext /\ UNCHANGED <<reader, stopwatch, mergeVars, verifyVars>>
    \/ MergeNext /\ UNCHANGED <<reader, stopwatch, liveVars, verifyVars>>
    \/ VerifyNext /\ UNCHANGED <<reader, stopwatch, genesis_time, liveVars, mergeVars>>
    \/ Ended /\ UNCHANGED vars

Spec == Init /\ [][Next]_vars

\* Either way of reading shows all that it took in: the final pass over the
\* tree of a pipe, and the streams of the files.
EverythingShown == LiveShowsAll /\ MergeShowsAll

=============================================================================
