----------------------------- MODULE MCIoTools -----------------------------
(* Bounds for TLC. *)
EXTENDS IoTools

\* A process that reads on one CPU and a process of the same name that writes on
\* another; each may also do the other's insertions, issues and completions.
TwoProcesses == {<<1, 0, 0>>, <<2, 1, 1>>}
SameName     == <<"a", "a">>

\* All tools by process and by name; a trace without completions.
SomeOptions ==
    {[by_pid |-> FALSE, complete |-> TRUE, per_process |-> TRUE],
     [by_pid |-> TRUE, complete |-> FALSE, per_process |-> FALSE]}

\* IOs of a dump: two sectors near the beginning of a device, and one further on.
SomeExtents == {<<1, 2>>, <<7, 1>>}

=============================================================================
