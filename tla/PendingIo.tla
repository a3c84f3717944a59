----------------------------- MODULE PendingIo -----------------------------
(***************************************************************************)
(* iowatcher: the IOs it waits for (io_hash_table), the depth it plots     *)
(* (ios_in_flight) and, with --per-process-io, the plot each process's IOs *)
(* go to.  Every trace passes handle_notify, add_io, add_pending_io and    *)
(* add_completed_io in turn (read_trace_events).                           *)
(***************************************************************************)
EXTENDS KernelIo

VARIABLES
    io_hash,         \* io_hash_table: [sec, dispatched]
    ios_in_flight,
    found_completion,  \* the trace has a completion (check_io_types)
    io_per_process,
    pid_map,         \* process_hash_table: pid -> [index, name], name "" if none
    io_plots,        \* plots in use
    plotted          \* history: <<plot, pid>> of the IOs plotted

pendVars == <<io_hash, ios_in_flight, found_completion, io_per_process,
              pid_map, io_plots, plotted>>

PendInit ==
    /\ io_hash = {}
    /\ ios_in_flight = 0
    /\ found_completion \in BOOLEAN
    /\ io_per_process \in BOOLEAN
    /\ pid_map = [p \in Pids |-> [index |-> 0, name |-> ""]]
    /\ io_plots = 0
    /\ plotted = {}

Hashed(s) == {p \in io_hash : p.sec = s}

\* process_hash_insert with a name: a new name takes over the old index.
process_hash_insert(p, name) == [pid_map EXCEPT ![p].name = name]

\* handle_notify, BLK_TN_PROCESS.
PendProcess(p) ==
    /\ pid_map' = IF io_per_process THEN process_hash_insert(p, Comm[p]) ELSE pid_map
    /\ UNCHANGED <<io_hash, ios_in_flight, found_completion, io_per_process,
                   io_plots, plotted>>

\* Mutant of NewPlot: the counter of plots is not moved on.
NewPlot_Same(p) ==
    /\ pid_map' = [pid_map EXCEPT ![p] = [index |-> io_plots,
                      name |-> IF @.name = "" THEN "[pid]" ELSE @.name]]
    /\ UNCHANGED io_plots
    /\ plotted' = plotted \cup {<<io_plots, p>>}

\* get_pid_map, of a process whose index is 0. The first process is given index 0
\* and so, with its next IO, another.
NewPlot(p) ==
    /\ pid_map' = [pid_map EXCEPT ![p] = [index |-> io_plots,
                      name |-> IF @.name = "" THEN "[pid]" ELSE @.name]]
    /\ io_plots' = io_plots + 1
    /\ plotted' = plotted \cup {<<io_plots, p>>}

\* add_io: IOs are plotted when they are queued; all on one plot unless there is
\* one per process.
add_io(e) ==
    CASE e.act # "Q" -> UNCHANGED <<pid_map, io_plots, plotted>>
      [] e.act = "Q" /\ ~io_per_process ->
            io_plots' = 1 /\ UNCHANGED <<pid_map, plotted>>
      [] e.act = "Q" /\ io_per_process /\ pid_map[e.pid].index = 0 -> NewPlot(e.pid)
      [] OTHER ->
            /\ plotted' = plotted \cup {<<pid_map[e.pid].index, e.pid>>}
            /\ UNCHANGED <<pid_map, io_plots>>

\* hash_queued_io: an IO that is there already stays as it is.
Queued(s) == IF Hashed(s) = {} THEN io_hash \cup {[sec |-> s, dispatched |-> FALSE]} ELSE io_hash

\* hash_dispatched_io; without completions in the trace the IO is forgotten.
Dispatched(s) ==
    (io_hash \ Hashed(s))
        \cup IF found_completion THEN {[sec |-> s, dispatched |-> TRUE]} ELSE {}

\* add_pending_io and add_completed_io.
Pend(e) ==
    \/ e.act = "Q" /\ io_hash' = Queued(e.sec) /\ UNCHANGED ios_in_flight
    \/ /\ e.act = "R"
       /\ ios_in_flight' = IF ios_in_flight > 0 THEN ios_in_flight - 1 ELSE 0
       /\ UNCHANGED io_hash
    \/ e.act = "D" /\ io_hash' = Dispatched(e.sec) /\ ios_in_flight' = ios_in_flight + 1
    \/ /\ e.act = "C"
       /\ io_hash' = io_hash \ Hashed(e.sec)
       /\ ios_in_flight' = IF Hashed(e.sec) # {} /\ ios_in_flight > 0
                           THEN ios_in_flight - 1 ELSE ios_in_flight
    \/ e.act \in {"G", "I", "M", "F"} /\ UNCHANGED <<io_hash, ios_in_flight>>

read_trace_event(e) ==
    /\ add_io(e)
    /\ Pend(e)
    /\ UNCHANGED <<found_completion, io_per_process>>

=============================================================================
