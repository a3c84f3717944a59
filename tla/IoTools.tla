------------------------------ MODULE IoTools ------------------------------
(***************************************************************************)
(* blkparse, btt and iowatcher reading the same traces: those of the block *)
(* layer, of which some may not have been taken (the tracing began later,  *)
(* or the kernel dropped them), so that none of the three sees them; those *)
(* of a few IOs with their times, for what btt measures; a file of whole   *)
(* traces, for the window through which btt reads it; a dump of any        *)
(* records, for the passes iowatcher makes over it; or none yet, while     *)
(* iowatcher runs the tracers.                                             *)
(***************************************************************************)
EXTENDS IoTrack, BttIo, PendingIo, Mpstat, MmapInput, WatchTracers

CONSTANTS
    Options          \* the options run with: [by_pid, complete, per_process]

ASSUME OptionsAssumption ==
    Options \subseteq [by_pid : BOOLEAN, complete : BOOLEAN, per_process : BOOLEAN]

VARIABLES
    feed,            \* which traces: "kernel", "timed", "file", "dump" or "none"
    odd,             \* traces not taken, and bios queued where one was in flight
    clean,           \* history: there were none
    named            \* processes that announced themselves

toolVars == <<kernelVars, trackVars, bttVars, pendVars, odd, clean, named>>
vars     == <<toolVars, statVars, inputVars, dump, tracingVars, feed>>

Init ==
    /\ KernelInit /\ TrackInit /\ BttInit /\ PendInit
    /\ [by_pid |-> hash_by_pid, complete |-> found_completion,
        per_process |-> io_per_process] \in Options
    /\ odd = 0 /\ clean = TRUE /\ named = {}
    /\ StatInit /\ InputInit /\ dump = <<>> /\ WatchInit
    /\ feed \in {"kernel", "timed", "file", "dump", "none"}
    /\ feed # "kernel" => ~hash_by_pid       \* the options are the trackers'
    /\ with_prog => feed = "none"
    /\ total_size # 0 => feed = "file"

\* Two IOs at one sector at a time: a bio where one is in flight, or a second
\* packet command.
Aliases(e) == \/ e.act = "Q" /\ e.sec \in InFlight
              \/ e.act = "I" /\ e.pc /\ \E r \in reqs : r.pc

OneMore == odd + npc + nrequeues < MaxOdd /\ odd' = odd + 1

Taken(e) ==
    /\ e.act = "C" => found_completion
    /\ dump_trace(e) /\ add_trace(e) /\ read_trace_event(e)
    /\ clean' = (clean /\ ~Aliases(e))
    /\ IF Aliases(e) THEN OneMore ELSE UNCHANGED odd

Lost(e) ==
    /\ \/ OneMore
       \/ e.act = "C" /\ ~found_completion /\ UNCHANGED odd      \* -a without complete
    /\ clean' = FALSE
    /\ UNCHANGED <<trackVars, bttVars, pendVars>>

See(e) == (Taken(e) \/ Lost(e)) /\ UNCHANGED named

\* What the block layer does, and the trace of it.  A request may be moved on in
\* any context: it may be a worker's.
KernelTraced ==
    \/ \E b \in NewBios : Queue(b) /\ See(BioTrace("Q", b))
    \/ \E b \in bios : GetRq(b) /\ See(BioTrace("G", b))
    \/ \E b \in bios, r \in reqs :
          \/ BackMerge(b, r) /\ See(BioTrace("M", b))
          \/ FrontMerge(b, r) /\ See(BioTrace("F", b))
    \/ \E ctx \in Contexts : InsertPc(PcReq(ctx)) /\ See(ReqTrace("I", PcReq(ctx), ctx))
    \/ \E r \in reqs, ctx \in Contexts :
          \/ Insert(r) /\ See(ReqTrace("I", r, ctx))
          \/ Issue(r) /\ See(ReqTrace("D", r, ctx))
          \/ Requeue(r) /\ See(ReqTrace("R", r, ctx))
          \/ Complete(r) /\ See(ReqTrace("C", r, ctx))

\* The processes are announced ahead of their first traces (what came from a trace
\* taken of running processes), the lowest pid first, or none is.
Announce(p) ==
    /\ nbios = 0 /\ npc = 0 /\ named = {o \in Pids : o < p}
    /\ named' = named \cup {p}
    /\ TrackProcess(p)
    /\ BttProcess(p)
    /\ PendProcess(p)
    /\ UNCHANGED <<kernelVars, odd, clean>>

Next ==
    \/ /\ feed = "kernel"
       /\ \/ named \in {{}, Pids} /\ KernelTraced
          \/ \E p \in Pids : Announce(p)
       /\ UNCHANGED <<statVars, inputVars, dump, tracingVars, feed>>
    \/ feed = "timed" /\ StatNext /\ UNCHANGED <<toolVars, inputVars, dump, tracingVars, feed>>
    \/ feed = "file" /\ InputNext /\ UNCHANGED <<toolVars, statVars, dump, tracingVars, feed>>
    \/ feed = "dump" /\ Dumped /\ UNCHANGED <<toolVars, statVars, inputVars, tracingVars, feed>>
    \/ feed = "none" /\ WatchNext /\ UNCHANGED <<toolVars, statVars, inputVars, dump, feed>>

Spec == Init /\ [][Next]_vars

-----------------------------------------------------------------------------
(* Properties. *)

\* blkparse -t: as long as no trace is lost, what it tracks is the requests
\* that exist, each under the sector it begins at now (after front merges) and
\* with the times that were traced.
TracksRequests ==
    clean =>
        /\ {t.sec : t \in rb_track} = {r.sec : r \in FsReqs}
        /\ \A r \in FsReqs : \A t \in Track(r.sec) :
              /\ t.alloc
              /\ r.state = "inserted" => t.queue
              /\ r.state = "issued" => t.dispatch

Sum(S, f(_)) == FoldSet(LAMBDA x, y : f(x) + y, 0, S)
OfProcesses == FoldLeft(LAMBDA sum, ppi : Added(sum, ppi.stats), NoStats, ppis)

\* account_*: the totals of the processes are the totals of the CPUs, however the
\* processes are keyed and whether or not they were announced ahead of the traces;
\* and what was issued and not taken back by a requeue is completed or in the driver.  iowatcher
\* --per-process-io: no two processes share a plot; btt's IOs of two pids count for
\* one process exactly if both were announced under one name.
AccountsAgree ==
    /\ total = OfProcesses
    /\ clean => \A w \in Dirs :
          total[<<"i_b", w>>] - total[<<"c_b", w>>]
              = Sum({r \in Issued \cap FsReqs : r.w = w}, LAMBDA r : r.n)
    /\ \A x, y \in plotted : x[1] = y[1] => x[2] = y[2]
    /\ \A p, o \in {x \in Pids : root_pid[x] # 0} :
          root_pid[p] = root_pid[o] <=> p = o \/ ({p, o} \subseteq named /\ Comm[p] = Comm[o])

\* blkparse's depth and iowatcher's are the number of requests in the driver, and
\* "if we miss traces, don't let it go below zero" whatever is lost.
DepthsAgree ==
    /\ clean => /\ \A w \in Dirs : cur_depth[w] = Cardinality({r \in Issued : r.w = w})
                /\ ios_in_flight = Cardinality(Issued)
    /\ \A w \in Dirs : cur_depth[w] >= 0
    /\ ios_in_flight >= 0 /\ n_act_q >= 0 /\ na >= 0

\* btt: the Qs it holds are the bios in flight, those in the driver with their
\* issue time; the active queue is the bios and requests that wait, which is
\* also what n_qs, n_ds and the merges leave.  Its iostat, whose completions count
\* Qs where its issues count requests, agrees only without merges and requeues.
BttFollowsBios ==
    clean =>
        /\ {q.sec : q \in q_tree} = InFlight \ {0}
        /\ \A q \in q_tree : \A r \in Issued : q.sec \in SectorsOf(r) => q.d
        /\ n_act_q = Cardinality(bios) + Cardinality(FsReqs \ Issued)
        /\ n_act_q = n_qs - n_ds - rqm
        /\ rqm = 0 /\ nrequeues = 0 =>
              /\ cur_qusz = Cardinality(FsReqs)
              /\ cur_dev = Cardinality(Issued \cap FsReqs)
              /\ na = cur_dev

\* btt: what it measures of the same IOs along different paths is the same, and
\* what it writes per interval, second or period leaves nothing out.
MeasuresAgree == feed = "timed" => IostatAndLivesAgree /\ PeriodsAccountForAll

\* iowatcher: whatever is in a dump, the passes over it agree on what it holds, and
\* so does what it reads of the text of mpstat, wherever that ends.
WatchedWhole == feed = "dump" => DumpIsWatchedWhole /\ MpstatIsWatched

=============================================================================
