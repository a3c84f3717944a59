------------------------------ MODULE IoTrack ------------------------------
(***************************************************************************)
(* What blkparse keeps of the traces it shows (dump_trace): the IOs being  *)
(* tracked for -t (rb_track), the depth of the device's queue, and the     *)
(* totals of every CPU and, for -s, of every process, by pid or by name.   *)
(***************************************************************************)
EXTENDS KernelIo, Sequences, SequencesExt

VARIABLES
    rb_track,        \* io_track's: [sec, alloc, queue, dispatch]; which times are set
    cur_depth,       \* per direction
    cpu_stats,       \* per CPU: io_stats
    ppm,             \* ppm_hash_table: the name known of a pid, "" if none
    ppis,            \* ppi_list, newest first: [pid, stats]
    hash_by_pid      \* ppi_hash_by_pid; FALSE with -s name

trackVars == <<rb_track, cur_depth, cpu_stats, ppm, ppis, hash_by_pid>>

\* Of struct io_stats: how many were queued and merged, the sectors issued and
\* completed, and packet commands.  What is counted next to them (issues,
\* completions and requeues) is left out.
Counters == {"q", "m", "i_b", "c_b", "i_pc", "c_pc"}
NoStats  == [k \in Counters \X Dirs |-> 0]

TrackInit ==
    /\ rb_track = {}
    /\ cur_depth = [w \in Dirs |-> 0]
    /\ cpu_stats = [c \in Cpus |-> NoStats]
    /\ ppm = [p \in Pids |-> ""]
    /\ ppis = <<>>
    /\ hash_by_pid \in BOOLEAN

-----------------------------------------------------------------------------
(* Process names. *)

\* add_ppm_hash: the first name stays.
NamedAs(p, name) == IF ppm[p] = "" THEN [ppm EXCEPT ![p] = name] ELSE ppm

\* handle_notify, BLK_TN_PROCESS.
TrackProcess(p) ==
    /\ ppm' = NamedAs(p, Comm[p])
    /\ UNCHANGED <<rb_track, cur_depth, cpu_stats, ppis, hash_by_pid>>

\* find_ppi: by pid, or the newest of the same name; 0 if there is none.
find_ppi(p) ==
    LET same(i) == IF hash_by_pid THEN ppis[i].pid = p
                   ELSE ppm[p] # "" /\ ppm[ppis[i].pid] = ppm[p]
        found   == {i \in DOMAIN ppis : same(i)}
    IN IF found = {} THEN 0 ELSE Min(found)

\* find_process_io_stats: the list with the process in it.
find_process_io_stats(p) ==
    IF find_ppi(p) # 0 THEN ppis ELSE <<[pid |-> p, stats |-> NoStats]>> \o ppis

-----------------------------------------------------------------------------
(* Accounts. *)

\* account_*: the CPU's totals and the process's; changes is what is added to
\* which counter.
Added(stats, changes) ==
    [k \in DOMAIN stats |-> stats[k] + IF k \in DOMAIN changes THEN changes[k] ELSE 0]

Account(e, changes) ==
    LET list == find_process_io_stats(e.pid)
        at   == IF find_ppi(e.pid) = 0 THEN 1 ELSE find_ppi(e.pid)
    IN /\ cpu_stats' = [cpu_stats EXCEPT ![e.cpu] = Added(@, changes)]
       /\ ppis' = [list EXCEPT ![at].stats = Added(@, changes)]

\* show_device_and_cpu_stats: the totals it prints for the device.
total == FoldFunction(Added, NoStats, cpu_stats)

NoAccount == UNCHANGED <<cpu_stats, ppis>>

\* Mutant of AccountOf: a requeue leaves the amount issued as it is.
AccountOf_KeepsIssued(e) ==
    LET w == e.w IN
    CASE e.act = "Q" -> [k \in {<<"q", w>>} |-> 1]
      [] e.act \in {"M", "F"} -> [k \in {<<"m", w>>} |-> 1]
      [] e.act = "D" -> [k \in {<<"i_b", w>>} |-> e.n]
      [] e.act = "C" -> [k \in {<<"c_b", w>>} |-> e.n]
      [] e.act = "R" -> [k \in {<<"i_b", w>>} |-> 0]
      [] OTHER       -> [k \in {} |-> 0]

\* What a trace adds: account_queue, account_m, account_issue, account_c and
\* account_requeue, which takes back what was issued.
AccountOf(e) ==
    LET w == e.w IN
    CASE e.act = "Q" -> [k \in {<<"q", w>>} |-> 1]
      [] e.act \in {"M", "F"} -> [k \in {<<"m", w>>} |-> 1]
      [] e.act = "D" -> [k \in {<<"i_b", w>>} |-> e.n]
      [] e.act = "C" -> [k \in {<<"c_b", w>>} |-> e.n]
      [] e.act = "R" -> [k \in {<<"i_b", w>>} |-> -e.n]
      [] OTHER       -> [k \in {} |-> 0]

\* The same of packet commands: account_pc_issue, account_pc_c, account_pc_requeue
\* (of no sectors).  The block layer queues none.
AccountOfPc(e) ==
    CASE e.act = "D" -> [k \in {<<"i_pc", e.w>>} |-> 1]
      [] e.act = "C" -> [k \in {<<"c_pc", e.w>>} |-> 1]
      [] e.act = "R" -> [k \in {<<"i_pc", e.w>>} |-> 0]
      [] OTHER       -> [k \in {} |-> 0]

\* Mutant of Depth: lets the depth go below zero.
Depth_Unclamped(e) ==
    cur_depth' = [cur_depth EXCEPT ![e.w] =
                    CASE e.act = "D" -> @ + 1 [] e.act \in {"R", "C"} -> @ - 1 [] OTHER -> @]

\* cur_depth: up with an issue, down with a requeue or a completion, "can happen
\* if we miss traces, don't let it go below zero".
Depth(e) ==
    cur_depth' = [cur_depth EXCEPT ![e.w] =
                    CASE e.act = "D" -> @ + 1
                      [] e.act \in {"R", "C"} /\ @ > 0 -> @ - 1
                      [] OTHER -> @]

-----------------------------------------------------------------------------
(* The IOs tracked. *)

Track(s)      == {t \in rb_track : t.sec = s}
Untracked(s)  == [sec |-> s, alloc |-> FALSE, queue |-> FALSE, dispatch |-> FALSE]

\* find_track: the IO at the sector, a new one if there is none; its times are
\* what malloc left there.
find_track(s) == IF Track(s) = {} THEN Untracked(s) ELSE CHOOSE t \in Track(s) : TRUE

Kept(s, t) == (rb_track \ Track(s)) \cup {t}

\* Mutant of FrontMerged: the IO stays where it was.
FrontMerged_NoRekey(e) == rb_track

\* log_track_frontmerge: the IO behind the bio is taken out and put back at the
\* bio's sector, unless an IO is there already ("sector alias"): then it is lost.
FrontMerged(e) ==
    LET old == Track(e.sec + e.n) IN
    (rb_track \ old)
        \cup {[t EXCEPT !.sec = e.sec] : t \in IF Track(e.sec) = {} THEN old ELSE {}}

\* log_track_getrq, _insert, _issue and _complete; log_track_queue does nothing
\* for a device that is no remapper.
Tracked(e) ==
    CASE e.act = "G" -> Kept(e.sec, [find_track(e.sec) EXCEPT !.alloc = TRUE])
      [] e.act = "I" -> Kept(e.sec, [find_track(e.sec) EXCEPT !.queue = TRUE])
      [] e.act = "F" -> FrontMerged(e)
      [] e.act = "D" -> {[t EXCEPT !.dispatch = @ \/ t.sec = e.sec] : t \in rb_track}
      [] e.act = "C" -> rb_track \ Track(e.sec)
      [] OTHER       -> rb_track

\* find_track names the process of a new IO, "unknown" if nobody has.
TracksAnew(e) == ~e.pc /\ e.act \in {"G", "I"} /\ Track(e.sec) = {}

\* dump_trace: dump_trace_fs or dump_trace_pc. A trace that accounts for nothing
\* (G, I) leaves the process list alone.
dump_trace(e) ==
    LET changes == IF e.pc THEN AccountOfPc(e) ELSE AccountOf(e) IN
    /\ Depth(e)
    /\ IF DOMAIN changes = {} THEN NoAccount ELSE Account(e, changes)
    /\ rb_track' = IF e.pc THEN rb_track ELSE Tracked(e)
    /\ ppm' = IF TracksAnew(e) \/ (DOMAIN changes # {} /\ find_ppi(e.pid) = 0)
              THEN NamedAs(e.pid, "unknown") ELSE ppm
    /\ UNCHANGED hash_by_pid

=============================================================================
