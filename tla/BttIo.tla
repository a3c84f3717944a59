------------------------------- MODULE BttIo -------------------------------
(***************************************************************************)
(* btt: the IOs of one device that are queued and not yet completed (the Q *)
(* tree of its d_info), and the counters its reports are made of.  A trace *)
(* of another kind is used to find the Qs it is about and then released.   *)
(* Every IO counts for a process, and processes of one name are one.       *)
(***************************************************************************)
EXTENDS KernelIo

VARIABLES
    root_pid,        \* the process the IOs of a pid count for: the pid it was made
                     \* for, 0 if there is none
    root_name,       \* the processes with a name: [name, pid]
    q_tree,          \* the Q tree: [sec, g, i, m, d]; which times are set
    pre_culling,     \* no Q was seen yet
    n_qs, n_ds,      \* queued (requeued included) and issued
    n_act_q,         \* the active queue
    na,              \* aqd_info: active requests at the driver
    cur_qusz, cur_dev, rqm   \* iostat: queue size, in the driver, merges

bttVars == <<root_pid, root_name, q_tree, pre_culling, n_qs, n_ds, n_act_q, na,
             cur_qusz, cur_dev, rqm>>

BttInit ==
    /\ root_pid = [p \in Pids |-> 0] /\ root_name = {}
    /\ q_tree = {} /\ pre_culling = TRUE
    /\ n_qs = 0 /\ n_ds = 0 /\ n_act_q = 0 /\ na = 0
    /\ cur_qusz = 0 /\ cur_dev = 0 /\ rqm = 0

-----------------------------------------------------------------------------
(* Processes. *)

\* Mutant of Referred: the pid of a second process of a name is not referred to it.
Referred_Anew(p) == IF root_pid[p] # 0 THEN root_pid[p] ELSE p

\* The process that a pid with a name gets: its own, that of the name, or a new one.
Referred(p) ==
    LET named_so == {n.pid : n \in {x \in root_name : x.name = Comm[p]}} IN
    IF root_pid[p] # 0 THEN root_pid[p] ELSE IF named_so # {} THEN Max(named_so) ELSE p

\* process_alloc, of a process announced.
BttProcess(p) ==
    /\ root_pid' = [root_pid EXCEPT ![p] = Referred(p)]
    /\ root_name' = IF root_pid[p] = 0 /\ Referred(p) = p
                    THEN root_name \cup {[name |-> Comm[p], pid |-> p]} ELSE root_name
    /\ UNCHANGED <<q_tree, pre_culling, n_qs, n_ds, n_act_q, na, cur_qusz, cur_dev, rqm>>

\* find_process for an IO: of a pid that is not known a process is made up, under
\* a name that no other has.
find_process(p) == [root_pid EXCEPT ![p] = IF @ = 0 THEN p ELSE @]

-----------------------------------------------------------------------------
(* IOs. *)

\* rb_find_sec and rb_foreach: the Q that holds a sector, the Qs within a range.
\* (A Q is one sector, and rb_insert lets no two begin at one: none overlap.)
FindSec(s)     == {q \in q_tree : q.sec = s}
Within(e)      == {q \in q_tree : q.sec \in e.sec .. e.sec + e.n - 1}
Marked(Q, t)   == (q_tree \ Q) \cup {[q EXCEPT ![t] = TRUE] : q \in Q}

\* trace_queue: io_setup ends the culling and inserts the Q; one that begins
\* where another does is released.
TraceQueue(e) ==
    /\ pre_culling' = FALSE
    /\ IF FindSec(e.sec) = {}
       THEN /\ q_tree' = q_tree \cup
                 {[sec |-> e.sec, g |-> FALSE, i |-> FALSE, m |-> FALSE, d |-> FALSE]}
            /\ n_qs' = n_qs + 1
            /\ n_act_q' = n_act_q + 1
       ELSE UNCHANGED <<q_tree, n_qs, n_act_q>>
    /\ UNCHANGED <<n_ds, na, cur_qusz, cur_dev, rqm>>

\* handle_g
TraceGetrq(e) ==
    /\ cur_qusz' = cur_qusz + 1
    /\ q_tree' = Marked(FindSec(e.sec), "g")
    /\ UNCHANGED <<pre_culling, n_qs, n_ds, n_act_q, na, cur_dev, rqm>>

\* handle_i
TraceInsert(e) ==
    /\ q_tree' = Marked(FindSec(e.sec), "i")
    /\ UNCHANGED <<pre_culling, n_qs, n_ds, n_act_q, na, cur_qusz, cur_dev, rqm>>

\* Mutant of TraceMerge: a merged IO stays in the active queue.
TraceMerge_StaysActive(e) ==
    /\ rqm' = rqm + 1
    /\ q_tree' = Marked(FindSec(e.sec), "m")
    /\ UNCHANGED <<pre_culling, n_qs, n_ds, n_act_q, na, cur_qusz, cur_dev>>

\* handle_m
TraceMerge(e) ==
    /\ rqm' = rqm + 1
    /\ q_tree' = Marked(FindSec(e.sec), "m")
    /\ n_act_q' = IF n_act_q # 0 THEN n_act_q - 1 ELSE 0
    /\ UNCHANGED <<pre_culling, n_qs, n_ds, na, cur_qusz, cur_dev>>

\* handle_requeue
TraceRequeue(e) ==
    /\ n_qs' = n_qs + 1
    /\ n_act_q' = n_act_q + 1
    /\ UNCHANGED <<q_tree, pre_culling, n_ds, na, cur_qusz, cur_dev, rqm>>

\* handle_issue, with iostat_issue and aqd_issue.
TraceIssue(e) ==
    /\ n_act_q' = IF n_act_q # 0 THEN n_act_q - 1 ELSE 0
    /\ n_ds' = n_ds + 1
    /\ cur_dev' = cur_dev + 1
    /\ na' = na + 1
    /\ q_tree' = Marked(Within(e), "d")
    /\ UNCHANGED <<pre_culling, n_qs, cur_qusz, rqm>>

\* handle_complete, with aqd_complete and, for every Q that was issued,
\* iostat_complete: the queue sizes go down by one for each Q, merged or not.
TraceComplete(e) ==
    LET done == {q \in Within(e) : q.d} IN
    /\ na' = IF na > 0 THEN na - 1 ELSE 0
    /\ cur_qusz' = cur_qusz - Cardinality(done)
    /\ cur_dev' = cur_dev - Cardinality(done)
    /\ q_tree' = q_tree \ Within(e)
    /\ UNCHANGED <<pre_culling, n_qs, n_ds, n_act_q, rqm>>

\* add_trace: packet commands, and all that precedes the first Q, are released.
add_trace(e) ==
    IF e.pc \/ (pre_culling /\ e.act # "Q") THEN UNCHANGED bttVars
    ELSE /\ \/ e.act = "Q" /\ TraceQueue(e)
            \/ e.act = "G" /\ TraceGetrq(e)
            \/ e.act = "I" /\ TraceInsert(e)
            \/ e.act \in {"M", "F"} /\ TraceMerge(e)
            \/ e.act = "R" /\ TraceRequeue(e)
            \/ e.act = "D" /\ TraceIssue(e)
            \/ e.act = "C" /\ TraceComplete(e)
         /\ root_pid' = IF e.act = "Q" /\ FindSec(e.sec) # {} THEN root_pid
                        ELSE find_process(e.pid)
         /\ UNCHANGED root_name

=============================================================================
