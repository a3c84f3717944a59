----------------------------- MODULE LiveParse -----------------------------
(***************************************************************************)
(* blkparse on a pipe: do_pipe reads a batch of traces, sorts them into a  *)
(* tree by time and shows those whose turn it is; at the end of the input  *)
(* what is left in the tree is shown whatever its number.  The pipe is     *)
(* FIFO and so each CPU's numbers come in rising order, but traces may be  *)
(* missing (dropped by the kernel, or with a version blkparse does not     *)
(* read) and the CPUs' clocks are neither in step nor always monotone.     *)
(***************************************************************************)
EXTENDS BlkparseInput

CONSTANTS
    PipeCpus,        \* bound: the CPUs whose traces come down the pipe
    MaxSeq,          \* bound: sequence numbers are in 1 .. MaxSeq
    MaxEvents,       \* bound: traces read
    MaxMessages      \* bound: messages (BLK_TN_MESSAGE) among them

ASSUME PipeAssumption == PipeCpus \subseteq Cpus /\ MaxSeq \in Nat

VARIABLES
    lpc,             \* where do_pipe is
    came,            \* pipe: per CPU, the last sequence number that came
    nread, nmsgs,    \* traces and messages read so far
    trace_list,      \* the batch, last read first
    rb_sort,         \* rb_sort_root: the tree of traces to show
    last_sequence,   \* per CPU: the last number shown, -1 before the first
    skips,           \* per CPU: skips_head .. skips_tail
    sorted,          \* history, per CPU: the numbers that entered the tree
    live,            \* history, per CPU: the numbers shown before the end
    flushed          \* history, per CPU: the numbers the final pass showed

pipeVars == <<came, nread, nmsgs>>
liveVars == <<lpc, pipeVars, trace_list, rb_sort, last_sequence, skips, sorted, live, flushed>>

LiveTypeOK ==
    /\ lpc \in {"off", "read", "sort", "show", "flush", "end"}
    /\ came \in [Cpus -> 0 .. MaxSeq]
    /\ nread \in 0 .. MaxEvents /\ nmsgs \in 0 .. MaxMessages
    /\ Len(trace_list) <= RbBatch
    /\ last_sequence \in [Cpus -> -1 .. MaxSeq]

LiveInit ==
    /\ lpc = IF reader = "do_fifo" THEN "read" ELSE "off"
    /\ came = [c \in Cpus |-> 0]
    /\ nread = 0 /\ nmsgs = 0
    /\ trace_list = <<>> /\ rb_sort = {}
    /\ last_sequence = [c \in Cpus |-> -1]
    /\ skips = [c \in Cpus |-> <<>>]
    /\ sorted = [c \in Cpus |-> {}]
    /\ live = [c \in Cpus |-> <<>>]
    /\ flushed = [c \in Cpus |-> <<>>]

\* read_events, one turn: a trace, or a message, which has no number. What
\* verify_trace refuses is as if it had not come. A notify that is no message
\* is handled at once and leaves nothing here.
ReadEvent(c) ==
    /\ lpc = "read" /\ Len(trace_list) < RbBatch /\ nread < MaxEvents
    /\ \E t \in Times :
          \/ \E seq \in came[c] + 1 .. MaxSeq :
                /\ trace_list' = <<[cpu |-> c, seq |-> seq, time |-> t]>> \o trace_list
                /\ came' = [came EXCEPT ![c] = seq]
                /\ UNCHANGED nmsgs
          \/ /\ nmsgs < MaxMessages
             /\ trace_list' = <<[cpu |-> c, seq |-> 0, time |-> t]>> \o trace_list
             /\ nmsgs' = nmsgs + 1
             /\ UNCHANGED came
    /\ nread' = nread + 1
    /\ UNCHANGED <<lpc, rb_sort, last_sequence, skips, sorted, live, flushed, genesis_time>>

\* The end of read_events: the batch is full, or nothing more is there for now;
\* with nothing read, the input has ended (or `done', or a bad magic).
EndBatch ==
    /\ lpc = "read"
    /\ lpc' = IF trace_list = <<>> THEN "flush" ELSE "sort"
    /\ UNCHANGED <<pipeVars, trace_list, rb_sort, last_sequence, skips, sorted,
                   live, flushed, genesis_time>>

\* find_genesis: the earliest time of the first batch.
FindGenesis ==
    genesis_time' = IF genesis_time = 0
                    THEN Min({trace_list[i].time : i \in DOMAIN trace_list})
                    ELSE genesis_time

Rebased(t)         == (t - genesis_time') % TimeMod
InStopwatch(e)     == stopwatch[1] <= e.time /\ e.time < stopwatch[2]
IsMessage(e)       == e.seq = 0
Numbers(c, es)     == {e.seq : e \in {k \in es : k.cpu = c /\ ~IsMessage(k)}}

\* sort_entries: the batch goes into the tree, less what the stopwatch leaves
\* out; then do_pipe stops reading if the youngest is past the stopwatch.
SortEntries ==
    LET es      == [i \in DOMAIN trace_list |-> [trace_list[i] EXCEPT !.time = Rebased(@)]]
        kept    == {e \in ToSet(es) : InStopwatch(e)}
        young   == FoldLeft(LAMBDA y, e : IF e.time < y \/ y = 0 THEN e.time ELSE y, 0, es)
    IN
    /\ lpc = "sort"
    /\ FindGenesis
    /\ rb_sort' = rb_sort \cup kept
    /\ sorted' = [c \in Cpus |-> sorted[c] \cup Numbers(c, kept)]
    /\ trace_list' = <<>>
    /\ lpc' = IF young > stopwatch[2] THEN "flush" ELSE "show"
    /\ UNCHANGED <<pipeVars, last_sequence, skips, live, flushed>>

\* The tree's order: time, then sequence number; of equal ones of two CPUs the
\* one read last in the first batch comes first, and the model takes either.
Before(a, b) == a.time < b.time \/ (a.time = b.time /\ a.seq < b.seq)
Leftmost(e)  == e \in rb_sort /\ \A o \in rb_sort : ~Before(o, e)

\* Mutant of MustWait: a later number need not wait.
MustWait_Never(e, force) == FALSE

\* Mutant of MustWait: the final pass waits as well.
MustWait_Forced(e, force) ==
    /\ ~IsMessage(e)
    /\ last_sequence[e.cpu] # -1
    /\ e.seq # last_sequence[e.cpu] + 1

\* check_sequence returns 1: the trace is not the next of its CPU and may yet
\* be. A CPU's first trace is let through: check_cpu_map finds no CPU marked
\* online on a pipe. smallest_seq_read stays 0, so nothing is looked up in
\* rb_last, from which put_trace has removed every trace at once (nfiles is 0).
MustWait(e, force) ==
    /\ ~force
    /\ ~IsMessage(e)
    /\ last_sequence[e.cpu] # -1
    /\ e.seq # last_sequence[e.cpu] + 1

\* check_sequence returns 0, what it does to the CPU's skips.
CheckSequence(e) ==
    LET c        == e.cpu
        expected == last_sequence[c] + 1
    IN skips' = [skips EXCEPT ![c] =
                   IF IsMessage(e) \/ expected = 0 \/ e.seq = expected THEN @
                   ELSE IF InSkip(@, e.seq) # {} THEN check_current_skips(@, e.seq)
                   ELSE IF expected < e.seq THEN insert_skip(@, expected, e.seq - 1)
                   ELSE @]

\* Mutant of ShowTrace: a message sets last_sequence too.
ShowTrace_MessageCounts(e) ==
    /\ CheckSequence(e)
    /\ rb_sort' = rb_sort \ {e}
    /\ last_sequence' = [last_sequence EXCEPT ![e.cpu] = e.seq]

\* show_entries_rb, the trace it takes off the tree.
ShowTrace(e) ==
    /\ CheckSequence(e)
    /\ rb_sort' = rb_sort \ {e}
    /\ last_sequence' = IF IsMessage(e) THEN last_sequence
                        ELSE [last_sequence EXCEPT ![e.cpu] = e.seq]

Record(log, e) == IF IsMessage(e) THEN log ELSE [log EXCEPT ![e.cpu] = Append(@, e.seq)]

\* show_entries_rb(0), one turn.
ShowLive ==
    /\ lpc = "show"
    /\ \E e \in rb_sort :
          /\ Leftmost(e) /\ ~MustWait(e, FALSE)
          /\ ShowTrace(e)
          /\ live' = Record(live, e)
    /\ UNCHANGED <<lpc, pipeVars, trace_list, sorted, flushed, genesis_time>>

\* Its end: the tree is empty or its first trace must wait.
EndShow ==
    /\ lpc = "show"
    /\ rb_sort = {} \/ \E e \in rb_sort : Leftmost(e) /\ MustWait(e, FALSE)
    /\ lpc' = "read"
    /\ UNCHANGED <<pipeVars, trace_list, rb_sort, last_sequence, skips, sorted,
                   live, flushed, genesis_time>>

\* show_entries_rb(1), one turn.
Flush ==
    /\ lpc = "flush"
    /\ \E e \in rb_sort :
          /\ Leftmost(e) /\ ~MustWait(e, TRUE)
          /\ ShowTrace(e)
          /\ flushed' = Record(flushed, e)
    /\ UNCHANGED <<lpc, pipeVars, trace_list, sorted, live, genesis_time>>

EndFlush ==
    /\ lpc = "flush"
    /\ rb_sort = {} \/ \E e \in rb_sort : Leftmost(e) /\ MustWait(e, TRUE)
    /\ lpc' = "end"
    /\ UNCHANGED <<pipeVars, trace_list, rb_sort, last_sequence, skips, sorted,
                   live, flushed, genesis_time>>

LiveNext == \/ EndBatch \/ SortEntries \/ ShowLive \/ EndShow \/ Flush \/ EndFlush
            \/ \E c \in PipeCpus : ReadEvent(c)

-----------------------------------------------------------------------------
Shown(c)      == live[c] \o flushed[c]
IsRising(s)   == \A i, j \in DOMAIN s : i < j => s[i] < s[j]
Missing(s)    == (s[1] .. s[Len(s)]) \ ToSet(s)
Skipped(c)    == UNION {skips[c][i].start .. skips[c][i].end : i \in DOMAIN skips[c]}

\* check_sequence ("we may not have seen that sequence yet ... break and wait
\* for more entries"): whatever the clocks do, what is shown of a CPU while the
\* input lasts is a run of consecutive numbers.
LiveIsGapless ==
    \A c \in Cpus : \A i \in DOMAIN live[c] : live[c][i] = live[c][1] + i - 1

\* The skips of a CPU whose traces came out in rising order are exactly the
\* numbers that did not come between its first and its last, and the count that
\* show_device_and_cpu_stats prints is how many they are.
SkipsAreLosses ==
    \A c \in Cpus : Shown(c) # <<>> /\ IsRising(Shown(c)) =>
        /\ Skipped(c) = Missing(Shown(c))
        /\ SeqSkips(skips[c]) = Cardinality(Missing(Shown(c)))

\* show_entries_rb(1) leaves nothing behind a trace that waits: at the end every
\* trace that entered the tree has been shown, once.
LiveShowsAll ==
    lpc = "end" =>
        /\ rb_sort = {}
        /\ \A c \in Cpus : ToSet(Shown(c)) = sorted[c] /\ IsInjective(Shown(c))

=============================================================================
