----------------------------- MODULE TraceBufs -----------------------------
(***************************************************************************)
(* blktrace writing to a pipe (-o -) or sending without sendfile (-h -s):  *)
(* every tracer thread reads its CPU's relay files into trace buffers and  *)
(* appends each to the list of its (device, CPU) pair; the main thread     *)
(* takes the lists off in turn and writes or sends the buffers.  The lists *)
(* have a mutex each; dp_entries, the number of buffers to process, has    *)
(* another, and a tracer counts its buffers only after it has queued them. *)
(*                                                                         *)
(* A buffer is the sequence of the stream offsets of its units: the unit n *)
(* is the n-th unit the kernel recorded for that pair.  Start-up and the   *)
(* tracers' own life cycle are in TracerControl.                           *)
(***************************************************************************)
EXTENDS Integers, Sequences, FiniteSets, SequencesExt

CONSTANTS
    NDevs, NCpus,
    EventEnds,       \* per stream, the offsets at which its events end
    BufUnits         \* buf_size: the most a read returns

Devs    == 1 .. NDevs
Cpus    == 1 .. NCpus
Streams == Devs \X Cpus

ASSUME SizesAssumption  == NDevs \in Nat \ {0} /\ NCpus \in Nat \ {0}
ASSUME EventsAssumption ==
    \A s \in Streams : EventEnds[s] \subseteq Nat \ {0} /\ IsFiniteSet(EventEnds[s])
ASSUME BufAssumption    == BufUnits \in Nat \ {0}

Boundaries(s) == {0} \cup EventEnds[s]

VARIABLES
    piped,       \* handle_list_file handles the buffers, else handle_list_net
    filled,      \* kernel: per stream, how far it has recorded
    rd,          \* kernel: per stream, how far it was read
    tracing,     \* kernel: the block trace runs
    pc,          \* per tracer: where it is in thread_main
    dev,         \* per tracer: the next device handle_pfds_entries looks at
    nentries,    \* per tracer: buffers queued, not yet counted
    is_done,     \* per tracer: told to quit
    heads,       \* per stream: the list of trace buffers (hd->head)
    dp_entries,
    asleep,      \* the main thread is blocked on dp_cond
    done,
    handler,     \* where handle_sigint is; it interrupts the main thread
    told,        \* how many tracers it has told to quit
    main,        \* where the main thread is
    cursor,      \* the (device, CPU) it looks at in __process_trace_bufs
    list,        \* the buffers it took off that list
    handled,     \* the buffers it has processed in this pass
    prev,        \* per stream: the unfinished rest (hd->prev), <<>> if none
    fd_open,     \* per CPU, network only: cl_fds[cpu] >= 0
    out,         \* per stream: the units written or sent
    lost         \* per stream, history: the units that went with a failed write

kernelVars  == <<piped, filled, rd, tracing>>
tracerVars  == <<pc, dev, nentries>>
handlerVars == <<is_done, done, handler, told>>
outVars     == <<prev, fd_open, out, lost>>
mainVars    == <<main, cursor, list, handled, outVars>>
vars == <<kernelVars, tracerVars, handlerVars, mainVars, heads, dp_entries, asleep>>

Init ==
    /\ piped \in BOOLEAN
    /\ filled = [s \in Streams |-> 0]
    /\ rd = [s \in Streams |-> 0]
    /\ tracing = TRUE
    /\ pc = [c \in Cpus |-> "loop"]
    /\ dev = [c \in Cpus |-> 1]
    /\ nentries = [c \in Cpus |-> 0]
    /\ is_done = [c \in Cpus |-> FALSE]
    /\ heads = [s \in Streams |-> <<>>]
    /\ dp_entries = 0
    /\ asleep = FALSE
    /\ done = FALSE
    /\ handler = "idle"
    /\ told = 0
    /\ main = "wait"
    /\ cursor = <<1, 1>>
    /\ list = <<>>
    /\ handled = 0
    /\ prev = [s \in Streams |-> <<>>]
    /\ fd_open = [c \in Cpus |-> TRUE]
    /\ out = [s \in Streams |-> <<>>]
    /\ lost = [s \in Streams |-> {}]

-----------------------------------------------------------------------------
(* The kernel. *)

Record(s) ==
    /\ tracing
    /\ \E e \in EventEnds[s] :
          /\ filled[s] < e
          /\ \A f \in EventEnds[s] : filled[s] < f => e <= f
          /\ filled' = [filled EXCEPT ![s] = e]
    /\ UNCHANGED <<piped, rd, tracing, tracerVars, handlerVars, mainVars, heads,
                   dp_entries, asleep>>

-----------------------------------------------------------------------------
(* A tracer thread, from its release on. *)

\* The test of `while (!tp->is_done)' and the poll that follows it.
PollLoop(c) ==
    /\ pc[c] = "loop"
    /\ pc' = [pc EXCEPT ![c] = IF is_done[c] THEN "drain" ELSE "read"]
    /\ UNCHANGED <<kernelVars, dev, nentries, handlerVars, mainVars, heads,
                   dp_entries, asleep>>

\* add_trace_buf: the buffer goes to the tail of the list, under hd->mutex.
AddTraceBuf(s, buf) == heads' = [heads EXCEPT ![s] = Append(@, buf)]

\* handle_pfds_entries, one device: a read returns some of what is there.
ReadDevice(c) ==
    LET s == <<dev[c], c>> IN
    /\ pc[c] \in {"read", "drain"}
    /\ dev[c] <= NDevs
    /\ dev' = [dev EXCEPT ![c] = @ + 1]
    /\ \/ \E k \in 1 .. BufUnits :
             /\ rd[s] + k <= filled[s]
             /\ AddTraceBuf(s, [i \in 1 .. k |-> rd[s] + i])
             /\ rd' = [rd EXCEPT ![s] = @ + k]
             /\ nentries' = [nentries EXCEPT ![c] = @ + 1]
       \/ \* nothing to read, or (a socket's tracer) poll did not report it
          /\ rd[s] = filled[s] \/ (~piped /\ pc[c] = "read")
          /\ UNCHANGED <<heads, rd, nentries>>
    /\ UNCHANGED <<piped, filled, tracing, pc, handlerVars, mainVars, dp_entries, asleep>>

\* Mutant of IncrEntries: looks at the counter after the addition.
IncrEntries_SignalLate(n) ==
    /\ dp_entries' = dp_entries + n
    /\ asleep' = IF n > 0 /\ dp_entries' = 0 THEN FALSE ELSE asleep

\* incr_entries, under dp_mutex: the signal is sent only when dp_entries is 0.
IncrEntries(n) ==
    /\ dp_entries' = dp_entries + n
    /\ asleep' = IF n > 0 /\ dp_entries = 0 THEN FALSE ELSE asleep

\* Mutant of EndRead: the drain is one pass.
EndRead_DrainOnce(c) ==
    /\ pc[c] \in {"read", "drain"}
    /\ dev[c] = NDevs + 1
    /\ IncrEntries(nentries[c])
    /\ nentries' = [nentries EXCEPT ![c] = 0]
    /\ dev' = [dev EXCEPT ![c] = 1]
    /\ pc' = [pc EXCEPT ![c] = IF @ = "read" THEN "loop" ELSE "left"]
    /\ UNCHANGED <<kernelVars, handlerVars, mainVars, heads>>

\* The end of handle_pfds_entries; while draining, a pass that read nothing
\* is the last one (close_ios and the leaving signal follow).
EndRead(c) ==
    /\ pc[c] \in {"read", "drain"}
    /\ dev[c] = NDevs + 1
    /\ IncrEntries(nentries[c])
    /\ nentries' = [nentries EXCEPT ![c] = 0]
    /\ dev' = [dev EXCEPT ![c] = 1]
    /\ pc' = [pc EXCEPT ![c] = IF @ = "read" THEN "loop"
                               ELSE IF nentries[c] > 0 THEN "drain" ELSE "left"]
    /\ UNCHANGED <<kernelVars, handlerVars, mainVars, heads>>

-----------------------------------------------------------------------------
(* handle_sigint: done = 1, BLKTRACESTOP, then is_done of every tracer. *)

Interrupt ==
    /\ handler = "idle"
    /\ main # "finished"
    /\ done' = TRUE
    /\ handler' = "ioctl"
    /\ UNCHANGED <<kernelVars, tracerVars, is_done, told, mainVars, heads,
                   dp_entries, asleep>>

StopTrace ==
    /\ handler = "ioctl"
    /\ tracing' = FALSE
    /\ handler' = "tell"
    /\ UNCHANGED <<piped, filled, rd, tracerVars, is_done, done, told, mainVars, heads,
                   dp_entries, asleep>>

TellTracer ==
    /\ handler = "tell"
    /\ told' = told + 1
    /\ is_done' = [is_done EXCEPT ![told + 1] = TRUE]
    /\ handler' = IF told + 1 = NCpus THEN "over" ELSE "tell"
    /\ UNCHANGED <<kernelVars, tracerVars, done, mainVars, heads, dp_entries,
                   asleep>>

-----------------------------------------------------------------------------
(* The main thread: wait_tracers. *)

MainAt(l) == main = l /\ ~asleep /\ handler \in {"idle", "over"}

\* wait_empty_entries, one turn of its loop, under dp_mutex.
WaitEmptyEntries ==
    /\ MainAt("wait")
    /\ IF done \/ dp_entries # 0
       THEN main' = (IF done THEN "join" ELSE "scan") /\ UNCHANGED asleep
       ELSE asleep' = TRUE /\ UNCHANGED main
    /\ UNCHANGED <<kernelVars, tracerVars, handlerVars, cursor, list, handled,
                   outVars, heads, dp_entries>>

\* Mutant of WaitTimesOut: a wait without a timer.
WaitTimesOut_Untimed ==
    /\ asleep
    /\ dp_entries # 0
    /\ asleep' = FALSE
    /\ UNCHANGED <<kernelVars, tracerVars, handlerVars, mainVars, heads, dp_entries>>

\* The 50 ms of t_pthread_cond_wait are over.
WaitTimesOut ==
    /\ asleep
    /\ asleep' = FALSE
    /\ UNCHANGED <<kernelVars, tracerVars, handlerVars, mainVars, heads, dp_entries>>

Scanning == MainAt("scan") \/ MainAt("rescan")

NextCursor == IF cursor[2] < NCpus THEN <<cursor[1], cursor[2] + 1>>
                                   ELSE <<cursor[1] + 1, 1>>

\* __process_trace_bufs: list_replace_init, under hd->mutex.
TakeList ==
    /\ Scanning
    /\ list = <<>>
    /\ cursor[1] <= NDevs
    /\ IF heads[cursor] = <<>>
       THEN cursor' = NextCursor /\ UNCHANGED <<list, heads>>
       ELSE /\ list' = heads[cursor]
            /\ heads' = [heads EXCEPT ![cursor] = <<>>]
            /\ UNCHANGED cursor
    /\ UNCHANGED <<kernelVars, tracerVars, handlerVars, main, handled, outVars,
                   dp_entries, asleep>>

\* How much of a buffer is whole traces, found by walking it from its first
\* unit. A walk that does not start at an event reads garbage lengths and may
\* stop anywhere.
WholeTraces(buf) ==
    LET base == Head(buf) - 1
        ends == {e - base : e \in {f \in Boundaries(cursor) : base <= f /\ f <= base + Len(buf)}}
    IN IF base \in Boundaries(cursor) THEN {Max(ends)} ELSE 0 .. Len(buf)

\* Mutant of HandleFile: the rest of a buffer is freed with it.
HandleFile_DropsRest(buf) ==
    \E off \in WholeTraces(buf) :
       /\ out' = [out EXCEPT ![cursor] = @ \o SubSeq(buf, 1, off)]
       /\ prev' = [prev EXCEPT ![cursor] = <<>>]
       /\ UNCHANGED <<fd_open, lost>>

\* handle_list_file, one buffer: tb_combine, write the whole traces, keep the rest in
\* hd->prev. write_data fails anywhere (no reader, no space; SIGPIPE is ignored): the
\* buffer is freed with its rest, and blktrace goes on with the next one.
HandleFile(buf) ==
    \E off \in WholeTraces(buf) :
       /\ \/ /\ out' = [out EXCEPT ![cursor] = @ \o SubSeq(buf, 1, off)]
             /\ prev' = [prev EXCEPT ![cursor] = SubSeq(buf, off + 1, Len(buf))]
             /\ UNCHANGED lost
          \/ \E n \in 0 .. off - 1 :
                /\ out' = [out EXCEPT ![cursor] = @ \o SubSeq(buf, 1, n)]
                /\ prev' = [prev EXCEPT ![cursor] = <<>>]
                /\ lost' = [lost EXCEPT ![cursor] = @ \cup {buf[k] : k \in n + 1 .. Len(buf)}]
       /\ UNCHANGED fd_open

\* Mutant of HandleNet: goes on with the connection after a failed send.
HandleNet_KeepsFd(buf) ==
    /\ \/ out' = [out EXCEPT ![cursor] = @ \o buf]
       \/ UNCHANGED out
    /\ UNCHANGED <<fd_open, prev, lost>>

\* handle_list_net, one buffer: flush_subbuf_net sends it whole; after a
\* failure the CPU's connection is closed and its buffers are dropped.
HandleNet(buf) ==
    LET c == cursor[2] IN
    /\ \/ /\ fd_open[c]
          /\ out' = [out EXCEPT ![cursor] = @ \o buf]
          /\ UNCHANGED fd_open
       \/ /\ fd_open[c]
          /\ fd_open' = [fd_open EXCEPT ![c] = FALSE]
          /\ UNCHANGED out
       \/ ~fd_open[c] /\ UNCHANGED <<out, fd_open>>
    /\ UNCHANGED <<prev, lost>>

HandleBuffer ==
    /\ Scanning
    /\ list # <<>>
    /\ IF piped THEN HandleFile(prev[cursor] \o Head(list)) ELSE HandleNet(Head(list))
    /\ list' = Tail(list)
    /\ handled' = handled + 1
    /\ cursor' = IF Len(list) = 1 THEN NextCursor ELSE cursor
    /\ UNCHANGED <<kernelVars, tracerVars, handlerVars, main, heads,
                   dp_entries, asleep>>

\* Mutant of DecrEntries: `handled' survives the pass.
DecrEntries_NoReset ==
    /\ Scanning
    /\ list = <<>>
    /\ cursor[1] = NDevs + 1
    /\ dp_entries' = dp_entries - handled
    /\ cursor' = <<1, 1>>
    /\ main' = IF main = "scan" THEN "wait" ELSE "clean"
    /\ UNCHANGED <<kernelVars, tracerVars, handlerVars, list, handled, outVars,
                   heads, asleep>>

\* The end of __process_trace_bufs: decr_entries, under dp_mutex.
DecrEntries ==
    /\ Scanning
    /\ list = <<>>
    /\ cursor[1] = NDevs + 1
    /\ dp_entries' = dp_entries - handled
    /\ handled' = 0
    /\ cursor' = <<1, 1>>
    /\ main' = IF main = "scan" THEN "wait" ELSE "clean"
    /\ UNCHANGED <<kernelVars, tracerVars, handlerVars, list, outVars, heads,
                   asleep>>

\* wait_tracers_leaving and the joins.
JoinTracers ==
    /\ MainAt("join")
    /\ \A c \in Cpus : pc[c] = "left"
    /\ main' = "clean"
    /\ UNCHANGED <<kernelVars, tracerVars, handlerVars, cursor, list, handled,
                   outVars, heads, dp_entries, asleep>>

\* clean_trace_bufs: `while (dp_entries)'.
CleanTraceBufs ==
    /\ MainAt("clean")
    /\ main' = IF dp_entries # 0 THEN "rescan" ELSE "finished"
    /\ UNCHANGED <<kernelVars, tracerVars, handlerVars, cursor, list, handled,
                   outVars, heads, dp_entries, asleep>>

Finished == main = "finished" /\ UNCHANGED vars

-----------------------------------------------------------------------------
MainStep == \/ WaitEmptyEntries \/ TakeList \/ HandleBuffer \/ DecrEntries
            \/ JoinTracers \/ CleanTraceBufs

HandlerStep == StopTrace \/ TellTracer

TracerStep(c) == PollLoop(c) \/ ReadDevice(c) \/ EndRead(c)

Next ==
    \/ MainStep
    \/ WaitTimesOut
    \/ Interrupt
    \/ HandlerStep
    \/ \E c \in Cpus : TracerStep(c)
    \/ \E s \in Streams : Record(s)
    \/ Finished

Spec == Init /\ [][Next]_vars

\* The scheduler runs every thread that can run, a timed wait ends, and the
\* signal handler runs to its end. The kernel owes nothing, nor does the user.
FairSpec ==
    /\ Spec
    /\ WF_vars(MainStep)
    /\ WF_vars(WaitTimesOut)
    /\ WF_vars(HandlerStep)
    /\ \A c \in Cpus : WF_vars(TracerStep(c))

-----------------------------------------------------------------------------
(* Properties. *)

\* The sum of a function into Nat: as many as there are pairs of an argument and a
\* number up to its value.
Units(f) == UNION {{x} \X (1 .. f[x]) : x \in DOMAIN f}
Total(f) == Cardinality(Units(f))
Queued    == [s \in Streams |-> Len(heads[s])]      \* how many buffers wait
InList(s) == IF s = cursor THEN FlattenSeq(list) ELSE <<>>

\* dp_entries against the lists it counts: a buffer is queued before it is
\* counted and uncounted only after the whole pass, so the counter is off by
\* exactly what the tracers have yet to count and the main thread has yet to
\* uncount (it may be negative in between).  incr_entries signals only when the
\* counter is 0, and all the same the main thread is never asleep on dp_cond while
\* the counter says that there is work.
EntriesAccount ==
    /\ dp_entries + Total(nentries) = Total(Queued) + Len(list) + handled
    /\ asleep => dp_entries = 0

\* Every unit read is, in order and once, in the output, in hd->prev, in the
\* buffers the main thread holds or on the list, as long as the connection holds,
\* but for those that went with a failed write: none is doubled or out of its place,
\* through tb_combine, the memmove of the rest and the buffers after a cut.  After a
\* failed send nothing more of that CPU is sent, and what was sent stays a beginning
\* of the stream, without a gap.
NothingLostOrReordered ==
    \A s \in Streams :
        /\ fd_open[s[2]] =>
              LET rest == prev[s] \o InList(s) \o FlattenSeq(heads[s])
                  z    == rd[s] - Len(rest)
              IN  /\ rest = [i \in 1 .. Len(rest) |-> z + i]
                  /\ ToSet(out[s]) = (1 .. z) \ lost[s] /\ lost[s] \subseteq 1 .. z
                  /\ \A i, j \in 1 .. Len(out[s]) : i < j => out[s][i] < out[s][j]
        /\ lost[s] = {} => out[s] = [i \in 1 .. Len(out[s]) |-> i]

\* How far the units that came out of a stream go without a gap, and how far the
\* whole events among them. A pipe is given whole events only, until a write fails;
\* a socket is given what was read.
OutTo(s)    == IF lost[s] = {} THEN Len(out[s]) ELSE Min(lost[s]) - 1
WholeOut(s) == IF piped /\ lost[s] = {} THEN Len(out[s])
               ELSE Max({b \in Boundaries(s) : b <= OutTo(s)})

\* TraceStream: what comes out of each stream is its events, in order, and all of
\* them when the run is over, unless the connection of its CPU or a write of it failed.
Promise == INSTANCE TraceStream WITH
    recorded  <- filled,
    delivered <- [s \in Streams |-> WholeOut(s)],
    broken    <- [s \in Streams |-> ~fd_open[s[2]] \/ lost[s] # {}],
    closed    <- main = "finished"

DeliversTheStream == Promise!Spec

\* An interrupt ends the run: drain, join and clean-up all terminate.
InterruptEndsRun == done ~> main = "finished"

=============================================================================
