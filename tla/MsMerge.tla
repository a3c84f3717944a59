------------------------------ MODULE MsMerge ------------------------------
(***************************************************************************)
(* blkparse on files: do_file opens the file of every CPU, reads a batch   *)
(* of each into a stream and keeps the streams that have traces in a list  *)
(* (ms_head) sorted by the time of their first trace; handle shows the     *)
(* first trace of the first stream and puts the stream where it belongs.   *)
(* What a file holds is chosen as it is read: a file's times do not fall,  *)
(* and it may hold notifies, traces that name another CPU and, as its end, *)
(* a trace with a bad magic or version.                                    *)
(***************************************************************************)
EXTENDS BlkparseInput

CONSTANTS
    MaxRecords       \* bound: records read of one file

VARIABLES
    mpc,             \* where do_file is
    cur,             \* the CPU whose file is set up or read
    i_prime,         \* ms_prime: i
    ndone,           \* ms_prime: ndone
    fd_open,         \* per CPU: pci->fd >= 0
    last_time,       \* file: per CPU, the time of the record read last
    nrecords,        \* per CPU, records read
    queue,           \* per CPU: first .. last, the times in the stream
    ms_head,         \* the list of streams
    gave_up,         \* history, per CPU: a whole batch named another CPU
    queued, nout,    \* history, per CPU: traces that entered and left the stream
    line_time, nr    \* verify_blkparse: last_time, and the lines out of order

fileVars  == <<last_time, nrecords>>
mergeVars == <<mpc, cur, i_prime, ndone, fd_open, fileVars, queue, ms_head,
               gave_up, queued, nout, line_time, nr>>

MergeTypeOK ==
    /\ mpc \in {"off", "setup", "prime", "merge", "end"}
    /\ cur \in 0 .. NCpus
    /\ i_prime \in 0 .. RbBatch /\ ndone \in 0 .. RbBatch
    /\ \A c \in Cpus : queue[c] \in Seq(Times)
    /\ ms_head \in Seq(Cpus)

MergeInit ==
    /\ mpc = IF reader = "do_file" THEN "setup" ELSE "off"
    /\ cur = 0 /\ i_prime = 0 /\ ndone = 0
    /\ fd_open = [c \in Cpus |-> FALSE]
    /\ last_time = [c \in Cpus |-> 1]
    /\ nrecords = [c \in Cpus |-> 0]
    /\ queue = [c \in Cpus |-> <<>>]
    /\ ms_head = <<>>
    /\ gave_up = [c \in Cpus |-> FALSE]
    /\ queued = [c \in Cpus |-> 0]
    /\ nout = [c \in Cpus |-> 0]
    /\ line_time = 0 /\ nr = 0

\* ms_peek_time, in the streams q.
ms_peek_time(q, c) == Head(q[c])

\* Mutant of ms_sort: looks for the place at the end of the list only.
ms_sort_AtEnd(q, list, c) ==
    IF list # <<>> /\ ms_peek_time(q, c) < ms_peek_time(q, list[1])
    THEN <<c>> \o list ELSE Append(list, c)

\* ms_sort: before the head if it is earlier, else behind the head and all the
\* streams that follow it and are earlier.
ms_sort(q, list, c) ==
    LET t     == ms_peek_time(q, c)
        later == {k \in 2 .. Len(list) : ms_peek_time(q, list[k]) >= t}
    IN IF list = <<>> \/ t < ms_peek_time(q, Head(list)) THEN <<c>> \o list
       ELSE InsertAt(list, Min(later \cup {Len(list) + 1}), c)

\* ms_resort, of the head.
ms_resort(q, list) ==
    IF Len(list) > 1 /\ ms_peek_time(q, list[1]) > ms_peek_time(q, list[2])
    THEN ms_sort(q, Tail(list), list[1]) ELSE list

\* setup_file: the files are numbered without a gap, an empty one is passed
\* over, and the first that is not there ends the search.
SetupFile ==
    /\ mpc = "setup"
    /\ \/ /\ cur < NCpus
          /\ \/ /\ fd_open' = [fd_open EXCEPT ![cur] = TRUE]
                /\ mpc' = "prime" /\ i_prime' = 0 /\ ndone' = 0
                /\ UNCHANGED cur
             \/ cur' = cur + 1 /\ UNCHANGED <<fd_open, mpc, i_prime, ndone>>
          /\ UNCHANGED genesis_time
       \/ /\ cur > 0                  \* a device without any file ends do_file
          /\ genesis_time' = IF ms_head = <<>> THEN genesis_time ELSE ms_peek_time(queue, ms_head[1])
          /\ mpc' = "merge"
          /\ UNCHANGED <<fd_open, cur, i_prime, ndone>>
    /\ UNCHANGED <<fileVars, queue, ms_head, gave_up, queued, nout, line_time, nr>>

\* ms_prime, one turn: a trace, a notify (which does not count), or a trace
\* that names another CPU (which does).
PrimeRead ==
    /\ mpc = "prime" /\ fd_open[cur] /\ i_prime < RbBatch
    /\ nrecords[cur] < MaxRecords
    /\ nrecords' = [nrecords EXCEPT ![cur] = @ + 1]
    /\ \E t \in last_time[cur] .. MaxTime :
          /\ last_time' = [last_time EXCEPT ![cur] = t]
          /\ \/ /\ queue' = [queue EXCEPT ![cur] = Append(@, t)]
                /\ queued' = [queued EXCEPT ![cur] = @ + 1]
                /\ i_prime' = i_prime + 1 /\ ndone' = ndone + 1
             \/ UNCHANGED <<queue, queued, i_prime, ndone>>
             \/ i_prime' = i_prime + 1 /\ UNCHANGED <<queue, queued, ndone>>
    /\ UNCHANGED <<mpc, cur, fd_open, ms_head, gave_up, nout, line_time, nr, genesis_time>>

\* ms_prime, a turn that fails: end of file, bad magic or version.
PrimeFails ==
    /\ mpc = "prime" /\ fd_open[cur] /\ i_prime < RbBatch
    /\ fd_open' = [fd_open EXCEPT ![cur] = FALSE]
    /\ UNCHANGED <<mpc, cur, i_prime, ndone, fileVars, queue, ms_head, gave_up,
                   queued, nout, line_time, nr, genesis_time>>

SettingUp == genesis_time = 0

\* Mutant of AfterPrime: a stream that has no more takes the list along.
AfterPrime_DropsRest ==
    IF SettingUp THEN IF ndone = 0 THEN ms_head ELSE ms_sort(queue, ms_head, cur)
                 ELSE IF ndone = 0 THEN <<>> ELSE ms_resort(queue, ms_head)

\* The list after ms_prime: ms_alloc sorts the stream in if it has a trace;
\* ms_deq, for which the stream is the head, resorts it or drops it.
AfterPrime ==
    IF SettingUp THEN IF ndone = 0 THEN ms_head ELSE ms_sort(queue, ms_head, cur)
                 ELSE IF ndone = 0 THEN Tail(ms_head) ELSE ms_resort(queue, ms_head)

PrimeDone ==
    /\ mpc = "prime" /\ (i_prime = RbBatch \/ ~fd_open[cur])
    /\ ms_head' = AfterPrime
    /\ gave_up' = [gave_up EXCEPT ![cur] = ndone = 0 /\ fd_open[cur]]
    /\ IF SettingUp THEN mpc' = "setup" /\ cur' = cur + 1
                    ELSE mpc' = "merge" /\ UNCHANGED cur
    /\ UNCHANGED <<i_prime, ndone, fd_open, fileVars, queue, queued, nout,
                   line_time, nr, genesis_time>>

InTime == Relative(ms_peek_time(queue, ms_head[1])) <= stopwatch[2]

\* verify_blkparse, a line of blkparse's output. Its lines have no sequence
\* numbers here and it counts no aliases.
CheckLine(t) ==
    /\ nr' = IF t < line_time THEN nr + 1 ELSE nr
    /\ line_time' = t

\* handle and ms_deq: the first trace of the first stream is shown (or passed
\* over, before stopwatch_start); a stream that is empty then is primed.
Handle ==
    LET c == ms_head[1] IN
    /\ mpc = "merge" /\ ms_head # <<>> /\ InTime
    /\ IF Relative(ms_peek_time(queue, c)) >= stopwatch[1]
       THEN CheckLine(Relative(ms_peek_time(queue, c))) ELSE UNCHANGED <<line_time, nr>>
    /\ nout' = [nout EXCEPT ![c] = @ + 1]
    /\ queue' = [queue EXCEPT ![c] = Tail(@)]
    /\ IF queue'[c] = <<>>
       THEN /\ mpc' = "prime" /\ cur' = c /\ i_prime' = 0 /\ ndone' = 0
            /\ UNCHANGED ms_head
       ELSE /\ ms_head' = ms_resort(queue', ms_head)
            /\ UNCHANGED <<mpc, cur, i_prime, ndone>>
    /\ UNCHANGED <<fd_open, fileVars, gave_up, queued, genesis_time>>

\* No stream is left, or handle returns 0: the stopwatch's end has passed.
EndMerge ==
    /\ mpc = "merge" /\ (ms_head # <<>> => ~InTime)
    /\ mpc' = "end"
    /\ UNCHANGED <<cur, i_prime, ndone, fd_open, fileVars, queue, ms_head,
                   gave_up, queued, nout, line_time, nr, genesis_time>>

MergeNext == \/ SetupFile \/ PrimeRead \/ PrimeFails \/ PrimeDone \/ Handle \/ EndMerge

-----------------------------------------------------------------------------
\* ms_sort and ms_resort keep the list in order through every refill: no trace
\* that is still to be shown is earlier than the last one shown, and so
\* verify_blkparse finds no line out of order.
MergedInTimeOrder ==
    mpc = "merge" =>
        /\ nr = 0
        /\ \A k \in DOMAIN ms_head : queue[ms_head[k]] # <<>>
        /\ \A k \in DOMAIN ms_head : line_time <= Relative(ms_peek_time(queue, ms_head[k]))

\* ms_deq drops a stream only when its file has no more: when the list is empty,
\* every trace that was read has been shown and every file was read to its end,
\* unless a whole batch of a file named another CPU.
MergeShowsAll ==
    mpc = "end" /\ ms_head = <<>> =>
        \A c \in Cpus : nout[c] = queued[c] /\ (fd_open[c] => gave_up[c])

=============================================================================
