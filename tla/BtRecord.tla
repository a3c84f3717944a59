------------------------------ MODULE BtRecord ------------------------------
(***************************************************************************)
(* btrecord turns the trace file of each CPU into a replay file: the Qs of *)
(* the trace, in bunches of at most max_pkts_per_bunch that span at most   *)
(* max_bunch_tm, behind a header that is written empty first and filled in *)
(* last.  The files are processed one after the other; btrecord may be     *)
(* killed in any of them.  A packet is the place of its Q in the trace.    *)
(***************************************************************************)
EXTENDS Integers, Sequences, FiniteSets, SequencesExt

CONSTANTS
    NFiles,
    MaxTime,              \* bound: time stamps are in 1 .. MaxTime
    MaxQs,                \* bound: Qs in a file
    max_pkts_per_bunch,   \* -M
    max_bunch_tm          \* -m

ASSUME RecordAssumption ==
    /\ NFiles \in Nat \ {0} /\ MaxTime \in Nat /\ MaxQs \in Nat
    /\ max_pkts_per_bunch \in 1 .. 512 /\ max_bunch_tm \in Nat \ {0}

\* The traces of the CPUs of a device, until one is missing.
Files == 1 .. NFiles
Times == 1 .. MaxTime

VARIABLES
    rpc,          \* where btrecord is
    rfile,        \* the file it processes
    queued,       \* per file, the times of the Qs in the trace
    genesis_of,   \* iip->genesis, of the file it processes
    cur,          \* stream->cur: [time_stamp, pkts], or NoBunch
    hdr,          \* per file, the header: [genesis, nbunches], or NoHeader
    file          \* per file, the bunches behind the header

recordVars == <<rpc, rfile, queued, genesis_of, cur, hdr, file>>

NoBunch  == [time_stamp |-> 0, pkts |-> <<>>]
NoHeader == [genesis |-> 0, nbunches |-> -1]

\* What the header is before the first bunch (stream_open): if btrecord is killed
\* this is what remains.
EmptyHeader == [genesis |-> 0, nbunches |-> 0]

RecordTypeOK ==
    /\ rpc \in {"open", "read", "end"}
    /\ rfile \in 1 .. NFiles + 1
    /\ \A f \in Files : queued[f] \in Seq(Times)
    /\ genesis_of \in 0 .. MaxTime
    /\ cur.time_stamp \in 0 .. MaxTime
    /\ \A f \in Files : hdr[f].nbunches \in -1 .. MaxQs

RecordInit ==
    /\ rpc = "open" /\ rfile = 1
    /\ queued = [f \in Files |-> <<>>]
    /\ genesis_of = 0
    /\ cur = NoBunch
    /\ hdr = [f \in Files |-> NoHeader]
    /\ file = [f \in Files |-> <<>>]

\* stream_open
StreamOpen ==
    /\ rpc = "open" /\ rfile <= NFiles
    /\ hdr' = [hdr EXCEPT ![rfile] = EmptyHeader]
    /\ genesis_of' = 0
    /\ cur' = NoBunch
    /\ rpc' = "read"
    /\ UNCHANGED <<rfile, queued, file>>

\* Mutant of BunchDone: a bunch is closed only when it is full.
BunchDone_WhenFull(t) == Len(cur.pkts) >= max_pkts_per_bunch

\* bunch_done, for an IO at t.
BunchDone(t) ==
    \/ Len(cur.pkts) >= max_pkts_per_bunch
    \/ t - cur.time_stamp > max_bunch_tm

\* stream_flush, as a function of the bunches written so far.
Flushed(bunches) == IF cur.pkts = <<>> THEN bunches ELSE Append(bunches, cur)

\* stream_add_io: io_bunch_create when there is no bunch or it is done, and
\* io_bunch_add.
StreamAddIo(pkt, t) ==
    IF cur # NoBunch /\ ~BunchDone(t)
    THEN cur' = [cur EXCEPT !.pkts = Append(@, pkt)] /\ UNCHANGED file
    ELSE /\ file' = [file EXCEPT ![rfile] = Flushed(@)]
         /\ cur' = [time_stamp |-> t, pkts |-> <<pkt>>]

\* next_io: the next Q of the trace. The times of one CPU do not fall:
\* io_bunch_add says so in an assertion.
NextIo ==
    /\ rpc = "read" /\ Len(queued[rfile]) < MaxQs
    /\ \E t \in Times :
          LET pkt == Len(queued[rfile]) + 1 IN
          /\ pkt > 1 => t >= Last(queued[rfile])
          /\ queued' = [queued EXCEPT ![rfile] = Append(@, t)]
          /\ genesis_of' = IF genesis_of = 0 THEN t ELSE genesis_of
          /\ StreamAddIo(pkt, t)
    /\ UNCHANGED <<rpc, rfile, hdr>>

\* Mutant of StreamClose: the last bunch is not written.
StreamClose_NoFlush ==
    /\ rpc = "read"
    /\ hdr' = [hdr EXCEPT ![rfile] = [genesis |-> genesis_of, nbunches |-> Len(file[rfile])]]
    /\ rfile' = rfile + 1
    /\ rpc' = IF rfile = NFiles THEN "end" ELSE "open"
    /\ UNCHANGED <<queued, genesis_of, cur, file>>

\* The end of the trace, or a short read: stream_close. The header is made up
\* before the last bunch is flushed and counted.
StreamClose ==
    /\ rpc = "read"
    /\ hdr' = [hdr EXCEPT ![rfile] = [genesis |-> genesis_of, nbunches |-> Len(file[rfile])]]
    /\ file' = [file EXCEPT ![rfile] = Flushed(@)]
    /\ rfile' = rfile + 1
    /\ rpc' = IF rfile = NFiles THEN "end" ELSE "open"
    /\ UNCHANGED <<queued, genesis_of, cur>>

\* btrecord is killed: of the file it is at, any part may have reached the disk.
Killed ==
    /\ rpc = "read"
    /\ \E n \in 0 .. Len(file[rfile]) : file' = [file EXCEPT ![rfile] = SubSeq(@, 1, n)]
    /\ rpc' = "end"
    /\ UNCHANGED <<rfile, queued, genesis_of, cur, hdr>>

RecordNext == StreamOpen \/ NextIo \/ StreamClose \/ Killed
=============================================================================
