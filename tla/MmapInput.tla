----------------------------- MODULE MmapInput -----------------------------
(***************************************************************************)
(* How btt reads a dump (mmap.c): through a window that is moved when what *)
(* is left of it may not hold the next trace.  It starts on the page that  *)
(* the trace is on, and the test is for Margin bytes, which no trace of    *)
(* the kernel exceeds with its data.  All quantities are bytes.            *)
(*                                                                         *)
(* The file holds whole traces; which lengths they have is found out as    *)
(* they are read.                                                          *)
(***************************************************************************)
EXTENDS Integers

CONSTANTS
    TraceLen,        \* sizeof(struct blk_io_trace)
    Margin,          \* the 512 of next_trace: the longest trace
    DEF_LEN,         \* the length of a window
    PageSize,
    MaxInput         \* bound: how long the file is

ASSUME InputAssumption ==
    /\ TraceLen \in Nat \ {0} /\ Margin \in Nat /\ TraceLen <= Margin
    /\ DEF_LEN \in Nat /\ PageSize \in Nat \ {0} /\ MaxInput \in Nat

\* A window holds a trace wherever in its first page it begins.
ASSUME InputWindowAssumption == PageSize - 1 + Margin <= DEF_LEN

VARIABLES
    reader,          \* "setup", "next" (before next_trace), "read" (in it) or "end"
    total_size, cur, \* of the file: its length, the next trace
    cur_min, cur_max, \* what of the file the window shows
    len              \* the window's length

inputVars == <<reader, total_size, cur, cur_min, cur_max, len>>

WholeTraces(n) == n = 0 \/ n >= TraceLen

InputInit ==
    /\ reader = "setup"
    /\ total_size \in {n \in 0 .. MaxInput : WholeTraces(n)}
    /\ cur = 0 /\ cur_min = 0 /\ cur_max = 0 /\ len = 0

-----------------------------------------------------------------------------
NewMin == cur - (cur % PageSize)
NewLen == IF DEF_LEN < total_size - NewMin THEN DEF_LEN ELSE total_size - NewMin

\* move_map; without a trace behind it, or with no room for one, reading ends.
MoveMap ==
    /\ cur_min' = NewMin
    /\ len' = NewLen
    /\ cur_max' = IF len' < TraceLen THEN cur_max ELSE cur_min' + len'
    /\ reader' = IF len' >= TraceLen /\ cur < cur_max' THEN "read" ELSE "end"
    /\ UNCHANGED <<total_size, cur>>

\* setup_ifile, up to the first trace.
SetupIfile == reader = "setup" /\ MoveMap

\* Mutant of NearEnd: only the trace itself must be there, not what follows it.
NearEnd_TraceOnly == cur + TraceLen > cur_max

NearEnd == cur + Margin > cur_max

\* The beginning of next_trace.
NextTrace ==
    /\ reader = "next"
    /\ IF NearEnd THEN MoveMap
       ELSE reader' = "read" /\ UNCHANGED <<total_size, cur, cur_min, cur_max, len>>

\* The rest of it: convert_to_cpu copies the trace and the data behind it.
ConvertToCpu ==
    /\ reader = "read"
    /\ \E this_len \in TraceLen .. Margin :
          /\ cur + this_len <= total_size /\ WholeTraces(total_size - (cur + this_len))
          /\ cur' = cur + this_len
    /\ reader' = "next"
    /\ UNCHANGED <<total_size, cur_min, cur_max, len>>

InputNext == SetupIfile \/ NextTrace \/ ConvertToCpu

InputSpec == InputInit /\ [][InputNext]_inputVars

-----------------------------------------------------------------------------
\* next_trace tests for 512 bytes and move_map for a bare trace: all the same what
\* is copied lies in the window, however long it is and wherever the window
\* ends, and reading ends at the end of the file, not with its last traces unread.
ReadsEveryTrace ==
    /\ reader = "read" => /\ cur_min <= cur /\ cur < cur_max /\ cur_max <= total_size
                          /\ cur + Margin <= cur_max \/ cur_max = total_size
    /\ reader = "end" => cur = total_size

\* What it rests on: the window lies in the file, and what is left is whole traces.
InputInv ==
    /\ reader \in {"setup", "next", "read", "end"}
    /\ total_size \in Nat /\ cur \in Nat /\ cur_min \in Nat /\ cur_max \in Nat /\ len \in Int
    /\ cur <= total_size /\ WholeTraces(total_size - cur)
    /\ cur_min <= cur /\ cur_max <= total_size
    /\ ReadsEveryTrace

=============================================================================
