----------------------------- MODULE MmapOutput -----------------------------
(***************************************************************************)
(* One output file of blktrace in file mode: reads from the relay file go  *)
(* straight into a window of the output file that is mapped in memory      *)
(* (handle_pfds_file, setup_mmap, close_iop; struct mmap_info).  When the  *)
(* window has no room for another read the file is extended, and a new     *)
(* window mapped that starts on the page in which the data ends.           *)
(*                                                                         *)
(* The file belongs to one tracer, so its steps interleave with nothing.   *)
(* All quantities are bytes, as in the code; the words are 64 bits wide    *)
(* and, under WindowAssumption, nothing wraps.                             *)
(***************************************************************************)
EXTENDS Integers

CONSTANTS
    BufSize,    \* mip->buf_size: also the most one read asks for
    BufNr,      \* mip->buf_nr
    PageSize,   \* mip->pagesize
    MaxSize,    \* bound: how much is traced
    CanFail     \* may ftruncate or mmap fail?

\* setup_mmap: max(16, buf_nr) buffers.
Nr == IF BufNr > 16 THEN BufNr ELSE 16

ASSUME SizesAssumption  == /\ BufSize \in Nat \ {0}
                           /\ BufNr \in Nat \ {0}
                           /\ PageSize \in Nat \ {0}
                           /\ MaxSize \in Nat
ASSUME ModesAssumption  == CanFail \in BOOLEAN

\* A window gives up less than a page at its start, which holds data already,
\* and as much at its end (setup_mmap subtracts the offset from the length
\* too); what is left still takes a read. With the least buf_size of 1 KiB this
\* holds for 4 KiB pages, with the default of 512 KiB for any page size.
ASSUME WindowAssumption == BufSize + 2 * (PageSize - 1) <= Nr * BufSize

VARIABLES
    pc,           \* "idle", "filling" (between setup_mmap and read), "closed"
    fs_size,      \* bytes of trace in the file
    fs_max_size,  \* what the file was extended to
    fs_off,       \* where in the window the next read goes
    fs_buf_len,   \* length of the window
    fs_buf,       \* "null", "failed" (MAP_FAILED) or "mapped"
    map_base,     \* file offset at which the mapping starts
    file_len      \* length of the file on disk

outputVars == <<pc, fs_size, fs_max_size, fs_off, fs_buf_len, fs_buf, map_base, file_len>>

OutputTypeOK ==
    /\ pc \in {"idle", "filling", "closed"}
    /\ fs_size \in Nat
    /\ fs_max_size \in Nat
    /\ fs_off \in Nat
    /\ fs_buf_len \in Nat
    /\ fs_buf \in {"null", "failed", "mapped"}
    /\ map_base \in Nat
    /\ file_len \in Nat

OutputInit ==
    /\ pc = "idle"
    /\ fs_size = 0
    /\ fs_max_size = 0
    /\ fs_off = 0
    /\ fs_buf_len = 0
    /\ fs_buf = "null"
    /\ map_base = 0
    /\ file_len = 0

-----------------------------------------------------------------------------
\* Mutant of HasRoom: forgets the length of the read.
HasRoom_NoLength == fs_off < fs_buf_len

HasRoom == fs_off + BufSize <= fs_buf_len

\* Mutant of NewBase: the mapping placed at the end of the data.
NewBase_AtEnd == fs_size

\* The window of a new mapping; fs_size & (pagesize - 1), pagesize a power of 2.
NewOff  == fs_size % PageSize
NewLen  == Nr * BufSize - NewOff
NewMax  == fs_max_size + NewLen
NewBase == fs_size - NewOff

\* setup_mmap when the current window has room for the read.
KeepWindow ==
    /\ pc = "idle"
    /\ HasRoom
    /\ pc' = "filling"
    /\ UNCHANGED <<fs_size, fs_max_size, fs_off, fs_buf_len, fs_buf, map_base,
                   file_len>>

\* setup_mmap when it has not: unmap, extend the file, map the new window.
\* The caller tests the result for < 0, which setup_mmap never returns, so it
\* goes on to the read whatever happened.
NewWindow ==
    /\ pc = "idle"
    /\ ~HasRoom
    /\ fs_off' = NewOff
    /\ fs_buf_len' = NewLen
    /\ fs_max_size' = NewMax
    /\ \/ /\ file_len' = fs_max_size'
          /\ fs_buf' = "mapped"
          /\ map_base' = NewBase
       \/ /\ CanFail                        \* ftruncate fails
          /\ fs_buf' = "null"
          /\ UNCHANGED <<file_len, map_base>>
       \/ /\ CanFail                        \* mmap fails
          /\ file_len' = fs_max_size'
          /\ fs_buf' = "failed"
          /\ UNCHANGED map_base
    /\ pc' = "filling"
    /\ UNCHANGED fs_size

\* The read: up to BufSize bytes land in the window; it returns nothing at the
\* end of the data, and fails (EFAULT) if there is no mapping.
Read ==
    /\ pc = "filling"
    /\ \/ /\ fs_buf = "mapped"
          /\ \E ret \in 0 .. BufSize :
                /\ fs_size + ret <= MaxSize
                /\ fs_size' = fs_size + ret
                /\ fs_off' = fs_off + ret
       \/ fs_buf # "mapped" /\ UNCHANGED <<fs_size, fs_off>>
    /\ pc' = "idle"
    /\ UNCHANGED <<fs_max_size, fs_buf_len, fs_buf, map_base, file_len>>

\* close_iop: unmap, cut the file to the data.
CloseIop ==
    /\ pc = "idle"
    /\ fs_buf' = "null"
    /\ file_len' = fs_size
    /\ pc' = "closed"
    /\ UNCHANGED <<fs_size, fs_max_size, fs_off, fs_buf_len, map_base>>

Closed == pc = "closed" /\ UNCHANGED outputVars

OutputNext == KeepWindow \/ NewWindow \/ Read \/ CloseIop \/ Closed

OutputSpec == OutputInit /\ [][OutputNext]_outputVars

-----------------------------------------------------------------------------
(* Properties. *)

\* handle_pfds_file reads BufSize bytes to fs_buf + fs_off without looking at
\* the window again: they fit, after any number of windows.
ReadFitsWindow ==
    pc = "filling" /\ fs_buf = "mapped" => fs_off + BufSize <= fs_buf_len

\* The mapping never reaches beyond the end of the file (a store there would
\* raise SIGBUS), although the file grows by the window's length and the
\* window starts before the old end of the data.
WindowInFile ==
    fs_buf = "mapped" => map_base + fs_buf_len <= file_len

\* The next read lands right behind the data already in the file: the windows
\* neither overlap the data nor leave a hole.
AppendsAtEnd ==
    fs_buf = "mapped" => map_base + fs_off = fs_size

\* mmap takes only offsets that are multiples of the page size.
WindowAligned ==
    fs_buf = "mapped" => map_base % PageSize = 0

\* The invariant that makes the four inductive. A window is written only up to
\* its length, so the data never outgrows what the file was extended to, and
\* that is why a new window, which starts up to a page before the end of the
\* data, ends inside the extended file.
OutputIInv ==
    /\ OutputTypeOK
    /\ ReadFitsWindow
    /\ WindowInFile
    /\ AppendsAtEnd
    /\ WindowAligned
    /\ fs_size <= fs_max_size
    /\ fs_buf = "mapped" => file_len = fs_max_size /\ fs_off <= fs_buf_len

=============================================================================
