--------------------------- MODULE BlkparseInput ---------------------------
(***************************************************************************)
(* What blkparse's two ways of reading share: the options, the time base   *)
(* and the skip lists.  Times are nanoseconds in 64 bits in the code and   *)
(* numbers modulo TimeMod here.                                            *)
(***************************************************************************)
EXTENDS Integers, Sequences, FiniteSets, SequencesExt

CONSTANTS
    NCpus,
    RbBatch,         \* rb_batch (-b): traces read before they are looked at
    MaxTime,         \* bound: time stamps are in 1 .. MaxTime
    TimeMod,         \* bound: 2^64 in the code
    Stopwatches      \* the values of -w: <<stopwatch_start, stopwatch_end>>

ASSUME CpusAssumption == NCpus \in Nat \ {0} /\ RbBatch \in Nat \ {0}
ASSUME TimeAssumption ==
    /\ MaxTime \in Nat /\ TimeMod \in Nat /\ MaxTime < TimeMod
    /\ \A w \in Stopwatches : w[1] < w[2] /\ w[2] < TimeMod

Readers == {"do_fifo", "do_file", "blkrawverify"}
Cpus  == 0 .. NCpus - 1
Times == 1 .. MaxTime

VARIABLES
    reader,          \* blkparse on a pipe or on files, or blkrawverify
    stopwatch,       \* <<stopwatch_start, stopwatch_end>>
    genesis_time     \* 0 until it is known

\* bit->time -= genesis_time, on __u64
Relative(t) == (t - genesis_time) % TimeMod

-----------------------------------------------------------------------------
(* The skips of one CPU: ranges of sequence numbers that did not come. *)

\* Mutant of insert_skip: extends a range past the number that was seen.
insert_skip_OffByOne(skips, start, end) ==
    LET near == {i \in DOMAIN skips : end = skips[i].start - 1 \/ start = skips[i].end + 1}
    IN IF near = {} THEN Append(skips, [start |-> start, end |-> end + 1])
       ELSE [skips EXCEPT ![Max(near)].end = end]

\* From the tail, the first range that the new one adjoins takes it in.
insert_skip(skips, start, end) ==
    LET near == {i \in DOMAIN skips : end = skips[i].start - 1 \/ start = skips[i].end + 1}
        i    == Max(near)
    IN IF near = {} THEN Append(skips, [start |-> start, end |-> end])
       ELSE IF end = skips[i].start - 1 THEN [skips EXCEPT ![i].start = start]
       ELSE [skips EXCEPT ![i].end = end]

InSkip(skips, seq) == {i \in DOMAIN skips : skips[i].start <= seq /\ seq <= skips[i].end}

remove_sip(skips, i) == RemoveAt(skips, i)

\* A late number leaves its range. A range it splits has `end' overwritten
\* before insert_skip is given it: the upper half becomes the range
\* seq + 1 .. seq - 1.
check_current_skips(skips, seq) ==
    LET i == Max(InSkip(skips, seq)) IN
    IF skips[i].start = seq
    THEN IF skips[i].end = seq THEN remove_sip(skips, i) ELSE [skips EXCEPT ![i].start = @ + 1]
    ELSE IF skips[i].end = seq THEN [skips EXCEPT ![i].end = @ - 1]
    ELSE insert_skip([skips EXCEPT ![i].end = seq - 1], seq + 1, seq - 1)

\* collect_pdi_skips, one CPU: seq_skips, an unsigned sum in the code.
SeqSkips(skips) ==
    LET seq_skips[i \in 0 .. Len(skips)] ==
            IF i = 0 THEN 0 ELSE seq_skips[i - 1] + (skips[i].end - skips[i].start + 1)
    IN seq_skips[Len(skips)]

=============================================================================
