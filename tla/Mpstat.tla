------------------------------- MODULE Mpstat -------------------------------
(***************************************************************************)
(* iowatcher reading what mpstat wrote beside a trace.  The text is a      *)
(* sequence of lines [kind, t, cpu]: a title, which may give the number of *)
(* CPUs, and per second a header, a line for all CPUs and one for each,    *)
(* and an empty line before the next; the averages at the end look like    *)
(* one more second.  The percentages of a line are its t and cpu.  mpstat  *)
(* is stopped by a signal, so that the text may end after any line.        *)
(***************************************************************************)
EXTENDS IoWatch

CONSTANTS
    NCpus,           \* CPUs of the machine
    MaxSamples       \* bound: seconds of an mpstat text

ASSUME MpstatAssumption == NCpus \in Nat \ {0} /\ MaxSamples \in Nat

Line(kind, t, cpu) == [kind |-> kind, t |-> t, cpu |-> cpu]

\* mpstat -P ALL 1: line 0 of a second is for all CPUs. An old mpstat has no count (0).
Sample(t)    == <<Line("header", t, 0)>> \o [i \in 1 .. NCpus + 1 |-> Line("cpu", t, i - 1)]
                    \o <<Line("blank", t, 0)>>
Whole(count) == <<Line("title", 0, count), Line("blank", 0, 0)>>
                    \o FlattenSeq([t \in 1 .. MaxSamples |-> Sample(t - 1)])
Texts        == {SubSeq(Whole(count), 1, n) : count \in {0, NCpus}, n \in 2 .. Len(Whole(0))}

\* next_mpstat, from one header to the next: where the samples begin. A header
\* that ends the file begins none.
SampleStarts(text) ==
    SetToSortSeq({n + 1 : n \in {m \in 1 .. Len(text) - 1 : text[m].kind = "header"}}, <)

\* find_last_mpstat_time
mpstat_seconds(text) == Len(SampleStarts(text))

\* Mutant of guess_mpstat_cpus: the line for all CPUs is counted too.
guess_mpstat_cpus_All(text) ==
    IF SampleStarts(text) = <<>> THEN 0
    ELSE LET first == SampleStarts(text)[1]
             ends  == {n \in first + 1 .. Len(text) : text[n].kind = "blank"}
         IN Min(ends \cup {Len(text)}) - first

\* guess_mpstat_cpus: the lines after the first one up to the empty one; if there
\* is none, the text's last is not counted.
guess_mpstat_cpus(text) ==
    IF SampleStarts(text) = <<>> THEN 0
    ELSE LET first == SampleStarts(text)[1]
             ends  == {n \in first + 1 .. Len(text) : text[n].kind = "blank"}
         IN Min(ends \cup {Len(text)}) - first - 1

\* count_mpstat_cpus
mpstat_num_cpus(text) == IF text[1].cpu # 0 THEN text[1].cpu ELSE guess_mpstat_cpus(text)

\* read_mpstat and what set_all_minmax_tf makes of it.
MpstatFile(text, max_seconds) ==
    [text |-> text, num_cpus |-> mpstat_num_cpus(text),
     stop |-> Min({mpstat_seconds(text), max_seconds}),
     max  |-> IF mpstat_seconds(text) = 0 THEN 0 ELSE max_seconds]

\* read_mpstat_event and next_mpstat_line: how many of the n lines from cur on are
\* taken. One that is not a CPU's is none, and neither is the last of the text.
LinesTaken(text, cur, n) ==
    Max({k \in 0 .. n : /\ cur + k - 1 < Len(text)
                        /\ \A m \in cur .. cur + k - 1 : text[m].kind = "cpu"})

\* read_trace_events: the lines it takes of the sample of a time.
LinesAt(f, time) == LinesTaken(f.text, SampleStarts(f.text)[time + 1], f.num_cpus + 1)

\* A sample that is short ends the reading of all files.
ShortAt(f) == {time \in 0 .. f.stop - 1 : LinesAt(f, time) < f.num_cpus + 1}

\* add_mpstat_gld: data[time] of the graphs of CPU i - 1, and of all for i = 0.
DataOf(f) ==
    LET slots == {slot \in (0 .. f.stop - 1) \X (0 .. f.num_cpus) :
                     slot[2] < LinesAt(f, slot[1]) /\ \A s \in ShortAt(f) : slot[1] <= s}
    IN [slot \in slots |-> f.text[SampleStarts(f.text)[slot[1] + 1] + slot[2]]]


Read(f) == f.num_cpus # 0

\* read_trace_events, of the traces in their order: no file is read after one that
\* ends within a sample.
ReadMpstat(fs) ==
    [n \in DOMAIN fs |->
        IF Read(fs[n]) /\ \A m \in 1 .. n - 1 : ~(Read(fs[m]) /\ ShortAt(fs[m]) # {})
        THEN DataOf(fs[n]) ELSE <<>>]

-----------------------------------------------------------------------------
\* mpstat was stopped between two seconds (or before the first), and so this text
\* gives no reason to stop reading.
EndsWhole(text) == Last(text).kind = "blank"

\* The text of two traces' mpstat, read for a trace of so many seconds: a line
\* lands in the second and at the CPU it is about, within what alloc_line_data made
\* for max_seconds and alloc_mpstat_gld for the CPUs; and no line is left out other
\* than the last of a text, those of a CPU that a first sample cut short did not
\* show, and all that comes after a sample cut short.
MpstatIsRead(max_seconds) ==
    \A texts \in Texts \X Texts :
        LET fs   == [n \in 1 .. 2 |-> MpstatFile(texts[n], max_seconds)]
            data == ReadMpstat(fs)
        IN \A n \in 1 .. 2 :
              /\ \A slot \in DOMAIN data[n] :
                    /\ data[n][slot] = Line("cpu", slot[1], slot[2])
                    /\ slot[1] \in 0 .. fs[n].max /\ slot[2] \in 0 .. NCpus
              /\ (n = 1 \/ EndsWhole(texts[1])) =>
                    \A m \in 1 .. Len(texts[n]) - 1 :
                        LET l == texts[n][m] IN
                        (/\ l.kind = "cpu" /\ l.t < max_seconds
                         /\ Len(texts[n]) > NCpus + 4 \/ texts[n][1].cpu # 0)
                        => <<l.t, l.cpu>> \in DOMAIN data[n]

\* iowatcher on the mpstat texts of a dump: its first record gives the seconds.
MpstatIsWatched == Len(dump) = 1 => MpstatIsRead(TraceFile(dump).max_seconds)

=============================================================================
