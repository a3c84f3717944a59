------------------------------ MODULE IoWatch ------------------------------
(***************************************************************************)
(* iowatcher: the passes over its traces that come before the plots: how   *)
(* long a trace is, where its devices go on the y axis, what the axis cuts *)
(* off, and what the events add to the graphs.  A trace is a sequence of   *)
(* records [t, act, sec, bytes, dev]; seconds are ticks divided by Second. *)
(* Which IOs they are about does not matter to these passes, and any of    *)
(* them may be missing.  Notifies and fio messages, which carry names and  *)
(* banks, are left out; all options have their defaults.                   *)
(***************************************************************************)
EXTENDS BttStats     \* for its clock

CONSTANTS
    Devs,            \* the devices in a dump
    Extents,         \* what an IO may cover: <<sector, number of sectors>>
    MaxDump,         \* bound: records in a dump
    OffsetBits,      \* of an offset in bytes: __u64
    Rows, Cols       \* of the IO graph, in dots

ASSUME DumpAssumption ==
    /\ Extents \subseteq Nat \X Nat /\ MaxDump \in Nat /\ OffsetBits \in Nat
    /\ Rows \in Nat \ {0} /\ Cols \in Nat \ {0}

VARIABLE
    dump             \* the trace, in the order of its times

\* The dump gets longer: what stands in it is a trace to be read at every length.
Dumped ==
    /\ Len(dump) < MaxDump
    /\ \E t \in (IF dump = <<>> THEN 0 ELSE Last(dump).t) .. MaxTick,
         act \in {"Q", "D", "C"}, x \in Extents, d \in Devs :
          dump' = Append(dump, [t |-> t, act |-> act, sec |-> x[1], bytes |-> x[2] * 512, dev |-> d])

Seconds(t) == t \div Second
Offset(r)  == r.sec * 512              \* sector << 9

\* All records, and those of one action.
RecordsOf(trace)     == ToSet(trace)
ActsOf(trace, act)   == SelectSeq(trace, LAMBDA r : r.act = act)
find_last_time(trace) == Last(trace).t

\* lookup_dev: devices are numbered as they come.
DevicesOf(trace) == FoldLeft(LAMBDA ds, r : IF r.dev \in ToSet(ds) THEN ds ELSE Append(ds, r.dev),
                             <<>>, trace)

\* Mutant of map_devices: a device begins where its predecessor began.
map_devices_SameStart(trace) == [d \in ToSet(DevicesOf(trace)) |-> 0]

\* map_devices: a device begins where the ones before it end. di->min is 0 to
\* begin with, so that a device spans all from its sector 0 on.
map_devices(trace) ==
    LET ds    == DevicesOf(trace)
        max   == [d \in ToSet(ds) |-> Max({Offset(r) + r.bytes : r \in {x \in RecordsOf(trace) : x.dev = d}})]
    IN [d \in ToSet(ds) |->
           FoldLeft(LAMBDA n, o : n + max[o], 0, SubSeq(ds, 1, IndexFirstSubSeq(<<d>>, ds) - 1))]

map_io(map, r) == map[r.dev] + Offset(r)

find_extreme_offsets(trace) ==
    LET map == map_devices(trace)
    IN [min |-> Min({map_io(map, r) : r \in RecordsOf(trace)}),
        max |-> Max({map_io(map, r) + r.bytes : r \in RecordsOf(trace)})]

\* check_io_types
FoundQueue(trace)      == ActsOf(trace, "Q") # <<>>
FoundIssue(trace)      == ActsOf(trace, "D") # <<>>
FoundCompletion(trace) == ActsOf(trace, "C") # <<>>

\* filter_outliers: starts and ends of the queued IOs in ten buckets (and an
\* eleventh for the rest of the division).
Slots == 0 .. 10
PerBucket(ext) == (ext.max - ext.min + 1) \div 10

\* The offsets that fall into the buckets: a start and an end for each.
Offsets(trace, ext) ==
    LET map == map_devices(trace)
        qs  == ActsOf(trace, "Q")
    IN [n \in DOMAIN qs |-> [start |-> map_io(map, qs[n]) - ext.min,
                             end   |-> map_io(map, qs[n]) + qs[n].bytes - ext.min]]

HitsIn(hits, per, slot) ==
    Cardinality({n \in DOMAIN hits : hits[n].start \div per = slot})
        + Cardinality({n \in DOMAIN hits : hits[n].end \div per = slot})

\* The zoom leaves out the buckets above and below that have less than a
\* twentieth of the hits of the fullest. The last bucket is never the lowest;
\* with no hit at all the unset maximum (0) and minimum (all ones) of a bucket are
\* taken, and the sum wraps.
filter_outliers(trace, ext) ==
    LET hits == Offsets(trace, ext)
        per  == PerBucket(ext)
        fat  == Max({HitsIn(hits, per, s) : s \in Slots})
        Full(s) == HitsIn(hits, per, s) * 20 >= fat
        top  == Max({s \in Slots : Full(s)})
        low  == {s \in Slots \ {10} : Full(s)}
        ends   == {hits[n].end : n \in {m \in DOMAIN hits : hits[m].end \div per = top}}
        starts == {hits[n].start : n \in {m \in DOMAIN hits : hits[m].start \div per = Min(low)}}
    IN [max |-> ext.min + Max(ends \cup {0}),
        min |-> IF low = {} THEN ext.min 
                ELSE (ext.min + Min(starts \cup {2 ^ OffsetBits - 1})) % 2 ^ OffsetBits]

\* read_traces, of one trace.
TraceFile(trace) ==
    LET ext == find_extreme_offsets(trace)
        secs == Seconds(find_last_time(trace)) + 1
    IN [trace |-> trace, max_seconds |-> secs, stop_seconds |-> secs,
        zoom |-> filter_outliers(trace, ext)]

\* compare_minmax_tf and set_all_minmax_tf: all traces have the longest's length
\* and the widest range, and each keeps its own stop_seconds.
set_all_minmax_tf(tfs) ==
    LET max == Max({tf.max_seconds : tf \in tfs})
    IN {[tf EXCEPT !.max_seconds = max, !.stop_seconds = Min({@, max}),
                   !.zoom = [min |-> Min({x.zoom.min : x \in tfs}),
                             max |-> Max({x.zoom.max : x \in tfs})]] : tf \in tfs}

-----------------------------------------------------------------------------
(* read_trace_events *)

tput_event(trace) ==
    IF FoundCompletion(trace) THEN "C" ELSE IF FoundIssue(trace) THEN "D" ELSE
    IF FoundQueue(trace) THEN "Q" ELSE "C"

io_event(trace) ==
    IF FoundQueue(trace) THEN "Q" ELSE IF FoundIssue(trace) THEN "D" ELSE "C"

ReadOf(tf) == SelectSeq(tf.trace, LAMBDA r : Seconds(r.t) <= tf.max_seconds)

\* alloc_line_data: the graph's seconds.
Graph(tf) == 0 .. tf.stop_seconds

\* add_tput and add_iop: sums per second and the highest one.
AddTo(gld, s, n) == [sum |-> [gld.sum EXCEPT ![s] = @ + n], max |-> Max({gld.max, gld.sum[s] + n})]
NoData(tf)       == [sum |-> [s \in Graph(tf) |-> 0], max |-> 0]

add_tput(tf) == FoldLeft(LAMBDA gld, r : AddTo(gld, Seconds(r.t), r.bytes), NoData(tf),
                         ActsOf(ReadOf(tf), tput_event(tf.trace)))
add_iop(tf)  == FoldLeft(LAMBDA gld, r : AddTo(gld, Seconds(r.t), 1), NoData(tf),
                         ActsOf(ReadOf(tf), tput_event(tf.trace)))

\* set_gdd_bit: the dots of an IO, a row after the other: one in each turn of its
\* loop. bytes_per_row is span / Rows, no whole number; so are the bytes left, here
\* Rows times as many. With rows of less than a byte the offset stays where it is.
DotsFrom(zoom, offset, left, col) ==
    LET span  == zoom.max - zoom.min + 1
        At(k) == offset + k * (span \div Rows)
        Turns == {k \in 0 .. left \div span : k * span < left /\ At(k) <= zoom.max}
    IN {(((At(k) - zoom.min) * Rows) \div span) * Cols + col : k \in Turns}

set_gdd_bit(tf, offset, r) ==
    IF offset > tf.zoom.max \/ offset < tf.zoom.min THEN {}
    ELSE DotsFrom(tf.zoom, offset, r.bytes * Rows, (r.t * Cols) \div (Second * tf.max_seconds))

\* add_io, of all its events.
IoDots(tf) ==
    LET map == map_devices(tf.trace)
        es  == ActsOf(ReadOf(tf), io_event(tf.trace))
    IN [n \in DOMAIN es |-> set_gdd_bit(tf, map_io(map, es[n]), es[n])]

-----------------------------------------------------------------------------
\* find_extreme_offsets maps two devices to ranges that have at most a point in
\* common.
DevicesApart(trace) ==
    LET map == map_devices(trace) IN
    \A r1, r2 \in RecordsOf(trace) :
        r1.dev # r2.dev => \/ map_io(map, r1) + r1.bytes <= map_io(map, r2)
                           \/ map_io(map, r2) + r2.bytes <= map_io(map, r1)

\* filter_outliers stays within its eleven buckets, and with less than twenty
\* hits in the fullest nothing queued is cut off.
NothingCutOff(trace) ==
    LET ext  == find_extreme_offsets(trace)
        zoom == filter_outliers(trace, ext)
        hits == Offsets(trace, ext)
    IN FoundQueue(trace) =>
        /\ PerBucket(ext) > 0
        /\ \A n \in DOMAIN hits : /\ hits[n].end \div PerBucket(ext) \in Slots
                                  /\ zoom.min <= hits[n].start + ext.min
                                  /\ hits[n].end + ext.min <= zoom.max
        /\ ext.min <= zoom.min /\ zoom.max <= ext.max

\* read_trace_events stays within what was allocated for each trace, puts every
\* queued IO into the picture if all have few hits, and counts each in its second.
GraphsHoldAll(tfs) ==
    \A tf \in set_all_minmax_tf(tfs) :
        LET es   == ActsOf(tf.trace, tput_event(tf.trace))
            tput == add_tput(tf)
            iop  == add_iop(tf)
            dots == IoDots(tf)
        IN
        /\ ReadOf(tf) = tf.trace
        /\ \A n \in DOMAIN tf.trace : Seconds(tf.trace[n].t) \in Graph(tf)
        /\ \A s \in Graph(tf) : iop.sum[s] = Len(SelectSeq(es, LAMBDA r : Seconds(r.t) = s))
        /\ FoldFunction(+, 0, tput.sum) = FoldLeft(LAMBDA n, r : n + r.bytes, 0, es)
        /\ tput.max = Max({tput.sum[s] : s \in Graph(tf)})
        /\ \A n \in DOMAIN dots :
              /\ FoundQueue(tf.trace) => dots[n] # {}
              /\ dots[n] \subseteq 0 .. (Rows + 1) * Cols - 1

\* iowatcher on a dump, alone and with a shorter one beside it.
DumpIsWatchedWhole ==
    dump # <<>> =>
        /\ DevicesApart(dump)
        /\ NothingCutOff(dump)
        /\ \A n \in {1, Len(dump)} : GraphsHoldAll({TraceFile(dump), TraceFile(SubSeq(dump, 1, n))})

=============================================================================
