------------------------------ MODULE BttStats ------------------------------
(***************************************************************************)
(* btt: what it measures along the life of each IO - iostat's intervals    *)
(* and totals, the times a device is live, rates per second, seeks, means  *)
(* over periods, averages - fed by the traces of a few IOs of one device   *)
(* and one direction in the order of their times.  Times are ticks, and a  *)
(* second is a few of them; -1 is the code's "not set".                    *)
(***************************************************************************)
EXTENDS Integers, Sequences, FiniteSets, FiniteSetsExt, SequencesExt

CONSTANTS
    NIos,            \* bound: IOs
    MaxTick,         \* bound: times are 0 .. MaxTick
    Second,          \* ticks in a second
    Interval,        \* iostat_interval, plat_freq and range_delta, in ticks
    Starts,          \* the sectors an IO may begin at
    IoLen            \* its length

ASSUME StatsAssumption ==
    /\ NIos \in Nat /\ MaxTick \in Nat /\ Second \in Nat \ {0} /\ Interval \in Nat \ {0}
    /\ Starts \subseteq Nat /\ IoLen \in Nat \ {0}

Ios   == 1 .. NIos
Ticks == 0 .. MaxTick

VARIABLES
    now,             \* the time of the last trace
    io,              \* per IO: its sector, where it is, and the times it has
    iostat,          \* [stats, all, last_start, printed]; printed is history
    p_live,          \* p_live_root: ranges [dt, ct]
    rstat,           \* [base_sec, ios, nblks] and the lines written
    seeki,           \* of the Qs and of the Ds: see seeki_alloc
    plat,            \* d2c_plat_handle: [first_ts, last_ts, nl, tl], lines
    qranges,         \* regions.qranges
    avgs             \* avg_info of each phase

statVars == <<now, io, iostat, p_live, rstat, seeki, plat, qranges, avgs>>

tdelta(from, to) == IF from < to THEN to - from ELSE 1

-----------------------------------------------------------------------------
(* iostat.  `stats' is cleared when an interval is printed, `all' never. *)

NoIostat == [cur_qusz |-> 0, last_qu_change |-> 0, tot_qusz |-> 0,
            cur_dev |-> 0, last_dev_change |-> 0, idle_time |-> 0,
            ios |-> 0, sec |-> 0, rqm |-> 0, wait |-> 0, svctm |-> 0]
Summed  == {"tot_qusz", "idle_time", "ios", "sec", "rqm", "wait", "svctm"}

Both(s, f(_)) == [s EXCEPT !.stats = f(@), !.all = f(@)]

update_tot_qusz(s, t) ==
    Both(s, LAMBDA x : [x EXCEPT !.tot_qusz = @ + (t - x.last_qu_change) * x.cur_qusz,
                                 !.last_qu_change = t])

update_idle_time(s, t, force) ==
    Both(s, LAMBDA x : [x EXCEPT
        !.idle_time = IF x.cur_dev = 0 \/ force THEN @ + (t - x.last_dev_change) ELSE @,
        !.last_dev_change = t])

\* __dump_stats of an interval: brings both up to now (all the time since the last
\* change counts as idle), prints the interval's sums and clears them.
DumpInterval(s, t) ==
    LET u == update_tot_qusz(update_idle_time(s, t, TRUE), t)
    IN [u EXCEPT !.printed = [k \in Summed |-> @[k] + u.stats[k]],
                 !.stats = [k \in DOMAIN NoIostat |-> IF k \in Summed THEN 0 ELSE @[k]]]

iostat_check_time(s, t) ==
    IF s.last_start = -1 THEN [s EXCEPT !.last_start = t]
    ELSE IF t - s.last_start >= Interval THEN [DumpInterval(s, t) EXCEPT !.last_start = t]
    ELSE s

AddBoth(s, k, n) == Both(s, LAMBDA x : [x EXCEPT ![k] = @ + n])

iostat_getrq(s, t) == AddBoth(update_tot_qusz(s, t), "cur_qusz", 1)
iostat_merge(s)    == AddBoth(s, "rqm", 1)
iostat_issue(s, t, nblks) ==
    AddBoth(update_idle_time(AddBoth(AddBoth(s, "ios", 1), "sec", nblks), t, FALSE), "cur_dev", 1)

\* Mutant of iostat_complete: counts down before it accounts for the time.
iostat_complete_Early(s, q, t) ==
    LET waited == IF q.i # -1 THEN tdelta(q.i, t) ELSE IF q.m # -1 THEN tdelta(q.m, t) ELSE 0
    IN AddBoth(update_idle_time(
               AddBoth(update_tot_qusz(AddBoth(AddBoth(s, "wait", waited), "cur_qusz", -1), t), "cur_dev", -1),
               t, FALSE), "svctm", tdelta(q.q, t))

iostat_complete(s, q, t) ==
    LET waited == IF q.i # -1 THEN tdelta(q.i, t) ELSE IF q.m # -1 THEN tdelta(q.m, t) ELSE 0
        sized  == AddBoth(update_tot_qusz(AddBoth(s, "wait", waited), t), "cur_qusz", -1)
    IN AddBoth(AddBoth(update_idle_time(sized, t, FALSE), "cur_dev", -1), "svctm", tdelta(q.q, t))

-----------------------------------------------------------------------------
(* p_live: ranges of time in which something was in the driver. *)

inside(r, dt, ct) ==
    \/ r.dt <= dt /\ dt <= r.ct
    \/ r.dt <= ct /\ ct <= r.ct
    \/ dt < r.dt /\ r.ct < ct

\* Mutant of p_live_add: a range that encloses others does not take them in.
p_live_add_Enclosing(live, dt, ct) ==
    LET hit == {r \in live : (r.dt <= dt /\ dt <= r.ct) \/ (r.dt <= ct /\ ct <= r.ct)}
    IN (live \ hit) \cup {[dt |-> Min({dt} \cup {r.dt : r \in hit}),
                           ct |-> Max({ct} \cup {r.ct : r \in hit})]}

\* __p_live_add takes out a range that the new one meets and adds their union,
\* until it meets none; which comes first depends on the tree, the outcome does not.
p_live_add(live, dt, ct) ==
    LET hit == {r \in live : inside(r, dt, ct)}
    IN (live \ hit) \cup {[dt |-> Min({dt} \cup {r.dt : r \in hit}),
                           ct |-> Max({ct} \cup {r.ct : r \in hit})]}

\* p_live_get: how many ranges, their time, and the time up to the end of the last;
\* it counts from 0, where t_start begins and which no range is before.
p_live_get(live) ==
    [nlives   |-> Cardinality(live),
     tot_live |-> FoldSet(LAMBDA r, n : n + r.ct - r.dt, 0, live),
     t_time   |-> Max({0} \cup {r.ct : r \in live})]

-----------------------------------------------------------------------------
(* Rates, seeks, means over periods and averages. *)

\* rstat_emit starts the second that the time is in.
rstat_emit(r, t) ==
    [base_sec |-> t \div Second, ios |-> 0, nblks |-> 0,
     lines |-> Append(r.lines, [sec |-> r.base_sec, ios |-> r.ios, nblks |-> r.nblks])]

\* Mutant of rstat_add: the second goes on when a second has passed since its end.
rstat_add_Late(r, t, nblks) ==
    LET cur == IF r.base_sec < 0 THEN [r EXCEPT !.base_sec = t \div Second]
               ELSE IF t \div Second - r.base_sec > 1 THEN rstat_emit(r, t) ELSE r
    IN [cur EXCEPT !.ios = @ + 1, !.nblks = @ + nblks]

rstat_add(r, t, nblks) ==
    LET cur == IF r.base_sec < 0 THEN [r EXCEPT !.base_sec = t \div Second]
               ELSE IF t \div Second - r.base_sec >= 1 THEN rstat_emit(r, t) ELSE r
    IN [cur EXCEPT !.ios = @ + 1, !.nblks = @ + nblks]

\* seek_dist: an IO that begins or ends within the last one is no seek; one that
\* encloses it is, backwards.
seek_dist(s, start, end) ==
    IF \/ s.last_start <= start /\ start <= s.last_end
       \/ s.last_start <= end /\ end <= s.last_end THEN 0
    ELSE IF start > s.last_end THEN start - s.last_end ELSE start - s.last_start

Abs(n) == IF n < 0 THEN -n ELSE n

\* __insert: the bucket of the distance.
Bucket(bkts, dist) ==
    [d \in DOMAIN bkts \cup {dist} |->
        (IF d \in DOMAIN bkts THEN bkts[d] ELSE 0) + (IF d = dist THEN 1 ELSE 0)]

\* sps_add, with sps_emit: a period begins with a seek and lasts under a second.
sps_add(sps, t) ==
    IF sps.nseeks # 0 /\ t - sps.t_start < Second
    THEN [sps EXCEPT !.nseeks = @ + 1, !.t_last = t]
    ELSE [t_start |-> t, t_last |-> t, nseeks |-> 1,
          shown |-> IF sps.nseeks = 0 THEN sps.shown ELSE Append(sps.shown, sps.nseeks)]

seeki_add(s, start, len, t) ==
    LET dist == Abs(seek_dist(s, start, start + len))
    IN [last_start |-> start, last_end |-> start + len, tot_seeks |-> s.tot_seeks + 1,
        total_sectors |-> s.total_sectors + dist, bkts |-> Bucket(s.bkts, dist),
        sps |-> sps_add(s.sps, t)]

\* __mode over the buckets in some order: those with the most seeks.
seeki_mode(s) ==
    FoldSet(LAMBDA d, mp : IF mp.modes = {} \/ s.bkts[d] > mp.most
                           THEN [most |-> s.bkts[d], modes |-> {d}]
                           ELSE IF s.bkts[d] = mp.most THEN [mp EXCEPT !.modes = @ \cup {d}]
                           ELSE mp,
            [most |-> 0, modes |-> {}], DOMAIN s.bkts)

\* plat_x2c: a period begins with a latency and lasts under plat_freq.
plat_x2c(p, t, latency) ==
    IF p.first_ts # -1 /\ t - p.first_ts < Interval
    THEN [p EXCEPT !.last_ts = t, !.nl = @ + 1, !.tl = @ + latency]
    ELSE [first_ts |-> t, last_ts |-> t, nl |-> 1, tl |-> latency,
          lines |-> IF p.first_ts = -1 THEN p.lines
                    ELSE Append(p.lines, [ts2 |-> p.first_ts + p.last_ts, tl |-> p.tl, nl |-> p.nl])]

\* update_range, of ranges in the order of their times.
update_range(rs, t) ==
    IF rs # <<>> /\ t < Last(rs).end THEN rs
    ELSE IF rs # <<>> /\ t - Last(rs).end < Interval THEN [rs EXCEPT ![Len(rs)].end = t]
    ELSE Append(rs, [start |-> t, end |-> t])

Phases == {"q2q", "q2g", "g2i", "q2m", "i2d", "m2d", "d2c", "q2c"}

avg_update(ap, t) ==
    IF ap.n = 0 THEN [n |-> 1, min |-> t, max |-> t, total |-> t]
    ELSE [n |-> ap.n + 1, min |-> Min({ap.min, t}), max |-> Max({ap.max, t}),
          total |-> ap.total + t]
Average(a, phase, t) == [a EXCEPT ![phase] = avg_update(@, t)]

-----------------------------------------------------------------------------
(* The traces. *)

NoIo     == [sec |-> 0, state |-> "none", req |-> 0, q |-> -1, g |-> -1, i |-> -1,
             m |-> -1, d |-> -1, c |-> -1]
NoSeek   == [last_start |-> 0, last_end |-> 0, tot_seeks |-> 0, total_sectors |-> 0,
             bkts |-> <<>>, sps |-> [t_start |-> 0, t_last |-> 0, nseeks |-> 0, shown |-> <<>>]]

StatInit ==
    /\ now = 0
    /\ io = [k \in Ios |-> NoIo]
    /\ iostat = [stats |-> NoIostat, all |-> NoIostat, last_start |-> -1,
                 printed |-> [k \in Summed |-> 0]]
    /\ p_live = {}
    /\ rstat = [base_sec |-> -1, ios |-> 0, nblks |-> 0, lines |-> <<>>]
    /\ seeki = [q |-> NoSeek, d |-> NoSeek]
    /\ plat = [first_ts |-> -1, last_ts |-> -1, nl |-> 0, tl |-> 0, lines |-> <<>>]
    /\ qranges = <<>>
    /\ avgs = [p \in Phases |-> [n |-> 0, min |-> 0, max |-> 0, total |-> 0]]

InState(s)   == {k \in Ios : io[k].state = s}
Covered(k)   == {j \in Ios : io[j].req = k}           \* the IOs of a request
Blocks(k)    == IoLen * Cardinality(Covered(k))
Unfinished   == {k \in Ios : io[k].state \notin {"none", "done"}}
Checked(t)   == iostat_check_time(iostat, t)

\* handle_queue, of an IO where none is in flight.
StatQueue(t) ==
    /\ InState("none") # {}
    /\ LET k == Min(InState("none")) IN
       \E s \in Starts :
          /\ \A j \in Unfinished : io[j].sec # s
          /\ io' = [io EXCEPT ![k] = [NoIo EXCEPT !.sec = s, !.state = "queued", !.q = t]]
          /\ seeki' = [seeki EXCEPT !.q = seeki_add(@, s, IoLen, t)]
          /\ avgs' = IF k = 1 THEN avgs ELSE Average(avgs, "q2q", tdelta(io[k - 1].q, t))
    /\ qranges' = update_range(qranges, t)
    /\ iostat' = Checked(t) /\ now' = t
    /\ UNCHANGED <<p_live, rstat, plat>>

\* handle_g, and handle_i at once or a tick later.
StatReady(k, t) ==
    /\ io[k].state = "queued"
    /\ \E ti \in {t, t + 1} \cap Ticks :
          /\ io' = [io EXCEPT ![k].state = "ready", ![k].req = k, ![k].g = t, ![k].i = ti]
          /\ iostat' = iostat_check_time(iostat_getrq(Checked(t), t), ti)
          /\ avgs' = Average(Average(avgs, "q2g", tdelta(io[k].q, t)), "g2i", tdelta(t, ti))
          /\ now' = ti
    /\ UNCHANGED <<p_live, rstat, seeki, plat, qranges>>

\* handle_m, of an IO that follows a request that is not issued.
StatMerge(k, r, t) ==
    /\ io[k].state = "queued" /\ r \in InState("ready") /\ io[r].req = r
    /\ io[k].sec = io[r].sec + Blocks(r)
    /\ io' = [io EXCEPT ![k].state = "ready", ![k].req = r, ![k].m = t]
    /\ iostat' = iostat_merge(Checked(t))
    /\ avgs' = Average(avgs, "q2m", tdelta(io[k].q, t))
    /\ now' = t
    /\ UNCHANGED <<p_live, rstat, seeki, plat, qranges>>

\* handle_issue
StatIssue(k, t) ==
    /\ io[k].state = "ready" /\ io[k].req = k
    /\ io' = [j \in Ios |-> IF io[j].req = k THEN [io[j] EXCEPT !.state = "issued", !.d = t]
                            ELSE io[j]]
    /\ iostat' = iostat_issue(Checked(t), t, Blocks(k))
    /\ seeki' = [seeki EXCEPT !.d = seeki_add(@, io[k].sec, Blocks(k), t)]
    /\ avgs' = FoldSet(LAMBDA j, a : IF io[j].i # -1
                                     THEN Average(a, "i2d", tdelta(io[j].i, t))
                                     ELSE Average(a, "m2d", tdelta(io[j].m, t)), avgs, Covered(k))
    /\ now' = t
    /\ UNCHANGED <<p_live, rstat, plat, qranges>>

\* handle_complete, of all the Qs of the request.
StatComplete(k, t) ==
    /\ io[k].state = "issued" /\ io[k].req = k
    /\ io' = [j \in Ios |-> IF io[j].req = k THEN [io[j] EXCEPT !.state = "done", !.c = t]
                            ELSE io[j]]
    /\ rstat' = rstat_add(rstat, t, Blocks(k))
    /\ iostat' = FoldSet(LAMBDA j, s : iostat_complete(s, io[j], t), Checked(t), Covered(k))
    /\ p_live' = FoldSet(LAMBDA j, live : p_live_add(live, io[j].d, t), p_live, Covered(k))
    /\ plat' = FoldSet(LAMBDA j, p : plat_x2c(p, t, tdelta(io[j].d, t)), plat, Covered(k))
    /\ avgs' = FoldSet(LAMBDA j, a : Average(Average(a, "q2c", tdelta(io[j].q, t)),
                                             "d2c", tdelta(io[j].d, t)), avgs, Covered(k))
    /\ now' = t
    /\ UNCHANGED <<seeki, qranges>>

StatNext == \E t \in now .. MaxTick :
    \/ StatQueue(t)
    \/ \E k \in Ios : \/ StatReady(k, t) \/ StatIssue(k, t) \/ StatComplete(k, t)
                      \/ \E r \in Ios : StatMerge(k, r, t)

-----------------------------------------------------------------------------
Total(S, f(_)) == FoldSet(LAMBDA x, y : f(x) + y, 0, S)
Lines(s, f(_)) == FoldLeft(LAMBDA y, x : f(x) + y, 0, s)
Until(k)       == IF io[k].c # -1 THEN io[k].c ELSE now
Done           == InState("done")
IssuedOnce     == {k \in Ios : io[k].d # -1}
Requests       == {k \in IssuedOnce : io[k].req = k}
Busy           == UNION {io[k].d .. Until(k) - 1 : k \in IssuedOnce}   \* ticks

\* iostat and p_live tell one story. The intervals printed and the one under way
\* add up to the totals; without merges (a merged Q counts as completed and not
\* as a request) the queue size over time is the time the IOs had a request,
\* and, as long as no interval was printed (which counts as idle all the time up
\* to it), the idle time is the time in which nothing was in the driver. The
\* ranges of p_live are apart and together the times from issue to completion,
\* and its lulls the time in which nothing was in the driver, from 0 on.
IostatAndLivesAgree ==
    LET s == iostat.all IN
    /\ \A k \in Summed : iostat.printed[k] + iostat.stats[k] = s[k]
    /\ s.ios = Cardinality(Requests)
    /\ s.rqm = 0 =>
          /\ s.tot_qusz + (now - s.last_qu_change) * s.cur_qusz
                = Total({k \in Ios : io[k].g # -1}, LAMBDA k : Until(k) - io[k].g)
          /\ s.svctm = avgs["q2c"].total
          /\ iostat.last_start \in {-1, io[1].q} =>
                s.idle_time + (IF s.cur_dev = 0 THEN now - s.last_dev_change ELSE 0)
                    = now - Cardinality(Busy)
    /\ \A r1, r2 \in p_live : r1 # r2 => r1.ct < r2.dt \/ r2.ct < r1.dt
    /\ UNION {r.dt .. r.ct : r \in p_live} = UNION {io[k].d .. io[k].c : k \in Done}
    /\ UNION {r.dt .. r.ct - 1 : r \in p_live} = UNION {io[k].d .. io[k].c - 1 : k \in Done}
    /\ LET got == p_live_get(p_live) IN
          got.t_time - got.tot_live
              = Cardinality({t \in Ticks : t < got.t_time}
                            \ UNION {io[k].d .. io[k].c - 1 : k \in Done})

\* What is written per second or per period accounts for every IO once. Each line
\* of the rates has the completions of its second; the seeks per second, the
\* buckets of distances and the means of the latencies leave none out; the modes
\* are the most frequent distances; the ranges of Qs hold every Q and lie apart;
\* and the phases of the IOs are no shorter than the IOs.
PeriodsAccountForAll ==
    /\ LET lines == Append(rstat.lines, [sec |-> rstat.base_sec, ios |-> rstat.ios]) IN
       \A n \in DOMAIN lines :
          /\ lines[n].ios = Cardinality({k \in Done \cap Requests : io[k].c \div Second = lines[n].sec})
          /\ n > 1 => lines[n - 1].sec < lines[n].sec
    /\ \A s \in {seeki.q, seeki.d} :
          /\ Lines(s.sps.shown, LAMBDA x : x) + s.sps.nseeks = s.tot_seeks
          /\ Total(DOMAIN s.bkts, LAMBDA d : s.bkts[d]) = s.tot_seeks
          /\ Total(DOMAIN s.bkts, LAMBDA d : d * s.bkts[d]) = s.total_sectors
          /\ seeki_mode(s).modes
                = {d \in DOMAIN s.bkts : \A e \in DOMAIN s.bkts : s.bkts[e] <= s.bkts[d]}
    /\ Lines(plat.lines, LAMBDA x : x.nl) + plat.nl = Cardinality(Done)
    /\ Lines(plat.lines, LAMBDA x : x.tl) + plat.tl = avgs["d2c"].total
    /\ \A k \in Ios : io[k].q # -1 =>
          \E n \in DOMAIN qranges : qranges[n].start <= io[k].q /\ io[k].q <= qranges[n].end
    /\ \A n \in DOMAIN qranges : n > 1 => qranges[n].start - qranges[n - 1].end >= Interval
    /\ avgs["q2c"].total <= Total({"q2g", "g2i", "q2m", "i2d", "m2d", "d2c"},
                                  LAMBDA p : avgs[p].total)

=============================================================================
