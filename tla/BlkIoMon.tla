------------------------------ MODULE BlkIoMon ------------------------------
(***************************************************************************)
(* blkiomon: the main thread reads issues (D) and completions (C) from its *)
(* pipe, matches them and adds each pair to the statistics of the pair's   *)
(* device; the interval thread takes the statistics of an interval away,   *)
(* prints them and gives them back.  The main thread takes the mutex to    *)
(* find the statistics (struct dstat), not to add to them.                 *)
(***************************************************************************)
EXTENDS Integers, Sequences, SequencesExt, FiniteSets

CONSTANTS
    Keys,            \* what traces are matched by: device, sector and direction
    Dev(_),          \* the device of a key
    Devs,
    Us,              \* ticks of the clock in a microsecond
    Gaps,            \* how long before its completion the clock may move, per IO
    MaxIos, MaxIntervals    \* bounds

ASSUME KeysAssumption == \A k \in Keys : Dev(k) \in Devs
\* The times are in nanoseconds, and no IO is done in the one it was issued in: of two
\* traces with the same time the one read first would be taken for the younger one.
ASSUME GapsAssumption == MaxIos \in Nat /\ Gaps \in [1 .. MaxIos -> SUBSET (Nat \ {0})]

VARIABLES
    now, ios,        \* the block layer: the time, the IO at each key (0: none)
    nios,            \*   and how many there were
    pipe,            \* traces taken and not read; CPUs deliver in any order
    up,              \* the program runs
    thash,           \* traces stored, for which there was no match yet
    dstats,          \* all struct dstat: [device, sizes, d2cs, be]
    dstat_list, dstat_tree,   \* the two lists, newest first, and trees (as sets)
    dstat_curr,
    vacant,          \* vacant_dstats_list
    main,            \* the main thread: [pc, io, d]
    ivl,             \* the interval thread: [pc, finished, head, at]
    intervals,       \* how many it has done
    pairs,           \* history: pairs <<D, C>> accounted for
    printed,         \* history: <<size or d2c, io>> printed
    late,            \* history: IOs added to a dstat that was taken away
    ordered          \* history: keys whose traces were read in order of time

kernelVars == <<now, ios, nios>>
dstatVars  == <<dstats, dstat_list, dstat_tree, dstat_curr, vacant>>
histVars   == <<pairs, printed, late, ordered>>
vars == <<kernelVars, pipe, up, thash, dstatVars, main, ivl, intervals, histVars>>

Fresh(dev) == [device |-> dev, sizes |-> {}, d2cs |-> {}, be |-> FALSE]

Init ==
    /\ now = 0 /\ ios = [k \in Keys |-> 0] /\ nios = 0
    /\ pipe = {} /\ up = TRUE /\ thash = {}
    /\ dstats = <<>>
    /\ dstat_list = [i \in 0 .. 1 |-> <<>>] /\ dstat_tree = [i \in 0 .. 1 |-> {}]
    /\ dstat_curr = 0 /\ vacant = <<>>
    /\ main = [pc |-> "read", io |-> 0, d |-> 0]
    /\ ivl = [pc |-> "sleep", finished |-> 0, head |-> <<>>, at |-> 1]
    /\ intervals = 0
    /\ pairs = {} /\ printed = {} /\ late = {} /\ ordered = Keys

-----------------------------------------------------------------------------
(* The block layer. *)

\* A trace is taken a moment after the one before, a completion perhaps later.
Trace(k, act, io) == [key |-> k, act |-> act, time |-> now', io |-> io]
Later(gaps) == \E gap \in gaps : now' = now + gap

Issue(k) ==
    /\ ios[k] = 0 /\ nios < MaxIos
    /\ Later({1})
    /\ nios' = nios + 1
    /\ ios' = [ios EXCEPT ![k] = nios + 1]
    /\ pipe' = pipe \cup {Trace(k, "D", nios + 1)}

Complete(k) ==
    /\ ios[k] # 0
    /\ Later(Gaps[ios[k]])
    /\ ios' = [ios EXCEPT ![k] = 0]
    /\ pipe' = pipe \cup {Trace(k, "C", ios[k])}
    /\ UNCHANGED nios

Kernel ==
    /\ \E k \in Keys : Issue(k) \/ Complete(k)
    /\ UNCHANGED <<up, thash, dstatVars, main, ivl, intervals, histVars>>

-----------------------------------------------------------------------------
(* The main thread. *)

\* blkiomon_fetch_trace: takes the stored trace of the key out.
Stored(t) == {s \in thash : s.key = t.key}

\* Mutant of Older: does not look at the times.
Older_Stored(s, t) == TRUE

\* blkiomon_do_trace: whether the stored trace is the older one.
Older(s, t) == s.time < t.time

\* The pair's d2c in microseconds, which the throughput is divided by.
D2c(d, c) == (c.time - d.time) \div Us

InOrder(t) == \A s \in pipe : s.key = t.key => s.time >= t.time

\* blkiomon_do_fifo and blkiomon_do_trace: reads a trace and stores it, puts it
\* in place of the stored one, or goes on to account for the pair.  A d2c of less
\* than a microsecond ends the program ("size * 1000 / d2c").
DoTrace(t) ==
    /\ main.pc = "read"
    /\ pipe' = pipe \ {t}
    /\ ordered' = IF InOrder(t) THEN ordered ELSE ordered \ {t.key}
    /\ IF Stored(t) = {}
       THEN thash' = thash \cup {t} /\ UNCHANGED <<main, pairs, up>>
       ELSE LET s     == CHOOSE s \in Stored(t) : TRUE
                old   == IF Older(s, t) THEN s ELSE t
                young == IF Older(s, t) THEN t ELSE s
            IN IF old.act = "D" /\ young.act = "C"
               THEN /\ thash' = thash \ {s}
                    /\ pairs' = pairs \cup {<<old, young>>}
                    /\ up' = (D2c(old, young) # 0)
                    /\ main' = [main EXCEPT !.pc = "get", !.io = old.io, !.d = Dev(old.key)]
               ELSE \* "no matching D and C traces - keep more recent trace"
                    thash' = (thash \ {s}) \cup {young} /\ UNCHANGED <<main, pairs, up>>
    /\ UNCHANGED <<kernelVars, dstatVars, ivl, intervals, printed, late>>

Found == {i \in dstat_tree[dstat_curr] : dstats[i].device = main.d}

\* Mutant of Linked: leaves what it takes on the vacant list.
Linked_StaysVacant(i) ==
    /\ dstat_tree' = [dstat_tree EXCEPT ![dstat_curr] = @ \cup {i}]
    /\ dstat_list' = [dstat_list EXCEPT ![dstat_curr] = <<i>> \o @]
    /\ UNCHANGED vacant

Linked(i) ==
    /\ dstat_tree' = [dstat_tree EXCEPT ![dstat_curr] = @ \cup {i}]
    /\ dstat_list' = [dstat_list EXCEPT ![dstat_curr] = <<i>> \o @]
    /\ vacant' = IF vacant = <<>> THEN <<>> ELSE Tail(vacant)

\* Mutant of Renewed: keeps what was in it.
Renewed_Stale(i) == [dstats EXCEPT ![i].device = main.d]

\* blkiomon_alloc_dstat, of a vacant one: made anew by blkiomon_stat_init.
Renewed(i) == [dstats EXCEPT ![i] = Fresh(main.d)]

\* blkiomon_get_dstat, with the mutex: the device's, else a vacant one made anew,
\* else one more.
GetDstat ==
    /\ main.pc = "get"
    /\ IF Found # {}
       THEN /\ main' = [main EXCEPT !.pc = "sizes", !.d = CHOOSE i \in Found : TRUE]
            /\ UNCHANGED dstatVars
       ELSE LET i == IF vacant # <<>> THEN Head(vacant) ELSE Len(dstats) + 1 IN
            /\ dstats' = IF vacant # <<>> THEN Renewed(i)
                         ELSE Append(dstats, Fresh(main.d))
            /\ Linked(i)
            /\ main' = [main EXCEPT !.pc = "sizes", !.d = i]
            /\ UNCHANGED dstat_curr
    /\ UNCHANGED <<kernelVars, pipe, up, thash, ivl, intervals, histVars>>

\* blkiomon_account, without the mutex: one member of the statistics after
\* another; two stand for all.
IsLate == main.d \notin dstat_tree[dstat_curr]

AddSize ==
    /\ main.pc = "sizes"
    /\ dstats' = [dstats EXCEPT ![main.d].sizes = @ \cup {main.io}]
    /\ main' = [main EXCEPT !.pc = "d2cs"]
    /\ late' = IF IsLate THEN late \cup {main.io} ELSE late
    /\ UNCHANGED <<kernelVars, pipe, up, thash, dstat_list, dstat_tree, dstat_curr, vacant,
                   ivl, intervals, pairs, printed, ordered>>

AddD2c ==
    /\ main.pc = "d2cs"
    /\ dstats' = [dstats EXCEPT ![main.d].d2cs = @ \cup {main.io}]
    /\ main' = [pc |-> "read", io |-> 0, d |-> 0]
    /\ late' = IF IsLate THEN late \cup {main.io} ELSE late
    /\ UNCHANGED <<kernelVars, pipe, up, thash, dstat_list, dstat_tree, dstat_curr, vacant,
                   ivl, intervals, pairs, printed, ordered>>

-----------------------------------------------------------------------------
(* The interval thread. *)

\* "grab tree and make data gatherer build up another tree", with the mutex.
Flip ==
    /\ ivl.pc = "sleep"
    /\ intervals < MaxIntervals
    /\ intervals' = intervals + 1
    /\ dstat_curr' = 1 - dstat_curr
    /\ ivl' = [ivl EXCEPT !.pc = "grab", !.finished = dstat_curr]
    /\ UNCHANGED <<kernelVars, pipe, up, thash, dstats, dstat_list, dstat_tree, vacant, main, histVars>>

Grab ==
    /\ ivl.pc = "grab"
    /\ IF dstat_list[ivl.finished] = <<>>
       THEN ivl' = [ivl EXCEPT !.pc = "sleep"] /\ UNCHANGED <<dstat_list, dstat_tree>>
       ELSE /\ dstat_list' = [dstat_list EXCEPT ![ivl.finished] = <<>>]
            /\ dstat_tree' = [dstat_tree EXCEPT ![ivl.finished] = {}]
            /\ ivl' = [ivl EXCEPT !.pc = "print", !.head = dstat_list[ivl.finished], !.at = 1]
    /\ UNCHANGED <<kernelVars, pipe, up, thash, dstats, dstat_curr, vacant, main, intervals, histVars>>

At == ivl.head[ivl.at]

\* blkiomon_output: prints a dstat and then converts it where it is
\* (blkiomon_stat_to_be), to write it in binary.
PrintDstat ==
    /\ ivl.pc = "print"
    /\ printed' = printed \cup ({"size"} \X dstats[At].sizes) \cup ({"d2c"} \X dstats[At].d2cs)
    /\ ivl' = [ivl EXCEPT !.pc = "convert"]
    /\ UNCHANGED <<kernelVars, pipe, up, thash, dstatVars, main, intervals, pairs, late, ordered>>

ConvertDstat ==
    /\ ivl.pc = "convert"
    /\ dstats' = [dstats EXCEPT ![At].be = TRUE]
    /\ ivl' = IF ivl.at = Len(ivl.head) THEN [ivl EXCEPT !.pc = "give"]
              ELSE [ivl EXCEPT !.pc = "print", !.at = @ + 1]
    /\ UNCHANGED <<kernelVars, pipe, up, thash, dstat_list, dstat_tree, dstat_curr, vacant,
                   main, intervals, histVars>>

\* With the mutex: the whole list goes in front of the vacant ones.
GiveBack ==
    /\ ivl.pc = "give"
    /\ vacant' = ivl.head \o vacant
    /\ ivl' = [ivl EXCEPT !.pc = "sleep", !.head = <<>>]
    /\ UNCHANGED <<kernelVars, pipe, up, thash, dstats, dstat_list, dstat_tree, dstat_curr,
                   main, intervals, histVars>>

\* The main thread reads the end of its input: main returns, which ends the
\* interval thread wherever it is.  (A signal ends it in the same way, between two
\* traces.)
Exit ==
    /\ main.pc = "read" /\ pipe = {}
    /\ up' = FALSE
    /\ UNCHANGED <<kernelVars, pipe, thash, dstatVars, main, ivl, intervals, histVars>>

Next ==
    /\ up
    /\ \/ Kernel
       \/ \E t \in pipe : DoTrace(t)
       \/ GetDstat \/ AddSize \/ AddD2c
       \/ Flip \/ Grab \/ PrintDstat \/ ConvertDstat \/ GiveBack
       \/ Exit

Spec == Init /\ [][Next]_vars

-----------------------------------------------------------------------------
(* Properties. *)

Lists == <<dstat_list[0], dstat_list[1], ivl.head, vacant>>

\* Without its lock on the lists it took, the interval thread owns them: every
\* dstat is on one list once (the two lists, the one being printed, the vacant
\* one), a tree holds what its list holds, each device once, and nothing that was
\* converted to big endian.
OneHome ==
    /\ \A l \in 1 .. 4 : IsInjective(Lists[l])
    /\ \A l, m \in 1 .. 4 : l # m => ToSet(Lists[l]) \cap ToSet(Lists[m]) = {}
    /\ UNION {ToSet(Lists[l]) : l \in 1 .. 4} = DOMAIN dstats
    /\ \A i \in 0 .. 1 :
          /\ ToSet(dstat_list[i]) = dstat_tree[i]
          /\ \A x, y \in dstat_tree[i] : dstats[x].device = dstats[y].device => x = y
          /\ \A x \in dstat_tree[i] : ~dstats[x].be

\* Matching: at most one trace of a key is stored; a pair is an issue and a
\* completion that is no earlier; where a key's traces were read in the order of
\* time the two are one IO's, and there is nothing else a pair could have been.
PairsMatch ==
    /\ \A s, t \in thash : s.key = t.key => s = t
    /\ \A p \in pairs :
          /\ p[1].act = "D" /\ p[2].act = "C"
          /\ p[1].key = p[2].key /\ p[1].time <= p[2].time
          /\ p[1].key \in ordered => p[1].io = p[2].io

\* Of the IOs accounted for, all of them but those added to a dstat after it was
\* taken away are printed, or are still to be, in both their members; nothing is
\* in two dstats that are to be printed, and nothing printed is to be printed
\* again.
Awaiting == dstat_tree[0] \cup dstat_tree[1] \cup
            IF ivl.pc \in {"print", "convert"}
            THEN {ivl.head[i] : i \in (IF ivl.pc = "print" THEN ivl.at ELSE ivl.at + 1) .. Len(ivl.head)}
            ELSE {}
Accounted == {p[1].io : p \in pairs} \ IF main.pc = "read" THEN {} ELSE {main.io}

AccountsArePrinted ==
    /\ \A io \in Accounted \ late :
          /\ <<"size", io>> \in printed \/ \E i \in Awaiting : io \in dstats[i].sizes
          /\ <<"d2c", io>> \in printed \/ \E i \in Awaiting : io \in dstats[i].d2cs
    /\ \A i \in Awaiting :
          /\ \A io \in dstats[i].sizes : <<"size", io>> \notin printed
          /\ \A io \in dstats[i].d2cs : <<"d2c", io>> \notin printed
          /\ \A j \in Awaiting \ {i} : dstats[i].sizes \cap dstats[j].sizes = {}

=============================================================================
