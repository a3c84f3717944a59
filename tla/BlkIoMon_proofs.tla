-------------------------- MODULE BlkIoMon_proofs --------------------------
(***************************************************************************)
(* For any keys, devices, times and numbers of IOs and intervals, with the *)
(* two threads at any step: every struct dstat has one owner, pairs are    *)
(* matched as they should be, and what is accounted for is printed once,   *)
(* but for what is added to a struct that was taken away meanwhile.        *)
(***************************************************************************)
EXTENDS BlkIoMon, SequenceTheorems, TLAPS

-----------------------------------------------------------------------------
(* The inductive invariant. *)

Traces == [key : Keys, act : {"D", "C"}, time : Nat, io : Nat \ {0}]
Stats  == [device : Devs, sizes : SUBSET Nat, d2cs : SUBSET Nat, be : BOOLEAN]

KernelTypes ==
    /\ now \in Nat /\ nios \in 0 .. MaxIos /\ ios \in [Keys -> 0 .. nios]
    /\ pipe \subseteq Traces /\ thash \subseteq Traces
    /\ pairs \subseteq Traces \X Traces
    /\ ordered \subseteq Keys

DstatTypes ==
    /\ dstats \in Seq(Stats)
    /\ dstat_list \in [0 .. 1 -> Seq(Nat)] /\ dstat_tree \in [0 .. 1 -> SUBSET Nat]
    /\ dstat_curr \in 0 .. 1 /\ vacant \in Seq(Nat)

\* Where the threads are, and what they hold there.
ThreadTypes ==
    /\ main \in [pc : {"read", "get", "sizes", "d2cs"}, io : Nat, d : Nat \cup Devs]
    /\ main.pc = "get" => main.d \in Devs
    /\ main.pc \in {"sizes", "d2cs"} => main.d \in DOMAIN dstats
    /\ ivl \in [pc : {"sleep", "grab", "print", "convert", "give"}, finished : 0 .. 1,
                head : Seq(Nat), at : Nat]
    /\ ivl.pc \in {"sleep", "grab"} => ivl.head = <<>>
    /\ ivl.pc \in {"print", "convert"} => ivl.at \in 1 .. Len(ivl.head)

\* A key whose traces were read in the order of time: what is unread (of it p in the
\* pipe, h stored) are whole IOs and perhaps the issue of the one that is under way, i
\* (0: none), one IO after the other.
Turn(p, h, i) ==
    /\ p \cap h = {}
    /\ i # 0 => /\ \E t \in p \cup h : t.act = "D" /\ t.io = i
                /\ \A t \in p \cup h : t.io <= i /\ (t.io = i => t.act = "D")
    /\ \A s, t \in p \cup h :
          /\ s.io < t.io => s.time < t.time
          /\ s.io = t.io /\ s.act = t.act => s = t
          /\ s.io = t.io /\ s.act = "D" /\ t.act = "C" => s.time < t.time
    /\ \A t \in p \cup h :
          /\ t.act = "C" => \E s \in p \cup h : s.act = "D" /\ s.io = t.io
          /\ t.act = "D" /\ t.io # i => \E s \in p \cup h : s.act = "C" /\ s.io = t.io
    /\ \A s \in h, t \in p : s.time <= t.time

OfKey(S, k) == {t \in S : t.key = k}
InTurn(k) == Turn(OfKey(pipe, k), OfKey(thash, k), ios[k])
InTurns == \A k \in ordered : InTurn(k)

\* An IO that was added to the statistics or printed.
SizeUsed(io) == <<"size", io>> \in printed \/ \E i \in DOMAIN dstats : io \in dstats[i].sizes
D2cUsed(io)  == <<"d2c", io>> \in printed \/ \E i \in DOMAIN dstats : io \in dstats[i].d2cs

\* An issue is read once: it is in the pipe or stored, or its IO is accounted for.
IssuesOnce ==
    /\ \A t \in pipe \cup thash : t.time <= now /\ t.io <= nios
    /\ \A s, t \in pipe \cup thash : s.act = "D" /\ t.act = "D" /\ s.io = t.io => s = t
    /\ \A t \in pipe \cap thash : t.act # "D"
    /\ \A t \in pipe \cup thash : t.act = "D" =>
          /\ ~SizeUsed(t.io) /\ ~D2cUsed(t.io)
          /\ main.pc # "read" => main.io # t.io
    /\ main.pc \in {"get", "sizes"} => ~SizeUsed(main.io)
    /\ main.pc # "read" => ~D2cUsed(main.io)
    /\ \A io \in Nat : SizeUsed(io) \/ D2cUsed(io) => io <= nios
    /\ main.io <= nios

\* The IOs whose size was added, and perhaps not yet their d2c.
Sized == Accounted \cup IF main.pc = "d2cs" THEN {main.io} ELSE {}

Accounts ==
    /\ \A i, j \in DOMAIN dstats : i # j =>
          /\ dstats[i].sizes \cap dstats[j].sizes = {}
          /\ dstats[i].d2cs \cap dstats[j].d2cs = {}
    /\ \A io \in Sized \ late :
          <<"size", io>> \in printed \/ \E i \in Awaiting : io \in dstats[i].sizes
    /\ \A io \in Accounted \ late :
          <<"d2c", io>> \in printed \/ \E i \in Awaiting : io \in dstats[i].d2cs
    /\ \A i \in Awaiting :
          /\ \A io \in dstats[i].sizes : <<"size", io>> \notin printed
          /\ \A io \in dstats[i].d2cs : <<"d2c", io>> \notin printed

IInv ==
    /\ KernelTypes /\ DstatTypes /\ ThreadTypes
    /\ OneHome
    /\ PairsMatch /\ InTurns
    /\ IssuesOnce
    /\ Accounts

-----------------------------------------------------------------------------
(* Lists without repetition. *)

USE KeysAssumption, GapsAssumption

LEMMA Elements ==
    ASSUME NEW S, NEW q \in Seq(S)
    PROVE  /\ ToSet(q) = {q[i] : i \in 1 .. Len(q)} /\ ToSet(q) \subseteq S
           /\ DOMAIN q = 1 .. Len(q) /\ Len(q) \in Nat
  BY DEF ToSet

LEMMA ElementsTail ==
    ASSUME NEW S, NEW q \in Seq(S), q # <<>>, IsInjective(q)
    PROVE  /\ Tail(q) \in Seq(S) /\ IsInjective(Tail(q)) /\ Head(q) \in S
           /\ ToSet(q) = {Head(q)} \cup ToSet(Tail(q))
           /\ Head(q) \notin ToSet(Tail(q))
<1> DEFINE r == Tail(q)
<1>1. Len(q) \in Nat \ {0}
  BY EmptySeq
<1>2. /\ Head(q) \in S /\ r \in Seq(S) /\ Len(r) = Len(q) - 1
      /\ \A i \in 1 .. Len(r) : r[i] = q[i + 1]
  BY HeadTailProperties
<1>3. Head(q) = q[1] /\ DOMAIN q = 1 .. Len(q) /\ DOMAIN r = 1 .. Len(r)
  BY <1>1, <1>2
<1> HIDE DEF r
<1>4. \A i \in DOMAIN r : i + 1 \in DOMAIN q /\ r[i] = q[i + 1] /\ i + 1 # 1
  BY <1>1, <1>2, <1>3
<1>5. ASSUME NEW i \in DOMAIN q, i # 1 PROVE i - 1 \in DOMAIN r /\ r[i - 1] = q[i]
  <2>1. i - 1 \in 1 .. Len(r) /\ (i - 1) + 1 = i
    BY <1>1, <1>2, <1>3, <1>5
  <2> QED
    BY <1>2, <1>3, <2>1
<1>6. \A a, b \in DOMAIN q : q[a] = q[b] => a = b
  BY DEF IsInjective
<1>7. 1 \in DOMAIN q
  BY <1>1, <1>3
<1>8. IsInjective(r)
  <2>1. ASSUME NEW a \in DOMAIN r, NEW b \in DOMAIN r, r[a] = r[b] PROVE a = b
    <3>1. a + 1 = b + 1
      BY <1>4, <1>6, <2>1
    <3> QED
      BY <1>2, <1>3, <3>1
  <2> QED
    BY <2>1 DEF IsInjective
<1>9. ToSet(q) = {Head(q)} \cup ToSet(r)
  <2>1. ASSUME NEW x \in ToSet(q) PROVE x \in {Head(q)} \cup ToSet(r)
    <3>1. PICK i \in DOMAIN q : x = q[i]
      BY DEF ToSet
    <3> QED
      BY <1>3, <1>5, <3>1 DEF ToSet
  <2>2. \A x \in ToSet(r) : x \in ToSet(q)
    BY <1>4 DEF ToSet
  <2>3. Head(q) \in ToSet(q)
    BY <1>3, <1>7 DEF ToSet
  <2> QED
    BY <2>1, <2>2, <2>3
<1>10. Head(q) \notin ToSet(r)
  BY <1>3, <1>4, <1>6, <1>7 DEF ToSet
<1> QED
  BY <1>2, <1>8, <1>9, <1>10 DEF r

LEMMA ElementsConcat ==
    ASSUME NEW S, NEW p \in Seq(S), NEW q \in Seq(S),
           IsInjective(p), IsInjective(q), ToSet(p) \cap ToSet(q) = {}
    PROVE  /\ p \o q \in Seq(S) /\ IsInjective(p \o q)
           /\ ToSet(p \o q) = ToSet(p) \cup ToSet(q)
<1> DEFINE r == p \o q
<1>1. /\ r \in Seq(S) /\ Len(r) = Len(p) + Len(q) /\ Len(p) \in Nat /\ Len(q) \in Nat
      /\ \A i \in 1 .. Len(p) + Len(q) : r[i] = IF i <= Len(p) THEN p[i] ELSE q[i - Len(p)]
  BY ConcatProperties
<1>2. DOMAIN r = 1 .. Len(p) + Len(q) /\ DOMAIN p = 1 .. Len(p) /\ DOMAIN q = 1 .. Len(q)
  BY <1>1
<1> HIDE DEF r
<1>3. ASSUME NEW i \in DOMAIN r
      PROVE  \/ i \in DOMAIN p /\ r[i] = p[i]
             \/ i - Len(p) \in DOMAIN q /\ r[i] = q[i - Len(p)]
  <2>1. i \in 1 .. Len(p) + Len(q)
    BY <1>2
  <2>2. i <= Len(p) => i \in DOMAIN p
    BY <1>1, <1>2, <2>1
  <2>3. ~(i <= Len(p)) => i - Len(p) \in DOMAIN q
    BY <1>1, <1>2, <2>1
  <2> QED
    BY <1>1, <2>1, <2>2, <2>3
<1>4. ASSUME NEW i \in DOMAIN p PROVE i \in DOMAIN r /\ r[i] = p[i]
  <2>1. i \in 1 .. Len(p) + Len(q) /\ i <= Len(p)
    BY <1>1, <1>2
  <2> QED
    BY <1>1, <1>2, <2>1
<1>5. ASSUME NEW i \in DOMAIN q PROVE i + Len(p) \in DOMAIN r /\ r[i + Len(p)] = q[i]
  <2>1. i + Len(p) \in 1 .. Len(p) + Len(q) /\ ~(i + Len(p) <= Len(p)) /\ (i + Len(p)) - Len(p) = i
    BY <1>1, <1>2
  <2> QED
    BY <1>1, <1>2, <2>1
<1>6. ToSet(r) = ToSet(p) \cup ToSet(q)
  BY <1>3, <1>4, <1>5 DEF ToSet
<1>7. ASSUME NEW a \in DOMAIN r, NEW b \in DOMAIN r, r[a] = r[b] PROVE a = b
  <2>1. \A x \in DOMAIN p, y \in DOMAIN q : p[x] # q[y]
    BY DEF ToSet
  <2>2. \/ a \in DOMAIN p /\ b \in DOMAIN p /\ p[a] = p[b]
        \/ a - Len(p) \in DOMAIN q /\ b - Len(p) \in DOMAIN q /\ q[a - Len(p)] = q[b - Len(p)]
    BY <1>3, <1>7, <2>1
  <2>3. a = b \/ a - Len(p) = b - Len(p)
    BY <2>2 DEF IsInjective
  <2> QED
    BY <1>1, <1>2, <2>3
<1>8. IsInjective(r)
  BY <1>7 DEF IsInjective
<1> QED
  BY <1>1, <1>6, <1>8 DEF r

LEMMA ElementsOne ==
    ASSUME NEW x
    PROVE  IsInjective(<<x>>) /\ ToSet(<<x>>) = {x} /\ <<x>> \in Seq({x})
  BY DEF IsInjective, ToSet

LEMMA ElementsNone ==
    IsInjective(<<>>) /\ ToSet(<<>>) = {}
  BY DEF IsInjective, ToSet

\* What OneHome says of its four lists.
Apart(a, b, h, v, n) ==
    /\ IsInjective(a) /\ IsInjective(b) /\ IsInjective(h) /\ IsInjective(v)
    /\ ToSet(a) \cap ToSet(b) = {} /\ ToSet(a) \cap ToSet(h) = {} /\ ToSet(a) \cap ToSet(v) = {}
    /\ ToSet(b) \cap ToSet(h) = {} /\ ToSet(b) \cap ToSet(v) = {} /\ ToSet(h) \cap ToSet(v) = {}
    /\ ToSet(a) \cup ToSet(b) \cup ToSet(h) \cup ToSet(v) = n

\* One more, from the vacant ones or from nowhere, on one of the first two lists.
LEMMA ApartLink ==
    ASSUME NEW a, NEW b, NEW h, NEW v, NEW n, Apart(a, b, h, v, n),
           NEW i, i \notin ToSet(a), i \notin ToSet(b), i \notin ToSet(h),
           NEW q, IsInjective(q), ToSet(q) = {i} \cup ToSet(a),
           NEW w, IsInjective(w), ToSet(w) = ToSet(v) \ {i}
    PROVE  Apart(q, b, h, w, n \cup {i})
<1>1. n = ToSet(a) \cup ToSet(b) \cup ToSet(h) \cup ToSet(v)
  BY DEF Apart
<1>2. ToSet(q) \cup ToSet(b) \cup ToSet(h) \cup ToSet(w) = n \cup {i}
  BY <1>1
<1>3. ToSet(a) \cap ToSet(b) = {} /\ ToSet(a) \cap ToSet(h) = {} /\ ToSet(a) \cap ToSet(v) = {}
  BY DEF Apart
<1>4. ToSet(q) \cap ToSet(b) = {} /\ ToSet(q) \cap ToSet(h) = {} /\ ToSet(q) \cap ToSet(w) = {}
  BY <1>3
<1>5. ToSet(b) \cap ToSet(h) = {} /\ ToSet(b) \cap ToSet(w) = {} /\ ToSet(h) \cap ToSet(w) = {}
  BY DEF Apart
<1> QED
  BY <1>2, <1>4, <1>5 DEF Apart

LEMMA ApartSwap ==
    ASSUME NEW a, NEW b, NEW h, NEW v, NEW n, Apart(a, b, h, v, n)
    PROVE  Apart(b, a, h, v, n)
  BY DEF Apart

\* A list that becomes the third one, and the third one joined to the fourth.
LEMMA ApartGrab ==
    ASSUME NEW a, NEW b, NEW h, NEW v, NEW n, Apart(a, b, h, v, n), h = <<>>
    PROVE  Apart(<<>>, b, a, v, n)
  BY ElementsNone DEF Apart

LEMMA ApartJoin ==
    ASSUME NEW a, NEW b, NEW h, NEW v, NEW n, Apart(a, b, h, v, n),
           NEW q, IsInjective(q), ToSet(q) = ToSet(h) \cup ToSet(v)
    PROVE  Apart(a, b, <<>>, q, n)
<1>1. n = ToSet(a) \cup ToSet(b) \cup ToSet(<<>>) \cup ToSet(q)
  BY ElementsNone DEF Apart
<1>2. ToSet(a) \cap ToSet(q) = {} /\ ToSet(b) \cap ToSet(q) = {} /\ ToSet(a) \cap ToSet(b) = {}
  BY DEF Apart
<1>3. IsInjective(a) /\ IsInjective(b) /\ IsInjective(<<>>) /\ ToSet(<<>>) = {}
  BY ElementsNone DEF Apart
<1> QED
  BY <1>1, <1>2, <1>3 DEF Apart

LEMMA FourLists ==
    ASSUME NEW a, NEW b, NEW h, NEW v, NEW n
    PROVE  Apart(a, b, h, v, n) <=>
              /\ \A l \in 1 .. 4 : IsInjective(<<a, b, h, v>>[l])
              /\ \A l, m \in 1 .. 4 :
                    l # m => ToSet(<<a, b, h, v>>[l]) \cap ToSet(<<a, b, h, v>>[m]) = {}
              /\ UNION {ToSet(<<a, b, h, v>>[l]) : l \in 1 .. 4} = n
<1> DEFINE L == <<a, b, h, v>>
<1>1. L[1] = a /\ L[2] = b /\ L[3] = h /\ L[4] = v
  OBVIOUS
<1>2. 1 .. 4 = {1, 2, 3, 4}
  OBVIOUS
<1> HIDE DEF L
<1>3. UNION {ToSet(L[l]) : l \in 1 .. 4} = ToSet(a) \cup ToSet(b) \cup ToSet(h) \cup ToSet(v)
  BY <1>1, <1>2
<1>4. (\A l \in 1 .. 4 : IsInjective(L[l]))
        <=> IsInjective(a) /\ IsInjective(b) /\ IsInjective(h) /\ IsInjective(v)
  BY <1>1, <1>2
<1>5. (\A l, m \in 1 .. 4 : l # m => ToSet(L[l]) \cap ToSet(L[m]) = {})
        <=> /\ ToSet(a) \cap ToSet(b) = {} /\ ToSet(a) \cap ToSet(h) = {}
            /\ ToSet(a) \cap ToSet(v) = {} /\ ToSet(b) \cap ToSet(h) = {}
            /\ ToSet(b) \cap ToSet(v) = {} /\ ToSet(h) \cap ToSet(v) = {}
  <2> DEFINE M(l) == ToSet(L[l])
  <2>1. M(1) = ToSet(a) /\ M(2) = ToSet(b) /\ M(3) = ToSet(h) /\ M(4) = ToSet(v)
    BY <1>1
  <2> HIDE DEF M
  <2>2. (\A l, m \in 1 .. 4 : l # m => M(l) \cap M(m) = {})
        <=> /\ M(1) \cap M(2) = {} /\ M(1) \cap M(3) = {} /\ M(1) \cap M(4) = {}
            /\ M(2) \cap M(3) = {} /\ M(2) \cap M(4) = {} /\ M(3) \cap M(4) = {}
    BY <1>2
  <2> QED
    BY <2>1, <2>2 DEF M
<1>6. Apart(a, b, h, v, n) <=>
         /\ \A l \in 1 .. 4 : IsInjective(L[l])
         /\ \A l, m \in 1 .. 4 : l # m => ToSet(L[l]) \cap ToSet(L[m]) = {}
         /\ UNION {ToSet(L[l]) : l \in 1 .. 4} = n
  BY <1>3, <1>4, <1>5 DEF Apart
<1> QED
  BY <1>6 DEF L

-----------------------------------------------------------------------------
(* The homes of the statistics. *)

Trees ==
    \A i \in 0 .. 1 :
        /\ ToSet(dstat_list[i]) = dstat_tree[i]
        /\ \A x, y \in dstat_tree[i] : dstats[x].device = dstats[y].device => x = y
        /\ \A x \in dstat_tree[i] : ~dstats[x].be

LEMMA HomeIs ==
    OneHome <=> Apart(dstat_list[0], dstat_list[1], ivl.head, vacant, DOMAIN dstats) /\ Trees
  BY FourLists, Zenon DEF OneHome, Lists, Trees

LEMMA HomeAfter ==
    ASSUME Apart(dstat_list'[0], dstat_list'[1], ivl'.head, vacant', DOMAIN dstats'), Trees'
    PROVE  OneHome'
  BY FourLists, Zenon DEF OneHome, Lists, Trees

\* Where the indices of the statistics are.
LEMMA HomeFacts ==
    ASSUME DstatTypes, OneHome
    PROVE  /\ \A i \in 0 .. 1 : /\ ToSet(dstat_list[i]) = dstat_tree[i] /\ IsInjective(dstat_list[i])
                                /\ dstat_tree[i] \subseteq DOMAIN dstats
                                /\ dstat_tree[i] \cap ToSet(ivl.head) = {}
                                /\ dstat_tree[i] \cap ToSet(vacant) = {}
           /\ dstat_tree[0] \cap dstat_tree[1] = {}
           /\ ToSet(ivl.head) \cap ToSet(vacant) = {}
           /\ ToSet(ivl.head) \subseteq DOMAIN dstats /\ IsInjective(ivl.head)
           /\ ToSet(vacant) \subseteq DOMAIN dstats /\ IsInjective(vacant)
           /\ DOMAIN dstats = 1 .. Len(dstats) /\ Len(dstats) \in Nat
<1>1. Apart(dstat_list[0], dstat_list[1], ivl.head, vacant, DOMAIN dstats) /\ Trees
  BY HomeIs
<1>2. 0 .. 1 = {0, 1}
  OBVIOUS
<1>3. DOMAIN dstats = 1 .. Len(dstats) /\ Len(dstats) \in Nat
  BY DEF DstatTypes
<1> QED
  BY <1>1, <1>2, <1>3 DEF Apart, Trees

\* Steps that move nothing.
LEMMA HomeFrame ==
    ASSUME DstatTypes, OneHome, UNCHANGED <<dstat_list, dstat_tree, vacant>>, ivl'.head = ivl.head,
           DOMAIN dstats' = DOMAIN dstats,
           \A i \in DOMAIN dstats : /\ dstats'[i].device = dstats[i].device
                                    /\ i \notin ToSet(ivl.head) => dstats'[i].be = dstats[i].be
    PROVE  OneHome'
<1>1. Apart(dstat_list[0], dstat_list[1], ivl.head, vacant, DOMAIN dstats) /\ Trees
  BY HomeIs
<1>2. Trees'
  <2>1. ASSUME NEW i \in 0 .. 1, NEW x \in dstat_tree[i]
        PROVE  x \in DOMAIN dstats /\ x \notin ToSet(ivl.head)
    BY HomeFacts
  <2> QED
    BY <1>1, <2>1 DEF Trees
<1> QED
  BY <1>1, <1>2, HomeAfter

\* blkiomon_get_dstat, when the device has none: which one it takes, and from where.
NextDstat == IF vacant # <<>> THEN Head(vacant) ELSE Len(dstats) + 1

LEMMA GetFacts ==
    ASSUME DstatTypes, ThreadTypes, OneHome, GetDstat, Found = {}, NEW i, i = NextDstat
    PROVE  /\ i \in Nat /\ DOMAIN dstats' = DOMAIN dstats \cup {i} /\ dstats' \in Seq(Stats)
           /\ dstats'[i] = Fresh(main.d) /\ \A j \in DOMAIN dstats \ {i} : dstats'[j] = dstats[j]
           /\ i \notin dstat_tree[0] /\ i \notin dstat_tree[1] /\ i \notin ToSet(ivl.head)
           /\ dstat_tree' = [dstat_tree EXCEPT ![dstat_curr] = @ \cup {i}]
           /\ dstat_list' = [dstat_list EXCEPT ![dstat_curr] = <<i>> \o @]
           /\ vacant' \in Seq(Nat) /\ IsInjective(vacant') /\ ToSet(vacant') = ToSet(vacant) \ {i}
           /\ main' = [main EXCEPT !.pc = "sizes", !.d = i]
           /\ dstat_curr' = dstat_curr
           /\ i \in DOMAIN dstats => i \in ToSet(vacant)
<1>1. /\ dstats' = IF vacant # <<>> THEN Renewed(i) ELSE Append(dstats, Fresh(main.d))
      /\ Linked(i) /\ main' = [main EXCEPT !.pc = "sizes", !.d = i] /\ dstat_curr' = dstat_curr
  BY DEF GetDstat, NextDstat
<1>2. /\ dstat_tree' = [dstat_tree EXCEPT ![dstat_curr] = @ \cup {i}]
      /\ dstat_list' = [dstat_list EXCEPT ![dstat_curr] = <<i>> \o @]
      /\ vacant' = IF vacant = <<>> THEN <<>> ELSE Tail(vacant)
  BY <1>1 DEF Linked
<1>3. vacant \in Seq(Nat) /\ dstats \in Seq(Stats) /\ IsInjective(vacant)
  BY HomeFacts DEF DstatTypes
<1>4. Fresh(main.d) \in Stats
  <2>1. main.d \in Devs
    BY DEF ThreadTypes, GetDstat
  <2> QED
    BY <2>1 DEF Fresh, Stats
<1>5. CASE vacant # <<>>
  <2>1. i = Head(vacant) /\ vacant' = Tail(vacant)
    BY <1>2, <1>5 DEF NextDstat
  <2>2. /\ vacant' \in Seq(Nat) /\ IsInjective(vacant') /\ i \in Nat
        /\ ToSet(vacant) = {i} \cup ToSet(vacant') /\ i \notin ToSet(vacant')
    BY <1>3, <1>5, <2>1, ElementsTail
  <2>3. i \in DOMAIN dstats /\ i \notin dstat_tree[0] /\ i \notin dstat_tree[1] /\ i \notin ToSet(ivl.head)
    BY <2>2, HomeFacts
  <2>4. dstats' = [dstats EXCEPT ![i] = Fresh(main.d)]
    BY <1>1, <1>5 DEF Renewed
  <2>5. dstats' \in Seq(Stats) /\ DOMAIN dstats' = DOMAIN dstats
        /\ dstats'[i] = Fresh(main.d) /\ \A j \in DOMAIN dstats \ {i} : dstats'[j] = dstats[j]
    <3>1. \A e \in Stats : [dstats EXCEPT ![i] = e] \in Seq(Stats)
      BY <1>3, <2>3, ExceptSeq
    <3> QED
      BY <1>3, <1>4, <2>3, <2>4, <3>1
  <2> QED
    BY <1>1, <1>2, <2>2, <2>3, <2>5
<1>6. CASE vacant = <<>>
  <2>1. i = Len(dstats) + 1 /\ vacant' = <<>>
    BY <1>2, <1>6 DEF NextDstat
  <2>2. dstats' = Append(dstats, Fresh(main.d))
    BY <1>1, <1>6
  <2>3. /\ DOMAIN dstats' = DOMAIN dstats \cup {i} /\ dstats' \in Seq(Stats)
        /\ dstats'[i] = Fresh(main.d) /\ \A j \in DOMAIN dstats \ {i} : dstats'[j] = dstats[j]
    BY <1>3, <1>4, <2>1, <2>2
  <2>4. i \in Nat /\ i \notin DOMAIN dstats
    BY <1>3, <2>1
  <2>5. i \notin dstat_tree[0] /\ i \notin dstat_tree[1] /\ i \notin ToSet(ivl.head) /\ i \notin ToSet(vacant)
    BY <2>4, HomeFacts
  <2>6. vacant' \in Seq(Nat) /\ IsInjective(vacant') /\ ToSet(vacant') = ToSet(vacant) \ {i}
    BY <1>6, <2>1, ElementsNone
  <2> QED
    BY <1>1, <1>2, <2>3, <2>4, <2>5, <2>6
<1> QED
  BY <1>5, <1>6

LEMMA GetHome ==
    ASSUME DstatTypes, ThreadTypes, OneHome, GetDstat
    PROVE  DstatTypes' /\ OneHome'
<1>1. CASE Found # {}
  <2>1. UNCHANGED <<dstats, dstat_list, dstat_tree, dstat_curr, vacant>> /\ ivl' = ivl
    BY <1>1 DEF GetDstat, dstatVars
  <2> QED
    BY <2>1, HomeFrame DEF DstatTypes
<1>2. CASE Found = {}
  <2>1. PICK i : i = NextDstat
    OBVIOUS
  <2>2. /\ i \in Nat /\ DOMAIN dstats' = DOMAIN dstats \cup {i} /\ dstats' \in Seq(Stats)
        /\ dstats'[i] = Fresh(main.d) /\ \A j \in DOMAIN dstats \ {i} : dstats'[j] = dstats[j]
        /\ i \notin dstat_tree[0] /\ i \notin dstat_tree[1] /\ i \notin ToSet(ivl.head)
        /\ dstat_tree' = [dstat_tree EXCEPT ![dstat_curr] = @ \cup {i}]
        /\ dstat_list' = [dstat_list EXCEPT ![dstat_curr] = <<i>> \o @]
        /\ vacant' \in Seq(Nat) /\ IsInjective(vacant') /\ ToSet(vacant') = ToSet(vacant) \ {i}
        /\ dstat_curr' = dstat_curr
    BY <1>2, <2>1, GetFacts
  <2>3. ivl' = ivl /\ dstat_curr \in 0 .. 1 /\ dstat_list[dstat_curr] \in Seq(Nat)
    BY DEF GetDstat, DstatTypes
  <2>4. i \notin ToSet(dstat_list[dstat_curr]) /\ IsInjective(dstat_list[dstat_curr])
    BY <2>2, <2>3, HomeFacts
  <2>5. /\ <<i>> \o dstat_list[dstat_curr] \in Seq(Nat)
        /\ IsInjective(<<i>> \o dstat_list[dstat_curr])
        /\ ToSet(<<i>> \o dstat_list[dstat_curr]) = {i} \cup ToSet(dstat_list[dstat_curr])
    <3>1. PICK o, l : o = <<i>> /\ l = dstat_list[dstat_curr]
      OBVIOUS
    <3>2. o \in Seq(Nat) /\ IsInjective(o) /\ ToSet(o) = {i}
      BY <2>2, <3>1, ElementsOne
    <3>3. l \in Seq(Nat) /\ IsInjective(l) /\ ToSet(o) \cap ToSet(l) = {}
      BY <2>3, <2>4, <3>1, <3>2
    <3>4. o \o l \in Seq(Nat) /\ IsInjective(o \o l) /\ ToSet(o \o l) = ToSet(o) \cup ToSet(l)
      BY <3>2, <3>3, ElementsConcat
    <3> QED
      BY <3>1, <3>2, <3>4
  <2>6. DstatTypes'
    BY <2>2, <2>3, <2>5 DEF DstatTypes
  <2>7. PICK q : q = <<i>> \o dstat_list[dstat_curr]
    OBVIOUS
  <2>8. /\ dstat_list'[dstat_curr] = q /\ dstat_tree'[dstat_curr] = dstat_tree[dstat_curr] \cup {i}
        /\ \A c \in 0 .. 1 : c # dstat_curr =>
              dstat_list'[c] = dstat_list[c] /\ dstat_tree'[c] = dstat_tree[c]
    BY <2>2, <2>3, <2>7 DEF DstatTypes
  <2>9. Trees'
    <3>1. ASSUME NEW c \in 0 .. 1
          PROVE  /\ ToSet(dstat_list'[c]) = dstat_tree'[c]
                 /\ \A x, y \in dstat_tree'[c] : dstats'[x].device = dstats'[y].device => x = y
                 /\ \A x \in dstat_tree'[c] : ~dstats'[x].be
      <4>1. /\ ToSet(dstat_list[c]) = dstat_tree[c]
            /\ \A x, y \in dstat_tree[c] : dstats[x].device = dstats[y].device => x = y
            /\ \A x \in dstat_tree[c] : ~dstats[x].be
            /\ dstat_tree[c] \subseteq DOMAIN dstats /\ i \notin dstat_tree[c]
        <5>1. Trees
          BY HomeIs
        <5>2. c = 0 \/ c = 1
          OBVIOUS
        <5> QED
          BY <2>2, <5>1, <5>2, HomeFacts DEF Trees
      <4>2. \A x \in dstat_tree[c] : dstats'[x] = dstats[x]
        BY <2>2, <4>1
      <4>3. CASE c # dstat_curr
        BY <2>8, <4>1, <4>2, <4>3
      <4>4. CASE c = dstat_curr
        <5>1. \A x \in dstat_tree[c] : dstats[x].device # main.d
          BY <1>2, <4>4 DEF Found
        <5>2. dstats'[i].device = main.d /\ ~dstats'[i].be
          BY <2>2 DEF Fresh
        <5>3. dstat_list'[c] = q /\ dstat_tree'[c] = dstat_tree[c] \cup {i}
          BY <2>8, <4>4
        <5>4. ToSet(q) = dstat_tree[c] \cup {i}
          BY <2>5, <2>7, <4>1, <4>4
        <5> QED
          BY <4>1, <4>2, <5>1, <5>2, <5>3, <5>4
      <4> QED
        BY <4>3, <4>4
    <3> QED
      BY <3>1 DEF Trees
  <2>10. Apart(dstat_list'[0], dstat_list'[1], ivl'.head, vacant', DOMAIN dstats')
    <3>1. Apart(dstat_list[0], dstat_list[1], ivl.head, vacant, DOMAIN dstats)
      BY HomeIs
    <3>2. i \notin ToSet(dstat_list[0]) /\ i \notin ToSet(dstat_list[1]) /\ i \notin ToSet(ivl.head)
      BY <2>2, HomeFacts
    <3>3. IsInjective(q) /\ ToSet(q) = {i} \cup ToSet(dstat_list[dstat_curr])
      BY <2>5, <2>7
    <3>4. CASE dstat_curr = 0
      <4>1. dstat_list'[0] = q /\ dstat_list'[1] = dstat_list[1]
        BY <2>8, <3>4
      <4>2. Apart(q, dstat_list[1], ivl.head, vacant', DOMAIN dstats \cup {i})
        BY <2>2, <3>1, <3>2, <3>3, <3>4, ApartLink
      <4> QED
        BY <2>2, <2>3, <4>1, <4>2
    <3>5. CASE dstat_curr = 1
      <4>1. dstat_list'[1] = q /\ dstat_list'[0] = dstat_list[0]
        BY <2>8, <3>5
      <4>2. Apart(dstat_list[1], dstat_list[0], ivl.head, vacant, DOMAIN dstats)
        BY <3>1, ApartSwap
      <4>3. Apart(q, dstat_list[0], ivl.head, vacant', DOMAIN dstats \cup {i})
        BY <2>2, <3>2, <3>3, <3>5, <4>2, ApartLink
      <4>4. Apart(dstat_list[0], q, ivl.head, vacant', DOMAIN dstats \cup {i})
        BY <4>3, ApartSwap
      <4> QED
        BY <2>2, <2>3, <4>1, <4>4
    <3> QED
      BY <2>3, <3>4, <3>5
  <2> QED
    BY <2>6, <2>9, <2>10, HomeAfter
<1> QED
  BY <1>1, <1>2

LEMMA GrabHome ==
    ASSUME DstatTypes, ThreadTypes, OneHome, Grab
    PROVE  DstatTypes' /\ OneHome'
<1>1. PICK f \in 0 .. 1 : f = ivl.finished
  BY DEF ThreadTypes
<1>2. ivl.pc = "grab" /\ ivl.head = <<>> /\ UNCHANGED <<dstats, dstat_curr, vacant>>
  BY DEF Grab, ThreadTypes
<1>3. CASE dstat_list[f] = <<>>
  <2>1. UNCHANGED <<dstat_list, dstat_tree>> /\ ivl' = [ivl EXCEPT !.pc = "sleep"]
    BY <1>1, <1>3 DEF Grab
  <2>2. ivl'.head = ivl.head
    BY <2>1 DEF ThreadTypes
  <2>3. OneHome'
    BY <1>2, <2>1, <2>2, HomeFrame
  <2> QED
    BY <1>2, <2>1, <2>3 DEF DstatTypes
<1>4. CASE dstat_list[f] # <<>>
  <2>1. /\ dstat_list' = [dstat_list EXCEPT ![f] = <<>>] /\ dstat_tree' = [dstat_tree EXCEPT ![f] = {}]
        /\ ivl' = [ivl EXCEPT !.pc = "print", !.head = dstat_list[f], !.at = 1]
    BY <1>1, <1>4 DEF Grab
  <2>2. ivl'.head = dstat_list[f]
    BY <2>1 DEF ThreadTypes
  <2>3. DstatTypes'
    BY <1>2, <2>1 DEF DstatTypes
  <2>4. /\ dstat_list'[f] = <<>> /\ dstat_tree'[f] = {}
        /\ \A c \in 0 .. 1 : c # f => dstat_list'[c] = dstat_list[c] /\ dstat_tree'[c] = dstat_tree[c]
    BY <2>1 DEF DstatTypes
  <2>5. Trees'
    <3>1. Trees
      BY HomeIs
    <3>2. ASSUME NEW c \in 0 .. 1
          PROVE  /\ ToSet(dstat_list'[c]) = dstat_tree'[c]
                 /\ \A x, y \in dstat_tree'[c] : dstats'[x].device = dstats'[y].device => x = y
                 /\ \A x \in dstat_tree'[c] : ~dstats'[x].be
      <4>1. CASE c = f
        BY <2>4, <4>1, ElementsNone
      <4>2. CASE c # f
        BY <1>2, <2>4, <3>1, <4>2 DEF Trees
      <4> QED
        BY <4>1, <4>2
    <3> QED
      BY <3>2 DEF Trees
  <2>6. Apart(dstat_list'[0], dstat_list'[1], ivl'.head, vacant', DOMAIN dstats')
    <3>1. Apart(dstat_list[0], dstat_list[1], ivl.head, vacant, DOMAIN dstats)
      BY HomeIs
    <3>2. CASE f = 0
      <4>1. Apart(<<>>, dstat_list[1], dstat_list[0], vacant, DOMAIN dstats)
        BY <1>2, <3>1, ApartGrab
      <4>2. dstat_list'[0] = <<>> /\ dstat_list'[1] = dstat_list[1] /\ ivl'.head = dstat_list[0]
        BY <2>2, <2>4, <3>2
      <4> QED
        BY <1>2, <4>1, <4>2
    <3>3. CASE f = 1
      <4>1. Apart(dstat_list[1], dstat_list[0], ivl.head, vacant, DOMAIN dstats)
        BY <3>1, ApartSwap
      <4>2. Apart(<<>>, dstat_list[0], dstat_list[1], vacant, DOMAIN dstats)
        BY <1>2, <4>1, ApartGrab
      <4>3. Apart(dstat_list[0], <<>>, dstat_list[1], vacant, DOMAIN dstats)
        BY <4>2, ApartSwap
      <4>4. dstat_list'[1] = <<>> /\ dstat_list'[0] = dstat_list[0] /\ ivl'.head = dstat_list[1]
        BY <2>2, <2>4, <3>3
      <4> QED
        BY <1>2, <4>3, <4>4
    <3> QED
      BY <3>2, <3>3
  <2> QED
    BY <2>3, <2>5, <2>6, HomeAfter
<1> QED
  BY <1>3, <1>4

LEMMA GiveHome ==
    ASSUME DstatTypes, ThreadTypes, OneHome, GiveBack
    PROVE  /\ DstatTypes' /\ OneHome'
           /\ ToSet(vacant') = ToSet(ivl.head) \cup ToSet(vacant)
<1>1. /\ vacant' = ivl.head \o vacant /\ ivl' = [ivl EXCEPT !.pc = "sleep", !.head = <<>>]
      /\ UNCHANGED <<dstats, dstat_list, dstat_tree, dstat_curr>>
  BY DEF GiveBack
<1>2. Apart(dstat_list[0], dstat_list[1], ivl.head, vacant, DOMAIN dstats) /\ Trees
  BY HomeIs
<1>3. PICK h, v : h = ivl.head /\ v = vacant
  OBVIOUS
<1>4. /\ h \in Seq(Nat) /\ v \in Seq(Nat) /\ IsInjective(h) /\ IsInjective(v)
      /\ ToSet(h) \cap ToSet(v) = {}
  BY <1>2, <1>3 DEF Apart, DstatTypes, ThreadTypes
<1>5. h \o v \in Seq(Nat) /\ IsInjective(h \o v) /\ ToSet(h \o v) = ToSet(h) \cup ToSet(v)
  BY <1>4, ElementsConcat
<1>6. vacant' = h \o v /\ ivl'.head = <<>>
  BY <1>1, <1>3 DEF ThreadTypes
<1>7. Apart(dstat_list[0], dstat_list[1], <<>>, vacant', DOMAIN dstats)
  BY <1>2, <1>3, <1>5, <1>6, ApartJoin
<1>8. Apart(dstat_list'[0], dstat_list'[1], ivl'.head, vacant', DOMAIN dstats')
  BY <1>1, <1>6, <1>7
<1>9. Trees'
  BY <1>1, <1>2 DEF Trees
<1>10. DstatTypes'
  BY <1>1, <1>5, <1>6 DEF DstatTypes
<1> QED
  BY <1>3, <1>5, <1>6, <1>8, <1>9, <1>10, HomeAfter

\* Where At is, while something is printed.
LEMMA AtFacts ==
    ASSUME DstatTypes, ThreadTypes, OneHome, ivl.pc \in {"print", "convert"}
    PROVE  /\ At \in DOMAIN dstats /\ At \in ToSet(ivl.head) /\ At = ivl.head[ivl.at]
           /\ ivl.at \in 1 .. Len(ivl.head) /\ Len(ivl.head) \in Nat
<1>1. ivl.at \in 1 .. Len(ivl.head) /\ ivl.head \in Seq(Nat)
  BY DEF ThreadTypes
<1>2. At \in ToSet(ivl.head)
  BY <1>1 DEF At, ToSet
<1> QED
  BY <1>1, <1>2, HomeFacts DEF At

LEMMA ConvertHome ==
    ASSUME DstatTypes, ThreadTypes, OneHome, ConvertDstat
    PROVE  /\ DstatTypes' /\ OneHome'
           /\ DOMAIN dstats' = DOMAIN dstats
           /\ \A i \in DOMAIN dstats : dstats'[i].sizes = dstats[i].sizes /\ dstats'[i].d2cs = dstats[i].d2cs
<1>1. /\ ivl.pc = "convert" /\ dstats' = [dstats EXCEPT ![At].be = TRUE]
      /\ UNCHANGED <<dstat_list, dstat_tree, dstat_curr, vacant>>
  BY DEF ConvertDstat
<1>2. At \in DOMAIN dstats /\ At \in ToSet(ivl.head)
  BY <1>1, AtFacts
<1>3. ivl'.head = ivl.head
  BY DEF ConvertDstat, ThreadTypes
<1>4. dstats \in Seq(Stats) /\ dstats[At] \in Stats
  BY <1>2 DEF DstatTypes
<1>5. PICK e : e = [dstats[At] EXCEPT !.be = TRUE]
  OBVIOUS
<1>6. /\ e \in Stats /\ e.device = dstats[At].device /\ e.sizes = dstats[At].sizes
      /\ e.d2cs = dstats[At].d2cs
  BY <1>4, <1>5 DEF Stats
<1>7. dstats' = [dstats EXCEPT ![At] = e]
  BY <1>1, <1>5
<1>8. dstats' \in Seq(Stats)
  BY <1>2, <1>4, <1>6, <1>7, ExceptSeq
<1>9. /\ DOMAIN dstats' = DOMAIN dstats /\ dstats'[At] = e
      /\ \A i \in DOMAIN dstats \ {At} : dstats'[i] = dstats[i]
  BY <1>2, <1>4, <1>7
<1>10. OneHome'
  BY <1>1, <1>2, <1>3, <1>6, <1>9, HomeFrame
<1>11. DstatTypes'
  BY <1>1, <1>8 DEF DstatTypes
<1> QED
  BY <1>6, <1>9, <1>10, <1>11

\* A member of main.d gets one more.
LEMMA AddHome ==
    ASSUME DstatTypes, ThreadTypes, OneHome, AddSize \/ AddD2c
    PROVE  /\ DstatTypes' /\ OneHome'
           /\ DOMAIN dstats' = DOMAIN dstats /\ main.d \in DOMAIN dstats
           /\ \A i \in DOMAIN dstats \ {main.d} : dstats'[i] = dstats[i]
           /\ AddSize => /\ dstats'[main.d].sizes = dstats[main.d].sizes \cup {main.io}
                         /\ dstats'[main.d].d2cs = dstats[main.d].d2cs
           /\ AddD2c  => /\ dstats'[main.d].d2cs = dstats[main.d].d2cs \cup {main.io}
                         /\ dstats'[main.d].sizes = dstats[main.d].sizes
<1>1. main.d \in DOMAIN dstats /\ main.io \in Nat
  BY DEF AddSize, AddD2c, ThreadTypes
<1>2. UNCHANGED <<dstat_list, dstat_tree, dstat_curr, vacant, ivl>>
  BY DEF AddSize, AddD2c
<1>3. dstats \in Seq(Stats) /\ dstats[main.d] \in Stats
  BY <1>1 DEF DstatTypes
<1>4. PICK e : /\ dstats' = [dstats EXCEPT ![main.d] = e] /\ e \in Stats
               /\ e.device = dstats[main.d].device /\ e.be = dstats[main.d].be
               /\ AddSize => e.sizes = dstats[main.d].sizes \cup {main.io} /\ e.d2cs = dstats[main.d].d2cs
               /\ AddD2c => e.d2cs = dstats[main.d].d2cs \cup {main.io} /\ e.sizes = dstats[main.d].sizes
  <2>1. ~(AddSize /\ AddD2c)
    BY DEF AddSize, AddD2c
  <2>2. CASE AddSize
    <3>1. PICK e : e = [dstats[main.d] EXCEPT !.sizes = @ \cup {main.io}]
      OBVIOUS
    <3>2. dstats' = [dstats EXCEPT ![main.d] = e]
      BY <2>2, <3>1 DEF AddSize
    <3>3. /\ e \in Stats /\ e.device = dstats[main.d].device /\ e.be = dstats[main.d].be
          /\ e.sizes = dstats[main.d].sizes \cup {main.io} /\ e.d2cs = dstats[main.d].d2cs
      BY <1>1, <1>3, <3>1 DEF Stats
    <3> QED
      BY <2>1, <2>2, <3>2, <3>3
  <2>3. CASE AddD2c
    <3>1. PICK e : e = [dstats[main.d] EXCEPT !.d2cs = @ \cup {main.io}]
      OBVIOUS
    <3>2. dstats' = [dstats EXCEPT ![main.d] = e]
      BY <2>3, <3>1 DEF AddD2c
    <3>3. /\ e \in Stats /\ e.device = dstats[main.d].device /\ e.be = dstats[main.d].be
          /\ e.d2cs = dstats[main.d].d2cs \cup {main.io} /\ e.sizes = dstats[main.d].sizes
      BY <1>1, <1>3, <3>1 DEF Stats
    <3> QED
      BY <2>1, <2>3, <3>2, <3>3
  <2> QED
    BY <2>2, <2>3
<1>5. dstats' \in Seq(Stats)
  BY <1>1, <1>3, <1>4, ExceptSeq
<1>6. /\ DOMAIN dstats' = DOMAIN dstats /\ dstats'[main.d] = e
      /\ \A i \in DOMAIN dstats \ {main.d} : dstats'[i] = dstats[i]
  BY <1>1, <1>3, <1>4
<1>7. OneHome'
  BY <1>2, <1>4, <1>6, HomeFrame
<1>8. DstatTypes'
  BY <1>2, <1>5 DEF DstatTypes
<1> QED
  BY <1>1, <1>4, <1>6, <1>7, <1>8

-----------------------------------------------------------------------------
(* Types. *)

\* blkiomon_do_trace: what becomes of a trace t that is read, and of s that was stored.
Kept(t) ==
    /\ \A s \in thash : s.key # t.key
    /\ thash' = thash \cup {t} /\ main' = main /\ pairs' = pairs

Aged(s, t, old, young) == \/ s.time < t.time /\ old = s /\ young = t
                          \/ ~(s.time < t.time) /\ old = t /\ young = s

Paired(s, t, old, young) ==
    /\ s.key = t.key /\ Aged(s, t, old, young)
    /\ old.act = "D" /\ young.act = "C"
    /\ thash' = thash \ {s} /\ pairs' = pairs \cup {<<old, young>>}
    /\ main' = [main EXCEPT !.pc = "get", !.io = old.io, !.d = Dev(old.key)]

Replaced(s, t, old, young) ==
    /\ s.key = t.key /\ Aged(s, t, old, young)
    /\ ~(old.act = "D" /\ young.act = "C")
    /\ thash' = (thash \ {s}) \cup {young} /\ main' = main /\ pairs' = pairs

LEMMA TraceFacts ==
    ASSUME KernelTypes, NEW t \in pipe, DoTrace(t)
    PROVE  /\ t \in Traces /\ pipe' = pipe \ {t} /\ main.pc = "read"
           /\ ordered' \subseteq ordered /\ (t.key \in ordered' => InOrder(t))
           /\ \/ Kept(t)
              \/ \E s \in thash, old, young \in Traces :
                    Paired(s, t, old, young) \/ Replaced(s, t, old, young)
<1>1. t \in Traces
  BY DEF KernelTypes
<1>2. pipe' = pipe \ {t} /\ main.pc = "read"
  BY DEF DoTrace
<1>3. ordered' \subseteq ordered /\ (t.key \in ordered' => InOrder(t))
  <2>1. ordered' = IF InOrder(t) THEN ordered ELSE ordered \ {t.key}
    BY DEF DoTrace
  <2> QED
    BY <2>1
<1>4. CASE Stored(t) = {}
  <2>1. \A s \in thash : s.key # t.key
    BY <1>4 DEF Stored
  <2>2. thash' = thash \cup {t} /\ main' = main /\ pairs' = pairs
    BY <1>4 DEF DoTrace
  <2> QED
    BY <1>1, <1>2, <1>3, <2>1, <2>2 DEF Kept
<1>5. CASE Stored(t) # {}
  <2>1. PICK s : s = CHOOSE x \in Stored(t) : TRUE
    OBVIOUS
  <2>2. s \in thash /\ s.key = t.key /\ s \in Traces
    <3>1. s \in Stored(t)
      BY <1>5, <2>1
    <3> QED
      BY <3>1 DEF Stored, KernelTypes
  <2>3. PICK old, young : old = (IF Older(s, t) THEN s ELSE t) /\ young = IF Older(s, t) THEN t ELSE s
    OBVIOUS
  <2>4. old \in Traces /\ young \in Traces /\ Aged(s, t, old, young)
    BY <1>1, <2>2, <2>3 DEF Older, Aged
  <2>5. IF old.act = "D" /\ young.act = "C"
        THEN /\ thash' = thash \ {s} /\ pairs' = pairs \cup {<<old, young>>}
             /\ main' = [main EXCEPT !.pc = "get", !.io = old.io, !.d = Dev(old.key)]
        ELSE thash' = (thash \ {s}) \cup {young} /\ main' = main /\ pairs' = pairs
    BY <1>5, <2>1, <2>3 DEF DoTrace
  <2>6. Paired(s, t, old, young) \/ Replaced(s, t, old, young)
    BY <2>2, <2>4, <2>5 DEF Paired, Replaced
  <2> QED
    BY <1>1, <1>2, <1>3, <2>2, <2>4, <2>6
<1> QED
  BY <1>4, <1>5

\* What the block layer does: one more trace, no earlier than all there are.
LEMMA KernelFacts ==
    ASSUME KernelTypes, Kernel
    PROVE  /\ \E k \in Keys, u \in Traces :
                 /\ u.key = k /\ u.time = now' /\ pipe' = pipe \cup {u}
                 /\ \/ /\ u.act = "D" /\ u.io = nios + 1
                       /\ ios[k] = 0 /\ nios' = nios + 1 /\ ios' = [ios EXCEPT ![k] = nios + 1]
                    \/ /\ u.act = "C" /\ u.io = ios[k] /\ ios[k] # 0
                       /\ nios' = nios /\ ios' = [ios EXCEPT ![k] = 0]
           /\ now' \in Nat /\ now' > now /\ nios' \in 0 .. MaxIos /\ nios \in Nat /\ now \in Nat
           /\ UNCHANGED <<up, thash, dstatVars, main, ivl, intervals, histVars>>
<1>1. PICK k \in Keys : Issue(k) \/ Complete(k)
  BY DEF Kernel
<1>2. now \in Nat /\ nios \in 0 .. MaxIos /\ MaxIos \in Nat /\ ios[k] \in 0 .. nios
  BY DEF KernelTypes
<1>3. CASE Issue(k)
  <2>1. now' = now + 1 /\ nios' = nios + 1 /\ nios < MaxIos /\ ios[k] = 0
        /\ ios' = [ios EXCEPT ![k] = nios + 1] /\ pipe' = pipe \cup {Trace(k, "D", nios + 1)}
    BY <1>3 DEF Issue, Later
  <2>2. PICK u : u = Trace(k, "D", nios + 1)
    OBVIOUS
  <2>3. u \in Traces /\ u.key = k /\ u.act = "D" /\ u.io = nios + 1 /\ u.time = now'
    BY <1>2, <2>1, <2>2 DEF Trace, Traces
  <2>4. now' \in Nat /\ now' > now /\ nios' \in 0 .. MaxIos /\ nios \in Nat
    BY <1>2, <2>1
  <2> QED
    BY <1>2, <2>1, <2>2, <2>3, <2>4 DEF Kernel
<1>4. CASE Complete(k)
  <2>1. ios[k] # 0 /\ Later(Gaps[ios[k]]) /\ nios' = nios /\ ios' = [ios EXCEPT ![k] = 0]
        /\ pipe' = pipe \cup {Trace(k, "C", ios[k])}
    BY <1>4 DEF Complete
  <2>2. Gaps[ios[k]] \subseteq Nat \ {0}
    <3>1. ios[k] \in 1 .. MaxIos
      BY <1>2, <2>1
    <3> QED
      BY <3>1
  <2>3. now' \in Nat /\ now' > now
    <3>1. PICK gap \in Gaps[ios[k]] : now' = now + gap
      BY <2>1 DEF Later
    <3>2. gap \in Nat \ {0}
      BY <2>2, <3>1
    <3> QED
      BY <1>2, <3>1, <3>2
  <2>4. PICK u : u = Trace(k, "C", ios[k])
    OBVIOUS
  <2>5. u \in Traces /\ u.key = k /\ u.act = "C" /\ u.io = ios[k] /\ u.time = now'
    <3>1. ios[k] \in Nat \ {0}
      BY <1>2, <2>1
    <3> QED
      BY <2>3, <2>4, <3>1 DEF Trace, Traces
  <2>6. nios' \in 0 .. MaxIos /\ nios \in Nat
    BY <1>2, <2>1
  <2> QED
    BY <1>2, <2>1, <2>3, <2>4, <2>5, <2>6 DEF Kernel
<1> QED
  BY <1>1, <1>3, <1>4

LEMMA KernelTypesStep ==
    ASSUME KernelTypes, Next PROVE KernelTypes'
<1>1. CASE Kernel
  <2>1. PICK k \in Keys, u \in Traces :
           /\ pipe' = pipe \cup {u}
           /\ \/ nios' = nios + 1 /\ ios' = [ios EXCEPT ![k] = nios + 1]
              \/ nios' = nios /\ ios' = [ios EXCEPT ![k] = 0]
    BY <1>1, KernelFacts
  <2>2. /\ now' \in Nat /\ nios' \in 0 .. MaxIos /\ nios \in Nat
        /\ UNCHANGED <<thash, histVars>>
    BY <1>1, KernelFacts
  <2>3. ios' \in [Keys -> 0 .. nios']
    <3>1. 0 .. nios \subseteq 0 .. nios' /\ 0 \in 0 .. nios' /\ nios' \in 0 .. nios'
      BY <2>1, <2>2
    <3> QED
      BY <2>1, <3>1 DEF KernelTypes
  <2> QED
    BY <2>1, <2>2, <2>3 DEF KernelTypes, histVars
<1>2. ASSUME NEW t \in pipe, DoTrace(t) PROVE KernelTypes'
  <2>1. UNCHANGED <<now, nios, ios>>
    BY <1>2 DEF DoTrace, kernelVars
  <2>2. ordered' \subseteq Keys /\ pipe' \subseteq Traces
    <3>1. pipe' = pipe \ {t} /\ ordered' \subseteq ordered
      BY <1>2, TraceFacts
    <3> QED
      BY <3>1 DEF KernelTypes
  <2>3. thash' \subseteq Traces /\ pairs' \subseteq Traces \X Traces
    <3>1. t \in Traces
      BY <1>2, TraceFacts
    <3>2. \/ Kept(t)
          \/ \E s \in thash, old, young \in Traces :
                Paired(s, t, old, young) \/ Replaced(s, t, old, young)
      BY <1>2, TraceFacts
    <3>3. CASE Kept(t)
      BY <3>1, <3>3 DEF KernelTypes, Kept
    <3>4. ASSUME NEW s \in thash, NEW old \in Traces, NEW young \in Traces,
                 Paired(s, t, old, young) \/ Replaced(s, t, old, young)
          PROVE  thash' \subseteq Traces /\ pairs' \subseteq Traces \X Traces
      BY <3>1, <3>4 DEF KernelTypes, Paired, Replaced
    <3> QED
      BY <3>2, <3>3, <3>4
  <2> QED
    BY <2>1, <2>2, <2>3 DEF KernelTypes
<1>3. CASE GetDstat \/ AddSize \/ AddD2c \/ Flip \/ Grab \/ PrintDstat \/ ConvertDstat \/ GiveBack \/ Exit
  <2>1. UNCHANGED <<kernelVars, thash, pairs, ordered>> /\ pipe' = pipe
    BY <1>3 DEF GetDstat, AddSize, AddD2c, Flip, Grab, PrintDstat, ConvertDstat, GiveBack, Exit, histVars
  <2> QED
    BY <2>1 DEF KernelTypes, kernelVars
<1> QED
  BY <1>1, <1>2, <1>3 DEF Next

LEMMA HomeStep ==
    ASSUME DstatTypes, ThreadTypes, OneHome, Next PROVE DstatTypes' /\ OneHome'
<1>1. CASE Kernel \/ (\E t \in pipe : DoTrace(t)) \/ Flip \/ PrintDstat \/ Exit
  <2>1. UNCHANGED <<dstats, dstat_list, dstat_tree, vacant>>
    BY <1>1 DEF Kernel, DoTrace, Flip, PrintDstat, Exit, dstatVars
  <2>2. ivl'.head = ivl.head
    BY <1>1 DEF Kernel, DoTrace, Flip, PrintDstat, Exit, ThreadTypes
  <2>3. dstat_curr' \in 0 .. 1
    <3>1. dstat_curr' = dstat_curr \/ dstat_curr' = 1 - dstat_curr
      BY <1>1 DEF Kernel, DoTrace, Flip, PrintDstat, Exit, dstatVars
    <3> QED
      BY <3>1 DEF DstatTypes
  <2>4. OneHome'
    BY <2>1, <2>2, HomeFrame
  <2> QED
    BY <2>1, <2>3, <2>4 DEF DstatTypes
<1> QED
  BY <1>1, GetHome, GrabHome, GiveHome, ConvertHome, AddHome DEF Next

LEMMA ThreadTypesStep ==
    ASSUME KernelTypes, DstatTypes, ThreadTypes, OneHome, Next PROVE ThreadTypes'
<1> DEFINE IvlOk == /\ ivl' \in [pc : {"sleep", "grab", "print", "convert", "give"}, finished : 0 .. 1,
                                 head : Seq(Nat), at : Nat]
                    /\ ivl'.pc \in {"sleep", "grab"} => ivl'.head = <<>>
                    /\ ivl'.pc \in {"print", "convert"} => ivl'.at \in 1 .. Len(ivl'.head)
           MainOk == /\ main' \in [pc : {"read", "get", "sizes", "d2cs"}, io : Nat, d : Nat \cup Devs]
                     /\ main'.pc = "get" => main'.d \in Devs
                     /\ main'.pc \in {"sizes", "d2cs"} => main'.d \in DOMAIN dstats'
<1>1. ASSUME ivl' = ivl PROVE IvlOk
  BY <1>1 DEF ThreadTypes
<1>2. ASSUME main' = main, DOMAIN dstats' = DOMAIN dstats PROVE MainOk
  BY <1>2 DEF ThreadTypes
<1>3. IvlOk
  <2>1. CASE Flip
    <3>1. ivl.pc = "sleep" /\ ivl' = [ivl EXCEPT !.pc = "grab", !.finished = dstat_curr]
      BY <2>1 DEF Flip
    <3> QED
      BY <3>1 DEF ThreadTypes, DstatTypes
  <2>2. CASE Grab
    <3>1. PICK f \in 0 .. 1 : f = ivl.finished /\ dstat_list[f] \in Seq(Nat)
      BY DEF ThreadTypes, DstatTypes
    <3>2. CASE dstat_list[f] = <<>>
      <4>1. ivl.pc = "grab" /\ ivl' = [ivl EXCEPT !.pc = "sleep"]
        BY <2>2, <3>1, <3>2 DEF Grab
      <4> QED
        BY <4>1 DEF ThreadTypes
    <3>3. CASE dstat_list[f] # <<>>
      <4>1. ivl' = [ivl EXCEPT !.pc = "print", !.head = dstat_list[f], !.at = 1]
        BY <2>2, <3>1, <3>3 DEF Grab
      <4>2. 1 \in 1 .. Len(dstat_list[f])
        BY <3>1, <3>3, EmptySeq
      <4> QED
        BY <3>1, <4>1, <4>2 DEF ThreadTypes
    <3> QED
      BY <3>2, <3>3
  <2>3. CASE PrintDstat
    <3>1. ivl.pc = "print" /\ ivl' = [ivl EXCEPT !.pc = "convert"]
      BY <2>3 DEF PrintDstat
    <3> QED
      BY <3>1 DEF ThreadTypes
  <2>4. CASE ConvertDstat
    <3>1. /\ ivl.pc = "convert" /\ ivl.at \in 1 .. Len(ivl.head) /\ Len(ivl.head) \in Nat
          /\ ivl' = IF ivl.at = Len(ivl.head) THEN [ivl EXCEPT !.pc = "give"]
                    ELSE [ivl EXCEPT !.pc = "print", !.at = @ + 1]
      BY <2>4 DEF ConvertDstat, ThreadTypes
    <3>2. CASE ivl.at = Len(ivl.head)
      BY <3>1, <3>2 DEF ThreadTypes
    <3>3. CASE ivl.at # Len(ivl.head)
      <4>1. ivl.at + 1 \in 1 .. Len(ivl.head) /\ ivl.at + 1 \in Nat
        BY <3>1, <3>3
      <4> QED
        BY <3>1, <3>3, <4>1 DEF ThreadTypes
    <3> QED
      BY <3>2, <3>3
  <2>5. CASE GiveBack
    <3>1. ivl' = [ivl EXCEPT !.pc = "sleep", !.head = <<>>]
      BY <2>5 DEF GiveBack
    <3>2. PICK e \in Seq(Nat) : e = <<>>
      <4>1. <<>> \in Seq(Nat)
        OBVIOUS
      <4> QED
        BY <4>1, Zenon
    <3>3. ivl' = [ivl EXCEPT !.pc = "sleep", !.head = e]
      BY <3>1, <3>2
    <3> QED
      BY <3>2, <3>3 DEF ThreadTypes
  <2>6. CASE Kernel \/ (\E t \in pipe : DoTrace(t)) \/ GetDstat \/ AddSize \/ AddD2c \/ Exit
    <3>1. ivl' = ivl
      BY <2>6 DEF Kernel, DoTrace, GetDstat, AddSize, AddD2c, Exit
    <3> QED
      BY <1>1, <3>1
  <2> HIDE DEF IvlOk
  <2> QED
    BY <2>1, <2>2, <2>3, <2>4, <2>5, <2>6 DEF Next
<1>4. MainOk
  <2>1. ASSUME NEW t \in pipe, DoTrace(t) PROVE MainOk
    <3>1. dstats' = dstats
      BY <2>1 DEF DoTrace, dstatVars
    <3>2. \/ Kept(t)
          \/ \E s \in thash, old, young \in Traces :
                Paired(s, t, old, young) \/ Replaced(s, t, old, young)
      BY <2>1, TraceFacts
    <3>3. CASE Kept(t)
      BY <1>2, <3>1, <3>3 DEF Kept
    <3>4. ASSUME NEW s \in thash, NEW old \in Traces, NEW young \in Traces, Replaced(s, t, old, young)
          PROVE  MainOk
      BY <1>2, <3>1, <3>4 DEF Replaced
    <3>5. ASSUME NEW s \in thash, NEW old \in Traces, NEW young \in Traces, Paired(s, t, old, young)
          PROVE  MainOk
      <4>1. old.io \in Nat /\ Dev(old.key) \in Devs
        BY DEF Traces
      <4>2. main' = [main EXCEPT !.pc = "get", !.io = old.io, !.d = Dev(old.key)]
        BY <3>5 DEF Paired
      <4> QED
        BY <4>1, <4>2 DEF ThreadTypes
    <3> HIDE DEF MainOk
    <3> QED
      BY <3>2, <3>3, <3>4, <3>5
  <2>2. CASE GetDstat
    <3>1. CASE Found # {}
      <4>1. PICK d : d = CHOOSE i \in Found : TRUE
        OBVIOUS
      <4>2. d \in DOMAIN dstats /\ d \in Nat
        <5>1. d \in Found
          BY <3>1, <4>1
        <5> QED
          BY <5>1, HomeFacts DEF Found, DstatTypes
      <4>3. main' = [main EXCEPT !.pc = "sizes", !.d = d] /\ dstats' = dstats
        BY <2>2, <3>1, <4>1 DEF GetDstat, dstatVars
      <4> QED
        BY <4>2, <4>3 DEF ThreadTypes
    <3>2. CASE Found = {}
      <4>1. PICK i : i = NextDstat
        OBVIOUS
      <4>2. /\ i \in Nat /\ DOMAIN dstats' = DOMAIN dstats \cup {i}
            /\ main' = [main EXCEPT !.pc = "sizes", !.d = i]
        BY <2>2, <3>2, <4>1, GetFacts
      <4>3. i \in DOMAIN dstats'
        BY <4>2
      <4> QED
        BY <4>2, <4>3 DEF ThreadTypes
    <3> QED
      BY <3>1, <3>2
  <2>3. CASE AddSize
    <3>1. DOMAIN dstats' = DOMAIN dstats /\ main.d \in DOMAIN dstats
      BY <2>3, AddHome
    <3>2. main' = [main EXCEPT !.pc = "d2cs"]
      BY <2>3 DEF AddSize
    <3> QED
      BY <3>1, <3>2 DEF ThreadTypes
  <2>4. CASE AddD2c
    <3>1. main' = [pc |-> "read", io |-> 0, d |-> 0]
      BY <2>4 DEF AddD2c
    <3> QED
      BY <3>1
  <2>5. CASE ConvertDstat
    <3>1. DOMAIN dstats' = DOMAIN dstats /\ main' = main
      BY <2>5, ConvertHome DEF ConvertDstat
    <3> QED
      BY <1>2, <3>1
  <2>6. CASE Kernel \/ Flip \/ Grab \/ PrintDstat \/ GiveBack \/ Exit
    <3>1. main' = main /\ dstats' = dstats
      BY <2>6 DEF Kernel, Flip, Grab, PrintDstat, GiveBack, Exit, dstatVars
    <3> QED
      BY <1>2, <3>1
  <2> HIDE DEF MainOk
  <2> QED
    BY <2>1, <2>2, <2>3, <2>4, <2>5, <2>6 DEF Next
<1> QED
  BY <1>3, <1>4 DEF ThreadTypes

-----------------------------------------------------------------------------
(* Matching. *)

LEMMA TurnIssue ==
    ASSUME NEW p \in SUBSET Traces, NEW h \in SUBSET Traces, Turn(p, h, 0),
           NEW u \in Traces, u.act = "D",
           \A t \in p \cup h : t.time < u.time /\ t.io < u.io
    PROVE  Turn(p \cup {u}, h, u.io)
<1> DEFINE q == p \cup {u}
<1>1. \A t \in q \cup h : t \in p \cup h \/ t = u
  OBVIOUS
<1>2. \A t \in p \cup h : t \in q \cup h
  OBVIOUS
<1>3. u \in q
  OBVIOUS
<1>4. \A t \in p \cup h \cup {u} : t.time \in Nat /\ t.io \in Nat \ {0} /\ t.act \in {"D", "C"}
  BY DEF Traces
<1>5. \A t \in h : t \notin q
  <2>1. u \notin p \cup h
    BY <1>4
  <2> QED
    BY <2>1 DEF Turn
<1>6. \A s \in h, t \in q : s.time <= t.time
  <2>1. \A s \in h : s.time < u.time
    OBVIOUS
  <2>2. \A s \in h, t \in p : s.time <= t.time
    BY DEF Turn
  <2> QED
    BY <1>4, <2>1, <2>2
<1> HIDE DEF q
<1>7. ASSUME NEW s \in q \cup h, NEW t \in q \cup h
      PROVE  /\ s.io < t.io => s.time < t.time
             /\ s.io = t.io /\ s.act = t.act => s = t
             /\ s.io = t.io /\ s.act = "D" /\ t.act = "C" => s.time < t.time
  <2>1. CASE s = u \/ t = u
    BY <1>1, <1>4, <2>1
  <2>2. CASE s # u /\ t # u
    <3>1. s \in p \cup h /\ t \in p \cup h
      BY <1>1, <2>2
    <3> QED
      BY <3>1 DEF Turn
  <2> QED
    BY <2>1, <2>2
<1>8. ASSUME NEW t \in q \cup h
      PROVE  /\ t.act = "C" => \E s \in q \cup h : s.act = "D" /\ s.io = t.io
             /\ t.act = "D" /\ t.io # u.io => \E s \in q \cup h : s.act = "C" /\ s.io = t.io
  <2>1. CASE t = u
    BY <2>1
  <2>2. CASE t \in p \cup h
    <3>1. /\ t.act = "C" => \E s \in p \cup h : s.act = "D" /\ s.io = t.io
          /\ t.act = "D" /\ t.io # 0 => \E s \in p \cup h : s.act = "C" /\ s.io = t.io
      BY <2>2 DEF Turn
    <3>2. t.io # 0
      BY <1>4, <2>2
    <3> QED
      BY <1>2, <3>1, <3>2
  <2> QED
    BY <1>1, <1>4, <2>1, <2>2
<1>9. /\ \E t \in q \cup h : t.act = "D" /\ t.io = u.io
      /\ \A t \in q \cup h : t.io <= u.io /\ (t.io = u.io => t.act = "D")
  BY <1>1, <1>3, <1>4
<1>10. q \cap h = {}
  BY <1>5
<1>11. Turn(q, h, u.io)
  BY <1>6, <1>7, <1>8, <1>9, <1>10 DEF Turn
<1> QED
  BY <1>11 DEF q

LEMMA TurnComplete ==
    ASSUME NEW p \in SUBSET Traces, NEW h \in SUBSET Traces, NEW i, Turn(p, h, i), i # 0,
           NEW u \in Traces, u.act = "C", u.io = i,
           \A t \in p \cup h : t.time < u.time
    PROVE  Turn(p \cup {u}, h, 0)
<1> DEFINE q == p \cup {u}
<1>1. \A t \in q \cup h : t \in p \cup h \/ t = u
  OBVIOUS
<1>2. \A t \in p \cup h : t \in q \cup h
  OBVIOUS
<1>3. u \in q
  OBVIOUS
<1>4. \A t \in p \cup h \cup {u} : t.time \in Nat /\ t.io \in Nat /\ t.act \in {"D", "C"}
  BY DEF Traces
<1>5. \A t \in h : t \notin q
  <2>1. u \notin p \cup h
    BY <1>4
  <2> QED
    BY <2>1 DEF Turn
<1>6. \A s \in h, t \in q : s.time <= t.time
  <2>1. \A s \in h : s.time < u.time
    OBVIOUS
  <2>2. \A s \in h, t \in p : s.time <= t.time
    BY DEF Turn
  <2> QED
    BY <1>4, <2>1, <2>2
<1>7. \A t \in p \cup h : t.io <= i /\ (t.io = i => t.act = "D")
  BY DEF Turn
<1> HIDE DEF q
<1>8. ASSUME NEW s \in q \cup h, NEW t \in q \cup h
      PROVE  /\ s.io < t.io => s.time < t.time
             /\ s.io = t.io /\ s.act = t.act => s = t
             /\ s.io = t.io /\ s.act = "D" /\ t.act = "C" => s.time < t.time
  <2>1. CASE s = u
    <3>1. ~(s.io < t.io)
      BY <1>1, <1>4, <1>7, <2>1
    <3>2. s.io = t.io /\ s.act = t.act => s = t
      BY <1>1, <1>7, <2>1
    <3> QED
      BY <2>1, <3>1, <3>2
  <2>2. CASE s # u /\ t = u
    <3>1. s \in p \cup h
      BY <1>1, <2>2
    <3> QED
      BY <1>7, <2>2, <3>1
  <2>3. CASE s # u /\ t # u
    <3>1. s \in p \cup h /\ t \in p \cup h
      BY <1>1, <2>3
    <3> QED
      BY <3>1 DEF Turn
  <2> QED
    BY <2>1, <2>2, <2>3
<1>9. ASSUME NEW t \in q \cup h
      PROVE  /\ t.act = "C" => \E s \in q \cup h : s.act = "D" /\ s.io = t.io
             /\ t.act = "D" /\ t.io # 0 => \E s \in q \cup h : s.act = "C" /\ s.io = t.io
  <2>1. CASE t = u
    <3>1. \E s \in p \cup h : s.act = "D" /\ s.io = i
      BY DEF Turn
    <3> QED
      BY <1>2, <2>1, <3>1
  <2>2. CASE t \in p \cup h /\ t.io = i
    BY <1>2, <1>3, <1>7, <2>2
  <2>3. CASE t \in p \cup h /\ t.io # i
    BY <1>2, <2>3 DEF Turn
  <2> QED
    BY <1>1, <2>1, <2>2, <2>3
<1>10. q \cap h = {}
  BY <1>5
<1>11. Turn(q, h, 0)
  BY <1>6, <1>8, <1>9, <1>10 DEF Turn
<1> QED
  BY <1>11 DEF q

\* The oldest trace in the pipe is read: nothing of its key was stored, or its issue was.
LEMMA TurnStore ==
    ASSUME NEW p \in SUBSET Traces, NEW i, Turn(p, {}, i),
           NEW t \in p, \A r \in p : r.time >= t.time
    PROVE  Turn(p \ {t}, {t}, i)
<1>1. p \cup {} = p /\ (p \ {t}) \cup {t} = p
  OBVIOUS
<1>2. (p \ {t}) \cap {t} = {}
  OBVIOUS
<1>3. \A s \in {t}, r \in p \ {t} : s.time <= r.time
  <2>1. \A r \in p : r.time \in Nat
    BY DEF Traces
  <2> QED
    BY <2>1
<1> QED
  BY <1>1, <1>2, <1>3 DEF Turn

LEMMA TurnPair ==
    ASSUME NEW p \in SUBSET Traces, NEW s \in Traces, NEW i, Turn(p, {s}, i),
           NEW t \in p, \A r \in p : r.time >= t.time
    PROVE  /\ s.act = "D" /\ t.act = "C" /\ s.io = t.io /\ s.time < t.time
           /\ Turn(p \ {t}, {}, i)
<1> DEFINE u == p \cup {s}
<1>1. \A r \in u : r.time \in Nat /\ r.io \in Nat \ {0} /\ r.act \in {"D", "C"}
  BY DEF Traces
<1>2. s \notin p /\ s \in u /\ t \in u /\ s.time <= t.time /\ \A r \in u : r = s \/ r \in p
  BY DEF Turn
<1>3. /\ i # 0 => \A r \in u : r.io <= i /\ (r.io = i => r.act = "D")
      /\ \A a, b \in u : /\ a.io < b.io => a.time < b.time
                         /\ a.io = b.io /\ a.act = b.act => a = b
                         /\ a.io = b.io /\ a.act = "D" /\ b.act = "C" => a.time < b.time
      /\ \A a \in u : /\ a.act = "C" => \E b \in u : b.act = "D" /\ b.io = a.io
                      /\ a.act = "D" /\ a.io # i => \E b \in u : b.act = "C" /\ b.io = a.io
  BY DEF Turn
<1>4. i # 0 => \E r \in u : r.act = "D" /\ r.io = i
  BY DEF Turn
<1> HIDE DEF u
<1>5. ~(t.io < s.io)
  BY <1>1, <1>2, <1>3
<1>6. s.act = "D"
  <2>1. SUFFICES ASSUME s.act = "C" PROVE FALSE
    BY <1>1, <1>2
  <2>2. PICK b \in u : b.act = "D" /\ b.io = s.io
    BY <1>2, <1>3, <2>1
  <2>3. b \in p
    BY <1>2, <2>1, <2>2
  <2>4. b.time < s.time /\ b.time >= t.time
    BY <1>2, <1>3, <2>1, <2>2, <2>3
  <2> QED
    BY <1>1, <1>2, <2>2, <2>4
<1>7. t.io = s.io
  <2>1. SUFFICES ASSUME s.io < t.io PROVE FALSE
    BY <1>1, <1>2, <1>5
  <2>2. CASE i # 0 /\ s.io = i
    BY <1>1, <1>2, <1>3, <2>1, <2>2
  <2>3. CASE s.io # i
    <3>1. PICK b \in u : b.act = "C" /\ b.io = s.io
      BY <1>2, <1>3, <1>6, <2>3
    <3>2. b \in p
      BY <1>2, <1>6, <3>1
    <3>3. b.time < t.time
      BY <1>2, <1>3, <2>1, <3>1
    <3> QED
      BY <1>1, <1>2, <3>1, <3>2, <3>3
  <2> QED
    BY <1>1, <1>2, <2>2, <2>3
<1>8. t.act = "C" /\ s.time < t.time
  BY <1>1, <1>2, <1>3, <1>6, <1>7
<1>9. \A r \in p \ {t} : r \in u /\ r.io # s.io
  <2>1. ASSUME NEW r \in p, r # t, r.io = s.io PROVE FALSE
    <3>1. r \in u /\ r # s
      BY <1>2 DEF u
    <3>2. r.act # "D" /\ r.act # "C"
      BY <1>2, <1>3, <1>6, <1>7, <1>8, <2>1, <3>1
    <3> QED
      BY <1>1, <3>1, <3>2
  <2> QED
    BY <2>1 DEF u
<1>10. \A r \in u : r.io # s.io => r \in p \ {t}
  BY <1>2, <1>7
<1>11. i # 0 => s.io # i
  BY <1>2, <1>3, <1>7, <1>8
<1>12. Turn(p \ {t}, {}, i)
  <2> DEFINE q == p \ {t}
  <2>1. q \cup {} = q /\ q \cap {} = {}
    OBVIOUS
  <2>2. i # 0 => /\ \E r \in q : r.act = "D" /\ r.io = i
                 /\ \A r \in q : r.io <= i /\ (r.io = i => r.act = "D")
    BY <1>3, <1>4, <1>9, <1>10, <1>11
  <2>3. \A a, b \in q : /\ a.io < b.io => a.time < b.time
                        /\ a.io = b.io /\ a.act = b.act => a = b
                        /\ a.io = b.io /\ a.act = "D" /\ b.act = "C" => a.time < b.time
    BY <1>3, <1>9
  <2>4. \A a \in q : /\ a.act = "C" => \E b \in q : b.act = "D" /\ b.io = a.io
                     /\ a.act = "D" /\ a.io # i => \E b \in q : b.act = "C" /\ b.io = a.io
    BY <1>3, <1>9, <1>10
  <2> HIDE DEF q
  <2>5. Turn(q, {}, i)
    BY <2>1, <2>2, <2>3, <2>4 DEF Turn
  <2> QED
    BY <2>5 DEF q
<1> QED
  BY <1>6, <1>7, <1>8, <1>12

LEMMA TurnKernelStep ==
    ASSUME KernelTypes, InTurns, IssuesOnce, Kernel PROVE InTurns'
<1>1. PICK k \in Keys, u \in Traces :
         /\ u.key = k /\ u.time = now' /\ pipe' = pipe \cup {u}
         /\ \/ /\ u.act = "D" /\ u.io = nios + 1
               /\ ios[k] = 0 /\ ios' = [ios EXCEPT ![k] = nios + 1]
            \/ /\ u.act = "C" /\ u.io = ios[k] /\ ios[k] # 0
               /\ ios' = [ios EXCEPT ![k] = 0]
  BY KernelFacts
<1>2. /\ now' \in Nat /\ now' > now /\ nios \in Nat /\ now \in Nat
      /\ UNCHANGED <<thash, ordered>>
  BY KernelFacts DEF histVars
<1>3. ASSUME NEW j \in ordered PROVE InTurn(j)'
  <2>1. PICK p, h : p = OfKey(pipe, j) /\ h = OfKey(thash, j)
    OBVIOUS
  <2>2. p \in SUBSET Traces /\ h \in SUBSET Traces /\ Turn(p, h, ios[j])
    BY <2>1 DEF OfKey, KernelTypes, InTurns, InTurn
  <2>3. OfKey(thash', j) = h
    BY <1>2, <2>1
  <2>4. CASE j # k
    <3>1. OfKey(pipe', j) = p /\ ios'[j] = ios[j]
      <4>1. OfKey(pipe', j) = p
        BY <1>1, <2>1, <2>4 DEF OfKey
      <4>2. j \in Keys
        BY DEF KernelTypes
      <4> QED
        BY <1>1, <2>4, <4>1, <4>2 DEF KernelTypes
    <3> QED
      BY <2>2, <2>3, <3>1 DEF InTurn
  <2>5. CASE j = k
    <3>1. OfKey(pipe', j) = p \cup {u}
      BY <1>1, <2>1, <2>5 DEF OfKey
    <3>2. \A t \in p \cup h : t.time <= now /\ t.io <= nios
      BY <2>1 DEF IssuesOnce, OfKey
    <3>3. \A t \in p \cup h : t.time < u.time /\ t.io < nios + 1
      <4>1. \A t \in p \cup h : t.time \in Nat /\ t.io \in Nat
        BY <2>2 DEF Traces
      <4> QED
        BY <1>1, <1>2, <3>2, <4>1
    <3>4. CASE u.act = "D"
      <4>1. u.io = nios + 1 /\ ios[j] = 0 /\ ios'[j] = u.io
        BY <1>1, <2>5, <3>4 DEF KernelTypes
      <4>2. Turn(p, h, 0)
        BY <2>2, <4>1
      <4>3. Turn(p \cup {u}, h, u.io)
        BY <2>2, <3>3, <3>4, <4>1, <4>2, TurnIssue
      <4> QED
        BY <2>3, <3>1, <4>1, <4>3 DEF InTurn
    <3>5. CASE u.act = "C"
      <4>1. PICK i : i = ios[j]
        OBVIOUS
      <4>2. u.io = i /\ i # 0 /\ ios'[j] = 0
        BY <1>1, <2>5, <3>5, <4>1 DEF KernelTypes
      <4>3. Turn(p \cup {u}, h, 0)
        BY <2>2, <3>3, <3>5, <4>1, <4>2, TurnComplete
      <4> QED
        BY <2>3, <3>1, <4>2, <4>3 DEF InTurn
    <3> QED
      BY <1>1, <3>4, <3>5
  <2> QED
    BY <2>4, <2>5
<1> QED
  BY <1>2, <1>3 DEF InTurns

\* The trace that is read is the oldest of its key's in the pipe.
LEMMA TurnReadStep ==
    ASSUME KernelTypes, InTurns, PairsMatch, NEW t \in pipe, DoTrace(t), t.key \in ordered'
    PROVE  /\ InTurn(t.key)'
           /\ \A s \in thash, old, young \in Traces :
                 /\ Paired(s, t, old, young) => old.io = young.io
                 /\ ~Replaced(s, t, old, young)
<1> DEFINE k == t.key
<1>1. PICK p, h, i : p = OfKey(pipe, k) /\ h = OfKey(thash, k) /\ i = ios[k]
  OBVIOUS
<1>2. t \in Traces /\ pipe' = pipe \ {t} /\ k \in ordered /\ InOrder(t)
  BY TraceFacts
<1>3. p \in SUBSET Traces /\ h \in SUBSET Traces /\ Turn(p, h, i) /\ t \in p
  BY <1>1, <1>2 DEF OfKey, KernelTypes, InTurns, InTurn
<1>4. \A r \in p : r.time >= t.time
  BY <1>1, <1>2 DEF InOrder, OfKey
<1>5. OfKey(pipe', k) = p \ {t}
  BY <1>1, <1>2 DEF OfKey
<1>6. ios' = ios
  BY DEF DoTrace, kernelVars
<1>7. CASE Kept(t)
  <2>1. h = {} /\ thash' = thash \cup {t} /\ \A s \in thash : s.key # k
    BY <1>1, <1>7 DEF Kept, OfKey
  <2>2. OfKey(thash', k) = {t}
    BY <1>1, <2>1 DEF OfKey
  <2>3. Turn(p \ {t}, {t}, i)
    BY <1>3, <1>4, <2>1, TurnStore
  <2>4. InTurn(k)'
    BY <1>1, <1>5, <1>6, <2>2, <2>3 DEF InTurn
  <2> QED
    BY <2>1, <2>4 DEF Paired, Replaced
<1>8. ASSUME NEW s \in thash, s.key = k
      PROVE  /\ s.act = "D" /\ t.act = "C" /\ s.io = t.io /\ s.time < t.time
             /\ h = {s} /\ Turn(p \ {t}, {}, i) /\ s \in Traces
  <2>1. h = {s}
    <3>1. \A r \in thash : r.key = k => r = s
      BY <1>8 DEF PairsMatch
    <3> QED
      BY <1>1, <1>8, <3>1 DEF OfKey
  <2>2. s \in Traces /\ Turn(p, {s}, i)
    BY <1>3, <2>1
  <2>3. /\ s.act = "D" /\ t.act = "C" /\ s.io = t.io /\ s.time < t.time
        /\ Turn(p \ {t}, {}, i)
    BY <1>3, <1>4, <2>2, TurnPair
  <2> QED
    BY <2>1, <2>2, <2>3
<1>9. ASSUME NEW s \in thash, NEW old \in Traces, NEW young \in Traces,
             Paired(s, t, old, young) \/ Replaced(s, t, old, young)
      PROVE  Paired(s, t, old, young) /\ ~Replaced(s, t, old, young) /\ old = s /\ young = t
  <2>1. s.key = k /\ Aged(s, t, old, young)
    BY <1>9 DEF Paired, Replaced
  <2>2. s.act = "D" /\ t.act = "C" /\ s.io = t.io /\ s.time < t.time
    BY <1>8, <2>1
  <2>3. old = s /\ young = t
    BY <2>1, <2>2 DEF Aged
  <2> QED
    BY <1>9, <2>2, <2>3 DEF Replaced
<1>10. ASSUME NEW s \in thash, NEW old \in Traces, NEW young \in Traces, Paired(s, t, old, young)
       PROVE  InTurn(k)' /\ old.io = young.io
  <2>1. old = s /\ young = t /\ s.key = k
    BY <1>9, <1>10 DEF Paired
  <2>2. s.io = t.io /\ h = {s} /\ Turn(p \ {t}, {}, i)
    BY <1>8, <2>1
  <2>3. thash' = thash \ {s}
    BY <1>10 DEF Paired
  <2>4. OfKey(thash', k) = {}
    BY <1>1, <2>1, <2>2, <2>3 DEF OfKey
  <2>5. InTurn(k)'
    BY <1>1, <1>5, <1>6, <2>2, <2>4 DEF InTurn
  <2> QED
    BY <2>1, <2>2, <2>5
<1>11. \/ Kept(t)
       \/ \E s \in thash, old, young \in Traces : Paired(s, t, old, young) \/ Replaced(s, t, old, young)
  BY TraceFacts
<1> QED
  BY <1>7, <1>9, <1>10, <1>11

LEMMA TurnOthersStep ==
    ASSUME KernelTypes, InTurns, NEW t \in pipe, DoTrace(t), NEW k \in ordered', k # t.key
    PROVE  InTurn(k)'
<1>1. pipe' = pipe \ {t} /\ k \in ordered
  BY TraceFacts
<1>2. OfKey(pipe', k) = OfKey(pipe, k)
  BY <1>1 DEF OfKey
<1>3. OfKey(thash', k) = OfKey(thash, k)
  <2>1. CASE Kept(t)
    <3>1. thash' = thash \cup {t}
      BY <2>1 DEF Kept
    <3> QED
      BY <3>1 DEF OfKey
  <2>2. ASSUME NEW s \in thash, NEW old \in Traces, NEW young \in Traces,
               Paired(s, t, old, young) \/ Replaced(s, t, old, young)
        PROVE  OfKey(thash', k) = OfKey(thash, k)
    <3>1. s.key # k /\ young.key # k
      BY <2>2 DEF Paired, Replaced, Aged
    <3>2. thash' = thash \ {s} \/ thash' = (thash \ {s}) \cup {young}
      BY <2>2 DEF Paired, Replaced
    <3> QED
      BY <3>1, <3>2 DEF OfKey
  <2> QED
    BY <2>1, <2>2, TraceFacts
<1>4. ios' = ios
  BY DEF DoTrace, kernelVars
<1> QED
  BY <1>1, <1>2, <1>3, <1>4 DEF InTurns, InTurn

LEMMA PairsStep ==
    ASSUME KernelTypes, InTurns, IssuesOnce, PairsMatch, Next
    PROVE  PairsMatch' /\ InTurns'
<1>1. CASE Kernel
  <2>1. UNCHANGED <<thash, pairs, ordered>>
    BY <1>1 DEF Kernel, histVars
  <2> QED
    BY <1>1, <2>1, TurnKernelStep DEF PairsMatch
<1>2. ASSUME NEW t \in pipe, DoTrace(t) PROVE PairsMatch' /\ InTurns'
  <2>1. t \in Traces /\ ordered' \subseteq ordered
    BY <1>2, TraceFacts
  <2>2. InTurns'
    <3>1. ASSUME NEW k \in ordered' PROVE InTurn(k)'
      <4>1. CASE k = t.key
        <5>1. InTurn(t.key)'
          BY <1>2, <4>1, TurnReadStep
        <5> QED
          BY <4>1, <5>1 DEF InTurn
      <4>2. CASE k # t.key
        BY <1>2, <4>2, TurnOthersStep
      <4> QED
        BY <4>1, <4>2
    <3> QED
      BY <3>1 DEF InTurns
  <2>3. CASE Kept(t)
    <3>1. \A a, b \in thash' : a.key = b.key => a = b
      BY <2>3 DEF Kept, PairsMatch
    <3>2. pairs' = pairs
      BY <2>3 DEF Kept
    <3> QED
      BY <2>1, <2>2, <3>1, <3>2 DEF PairsMatch
  <2>4. ASSUME NEW s \in thash, NEW old \in Traces, NEW young \in Traces, Replaced(s, t, old, young)
        PROVE  PairsMatch'
    <3>1. young.key = s.key /\ thash' = (thash \ {s}) \cup {young} /\ pairs' = pairs
      BY <2>4 DEF Replaced, Aged
    <3>2. \A a, b \in thash' : a.key = b.key => a = b
      BY <3>1 DEF PairsMatch
    <3> QED
      BY <2>1, <3>1, <3>2 DEF PairsMatch
  <2>5. ASSUME NEW s \in thash, NEW old \in Traces, NEW young \in Traces, Paired(s, t, old, young)
        PROVE  PairsMatch'
    <3>1. /\ old.act = "D" /\ young.act = "C" /\ old.key = young.key /\ old.key = t.key
          /\ thash' = thash \ {s} /\ pairs' = pairs \cup {<<old, young>>}
      BY <2>5 DEF Paired, Aged
    <3>2. old.time <= young.time
      <4>1. s.time \in Nat /\ t.time \in Nat
        BY <2>1 DEF KernelTypes, Traces
      <4> QED
        BY <2>5, <4>1 DEF Paired, Aged
    <3>3. old.key \in ordered' => old.io = young.io
      BY <1>2, <2>5, <3>1, TurnReadStep
    <3>4. \A a, b \in thash' : a.key = b.key => a = b
      BY <3>1 DEF PairsMatch
    <3>5. PICK q : q = <<old, young>>
      OBVIOUS
    <3>6. q[1] = old /\ q[2] = young
      BY <3>5
    <3>7. \A x \in pairs' : x \in pairs \/ x = q
      BY <3>1, <3>5
    <3> QED
      BY <2>1, <3>1, <3>2, <3>3, <3>4, <3>6, <3>7 DEF PairsMatch
  <2> QED
    BY <1>2, <2>2, <2>3, <2>4, <2>5, TraceFacts
<1>3. CASE GetDstat \/ AddSize \/ AddD2c \/ Flip \/ Grab \/ PrintDstat \/ ConvertDstat \/ GiveBack \/ Exit
  <2>1. UNCHANGED <<ios, pipe, thash, pairs, ordered>>
    BY <1>3 DEF GetDstat, AddSize, AddD2c, Flip, Grab, PrintDstat, ConvertDstat, GiveBack, Exit,
                kernelVars, histVars
  <2> QED
    BY <2>1 DEF PairsMatch, InTurns, InTurn
<1> QED
  BY <1>1, <1>2, <1>3 DEF Next

-----------------------------------------------------------------------------
(* What was added to the statistics, and what was printed of them. *)

\* Steps in which nothing is used but what the main thread adds.
LEMMA IssuesFrame ==
    ASSUME KernelTypes, ThreadTypes, IssuesOnce, UNCHANGED <<now, nios, pipe, thash>>,
           main'.io \in {main.io, 0},
           main'.pc # "read" => main.pc # "read" /\ main'.io = main.io,
           main'.pc \in {"get", "sizes"} => main.pc \in {"get", "sizes"},
           \A io : SizeUsed(io)' => SizeUsed(io) \/ (io = main.io /\ main.pc # "read" /\ main'.pc \notin {"get", "sizes"}),
           \A io : D2cUsed(io)' => D2cUsed(io) \/ (io = main.io /\ main.pc # "read" /\ main'.pc = "read")
    PROVE  IssuesOnce'
<1>1. main.io \in Nat /\ nios \in Nat /\ main.io <= nios
  BY DEF KernelTypes, ThreadTypes, IssuesOnce
<1>2. \A t \in pipe \cup thash : t.act = "D" =>
         /\ ~SizeUsed(t.io) /\ ~D2cUsed(t.io) /\ (main.pc # "read" => main.io # t.io)
  BY DEF IssuesOnce
<1>3. ASSUME NEW t \in pipe' \cup thash', t.act = "D"
      PROVE  /\ ~SizeUsed(t.io)' /\ ~D2cUsed(t.io)'
             /\ main'.pc # "read" => main'.io # t.io
  <2>1. t \in pipe \cup thash
    OBVIOUS
  <2>2. PICK io : io = t.io
    OBVIOUS
  <2>3. ~SizeUsed(io) /\ ~D2cUsed(io) /\ (main.pc # "read" => main.io # io)
    BY <1>2, <1>3, <2>1, <2>2
  <2>4. ~SizeUsed(io)' /\ ~D2cUsed(io)' /\ (main'.pc # "read" => main'.io # io)
    BY <2>3
  <2> QED
    BY <2>2, <2>4
<1>4. (main.pc \in {"get", "sizes"} => ~SizeUsed(main.io))'
  <2>1. SUFFICES ASSUME main'.pc \in {"get", "sizes"} PROVE ~SizeUsed(main.io)'
    OBVIOUS
  <2>2. PICK io : io = main.io
    OBVIOUS
  <2>3. main'.io = io /\ ~SizeUsed(io)
    BY <2>1, <2>2 DEF IssuesOnce
  <2>4. ~SizeUsed(io)'
    BY <2>1, <2>2, <2>3
  <2> QED
    BY <2>3, <2>4 DEF SizeUsed
<1>5. (main.pc # "read" => ~D2cUsed(main.io))'
  <2>1. SUFFICES ASSUME main'.pc # "read" PROVE ~D2cUsed(main.io)'
    OBVIOUS
  <2>2. PICK io : io = main.io
    OBVIOUS
  <2>3. main'.io = io /\ ~D2cUsed(io)
    BY <2>1, <2>2 DEF IssuesOnce
  <2>4. ~D2cUsed(io)'
    BY <2>1, <2>2, <2>3
  <2> QED
    BY <2>3, <2>4 DEF D2cUsed
<1>6. \A io \in Nat : SizeUsed(io)' \/ D2cUsed(io)' => io <= nios
  BY <1>1 DEF IssuesOnce
<1>7. main'.io <= nios
  BY <1>1
<1> QED
  BY <1>3, <1>4, <1>5, <1>6, <1>7 DEF IssuesOnce

LEMMA PrintFacts ==
    ASSUME PrintDstat, NEW io
    PROVE  /\ <<"size", io>> \in printed' <=> <<"size", io>> \in printed \/ io \in dstats[At].sizes
           /\ <<"d2c", io>> \in printed' <=> <<"d2c", io>> \in printed \/ io \in dstats[At].d2cs
<1>1. PICK z, d : z = dstats[At].sizes /\ d = dstats[At].d2cs
  OBVIOUS
<1>2. printed' = printed \cup ({"size"} \X z) \cup ({"d2c"} \X d)
  BY <1>1 DEF PrintDstat
<1>3. /\ <<"size", io>> \in {"size"} \X z <=> io \in z
      /\ <<"d2c", io>> \in {"d2c"} \X d <=> io \in d
      /\ <<"size", io>> \notin {"d2c"} \X d
      /\ <<"d2c", io>> \notin {"size"} \X z
  OBVIOUS
<1> QED
  BY <1>1, <1>2, <1>3

\* What the statistics hold is what they held, but for those made anew.
LEMMA GetUses ==
    ASSUME DstatTypes, ThreadTypes, OneHome, GetDstat
    PROVE  /\ \A i \in DOMAIN dstats' :
                 \/ i \in DOMAIN dstats /\ dstats'[i] = dstats[i]
                 \/ dstats'[i].sizes = {} /\ dstats'[i].d2cs = {} /\ (i \in DOMAIN dstats => i \in ToSet(vacant))
           /\ \A i \in DOMAIN dstats \ ToSet(vacant) : i \in DOMAIN dstats' /\ dstats'[i] = dstats[i]
           /\ main'.pc = "sizes" /\ main'.io = main.io /\ main'.d \in dstat_tree'[dstat_curr']
           /\ main.pc = "get" /\ \A c \in 0 .. 1 : dstat_tree[c] \subseteq dstat_tree'[c]
           /\ \A c \in 0 .. 1 : \A i \in dstat_tree'[c] :
                 i \in dstat_tree[c] \/ (dstats'[i].sizes = {} /\ dstats'[i].d2cs = {})
<1>1. main.pc = "get" /\ dstat_curr \in 0 .. 1 /\ dstat_tree \in [0 .. 1 -> SUBSET Nat]
  BY DEF GetDstat, DstatTypes
<1>2. CASE Found # {}
  <2>1. PICK d : d = CHOOSE i \in Found : TRUE
    OBVIOUS
  <2>2. d \in dstat_tree[dstat_curr]
    <3>1. d \in Found
      BY <1>2, <2>1
    <3> QED
      BY <3>1 DEF Found
  <2>3. main' = [main EXCEPT !.pc = "sizes", !.d = d]
    BY <1>2, <2>1 DEF GetDstat
  <2>4. UNCHANGED <<dstats, dstat_tree, dstat_curr>>
    BY <1>2 DEF GetDstat, dstatVars
  <2>5. main'.pc = "sizes" /\ main'.io = main.io /\ main'.d = d
    BY <2>3 DEF ThreadTypes
  <2>6. main'.d \in dstat_tree'[dstat_curr']
    BY <2>2, <2>4, <2>5
  <2>7. /\ \A i \in DOMAIN dstats' :
              \/ i \in DOMAIN dstats /\ dstats'[i] = dstats[i]
              \/ dstats'[i].sizes = {} /\ dstats'[i].d2cs = {} /\ (i \in DOMAIN dstats => i \in ToSet(vacant))
        /\ \A i \in DOMAIN dstats \ ToSet(vacant) : i \in DOMAIN dstats' /\ dstats'[i] = dstats[i]
    BY <2>4
  <2>8. /\ \A c \in 0 .. 1 : dstat_tree[c] \subseteq dstat_tree'[c]
        /\ \A c \in 0 .. 1 : \A i \in dstat_tree'[c] :
              i \in dstat_tree[c] \/ (dstats'[i].sizes = {} /\ dstats'[i].d2cs = {})
    BY <2>4
  <2> QED
    BY <1>1, <2>5, <2>6, <2>7, <2>8, Zenon
<1>3. CASE Found = {}
  <2>1. PICK i : i = NextDstat
    OBVIOUS
  <2>2. /\ DOMAIN dstats' = DOMAIN dstats \cup {i}
        /\ dstats'[i] = Fresh(main.d) /\ \A j \in DOMAIN dstats \ {i} : dstats'[j] = dstats[j]
        /\ dstat_tree' = [dstat_tree EXCEPT ![dstat_curr] = @ \cup {i}]
        /\ main' = [main EXCEPT !.pc = "sizes", !.d = i]
        /\ dstat_curr' = dstat_curr
        /\ i \in DOMAIN dstats => i \in ToSet(vacant)
    BY <1>3, <2>1, GetFacts
  <2>3. dstats'[i].sizes = {} /\ dstats'[i].d2cs = {}
    BY <2>2 DEF Fresh
  <2>4. main'.pc = "sizes" /\ main'.io = main.io /\ main'.d = i
    BY <2>2 DEF ThreadTypes
  <2>5. /\ dstat_tree'[dstat_curr] = dstat_tree[dstat_curr] \cup {i}
        /\ \A c \in 0 .. 1 : c # dstat_curr => dstat_tree'[c] = dstat_tree[c]
    BY <1>1, <2>2
  <2>6. main'.d \in dstat_tree'[dstat_curr']
    BY <2>2, <2>4, <2>5
  <2>7. \A j \in DOMAIN dstats' :
           \/ j \in DOMAIN dstats /\ dstats'[j] = dstats[j]
           \/ dstats'[j].sizes = {} /\ dstats'[j].d2cs = {} /\ (j \in DOMAIN dstats => j \in ToSet(vacant))
    <3>1. ASSUME NEW j \in DOMAIN dstats', j # i PROVE j \in DOMAIN dstats /\ dstats'[j] = dstats[j]
      BY <2>2, <3>1
    <3> QED
      BY <2>2, <2>3, <3>1
  <2>8. \A j \in DOMAIN dstats \ ToSet(vacant) : j \in DOMAIN dstats' /\ dstats'[j] = dstats[j]
    BY <2>2
  <2>9. \A c \in 0 .. 1 : dstat_tree'[c] = dstat_tree[c] \/ dstat_tree'[c] = dstat_tree[c] \cup {i}
    BY <2>5
  <2>10. /\ \A c \in 0 .. 1 : dstat_tree[c] \subseteq dstat_tree'[c]
         /\ \A c \in 0 .. 1 : \A j \in dstat_tree'[c] :
               j \in dstat_tree[c] \/ (dstats'[j].sizes = {} /\ dstats'[j].d2cs = {})
    BY <2>3, <2>9
  <2> QED
    BY <1>1, <2>4, <2>6, <2>7, <2>8, <2>10, Zenon
<1> QED
  BY <1>2, <1>3

LEMMA IssuesReadStep ==
    ASSUME KernelTypes, ThreadTypes, IssuesOnce, NEW t \in pipe, DoTrace(t) PROVE IssuesOnce'
<1>1. t \in Traces /\ pipe' = pipe \ {t} /\ main.pc = "read"
  BY TraceFacts
<1>2. UNCHANGED <<now, nios, printed, dstats>>
  BY DEF DoTrace, kernelVars, dstatVars
<1>3. \A io : (SizeUsed(io)' <=> SizeUsed(io)) /\ (D2cUsed(io)' <=> D2cUsed(io))
  BY <1>2 DEF SizeUsed, D2cUsed
<1>4. thash' \subseteq thash \cup {t}
  <2>1. CASE Kept(t)
    BY <2>1 DEF Kept
  <2>2. ASSUME NEW s \in thash, NEW old \in Traces, NEW young \in Traces,
               Paired(s, t, old, young) \/ Replaced(s, t, old, young)
        PROVE  thash' \subseteq thash \cup {t}
    BY <2>2 DEF Paired, Replaced, Aged
  <2> QED
    BY <2>1, <2>2, TraceFacts
<1>5. /\ \A a, b \in pipe \cup thash : a.act = "D" /\ b.act = "D" /\ a.io = b.io => a = b
      /\ \A a \in pipe \cap thash : a.act # "D"
      /\ \A a \in pipe \cup thash : a.time <= now /\ a.io <= nios
      /\ \A a \in pipe \cup thash : a.act = "D" => ~SizeUsed(a.io) /\ ~D2cUsed(a.io)
  BY DEF IssuesOnce
<1>6. \A a \in pipe' \cup thash' : a \in pipe \cup thash
  BY <1>1, <1>4
<1>7. \A a \in pipe' \cap thash' : a \in pipe \cap thash
  BY <1>1, <1>4
<1>8. \/ main' = main
      \/ /\ main'.pc = "get" /\ main'.io <= nios /\ ~SizeUsed(main'.io) /\ ~D2cUsed(main'.io)
         /\ \A a \in pipe' \cup thash' : a.act = "D" => a.io # main'.io
  <2>1. ASSUME NEW s \in thash, NEW old \in Traces, NEW young \in Traces, Paired(s, t, old, young)
        PROVE  /\ main'.pc = "get" /\ main'.io <= nios /\ ~SizeUsed(main'.io) /\ ~D2cUsed(main'.io)
               /\ \A a \in pipe' \cup thash' : a.act = "D" => a.io # main'.io
    <3>1. /\ old.act = "D" /\ young.act = "C" /\ thash' = thash \ {s}
          /\ main' = [main EXCEPT !.pc = "get", !.io = old.io, !.d = Dev(old.key)]
          /\ old = s \/ old = t
      BY <2>1 DEF Paired, Aged
    <3>2. main'.pc = "get" /\ main'.io = old.io
      BY <3>1 DEF ThreadTypes
    <3>3. old \in pipe \cup thash /\ old \notin pipe' \cup thash'
      BY <1>1, <1>5, <3>1
    <3>4. \A a \in pipe' \cup thash' : a.act = "D" => a.io # old.io
      BY <1>5, <1>6, <3>1, <3>3
    <3>5. old.io <= nios /\ ~SizeUsed(old.io) /\ ~D2cUsed(old.io)
      BY <1>5, <3>1, <3>3
    <3> QED
      BY <3>2, <3>4, <3>5
  <2> QED
    BY <2>1, TraceFacts DEF Kept, Replaced
<1>9. PICK e : e = main'
  OBVIOUS
<1>10. /\ e.pc \in {"get", "sizes"} => ~SizeUsed(e.io)
       /\ e.pc # "read" => ~D2cUsed(e.io) /\ \A a \in pipe' \cup thash' : a.act = "D" => e.io # a.io
       /\ e.io <= nios
  <2>1. main.io <= nios
    BY DEF IssuesOnce
  <2> QED
    BY <1>1, <1>8, <1>9, <2>1
<1>11. \A a \in pipe' \cup thash' : a.act = "D" =>
         /\ ~SizeUsed(a.io)' /\ ~D2cUsed(a.io)'
         /\ main'.pc # "read" => main'.io # a.io
  BY <1>3, <1>5, <1>6, <1>9, <1>10
<1>12. ~SizeUsed(e.io) => ~SizeUsed(main.io)'
  BY <1>2, <1>9 DEF SizeUsed
<1>13. ~D2cUsed(e.io) => ~D2cUsed(main.io)'
  BY <1>2, <1>9 DEF D2cUsed
<1>14. \A io \in Nat : SizeUsed(io)' \/ D2cUsed(io)' => io <= nios'
  BY <1>2, <1>3 DEF IssuesOnce
<1> QED
  BY <1>2, <1>5, <1>6, <1>7, <1>9, <1>10, <1>11, <1>12, <1>13, <1>14 DEF IssuesOnce

LEMMA IssuesKernelStep ==
    ASSUME KernelTypes, ThreadTypes, IssuesOnce, Kernel PROVE IssuesOnce'
<1>1. PICK k \in Keys, u \in Traces :
         /\ u.time = now' /\ pipe' = pipe \cup {u}
         /\ \/ u.act = "D" /\ u.io = nios + 1 /\ nios' = nios + 1
            \/ u.act = "C" /\ u.io = ios[k] /\ nios' = nios
  BY KernelFacts
<1>2. /\ now' \in Nat /\ now' > now /\ nios \in Nat /\ now \in Nat
      /\ UNCHANGED <<thash, main, dstats, printed>>
  BY KernelFacts DEF histVars, dstatVars
<1>3. \A io : (SizeUsed(io)' <=> SizeUsed(io)) /\ (D2cUsed(io)' <=> D2cUsed(io))
  BY <1>2 DEF SizeUsed, D2cUsed
<1>4. nios <= nios' /\ nios' \in Nat /\ u.io <= nios' /\ u.io \in Nat
  <2>1. ios[k] \in 0 .. nios
    BY DEF KernelTypes
  <2> QED
    BY <1>1, <1>2, <2>1 DEF Traces
<1>5. \A a \in pipe \cup thash : a.time \in Nat /\ a.io \in Nat /\ a.time <= now /\ a.io <= nios
  BY DEF IssuesOnce, KernelTypes, Traces
<1>6. \A a \in pipe' \cup thash' : a.time <= now' /\ a.io <= nios'
  <2>1. \A a \in pipe' \cup thash' : a \in pipe \cup thash \/ a = u
    BY <1>1, <1>2
  <2> QED
    BY <1>1, <1>2, <1>4, <1>5, <2>1
<1>7. u.act = "D" => u \notin thash /\ \A a \in pipe \cup thash : a.io # u.io
  BY <1>1, <1>2, <1>5
<1>8. \A a, b \in pipe' \cup thash' : a.act = "D" /\ b.act = "D" /\ a.io = b.io => a = b
  BY <1>1, <1>2, <1>7 DEF IssuesOnce
<1>9. \A a \in pipe' \cap thash' : a.act # "D"
  BY <1>1, <1>2, <1>7 DEF IssuesOnce
<1>10. u.act = "D" => ~SizeUsed(u.io) /\ ~D2cUsed(u.io) /\ main.io # u.io
  <2>1. SUFFICES ASSUME u.act = "D" PROVE ~SizeUsed(u.io) /\ ~D2cUsed(u.io) /\ main.io # u.io
    OBVIOUS
  <2>2. ~(u.io <= nios) /\ u.io \in Nat
    BY <1>1, <1>2, <1>4, <2>1
  <2>3. main.io <= nios /\ \A io \in Nat : SizeUsed(io) \/ D2cUsed(io) => io <= nios
    BY DEF IssuesOnce
  <2> QED
    BY <2>2, <2>3
<1>11. \A a \in pipe' \cup thash' : a.act = "D" =>
         /\ ~SizeUsed(a.io)' /\ ~D2cUsed(a.io)'
         /\ main'.pc # "read" => main'.io # a.io
  <2>1. ASSUME NEW a \in pipe' \cup thash', a.act = "D"
        PROVE  ~SizeUsed(a.io) /\ ~D2cUsed(a.io) /\ (main.pc # "read" => main.io # a.io)
    <3>1. CASE a = u
      BY <1>10, <2>1, <3>1
    <3>2. CASE a \in pipe \cup thash
      BY <2>1, <3>2 DEF IssuesOnce
    <3> QED
      BY <1>1, <1>2, <3>1, <3>2
  <2> QED
    BY <1>2, <1>3, <2>1
<1>12. \A io \in Nat : SizeUsed(io)' \/ D2cUsed(io)' => io <= nios'
  <2>1. ASSUME NEW io \in Nat, io <= nios PROVE io <= nios'
    BY <1>2, <1>4, <2>1
  <2> QED
    BY <1>3, <2>1 DEF IssuesOnce
<1>13. main.io <= nios'
  <2>1. main.io \in Nat /\ main.io <= nios
    BY DEF ThreadTypes, IssuesOnce
  <2> QED
    BY <1>2, <1>4, <2>1
<1>14. (main.pc \in {"get", "sizes"} => ~SizeUsed(main.io))' /\ (main.pc # "read" => ~D2cUsed(main.io))'
  BY <1>2 DEF IssuesOnce, SizeUsed, D2cUsed
<1> QED
  BY <1>2, <1>6, <1>8, <1>9, <1>11, <1>12, <1>13, <1>14 DEF IssuesOnce

LEMMA IssuesStep ==
    ASSUME KernelTypes, DstatTypes, ThreadTypes, OneHome, IssuesOnce, Next PROVE IssuesOnce'
<1>1. CASE Kernel
  BY <1>1, IssuesKernelStep
<1>2. ASSUME NEW t \in pipe, DoTrace(t) PROVE IssuesOnce'
  BY <1>2, IssuesReadStep
<1>3. CASE GetDstat
  <2>1. UNCHANGED <<now, nios, pipe, thash, printed>>
    BY <1>3 DEF GetDstat, kernelVars, histVars
  <2>2. main.pc = "get" /\ main'.pc = "sizes" /\ main'.io = main.io
    BY <1>3, GetUses
  <2>3. ASSUME NEW j \in DOMAIN dstats', NEW io, io \in dstats'[j].sizes \/ io \in dstats'[j].d2cs
        PROVE  j \in DOMAIN dstats /\ dstats'[j] = dstats[j]
    BY <1>3, <2>3, GetUses
  <2>4. \A io : SizeUsed(io)' => SizeUsed(io)
    BY <2>1, <2>3 DEF SizeUsed
  <2>5. \A io : D2cUsed(io)' => D2cUsed(io)
    BY <2>1, <2>3 DEF D2cUsed
  <2> QED
    BY <2>1, <2>2, <2>4, <2>5, IssuesFrame
<1>4. CASE AddSize
  <2>1. UNCHANGED <<now, nios, pipe, thash, printed>> /\ main.pc = "sizes"
        /\ main' = [main EXCEPT !.pc = "d2cs"]
    BY <1>4 DEF AddSize, kernelVars
  <2>2. main'.pc = "d2cs" /\ main'.io = main.io
    BY <2>1 DEF ThreadTypes
  <2>3. /\ DOMAIN dstats' = DOMAIN dstats /\ main.d \in DOMAIN dstats
        /\ \A i \in DOMAIN dstats \ {main.d} : dstats'[i] = dstats[i]
        /\ dstats'[main.d].sizes = dstats[main.d].sizes \cup {main.io}
        /\ dstats'[main.d].d2cs = dstats[main.d].d2cs
    BY <1>4, AddHome
  <2>4. \A i \in DOMAIN dstats : \A io : io \in dstats'[i].sizes => io \in dstats[i].sizes \/ io = main.io
    BY <2>3
  <2>5. \A i \in DOMAIN dstats : dstats'[i].d2cs = dstats[i].d2cs
    BY <2>3
  <2>6. \A io : SizeUsed(io)' => SizeUsed(io) \/ io = main.io
    BY <2>1, <2>3, <2>4 DEF SizeUsed
  <2>7. \A io : D2cUsed(io)' => D2cUsed(io)
    BY <2>1, <2>3, <2>5 DEF D2cUsed
  <2> QED
    BY <2>1, <2>2, <2>6, <2>7, IssuesFrame
<1>5. CASE AddD2c
  <2>1. UNCHANGED <<now, nios, pipe, thash, printed>> /\ main.pc = "d2cs"
        /\ main' = [pc |-> "read", io |-> 0, d |-> 0]
    BY <1>5 DEF AddD2c, kernelVars
  <2>2. main'.pc = "read" /\ main'.io = 0
    BY <2>1
  <2>3. /\ DOMAIN dstats' = DOMAIN dstats /\ main.d \in DOMAIN dstats
        /\ \A i \in DOMAIN dstats \ {main.d} : dstats'[i] = dstats[i]
        /\ dstats'[main.d].d2cs = dstats[main.d].d2cs \cup {main.io}
        /\ dstats'[main.d].sizes = dstats[main.d].sizes
    BY <1>5, AddHome
  <2>4. \A i \in DOMAIN dstats : \A io : io \in dstats'[i].d2cs => io \in dstats[i].d2cs \/ io = main.io
    BY <2>3
  <2>5. \A i \in DOMAIN dstats : dstats'[i].sizes = dstats[i].sizes
    BY <2>3
  <2>6. \A io : SizeUsed(io)' => SizeUsed(io)
    BY <2>1, <2>3, <2>5 DEF SizeUsed
  <2>7. \A io : D2cUsed(io)' => D2cUsed(io) \/ io = main.io
    BY <2>1, <2>3, <2>4 DEF D2cUsed
  <2> QED
    BY <2>1, <2>2, <2>6, <2>7, IssuesFrame
<1>6. CASE PrintDstat
  <2>1. UNCHANGED <<now, nios, pipe, thash, main, dstats>> /\ ivl.pc = "print"
    BY <1>6 DEF PrintDstat, kernelVars, dstatVars
  <2>2. At \in DOMAIN dstats
    BY <2>1, AtFacts
  <2>3. \A io : /\ <<"size", io>> \in printed' => SizeUsed(io)
                /\ <<"d2c", io>> \in printed' => D2cUsed(io)
    BY <1>6, <2>2, PrintFacts DEF SizeUsed, D2cUsed
  <2>4. \A io : SizeUsed(io)' => SizeUsed(io)
    BY <2>1, <2>3 DEF SizeUsed
  <2>5. \A io : D2cUsed(io)' => D2cUsed(io)
    BY <2>1, <2>3 DEF D2cUsed
  <2> QED
    BY <2>1, <2>4, <2>5, IssuesFrame
<1>7. CASE ConvertDstat
  <2>1. UNCHANGED <<now, nios, pipe, thash, main, printed>>
    BY <1>7 DEF ConvertDstat, kernelVars, histVars
  <2>2. /\ DOMAIN dstats' = DOMAIN dstats
        /\ \A i \in DOMAIN dstats : dstats'[i].sizes = dstats[i].sizes /\ dstats'[i].d2cs = dstats[i].d2cs
    BY <1>7, ConvertHome
  <2>3. \A io : SizeUsed(io)' => SizeUsed(io)
    BY <2>1, <2>2 DEF SizeUsed
  <2>4. \A io : D2cUsed(io)' => D2cUsed(io)
    BY <2>1, <2>2 DEF D2cUsed
  <2> QED
    BY <2>1, <2>3, <2>4, IssuesFrame
<1>8. CASE Flip \/ Grab \/ GiveBack \/ Exit
  <2>1. UNCHANGED <<now, nios, pipe, thash, main, printed, dstats>>
    BY <1>8 DEF Flip, Grab, GiveBack, Exit, kernelVars, histVars, dstatVars
  <2> QED
    BY <2>1, IssuesFrame DEF SizeUsed, D2cUsed
<1> QED
  BY <1>1, <1>2, <1>3, <1>4, <1>5, <1>6, <1>7, <1>8 DEF Next

-----------------------------------------------------------------------------
(* What is still to be printed. *)

\* Of the list that is printed.
Printing ==
    IF ivl.pc \in {"print", "convert"}
    THEN {ivl.head[i] : i \in (IF ivl.pc = "print" THEN ivl.at ELSE ivl.at + 1) .. Len(ivl.head)}
    ELSE {}

LEMMA AwaitingIs == Awaiting = dstat_tree[0] \cup dstat_tree[1] \cup Printing
  BY DEF Awaiting, Printing

LEMMA AwaitingFacts ==
    ASSUME DstatTypes, ThreadTypes, OneHome
    PROVE  /\ Printing \subseteq ToSet(ivl.head)
           /\ Awaiting \subseteq DOMAIN dstats \ ToSet(vacant)
           /\ dstat_tree[0] \subseteq Awaiting /\ dstat_tree[1] \subseteq Awaiting
<1>1. Printing \subseteq ToSet(ivl.head)
  <2>1. CASE ivl.pc \in {"print", "convert"}
    <3>1. ivl.at \in 1 .. Len(ivl.head) /\ ivl.head \in Seq(Nat) /\ Len(ivl.head) \in Nat
      BY <2>1 DEF ThreadTypes
    <3>2. PICK a : a = IF ivl.pc = "print" THEN ivl.at ELSE ivl.at + 1
      OBVIOUS
    <3>3. Printing = {ivl.head[i] : i \in a .. Len(ivl.head)} /\ a \in Nat \ {0}
      BY <2>1, <3>1, <3>2 DEF Printing
    <3>4. \A i \in a .. Len(ivl.head) : i \in DOMAIN ivl.head
      BY <3>1, <3>3
    <3> QED
      BY <3>3, <3>4 DEF ToSet
  <2>2. CASE ivl.pc \notin {"print", "convert"}
    BY <2>2 DEF Printing
  <2> QED
    BY <2>1, <2>2
<1>2. /\ \A c \in 0 .. 1 : dstat_tree[c] \subseteq DOMAIN dstats /\ dstat_tree[c] \cap ToSet(vacant) = {}
      /\ ToSet(ivl.head) \cap ToSet(vacant) = {} /\ ToSet(ivl.head) \subseteq DOMAIN dstats
  BY HomeFacts
<1> QED
  BY <1>1, <1>2, AwaitingIs

LEMMA AccountsFrame ==
    ASSUME DstatTypes, ThreadTypes, OneHome, Accounts, Awaiting' = Awaiting, printed' = printed,
           DOMAIN dstats' = DOMAIN dstats,
           \A i \in DOMAIN dstats : dstats'[i].sizes = dstats[i].sizes /\ dstats'[i].d2cs = dstats[i].d2cs,
           Sized' \ late' \subseteq Sized \ late, Accounted' \ late' \subseteq Accounted \ late
    PROVE  Accounts'
<1>1. Awaiting \subseteq DOMAIN dstats
  BY AwaitingFacts
<1>2. \A i, j \in DOMAIN dstats' : i # j =>
          /\ dstats'[i].sizes \cap dstats'[j].sizes = {}
          /\ dstats'[i].d2cs \cap dstats'[j].d2cs = {}
  BY DEF Accounts
<1>3. \A io \in Sized' \ late' :
          <<"size", io>> \in printed' \/ \E i \in Awaiting' : io \in dstats'[i].sizes
  BY <1>1 DEF Accounts
<1>4. \A io \in Accounted' \ late' :
          <<"d2c", io>> \in printed' \/ \E i \in Awaiting' : io \in dstats'[i].d2cs
  BY <1>1 DEF Accounts
<1>5. \A i \in Awaiting' :
          /\ \A io \in dstats'[i].sizes : <<"size", io>> \notin printed'
          /\ \A io \in dstats'[i].d2cs : <<"d2c", io>> \notin printed'
  BY <1>1 DEF Accounts
<1> QED
  BY <1>2, <1>3, <1>4, <1>5 DEF Accounts

\* Steps that change nothing of what is accounted for.
LEMMA AccountedSame ==
    ASSUME UNCHANGED <<main, pairs>>
    PROVE  Accounted' = Accounted /\ Sized' = Sized
  BY DEF Accounted, Sized

LEMMA AccountedRead ==
    ASSUME KernelTypes, ThreadTypes, NEW t \in pipe, DoTrace(t)
    PROVE  Accounted' \subseteq Accounted /\ Sized' \subseteq Sized
<1>1. main.pc = "read"
  BY TraceFacts
<1>2. CASE Kept(t)
  BY <1>2, AccountedSame DEF Kept
<1>3. ASSUME NEW s \in thash, NEW old \in Traces, NEW young \in Traces, Replaced(s, t, old, young)
      PROVE  Accounted' \subseteq Accounted /\ Sized' \subseteq Sized
  BY <1>3, AccountedSame DEF Replaced
<1>4. ASSUME NEW s \in thash, NEW old \in Traces, NEW young \in Traces, Paired(s, t, old, young)
      PROVE  Accounted' \subseteq Accounted /\ Sized' \subseteq Sized
  <2>1. /\ main' = [main EXCEPT !.pc = "get", !.io = old.io, !.d = Dev(old.key)]
        /\ pairs' = pairs \cup {<<old, young>>}
    BY <1>4 DEF Paired
  <2>2. main'.pc = "get" /\ main'.io = old.io
    BY <2>1 DEF ThreadTypes
  <2>3. Accounted = {p[1].io : p \in pairs}
    BY <1>1 DEF Accounted
  <2>4. Accounted' = {p[1].io : p \in pairs'} \ {old.io}
    BY <2>2 DEF Accounted
  <2>5. ASSUME NEW p \in pairs', p[1].io # old.io PROVE p \in pairs
    <3>1. PICK q : q = <<old, young>>
      OBVIOUS
    <3>2. q[1] = old
      BY <3>1
    <3> QED
      BY <2>1, <2>5, <3>1, <3>2
  <2>6. Accounted' \subseteq Accounted
    BY <2>3, <2>4, <2>5
  <2>7. Sized' = Accounted'
    BY <2>2 DEF Sized
  <2> QED
    BY <2>6, <2>7 DEF Sized
<1> QED
  BY <1>2, <1>3, <1>4, TraceFacts

LEMMA AccountsReadStep ==
    ASSUME KernelTypes, DstatTypes, ThreadTypes, OneHome, Accounts, NEW t \in pipe, DoTrace(t)
    PROVE  Accounts'
<1>1. UNCHANGED <<dstats, dstat_tree, ivl, printed, late>>
  BY DEF DoTrace, dstatVars
<1>2. Awaiting' = Awaiting
  BY <1>1 DEF Awaiting
<1>3. Accounted' \subseteq Accounted /\ Sized' \subseteq Sized
  BY AccountedRead
<1> QED
  BY <1>1, <1>2, <1>3, AccountsFrame

\* What the interval thread moves, and what the block layer does.
LEMMA AccountsMoveStep ==
    ASSUME KernelTypes, DstatTypes, ThreadTypes, OneHome, Accounts,
           Kernel \/ Exit \/ Flip \/ Grab \/ ConvertDstat \/ GiveBack
    PROVE  Accounts'
<1>1. UNCHANGED <<main, pairs, printed, late>>
  BY DEF Kernel, Exit, Flip, Grab, ConvertDstat, GiveBack, histVars
<1>2. /\ DOMAIN dstats' = DOMAIN dstats
      /\ \A i \in DOMAIN dstats : dstats'[i].sizes = dstats[i].sizes /\ dstats'[i].d2cs = dstats[i].d2cs
  <2>1. CASE ConvertDstat
    BY <2>1, ConvertHome
  <2>2. CASE ~ConvertDstat
    <3>1. dstats' = dstats
      BY <2>2 DEF Kernel, Exit, Flip, Grab, GiveBack, dstatVars
    <3> QED
      BY <3>1
  <2> QED
    BY <2>1, <2>2
<1>3. Awaiting' = Awaiting
  <2>1. CASE Kernel \/ Exit
    <3>1. ivl' = ivl /\ dstat_tree' = dstat_tree
      BY <2>1 DEF Kernel, Exit, dstatVars
    <3> QED
      BY <3>1 DEF Awaiting
  <2>2. CASE Flip \/ GiveBack
    <3>1. /\ ivl.pc \notin {"print", "convert"} /\ ivl'.pc \notin {"print", "convert"}
          /\ dstat_tree' = dstat_tree
      BY <2>2 DEF Flip, GiveBack, ThreadTypes
    <3> QED
      BY <3>1 DEF Awaiting
  <2>3. CASE Grab
    <3>1. PICK f \in 0 .. 1 : f = ivl.finished
      BY DEF ThreadTypes
    <3>2. ivl.pc = "grab" /\ dstat_list[f] \in Seq(Nat) /\ ToSet(dstat_list[f]) = dstat_tree[f]
      BY <2>3, HomeFacts DEF Grab, DstatTypes
    <3>3. Awaiting = dstat_tree[0] \cup dstat_tree[1]
      BY <3>2 DEF Awaiting
    <3>4. CASE dstat_list[f] = <<>>
      <4>1. dstat_tree' = dstat_tree /\ ivl' = [ivl EXCEPT !.pc = "sleep"]
        BY <2>3, <3>1, <3>4 DEF Grab
      <4>2. ivl'.pc = "sleep"
        BY <4>1 DEF ThreadTypes
      <4> QED
        BY <3>3, <4>1, <4>2 DEF Awaiting
    <3>5. CASE dstat_list[f] # <<>>
      <4>1. PICK l : l = dstat_list[f]
        OBVIOUS
      <4>2. dstat_tree' = [dstat_tree EXCEPT ![f] = {}]
            /\ ivl' = [ivl EXCEPT !.pc = "print", !.head = l, !.at = 1]
        BY <2>3, <3>1, <3>5, <4>1 DEF Grab
      <4>3. ivl'.pc = "print" /\ ivl'.head = l /\ ivl'.at = 1
        BY <4>2 DEF ThreadTypes
      <4>4. Awaiting' = dstat_tree'[0] \cup dstat_tree'[1] \cup {l[i] : i \in 1 .. Len(l)}
        BY <4>3 DEF Awaiting
      <4>5. {l[i] : i \in 1 .. Len(l)} = dstat_tree[f]
        BY <3>2, <4>1, Elements
      <4>6. dstat_tree'[f] = {} /\ \A c \in 0 .. 1 : c # f => dstat_tree'[c] = dstat_tree[c]
        BY <4>2 DEF DstatTypes
      <4>7. f = 0 \/ f = 1
        OBVIOUS
      <4> QED
        BY <3>3, <4>4, <4>5, <4>6, <4>7
    <3> QED
      BY <3>4, <3>5
  <2>4. CASE ConvertDstat
    <3>1. PICK a, n \in Nat : a = ivl.at /\ n = Len(ivl.head) /\ a \in 1 .. n
      BY <2>4, SMTT(30) DEF ConvertDstat, ThreadTypes
    <3>2. ivl.pc = "convert" /\ dstat_tree' = dstat_tree
          /\ ivl' = IF a = n THEN [ivl EXCEPT !.pc = "give"] ELSE [ivl EXCEPT !.pc = "print", !.at = a + 1]
      BY <2>4, <3>1 DEF ConvertDstat
    <3>3. Awaiting = dstat_tree[0] \cup dstat_tree[1] \cup {ivl.head[i] : i \in a + 1 .. n}
      BY <3>1, <3>2 DEF Awaiting
    <3>4. CASE a = n
      <4>1. ivl'.pc = "give"
        BY <3>2, <3>4 DEF ThreadTypes
      <4>2. a + 1 .. n = {}
        BY <3>1, <3>4
      <4> QED
        BY <3>2, <3>3, <4>1, <4>2 DEF Awaiting
    <3>5. CASE a # n
      <4>1. ivl'.pc = "print" /\ ivl'.at = a + 1 /\ ivl'.head = ivl.head
        BY <3>2, <3>5 DEF ThreadTypes
      <4> QED
        BY <3>1, <3>2, <3>3, <4>1 DEF Awaiting
    <3> QED
      BY <3>4, <3>5
  <2> QED
    BY <2>1, <2>2, <2>3, <2>4
<1> QED
  BY <1>1, <1>2, <1>3, AccountedSame, AccountsFrame

LEMMA AccountsGetStep ==
    ASSUME DstatTypes, ThreadTypes, OneHome, Accounts, GetDstat
    PROVE  Accounts'
<1>1. UNCHANGED <<ivl, printed, pairs, late>> /\ main.pc = "get" /\ main'.pc = "sizes" /\ main'.io = main.io
  BY GetUses DEF GetDstat, histVars
<1>2. Accounted' = Accounted /\ Sized' = Sized
  BY <1>1 DEF Accounted, Sized
<1>3. Printing' = Printing
  BY <1>1 DEF Printing
<1>4. Awaiting = dstat_tree[0] \cup dstat_tree[1] \cup Printing
      /\ Awaiting' = dstat_tree'[0] \cup dstat_tree'[1] \cup Printing
  BY <1>3, AwaitingIs DEF Awaiting, Printing
<1>5. /\ \A i \in DOMAIN dstats \ ToSet(vacant) : i \in DOMAIN dstats' /\ dstats'[i] = dstats[i]
      /\ \A c \in 0 .. 1 : dstat_tree[c] \subseteq dstat_tree'[c]
      /\ \A c \in 0 .. 1 : \A i \in dstat_tree'[c] :
            i \in dstat_tree[c] \/ (dstats'[i].sizes = {} /\ dstats'[i].d2cs = {})
  BY GetUses
<1>6. Awaiting \subseteq DOMAIN dstats \ ToSet(vacant)
  BY AwaitingFacts
<1>7. \A i \in Awaiting : i \in Awaiting' /\ dstats'[i] = dstats[i]
  BY <1>4, <1>5, <1>6
<1>8. \A i \in Awaiting' : i \in Awaiting \/ (dstats'[i].sizes = {} /\ dstats'[i].d2cs = {})
  BY <1>4, <1>5
<1>9. \A i \in DOMAIN dstats' :
         (i \in DOMAIN dstats /\ dstats'[i] = dstats[i]) \/ (dstats'[i].sizes = {} /\ dstats'[i].d2cs = {})
  BY GetUses
<1>10. \A i, j \in DOMAIN dstats' : i # j =>
          /\ dstats'[i].sizes \cap dstats'[j].sizes = {}
          /\ dstats'[i].d2cs \cap dstats'[j].d2cs = {}
  <2>1. ASSUME NEW i \in DOMAIN dstats', NEW j \in DOMAIN dstats', i # j
        PROVE  /\ dstats'[i].sizes \cap dstats'[j].sizes = {}
               /\ dstats'[i].d2cs \cap dstats'[j].d2cs = {}
    <3>1. CASE \/ dstats'[i].sizes = {} /\ dstats'[i].d2cs = {}
               \/ dstats'[j].sizes = {} /\ dstats'[j].d2cs = {}
      BY <3>1
    <3>2. CASE i \in DOMAIN dstats /\ j \in DOMAIN dstats /\ dstats'[i] = dstats[i] /\ dstats'[j] = dstats[j]
      BY <2>1, <3>2 DEF Accounts
    <3> QED
      BY <1>9, <3>1, <3>2
  <2> QED
    BY <2>1
<1>11. \A io \in Sized' \ late' :
          <<"size", io>> \in printed' \/ \E i \in Awaiting' : io \in dstats'[i].sizes
  <2>1. ASSUME NEW io \in Sized \ late
        PROVE  <<"size", io>> \in printed \/ \E i \in Awaiting' : io \in dstats'[i].sizes
    <3>1. <<"size", io>> \in printed \/ \E i \in Awaiting : io \in dstats[i].sizes
      BY DEF Accounts
    <3> QED
      BY <1>7, <3>1
  <2> QED
    BY <1>1, <1>2, <2>1
<1>12. \A io \in Accounted' \ late' :
          <<"d2c", io>> \in printed' \/ \E i \in Awaiting' : io \in dstats'[i].d2cs
  <2>1. ASSUME NEW io \in Accounted \ late
        PROVE  <<"d2c", io>> \in printed \/ \E i \in Awaiting' : io \in dstats'[i].d2cs
    <3>1. <<"d2c", io>> \in printed \/ \E i \in Awaiting : io \in dstats[i].d2cs
      BY DEF Accounts
    <3> QED
      BY <1>7, <3>1
  <2> QED
    BY <1>1, <1>2, <2>1
<1>13. \A i \in Awaiting' :
          /\ \A io \in dstats'[i].sizes : <<"size", io>> \notin printed'
          /\ \A io \in dstats'[i].d2cs : <<"d2c", io>> \notin printed'
  BY <1>1, <1>7, <1>8 DEF Accounts
<1> QED
  BY <1>10, <1>11, <1>12, <1>13 DEF Accounts

LEMMA AccountsSizeStep ==
    ASSUME DstatTypes, ThreadTypes, OneHome, IssuesOnce, Accounts, AddSize
    PROVE  Accounts'
<1>1. /\ UNCHANGED <<ivl, printed, pairs, dstat_tree, dstat_curr>> /\ main.pc = "sizes"
      /\ main' = [main EXCEPT !.pc = "d2cs"]
      /\ late' = IF IsLate THEN late \cup {main.io} ELSE late
  BY DEF AddSize
<1>2. main'.pc = "d2cs" /\ main'.io = main.io
  BY <1>1 DEF ThreadTypes
<1>3. Accounted' = Accounted /\ Sized = Accounted /\ Sized' = Accounted \cup {main.io}
  BY <1>1, <1>2 DEF Accounted, Sized
<1>4. Awaiting' = Awaiting /\ Awaiting \subseteq DOMAIN dstats
  BY <1>1, AwaitingFacts DEF Awaiting
<1>5. /\ DOMAIN dstats' = DOMAIN dstats /\ main.d \in DOMAIN dstats
      /\ \A i \in DOMAIN dstats \ {main.d} : dstats'[i] = dstats[i]
      /\ dstats'[main.d].sizes = dstats[main.d].sizes \cup {main.io}
      /\ dstats'[main.d].d2cs = dstats[main.d].d2cs
  BY AddHome
<1>6. /\ <<"size", main.io>> \notin printed
      /\ \A i \in DOMAIN dstats : main.io \notin dstats[i].sizes
  <2>1. ~SizeUsed(main.io)
    BY <1>1 DEF IssuesOnce
  <2> QED
    BY <2>1 DEF SizeUsed
<1>7. late \subseteq late' /\ (main.io \notin late' => main.d \in Awaiting)
  <2>1. main.io \notin late' => main.d \in dstat_tree[dstat_curr]
    BY <1>1 DEF IsLate
  <2>2. dstat_curr = 0 \/ dstat_curr = 1
    BY DEF DstatTypes
  <2> QED
    BY <1>1, <2>1, <2>2, AwaitingFacts
<1>8. \A i \in DOMAIN dstats : /\ dstats[i].sizes \subseteq dstats'[i].sizes
                               /\ dstats'[i].d2cs = dstats[i].d2cs
                               /\ i # main.d => dstats'[i].sizes = dstats[i].sizes
  BY <1>5
<1>9. \A i, j \in DOMAIN dstats' : i # j =>
          /\ dstats'[i].sizes \cap dstats'[j].sizes = {}
          /\ dstats'[i].d2cs \cap dstats'[j].d2cs = {}
  <2>1. ASSUME NEW i \in DOMAIN dstats, NEW j \in DOMAIN dstats, i # j
        PROVE  /\ dstats'[i].sizes \cap dstats'[j].sizes = {}
               /\ dstats'[i].d2cs \cap dstats'[j].d2cs = {}
    <3>1. /\ dstats[i].sizes \cap dstats[j].sizes = {}
          /\ dstats[i].d2cs \cap dstats[j].d2cs = {}
      BY <2>1 DEF Accounts
    <3>2. main.io \notin dstats[i].sizes /\ main.io \notin dstats[j].sizes
      BY <1>6
    <3> QED
      BY <1>5, <1>8, <2>1, <3>1, <3>2
  <2> QED
    BY <1>5, <2>1
<1>10. \A io \in Sized' \ late' :
          <<"size", io>> \in printed' \/ \E i \in Awaiting' : io \in dstats'[i].sizes
  <2>1. ASSUME NEW io \in Sized' \ late'
        PROVE  <<"size", io>> \in printed \/ \E i \in Awaiting : io \in dstats'[i].sizes
    <3>1. CASE io = main.io
      BY <1>5, <1>7, <2>1, <3>1
    <3>2. CASE io # main.io
      <4>1. io \in Sized \ late
        BY <1>3, <1>7, <2>1, <3>2
      <4>2. <<"size", io>> \in printed \/ \E i \in Awaiting : io \in dstats[i].sizes
        BY <4>1 DEF Accounts
      <4> QED
        BY <1>4, <1>8, <4>2
    <3> QED
      BY <3>1, <3>2
  <2> QED
    BY <1>1, <1>4, <2>1
<1>11. \A io \in Accounted' \ late' :
          <<"d2c", io>> \in printed' \/ \E i \in Awaiting' : io \in dstats'[i].d2cs
  <2>1. ASSUME NEW io \in Accounted' \ late'
        PROVE  <<"d2c", io>> \in printed \/ \E i \in Awaiting : io \in dstats'[i].d2cs
    <3>1. <<"d2c", io>> \in printed \/ \E i \in Awaiting : io \in dstats[i].d2cs
      BY <1>3, <1>7 DEF Accounts
    <3> QED
      BY <1>4, <1>8, <3>1
  <2> QED
    BY <1>1, <1>4, <2>1
<1>12. \A i \in Awaiting' :
          /\ \A io \in dstats'[i].sizes : <<"size", io>> \notin printed'
          /\ \A io \in dstats'[i].d2cs : <<"d2c", io>> \notin printed'
  <2>1. \A i \in Awaiting : \A io \in dstats'[i].sizes : io \in dstats[i].sizes \/ io = main.io
    BY <1>4, <1>5
  <2> QED
    BY <1>1, <1>4, <1>6, <1>8, <2>1 DEF Accounts
<1> QED
  BY <1>9, <1>10, <1>11, <1>12 DEF Accounts

LEMMA AccountsD2cStep ==
    ASSUME DstatTypes, ThreadTypes, OneHome, IssuesOnce, Accounts, AddD2c
    PROVE  Accounts'
<1>1. /\ UNCHANGED <<ivl, printed, pairs, dstat_tree, dstat_curr>> /\ main.pc = "d2cs"
      /\ main' = [pc |-> "read", io |-> 0, d |-> 0]
      /\ late' = IF IsLate THEN late \cup {main.io} ELSE late
  BY DEF AddD2c
<1>2. main'.pc = "read"
  BY <1>1
<1>3. Accounted' \subseteq Accounted \cup {main.io} /\ Sized = Accounted \cup {main.io} /\ Sized' = Accounted'
  BY <1>1, <1>2 DEF Accounted, Sized
<1>4. Awaiting' = Awaiting /\ Awaiting \subseteq DOMAIN dstats
  BY <1>1, AwaitingFacts DEF Awaiting
<1>5. /\ DOMAIN dstats' = DOMAIN dstats /\ main.d \in DOMAIN dstats
      /\ \A i \in DOMAIN dstats \ {main.d} : dstats'[i] = dstats[i]
      /\ dstats'[main.d].d2cs = dstats[main.d].d2cs \cup {main.io}
      /\ dstats'[main.d].sizes = dstats[main.d].sizes
  BY AddHome
<1>6. /\ <<"d2c", main.io>> \notin printed
      /\ \A i \in DOMAIN dstats : main.io \notin dstats[i].d2cs
  <2>1. ~D2cUsed(main.io)
    BY <1>1 DEF IssuesOnce
  <2> QED
    BY <2>1 DEF D2cUsed
<1>7. late \subseteq late' /\ (main.io \notin late' => main.d \in Awaiting)
  <2>1. main.io \notin late' => main.d \in dstat_tree[dstat_curr]
    BY <1>1 DEF IsLate
  <2>2. dstat_curr = 0 \/ dstat_curr = 1
    BY DEF DstatTypes
  <2> QED
    BY <1>1, <2>1, <2>2, AwaitingFacts
<1>8. \A i \in DOMAIN dstats : /\ dstats[i].d2cs \subseteq dstats'[i].d2cs
                               /\ dstats'[i].sizes = dstats[i].sizes
                               /\ i # main.d => dstats'[i].d2cs = dstats[i].d2cs
  BY <1>5
<1>9. \A i, j \in DOMAIN dstats' : i # j =>
          /\ dstats'[i].sizes \cap dstats'[j].sizes = {}
          /\ dstats'[i].d2cs \cap dstats'[j].d2cs = {}
  <2>1. ASSUME NEW i \in DOMAIN dstats, NEW j \in DOMAIN dstats, i # j
        PROVE  /\ dstats'[i].sizes \cap dstats'[j].sizes = {}
               /\ dstats'[i].d2cs \cap dstats'[j].d2cs = {}
    <3>1. /\ dstats[i].sizes \cap dstats[j].sizes = {}
          /\ dstats[i].d2cs \cap dstats[j].d2cs = {}
      BY <2>1 DEF Accounts
    <3>2. main.io \notin dstats[i].d2cs /\ main.io \notin dstats[j].d2cs
      BY <1>6
    <3> QED
      BY <1>5, <1>8, <2>1, <3>1, <3>2
  <2> QED
    BY <1>5, <2>1
<1>10. \A io \in Sized' \ late' :
          <<"size", io>> \in printed' \/ \E i \in Awaiting' : io \in dstats'[i].sizes
  <2>1. ASSUME NEW io \in Sized' \ late'
        PROVE  <<"size", io>> \in printed \/ \E i \in Awaiting : io \in dstats'[i].sizes
    <3>1. io \in Sized \ late
      BY <1>3, <1>7
    <3>2. <<"size", io>> \in printed \/ \E i \in Awaiting : io \in dstats[i].sizes
      BY <3>1 DEF Accounts
    <3> QED
      BY <1>4, <1>8, <3>2
  <2> QED
    BY <1>1, <1>4, <2>1
<1>11. \A io \in Accounted' \ late' :
          <<"d2c", io>> \in printed' \/ \E i \in Awaiting' : io \in dstats'[i].d2cs
  <2>1. ASSUME NEW io \in Accounted' \ late'
        PROVE  <<"d2c", io>> \in printed \/ \E i \in Awaiting : io \in dstats'[i].d2cs
    <3>1. CASE io = main.io
      BY <1>5, <1>7, <2>1, <3>1
    <3>2. CASE io # main.io
      <4>1. io \in Accounted \ late
        BY <1>3, <1>7, <2>1, <3>2
      <4>2. <<"d2c", io>> \in printed \/ \E i \in Awaiting : io \in dstats[i].d2cs
        BY <4>1 DEF Accounts
      <4> QED
        BY <1>4, <1>8, <4>2
    <3> QED
      BY <3>1, <3>2
  <2> QED
    BY <1>1, <1>4, <2>1
<1>12. \A i \in Awaiting' :
          /\ \A io \in dstats'[i].sizes : <<"size", io>> \notin printed'
          /\ \A io \in dstats'[i].d2cs : <<"d2c", io>> \notin printed'
  <2>1. \A i \in Awaiting : \A io \in dstats'[i].d2cs : io \in dstats[i].d2cs \/ io = main.io
    BY <1>4, <1>5
  <2> QED
    BY <1>1, <1>4, <1>6, <1>8, <2>1 DEF Accounts
<1> QED
  BY <1>9, <1>10, <1>11, <1>12 DEF Accounts

LEMMA AccountsPrintStep ==
    ASSUME DstatTypes, ThreadTypes, OneHome, Accounts, PrintDstat
    PROVE  Accounts'
<1>1. /\ UNCHANGED <<main, pairs, late, dstats, dstat_tree>> /\ ivl.pc = "print"
      /\ ivl' = [ivl EXCEPT !.pc = "convert"]
  BY DEF PrintDstat, dstatVars
<1>2. ivl'.pc = "convert" /\ ivl'.head = ivl.head /\ ivl'.at = ivl.at
  BY <1>1 DEF ThreadTypes
<1>3. PICK a, n \in Nat : a = ivl.at /\ n = Len(ivl.head) /\ a \in 1 .. n
  BY <1>1, AtFacts
<1>4. PICK h : h = ivl.head
  OBVIOUS
<1>5. /\ Awaiting  = dstat_tree[0] \cup dstat_tree[1] \cup {h[i] : i \in a .. n}
      /\ Awaiting' = dstat_tree[0] \cup dstat_tree[1] \cup {h[i] : i \in a + 1 .. n}
  BY <1>1, <1>2, <1>3, <1>4 DEF Awaiting
<1>6. /\ At = h[a] /\ At \in DOMAIN dstats
      /\ IsInjective(h) /\ DOMAIN h = 1 .. n
      /\ At \notin dstat_tree[0] /\ At \notin dstat_tree[1]
  <2>1. At \in ToSet(ivl.head) /\ At = h[a] /\ At \in DOMAIN dstats
    BY <1>1, <1>3, <1>4, AtFacts
  <2>2. h \in Seq(Nat)
    BY <1>4 DEF ThreadTypes
  <2>3. IsInjective(h) /\ \A c \in 0 .. 1 : dstat_tree[c] \cap ToSet(ivl.head) = {}
    BY <1>4, HomeFacts
  <2> QED
    BY <1>3, <1>4, <2>1, <2>2, <2>3
<1>7. \A i \in Awaiting : i = At \/ i \in Awaiting'
  <2>1. \A i \in a .. n : i = a \/ i \in a + 1 .. n
    BY <1>3
  <2> QED
    BY <1>5, <1>6, <2>1
<1>8. \A i \in Awaiting' : i \in Awaiting /\ i # At
  <2>1. \A i \in a + 1 .. n : i \in a .. n /\ i # a /\ i \in 1 .. n
    BY <1>3
  <2>2. \A i \in a + 1 .. n : h[i] # h[a]
    BY <1>3, <1>6, <2>1 DEF IsInjective
  <2> QED
    BY <1>5, <1>6, <2>1, <2>2
<1>9. Accounted' = Accounted /\ Sized' = Sized
  BY <1>1, AccountedSame
<1>10. \A io \in Sized' \ late' :
          <<"size", io>> \in printed' \/ \E i \in Awaiting' : io \in dstats'[i].sizes
  <2>1. ASSUME NEW io \in Sized \ late
        PROVE  <<"size", io>> \in printed' \/ \E i \in Awaiting' : io \in dstats[i].sizes
    <3>1. <<"size", io>> \in printed \/ \E i \in Awaiting : io \in dstats[i].sizes
      BY DEF Accounts
    <3>2. <<"size", io>> \in printed' <=> <<"size", io>> \in printed \/ io \in dstats[At].sizes
      BY PrintFacts
    <3> QED
      BY <1>7, <3>1, <3>2
  <2> QED
    BY <1>1, <1>9, <2>1
<1>11. \A io \in Accounted' \ late' :
          <<"d2c", io>> \in printed' \/ \E i \in Awaiting' : io \in dstats'[i].d2cs
  <2>1. ASSUME NEW io \in Accounted \ late
        PROVE  <<"d2c", io>> \in printed' \/ \E i \in Awaiting' : io \in dstats[i].d2cs
    <3>1. <<"d2c", io>> \in printed \/ \E i \in Awaiting : io \in dstats[i].d2cs
      BY DEF Accounts
    <3>2. <<"d2c", io>> \in printed' <=> <<"d2c", io>> \in printed \/ io \in dstats[At].d2cs
      BY PrintFacts
    <3> QED
      BY <1>7, <3>1, <3>2
  <2> QED
    BY <1>1, <1>9, <2>1
<1>12. \A i \in Awaiting' :
          /\ \A io \in dstats'[i].sizes : <<"size", io>> \notin printed'
          /\ \A io \in dstats'[i].d2cs : <<"d2c", io>> \notin printed'
  <2>1. ASSUME NEW i \in Awaiting'
        PROVE  /\ \A io \in dstats[i].sizes : <<"size", io>> \notin printed'
               /\ \A io \in dstats[i].d2cs : <<"d2c", io>> \notin printed'
    <3>1. i \in Awaiting /\ i # At /\ i \in DOMAIN dstats
      BY <1>8, AwaitingFacts
    <3>2. /\ \A io \in dstats[i].sizes : <<"size", io>> \notin printed
          /\ \A io \in dstats[i].d2cs : <<"d2c", io>> \notin printed
      BY <3>1 DEF Accounts
    <3>3. dstats[i].sizes \cap dstats[At].sizes = {} /\ dstats[i].d2cs \cap dstats[At].d2cs = {}
      BY <1>6, <3>1 DEF Accounts
    <3>4. \A io : /\ <<"size", io>> \in printed' <=> <<"size", io>> \in printed \/ io \in dstats[At].sizes
                  /\ <<"d2c", io>> \in printed' <=> <<"d2c", io>> \in printed \/ io \in dstats[At].d2cs
      BY PrintFacts
    <3> QED
      BY <3>2, <3>3, <3>4
  <2> QED
    BY <1>1, <2>1
<1>13. \A i, j \in DOMAIN dstats' : i # j =>
          /\ dstats'[i].sizes \cap dstats'[j].sizes = {}
          /\ dstats'[i].d2cs \cap dstats'[j].d2cs = {}
  BY <1>1 DEF Accounts
<1> QED
  BY <1>10, <1>11, <1>12, <1>13 DEF Accounts

-----------------------------------------------------------------------------
(* The theorems. *)

LEMMA InitInv == Init => IInv
<1> SUFFICES ASSUME Init PROVE IInv
  OBVIOUS
<1>1. KernelTypes
  <2>1. MaxIos \in Nat
    OBVIOUS
  <2> QED
    BY <2>1 DEF Init, KernelTypes
<1>2. /\ dstats = <<>> /\ vacant = <<>> /\ dstat_curr = 0
      /\ dstat_list = [i \in 0 .. 1 |-> <<>>] /\ dstat_tree = [i \in 0 .. 1 |-> {}]
      /\ main = [pc |-> "read", io |-> 0, d |-> 0]
      /\ ivl = [pc |-> "sleep", finished |-> 0, head |-> <<>>, at |-> 1]
      /\ pairs = {} /\ printed = {} /\ pipe = {} /\ thash = {} /\ nios = 0
  BY DEF Init
<1>3. DOMAIN dstats = {}
  BY <1>2
<1>4. DstatTypes
  <2>1. <<>> \in Seq(Nat) /\ <<>> \in Seq(Stats)
    OBVIOUS
  <2> QED
    BY <1>2, <2>1 DEF DstatTypes
<1>5. ThreadTypes
  <2>1. <<>> \in Seq(Nat)
    OBVIOUS
  <2>2. PICK e : e = <<>>
    OBVIOUS
  <2>3. ivl = [pc |-> "sleep", finished |-> 0, head |-> e, at |-> 1] /\ e \in Seq(Nat)
    BY <1>2, <2>1, <2>2
  <2>4. /\ ivl \in [pc : {"sleep", "grab", "print", "convert", "give"}, finished : 0 .. 1,
                    head : Seq(Nat), at : Nat]
        /\ ivl.pc = "sleep" /\ ivl.head = e
    BY <2>3
  <2> QED
    BY <1>2, <2>2, <2>4 DEF ThreadTypes
<1>6. OneHome
  <2>1. dstat_list[0] = <<>> /\ dstat_list[1] = <<>> /\ ivl.head = <<>> /\ vacant = <<>>
    BY <1>2
  <2>2. \A i \in 0 .. 1 : dstat_list[i] = <<>> /\ dstat_tree[i] = {}
    BY <1>2
  <2>3. Trees
    BY <2>2, ElementsNone DEF Trees
  <2>4. Apart(<<>>, <<>>, <<>>, <<>>, {})
    BY ElementsNone DEF Apart
  <2> QED
    BY <1>3, <2>1, <2>3, <2>4, HomeIs
<1>7. PairsMatch
  BY <1>2 DEF PairsMatch
<1>8. InTurns
  <2>1. \A k \in Keys : ios[k] = 0
    BY DEF Init
  <2>2. \A k : OfKey(pipe, k) = {} /\ OfKey(thash, k) = {}
    BY <1>2 DEF OfKey
  <2>3. Turn({}, {}, 0)
    BY DEF Turn
  <2> QED
    BY <1>1, <2>1, <2>2, <2>3 DEF InTurns, InTurn, KernelTypes
<1>9. IssuesOnce
  <2>1. \A io : ~SizeUsed(io) /\ ~D2cUsed(io)
    BY <1>2, <1>3 DEF SizeUsed, D2cUsed
  <2>2. main.pc = "read" /\ main.io = 0
    BY <1>2
  <2> QED
    BY <1>2, <2>1, <2>2 DEF IssuesOnce
<1>10. Accounts
  <2>1. Sized = {} /\ Accounted = {}
    BY <1>2 DEF Sized, Accounted
  <2>2. Awaiting = {}
    BY <1>2 DEF Awaiting
  <2> QED
    BY <1>3, <2>1, <2>2 DEF Accounts
<1> QED
  BY <1>1, <1>4, <1>5, <1>6, <1>7, <1>8, <1>9, <1>10 DEF IInv

LEMMA AccountsStep ==
    ASSUME KernelTypes, DstatTypes, ThreadTypes, OneHome, IssuesOnce, Accounts, Next
    PROVE  Accounts'
  BY AccountsMoveStep, AccountsReadStep, AccountsGetStep, AccountsSizeStep, AccountsD2cStep,
     AccountsPrintStep DEF Next

LEMMA NextInv == IInv /\ [Next]_vars => IInv'
<1> SUFFICES ASSUME IInv, [Next]_vars PROVE IInv'
  OBVIOUS
<1>1. /\ KernelTypes /\ DstatTypes /\ ThreadTypes /\ OneHome /\ PairsMatch /\ InTurns
      /\ IssuesOnce /\ Accounts
  BY DEF IInv
<1>2. CASE Next
  <2>1. KernelTypes'
    BY <1>1, <1>2, KernelTypesStep
  <2>2. DstatTypes' /\ OneHome'
    BY <1>1, <1>2, HomeStep
  <2>3. ThreadTypes'
    BY <1>1, <1>2, ThreadTypesStep
  <2>4. PairsMatch' /\ InTurns'
    BY <1>1, <1>2, PairsStep
  <2>5. IssuesOnce'
    BY <1>1, <1>2, IssuesStep
  <2>6. Accounts'
    BY <1>1, <1>2, AccountsStep
  <2> QED
    BY <2>1, <2>2, <2>3, <2>4, <2>5, <2>6 DEF IInv
<1>3. CASE UNCHANGED vars
  <2>1. UNCHANGED <<now, ios, nios, pipe, thash, dstats, dstat_list, dstat_tree, dstat_curr, vacant,
                    main, ivl, pairs, printed, late, ordered>>
    BY <1>3 DEF vars, kernelVars, dstatVars, histVars
  <2>2. KernelTypes'
    BY <1>1, <2>1 DEF KernelTypes
  <2>3. DstatTypes'
    BY <1>1, <2>1 DEF DstatTypes
  <2>4. ThreadTypes'
    BY <1>1, <2>1 DEF ThreadTypes
  <2>5. OneHome'
    BY <1>1, <2>1, HomeFrame
  <2>6. PairsMatch' /\ InTurns'
    BY <1>1, <2>1 DEF PairsMatch, InTurns, InTurn
  <2>7. IssuesOnce'
    BY <1>1, <2>1, IssuesFrame DEF SizeUsed, D2cUsed
  <2>8. Accounts'
    <3>1. Awaiting' = Awaiting
      BY <2>1 DEF Awaiting
    <3> QED
      BY <1>1, <2>1, <3>1, AccountedSame, AccountsFrame
  <2> QED
    BY <2>2, <2>3, <2>4, <2>5, <2>6, <2>7, <2>8 DEF IInv
<1> QED
  BY <1>2, <1>3

\* The two threads, in any order of steps: the invariant the properties rest on.
THEOREM InductiveInvariant == Spec => []IInv
<1> QED
  BY InitInv, NextInv, PTL DEF Spec

\* blkiomon_get_dstat and blkiomon_interval: whichever thread takes a list, puts one back or
\* adds to one, every struct dstat is on one list once, and a tree holds its list.
THEOREM OneOwner == Spec => []OneHome
<1>1. IInv => OneHome
  BY DEF IInv
<1> QED
  BY <1>1, InductiveInvariant, PTL

\* blkiomon_do_trace: what it stores and what it pairs, in whatever order the traces come.
THEOREM PairsAreMatched == Spec => []PairsMatch
<1>1. IInv => PairsMatch
  BY DEF IInv
<1> QED
  BY <1>1, InductiveInvariant, PTL

\* blkiomon_account and blkiomon_output: an IO accounted for is printed once, in both members,
\* but for one added to a struct dstat that was taken away meanwhile.
THEOREM AccountsPrinted == Spec => []AccountsArePrinted
<1>1. IInv => AccountsArePrinted
  <2> SUFFICES ASSUME IInv PROVE AccountsArePrinted
    OBVIOUS
  <2>1. Accounts /\ Accounted \subseteq Sized
    BY DEF IInv, Sized
  <2>2. Awaiting \subseteq DOMAIN dstats
    BY AwaitingFacts DEF IInv
  <2>3. \A io \in Accounted \ late :
          /\ <<"size", io>> \in printed \/ \E i \in Awaiting : io \in dstats[i].sizes
          /\ <<"d2c", io>> \in printed \/ \E i \in Awaiting : io \in dstats[i].d2cs
    BY <2>1 DEF Accounts
  <2>4. \A i \in Awaiting :
          /\ \A io \in dstats[i].sizes : <<"size", io>> \notin printed
          /\ \A io \in dstats[i].d2cs : <<"d2c", io>> \notin printed
          /\ \A j \in Awaiting \ {i} : dstats[i].sizes \cap dstats[j].sizes = {}
    BY <2>1, <2>2 DEF Accounts
  <2> QED
    BY <2>3, <2>4 DEF AccountsArePrinted
<1> QED
  BY <1>1, InductiveInvariant, PTL

=============================================================================
