-------------------------- MODULE TraceBufs_proofs --------------------------
(***************************************************************************)
(* For any number of devices and CPUs, any events and any size of a read:  *)
(* blktrace that writes to a pipe or sends counts its buffers right, never *)
(* sleeps on work, doubles and reorders nothing, loses only what goes with *)
(* a failed write or send, and so implements TraceStream.                  *)
(***************************************************************************)
EXTENDS TraceBufs, FiniteSetTheorems, SequenceTheorems, TLAPS

-----------------------------------------------------------------------------
(* Natural numbers and sums. *)

\* A set of natural numbers has a least one: their beginnings 0 .. n are finite
\* sets, which the strict subset relation orders.
LEMMA LeastNat ==
    ASSUME NEW S \in SUBSET Nat, S # {}
    PROVE  \E m \in S : \A k \in S : m <= k
<1> DEFINE R == StrictSubsetOrdering(Nat)
           T == {0 .. n : n \in S}
<1>1. IsWellFoundedOn(R, FiniteSubsetsOf(Nat))
  BY FS_StrictSubsetOrderingWellFounded
<1>2. T \subseteq FiniteSubsetsOf(Nat) /\ T # {}
  <2>1. \A n \in S : 0 .. n \subseteq Nat /\ IsFiniteSet(0 .. n)
    BY FS_Interval
  <2> QED
    BY <2>1 DEF FiniteSubsetsOf
<1>3. \E x \in T : \A y \in T : ~(<<y, x>> \in R)
  <2> HIDE DEF R, T
  <2> QED
    BY <1>1, <1>2, WFMin
<1>4. PICK m \in S : \A k \in S : ~(<<0 .. k, 0 .. m>> \in R)
  BY <1>3
<1>5. ASSUME NEW k \in S, k < m
      PROVE  <<0 .. k, 0 .. m>> \in R
  BY <1>5 DEF StrictSubsetOrdering
<1>6. \A k \in S : ~(k < m)
  <2> HIDE DEF R, T
  <2> QED
    BY <1>4, <1>5
<1> QED
  BY <1>6

\* A property (as a set) that holds at 0 and is passed on holds up to n.
LEMMA UpTo ==
    ASSUME NEW n \in Nat, NEW S, 0 \in S, \A k \in 0 .. n - 1 : k \in S => k + 1 \in S
    PROVE  \A k \in 0 .. n : k \in S
<1> DEFINE Bad == {k \in 0 .. n : k \notin S}
<1> SUFFICES ASSUME Bad # {} PROVE FALSE
  OBVIOUS
<1>1. PICK k \in Bad : \A j \in Bad : k <= j
  <2>1. Bad \in SUBSET Nat
    OBVIOUS
  <2> HIDE DEF Bad
  <2> QED
    BY <2>1, LeastNat
<1>2. k # 0 /\ k - 1 \in 0 .. n - 1 /\ k - 1 \in S
  BY <1>1
<1> QED
  BY <1>1, <1>2

\* The largest element of a set of natural numbers with a bound.
LEMMA MaxOfBounded ==
    ASSUME NEW S \in SUBSET Nat, S # {}, NEW b \in Nat, \A x \in S : x <= b
    PROVE  Max(S) \in S /\ \A x \in S : x <= Max(S)
<1> DEFINE T == {b - x : x \in S}
<1>1. T \in SUBSET Nat /\ T # {}
  <2>1. \A x \in S : b - x \in Nat
    OBVIOUS
  <2> QED
    BY <2>1
<1>2. PICK m \in T : \A k \in T : m <= k
  <2> HIDE DEF T
  <2> QED
    BY <1>1, LeastNat
<1>3. PICK x \in S : m = b - x
  OBVIOUS
<1>4. \A y \in S : b - y \in T
  OBVIOUS
<1>5. ASSUME NEW y \in S PROVE x >= y
  <2>1. m <= b - y
    BY <1>2, <1>4
  <2>2. x \in Nat /\ y \in Nat
    OBVIOUS
  <2> HIDE DEF T
  <2> QED
    BY <1>3, <2>1, <2>2
<1> QED
  BY <1>5 DEF Max

\* The part of one argument in a sum.
LEMMA UnitsOfOne ==
    ASSUME NEW x, NEW k \in Nat
    PROVE  IsFiniteSet({x} \X (1 .. k)) /\ Cardinality({x} \X (1 .. k)) = k
<1>1. IsFiniteSet(1 .. k) /\ Cardinality(1 .. k) = k
  BY FS_Interval
<1>2. IsFiniteSet({x}) /\ Cardinality({x}) = 1
  BY FS_Singleton
<1>3. /\ IsFiniteSet({x} \X (1 .. k))
      /\ Cardinality({x} \X (1 .. k)) = Cardinality({x}) * Cardinality(1 .. k)
  BY <1>1, <1>2, FS_Product, Zenon
<1> QED
  BY <1>1, <1>2, <1>3

\* The sum of a function into Nat that changes at one argument.
LEMMA TotalChange ==
    ASSUME NEW X, IsFiniteSet(X), NEW f \in [X -> Nat], IsFiniteSet(Units(f)),
           NEW x \in X, NEW g \in [X -> Nat], \A y \in X : y # x => g[y] = f[y]
    PROVE  IsFiniteSet(Units(g)) /\ Total(g) = Total(f) - f[x] + g[x]
<1> DEFINE Old == {x} \X (1 .. f[x])
           New == {x} \X (1 .. g[x])
           Rest == Units(f) \ Old
<1>1. f[x] \in Nat /\ g[x] \in Nat
  OBVIOUS
<1>2. IsFiniteSet(Old) /\ Cardinality(Old) = f[x] /\ IsFiniteSet(New) /\ Cardinality(New) = g[x]
  BY <1>1, UnitsOfOne
<1>3. Units(f) \cap Old = Old /\ Rest \cap New = {} /\ Units(g) = Rest \cup New
  BY DEF Units
<1>4. IsFiniteSet(Rest) /\ Cardinality(Rest) = Cardinality(Units(f)) - f[x]
  <2> HIDE DEF Old
  <2>1. /\ IsFiniteSet(Rest)
        /\ Cardinality(Rest) = Cardinality(Units(f)) - Cardinality(Units(f) \cap Old)
    BY FS_Difference, Zenon
  <2> QED
    BY <1>2, <1>3, <2>1
<1>5. IsFiniteSet(Units(g)) /\ Cardinality(Units(g)) = Cardinality(Rest) + g[x]
  <2> HIDE DEF Rest, New
  <2>1. Cardinality({}) = 0
    BY FS_EmptySet
  <2>2. Cardinality(Rest) \in Int
    BY <1>4, FS_CardinalityType
  <2>3. /\ IsFiniteSet(Rest \cup New)
        /\ Cardinality(Rest \cup New)
              = Cardinality(Rest) + Cardinality(New) - Cardinality(Rest \cap New)
    BY <1>2, <1>4, FS_Union, Zenon
  <2>4. IsFiniteSet(Units(g)) /\ Cardinality(Units(g))
            = Cardinality(Rest) + Cardinality(New) - Cardinality({})
    BY <1>3, <2>3, Zenon
  <2> QED
    BY <1>2, <2>1, <2>2, <2>4
<1> QED
  BY <1>4, <1>5 DEF Total

\* The sum of nothing.
LEMMA TotalZero ==
    ASSUME NEW f, \A x \in DOMAIN f : f[x] = 0
    PROVE  IsFiniteSet(Units(f)) /\ Total(f) = 0
<1>1. Units(f) = {}
  BY DEF Units
<1> QED
  BY <1>1, FS_EmptySet DEF Total

\* A sum that is 0 is one of zeros.
LEMMA TotalIsZero ==
    ASSUME NEW X, NEW f \in [X -> Nat], IsFiniteSet(Units(f)), Total(f) = 0
    PROVE  \A x \in X : f[x] = 0
<1>1. Units(f) = {}
  BY FS_EmptySet DEF Total
<1>2. ASSUME NEW x \in X, f[x] # 0 PROVE <<x, 1>> \in Units(f)
  BY <1>2 DEF Units
<1> QED
  BY <1>1, <1>2

-----------------------------------------------------------------------------
(* Runs of units, and lists of buffers that follow each other. *)

\* The units of a stream behind a up to b.
Run(a, b) == [k \in 1 .. b - a |-> a + k]

\* The buffers of q are the runs from a to z, one behind the other: at is where
\* each ends.
ChainAt(q, at) ==
    /\ q \in Seq(Seq(Nat))
    /\ at \in [0 .. Len(q) -> Nat]
    /\ \A i \in 1 .. Len(q) : at[i - 1] < at[i] /\ q[i] = Run(at[i - 1], at[i])

Chain(q, a, z) == \E at : ChainAt(q, at) /\ at[0] = a /\ at[Len(q)] = z

LEMMA RunIsSeq ==
    ASSUME NEW a \in Nat, NEW b \in Nat, a <= b
    PROVE  Run(a, b) \in Seq(Nat) /\ Len(Run(a, b)) = b - a
<1>1. b - a \in Nat
  OBVIOUS
<1>2. \A k \in 1 .. b - a : a + k \in Nat
  OBVIOUS
<1> QED
  BY <1>1, <1>2 DEF Run

\* Two runs that meet are one.
LEMMA RunConcat ==
    ASSUME NEW a \in Nat, NEW b \in Nat, NEW c \in Nat, a <= b, b <= c
    PROVE  Run(a, b) \o Run(b, c) = Run(a, c)
<1>1. /\ Run(a, b) \in Seq(Nat) /\ Len(Run(a, b)) = b - a
      /\ Run(b, c) \in Seq(Nat) /\ Len(Run(b, c)) = c - b
      /\ Run(a, c) \in Seq(Nat) /\ Len(Run(a, c)) = c - a
  <2>1. a <= c
    OBVIOUS
  <2> QED
    BY <2>1, RunIsSeq, Zenon
<1>2. Len(Run(a, b) \o Run(b, c)) = c - a
  BY <1>1
<1>3. \A k \in 1 .. c - a : (Run(a, b) \o Run(b, c))[k] = Run(a, c)[k]
  BY <1>1 DEF Run
<1>4. Run(a, b) \o Run(b, c) \in Seq(Nat)
  BY <1>1
<1> HIDE DEF Run
<1> QED
  BY <1>1, <1>2, <1>3, <1>4, SeqEqual

\* A run can be cut anywhere.
LEMMA RunCut ==
    ASSUME NEW a \in Nat, NEW b \in Nat, NEW off \in Nat, a + off <= b
    PROVE  /\ SubSeq(Run(a, b), 1, off) = Run(a, a + off)
           /\ SubSeq(Run(a, b), off + 1, Len(Run(a, b))) = Run(a + off, b)
<1>1. /\ Run(a, b) \in Seq(Nat) /\ Len(Run(a, b)) = b - a
      /\ Run(a, a + off) \in Seq(Nat) /\ Len(Run(a, a + off)) = off
      /\ Run(a + off, b) \in Seq(Nat) /\ Len(Run(a + off, b)) = b - (a + off)
  <2>1. a <= b /\ a + off \in Nat /\ a <= a + off /\ (a + off) - a = off
    OBVIOUS
  <2> QED
    BY <2>1, RunIsSeq
<1>2. /\ SubSeq(Run(a, b), 1, off) \in Seq(Nat)
      /\ Len(SubSeq(Run(a, b), 1, off)) = off
      /\ \A k \in 1 .. off : SubSeq(Run(a, b), 1, off)[k] = Run(a, a + off)[k]
  BY <1>1 DEF Run
<1>3. /\ SubSeq(Run(a, b), off + 1, b - a) \in Seq(Nat)
      /\ Len(SubSeq(Run(a, b), off + 1, b - a)) = b - (a + off)
      /\ \A k \in 1 .. b - (a + off) : SubSeq(Run(a, b), off + 1, b - a)[k] = Run(a + off, b)[k]
  BY <1>1 DEF Run
<1>4. SubSeq(Run(a, b), 1, off) = Run(a, a + off)
  BY <1>1, <1>2, SeqEqual, Zenon
<1>5. SubSeq(Run(a, b), off + 1, b - a) = Run(a + off, b)
  BY <1>1, <1>3, SeqEqual, Zenon
<1> QED
  BY <1>1, <1>4, <1>5, Zenon

\* The units of a run behind the first n.
LEMMA RunRest ==
    ASSUME NEW a \in Nat, NEW b \in Nat, NEW n \in Nat, a + n <= b
    PROVE  {Run(a, b)[k] : k \in n + 1 .. Len(Run(a, b))} = a + n + 1 .. b
<1>1. Len(Run(a, b)) = b - a
  <2>1. a <= b
    OBVIOUS
  <2> QED
    BY <2>1, RunIsSeq, Zenon
<1>2. ASSUME NEW k \in n + 1 .. b - a PROVE Run(a, b)[k] = a + k /\ a + k \in a + n + 1 .. b
  BY DEF Run
<1>3. ASSUME NEW u \in a + n + 1 .. b PROVE u - a \in n + 1 .. b - a /\ a + (u - a) = u
  OBVIOUS
<1>4. {Run(a, b)[k] : k \in n + 1 .. b - a} = a + n + 1 .. b
  <2> HIDE DEF Run
  <2>1. \A u \in a + n + 1 .. b : \E k \in n + 1 .. b - a : Run(a, b)[k] = u
    BY <1>2, <1>3
  <2> QED
    BY <1>2, <2>1
<1> QED
  BY <1>1, <1>4

\* o is what is out of the units up to y, if those in l are lost.
Behind(o, l, y) ==
    /\ l \subseteq 1 .. y
    /\ ToSet(o) = (1 .. y) \ l
    /\ \A i, j \in 1 .. Len(o) : i < j => o[i] < o[j]
    /\ l = {} => o = Run(0, y)

\* The next units come out, behind all that did.
LEMMA BehindAdd ==
    ASSUME NEW o \in Seq(Nat), NEW l, NEW y \in Nat, NEW n \in Nat, y <= n, Behind(o, l, y)
    PROVE  o \o Run(y, n) \in Seq(Nat) /\ Behind(o \o Run(y, n), l, n)
<1> DEFINE r == Run(y, n)
           q == o \o r
<1>1. r \in Seq(Nat) /\ Len(r) = n - y /\ \A k \in 1 .. n - y : r[k] = y + k
  BY RunIsSeq DEF Run
<1> HIDE DEF r
<1>2. PICK m \in Nat, d \in Nat : m = Len(o) /\ d = n - y
  OBVIOUS
<1>3. /\ q \in Seq(Nat) /\ Len(q) = m + d
      /\ \A i \in 1 .. m : q[i] = o[i]
      /\ \A k \in 1 .. d : q[m + k] = r[k]
  <2>1. o \o r \in Seq(Nat) /\ Len(o \o r) = m + d
    BY <1>1, <1>2
  <2>2. \A i \in 1 .. m : (o \o r)[i] = o[i]
    BY <1>1, <1>2
  <2>3. \A k \in 1 .. d : (o \o r)[m + k] = r[k]
    BY <1>1, <1>2
  <2> QED
    BY <2>1, <2>2, <2>3
<1> HIDE DEF q
<1>4. l \subseteq 1 .. n
  BY DEF Behind
<1>5. \A i \in 1 .. m : o[i] \in 1 .. y /\ o[i] \notin l
  <2>1. \A i \in 1 .. m : o[i] \in ToSet(o)
    BY <1>2 DEF ToSet
  <2> QED
    BY <2>1 DEF Behind
<1>6. \A i \in 1 .. m + d : i \notin 1 .. m => i - m \in 1 .. d /\ i = m + (i - m)
  BY <1>2
<1>7. \A i \in 1 .. m + d : i \notin 1 .. m => q[i] = y + (i - m) /\ i - m \in 1 .. d
  <2> SUFFICES ASSUME NEW i \in 1 .. m + d, i \notin 1 .. m
               PROVE  q[i] = y + (i - m) /\ i - m \in 1 .. d
    OBVIOUS
  <2>1. PICK k \in 1 .. d : i = m + k /\ k = i - m
    BY <1>6
  <2>2. q[m + k] = r[k] /\ r[k] = y + k
    BY <1>1, <1>2, <1>3
  <2> QED
    BY <2>1, <2>2
<1>8. ToSet(q) = (1 .. n) \ l
  <2>1. ASSUME NEW i \in 1 .. m + d PROVE q[i] \in (1 .. n) \ l
    <3>1. CASE i \in 1 .. m
      BY <1>3, <1>5, <3>1
    <3>2. CASE i \notin 1 .. m
      <4>1. PICK k \in 1 .. d : q[i] = y + k
        BY <1>7, <3>2
      <4>2. y + k \in 1 .. n /\ y + k \notin 1 .. y
        BY <1>2
      <4> QED
        BY <4>1, <4>2 DEF Behind
    <3> QED
      BY <3>1, <3>2
  <2>2. ASSUME NEW u \in (1 .. n) \ l PROVE \E i \in 1 .. m + d : q[i] = u
    <3>1. CASE u <= y
      <4>1. u \in ToSet(o)
        BY <3>1 DEF Behind
      <4>2. PICK i \in 1 .. m : o[i] = u
        BY <1>2, <4>1 DEF ToSet
      <4>3. q[i] = u /\ i \in 1 .. m + d
        BY <1>2, <1>3, <4>2
      <4> QED
        BY <4>3
    <3>2. CASE y < u
      <4>1. PICK k \in 1 .. d : u = y + k
        <5>1. u - y \in 1 .. d /\ u = y + (u - y)
          BY <1>2, <3>2
        <5> QED
          BY <5>1
      <4>2. m + k \in 1 .. m + d /\ q[m + k] = r[k] /\ r[k] = y + k
        BY <1>1, <1>2, <1>3
      <4> QED
        BY <4>1, <4>2
    <3> QED
      BY <3>1, <3>2
  <2>3. ToSet(q) = {q[i] : i \in 1 .. m + d}
    <3>1. DOMAIN q = 1 .. m + d
      BY <1>3
    <3> QED
      BY <3>1 DEF ToSet
  <2> QED
    BY <2>1, <2>2, <2>3
<1>9. ASSUME NEW i \in 1 .. m + d, NEW j \in 1 .. m + d, i < j PROVE q[i] < q[j]
  <2>1. CASE j \in 1 .. m
    <3>1. i \in 1 .. m
      BY <1>9, <2>1
    <3>2. o[i] < o[j]
      BY <1>2, <1>9, <2>1, <3>1 DEF Behind
    <3> QED
      BY <1>3, <2>1, <3>1, <3>2
  <2>2. CASE j \notin 1 .. m
    <3>1. q[j] = y + (j - m) /\ j - m \in 1 .. d
      BY <1>7, <2>2
    <3>2. CASE i \in 1 .. m
      <4>1. q[i] \in 1 .. y
        BY <1>3, <1>5, <3>2
      <4> QED
        BY <3>1, <4>1
    <3>3. CASE i \notin 1 .. m
      <4>1. q[i] = y + (i - m)
        BY <1>7, <3>3
      <4> QED
        BY <1>2, <1>9, <3>1, <4>1
    <3> QED
      BY <3>2, <3>3
  <2> QED
    BY <2>1, <2>2
<1>10. l = {} => q = Run(0, n)
  <2> SUFFICES ASSUME l = {} PROVE q = Run(0, n)
    OBVIOUS
  <2>1. o = Run(0, y)
    BY DEF Behind
  <2>2. 0 \in Nat /\ 0 <= y
    OBVIOUS
  <2>3. Run(0, y) \o Run(y, n) = Run(0, n)
    BY <2>2, RunConcat, Zenon
  <2> QED
    BY <2>1, <2>3 DEF q, r
<1>11. Behind(q, l, n)
  BY <1>3, <1>4, <1>8, <1>9, <1>10 DEF Behind
<1> QED
  BY <1>3, <1>11 DEF q, r

\* The next units are lost.
LEMMA BehindLose ==
    ASSUME NEW o, NEW l, NEW y \in Nat, NEW b \in Nat, y < b, Behind(o, l, y)
    PROVE  Behind(o, l \cup (y + 1 .. b), b) /\ l \cup (y + 1 .. b) # {}
<1>1. b \in y + 1 .. b
  OBVIOUS
<1>2. l \cup (y + 1 .. b) \subseteq 1 .. b
  BY DEF Behind
<1>3. (1 .. b) \ (l \cup (y + 1 .. b)) = (1 .. y) \ l
  BY DEF Behind
<1> QED
  BY <1>1, <1>2, <1>3 DEF Behind

\* If nothing was lost, all is out.
LEMMA BehindLen ==
    ASSUME NEW o, NEW y \in Nat, Behind(o, {}, y)
    PROVE  o = Run(0, y) /\ Len(o) = y
<1>1. 0 \in Nat /\ 0 <= y /\ y - 0 = y
  OBVIOUS
<1>2. Len(Run(0, y)) = y - 0
  BY <1>1, RunIsSeq, Zenon
<1> QED
  BY <1>1, <1>2 DEF Behind

\* No buffer spans nothing.
LEMMA ChainEmpty ==
    ASSUME NEW a \in Nat, NEW z
    PROVE  Chain(<<>>, a, z) <=> z = a
<1>1. ChainAt(<<>>, [i \in 0 .. 0 |-> a])
  BY DEF ChainAt
<1> QED
  BY <1>1 DEF Chain

\* Where a buffer ends is not before where the list begins.
LEMMA ChainUp ==
    ASSUME NEW q, NEW at, ChainAt(q, at)
    PROVE  \A i \in 0 .. Len(q) : at[i] \in Nat /\ at[0] <= at[i]
<1>1. Len(q) \in Nat /\ at \in [0 .. Len(q) -> Nat]
  BY DEF ChainAt
<1> DEFINE S == {i \in 0 .. Len(q) : at[0] <= at[i]}
<1>2. 0 \in S
  BY <1>1
<1>3. \A k \in 0 .. Len(q) - 1 : k \in S => k + 1 \in S
  <2> SUFFICES ASSUME NEW k \in 0 .. Len(q) - 1, at[0] <= at[k] PROVE at[0] <= at[k + 1]
    BY <1>1
  <2>1. at[(k + 1) - 1] < at[k + 1] /\ k + 1 \in 1 .. Len(q)
    BY <1>1 DEF ChainAt
  <2> QED
    BY <1>1, <2>1
<1>4. \A k \in 0 .. Len(q) : k \in S
  <2> HIDE DEF S
  <2> QED
    BY <1>1, <1>2, <1>3, UpTo
<1> QED
  BY <1>1, <1>4

LEMMA ChainType ==
    ASSUME NEW q, NEW a, NEW z, Chain(q, a, z)
    PROVE  q \in Seq(Seq(Nat)) /\ a \in Nat /\ z \in Nat /\ a <= z
<1>1. PICK at : ChainAt(q, at) /\ at[0] = a /\ at[Len(q)] = z
  BY DEF Chain
<1>2. q \in Seq(Seq(Nat)) /\ Len(q) \in Nat
  BY <1>1 DEF ChainAt
<1> QED
  BY <1>1, <1>2, ChainUp

\* A buffer goes to the end of the list.
LEMMA ChainAppend ==
    ASSUME NEW q, NEW a, NEW z, Chain(q, a, z), NEW k \in Nat \ {0}
    PROVE  Chain(Append(q, Run(z, z + k)), a, z + k)
<1>1. PICK at : ChainAt(q, at) /\ at[0] = a /\ at[Len(q)] = z
  BY DEF Chain
<1>2. q \in Seq(Seq(Nat)) /\ Len(q) \in Nat /\ z \in Nat /\ Run(z, z + k) \in Seq(Nat)
  <2>1. z \in Nat /\ q \in Seq(Seq(Nat))
    BY ChainType, Zenon
  <2>2. z + k \in Nat /\ z <= z + k
    BY <2>1
  <2>3. Run(z, z + k) \in Seq(Nat)
    BY <2>1, <2>2, RunIsSeq
  <2> QED
    BY <2>1, <2>3
<1> DEFINE n  == Len(q)
           qq == Append(q, Run(z, z + k))
           up == [i \in 0 .. n + 1 |-> IF i = n + 1 THEN z + k ELSE at[i]]
<1>3. qq \in Seq(Seq(Nat)) /\ Len(qq) = n + 1
  BY <1>2
<1>4. up \in [0 .. Len(qq) -> Nat]
  BY <1>1, <1>2, <1>3 DEF ChainAt
<1>5. ASSUME NEW i \in 1 .. Len(qq)
      PROVE  up[i - 1] < up[i] /\ qq[i] = Run(up[i - 1], up[i])
  <2>1. CASE i = n + 1
    BY <1>1, <1>2, <1>3, <2>1
  <2>2. CASE i \in 1 .. n
    <3>1. at[i - 1] < at[i] /\ q[i] = Run(at[i - 1], at[i])
      BY <1>1, <2>2 DEF ChainAt
    <3>2. qq[i] = q[i]
      BY <1>2, <2>2
    <3>3. up[i] = at[i] /\ up[i - 1] = at[i - 1]
      BY <2>2, <1>2
    <3> QED
      BY <3>1, <3>2, <3>3
  <2> QED
    BY <1>2, <1>3, <2>1, <2>2
<1>6. ChainAt(qq, up) /\ up[0] = a /\ up[Len(qq)] = z + k
  <2>1. up[0] = a /\ up[n + 1] = z + k
    BY <1>1, <1>2
  <2> HIDE DEF up, qq
  <2> QED
    BY <1>3, <1>4, <1>5, <2>1 DEF ChainAt
<1> QED
  BY <1>6 DEF Chain

\* The first buffer is taken off.
LEMMA ChainTail ==
    ASSUME NEW q, NEW a, NEW z, Chain(q, a, z), q # <<>>
    PROVE  \E b \in Nat : a < b /\ Head(q) = Run(a, b) /\ Chain(Tail(q), b, z)
<1>1. PICK at : ChainAt(q, at) /\ at[0] = a /\ at[Len(q)] = z
  BY DEF Chain
<1>2. q \in Seq(Seq(Nat)) /\ Len(q) \in Nat \ {0} /\ at \in [0 .. Len(q) -> Nat]
  BY <1>1 DEF ChainAt
<1> DEFINE up == [i \in 0 .. Len(q) - 1 |-> at[i + 1]]
<1>3. Tail(q) \in Seq(Seq(Nat)) /\ Len(Tail(q)) = Len(q) - 1
  BY <1>2
<1>4. ASSUME NEW i \in 1 .. Len(Tail(q))
      PROVE  up[i - 1] < up[i] /\ Tail(q)[i] = Run(up[i - 1], up[i])
  <2>1. i + 1 \in 1 .. Len(q) /\ (i + 1) - 1 = i
    BY <1>2, <1>3
  <2>2. at[(i + 1) - 1] < at[i + 1] /\ q[i + 1] = Run(at[(i + 1) - 1], at[i + 1])
    BY <1>1, <2>1 DEF ChainAt
  <2>3. Tail(q)[i] = q[i + 1]
    BY <1>2, <1>3
  <2>4. up[i - 1] = at[i] /\ up[i] = at[i + 1]
    BY <1>2, <1>3
  <2> QED
    BY <2>1, <2>2, <2>3, <2>4
<1>5. up \in [0 .. Len(Tail(q)) -> Nat]
  BY <1>2, <1>3
<1>6. ChainAt(Tail(q), up) /\ up[0] = at[1] /\ up[Len(Tail(q))] = z
  <2>1. up[0] = at[1] /\ up[Len(q) - 1] = z
    BY <1>1, <1>2
  <2> HIDE DEF up
  <2> QED
    BY <1>3, <1>4, <1>5, <2>1 DEF ChainAt
<1>7. at[1] \in Nat /\ a < at[1] /\ Head(q) = Run(a, at[1])
  <2>1. 1 \in 1 .. Len(q) /\ 1 \in 0 .. Len(q) /\ 1 - 1 = 0
    BY <1>2
  <2>2. at[0] < at[1] /\ q[1] = Run(at[0], at[1])
    BY <1>1, <2>1 DEF ChainAt
  <2>3. at[1] \in Nat
    BY <1>2, <2>1
  <2>4. Head(q) = q[1]
    BY <1>2
  <2> QED
    BY <1>1, <2>2, <2>3, <2>4
<1> QED
  BY <1>6, <1>7 DEF Chain

\* What a chain of buffers holds is one run. FlattenSeq is a recursive function:
\* the runs from a satisfy its equation, so that there is such a function, and any
\* that does (FlatIsRuns) agrees with them, from the first buffer on.
LEMMA ChainRuns ==
    ASSUME NEW q, NEW at, ChainAt(q, at), NEW i \in 1 .. Len(q)
    PROVE  Run(at[0], at[i]) = IF i = 1 THEN q[i] ELSE Run(at[0], at[i - 1]) \o q[i]
<1>1. q[i] = Run(at[i - 1], at[i]) /\ at[i - 1] < at[i] /\ Len(q) \in Nat
  BY DEF ChainAt
<1>2. \A k \in 0 .. Len(q) : at[k] \in Nat /\ at[0] <= at[k]
  BY ChainUp, Zenon
<1>3. i - 1 \in 0 .. Len(q) /\ i \in 0 .. Len(q) /\ 0 \in 0 .. Len(q)
  BY <1>1
<1>4. Run(at[0], at[i - 1]) \o Run(at[i - 1], at[i]) = Run(at[0], at[i])
  <2>1. at[i - 1] <= at[i]
    BY <1>1, <1>2, <1>3
  <2> QED
    BY <1>2, <1>3, <2>1, RunConcat, Zenon
<1> QED
  BY <1>1, <1>4

LEMMA FlatIsRuns ==
    ASSUME NEW q, NEW at, ChainAt(q, at), Len(q) # 0, NEW flat,
           flat = [i \in 1 .. Len(q) |-> IF i = 1 THEN q[i] ELSE flat[i - 1] \o q[i]]
    PROVE  flat[Len(q)] = Run(at[0], at[Len(q)])
<1>1. Len(q) \in Nat \ {0}
  BY DEF ChainAt
<1>2. \A i \in 1 .. Len(q) : flat[i] = IF i = 1 THEN q[i] ELSE flat[i - 1] \o q[i]
  OBVIOUS
<1> DEFINE S == {n \in 0 .. Len(q) - 1 : flat[n + 1] = Run(at[0], at[n + 1])}
<1>3. 0 \in S
  <2>1. 1 \in 1 .. Len(q)
    BY <1>1
  <2>2. flat[1] = q[1] /\ Run(at[0], at[1]) = q[1]
    BY <1>2, <2>1, ChainRuns
  <2> QED
    BY <1>1, <2>2
<1>4. ASSUME NEW k \in 0 .. (Len(q) - 1) - 1, k \in S
      PROVE  k + 1 \in S
  <2>1. /\ k + 2 \in 1 .. Len(q) /\ k + 2 # 1 /\ (k + 2) - 1 = k + 1
        /\ k + 1 \in 0 .. Len(q) - 1 /\ (k + 1) + 1 = k + 2
    BY <1>1
  <2>2. flat[k + 2] = flat[k + 1] \o q[k + 2]
    BY <1>2, <2>1
  <2>3. Run(at[0], at[k + 2]) = Run(at[0], at[k + 1]) \o q[k + 2]
    <3>1. PICK i \in 1 .. Len(q) : i = k + 2 /\ i # 1 /\ i - 1 = k + 1
      BY <2>1
    <3>2. Run(at[0], at[i]) = IF i = 1 THEN q[i] ELSE Run(at[0], at[i - 1]) \o q[i]
      BY ChainRuns, Zenon
    <3> QED
      BY <3>1, <3>2, Zenon
  <2>4. flat[k + 1] = Run(at[0], at[k + 1])
    BY <1>4
  <2> QED
    BY <2>1, <2>2, <2>3, <2>4
<1>5. Len(q) - 1 \in S
  <2> HIDE DEF S
  <2>1. Len(q) - 1 \in Nat /\ Len(q) - 1 \in 0 .. Len(q) - 1
    BY <1>1
  <2> QED
    BY <1>3, <1>4, <2>1, UpTo
<1> QED
  BY <1>1, <1>5

LEMMA FlattenChain ==
    ASSUME NEW q, NEW a, NEW z, Chain(q, a, z)
    PROVE  FlattenSeq(q) = Run(a, z)
<1>1. PICK at : ChainAt(q, at) /\ at[0] = a /\ at[Len(q)] = z
  BY DEF Chain
<1>2. q \in Seq(Seq(Nat)) /\ Len(q) \in Nat /\ a \in Nat
  <2>1. q \in Seq(Seq(Nat)) /\ a \in Nat
    BY ChainType, Zenon
  <2> QED
    BY <2>1
<1>3. CASE Len(q) = 0
  <2>1. q = <<>> /\ FlattenSeq(q) = <<>>
    BY <1>2, <1>3 DEF FlattenSeq
  <2>2. Run(a, z) = <<>>
    <3>1. z = a
      BY <1>1, <1>3
    <3>2. Run(a, a) \in Seq(Nat) /\ Len(Run(a, a)) = 0
      BY <1>2, RunIsSeq
    <3> QED
      BY <3>1, <3>2
  <2> QED
    BY <2>1, <2>2
<1>4. CASE Len(q) # 0
  <2> DEFINE F(g) == [i \in 1 .. Len(q) |-> IF i = 1 THEN q[i] ELSE g[i - 1] \o q[i]]
             runs == [i \in 1 .. Len(q) |-> Run(a, at[i])]
             flat == CHOOSE flat : flat = F(flat)
  <2>1. runs = F(runs)
    <3>1. ASSUME NEW i \in 1 .. Len(q)
          PROVE  runs[i] = IF i = 1 THEN q[i] ELSE runs[i - 1] \o q[i]
      <4>1. Run(a, at[i]) = IF i = 1 THEN q[i] ELSE Run(a, at[i - 1]) \o q[i]
        BY <1>1, ChainRuns, Zenon
      <4>2. i = 1 \/ i - 1 \in 1 .. Len(q)
        BY <1>2
      <4> QED
        BY <4>1, <4>2, Zenon
    <3> QED
      BY <3>1, Zenon
  <2>2. flat = F(flat)
    <3> HIDE DEF runs
    <3> QED
      BY <2>1, Zenon
  <2>3. FlattenSeq(q) = flat[Len(q)]
    BY <1>4 DEF FlattenSeq
  <2>4. flat[Len(q)] = Run(at[0], at[Len(q)])
    <3> HIDE DEF flat
    <3> QED
      BY <1>1, <1>4, <2>2, FlatIsRuns
  <2> QED
    BY <1>1, <2>3, <2>4
<1> QED
  BY <1>3, <1>4

-----------------------------------------------------------------------------
(* The inductive invariant. *)

KernelTypes ==
    /\ piped \in BOOLEAN /\ tracing \in BOOLEAN
    /\ filled \in [Streams -> Nat] /\ rd \in [Streams -> Nat]

TracerTypes ==
    /\ pc \in [Cpus -> {"loop", "read", "drain", "left"}]
    /\ dev \in [Cpus -> 1 .. NDevs + 1]
    /\ nentries \in [Cpus -> Nat]

HandlerTypes ==
    /\ is_done \in [Cpus -> BOOLEAN]
    /\ handler \in {"idle", "ioctl", "tell", "over"}
    /\ told \in 0 .. NCpus /\ (handler # "over" => told < NCpus)

SharedTypes ==
    /\ heads \in [Streams -> Seq(Seq(Nat))]
    /\ dp_entries \in Int /\ asleep \in BOOLEAN

MainTypes ==
    /\ main \in {"wait", "scan", "join", "clean", "rescan", "finished"}
    /\ cursor \in (1 .. NDevs + 1) \X Cpus /\ handled \in Nat
    /\ list \in Seq(Seq(Nat)) /\ (list # <<>> => cursor \in Streams)

OutTypes ==
    /\ prev \in [Streams -> Seq(Nat)] /\ out \in [Streams -> Seq(Nat)]
    /\ fd_open \in [Cpus -> BOOLEAN] /\ lost \in [Streams -> SUBSET Nat]

TypeOK == KernelTypes /\ TracerTypes /\ HandlerTypes /\ SharedTypes /\ MainTypes /\ OutTypes

\* The main thread sleeps only where it waits, and holds buffers only in a pass.
AtRest ==
    /\ asleep => main = "wait" /\ dp_entries = 0
    /\ main \notin {"scan", "rescan"} => list = <<>> /\ handled = 0

\* The account of the buffers (EntriesAccount adds that the sleeper misses nothing).
Account ==
    /\ IsFiniteSet(Units(nentries)) /\ IsFiniteSet(Units(Queued))
    /\ dp_entries + Total(nentries) = Total(Queued) + Len(list) + handled

\* The kernel has recorded whole events, of which some are read.
Recorded == \A s \in Streams : filled[s] \in Boundaries(s) /\ rd[s] <= filled[s]

\* A stream lies in its places in order: behind what is out or lost, the rest, the
\* list in work and the list that waits are runs that follow each other.
Held(s) == IF s = cursor THEN list ELSE <<>>

Behold(s, y) == Behind(out[s], lost[s], y)

InPlace(s) ==
    \E y, p, z \in Nat :
        /\ Behold(s, y)
        /\ y <= p /\ prev[s] = Run(y, p)
        /\ Chain(Held(s), p, z)
        /\ Chain(heads[s], z, rd[s])

Order ==
    \A s \in Streams :
        /\ lost[s] = {} => out[s] = Run(0, Len(out[s]))
        /\ fd_open[s[2]] => InPlace(s)

\* Until a write fails a pipe gets whole events, and the rest that is kept has none;
\* a socket has no rest and loses nothing while it is open.
WholeCut(s) ==
    /\ Len(out[s]) \in Boundaries(s)
    /\ \A e \in EventEnds[s] : e <= Len(out[s]) \/ Len(out[s]) + Len(prev[s]) < e

Cuts ==
    \A s \in Streams :
        IF piped
        THEN fd_open[s[2]] /\ (lost[s] = {} => WholeCut(s))
        ELSE prev[s] = <<>> /\ lost[s] = {}

\* A tracer that is told to quit is so after the trace has stopped; one that drains
\* has read all of the devices behind it, unless it has read something in this
\* pass; one that left has read all.
ReadAll(c, n) == \A d \in 1 .. n : rd[<<d, c>>] = filled[<<d, c>>]

Draining ==
    /\ tracing <=> handler \in {"idle", "ioctl"}
    /\ \A c \in Cpus :
          /\ is_done[c] => ~tracing
          /\ pc[c] \in {"drain", "left"} => is_done[c]
          /\ pc[c] \in {"loop", "left"} => nentries[c] = 0 /\ dev[c] = 1
          /\ pc[c] = "drain" /\ nentries[c] = 0 => ReadAll(c, dev[c] - 1)
          /\ pc[c] = "left" => ReadAll(c, NDevs)
    /\ main \in {"clean", "rescan", "finished"} => \A c \in Cpus : pc[c] = "left"

IInv == /\ TypeOK /\ AtRest /\ Account /\ Recorded /\ Order /\ Cuts /\ Draining

-----------------------------------------------------------------------------
(* What the steps do to the parts of the state. *)

USE SizesAssumption, EventsAssumption, BufAssumption

LEMMA StreamFacts ==
    /\ \A s \in Streams : s[1] \in Devs /\ s[2] \in Cpus
    /\ \A d \in Devs, c \in Cpus : <<d, c>> \in Streams
    /\ \A s \in Streams : Boundaries(s) \subseteq Nat /\ 0 \in Boundaries(s)
    /\ IsFiniteSet(Cpus) /\ IsFiniteSet(Streams)
    /\ <<1, 1>> \in Streams
<1>1. IsFiniteSet(Devs) /\ IsFiniteSet(Cpus)
  BY FS_Interval DEF Devs, Cpus
<1>2. IsFiniteSet(Streams)
  BY <1>1, FS_Product DEF Streams
<1>3. \A s \in Streams : Boundaries(s) \subseteq Nat /\ 0 \in Boundaries(s)
  BY DEF Boundaries
<1>4. <<1, 1>> \in Streams
  BY DEF Streams, Devs, Cpus
<1> QED
  BY <1>1, <1>2, <1>3, <1>4 DEF Streams

\* handle_list_file cuts a buffer at most at its end; a walk that starts at an event
\* ends at one, behind which the buffer has no whole event.
LEMMA CutFacts ==
    ASSUME cursor \in Streams, NEW buf \in Seq(Nat), NEW off \in WholeTraces(buf)
    PROVE  /\ off \in 0 .. Len(buf)
           /\ Head(buf) - 1 \in Boundaries(cursor) =>
                 /\ Head(buf) - 1 + off \in Boundaries(cursor)
                 /\ \A e \in EventEnds[cursor] :
                       e <= Head(buf) - 1 + off \/ Head(buf) - 1 + Len(buf) < e
<1> DEFINE base == Head(buf) - 1
           S    == {f \in Boundaries(cursor) : base <= f /\ f <= base + Len(buf)}
           ends == {e - base : e \in S}
<1>1. CASE base \notin Boundaries(cursor)
  BY <1>1 DEF WholeTraces
<1>2. CASE base \in Boundaries(cursor)
  <2>1. base \in Nat /\ Boundaries(cursor) \subseteq Nat /\ Len(buf) \in Nat
    BY <1>2, StreamFacts
  <2> HIDE DEF base
  <2>2. /\ ends \in SUBSET Nat /\ 0 \in ends
        /\ \A x \in ends : x <= Len(buf)
    BY <1>2, <2>1
  <2>3. Max(ends) \in ends /\ \A x \in ends : x <= Max(ends)
    <3> HIDE DEF ends
    <3> QED
      BY <2>1, <2>2, MaxOfBounded
  <2>4. off = Max(ends)
    BY <1>2 DEF WholeTraces, base
  <2>5. off \in Nat /\ off <= Len(buf) /\ base + off \in Boundaries(cursor)
    BY <2>1, <2>2, <2>3, <2>4
  <2>6. ASSUME NEW e \in EventEnds[cursor], base + off < e, e <= base + Len(buf)
        PROVE  FALSE
    <3>1. e \in Boundaries(cursor) /\ e \in Nat
      BY <2>1 DEF Boundaries
    <3>2. e \in S
      BY <2>1, <2>5, <2>6, <3>1
    <3>3. e - base \in ends
      BY <3>2
    <3>4. e - base <= off
      <4> HIDE DEF ends, S
      <4> QED
        BY <2>3, <2>4, <3>3
    <3> QED
      BY <2>1, <2>5, <2>6, <3>1, <3>4
  <2>7. \A e \in EventEnds[cursor] : e <= base + off \/ base + Len(buf) < e
    <3>1. \A e \in EventEnds[cursor] : e \in Nat
      BY <2>1 DEF Boundaries
    <3> QED
      BY <2>1, <2>5, <2>6, <3>1
  <2>8. off \in 0 .. Len(buf)
    BY <2>1, <2>5
  <2> QED
    BY <2>5, <2>7, <2>8, Zenon DEF base
<1> QED
  BY <1>1, <1>2

\* A scan for a list stays on the streams or comes behind the last of them.
LEMMA CursorFacts ==
    ASSUME TypeOK
    PROVE  /\ cursor[1] <= NDevs => cursor \in Streams
           /\ cursor \in Streams => NextCursor \in (1 .. NDevs + 1) \X Cpus
<1>1. PICK d \in 1 .. NDevs + 1, c \in Cpus : cursor = <<d, c>>
  BY DEF TypeOK, MainTypes
<1>2. cursor[1] = d /\ cursor[2] = c
  BY <1>1
<1>3. d <= NDevs => d \in Devs
  BY DEF Devs
<1>4. cursor \in Streams => d \in Devs
  BY <1>2, StreamFacts
<1>5. ASSUME d \in Devs PROVE NextCursor \in (1 .. NDevs + 1) \X Cpus
  <2>1. d \in 1 .. NDevs + 1 /\ d + 1 \in 1 .. NDevs + 1 /\ 1 \in Cpus /\ (c < NCpus => c + 1 \in Cpus)
    BY <1>5 DEF Devs, Cpus
  <2> QED
    BY <1>2, <2>1 DEF NextCursor
<1> QED
  BY <1>1, <1>2, <1>3, <1>4, <1>5, StreamFacts

\* handle_list_file writes a buffer up to off, or the write fails behind n.
WrittenUpTo(buf, off) ==
    /\ out' = [out EXCEPT ![cursor] = @ \o SubSeq(buf, 1, off)]
    /\ prev' = [prev EXCEPT ![cursor] = SubSeq(buf, off + 1, Len(buf))]
    /\ UNCHANGED lost

FailedAt(buf, n) ==
    /\ out' = [out EXCEPT ![cursor] = @ \o SubSeq(buf, 1, n)]
    /\ prev' = [prev EXCEPT ![cursor] = <<>>]
    /\ lost' = [lost EXCEPT ![cursor] = @ \cup {buf[k] : k \in n + 1 .. Len(buf)}]

HandledUpTo(buf, off) == WrittenUpTo(buf, off) \/ \E n \in 0 .. off - 1 : FailedAt(buf, n)

LEMMA TypeStep ==
    ASSUME TypeOK, [Next]_vars
    PROVE  TypeOK'
<1> USE DEF KernelTypes, TracerTypes, HandlerTypes, SharedTypes, MainTypes, OutTypes,
            kernelVars, tracerVars, handlerVars, mainVars, outVars
<1>1. CASE UNCHANGED vars
  BY <1>1 DEF vars, TypeOK
<1>2. ASSUME NEW s \in Streams, Record(s) PROVE TypeOK'
  <2>1. filled' \in [Streams -> Nat]
    BY <1>2 DEF Record, TypeOK
  <2> QED
    BY <1>2, <2>1 DEF Record, TypeOK
<1>3. ASSUME NEW c \in Cpus, PollLoop(c) PROVE TypeOK'
  BY <1>3 DEF PollLoop, TypeOK
<1>4. ASSUME NEW c \in Cpus, ReadDevice(c) PROVE TypeOK'
  <2> DEFINE s == <<dev[c], c>>
  <2>1. s \in Streams /\ dev[c] \in 1 .. NDevs + 1 /\ dev[c] + 1 \in 1 .. NDevs + 1
    <3>1. dev[c] \in 1 .. NDevs + 1 /\ dev[c] <= NDevs
      BY <1>4 DEF ReadDevice, TypeOK
    <3>2. dev[c] \in Devs /\ dev[c] + 1 \in 1 .. NDevs + 1
      BY <3>1 DEF Devs
    <3> QED
      BY <3>1, <3>2, StreamFacts
  <2>2. dev' \in [Cpus -> 1 .. NDevs + 1]
    BY <1>4, <2>1 DEF ReadDevice, TypeOK
  <2>3. heads' \in [Streams -> Seq(Seq(Nat))] /\ rd' \in [Streams -> Nat] /\ nentries' \in [Cpus -> Nat]
    <3>1. CASE UNCHANGED <<heads, rd, nentries>>
      BY <3>1 DEF TypeOK
    <3>2. CASE \E k \in 1 .. BufUnits :
                  /\ AddTraceBuf(s, [i \in 1 .. k |-> rd[s] + i])
                  /\ rd' = [rd EXCEPT ![s] = @ + k]
                  /\ nentries' = [nentries EXCEPT ![c] = @ + 1]
      <4>1. PICK k \in 1 .. BufUnits :
                  /\ AddTraceBuf(s, [i \in 1 .. k |-> rd[s] + i])
                  /\ rd' = [rd EXCEPT ![s] = @ + k]
                  /\ nentries' = [nentries EXCEPT ![c] = @ + 1]
        BY <3>2
      <4> DEFINE buf == [i \in 1 .. k |-> rd[s] + i]
      <4>2. rd[s] \in Nat /\ k \in Nat /\ rd[s] + k \in Nat /\ nentries[c] + 1 \in Nat
        <5>1. rd[s] \in Nat /\ nentries[c] \in Nat
          <6> HIDE DEF s
          <6> QED
            BY <2>1 DEF TypeOK
        <5>2. k \in Nat
          OBVIOUS
        <5> HIDE DEF s
        <5> QED
          BY <5>1, <5>2
      <4>3. buf \in Seq(Nat)
        <5>1. PICK r \in Nat : r = rd[s]
          BY <4>2
        <5>2. \A i \in 1 .. k : r + i \in Nat
          OBVIOUS
        <5>3. [i \in 1 .. k |-> r + i] \in Seq(Nat)
          BY <4>2, <5>2
        <5> QED
          BY <5>1, <5>3, Zenon
      <4> HIDE DEF s, buf
      <4>4. heads' = [heads EXCEPT ![s] = Append(@, buf)]
        BY <4>1 DEF AddTraceBuf, s, buf
      <4>5. heads[s] \in Seq(Seq(Nat)) /\ heads \in [Streams -> Seq(Seq(Nat))]
        BY <2>1 DEF TypeOK
      <4>6. Append(heads[s], buf) \in Seq(Seq(Nat))
        BY <4>3, <4>5
      <4>7. heads' \in [Streams -> Seq(Seq(Nat))]
        BY <2>1, <4>4, <4>5, <4>6
      <4> QED
        BY <2>1, <4>1, <4>2, <4>7 DEF TypeOK
    <3> QED
      BY <1>4, <3>1, <3>2 DEF ReadDevice
  <2> QED
    BY <1>4, <2>2, <2>3 DEF ReadDevice, TypeOK
<1>5. ASSUME NEW c \in Cpus, EndRead(c) PROVE TypeOK'
  <2>1. dp_entries' \in Int /\ asleep' \in BOOLEAN
    <3>1. nentries[c] \in Nat /\ dp_entries \in Int /\ asleep \in BOOLEAN
      BY DEF TypeOK
    <3>2. /\ dp_entries' = dp_entries + nentries[c]
          /\ asleep' = IF nentries[c] > 0 /\ dp_entries = 0 THEN FALSE ELSE asleep
      BY <1>5 DEF EndRead, IncrEntries
    <3>3. dp_entries' \in Int
      BY <3>1, <3>2
    <3>4. asleep' \in BOOLEAN
      BY <3>1, <3>2, Zenon
    <3> QED
      BY <3>3, <3>4
  <2>2. nentries' \in [Cpus -> Nat]
    BY <1>5 DEF EndRead, TypeOK
  <2>3. dev' \in [Cpus -> 1 .. NDevs + 1]
    <3>1. 1 \in 1 .. NDevs + 1
      OBVIOUS
    <3> QED
      BY <1>5, <3>1 DEF EndRead, TypeOK
  <2>4. pc' \in [Cpus -> {"loop", "read", "drain", "left"}]
    BY <1>5 DEF EndRead, TypeOK
  <2> QED
    BY <1>5, <2>1, <2>2, <2>3, <2>4 DEF EndRead, TypeOK
<1>6. CASE Interrupt
  BY <1>6 DEF Interrupt, TypeOK
<1>7. CASE StopTrace
  BY <1>7 DEF StopTrace, TypeOK
<1>8. CASE TellTracer
  <2>1. told' \in 0 .. NCpus /\ (handler' # "over" => told' < NCpus) /\ handler' \in {"tell", "over"}
    BY <1>8 DEF TellTracer, TypeOK
  <2>2. is_done' \in [Cpus -> BOOLEAN]
    BY <1>8 DEF TellTracer, TypeOK
  <2> QED
    BY <1>8, <2>1, <2>2 DEF TellTracer, TypeOK
<1>9. CASE WaitEmptyEntries \/ WaitTimesOut \/ JoinTracers \/ CleanTraceBufs
  <2>1. CASE WaitEmptyEntries
    BY <2>1 DEF WaitEmptyEntries, TypeOK
  <2>2. CASE WaitTimesOut
    BY <2>2 DEF WaitTimesOut, TypeOK
  <2>3. CASE JoinTracers
    BY <2>3 DEF JoinTracers, TypeOK
  <2>4. CASE CleanTraceBufs
    BY <2>4 DEF CleanTraceBufs, TypeOK
  <2> QED
    BY <1>9, <2>1, <2>2, <2>3, <2>4
<1>10. CASE TakeList
  <2>1. cursor \in Streams /\ NextCursor \in (1 .. NDevs + 1) \X Cpus
    BY <1>10, CursorFacts DEF TakeList
  <2>2. heads[cursor] \in Seq(Seq(Nat)) /\ <<>> \in Seq(Seq(Nat))
    BY <2>1 DEF TypeOK
  <2>3. heads' \in [Streams -> Seq(Seq(Nat))]
    BY <1>10, <2>2 DEF TakeList, TypeOK
  <2>4. MainTypes'
    <3>1. CASE heads[cursor] = <<>>
      BY <1>10, <2>1, <3>1 DEF TakeList, TypeOK
    <3>2. CASE heads[cursor] # <<>>
      BY <1>10, <2>1, <2>2, <3>2 DEF TakeList, TypeOK
    <3> QED
      BY <3>1, <3>2
  <2> QED
    BY <1>10, <2>3, <2>4 DEF TakeList, TypeOK
<1>11. CASE HandleBuffer
  <2>1. cursor \in Streams /\ NextCursor \in (1 .. NDevs + 1) \X Cpus /\ list \in Seq(Seq(Nat)) /\ list # <<>>
    BY <1>11, CursorFacts DEF HandleBuffer, TypeOK
  <2>2. Head(list) \in Seq(Nat) /\ Tail(list) \in Seq(Seq(Nat)) /\ (Len(list) = 1 => Tail(list) = <<>>)
    <3>1. Head(list) \in Seq(Nat) /\ Tail(list) \in Seq(Seq(Nat)) /\ Len(Tail(list)) = Len(list) - 1
      BY <2>1, HeadTailProperties, Zenon
    <3>2. Len(list) = 1 => Tail(list) = <<>>
      <4>1. Tail(list) # <<>> => Len(Tail(list)) # 0
        BY <3>1, EmptySeq
      <4> QED
        BY <3>1, <4>1
    <3> QED
      BY <3>1, <3>2
  <2>3. list' = Tail(list) /\ cursor' = IF Len(list) = 1 THEN NextCursor ELSE cursor
    BY <1>11 DEF HandleBuffer
  <2>4. cursor' \in (1 .. NDevs + 1) \X Cpus /\ (list' # <<>> => cursor' \in Streams)
    <3>1. cursor \in (1 .. NDevs + 1) \X Cpus
      BY DEF TypeOK
    <3> QED
      BY <2>1, <2>2, <2>3, <3>1
  <2>5. OutTypes'
    <3>1. CASE piped
      <4> DEFINE buf == prev[cursor] \o Head(list)
      <4>1. prev[cursor] \in Seq(Nat) /\ out[cursor] \in Seq(Nat)
        BY <2>1 DEF TypeOK
      <4>2. buf \in Seq(Nat)
        BY <2>2, <4>1
      <4>3. PICK off \in WholeTraces(buf) : HandledUpTo(buf, off) /\ UNCHANGED fd_open
        BY <1>11, <3>1 DEF HandleBuffer, HandleFile, HandledUpTo, WrittenUpTo, FailedAt
      <4> HIDE DEF buf
      <4>4. off \in 0 .. Len(buf)
        BY <2>1, <4>2, <4>3, CutFacts
      <4>5. ASSUME NEW n \in 0 .. off
            PROVE  /\ SubSeq(buf, 1, n) \in Seq(Nat) /\ SubSeq(buf, n + 1, Len(buf)) \in Seq(Nat)
                   /\ out[cursor] \o SubSeq(buf, 1, n) \in Seq(Nat)
        <5>1. n \in 0 .. Len(buf)
          BY <4>2, <4>4
        <5>2. SubSeq(buf, 1, n) \in Seq(Nat) /\ SubSeq(buf, n + 1, Len(buf)) \in Seq(Nat)
          BY <4>2, <5>1, SubSeqProperties
        <5> QED
          BY <4>1, <5>2
      <4>6. CASE WrittenUpTo(buf, off)
        <5>1. off \in 0 .. off
          BY <4>2, <4>4
        <5> QED
          BY <2>1, <4>3, <4>5, <4>6, <5>1 DEF TypeOK, WrittenUpTo
      <4>7. CASE \E n \in 0 .. off - 1 : FailedAt(buf, n)
        <5>1. PICK n \in 0 .. off - 1 : FailedAt(buf, n)
          BY <4>7
        <5>2. n \in 0 .. off /\ n \in Nat
          BY <4>2, <4>4
        <5>3. out[cursor] \o SubSeq(buf, 1, n) \in Seq(Nat) /\ <<>> \in Seq(Nat)
          BY <4>5, <5>2
        <5>4. {buf[k] : k \in n + 1 .. Len(buf)} \subseteq Nat
          BY <4>2, <5>2
        <5>5. lost[cursor] \cup {buf[k] : k \in n + 1 .. Len(buf)} \in SUBSET Nat
          BY <2>1, <5>4 DEF TypeOK
        <5>6. lost' \in [Streams -> SUBSET Nat]
          BY <2>1, <5>1, <5>5 DEF TypeOK, FailedAt
        <5> QED
          BY <2>1, <4>3, <5>1, <5>3, <5>6 DEF TypeOK, FailedAt
      <4> QED
        BY <4>3, <4>6, <4>7 DEF HandledUpTo
    <3>2. CASE ~piped
      <4>1. out[cursor] \o Head(list) \in Seq(Nat)
        BY <2>1, <2>2 DEF TypeOK
      <4>2. HandleNet(Head(list))
        BY <1>11, <3>2 DEF HandleBuffer
      <4>3. fd_open' \in [Cpus -> BOOLEAN]
        BY <4>2 DEF HandleNet, TypeOK
      <4>4. out' \in [Streams -> Seq(Nat)]
        BY <2>1, <4>1, <4>2 DEF HandleNet, TypeOK
      <4>5. prev' = prev /\ lost' = lost
        BY <4>2 DEF HandleNet
      <4> QED
        BY <4>3, <4>4, <4>5 DEF TypeOK
    <3> QED
      BY <3>1, <3>2
  <2>6. MainTypes'
    BY <1>11, <2>2, <2>3, <2>4, SMTT(30) DEF HandleBuffer, TypeOK
  <2> QED
    BY <1>11, <2>5, <2>6 DEF HandleBuffer, TypeOK
<1>12. CASE DecrEntries
  <2>1. <<1, 1>> \in (1 .. NDevs + 1) \X Cpus
    BY DEF Cpus
  <2> QED
    BY <1>12, <2>1 DEF DecrEntries, TypeOK
<1>13. CASE Finished
  BY <1>1, <1>13 DEF Finished
<1> QED
  BY <1>1, <1>2, <1>3, <1>4, <1>5, <1>6, <1>7, <1>8, <1>9, <1>10, <1>11, <1>12, <1>13
  DEF Next, MainStep, HandlerStep, TracerStep

LEMMA RestStep ==
    ASSUME TypeOK, AtRest, [Next]_vars
    PROVE  AtRest'
<1> USE DEF AtRest, kernelVars, tracerVars, handlerVars, mainVars, outVars
<1>1. CASE UNCHANGED <<main, dp_entries, asleep, list, handled>>
  BY <1>1
<1>2. ASSUME NEW c \in Cpus, EndRead(c) PROVE AtRest'
  <2>1. nentries[c] \in Nat /\ dp_entries \in Int
    BY DEF TypeOK, TracerTypes, SharedTypes
  <2>2. /\ dp_entries' = dp_entries + nentries[c]
        /\ asleep' = IF nentries[c] > 0 /\ dp_entries = 0 THEN FALSE ELSE asleep
        /\ UNCHANGED <<main, list, handled>>
    BY <1>2 DEF EndRead, IncrEntries
  <2>3. asleep' => asleep /\ dp_entries' = 0
    <3>1. CASE dp_entries = 0 /\ nentries[c] > 0
      BY <2>2, <3>1
    <3>2. CASE ~(dp_entries = 0 /\ nentries[c] > 0)
      <4>1. asleep' = asleep
        BY <2>2, <3>2
      <4>2. asleep => dp_entries' = 0
        BY <2>1, <2>2, <3>2
      <4> QED
        BY <4>1, <4>2
    <3> QED
      BY <3>1, <3>2
  <2> QED
    BY <2>2, <2>3
<1>3. CASE WaitEmptyEntries \/ WaitTimesOut \/ JoinTracers \/ CleanTraceBufs
  BY <1>3 DEF WaitEmptyEntries, WaitTimesOut, JoinTracers, CleanTraceBufs, MainAt
<1>4. CASE TakeList
  BY <1>4 DEF TakeList, Scanning, MainAt
<1>5. CASE HandleBuffer
  BY <1>5 DEF HandleBuffer, Scanning, MainAt
<1>6. CASE DecrEntries
  BY <1>6 DEF DecrEntries, Scanning, MainAt
<1>7. ASSUME NEW c \in Cpus, PollLoop(c) \/ ReadDevice(c)
      PROVE  UNCHANGED <<main, dp_entries, asleep, list, handled>>
  BY <1>7 DEF PollLoop, ReadDevice
<1>8. ASSUME NEW s \in Streams, Record(s)
      PROVE  UNCHANGED <<main, dp_entries, asleep, list, handled>>
  BY <1>8 DEF Record
<1>9. ASSUME Interrupt \/ StopTrace \/ TellTracer \/ Finished \/ UNCHANGED vars
      PROVE  UNCHANGED <<main, dp_entries, asleep, list, handled>>
  BY <1>9 DEF Interrupt, StopTrace, TellTracer, Finished, vars
<1> QED
  BY <1>1, <1>2, <1>3, <1>4, <1>5, <1>6, <1>7, <1>8, <1>9
  DEF Next, MainStep, HandlerStep, TracerStep

\* What a buffer that is queued, taken, processed or counted does to the account.
LEMMA QueuedChange ==
    ASSUME TypeOK, IsFiniteSet(Units(Queued)), NEW s \in Streams, NEW q \in Seq(Seq(Nat)),
           heads' = [heads EXCEPT ![s] = q]
    PROVE  IsFiniteSet(Units(Queued')) /\ Total(Queued') = Total(Queued) - Len(heads[s]) + Len(q)
<1>1. heads \in [Streams -> Seq(Seq(Nat))]
  BY DEF TypeOK, SharedTypes
<1>2. Queued \in [Streams -> Nat] /\ Queued[s] = Len(heads[s]) /\ Len(q) \in Nat
  BY <1>1 DEF Queued
<1>3. Queued' \in [Streams -> Nat] /\ Queued'[s] = Len(q) /\ \A r \in Streams : r # s => Queued'[r] = Queued[r]
  BY <1>1, <1>2 DEF Queued
<1>4. IsFiniteSet(Units(Queued')) /\ Total(Queued') = Total(Queued) - Queued[s] + Len(q)
  <2>1. IsFiniteSet(Streams)
    BY StreamFacts
  <2>2. IsFiniteSet(Units(Queued')) /\ Total(Queued') = Total(Queued) - Queued[s] + Queued'[s]
    BY <1>2, <1>3, <2>1, TotalChange, SMTT(30)
  <2> QED
    BY <1>3, <2>2
<1> QED
  BY <1>2, <1>4

LEMMA EntriesChange ==
    ASSUME nentries \in [Cpus -> Nat], IsFiniteSet(Units(nentries)), NEW c \in Cpus,
           nentries' \in [Cpus -> Nat], \A b \in Cpus : b # c => nentries'[b] = nentries[b]
    PROVE  /\ IsFiniteSet(Units(nentries'))
           /\ Total(nentries') = Total(nentries) - nentries[c] + nentries'[c]
<1>1. IsFiniteSet(Cpus)
  BY StreamFacts
<1> QED
  BY <1>1, TotalChange

LEMMA TotalsAreNat ==
    ASSUME Account
    PROVE  Total(nentries) \in Nat /\ Total(Queued) \in Nat
BY FS_CardinalityType DEF Account, Total

LEMMA AccountStep ==
    ASSUME TypeOK, Account, [Next]_vars
    PROVE  Account'
<1> USE DEF kernelVars, tracerVars, handlerVars, mainVars, outVars
<1>0. /\ dp_entries \in Int /\ handled \in Nat /\ Len(list) \in Nat
      /\ nentries \in [Cpus -> Nat] /\ \A c \in Cpus : nentries[c] \in Nat
      /\ Total(nentries) \in Nat /\ Total(Queued) \in Nat
      /\ IsFiniteSet(Units(nentries)) /\ IsFiniteSet(Units(Queued))
      /\ dp_entries + Total(nentries) = Total(Queued) + Len(list) + handled
  <2>1. list \in Seq(Seq(Nat)) /\ dp_entries \in Int /\ handled \in Nat /\ nentries \in [Cpus -> Nat]
    BY DEF TypeOK, SharedTypes, MainTypes, TracerTypes
  <2> QED
    BY <2>1, TotalsAreNat DEF Account
<1>1. CASE UNCHANGED <<dp_entries, nentries, heads, list, handled>>
  BY <1>1 DEF Account, Queued
<1>2. ASSUME NEW c \in Cpus, ReadDevice(c) PROVE Account'
  <2> DEFINE s == <<dev[c], c>>
  <2>1. CASE UNCHANGED <<heads, rd, nentries>>
    BY <1>1, <1>2, <2>1 DEF ReadDevice
  <2>2. CASE \E k \in 1 .. BufUnits :
                /\ AddTraceBuf(s, [i \in 1 .. k |-> rd[s] + i])
                /\ rd' = [rd EXCEPT ![s] = @ + k]
                /\ nentries' = [nentries EXCEPT ![c] = @ + 1]
    <3>1. PICK k \in 1 .. BufUnits :
                /\ AddTraceBuf(s, [i \in 1 .. k |-> rd[s] + i])
                /\ nentries' = [nentries EXCEPT ![c] = @ + 1]
      BY <2>2
    <3> DEFINE buf == [i \in 1 .. k |-> rd[s] + i]
               q   == Append(heads[s], buf)
    <3>2. s \in Streams
      <4>1. dev[c] \in 1 .. NDevs + 1 /\ dev[c] <= NDevs
        BY <1>2 DEF ReadDevice, TypeOK, TracerTypes
      <4>2. dev[c] \in Devs
        BY <4>1 DEF Devs
      <4> QED
        BY <4>2, StreamFacts
    <3> HIDE DEF s
    <3>3. buf \in Seq(Nat) /\ heads[s] \in Seq(Seq(Nat))
      <4>1. rd[s] \in Nat /\ k \in Nat /\ heads[s] \in Seq(Seq(Nat))
        BY <3>2 DEF TypeOK, KernelTypes, SharedTypes
      <4> QED
        BY <4>1
    <3> HIDE DEF buf
    <3>4. q \in Seq(Seq(Nat)) /\ Len(q) = Len(heads[s]) + 1 /\ Len(heads[s]) \in Nat
      BY <3>3
    <3>5. heads' = [heads EXCEPT ![s] = q]
      BY <3>1 DEF AddTraceBuf, s, buf
    <3> HIDE DEF q
    <3>6. IsFiniteSet(Units(Queued')) /\ Total(Queued') = Total(Queued) - Len(heads[s]) + Len(q)
      BY <1>0, <3>2, <3>4, <3>5, QueuedChange
    <3>7. IsFiniteSet(Units(nentries')) /\ Total(nentries') = Total(nentries) - nentries[c] + (nentries[c] + 1)
      <4>1. /\ nentries' \in [Cpus -> Nat] /\ nentries'[c] = nentries[c] + 1
            /\ \A b \in Cpus : b # c => nentries'[b] = nentries[b]
        BY <1>0, <3>1
      <4> QED
        BY <1>0, <4>1, EntriesChange
    <3>8. UNCHANGED <<dp_entries, list, handled>>
      BY <1>2 DEF ReadDevice
    <3>9. Total(Queued') = Total(Queued) + 1 /\ Total(nentries') = Total(nentries) + 1
      <4>1. nentries[c] \in Nat /\ Total(nentries) \in Nat /\ Total(Queued) \in Nat
        BY <1>0
      <4> QED
        BY <3>4, <3>6, <3>7, <4>1, SMTT(30)
    <3>10. dp_entries + Total(nentries') = Total(Queued') + Len(list) + handled
      BY <1>0, <3>9, SMTT(30)
    <3> QED
      BY <3>6, <3>7, <3>8, <3>10 DEF Account
  <2> QED
    BY <1>2, <2>1, <2>2 DEF ReadDevice
<1>3. ASSUME NEW c \in Cpus, EndRead(c) PROVE Account'
  <2>1. /\ dp_entries' = dp_entries + nentries[c]
        /\ nentries' = [nentries EXCEPT ![c] = 0]
        /\ UNCHANGED <<heads, list, handled>>
    BY <1>3 DEF EndRead, IncrEntries
  <2>2. IsFiniteSet(Units(nentries')) /\ Total(nentries') = Total(nentries) - nentries[c] + 0
    <3>1. /\ nentries' \in [Cpus -> Nat] /\ nentries'[c] = 0
          /\ \A b \in Cpus : b # c => nentries'[b] = nentries[b]
      BY <1>0, <2>1
    <3> QED
      BY <1>0, <3>1, EntriesChange
  <2>3. Queued' = Queued
    BY <2>1 DEF Queued
  <2> QED
    BY <1>0, <2>1, <2>2, <2>3 DEF Account
<1>4. CASE TakeList
  <2>1. CASE heads[cursor] = <<>>
    BY <1>1, <1>4, <2>1 DEF TakeList
  <2>2. CASE heads[cursor] # <<>>
    <3>1. /\ list = <<>> /\ list' = heads[cursor] /\ heads' = [heads EXCEPT ![cursor] = <<>>]
          /\ UNCHANGED <<dp_entries, nentries, handled>>
      BY <1>4, <2>2 DEF TakeList
    <3>2. cursor \in Streams
      BY <1>4, CursorFacts DEF TakeList
    <3>3. heads[cursor] \in Seq(Seq(Nat))
      BY <3>2 DEF TypeOK, SharedTypes
    <3>4. /\ <<>> \in Seq(Seq(Nat)) /\ Len(heads[cursor]) \in Nat
          /\ Len(list) = 0
      BY <3>1, <3>3
    <3>5. IsFiniteSet(Units(Queued')) /\ Total(Queued') = Total(Queued) - Len(heads[cursor]) + Len(<<>>)
      BY <1>0, <3>1, <3>2, <3>4, QueuedChange
    <3>6. Len(<<>>) = 0
      OBVIOUS
    <3> QED
      BY <1>0, <3>1, <3>4, <3>5, <3>6 DEF Account
  <2> QED
    BY <2>1, <2>2
<1>5. CASE HandleBuffer
  <2>1. /\ list # <<>> /\ list' = Tail(list) /\ handled' = handled + 1
        /\ UNCHANGED <<dp_entries, nentries, heads>>
    BY <1>5 DEF HandleBuffer
  <2>2. Len(list') = Len(list) - 1
    <3>1. list \in Seq(Seq(Nat))
      BY DEF TypeOK, MainTypes
    <3> QED
      BY <2>1, <3>1, HeadTailProperties
  <2>3. Queued' = Queued
    BY <2>1 DEF Queued
  <2> QED
    BY <1>0, <2>1, <2>2, <2>3 DEF Account
<1>6. CASE DecrEntries
  <2>1. /\ list' = list /\ handled' = 0 /\ dp_entries' = dp_entries - handled
        /\ UNCHANGED <<nentries, heads>>
    BY <1>6 DEF DecrEntries
  <2>2. Queued' = Queued
    BY <2>1 DEF Queued
  <2> QED
    BY <1>0, <2>1, <2>2, SMTT(30) DEF Account
<1>7. ASSUME NEW c \in Cpus, PollLoop(c)
      PROVE  UNCHANGED <<dp_entries, nentries, heads, list, handled>>
  BY <1>7 DEF PollLoop
<1>8. ASSUME NEW s \in Streams, Record(s)
      PROVE  UNCHANGED <<dp_entries, nentries, heads, list, handled>>
  BY <1>8 DEF Record
<1>9. ASSUME \/ Interrupt \/ StopTrace \/ TellTracer \/ Finished \/ UNCHANGED vars
             \/ WaitEmptyEntries \/ WaitTimesOut \/ JoinTracers \/ CleanTraceBufs
      PROVE  UNCHANGED <<dp_entries, nentries, heads, list, handled>>
  BY <1>9 DEF Interrupt, StopTrace, TellTracer, Finished, vars, WaitEmptyEntries, WaitTimesOut,
              JoinTracers, CleanTraceBufs
<1> QED
  BY <1>1, <1>2, <1>3, <1>4, <1>5, <1>6, <1>7, <1>8, <1>9
  DEF Next, MainStep, HandlerStep, TracerStep

\* A device that is read: nothing, or a run of units that goes behind the others.
LEMMA ReadFacts ==
    ASSUME TypeOK, NEW c \in Cpus, ReadDevice(c), NEW s, s = <<dev[c], c>>
    PROVE  /\ s \in Streams /\ dev[c] \in Devs
           /\ \/ UNCHANGED <<heads, rd, nentries>> /\ (rd[s] = filled[s] \/ pc[c] = "read")
              \/ \E k \in Nat \ {0} :
                    /\ rd[s] + k <= filled[s]
                    /\ heads' = [heads EXCEPT ![s] = Append(@, Run(rd[s], rd[s] + k))]
                    /\ rd' = [rd EXCEPT ![s] = @ + k]
                    /\ nentries' = [nentries EXCEPT ![c] = @ + 1]
<1>1. dev[c] \in Devs /\ s \in Streams
  <2>1. dev[c] \in 1 .. NDevs + 1 /\ dev[c] <= NDevs
    BY DEF ReadDevice, TypeOK, TracerTypes
  <2>2. dev[c] \in Devs
    BY <2>1 DEF Devs
  <2> QED
    BY <2>2, StreamFacts
<1>2. CASE UNCHANGED <<heads, rd, nentries>> /\ (rd[s] = filled[s] \/ pc[c] = "read")
  BY <1>1, <1>2
<1>3. CASE \E k \in 1 .. BufUnits :
              /\ rd[s] + k <= filled[s]
              /\ AddTraceBuf(s, [i \in 1 .. k |-> rd[s] + i])
              /\ rd' = [rd EXCEPT ![s] = @ + k]
              /\ nentries' = [nentries EXCEPT ![c] = @ + 1]
  <2>1. PICK k \in 1 .. BufUnits :
              /\ rd[s] + k <= filled[s]
              /\ AddTraceBuf(s, [i \in 1 .. k |-> rd[s] + i])
              /\ rd' = [rd EXCEPT ![s] = @ + k]
              /\ nentries' = [nentries EXCEPT ![c] = @ + 1]
    BY <1>3
  <2>2. k \in Nat \ {0} /\ rd[s] \in Nat
    <3>1. rd[s] \in Nat
      BY <1>1 DEF TypeOK, KernelTypes
    <3> QED
      BY <3>1
  <2>3. [i \in 1 .. k |-> rd[s] + i] = Run(rd[s], rd[s] + k)
    <3>1. (rd[s] + k) - rd[s] = k
      BY <2>2
    <3> QED
      BY <3>1 DEF Run
  <2>4. heads' = [heads EXCEPT ![s] = Append(@, Run(rd[s], rd[s] + k))]
    BY <2>1, <2>3 DEF AddTraceBuf
  <2> QED
    BY <1>1, <2>1, <2>2, <2>4
<1> QED
  BY <1>2, <1>3 DEF ReadDevice

LEMMA RecordedStep ==
    ASSUME TypeOK, Recorded, [Next]_vars
    PROVE  Recorded'
<1> USE DEF kernelVars, tracerVars, handlerVars, mainVars, outVars
<1>1. CASE UNCHANGED <<filled, rd>>
  BY <1>1 DEF Recorded
<1>2. ASSUME NEW s \in Streams, Record(s) PROVE Recorded'
  <2>1. PICK e \in EventEnds[s] : filled[s] < e /\ filled' = [filled EXCEPT ![s] = e]
    BY <1>2 DEF Record
  <2>2. rd' = rd
    BY <1>2 DEF Record
  <2>3. e \in Boundaries(s) /\ e \in Nat /\ filled \in [Streams -> Nat] /\ rd \in [Streams -> Nat]
    BY DEF Boundaries, TypeOK, KernelTypes
  <2>4. rd[s] <= filled[s] /\ rd[s] \in Nat /\ filled[s] \in Nat
    BY <2>3 DEF Recorded
  <2>5. rd[s] <= e
    BY <2>1, <2>3, <2>4
  <2> QED
    BY <2>1, <2>2, <2>3, <2>5 DEF Recorded
<1>3. ASSUME NEW c \in Cpus, ReadDevice(c) PROVE Recorded'
  <2> DEFINE s == <<dev[c], c>>
  <2>1. filled' = filled
    BY <1>3 DEF ReadDevice
  <2>2. \/ rd' = rd
        \/ s \in Streams /\ \E k \in Nat \ {0} : rd[s] + k <= filled[s] /\ rd' = [rd EXCEPT ![s] = @ + k]
    BY <1>3, ReadFacts
  <2>3. rd \in [Streams -> Nat]
    BY DEF TypeOK, KernelTypes
  <2> HIDE DEF s
  <2> QED
    BY <2>1, <2>2, <2>3 DEF Recorded
<1>4. ASSUME NEW c \in Cpus, PollLoop(c) \/ EndRead(c) PROVE UNCHANGED <<filled, rd>>
  BY <1>4 DEF PollLoop, EndRead
<1>5. ASSUME \/ Interrupt \/ StopTrace \/ TellTracer \/ Finished \/ UNCHANGED vars
             \/ WaitEmptyEntries \/ WaitTimesOut \/ JoinTracers \/ CleanTraceBufs
             \/ TakeList \/ HandleBuffer \/ DecrEntries
      PROVE  UNCHANGED <<filled, rd>>
  BY <1>5 DEF Interrupt, StopTrace, TellTracer, Finished, vars, WaitEmptyEntries, WaitTimesOut,
              JoinTracers, CleanTraceBufs, TakeList, HandleBuffer, DecrEntries
<1> QED
  BY <1>1, <1>2, <1>3, <1>4, <1>5 DEF Next, MainStep, HandlerStep, TracerStep

\* What becomes of a buffer that is handled: of the stream up to b, up to n comes out,
\* behind what is out or lost up to y, and the rest is kept or lost.
Handling(y, n, b, z) ==
    /\ fd_open[cursor[2]] /\ UNCHANGED fd_open
    /\ Behold(cursor, y) /\ y <= n /\ n <= b /\ y < b
    /\ out'[cursor] = out[cursor] \o Run(y, n)
    /\ Chain(Tail(list), b, z)
    /\ Chain(heads[cursor], z, rd[cursor])

Written(n, b) ==
    /\ UNCHANGED lost
    /\ prev'[cursor] = Run(n, b)
    /\ ~piped => n = b
    /\ piped /\ lost[cursor] = {} =>
          /\ n \in Boundaries(cursor)
          /\ \A e \in EventEnds[cursor] : e <= n \/ b < e

Failed(n, b) ==
    /\ piped /\ n < b
    /\ prev'[cursor] = <<>>
    /\ lost' = [lost EXCEPT ![cursor] = @ \cup (n + 1 .. b)]

Handled(y, n, b, z) == Handling(y, n, b, z) /\ (Written(n, b) \/ Failed(n, b))

LEMMA HandleRuns ==
    ASSUME TypeOK, Order, Cuts, HandleBuffer, fd_open[cursor[2]]
    PROVE  \E y, b, z \in Nat : /\ Behold(cursor, y) /\ y < b
                                /\ prev[cursor] \o Head(list) = Run(y, b)
                                /\ ~piped => Head(list) = Run(y, b)
                                /\ Chain(Tail(list), b, z)
                                /\ Chain(heads[cursor], z, rd[cursor])
<1>1. cursor \in Streams /\ list # <<>> /\ list \in Seq(Seq(Nat))
  BY DEF HandleBuffer, TypeOK, MainTypes
<1>2. prev[cursor] \in Seq(Nat)
  BY <1>1 DEF TypeOK, OutTypes
<1>3. PICK y, p, z \in Nat : /\ Behold(cursor, y) /\ y <= p /\ prev[cursor] = Run(y, p)
                             /\ Chain(list, p, z) /\ Chain(heads[cursor], z, rd[cursor])
  BY <1>1 DEF Order, InPlace, Held
<1>4. PICK b \in Nat : p < b /\ Head(list) = Run(p, b) /\ Chain(Tail(list), b, z)
  BY <1>1, <1>3, ChainTail
<1>5. prev[cursor] \o Head(list) = Run(y, b) /\ y < b
  <2>1. y <= p /\ p <= b /\ y < b
    BY <1>3, <1>4
  <2>2. Run(y, p) \o Run(p, b) = Run(y, b)
    BY <2>1, RunConcat, Zenon
  <2> QED
    BY <1>3, <1>4, <2>1, <2>2
<1>6. ~piped => Head(list) = Run(y, b)
  <2> SUFFICES ASSUME ~piped PROVE Head(list) = Run(y, b)
    OBVIOUS
  <2>1. prev[cursor] = <<>>
    BY <1>1 DEF Cuts
  <2>2. Head(list) \in Seq(Nat)
    BY <1>1, HeadTailProperties
  <2> QED
    BY <1>5, <2>1, <2>2, ConcatEmptySeq
<1> QED
  BY <1>3, <1>4, <1>5, <1>6

LEMMA HandleOutcome ==
    ASSUME TypeOK, Order, Cuts, HandleBuffer
    PROVE  /\ \A s \in Streams : s # cursor => /\ out'[s] = out[s] /\ prev'[s] = prev[s]
                                               /\ lost'[s] = lost[s]
           /\ \/ UNCHANGED <<out, prev, lost, fd_open>> /\ ~fd_open[cursor[2]]
              \/ /\ UNCHANGED <<out, prev, lost>> /\ ~piped
                 /\ fd_open' = [fd_open EXCEPT ![cursor[2]] = FALSE]
              \/ \E y, n, b, z \in Nat : Handled(y, n, b, z)
<1>1. cursor \in Streams /\ cursor[2] \in Cpus
  BY StreamFacts DEF HandleBuffer, TypeOK, MainTypes
<1>2. /\ out \in [Streams -> Seq(Nat)] /\ prev \in [Streams -> Seq(Nat)]
      /\ lost \in [Streams -> SUBSET Nat]
  BY DEF TypeOK, OutTypes
<1>3. CASE piped
  <2>1. fd_open[cursor[2]]
    BY <1>1, <1>3 DEF Cuts
  <2> DEFINE buf == prev[cursor] \o Head(list)
  <2>2. PICK y, b, z \in Nat : /\ Behold(cursor, y) /\ y < b /\ buf = Run(y, b)
                               /\ Chain(Tail(list), b, z) /\ Chain(heads[cursor], z, rd[cursor])
    BY <2>1, HandleRuns
  <2>3. PICK off \in WholeTraces(buf) : HandledUpTo(buf, off) /\ UNCHANGED fd_open
    BY <1>3 DEF HandleBuffer, HandleFile, HandledUpTo, WrittenUpTo, FailedAt
  <2> HIDE DEF buf
  <2>4. buf \in Seq(Nat) /\ Len(buf) = b - y /\ Head(buf) - 1 = y
    <3>1. buf \in Seq(Nat) /\ Len(buf) = b - y
      <4>1. y <= b
        BY <2>2
      <4> QED
        BY <2>2, <4>1, RunIsSeq, Zenon
    <3>2. Head(buf) = buf[1]
      BY <2>2, <3>1
    <3>3. buf[1] = y + 1
      BY <2>2 DEF Run
    <3> QED
      BY <3>1, <3>2, <3>3
  <2>5. /\ off \in Nat /\ y + off <= b
        /\ lost[cursor] = {} =>
              /\ y + off \in Boundaries(cursor)
              /\ \A e \in EventEnds[cursor] : e <= y + off \/ b < e
    <3>1. off \in 0 .. Len(buf)
      BY <1>1, <2>4, CutFacts
    <3>2. y + Len(buf) = b
      BY <2>4
    <3>3. lost[cursor] = {} => y \in Boundaries(cursor)
      <4> SUFFICES ASSUME lost[cursor] = {} PROVE y \in Boundaries(cursor)
        OBVIOUS
      <4>1. Len(out[cursor]) = y
        BY <2>2, BehindLen DEF Behold
      <4> QED
        BY <1>1, <1>3, <4>1 DEF Cuts, WholeCut
    <3>4. y \in Boundaries(cursor) =>
              /\ y + off \in Boundaries(cursor)
              /\ \A e \in EventEnds[cursor] : e <= y + off \/ y + Len(buf) < e
      BY <1>1, <2>4, CutFacts
    <3> QED
      BY <2>4, <3>1, <3>2, <3>3, <3>4
  <2>6. ASSUME NEW n \in Nat, n <= off
        PROVE  /\ SubSeq(buf, 1, n) = Run(y, y + n) /\ SubSeq(buf, n + 1, Len(buf)) = Run(y + n, b)
               /\ {buf[k] : k \in n + 1 .. Len(buf)} = y + n + 1 .. b
    <3>1. y + n <= b
      BY <2>5, <2>6
    <3>2. SubSeq(Run(y, b), 1, n) = Run(y, y + n)
          /\ SubSeq(Run(y, b), n + 1, Len(Run(y, b))) = Run(y + n, b)
      BY <3>1, RunCut, ZenonT(30)
    <3>3. {Run(y, b)[k] : k \in n + 1 .. Len(Run(y, b))} = y + n + 1 .. b
      BY <3>1, RunRest, Zenon
    <3> QED
      BY <2>2, <3>2, <3>3, Zenon
  <2>7. ASSUME NEW n \in Nat, n <= off, out' = [out EXCEPT ![cursor] = @ \o SubSeq(buf, 1, n)]
        PROVE  y + n \in Nat /\ Handling(y, y + n, b, z)
    <3>1. y + n \in Nat /\ y <= y + n /\ y + n <= b
      BY <2>5, <2>7
    <3>2. out'[cursor] = out[cursor] \o Run(y, y + n)
      BY <1>1, <1>2, <2>6, <2>7
    <3> QED
      BY <2>1, <2>2, <2>3, <3>1, <3>2 DEF Handling
  <2>8. CASE WrittenUpTo(buf, off)
    <3>1. off <= off
      BY <2>5
    <3>2. y + off \in Nat /\ Handling(y, y + off, b, z)
      BY <2>5, <2>7, <2>8, <3>1 DEF WrittenUpTo
    <3>3. prev'[cursor] = Run(y + off, b) /\ lost' = lost
      BY <1>1, <1>2, <2>5, <2>6, <2>8, <3>1 DEF WrittenUpTo
    <3>4. Handled(y, y + off, b, z)
      BY <1>3, <2>5, <3>2, <3>3 DEF Handled, Written
    <3>5. \A s \in Streams : s # cursor => /\ out'[s] = out[s] /\ prev'[s] = prev[s]
                                           /\ lost'[s] = lost[s]
      BY <1>1, <1>2, <2>8 DEF WrittenUpTo
    <3> QED
      BY <3>2, <3>4, <3>5
  <2>9. CASE \E n \in 0 .. off - 1 : FailedAt(buf, n)
    <3>1. PICK n \in 0 .. off - 1 : FailedAt(buf, n)
      BY <2>9
    <3>2. n \in Nat /\ n <= off /\ y + n < b
      BY <2>5
    <3>3. y + n \in Nat /\ Handling(y, y + n, b, z)
      BY <2>7, <3>1, <3>2 DEF FailedAt
    <3>4. prev'[cursor] = <<>> /\ lost' = [lost EXCEPT ![cursor] = @ \cup (y + n + 1 .. b)]
      BY <1>1, <1>2, <2>6, <3>1, <3>2 DEF FailedAt
    <3>5. Handled(y, y + n, b, z)
      BY <1>3, <3>2, <3>3, <3>4 DEF Handled, Failed
    <3>6. \A s \in Streams : s # cursor => /\ out'[s] = out[s] /\ prev'[s] = prev[s]
                                           /\ lost'[s] = lost[s]
      BY <1>1, <1>2, <3>1 DEF FailedAt
    <3> QED
      BY <3>3, <3>5, <3>6
  <2> QED
    BY <2>3, <2>8, <2>9 DEF HandledUpTo
<1>4. CASE ~piped
  <2>1. HandleNet(Head(list))
    BY <1>4 DEF HandleBuffer
  <2>2. prev' = prev /\ lost' = lost
    BY <2>1 DEF HandleNet
  <2>3. CASE UNCHANGED <<out, fd_open>> /\ ~fd_open[cursor[2]]
    BY <2>2, <2>3
  <2>4. CASE UNCHANGED out /\ fd_open' = [fd_open EXCEPT ![cursor[2]] = FALSE]
    BY <1>4, <2>2, <2>4
  <2>5. CASE /\ fd_open[cursor[2]] /\ UNCHANGED fd_open
             /\ out' = [out EXCEPT ![cursor] = @ \o Head(list)]
    <3>1. PICK y, b, z \in Nat : /\ Behold(cursor, y) /\ y < b /\ Head(list) = Run(y, b)
                                 /\ Chain(Tail(list), b, z) /\ Chain(heads[cursor], z, rd[cursor])
      BY <1>4, <2>5, HandleRuns
    <3>2. out'[cursor] = out[cursor] \o Run(y, b)
      BY <1>1, <1>2, <2>5, <3>1
    <3>3. prev'[cursor] = Run(b, b)
      <4>1. prev'[cursor] = <<>>
        BY <1>1, <1>4, <2>2 DEF Cuts
      <4>2. Run(b, b) \in Seq(Nat) /\ Len(Run(b, b)) = 0
        BY RunIsSeq
      <4> QED
        BY <4>1, <4>2, EmptySeq
    <3>4. Handled(y, b, b, z)
      <4>1. y <= b /\ b <= b
        BY <3>1
      <4> QED
        BY <1>4, <2>2, <2>5, <3>1, <3>2, <3>3, <4>1 DEF Handled, Handling, Written
    <3>5. \A s \in Streams : s # cursor => /\ out'[s] = out[s] /\ prev'[s] = prev[s]
                                           /\ lost'[s] = lost[s]
      BY <1>1, <1>2, <2>2, <2>5
    <3> QED
      BY <3>4, <3>5
  <2> QED
    BY <2>1, <2>3, <2>4, <2>5 DEF HandleNet
<1> QED
  BY <1>3, <1>4

\* What it leaves behind is in order again.
LEMMA HandledInOrder ==
    ASSUME TypeOK, NEW s \in Streams, s = cursor,
           NEW y \in Nat, NEW n \in Nat, NEW b \in Nat, NEW z \in Nat, Handled(y, n, b, z)
    PROVE  /\ \E m \in Nat : m <= b /\ Behold(s, m)' /\ prev'[s] = Run(m, b)
           /\ Written(n, b) => Behold(s, n)'
           /\ Failed(n, b) => lost'[s] = lost[s] \cup (n + 1 .. b) /\ lost'[s] # {}
<1>1. /\ out[s] \in Seq(Nat) /\ lost \in [Streams -> SUBSET Nat]
      /\ Behind(out[s], lost[s], y) /\ y <= n
  BY DEF TypeOK, OutTypes, Handled, Handling, Behold
<1>2. Behind(out'[s], lost[s], n)
  <2>1. Behind(out[s] \o Run(y, n), lost[s], n)
    BY <1>1, BehindAdd
  <2> QED
    BY <2>1 DEF Handled, Handling
<1>3. CASE Written(n, b)
  <2>1. Behold(s, n)' /\ n <= b /\ prev'[s] = Run(n, b)
    BY <1>2, <1>3 DEF Written, Behold, Handled, Handling
  <2>2. ~Failed(n, b)
    <3> SUFFICES ASSUME Failed(n, b) PROVE FALSE
      OBVIOUS
    <3>1. n < b /\ Run(n, b) = <<>>
      BY <2>1 DEF Failed
    <3>2. Len(Run(n, b)) = b - n /\ Len(<<>>) = 0
      BY <2>1, RunIsSeq
    <3> QED
      BY <3>1, <3>2
  <2> QED
    BY <2>1, <2>2
<1>4. CASE Failed(n, b)
  <2>1. n < b /\ prev'[s] = <<>> /\ lost'[s] = lost[s] \cup (n + 1 .. b)
    BY <1>1, <1>4 DEF Failed
  <2>2. Behind(out'[s], lost'[s], b) /\ lost'[s] # {}
    <3>1. Behind(out'[s], lost[s] \cup (n + 1 .. b), b) /\ lost[s] \cup (n + 1 .. b) # {}
      BY <1>2, <2>1, BehindLose
    <3> QED
      BY <2>1, <3>1, Zenon
  <2>3. Run(b, b) = <<>>
    <3>1. Run(b, b) \in Seq(Nat) /\ Len(Run(b, b)) = 0
      BY RunIsSeq
    <3> QED
      BY <3>1, EmptySeq
  <2>4. b <= b /\ Behold(s, b)' /\ prev'[s] = Run(b, b)
    BY <2>1, <2>2, <2>3 DEF Behold
  <2>5. ~Written(n, b)
    <3> SUFFICES ASSUME Written(n, b) PROVE FALSE
      OBVIOUS
    <3>1. n <= b /\ Run(n, b) = <<>>
      BY <2>1 DEF Written
    <3>2. Len(Run(n, b)) = b - n /\ Len(<<>>) = 0
      BY <3>1, RunIsSeq
    <3> QED
      BY <2>1, <3>1, <3>2
  <2> QED
    BY <2>1, <2>2, <2>4, <2>5
<1> QED
  BY <1>3, <1>4 DEF Handled

\* The list in work belongs to the cursor, wherever it moves.
LEMMA HeldStep ==
    ASSUME TypeOK, HandleBuffer
    PROVE  \A s \in Streams : Held(s)' = IF s = cursor THEN Tail(list) ELSE Held(s)
<1>1. /\ list # <<>> /\ list' = Tail(list) /\ list \in Seq(Seq(Nat))
      /\ cursor' = IF Len(list) = 1 THEN NextCursor ELSE cursor
  BY DEF HandleBuffer, TypeOK, MainTypes
<1>2. Len(list) = 1 => Tail(list) = <<>>
  <2>1. Tail(list) \in Seq(Seq(Nat)) /\ Len(Tail(list)) = Len(list) - 1
    BY <1>1, HeadTailProperties
  <2>2. Tail(list) # <<>> => Len(Tail(list)) # 0
    BY <2>1, EmptySeq
  <2> QED
    BY <2>1, <2>2
<1>3. CASE Len(list) = 1
  BY <1>1, <1>2, <1>3 DEF Held
<1>4. CASE Len(list) # 1
  BY <1>1, <1>4 DEF Held
<1> QED
  BY <1>3, <1>4

LEMMA OrderStep ==
    ASSUME TypeOK, Order, Cuts, [Next]_vars
    PROVE  Order'
<1> USE DEF kernelVars, tracerVars, handlerVars, mainVars, outVars
<1>1. ASSUME UNCHANGED <<out, lost, prev, rd, heads, fd_open>>, \A s \in Streams : Held(s)' = Held(s)
      PROVE  Order'
  BY <1>1 DEF Order, InPlace, Behold
<1>2. CASE UNCHANGED <<out, lost, prev, rd, heads, fd_open, cursor, list>>
  BY <1>1, <1>2 DEF Held
<1>3. ASSUME NEW c \in Cpus, ReadDevice(c) PROVE Order'
  <2> DEFINE s == <<dev[c], c>>
  <2>1. UNCHANGED <<out, lost, prev, fd_open, cursor, list>>
    BY <1>3 DEF ReadDevice
  <2>2. CASE UNCHANGED <<heads, rd>>
    BY <1>2, <2>1, <2>2
  <2>3. CASE s \in Streams /\ \E k \in Nat \ {0} :
                    /\ heads' = [heads EXCEPT ![s] = Append(@, Run(rd[s], rd[s] + k))]
                    /\ rd' = [rd EXCEPT ![s] = @ + k]
    <3>1. PICK k \in Nat \ {0} :
                    /\ heads' = [heads EXCEPT ![s] = Append(@, Run(rd[s], rd[s] + k))]
                    /\ rd' = [rd EXCEPT ![s] = @ + k]
      BY <2>3
    <3>2. heads \in [Streams -> Seq(Seq(Nat))] /\ rd \in [Streams -> Nat]
      BY DEF TypeOK, SharedTypes, KernelTypes
    <3>3. ASSUME NEW r \in Streams, fd_open[r[2]] PROVE InPlace(r)'
      <4>1. PICK y, p, z \in Nat : /\ Behold(r, y) /\ y <= p /\ prev[r] = Run(y, p)
                                   /\ Chain(Held(r), p, z) /\ Chain(heads[r], z, rd[r])
        BY <3>3 DEF Order, InPlace
      <4>b. Behold(r, y)'
        BY <2>1, <4>1 DEF Behold
      <4>2. Held(r)' = Held(r)
        BY <2>1 DEF Held
      <4>3. Chain(heads'[r], z, rd'[r])
        <5>1. CASE r = s
          <6>1. Chain(Append(heads[r], Run(rd[r], rd[r] + k)), z, rd[r] + k)
            BY <4>1, ChainAppend
          <6>2. heads'[r] = Append(heads[r], Run(rd[r], rd[r] + k)) /\ rd'[r] = rd[r] + k
            <7> HIDE DEF s
            <7> QED
              BY <2>3, <3>1, <3>2, <5>1
          <6> QED
            BY <6>1, <6>2
        <5>2. CASE r # s
          <6>1. heads'[r] = heads[r] /\ rd'[r] = rd[r]
            <7> HIDE DEF s
            <7> QED
              BY <2>3, <3>1, <3>2, <5>2
          <6> QED
            BY <4>1, <6>1
        <5> QED
          BY <5>1, <5>2
      <4> QED
        BY <2>1, <4>1, <4>b, <4>2, <4>3 DEF InPlace
    <3> HIDE DEF s
    <3> QED
      BY <2>1, <3>3 DEF Order
  <2> QED
    BY <1>3, <2>2, <2>3, ReadFacts
<1>4. CASE TakeList
  <2>1. UNCHANGED <<out, lost, prev, rd, fd_open>> /\ list = <<>>
    BY <1>4 DEF TakeList
  <2>2. CASE heads[cursor] = <<>>
    <3>1. UNCHANGED <<list, heads>>
      BY <1>4, <2>2 DEF TakeList
    <3> QED
      BY <1>1, <2>1, <3>1 DEF Held
  <2>3. CASE heads[cursor] # <<>>
    <3>1. list' = heads[cursor] /\ heads' = [heads EXCEPT ![cursor] = <<>>] /\ cursor' = cursor
      BY <1>4, <2>3 DEF TakeList
    <3>2. cursor \in Streams /\ heads \in [Streams -> Seq(Seq(Nat))]
      BY <1>4, CursorFacts DEF TakeList, TypeOK, SharedTypes
    <3>3. ASSUME NEW r \in Streams, fd_open[r[2]] PROVE InPlace(r)'
      <4>1. PICK y, p, z \in Nat : /\ Behold(r, y) /\ y <= p /\ prev[r] = Run(y, p)
                                   /\ Chain(Held(r), p, z) /\ Chain(heads[r], z, rd[r])
        BY <3>3 DEF Order, InPlace
      <4>b. Behold(r, y)'
        BY <2>1, <4>1 DEF Behold
      <4>2. CASE r = cursor
        <5>1. Held(r)' = heads[r] /\ heads'[r] = <<>>
          BY <3>1, <3>2, <4>2 DEF Held
        <5>2. p = z
          <6>1. Chain(<<>>, p, z)
            BY <2>1, <4>1, <4>2 DEF Held
          <6> QED
            BY <6>1, ChainEmpty
        <5>3. rd[r] \in Nat /\ Chain(<<>>, rd[r], rd[r])
          BY <4>1, ChainType, ChainEmpty
        <5> QED
          BY <2>1, <4>1, <4>b, <5>1, <5>2, <5>3 DEF InPlace
      <4>3. CASE r # cursor
        <5>1. Held(r)' = Held(r) /\ heads'[r] = heads[r]
          BY <3>1, <3>2, <4>3 DEF Held
        <5> QED
          BY <2>1, <4>1, <4>b, <5>1 DEF InPlace
      <4> QED
        BY <4>2, <4>3
    <3> QED
      BY <2>1, <3>3 DEF Order
  <2> QED
    BY <2>2, <2>3
<1>5. CASE HandleBuffer
  <2>1. cursor \in Streams /\ UNCHANGED <<rd, heads>>
    BY <1>5 DEF HandleBuffer, TypeOK, MainTypes
  <2>2. \A s \in Streams : s # cursor => /\ out'[s] = out[s] /\ prev'[s] = prev[s]
                                         /\ lost'[s] = lost[s]
    BY <1>5, HandleOutcome
  <2>3. \A s \in Streams : Held(s)' = IF s = cursor THEN Tail(list) ELSE Held(s)
    BY <1>5, HeldStep
  <2>4. fd_open \in [Cpus -> BOOLEAN]
    BY DEF TypeOK, OutTypes
  <2>5. ASSUME NEW s \in Streams, s # cursor
        PROVE  /\ lost'[s] = {} => out'[s] = Run(0, Len(out'[s]))
               /\ fd_open[s[2]] => InPlace(s)'
    BY <2>1, <2>2, <2>3, <2>5 DEF Order, InPlace, Behold
  <2>6. CASE \/ UNCHANGED <<out, lost, prev, fd_open>> /\ ~fd_open[cursor[2]]
             \/ UNCHANGED <<out, lost, prev>> /\ fd_open' = [fd_open EXCEPT ![cursor[2]] = FALSE]
    <3>1. out' = out /\ lost' = lost /\ ~fd_open'[cursor[2]] /\ \A c \in Cpus : fd_open'[c] => fd_open[c]
      BY <2>1, <2>4, <2>6, StreamFacts
    <3> QED
      BY <2>1, <2>5, <3>1, StreamFacts DEF Order
  <2>7. CASE \E y, n, b, z \in Nat : Handled(y, n, b, z)
    <3>1. PICK y, n, b, z \in Nat : Handled(y, n, b, z)
      BY <2>7
    <3>2. PICK s \in Streams : s = cursor
      BY <2>1
    <3>3. PICK m \in Nat : m <= b /\ Behold(s, m)' /\ prev'[s] = Run(m, b)
      BY <3>1, <3>2, HandledInOrder
    <3>4. InPlace(s)'
      <4>1. Chain(Tail(list), b, z) /\ Chain(heads'[s], z, rd'[s])
        BY <2>1, <3>1, <3>2 DEF Handled, Handling
      <4>2. Held(s)' = Tail(list)
        BY <2>3, <3>2
      <4> QED
        BY <3>3, <4>1, <4>2 DEF InPlace
    <3>5. lost'[s] = {} => out'[s] = Run(0, Len(out'[s]))
      <4> SUFFICES ASSUME lost'[s] = {} PROVE out'[s] = Run(0, Len(out'[s]))
        OBVIOUS
      <4>1. Behind(out'[s], {}, m)
        BY <3>3, Zenon DEF Behold
      <4> QED
        BY <4>1, BehindLen
    <3>6. fd_open' = fd_open
      BY <3>1 DEF Handled, Handling
    <3> QED
      BY <2>5, <3>2, <3>4, <3>5, <3>6 DEF Order
  <2> QED
    BY <1>5, <2>6, <2>7, HandleOutcome
<1>6. CASE DecrEntries
  <2>1. UNCHANGED <<out, lost, prev, rd, heads, fd_open, list>> /\ list = <<>>
    BY <1>6 DEF DecrEntries
  <2> QED
    BY <1>1, <2>1 DEF Held
<1>7. ASSUME NEW c \in Cpus, PollLoop(c) \/ EndRead(c)
      PROVE  UNCHANGED <<out, lost, prev, rd, heads, fd_open, cursor, list>>
  BY <1>7 DEF PollLoop, EndRead
<1>8. ASSUME NEW s \in Streams, Record(s)
      PROVE  UNCHANGED <<out, lost, prev, rd, heads, fd_open, cursor, list>>
  BY <1>8 DEF Record
<1>9. ASSUME \/ Interrupt \/ StopTrace \/ TellTracer \/ Finished \/ UNCHANGED vars
             \/ WaitEmptyEntries \/ WaitTimesOut \/ JoinTracers \/ CleanTraceBufs
      PROVE  UNCHANGED <<out, lost, prev, rd, heads, fd_open, cursor, list>>
  BY <1>9 DEF Interrupt, StopTrace, TellTracer, Finished, vars, WaitEmptyEntries, WaitTimesOut,
              JoinTracers, CleanTraceBufs
<1> QED
  BY <1>2, <1>3, <1>4, <1>5, <1>6, <1>7, <1>8, <1>9
  DEF Next, MainStep, HandlerStep, TracerStep

LEMMA CutsStep ==
    ASSUME TypeOK, Order, Cuts, [Next]_vars
    PROVE  Cuts'
<1> USE DEF kernelVars, tracerVars, handlerVars, mainVars, outVars
<1>1. CASE UNCHANGED <<piped, out, lost, prev, fd_open>>
  BY <1>1 DEF Cuts, WholeCut
<1>2. CASE HandleBuffer
  <2>1. cursor \in Streams /\ cursor[2] \in Cpus /\ piped' = piped
    BY <1>2, StreamFacts DEF HandleBuffer, TypeOK, MainTypes
  <2>2. \A s \in Streams : s # cursor => /\ out'[s] = out[s] /\ prev'[s] = prev[s]
                                         /\ lost'[s] = lost[s]
    BY <1>2, HandleOutcome
  <2>3. CASE UNCHANGED <<out, lost, prev, fd_open>>
    BY <1>1, <2>1, <2>3
  <2>4. CASE UNCHANGED <<out, lost, prev>> /\ ~piped
    BY <2>1, <2>4 DEF Cuts, WholeCut
  <2>5. CASE \E y, n, b, z \in Nat : Handled(y, n, b, z)
    <3>1. PICK y, n, b, z \in Nat : Handled(y, n, b, z)
      BY <2>5
    <3>2. PICK s \in Streams : s = cursor
      BY <2>1
    <3>3. fd_open' = fd_open /\ n <= b
      BY <3>1 DEF Handled, Handling
    <3>4. \A r \in Streams : r # s => (WholeCut(r) => WholeCut(r)')
      BY <2>2, <3>2 DEF WholeCut
    <3>5. CASE Written(n, b)
      <4>1. Behind(out'[s], lost'[s], n) /\ lost'[s] = lost[s]
        BY <3>1, <3>2, <3>5, HandledInOrder DEF Behold, Written
      <4>2. prev'[s] \in Seq(Nat) /\ Len(prev'[s]) = b - n
        <5>1. prev'[s] = Run(n, b)
          BY <3>2, <3>5 DEF Written
        <5> QED
          BY <3>3, <5>1, RunIsSeq
      <4>3. CASE piped
        <5>1. lost'[s] = {} => WholeCut(s)'
          <6> SUFFICES ASSUME lost'[s] = {} PROVE WholeCut(s)'
            OBVIOUS
          <6>1. Behind(out'[s], {}, n)
            BY <4>1, Zenon
          <6>2. Len(out'[s]) = n
            BY <6>1, BehindLen
          <6>3. n + Len(prev'[s]) = b
            BY <4>2
          <6>4. n \in Boundaries(s) /\ \A e \in EventEnds[s] : e <= n \/ b < e
            BY <3>2, <3>5, <4>1, <4>3 DEF Written
          <6> QED
            BY <6>2, <6>3, <6>4 DEF WholeCut
        <5> QED
          BY <2>1, <2>2, <3>2, <3>3, <3>4, <4>3, <5>1 DEF Cuts
      <4>4. CASE ~piped
        <5>1. n = b
          BY <3>5, <4>4 DEF Written
        <5>2. prev'[s] = <<>>
          BY <4>2, <5>1, EmptySeq
        <5> QED
          BY <2>1, <2>2, <3>2, <4>1, <4>4, <5>2 DEF Cuts
      <4> QED
        BY <4>3, <4>4
    <3>6. CASE Failed(n, b)
      <4>1. piped /\ lost'[s] # {}
        BY <3>1, <3>2, <3>6, HandledInOrder DEF Failed
      <4> QED
        BY <2>1, <2>2, <3>2, <3>3, <3>4, <4>1 DEF Cuts
    <3> QED
      BY <3>1, <3>5, <3>6 DEF Handled
  <2> QED
    BY <1>2, <2>3, <2>4, <2>5, HandleOutcome
<1>3. ASSUME NEW c \in Cpus, PollLoop(c) \/ ReadDevice(c) \/ EndRead(c)
      PROVE  UNCHANGED <<piped, out, lost, prev, fd_open>>
  BY <1>3 DEF PollLoop, ReadDevice, EndRead
<1>4. ASSUME NEW s \in Streams, Record(s)
      PROVE  UNCHANGED <<piped, out, lost, prev, fd_open>>
  BY <1>4 DEF Record
<1>5. ASSUME \/ Interrupt \/ StopTrace \/ TellTracer \/ Finished \/ UNCHANGED vars
             \/ WaitEmptyEntries \/ WaitTimesOut \/ JoinTracers \/ CleanTraceBufs
             \/ TakeList \/ DecrEntries
      PROVE  UNCHANGED <<piped, out, lost, prev, fd_open>>
  BY <1>5 DEF Interrupt, StopTrace, TellTracer, Finished, vars, WaitEmptyEntries, WaitTimesOut,
              JoinTracers, CleanTraceBufs, TakeList, DecrEntries
<1> QED
  BY <1>1, <1>2, <1>3, <1>4, <1>5 DEF Next, MainStep, HandlerStep, TracerStep

LEMMA DrainingStep ==
    ASSUME TypeOK, Draining, [Next]_vars
    PROVE  Draining'
<1> USE DEF kernelVars, tracerVars, handlerVars, mainVars, outVars
<1>0. /\ pc \in [Cpus -> {"loop", "read", "drain", "left"}] /\ dev \in [Cpus -> 1 .. NDevs + 1]
      /\ nentries \in [Cpus -> Nat] /\ is_done \in [Cpus -> BOOLEAN]
      /\ \A c \in Cpus : dev[c] \in 1 .. NDevs + 1 /\ nentries[c] \in Nat
  BY DEF TypeOK, TracerTypes, HandlerTypes
<1> DEFINE Drains(c) ==
             /\ is_done[c] => ~tracing
             /\ pc[c] \in {"drain", "left"} => is_done[c]
             /\ pc[c] \in {"loop", "left"} => nentries[c] = 0 /\ dev[c] = 1
             /\ pc[c] = "drain" /\ nentries[c] = 0 => ReadAll(c, dev[c] - 1)
             /\ pc[c] = "left" => ReadAll(c, NDevs)
<1>1. \A c \in Cpus : Drains(c)
  BY DEF Draining
<1>2. CASE UNCHANGED <<filled, rd, tracing, pc, dev, nentries, is_done, handler, main>>
  BY <1>2 DEF Draining, ReadAll
<1>3. ASSUME NEW s \in Streams, Record(s) PROVE Draining'
  <2>1. tracing /\ UNCHANGED <<tracing, pc, dev, nentries, is_done, handler, main>>
    BY <1>3 DEF Record
  <2>2. \A c \in Cpus : ~is_done[c]
    BY <2>1 DEF Draining
  <2> QED
    BY <2>1, <2>2 DEF Draining
<1>4. ASSUME NEW c \in Cpus, PollLoop(c) PROVE Draining'
  <2>1. /\ pc[c] = "loop" /\ pc' = [pc EXCEPT ![c] = IF is_done[c] THEN "drain" ELSE "read"]
        /\ UNCHANGED <<filled, rd, tracing, dev, nentries, is_done, handler, main>>
    BY <1>4 DEF PollLoop
  <2>2. nentries[c] = 0 /\ dev[c] = 1
    BY <1>1, <2>1
  <2>3. ReadAll(c, dev[c] - 1)'
    BY <2>1, <2>2 DEF ReadAll
  <2>4. main \notin {"clean", "rescan", "finished"}
    BY <2>1 DEF Draining
  <2>5. ASSUME NEW b \in Cpus PROVE Drains(b)'
    <3>1. CASE b = c
      BY <1>0, <1>1, <2>1, <2>3, <3>1
    <3>2. CASE b # c
      BY <1>0, <1>1, <2>1, <3>2 DEF ReadAll
    <3> QED
      BY <3>1, <3>2
  <2> QED
    BY <2>1, <2>4, <2>5 DEF Draining
<1>5. ASSUME NEW c \in Cpus, ReadDevice(c) PROVE Draining'
  <2>1. /\ pc[c] \in {"read", "drain"} /\ dev' = [dev EXCEPT ![c] = @ + 1]
        /\ UNCHANGED <<filled, tracing, pc, is_done, handler, main>>
    BY <1>5 DEF ReadDevice
  <2> DEFINE s == <<dev[c], c>>
  <2>2. /\ s \in Streams /\ dev[c] \in Devs
        /\ \/ UNCHANGED <<rd, nentries>> /\ (rd[s] = filled[s] \/ pc[c] = "read")
           \/ \E k \in Nat \ {0} : /\ rd' = [rd EXCEPT ![s] = @ + k]
                                   /\ nentries' = [nentries EXCEPT ![c] = @ + 1]
    BY <1>5, ReadFacts
  <2>3. ASSUME NEW b \in Cpus, b # c PROVE Drains(b)'
    <3>1. \A d \in 1 .. NDevs : rd'[<<d, b>>] = rd[<<d, b>>]
      <4>1. rd \in [Streams -> Nat] /\ \A d \in 1 .. NDevs : <<d, b>> \in Streams /\ <<d, b>> # s
        BY <2>3, StreamFacts DEF TypeOK, KernelTypes, Devs
      <4> HIDE DEF s
      <4> QED
        BY <2>2, <4>1
    <3>2. /\ pc'[b] = pc[b] /\ dev'[b] = dev[b] /\ nentries'[b] = nentries[b]
          /\ is_done'[b] = is_done[b] /\ tracing' = tracing
      <4> HIDE DEF s
      <4> QED
        BY <1>0, <2>1, <2>2, <2>3
    <3>3. \A n \in 0 .. NDevs : ReadAll(b, n)' <=> ReadAll(b, n)
      BY <2>1, <3>1 DEF ReadAll
    <3>4. dev[b] - 1 \in 0 .. NDevs /\ NDevs \in 0 .. NDevs
      BY <1>0
    <3> QED
      BY <1>1, <3>2, <3>3, <3>4
  <2>4. Drains(c)'
    <3>1. CASE UNCHANGED <<rd, nentries>> /\ (rd[s] = filled[s] \/ pc[c] = "read")
      <4>1. pc[c] = "drain" /\ nentries[c] = 0 => ReadAll(c, dev[c] - 1)'
        <5> SUFFICES ASSUME pc[c] = "drain", nentries[c] = 0
                     PROVE  \A d \in 1 .. dev'[c] - 1 : rd[<<d, c>>] = filled[<<d, c>>]
          BY <2>1, <3>1 DEF ReadAll
        <5>1. \A d \in 1 .. dev[c] - 1 : rd[<<d, c>>] = filled[<<d, c>>]
          BY <1>1 DEF ReadAll
        <5>2. rd[<<dev[c], c>>] = filled[<<dev[c], c>>]
          BY <3>1
        <5>3. dev'[c] - 1 = dev[c] /\ dev[c] \in Nat
          BY <1>0, <2>1
        <5> QED
          BY <5>1, <5>2, <5>3
      <4>2. /\ pc'[c] = pc[c] /\ pc[c] \in {"read", "drain"} /\ nentries'[c] = nentries[c]
            /\ is_done'[c] = is_done[c] /\ tracing' = tracing
        BY <2>1, <3>1
      <4> QED
        BY <1>1, <4>1, <4>2
    <3>2. CASE nentries' = [nentries EXCEPT ![c] = @ + 1]
      <4>1. nentries'[c] # 0
        BY <1>0, <3>2
      <4>2. /\ pc'[c] = pc[c] /\ pc[c] \in {"read", "drain"}
            /\ is_done'[c] = is_done[c] /\ tracing' = tracing
        BY <2>1
      <4> QED
        BY <1>1, <4>1, <4>2
    <3> HIDE DEF s
    <3> QED
      BY <2>2, <3>1, <3>2
  <2>5. main \in {"clean", "rescan", "finished"} => \A b \in Cpus : pc[b] = "left"
    BY DEF Draining
  <2>6. tracing <=> handler \in {"idle", "ioctl"}
    BY DEF Draining
  <2> QED
    BY <2>1, <2>3, <2>4, <2>5, <2>6 DEF Draining
<1>6. ASSUME NEW c \in Cpus, EndRead(c) PROVE Draining'
  <2>1. /\ pc[c] \in {"read", "drain"} /\ dev[c] = NDevs + 1
        /\ nentries' = [nentries EXCEPT ![c] = 0] /\ dev' = [dev EXCEPT ![c] = 1]
        /\ pc' = [pc EXCEPT ![c] = IF @ = "read" THEN "loop"
                                   ELSE IF nentries[c] > 0 THEN "drain" ELSE "left"]
        /\ UNCHANGED <<filled, rd, tracing, is_done, handler, main>>
    BY <1>6 DEF EndRead
  <2>2. nentries'[c] = 0 /\ dev'[c] = 1
    BY <1>0, <2>1
  <2>3. ReadAll(c, dev[c] - 1)'
    BY <2>1, <2>2 DEF ReadAll
  <2>4. pc[c] = "drain" /\ nentries[c] = 0 => ReadAll(c, NDevs)'
    <3>1. dev[c] - 1 = NDevs
      BY <2>1
    <3> QED
      BY <1>1, <2>1, <3>1 DEF ReadAll
  <2>5. Drains(c)'
    <3>1. CASE pc[c] = "read"
      <4>1. pc'[c] = "loop"
        BY <1>0, <2>1, <3>1
      <4> QED
        BY <1>1, <2>1, <2>2, <4>1
    <3>2. CASE pc[c] = "drain" /\ nentries[c] > 0
      <4>1. pc'[c] = "drain"
        BY <1>0, <2>1, <3>2
      <4> QED
        BY <1>1, <2>1, <2>3, <3>2, <4>1
    <3>3. CASE pc[c] = "drain" /\ ~(nentries[c] > 0)
      <4>1. pc'[c] = "left" /\ nentries[c] = 0
        BY <1>0, <2>1, <3>3
      <4> QED
        BY <1>1, <2>1, <2>2, <2>4, <3>3, <4>1
    <3> QED
      BY <2>1, <3>1, <3>2, <3>3
  <2>6. ASSUME NEW b \in Cpus, b # c PROVE Drains(b)'
    BY <1>0, <1>1, <2>1, <2>6 DEF ReadAll
  <2>7. main \notin {"clean", "rescan", "finished"}
    BY <2>1 DEF Draining
  <2>8. tracing <=> handler \in {"idle", "ioctl"}
    BY DEF Draining
  <2> QED
    BY <2>1, <2>5, <2>6, <2>7, <2>8 DEF Draining
<1>7. CASE Interrupt
  <2>1. handler = "idle" /\ handler' = "ioctl"
        /\ UNCHANGED <<filled, rd, tracing, pc, dev, nentries, is_done, main>>
    BY <1>7 DEF Interrupt
  <2> QED
    BY <2>1 DEF Draining, ReadAll
<1>8. CASE StopTrace
  <2>1. handler = "ioctl" /\ handler' = "tell" /\ tracing' = FALSE
        /\ UNCHANGED <<filled, rd, pc, dev, nentries, is_done, main>>
    BY <1>8 DEF StopTrace
  <2> QED
    BY <2>1 DEF Draining, ReadAll
<1>9. CASE TellTracer
  <2>1. /\ handler = "tell" /\ handler' \in {"tell", "over"}
        /\ is_done' = [is_done EXCEPT ![told + 1] = TRUE]
        /\ UNCHANGED <<filled, rd, tracing, pc, dev, nentries, main>>
    BY <1>9 DEF TellTracer
  <2>2. ~tracing
    BY <2>1 DEF Draining
  <2>3. \A c \in Cpus : is_done[c] => is_done'[c]
    BY <1>0, <2>1
  <2>4. \A c \in Cpus, n \in Int : ReadAll(c, n)' <=> ReadAll(c, n)
    BY <2>1 DEF ReadAll
  <2>5. ASSUME NEW c \in Cpus PROVE Drains(c)'
    BY <1>0, <1>1, <2>1, <2>2, <2>3, <2>4
  <2> QED
    BY <2>1, <2>2, <2>5 DEF Draining
<1>10. CASE WaitEmptyEntries \/ WaitTimesOut
  <2>1. UNCHANGED <<filled, rd, tracing, pc, dev, nentries, is_done, handler>>
        /\ (main' = main \/ main' \in {"join", "scan"})
    BY <1>10 DEF WaitEmptyEntries, WaitTimesOut
  <2> QED
    BY <2>1 DEF Draining, ReadAll
<1>11. CASE TakeList \/ HandleBuffer
  <2>1. UNCHANGED <<filled, rd, tracing, pc, dev, nentries, is_done, handler, main>>
    BY <1>11 DEF TakeList, HandleBuffer
  <2> QED
    BY <1>2, <2>1
<1>12. CASE DecrEntries
  <2>1. UNCHANGED <<filled, rd, tracing, pc, dev, nentries, is_done, handler>>
        /\ ((main = "scan" /\ main' = "wait") \/ main = "rescan")
    BY <1>12 DEF DecrEntries, Scanning, MainAt
  <2> QED
    BY <2>1 DEF Draining, ReadAll
<1>13. CASE JoinTracers
  <2>1. UNCHANGED <<filled, rd, tracing, pc, dev, nentries, is_done, handler>>
        /\ \A c \in Cpus : pc[c] = "left"
    BY <1>13 DEF JoinTracers
  <2> QED
    BY <2>1 DEF Draining, ReadAll
<1>14. CASE CleanTraceBufs
  <2>1. UNCHANGED <<filled, rd, tracing, pc, dev, nentries, is_done, handler>>
        /\ main = "clean"
    BY <1>14 DEF CleanTraceBufs, MainAt
  <2> QED
    BY <2>1 DEF Draining, ReadAll
<1>15. ASSUME Finished \/ UNCHANGED vars
       PROVE  UNCHANGED <<filled, rd, tracing, pc, dev, nentries, is_done, handler, main>>
  BY <1>15 DEF Finished, vars
<1> QED
  BY <1>2, <1>3, <1>4, <1>5, <1>6, <1>7, <1>8, <1>9, <1>10, <1>11, <1>12, <1>13, <1>14, <1>15
  DEF Next, MainStep, HandlerStep, TracerStep

-----------------------------------------------------------------------------
(* The theorems. *)

LEMMA InitInv ==
    ASSUME Init
    PROVE  IInv
<1>1. TypeOK
  <2>1. 1 \in Cpus /\ 1 \in 1 .. NDevs + 1 /\ 0 \in 0 .. NCpus /\ 0 < NCpus
    BY DEF Cpus
  <2>2. <<>> \in Seq(Seq(Nat)) /\ <<>> \in Seq(Nat)
    OBVIOUS
  <2>3. KernelTypes /\ TracerTypes /\ HandlerTypes
    BY <2>1 DEF Init, KernelTypes, TracerTypes, HandlerTypes
  <2>4. SharedTypes /\ OutTypes
    <3>1. heads \in [Streams -> Seq(Seq(Nat))]
      BY <2>2 DEF Init
    <3>2. prev \in [Streams -> Seq(Nat)] /\ out \in [Streams -> Seq(Nat)]
      BY <2>2 DEF Init
    <3>3. fd_open \in [Cpus -> BOOLEAN] /\ lost \in [Streams -> SUBSET Nat]
      BY DEF Init
    <3>4. dp_entries = 0 /\ asleep = FALSE
      BY DEF Init
    <3>5. dp_entries \in Int
      BY <3>4
    <3>6. asleep \in BOOLEAN
      BY <3>4, Zenon
    <3> QED
      BY <3>1, <3>2, <3>3, <3>5, <3>6 DEF SharedTypes, OutTypes
  <2>5. MainTypes
    BY <2>1, <2>2 DEF Init, MainTypes
  <2> QED
    BY <2>3, <2>4, <2>5 DEF TypeOK
<1>2. AtRest
  BY DEF Init, AtRest
<1>3. Account
  <2>1. IsFiniteSet(Units(nentries)) /\ Total(nentries) = 0
    BY TotalZero DEF Init
  <2>2. \A s \in DOMAIN Queued : Queued[s] = 0
    BY DEF Init, Queued
  <2>3. IsFiniteSet(Units(Queued)) /\ Total(Queued) = 0
    BY <2>2, TotalZero
  <2>4. dp_entries = 0 /\ Len(list) = 0 /\ handled = 0
    BY DEF Init
  <2> QED
    BY <2>1, <2>3, <2>4 DEF Account
<1>4. Recorded
  BY DEF Init, Recorded, Boundaries
<1>5. Order /\ Cuts
  <2>1. Run(0, 0) = <<>>
    <3>1. Run(0, 0) \in Seq(Nat) /\ Len(Run(0, 0)) = 0
      BY RunIsSeq
    <3> QED
      BY <3>1, EmptySeq
  <2>2. Chain(<<>>, 0, 0)
    BY ChainEmpty
  <2>3. ASSUME NEW s \in Streams
        PROVE  /\ out[s] = <<>> /\ prev[s] = <<>> /\ heads[s] = <<>> /\ rd[s] = 0 /\ Held(s) = <<>>
               /\ lost[s] = {} /\ fd_open[s[2]]
    BY StreamFacts DEF Init, Held
  <2>4. Behind(<<>>, {}, 0)
    <3>1. ToSet(<<>>) = {} /\ Len(<<>>) = 0 /\ 1 .. 0 = {}
      BY DEF ToSet
    <3> QED
      BY <2>1, <3>1 DEF Behind
  <2>5. ASSUME NEW s \in Streams PROVE InPlace(s) /\ out[s] = Run(0, Len(out[s]))
    <3>1. Len(<<>>) = 0 /\ 0 \in Nat /\ 0 <= 0
      OBVIOUS
    <3>2. Behold(s, 0)
      BY <2>3, <2>4 DEF Behold
    <3> QED
      BY <2>1, <2>2, <2>3, <3>1, <3>2 DEF InPlace
  <2>6. ASSUME NEW s \in Streams, NEW e \in EventEnds[s]
        PROVE  Len(out[s]) + Len(prev[s]) < e
    <3>1. e \in Nat \ {0} /\ Len(<<>>) = 0
      OBVIOUS
    <3>2. Len(out[s]) = 0 /\ Len(prev[s]) = 0
      BY <2>3, <3>1
    <3> QED
      BY <3>1, <3>2
  <2>7. \A s \in Streams : Len(out[s]) \in Boundaries(s)
    BY <2>3, StreamFacts DEF Boundaries
  <2> QED
    BY <2>3, <2>5, <2>6, <2>7 DEF Order, Cuts, WholeCut
<1>6. Draining
  BY DEF Init, Draining, ReadAll
<1> QED
  BY <1>1, <1>2, <1>3, <1>4, <1>5, <1>6 DEF IInv

\* The inductive invariant holds: whatever the tracers, the main thread and the signal
\* handler do, one at a time.
THEOREM InductiveInvariant == Spec => []IInv
<1>1. Init => IInv
  BY InitInv
<1>2. IInv /\ [Next]_vars => IInv'
  BY TypeStep, RestStep, AccountStep, RecordedStep, OrderStep, CutsStep, DrainingStep DEF IInv
<1> QED
  BY <1>1, <1>2, PTL DEF Spec

\* Type correctness of the model of the buffer lists and their readers and writers.
THEOREM TypeCorrect == Spec => []TypeOK
<1>1. IInv => TypeOK
  BY DEF IInv
<1> QED
  BY <1>1, InductiveInvariant, PTL

\* dp_entries is what is queued and taken, less what the tracers have yet to count,
\* and the main thread never sleeps while it counts something.
THEOREM EntriesCounted == Spec => []EntriesAccount
<1>1. IInv => EntriesAccount
  BY DEF IInv, Account, AtRest, EntriesAccount
<1> QED
  BY <1>1, InductiveInvariant, PTL

\* Until a write or the connection of its CPU fails, nothing that was read is lost on its
\* way to the output; nothing is ever doubled or reordered, a failed write takes with it
\* what is named, and what was sent has no gap.
THEOREM NothingLost == Spec => []NothingLostOrReordered
<1>1. ASSUME IInv, NEW s \in Streams, fd_open[s[2]],
             NEW rest, rest = prev[s] \o InList(s) \o FlattenSeq(heads[s]),
             NEW z, z = rd[s] - Len(rest)
      PROVE  /\ rest = [i \in 1 .. Len(rest) |-> z + i]
             /\ ToSet(out[s]) = (1 .. z) \ lost[s] /\ lost[s] \subseteq 1 .. z
             /\ \A i, j \in 1 .. Len(out[s]) : i < j => out[s][i] < out[s][j]
  <2>1. rd[s] \in Nat
    BY <1>1 DEF IInv, TypeOK, OutTypes, KernelTypes
  <2>2. PICK y, p, x \in Nat : /\ Behold(s, y) /\ y <= p /\ prev[s] = Run(y, p)
                               /\ Chain(Held(s), p, x) /\ Chain(heads[s], x, rd[s])
    BY <1>1 DEF IInv, Order, InPlace
  <2>3. InList(s) = Run(p, x) /\ p <= x
    <3>1. FlattenSeq(Held(s)) = Run(p, x) /\ p <= x
      BY <2>2, FlattenChain, ChainType
    <3>2. CASE s = cursor
      BY <3>1, <3>2 DEF InList, Held
    <3>3. CASE s # cursor
      <4>1. p = x
        BY <2>2, <3>3, ChainEmpty DEF Held
      <4>2. Run(p, p) \in Seq(Nat) /\ Len(Run(p, p)) = 0
        BY RunIsSeq
      <4>3. Run(p, p) = <<>>
        BY <4>2, EmptySeq
      <4> QED
        BY <3>1, <3>3, <4>1, <4>3 DEF InList
    <3> QED
      BY <3>2, <3>3
  <2>4. FlattenSeq(heads[s]) = Run(x, rd[s]) /\ x <= rd[s]
    BY <2>2, FlattenChain, ChainType
  <2>5. Run(y, p) \o Run(p, x) = Run(y, x)
    BY <2>2, <2>3, RunConcat, Zenon
  <2>6. Run(y, x) \o Run(x, rd[s]) = Run(y, rd[s]) /\ y <= rd[s]
    <3>1. y <= x /\ y <= rd[s]
      BY <2>1, <2>2, <2>3, <2>4
    <3> QED
      BY <2>1, <2>4, <3>1, RunConcat, Zenon
  <2>7. rest = Run(y, rd[s])
    BY <1>1, <2>2, <2>3, <2>4, <2>5, <2>6
  <2>8. Len(rest) = rd[s] - y /\ z = y
    <3>1. Len(rest) = rd[s] - y
      BY <2>1, <2>6, <2>7, RunIsSeq
    <3> QED
      BY <1>1, <2>1, <3>1
  <2>9. Behind(out[s], lost[s], z)
    BY <2>2, <2>8 DEF Behold
  <2> QED
    BY <2>7, <2>8, <2>9 DEF Run, Behind
<1>2. ASSUME IInv, NEW s \in Streams, lost[s] = {}
      PROVE  out[s] = [i \in 1 .. Len(out[s]) |-> i]
  <2>1. out[s] = Run(0, Len(out[s])) /\ Len(out[s]) \in Nat
    BY <1>2 DEF IInv, Order, TypeOK, OutTypes
  <2>2. Run(0, Len(out[s])) = [i \in 1 .. Len(out[s]) |-> i]
    BY <2>1 DEF Run
  <2> QED
    BY <2>1, <2>2
<1>3. IInv => NothingLostOrReordered
  BY <1>1, <1>2 DEF NothingLostOrReordered
<1> QED
  BY <1>3, InductiveInvariant, PTL

-----------------------------------------------------------------------------
(* TraceBufs implements TraceStream. *)

\* The first unit that was lost; what is lost behind the others changes nothing.
LEMMA FirstLost ==
    ASSUME NEW S \in SUBSET Nat, S # {}
    PROVE  Min(S) \in S /\ \A k \in S : Min(S) <= k
<1>1. \E m \in S : \A k \in S : m <= k
  BY LeastNat
<1> QED
  BY <1>1 DEF Min

LEMMA FirstStays ==
    ASSUME NEW S, NEW T, NEW y \in Nat, S \subseteq 1 .. y, S # {},
           T \subseteq Nat, \A k \in T : y < k
    PROVE  Min(S \cup T) = Min(S)
<1>1. /\ Min(S) \in S /\ \A k \in S : Min(S) <= k
      /\ Min(S \cup T) \in S \cup T /\ \A k \in S \cup T : Min(S \cup T) <= k
  <2>1. S \in SUBSET Nat /\ S \cup T \in SUBSET Nat /\ S \cup T # {}
    OBVIOUS
  <2> QED
    BY <2>1, FirstLost
<1>2. PICK m, n : m = Min(S) /\ n = Min(S \cup T)
  OBVIOUS
<1>3. m \in 1 .. y /\ n <= m /\ n \in Nat
  <2>1. m \in S /\ n \in S \cup T /\ \A k \in S \cup T : n <= k
    BY <1>1, <1>2
  <2> QED
    BY <2>1
<1>4. n \in S
  BY <1>1, <1>2, <1>3
<1> QED
  BY <1>1, <1>2, <1>3, <1>4

\* What has come out whole is the last event that ends in the output.
LEMMA LastEnd ==
    ASSUME NEW s \in Streams, NEW n \in Nat, NEW p \in BOOLEAN, p => n \in Boundaries(s),
           NEW w, w = IF p THEN n ELSE Max({b \in Boundaries(s) : b <= n})
    PROVE  /\ w \in Boundaries(s) /\ w <= n
           /\ \A b \in Boundaries(s) : b <= n => b <= w
<1>1. Boundaries(s) \subseteq Nat /\ 0 \in Boundaries(s)
  BY StreamFacts
<1>2. CASE p
  <2>1. w = n
    BY <1>2
  <2> QED
    BY <1>1, <1>2, <2>1
<1>3. CASE ~p
  <2> DEFINE S == {b \in Boundaries(s) : b <= n}
  <2>1. S \in SUBSET Nat /\ S # {} /\ \A x \in S : x <= n
    BY <1>1
  <2>2. Max(S) \in S /\ \A x \in S : x <= Max(S)
    <3> HIDE DEF S
    <3> QED
      BY <2>1, MaxOfBounded
  <2>3. w = Max(S)
    BY <1>3
  <2> QED
    BY <1>1, <2>2, <2>3
<1> QED
  BY <1>2, <1>3

LEMMA OutToFacts ==
    ASSUME TypeOK, Order, Cuts, NEW s \in Streams
    PROVE  /\ OutTo(s) \in Nat
           /\ piped /\ lost[s] = {} => OutTo(s) \in Boundaries(s)
           /\ \A y \in Nat : Behold(s, y) => OutTo(s) <= y
<1>1. out[s] \in Seq(Nat) /\ Len(out[s]) \in Nat /\ lost[s] \in SUBSET Nat
  BY DEF TypeOK, OutTypes
<1>2. CASE lost[s] = {}
  <2>1. OutTo(s) = Len(out[s])
    BY <1>2 DEF OutTo
  <2>2. piped => OutTo(s) \in Boundaries(s)
    BY <1>2, <2>1 DEF Cuts, WholeCut
  <2>3. \A y \in Nat : Behold(s, y) => Len(out[s]) = y
    BY <1>2, BehindLen DEF Behold
  <2> QED
    BY <1>1, <2>1, <2>2, <2>3
<1>3. CASE lost[s] # {}
  <2>1. PICK m : m = Min(lost[s]) /\ m \in lost[s]
    BY <1>1, <1>3, FirstLost
  <2>2. \A y \in Nat : Behold(s, y) => m \in 1 .. y
    BY <2>1 DEF Behold, Behind
  <2>3. OutTo(s) = m - 1 /\ m \in Nat
    BY <1>1, <1>3, <2>1 DEF OutTo
  <2>4. \E y \in Nat : Behold(s, y)
    BY <1>3 DEF Cuts, Order, InPlace
  <2> QED
    BY <1>3, <2>2, <2>3, <2>4
<1> QED
  BY <1>2, <1>3

LEMMA WholeOutFacts ==
    ASSUME TypeOK, Order, Cuts, NEW s \in Streams
    PROVE  /\ OutTo(s) \in Nat
           /\ WholeOut(s) \in Boundaries(s) /\ WholeOut(s) <= OutTo(s)
           /\ \A b \in Boundaries(s) : b <= OutTo(s) => b <= WholeOut(s)
<1>1. OutTo(s) \in Nat /\ (piped /\ lost[s] = {} => OutTo(s) \in Boundaries(s))
  BY OutToFacts
<1>2. WholeOut(s) = IF piped /\ lost[s] = {} THEN OutTo(s)
                    ELSE Max({b \in Boundaries(s) : b <= OutTo(s)})
  BY DEF WholeOut, OutTo
<1> QED
  BY <1>1, <1>2, LastEnd

\* When the counter is 0 after the tracers have left, all that was recorded is out.
LEMMA AllOut ==
    ASSUME IInv, main = "clean", dp_entries = 0, NEW s \in Streams, fd_open[s[2]], lost[s] = {}
    PROVE  WholeOut(s) = filled[s]
<1>1. s[1] \in Devs /\ s[2] \in Cpus /\ s = <<s[1], s[2]>>
  BY DEF Streams
<1>2. list = <<>> /\ handled = 0
  BY DEF IInv, AtRest
<1>3. \A c \in Cpus : pc[c] = "left" /\ nentries[c] = 0 /\ ReadAll(c, NDevs)
  BY DEF IInv, Draining
<1>4. rd[s] = filled[s]
  BY <1>1, <1>3 DEF ReadAll, Devs
<1>5. heads[s] = <<>>
  <2>1. nentries \in [Cpus -> Nat] /\ heads \in [Streams -> Seq(Seq(Nat))]
    BY DEF IInv, TypeOK, TracerTypes, SharedTypes
  <2>2. Total(nentries) = 0
    BY <1>3, <2>1, TotalZero
  <2>3. Total(Queued) \in Nat /\ IsFiniteSet(Units(Queued))
    BY TotalsAreNat DEF IInv, Account
  <2>4. dp_entries + Total(nentries) = Total(Queued) + Len(list) + handled
    BY DEF IInv, Account
  <2>5. Total(Queued) = 0
    <3>1. Len(list) = 0
      BY <1>2
    <3> QED
      BY <1>2, <2>2, <2>3, <2>4, <3>1
  <2>6. Queued \in [Streams -> Nat] /\ Queued[s] = Len(heads[s])
    BY <2>1 DEF Queued
  <2>7. Len(heads[s]) = 0
    BY <2>3, <2>5, <2>6, TotalIsZero
  <2>8. heads[s] \in Seq(Seq(Nat))
    BY <2>1
  <2> QED
    BY <2>7, <2>8, EmptySeq
<1>6. Len(out[s]) \in Nat /\ rd[s] \in Nat /\ prev[s] = Run(Len(out[s]), rd[s]) /\ Len(out[s]) <= rd[s]
  <2>1. Len(out[s]) \in Nat /\ rd[s] \in Nat
    BY DEF IInv, TypeOK, OutTypes, KernelTypes
  <2>2. PICK y, p, z \in Nat : /\ Behold(s, y) /\ y <= p /\ prev[s] = Run(y, p)
                               /\ Chain(Held(s), p, z) /\ Chain(heads[s], z, rd[s])
    BY DEF IInv, Order, InPlace
  <2>3. Held(s) = <<>>
    BY <1>2 DEF Held
  <2>4. p = z /\ z = rd[s]
    BY <1>5, <2>2, <2>3, ChainEmpty
  <2>5. Len(out[s]) = y
    BY <2>2, BehindLen DEF Behold
  <2> QED
    BY <2>1, <2>2, <2>4, <2>5
<1>7. Len(prev[s]) = rd[s] - Len(out[s])
  BY <1>6, RunIsSeq
<1>8. rd[s] \in Boundaries(s)
  BY <1>4 DEF IInv, Recorded
<1>9. rd[s] <= Len(out[s])
  <2>1. CASE piped
    <3>1. \A e \in EventEnds[s] : e <= Len(out[s]) \/ Len(out[s]) + Len(prev[s]) < e
      BY <2>1 DEF IInv, Cuts, WholeCut
    <3>2. Len(out[s]) + Len(prev[s]) = rd[s]
      BY <1>6, <1>7
    <3>3. rd[s] = 0 \/ rd[s] \in EventEnds[s]
      BY <1>8 DEF Boundaries
    <3>4. rd[s] \in EventEnds[s] => rd[s] <= Len(out[s])
      <4>1. ~(rd[s] < rd[s])
        BY <1>6
      <4> QED
        BY <3>1, <3>2, <4>1
    <3> QED
      BY <1>6, <3>3, <3>4
  <2>2. CASE ~piped
    <3>1. prev[s] = <<>>
      BY <2>2 DEF IInv, Cuts
    <3>2. Len(prev[s]) = 0
      BY <3>1, EmptySeq
    <3> QED
      BY <1>6, <1>7, <3>2
  <2> QED
    BY <2>1, <2>2
<1>10. WholeOut(s) <= Len(out[s]) /\ rd[s] <= WholeOut(s) /\ WholeOut(s) \in Nat
  <2>1. OutTo(s) = Len(out[s])
    BY DEF OutTo
  <2>2. /\ WholeOut(s) \in Boundaries(s) /\ WholeOut(s) <= OutTo(s)
        /\ \A b \in Boundaries(s) : b <= OutTo(s) => b <= WholeOut(s)
    BY WholeOutFacts DEF IInv
  <2> QED
    BY <1>8, <1>9, <2>1, <2>2, StreamFacts
<1> QED
  BY <1>4, <1>6, <1>10

LEMMA PromiseInit ==
    ASSUME Init
    PROVE  Promise!Init
<1>1. IInv
  BY InitInv
<1>2. ASSUME NEW s \in Streams PROVE fd_open[s[2]] = TRUE /\ lost[s] = {} /\ out[s] = <<>>
  BY StreamFacts DEF Init
<1>3. ASSUME NEW s \in Streams PROVE WholeOut(s) = 0
  <2>1. WholeOut(s) \in Nat /\ WholeOut(s) <= OutTo(s)
    BY <1>1, WholeOutFacts, StreamFacts DEF IInv
  <2>2. OutTo(s) = 0
    <3>1. Len(<<>>) = 0
      OBVIOUS
    <3> QED
      BY <1>2, <3>1 DEF OutTo
  <2> QED
    BY <2>1, <2>2
<1>4. [s \in Streams |-> WholeOut(s)] = [s \in Streams |-> 0]
  BY <1>3
<1>5. [s \in Streams |-> ~fd_open[s[2]] \/ lost[s] # {}] = [s \in Streams |-> FALSE]
  BY <1>2
<1> QED
  BY <1>4, <1>5 DEF Init, Promise!Init

LEMMA PromiseStep ==
    ASSUME IInv, IInv', [Next]_vars
    PROVE  [Promise!Next]_(Promise!vars)
<1> USE DEF kernelVars, tracerVars, handlerVars, mainVars, outVars
<1> DEFINE delivered == [s \in Streams |-> WholeOut(s)]
           broken    == [s \in Streams |-> ~fd_open[s[2]] \/ lost[s] # {}]
           closed    == main = "finished"
<1>0. /\ filled \in [Streams -> Nat] /\ fd_open \in [Cpus -> BOOLEAN]
      /\ lost \in [Streams -> SUBSET Nat]
      /\ main \in {"wait", "scan", "join", "clean", "rescan", "finished"}
  BY DEF IInv, TypeOK, KernelTypes, OutTypes, MainTypes
<1>1. ASSUME UNCHANGED <<out, lost, piped>> PROVE delivered' = delivered
  BY <1>1 DEF WholeOut, OutTo
<1>2. ASSUME UNCHANGED <<fd_open, lost>> PROVE broken' = broken
  BY <1>2
<1>3. ASSUME UNCHANGED <<filled, out, lost, piped, fd_open>>, closed' = closed
      PROVE  UNCHANGED Promise!vars
  BY <1>1, <1>2, <1>3 DEF Promise!vars
<1>4. CASE UNCHANGED <<filled, out, lost, piped, fd_open, main>>
  BY <1>3, <1>4
<1>5. ASSUME NEW s \in Streams, Record(s) PROVE Promise!Next
  <2>1. PICK e \in EventEnds[s] : filled[s] < e /\ filled' = [filled EXCEPT ![s] = e]
    BY <1>5 DEF Record
  <2>2. tracing /\ UNCHANGED <<out, lost, piped, fd_open, main>>
    BY <1>5 DEF Record
  <2>3. ~closed
    <3> SUFFICES ASSUME main = "finished" PROVE FALSE
      OBVIOUS
    <3>1. pc[s[2]] = "left"
      BY StreamFacts DEF IInv, Draining
    <3> QED
      BY <2>2, <3>1, StreamFacts DEF IInv, Draining
  <2>4. UNCHANGED <<delivered, broken, closed>>
    BY <1>1, <1>2, <2>2
  <2> HIDE DEF delivered, broken, closed
  <2>5. Promise!Record(s)
    BY <2>1, <2>3, <2>4 DEF Promise!Record, delivered, broken, closed
  <2> QED
    BY <2>5 DEF Promise!Next
<1>6. CASE HandleBuffer
  <2>1. /\ main \in {"scan", "rescan"} /\ UNCHANGED <<filled, piped, main>>
        /\ cursor \in Streams /\ cursor[2] \in Cpus
    BY <1>6, StreamFacts DEF HandleBuffer, Scanning, MainAt, IInv, TypeOK, MainTypes
  <2>2. CASE UNCHANGED <<out, prev, lost, fd_open>>
    BY <1>4, <2>1, <2>2
  <2>3. CASE UNCHANGED <<out, prev, lost>> /\ fd_open' = [fd_open EXCEPT ![cursor[2]] = FALSE]
    <3>1. PICK F \in SUBSET Streams : F = {s \in Streams : s[2] = cursor[2]}
      OBVIOUS
    <3>2. broken' = [s \in Streams |-> broken[s] \/ s \in F]
      BY <1>0, <2>1, <2>3, <3>1, StreamFacts
    <3>3. delivered' = delivered /\ closed' = closed /\ ~closed
      BY <1>1, <2>1, <2>3
    <3> HIDE DEF delivered, broken, closed
    <3>4. Promise!Break(F)
      BY <2>1, <3>2, <3>3 DEF Promise!Break, delivered, broken, closed
    <3> QED
      BY <3>4 DEF Promise!Next
  <2>4. CASE \E y, n, b, z \in Nat : Handled(y, n, b, z)
    <3>1. PICK y, n, b, z \in Nat : Handled(y, n, b, z)
      BY <2>4
    <3>2. PICK s \in Streams : s = cursor
      BY <2>1
    <3>3. fd_open' = fd_open /\ fd_open[s[2]] /\ ~closed /\ closed' = closed
      BY <2>1, <3>1, <3>2 DEF Handled, Handling
    <3>4. Behold(s, y) /\ y <= n /\ n <= b
      BY <3>1, <3>2 DEF Handled, Handling
    <3>5. \A r \in Streams : r # s => out'[r] = out[r] /\ lost'[r] = lost[r]
      BY <1>6, <3>2, HandleOutcome DEF IInv
    <3>6. \A r \in Streams : r # s => WholeOut(r)' = WholeOut(r)
      BY <2>1, <3>5 DEF WholeOut, OutTo
    <3>7. PICK e : e = WholeOut(s)'
      OBVIOUS
    <3>8. delivered' = [delivered EXCEPT ![s] = e]
      BY <3>6, <3>7
    <3>9. CASE lost[s] # {}
      <4>1. OutTo(s)' = OutTo(s) /\ lost'[s] # {}
        <5>1. CASE Written(n, b)
          <6>1. Behind(out[s], lost[s], y) /\ lost' = lost
            BY <3>4, <5>1 DEF Behold, Written
          <6> QED
            BY <3>9, <6>1 DEF OutTo
        <5>2. CASE Failed(n, b)
          <6>1. lost'[s] = lost[s] \cup (n + 1 .. b) /\ lost'[s] # {}
            BY <3>1, <3>2, <5>2, HandledInOrder DEF IInv
          <6>2. Min(lost[s] \cup (n + 1 .. b)) = Min(lost[s])
            <7>1. lost[s] \subseteq 1 .. y
              BY <3>4 DEF Behold, Behind
            <7>2. n + 1 .. b \subseteq Nat /\ \A k \in n + 1 .. b : y < k
              BY <3>4
            <7> QED
              BY <3>9, <7>1, <7>2, FirstStays
          <6> QED
            BY <3>9, <6>1, <6>2 DEF OutTo
        <5> QED
          BY <3>1, <5>1, <5>2 DEF Handled
      <4>2. WholeOut(s)' = WholeOut(s)
        BY <3>9, <4>1 DEF WholeOut
      <4>3. delivered' = delivered
        BY <3>6, <4>2
      <4>4. broken' = broken
        BY <3>3, <3>5, <3>9, <4>1
      <4>5. filled' = filled /\ closed' = closed
        BY <2>1, <3>3
      <4> QED
        BY <4>3, <4>4, <4>5 DEF Promise!vars
    <3>10. CASE lost[s] = {}
      <4>1. OutTo(s) <= y /\ OutTo(s) \in Nat
        BY <3>4, OutToFacts DEF IInv
      <4>2. OutTo(s)' = n
        <5>1. CASE Written(n, b)
          <6>1. Behind(out'[s], lost'[s], n) /\ lost'[s] = {}
            BY <3>1, <3>2, <3>10, <5>1, HandledInOrder DEF IInv, Behold, Written
          <6>2. Len(out'[s]) = n
            BY <6>1, BehindLen
          <6> QED
            BY <6>1, <6>2 DEF OutTo
        <5>2. CASE Failed(n, b)
          <6>1. lost'[s] = n + 1 .. b /\ lost'[s] # {}
            <7>1. lost'[s] = lost[s] \cup (n + 1 .. b) /\ lost'[s] # {}
              BY <3>1, <3>2, <5>2, HandledInOrder DEF IInv
            <7> QED
              BY <3>10, <7>1
          <6>2. PICK m : m = Min(lost'[s])
            OBVIOUS
          <6>3. m \in n + 1 .. b /\ \A k \in n + 1 .. b : m <= k
            <7>1. n + 1 .. b \in SUBSET Nat
              OBVIOUS
            <7> QED
              BY <6>1, <6>2, <7>1, FirstLost
          <6>4. n + 1 \in n + 1 .. b
            BY <6>3
          <6>5. m = n + 1
            BY <6>3, <6>4
          <6> QED
            BY <6>1, <6>2, <6>5 DEF OutTo
        <5> QED
          BY <3>1, <5>1, <5>2 DEF Handled
      <4>3. e \in Boundaries(s) /\ e <= n /\ \A x \in Boundaries(s) : x <= n => x <= e
        <5>1. piped' \in BOOLEAN /\ (piped' /\ lost'[s] = {} => n \in Boundaries(s))
          <6>1. piped' \in BOOLEAN
            BY DEF IInv, TypeOK, KernelTypes
          <6>2. piped' /\ lost'[s] = {} => OutTo(s)' \in Boundaries(s)
            BY DEF IInv, Cuts, WholeCut, OutTo
          <6> QED
            BY <4>2, <6>1, <6>2
        <5>2. e = IF piped' /\ lost'[s] = {} THEN n ELSE Max({x \in Boundaries(s) : x <= n})
          BY <3>7, <4>2 DEF WholeOut, OutTo
        <5>3. PICK q \in BOOLEAN : q <=> piped' /\ lost'[s] = {}
          OBVIOUS
        <5> QED
          BY <5>1, <5>2, <5>3, LastEnd
      <4>4. /\ WholeOut(s) \in Nat /\ e \in Nat /\ WholeOut(s) <= e
            /\ e = WholeOut(s) \/ e \in EventEnds[s]
        <5>1. WholeOut(s) \in Boundaries(s) /\ WholeOut(s) <= OutTo(s)
          BY WholeOutFacts DEF IInv
        <5>2. Boundaries(s) \subseteq Nat
          BY StreamFacts
        <5>3. WholeOut(s) <= e
          BY <3>4, <4>1, <4>3, <5>1, <5>2
        <5>4. e = 0 \/ e \in EventEnds[s]
          BY <4>3 DEF Boundaries
        <5> QED
          BY <4>3, <5>1, <5>2, <5>3, <5>4
      <4>5. e <= filled[s]
        <5>1. b <= z /\ z <= rd[s] /\ z \in Nat
          BY <3>1, <3>2, ChainType DEF Handled, Handling
        <5>2. rd[s] \in Nat /\ filled[s] \in Nat /\ rd[s] <= filled[s]
          BY DEF IInv, TypeOK, KernelTypes, Recorded
        <5> QED
          BY <3>4, <4>3, <4>4, <5>1, <5>2
      <4>6. delivered[s] = WholeOut(s) /\ ~broken[s]
        BY <3>3, <3>10
      <4>7. CASE Written(n, b)
        <5>1. broken' = broken
          BY <1>2, <3>3, <4>7 DEF Written
        <5>2. CASE e = WholeOut(s)
          <6>1. delivered' = delivered
            BY <3>6, <3>7, <5>2
          <6>2. filled' = filled /\ closed' = closed
            BY <2>1, <3>3
          <6> QED
            BY <5>1, <6>1, <6>2 DEF Promise!vars
        <5>3. CASE e # WholeOut(s)
          <6>1. e \in EventEnds[s] /\ WholeOut(s) < e
            BY <4>4, <5>3
          <6> HIDE DEF delivered, broken, closed
          <6>2. Promise!Deliver(s)
            BY <2>1, <3>3, <3>8, <4>5, <4>6, <5>1, <6>1
            DEF Promise!Deliver, delivered, broken, closed
          <6> QED
            BY <6>2 DEF Promise!Next
        <5> QED
          BY <5>2, <5>3
      <4>8. CASE Failed(n, b)
        <5>1. lost'[s] # {}
          BY <3>1, <3>2, <4>8, HandledInOrder DEF IInv
        <5>2. broken' = [broken EXCEPT ![s] = TRUE]
          BY <3>3, <3>5, <5>1
        <5>3. e \in {delivered[s]} \cup EventEnds[s] /\ delivered[s] <= e
          BY <4>4, <4>6
        <5> HIDE DEF delivered, broken, closed
        <5>4. Promise!Cut(s)
          BY <2>1, <3>3, <3>8, <4>5, <4>6, <5>2, <5>3
          DEF Promise!Cut, delivered, broken, closed
        <5> QED
          BY <5>4 DEF Promise!Next
      <4> QED
        BY <3>1, <4>7, <4>8 DEF Handled
    <3> QED
      BY <3>9, <3>10
  <2> QED
    BY <1>6, <2>2, <2>3, <2>4, HandleOutcome DEF IInv
<1>7. CASE CleanTraceBufs
  <2>1. main = "clean" /\ UNCHANGED <<filled, out, lost, piped, fd_open>>
        /\ main' = IF dp_entries # 0 THEN "rescan" ELSE "finished"
    BY <1>7 DEF CleanTraceBufs, MainAt
  <2>2. CASE dp_entries # 0
    BY <1>3, <2>1, <2>2
  <2>3. CASE dp_entries = 0
    <3>1. \A s \in Streams : ~broken[s] => delivered[s] = filled[s]
      BY <2>1, <2>3, AllOut
    <3>2. ~closed /\ closed' = TRUE /\ UNCHANGED <<filled, delivered, broken>>
      BY <1>1, <1>2, <2>1, <2>3
    <3> HIDE DEF delivered, broken, closed
    <3>3. Promise!Close
      BY <3>1, <3>2 DEF Promise!Close, delivered, broken, closed
    <3> QED
      BY <3>3 DEF Promise!Next
  <2> QED
    BY <2>2, <2>3
<1>8. CASE WaitEmptyEntries \/ DecrEntries \/ JoinTracers
  <2>1. UNCHANGED <<filled, out, lost, piped, fd_open>> /\ main # "finished" /\ main' # "finished"
    BY <1>0, <1>8 DEF WaitEmptyEntries, DecrEntries, JoinTracers, MainAt, Scanning
  <2> QED
    BY <1>3, <2>1
<1>9. ASSUME NEW c \in Cpus, PollLoop(c) \/ ReadDevice(c) \/ EndRead(c)
      PROVE  UNCHANGED <<filled, out, lost, piped, fd_open, main>>
  BY <1>9 DEF PollLoop, ReadDevice, EndRead
<1>10. ASSUME \/ Interrupt \/ StopTrace \/ TellTracer \/ Finished \/ UNCHANGED vars
              \/ WaitTimesOut \/ TakeList
       PROVE  UNCHANGED <<filled, out, lost, piped, fd_open, main>>
  BY <1>10 DEF Interrupt, StopTrace, TellTracer, Finished, vars, WaitTimesOut, TakeList
<1> HIDE DEF delivered, broken, closed
<1> QED
  BY <1>4, <1>5, <1>6, <1>7, <1>8, <1>9, <1>10 DEF Next, MainStep, HandlerStep, TracerStep

\* Whichever way the data leaves, blktrace keeps the promise of TraceStream: each step
\* is one of the kernel's, a delivery of whole events, a failing connection or write, the
\* end of the run with all events of the unbroken streams out, or no step at all.
THEOREM ImplementsTraceStream == Spec => DeliversTheStream
<1>1. Init => Promise!Init
  BY PromiseInit
<1>2. IInv /\ IInv' /\ [Next]_vars => [Promise!Next]_(Promise!vars)
  BY PromiseStep
<1> QED
  BY <1>1, <1>2, InductiveInvariant, PTL DEF Spec, DeliversTheStream, Promise!Spec

=============================================================================
