------------------------------- MODULE RbTree -------------------------------
(***************************************************************************)
(* The red-black tree that blkparse, blkiomon and btt keep their traces    *)
(* in.  Nodes are the numbers 1 .. NKeys and are ordered as such; 0 is     *)
(* NULL.  A tree is a record of the root and, per node, its two children   *)
(* (side 0 is rb_left, side 1 rb_right), its parent and whether it is red; *)
(* the code writes every case twice, once for each side.  The users search *)
(* and link by themselves and call the tree to recolour and to erase.      *)
(***************************************************************************)
EXTENDS Integers, FiniteSets

CONSTANT
    NKeys            \* bound: nodes

ASSUME KeysAssumption == NKeys \in Nat

Keys  == 1 .. NKeys
Sides == {0, 1}

EmptyTree == [root |-> 0, kid |-> [n \in Keys |-> [s \in Sides |-> 0]],
              up |-> [n \in Keys |-> 0], red |-> [n \in Keys |-> FALSE]]

Side(t, n)  == IF t.kid[t.up[n]][0] = n THEN 0 ELSE 1
IsRed(t, n) == n # 0 /\ t.red[n]

\* rb_set_black of some nodes and rb_set_red of others; NULLs are passed over.
Paint(t, black, red) ==
    [t EXCEPT !.red = [n \in Keys |-> IF n \in red THEN TRUE
                                      ELSE IF n \in black THEN FALSE ELSE @[n]]]

\* rb_set_parent, of a node that may be NULL.
SetParent(t, n, p) == IF n = 0 THEN t ELSE [t EXCEPT !.up[n] = p]

\* What stood under p in the place of n is now c.
Hang(t, n, p, c) ==
    IF p = 0 THEN [t EXCEPT !.root = c] ELSE [t EXCEPT !.kid[p][Side(t, n)] = c]

\* __rb_rotate_left (s = 0) and __rb_rotate_right (s = 1): n goes down on side s
\* and its other child takes its place.
Rotate(t, n, s) ==
    LET c    == t.kid[n][1 - s]
        hung == Hang(t, n, t.up[n], c)
    IN SetParent([hung EXCEPT !.kid[n][1 - s] = t.kid[c][s], !.kid[c][s] = n,
                              !.up[c] = t.up[n], !.up[n] = c],
                 t.kid[c][s], n)

\* rb_insert_color
RECURSIVE InsertColor(_, _)
InsertColor(t, n) ==
    LET p == t.up[n] IN
    IF ~IsRed(t, p) THEN Paint(t, {t.root}, {})
    ELSE LET g == t.up[p]
             s == Side(t, p)
             u == t.kid[g][1 - s]
         IN IF IsRed(t, u) THEN InsertColor(Paint(t, {u, p}, {g}), g)
            ELSE LET inner == t.kid[p][1 - s] = n
                     top   == IF inner THEN n ELSE p
                     low   == IF inner THEN p ELSE n
                     t1    == IF inner THEN Rotate(t, p, s) ELSE t
                 IN InsertColor(Rotate(Paint(t1, {top}, {g}), g, 1 - s), low)

\* rb_link_node below p (a red leaf), then rb_insert_color: what every user does
\* with the place its search ends at.
RECURSIVE Place(_, _, _)
Place(t, n, at) ==
    LET c == t.kid[at][IF n < at THEN 0 ELSE 1] IN IF c = 0 THEN at ELSE Place(t, n, c)

Insert(t, n) ==
    LET p      == IF t.root = 0 THEN 0 ELSE Place(t, n, t.root)
        leaf   == [t EXCEPT !.up[n] = p, !.red[n] = TRUE, !.kid[n] = [s \in Sides |-> 0]]
        linked == IF p = 0 THEN [leaf EXCEPT !.root = n]
                  ELSE [leaf EXCEPT !.kid[p][IF n < p THEN 0 ELSE 1] = n]
    IN InsertColor(linked, n)

\* Mutant of EraseColor: forgets the far nephew.
RECURSIVE EraseColor_FarNephew(_, _, _)
EraseColor_FarNephew(t, n, p) ==
    IF IsRed(t, n) \/ n = t.root THEN IF n = 0 THEN t ELSE Paint(t, {n}, {})
    ELSE LET s  == IF t.kid[p][0] = n THEN 0 ELSE 1
             o1 == t.kid[p][1 - s]
             t1 == IF IsRed(t, o1) THEN Rotate(Paint(t, {o1}, {p}), p, s) ELSE t
             o  == t1.kid[p][1 - s]
         IN IF \A d \in Sides : ~IsRed(t1, t1.kid[o][d])
            THEN EraseColor_FarNephew(Paint(t1, {}, {o}), p, t1.up[p])
            ELSE LET t3 == [t1 EXCEPT !.red[o] = t1.red[p], !.red[p] = FALSE]
                     t4 == Rotate(t3, p, s)
                 IN Paint(t4, {t4.root}, {})

\* __rb_erase_color: the paths through n, a child of p and maybe NULL, lack a
\* black node.
RECURSIVE EraseColor(_, _, _)
EraseColor(t, n, p) ==
    IF IsRed(t, n) \/ n = t.root THEN IF n = 0 THEN t ELSE Paint(t, {n}, {})
    ELSE LET s  == IF t.kid[p][0] = n THEN 0 ELSE 1
             o1 == t.kid[p][1 - s]
             t1 == IF IsRed(t, o1) THEN Rotate(Paint(t, {o1}, {p}), p, s) ELSE t
             o  == t1.kid[p][1 - s]
         IN IF \A d \in Sides : ~IsRed(t1, t1.kid[o][d])
            THEN EraseColor(Paint(t1, {}, {o}), p, t1.up[p])
            ELSE LET far == t1.kid[o][1 - s]
                     t2  == IF IsRed(t1, far) THEN t1
                            ELSE Rotate(Paint(t1, {t1.kid[o][s]}, {o}), o, 1 - s)
                     o2  == t2.kid[p][1 - s]
                     t3  == [t2 EXCEPT !.red[o2] = t2.red[p], !.red[p] = FALSE]
                     t4  == Rotate(Paint(t3, {t3.kid[o2][1 - s]}, {}), p, s)
                 IN Paint(t4, {t4.root}, {})

RECURSIVE Extreme(_, _, _)
Extreme(t, n, s) == IF t.kid[n][s] = 0 THEN n ELSE Extreme(t, t.kid[n][s], s)

\* rb_erase of a node with a child missing: the other child takes its place.
EraseEdge(t, n) ==
    LET c  == IF t.kid[n][0] = 0 THEN t.kid[n][1] ELSE t.kid[n][0]
        t1 == SetParent(Hang(t, n, t.up[n], c), c, t.up[n])
    IN IF t.red[n] THEN t1 ELSE EraseColor(t1, c, t.up[n])

\* rb_erase of a node with two children: its successor m leaves its own place
\* to its right child and takes the node's, with the node's colour.
EraseInner(t, n) ==
    LET m  == Extreme(t, t.kid[n][1], 0)
        c  == t.kid[m][1]
        q  == t.up[m]
        t1 == SetParent(t, c, q)
        t2 == IF q = n THEN [t1 EXCEPT !.kid[n][1] = c] ELSE [t1 EXCEPT !.kid[q][0] = c]
        t3 == [t2 EXCEPT !.up[m] = t2.up[n], !.red[m] = t2.red[n], !.kid[m] = t2.kid[n]]
        t4 == Hang(t3, n, t3.up[n], m)
        t5 == SetParent(SetParent(t4, t4.kid[n][0], m), t4.kid[n][1], m)
    IN IF t.red[m] THEN t5 ELSE EraseColor(t5, c, IF q = n THEN m ELSE q)

\* The erased node is freed: what it holds is cleared here.
Erase(t, n) ==
    LET gone == IF 0 \in {t.kid[n][0], t.kid[n][1]} THEN EraseEdge(t, n) ELSE EraseInner(t, n)
    IN [gone EXCEPT !.kid[n] = [s \in Sides |-> 0], !.up[n] = 0, !.red[n] = FALSE]

rb_first(t) == IF t.root = 0 THEN 0 ELSE Extreme(t, t.root, 0)

RECURSIVE Climb(_, _)
Climb(t, n) == IF t.up[n] # 0 /\ n = t.kid[t.up[n]][1] THEN Climb(t, t.up[n]) ELSE t.up[n]

rb_next(t, n) == IF t.kid[n][1] # 0 THEN Extreme(t, t.kid[n][1], 0) ELSE Climb(t, n)

-----------------------------------------------------------------------------
\* The nodes from n on, as a user walks them with rb_next; at most k.
RECURSIVE Walk(_, _, _)
Walk(t, n, k) == IF n = 0 \/ k = 0 THEN {} ELSE {n} \cup Walk(t, rb_next(t, n), k - 1)

Content(t) == Walk(t, rb_first(t), NKeys)

\* The number of black nodes on the paths below n; -1 if they differ.
RECURSIVE Blacks(_, _)
Blacks(t, n) ==
    IF n = 0 THEN 0
    ELSE LET l == Blacks(t, t.kid[n][0])
             r == Blacks(t, t.kid[n][1])
         IN IF l = -1 \/ l # r THEN -1 ELSE IF t.red[n] THEN l ELSE l + 1

IsRedBlack(t) ==
    /\ ~IsRed(t, t.root)
    /\ Blacks(t, t.root) # -1
    /\ \A n \in Content(t) :
          /\ \A s \in Sides : t.kid[n][s] # 0 => t.up[t.kid[n][s]] = n
          /\ t.red[n] => \A s \in Sides : ~IsRed(t, t.kid[n][s])

\* All trees that insertions and erasures make, from those of the last round on;
\* one that is no red-black tree is not taken further.
RECURSIVE Reachable(_, _)
Reachable(all, latest) ==
    LET next == UNION {{Insert(t, n) : n \in Keys \ Content(t)}
                           \cup {Erase(t, n) : n \in Content(t)} :
                           t \in {u \in latest : IsRedBlack(u)}}
    IN IF next \subseteq all THEN all ELSE Reachable(all \cup next, next \ all)

\* rb_insert_color and rb_erase, in any order of insertions and erasures: the
\* tree stays red-black, a walk with rb_next visits exactly the nodes that are
\* in it, and the walk goes upwards.
TreeStaysSorted ==
    \A t \in Reachable({EmptyTree}, {EmptyTree}) :
        /\ IsRedBlack(t)
        /\ \A n \in Content(t) : rb_next(t, n) = 0 \/ rb_next(t, n) > n
        /\ \A n \in Keys \ Content(t) : Content(Insert(t, n)) = Content(t) \cup {n}
        /\ \A n \in Content(t) : Content(Erase(t, n)) = Content(t) \ {n}

=============================================================================
