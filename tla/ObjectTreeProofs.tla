-------------------------- MODULE ObjectTreeProofs --------------------------
(***************************************************************************)
(* What object_insert, object_erase and object_from_pointer (src/heap.c)   *)
(* make of an index, whatever its size.                                    *)
(*                                                                         *)
(* Shape(t, sub) says that the links of t form a search tree on its nodes, *)
(* sub giving the nodes of every subtree; Tight(t, n) that the bounds of n *)
(* agree with its children's, which for a whole tree means that they are   *)
(* exact.  A rotation keeps both (Rearranged).  object_erase breaks the    *)
(* bounds from the place it cuts up to the root and repairs them as it     *)
(* climbs, so its loop's invariant leaves out the nodes still ahead.  The  *)
(* heights matter to none of this, beyond telling that a heavy side is not *)
(* empty: it holds also for trees that are out of balance, which           *)
(* object_erase does leave behind.  That an insertion keeps an AVL tree    *)
(* one is proved apart (Growing, InsertLevels).                            *)
(***************************************************************************)
EXTENDS ObjectTree, BinaryTree

\* Blocks are numbers, NULL is none of them.
LEMMA Addresses == /\ Block \subseteq Nat /\ NULL \notin Block /\ NULL = 0
                   /\ \A o \in Block : End(o) \in Nat /\ o < End(o)
BY BlockAssumption DEF NULL, End

\* Trees with the nodes N, wherever their links lead.
Trees(N) == [root : Block \cup {NULL}, node : [N -> Nodes], panicked : BOOLEAN]

\* u is t with x in the place of o, as far as o's parent is concerned.
Slotted(N, t, u, o, x) ==
  LET p == t.node[o].parent IN
  /\ u \in Trees(N)
  /\ u.root = IF p = NULL THEN x ELSE t.root
  /\ \A n \in N :
       /\ u.node[n].left = IF n = p /\ t.node[p].left = o THEN x ELSE t.node[n].left
       /\ u.node[n].right = IF n = p /\ t.node[p].left # o THEN x ELSE t.node[n].right
       /\ u.node[n].parent = t.node[n].parent
       /\ u.node[n].lower = t.node[n].lower
       /\ u.node[n].upper = t.node[n].upper
       /\ u.node[n].height = t.node[n].height

\* SetSlot changes one link: the one that led to o.
LEMMA SetSlotFields ==
  ASSUME NEW N \in SUBSET Block, NEW t \in Trees(N), NEW o \in N, NEW x \in Block \cup {NULL},
         t.node[o].parent \in N \cup {NULL}
  PROVE  Slotted(N, t, SetSlot(t, o, x), o, x)
<1>1. NULL \notin N
  BY Addresses
<1> DEFINE p == t.node[o].parent
           u == SetSlot(t, o, x)
<1>2. CASE p = NULL
  BY <1>1, <1>2 DEF SetSlot, Trees, Slotted
<1>3. ASSUME NEW q \in N, NEW y \in Nodes,
             \/ y = [t.node[q] EXCEPT !.left = x] /\ t.node[q].left = o
             \/ y = [t.node[q] EXCEPT !.right = x] /\ t.node[q].left # o,
             q = p, u = [t EXCEPT !.node[q] = y]
      PROVE  Slotted(N, t, u, o, x)
  <2>1. u \in Trees(N) /\ u.root = t.root
        /\ u.node[q] = y /\ \A n \in N \ {q} : u.node[n] = t.node[n]
    BY <1>3 DEF Trees
  <2>2. t.node[q] \in Nodes
    BY SMTT(30) DEF Trees
  <2>3. /\ y.left = IF t.node[q].left = o THEN x ELSE t.node[q].left
        /\ y.right = IF t.node[q].left # o THEN x ELSE t.node[q].right
        /\ y.parent = t.node[q].parent /\ y.lower = t.node[q].lower /\ y.upper = t.node[q].upper
        /\ y.height = t.node[q].height
    BY SMTT(30), <1>3, <2>2 DEF Nodes
  <2>4. p # NULL
    BY <1>1, <1>3
  <2> HIDE DEF u, p
  <2>5. ASSUME NEW n \in N
        PROVE  /\ u.node[n].left = IF n = p /\ t.node[p].left = o THEN x ELSE t.node[n].left
               /\ u.node[n].right = IF n = p /\ t.node[p].left # o THEN x ELSE t.node[n].right
               /\ u.node[n].parent = t.node[n].parent
               /\ u.node[n].lower = t.node[n].lower
               /\ u.node[n].upper = t.node[n].upper
               /\ u.node[n].height = t.node[n].height
    <3>1. CASE n = q
      BY <3>1, <1>3, <2>1, <2>3
    <3>2. CASE n # q
      BY <3>2, <1>3, <2>1
    <3> QED BY <3>1, <3>2
  <2> USE DEF p
  <2> QED BY SMTT(30), <2>1, <2>4, <2>5 DEF Slotted
<1>4. CASE p # NULL
  <2>1. p \in N /\ t.node[p] \in Nodes
    BY <1>4 DEF Trees
  <2>2. CASE t.node[p].left = o
    <3>1. u = [t EXCEPT !.node[p] = [t.node[p] EXCEPT !.left = x]]
      BY <1>4, <2>1, <2>2 DEF SetSlot, Trees
    <3>2. [t.node[p] EXCEPT !.left = x] \in Nodes
      BY SMTT(30), <2>1 DEF Nodes
    <3> QED BY <2>1, <2>2, <3>1, <3>2, <1>3
  <2>3. CASE t.node[p].left # o
    <3>1. u = [t EXCEPT !.node[p] = [t.node[p] EXCEPT !.right = x]]
      BY <1>4, <2>1, <2>3 DEF SetSlot, Trees
    <3>2. [t.node[p] EXCEPT !.right = x] \in Nodes
      BY <2>1 DEF Nodes
    <3> QED BY <2>1, <2>3, <3>1, <3>2, <1>3
  <2> QED BY <2>2, <2>3
<1> QED BY <1>2, <1>4

\* u is t with p as the parent of o.
Adopted(N, t, u, o, p) ==
  /\ u \in Trees(N)
  /\ u.root = t.root
  /\ \A n \in N :
       /\ u.node[n].left = t.node[n].left
       /\ u.node[n].right = t.node[n].right
       /\ u.node[n].parent = IF n = o THEN p ELSE t.node[n].parent
       /\ u.node[n].lower = t.node[n].lower
       /\ u.node[n].upper = t.node[n].upper
       /\ u.node[n].height = t.node[n].height

\* SetParent changes one link: the parent of the node it is given, if any.
LEMMA SetParentFields ==
  ASSUME NEW N \in SUBSET Block, NEW t \in Trees(N), NEW o \in N \cup {NULL}, NEW p \in Block \cup {NULL}
  PROVE  Adopted(N, t, SetParent(t, o, p), o, p)
<1>1. NULL \notin N
  BY Addresses
<1> QED BY SMTT(30), <1>1 DEF SetParent, Trees, Nodes, Adopted

\* Two nodes of a tree are replaced.
LEMMA TwoNodes ==
  ASSUME NEW N, NEW t \in Trees(N), NEW o \in N, NEW r \in N, o # r, NEW x \in Nodes, NEW y \in Nodes,
         NEW u, u = [t EXCEPT !.node = [[@ EXCEPT ![o] = x] EXCEPT ![r] = y]]
  PROVE  /\ u \in Trees(N) /\ u.root = t.root
         /\ u.node[o] = x /\ u.node[r] = y /\ \A n \in N \ {o, r} : u.node[n] = t.node[n]
BY DEF Trees

\* o and its right child r, whose left child is c, have been rotated to the left.
RotatedLeft(N, t, u, o, r, c) ==
  LET p == t.node[o].parent
      h == 1 + MaxOf(Height(t, t.node[o].left), Height(t, c))
  IN
  /\ u \in Trees(N)
  /\ u.root = IF p = NULL THEN r ELSE t.root
  /\ \A n \in N :
       /\ u.node[n].left = IF n = r THEN o
                           ELSE IF n = p /\ t.node[p].left = o THEN r ELSE t.node[n].left
       /\ u.node[n].right = IF n = o THEN c
                            ELSE IF n = p /\ t.node[p].left # o THEN r ELSE t.node[n].right
       /\ u.node[n].parent = IF n = o THEN r ELSE IF n = r THEN p
                             ELSE IF n = c THEN o ELSE t.node[n].parent
       /\ u.node[n].lower = IF n = r THEN t.node[o].lower ELSE t.node[n].lower
       /\ u.node[n].upper = IF n = o THEN IF c = NULL THEN End(o) ELSE t.node[c].upper
                            ELSE t.node[n].upper
       /\ u.node[n].height = IF n = o THEN h
                             ELSE IF n = r THEN 1 + MaxOf(h, Height(t, t.node[r].right))
                             ELSE t.node[n].height

\* The fields of the nodes after object_rotate_left (heap.c:88-117).
LEMMA RotateLeftFields ==
  ASSUME NEW N \in SUBSET Block, NEW t \in Trees(N), NEW o \in N, NEW r \in N, NEW c \in N \cup {NULL},
         NEW p \in N \cup {NULL},
         r = t.node[o].right, c = t.node[r].left, p = t.node[o].parent,
         {t.node[o].left, t.node[r].right} \subseteq N \cup {NULL},
         r # o, c # o, c # r, p # o, p # r, p # c \/ p = NULL
  PROVE  RotatedLeft(N, t, RotateLeft(t, o), o, r, c)
<1> DEFINE h == 1 + MaxOf(Height(t, t.node[o].left), Height(t, c))
           k == 1 + MaxOf(h, Height(t, t.node[r].right))
           a == SetSlot(t, o, r)
           b == SetParent(a, c, o)
           lo == t.node[o].lower
           up == IF c = NULL THEN End(o) ELSE t.node[c].upper
           u == RotateLeft(t, o)
           x == [b.node[o] EXCEPT !.parent = r, !.right = c, !.height = h, !.upper = up]
           y == [b.node[r] EXCEPT !.parent = p, !.left = o, !.lower = lo, !.height = k]
<1>1. /\ NULL \notin N /\ r # NULL /\ N \subseteq Block /\ r \in Block \cup {NULL} /\ o \in Block \cup {NULL}
      /\ c \in Block \cup {NULL} /\ p \in Block \cup {NULL}
  BY Addresses
<1>2. h \in Nat /\ k \in Nat /\ up \in Nat /\ lo \in Nat
  <2>1. \A n \in N \cup {NULL} : Height(t, n) \in Nat
    BY DEF Height, Trees, Nodes
  <2>2. \A i, j \in Nat : 1 + MaxOf(i, j) \in Nat
    BY DEF MaxOf
  <2>3. h \in Nat
    BY <2>1, <2>2
  <2>4. k \in Nat
    BY <2>1, <2>2, <2>3
  <2>5. up \in Nat /\ lo \in Nat
    BY Addresses DEF Trees, Nodes
  <2> QED BY <2>3, <2>4, <2>5
<1>3. u = [b EXCEPT !.node[o] = [@ EXCEPT !.parent = r, !.right = c, !.height = h, !.upper = up],
                    !.node[r] = [@ EXCEPT !.parent = p, !.left = o, !.lower = lo, !.height = k]]
  BY <1>1 DEF RotateLeft
<1>4. Slotted(N, t, a, o, r)
  BY <1>1, SetSlotFields
<1> HIDE DEF a, h, k, up, lo, u
<1>5. Adopted(N, a, b, c, o)
  <2>1. a \in Trees(N)
    BY SMTT(30), <1>4 DEF Slotted
  <2> QED BY <2>1, <1>1, SetParentFields, Z3T(30)
<1> HIDE DEF b
<1>6. b \in Trees(N)
  BY <1>5, Z3T(30) DEF Adopted
<1>7. u = [b EXCEPT !.node = [[@ EXCEPT ![o] = x] EXCEPT ![r] = y]]
  BY <1>3, <1>6 DEF Trees
<1>8. /\ x \in Nodes
      /\ x.left = b.node[o].left /\ x.right = c /\ x.parent = r /\ x.lower = b.node[o].lower /\ x.upper = up
      /\ x.height = h
  <2>1. b.node[o] \in Nodes
    BY <1>6, Z3T(30) DEF Trees
  <2> QED BY <2>1, <1>1, <1>2 DEF Nodes
<1>9. /\ y \in Nodes
      /\ y.left = o /\ y.right = b.node[r].right /\ y.parent = p /\ y.lower = lo /\ y.upper = b.node[r].upper
      /\ y.height = k
  <2>1. b.node[r] \in Nodes
    BY <1>6 DEF Trees
  <2> QED BY <2>1, <1>1, <1>2 DEF Nodes
<1> HIDE DEF x, y
<1>10. /\ u \in Trees(N) /\ u.root = b.root
       /\ u.node[o] = x /\ u.node[r] = y /\ \A n \in N \ {o, r} : u.node[n] = b.node[n]
  BY <1>6, <1>7, <1>8, <1>9, TwoNodes, SMTT(30)
<1>11. ASSUME NEW n \in N
       PROVE  /\ u.node[n].left = IF n = r THEN o
                                  ELSE IF n = p /\ t.node[p].left = o THEN r ELSE t.node[n].left
              /\ u.node[n].right = IF n = o THEN c
                                   ELSE IF n = p /\ t.node[p].left # o THEN r ELSE t.node[n].right
              /\ u.node[n].parent = IF n = o THEN r ELSE IF n = r THEN p
                                    ELSE IF n = c THEN o ELSE t.node[n].parent
              /\ u.node[n].lower = IF n = r THEN lo ELSE t.node[n].lower
              /\ u.node[n].upper = IF n = o THEN up ELSE t.node[n].upper
              /\ u.node[n].height = IF n = o THEN h ELSE IF n = r THEN k ELSE t.node[n].height
  <2>1. CASE n = o
    BY <2>1, <1>4, <1>5, <1>8, <1>10, Z3T(30) DEF Slotted, Adopted
  <2>2. CASE n = r
    BY <2>2, <1>4, <1>5, <1>9, <1>10, SMTT(30) DEF Slotted, Adopted
  <2>3. CASE n \notin {o, r}
    BY <2>3, <1>4, <1>5, <1>10, Z3T(30) DEF Slotted, Adopted
  <2> QED BY <2>1, <2>2, <2>3
<1>12. u.root = IF p = NULL THEN r ELSE t.root
  BY <1>4, <1>5, <1>10, Z3T(30) DEF Slotted, Adopted
<1> QED BY <1>10, <1>11, <1>12, ZenonT(40) DEF RotatedLeft, u, up, lo, h, k

\* o and its left child l, whose right child is c, have been rotated to the right.
RotatedRight(N, t, u, o, l, c) ==
  LET p == t.node[o].parent
      h == 1 + MaxOf(Height(t, c), Height(t, t.node[o].right))
  IN
  /\ u \in Trees(N)
  /\ u.root = IF p = NULL THEN l ELSE t.root
  /\ \A n \in N :
       /\ u.node[n].right = IF n = l THEN o
                           ELSE IF n = p /\ t.node[p].left # o THEN l ELSE t.node[n].right
       /\ u.node[n].left = IF n = o THEN c
                            ELSE IF n = p /\ t.node[p].left = o THEN l ELSE t.node[n].left
       /\ u.node[n].parent = IF n = o THEN l ELSE IF n = l THEN p
                             ELSE IF n = c THEN o ELSE t.node[n].parent
       /\ u.node[n].upper = IF n = l THEN t.node[o].upper ELSE t.node[n].upper
       /\ u.node[n].lower = IF n = o THEN IF c = NULL THEN o ELSE t.node[c].lower
                            ELSE t.node[n].lower
       /\ u.node[n].height = IF n = o THEN h
                             ELSE IF n = l THEN 1 + MaxOf(Height(t, t.node[l].left), h)
                             ELSE t.node[n].height

\* The fields of the nodes after object_rotate_right (heap.c:119-148).
LEMMA RotateRightFields ==
  ASSUME NEW N \in SUBSET Block, NEW t \in Trees(N), NEW o \in N, NEW l \in N, NEW c \in N \cup {NULL},
         NEW p \in N \cup {NULL},
         l = t.node[o].left, c = t.node[l].right, p = t.node[o].parent,
         {t.node[o].right, t.node[l].left} \subseteq N \cup {NULL},
         l # o, c # o, c # l, p # o, p # l, p # c \/ p = NULL
  PROVE  RotatedRight(N, t, RotateRight(t, o), o, l, c)
<1> DEFINE h == 1 + MaxOf(Height(t, c), Height(t, t.node[o].right))
           k == 1 + MaxOf(Height(t, t.node[l].left), h)
           a == SetSlot(t, o, l)
           b == SetParent(a, c, o)
           up == t.node[o].upper
           lo == IF c = NULL THEN o ELSE t.node[c].lower
           u == RotateRight(t, o)
           x == [b.node[o] EXCEPT !.parent = l, !.left = c, !.height = h, !.lower = lo]
           y == [b.node[l] EXCEPT !.parent = p, !.right = o, !.upper = up, !.height = k]
<1>1. /\ NULL \notin N /\ l # NULL /\ N \subseteq Block /\ l \in Block \cup {NULL} /\ o \in Block \cup {NULL}
      /\ c \in Block \cup {NULL} /\ p \in Block \cup {NULL}
  BY Addresses
<1>2. h \in Nat /\ k \in Nat /\ lo \in Nat /\ up \in Nat
  <2>1. \A n \in N \cup {NULL} : Height(t, n) \in Nat
    BY DEF Height, Trees, Nodes
  <2>2. \A i, j \in Nat : 1 + MaxOf(i, j) \in Nat
    BY DEF MaxOf
  <2>3. h \in Nat
    BY <2>1, <2>2
  <2>4. k \in Nat
    BY <2>1, <2>2, <2>3
  <2>5. lo \in Nat /\ up \in Nat
    BY Addresses DEF Trees, Nodes
  <2> QED BY <2>3, <2>4, <2>5
<1>3. u = [b EXCEPT !.node[o] = [@ EXCEPT !.parent = l, !.left = c, !.height = h, !.lower = lo],
                    !.node[l] = [@ EXCEPT !.parent = p, !.right = o, !.upper = up, !.height = k]]
  BY <1>1 DEF RotateRight
<1>4. Slotted(N, t, a, o, l)
  BY <1>1, SetSlotFields
<1> HIDE DEF a, h, k, lo, up, u
<1>5. Adopted(N, a, b, c, o)
  <2>1. a \in Trees(N)
    BY <1>4 DEF Slotted
  <2> QED BY SMTT(30), <2>1, <1>1, SetParentFields
<1> HIDE DEF b
<1>6. b \in Trees(N)
  BY <1>5, ZenonT(60) DEF Adopted
<1>7. u = [b EXCEPT !.node = [[@ EXCEPT ![o] = x] EXCEPT ![l] = y]]
  BY <1>3, <1>6 DEF Trees
<1>8. /\ x \in Nodes
      /\ x.right = b.node[o].right /\ x.left = c /\ x.parent = l /\ x.upper = b.node[o].upper /\ x.lower = lo
      /\ x.height = h
  <2>1. b.node[o] \in Nodes
    BY <1>6, Z3T(30) DEF Trees
  <2> QED BY <2>1, <1>1, <1>2 DEF Nodes
<1>9. /\ y \in Nodes
      /\ y.right = o /\ y.left = b.node[l].left /\ y.parent = p /\ y.upper = up /\ y.lower = b.node[l].lower
      /\ y.height = k
  <2>1. b.node[l] \in Nodes
    BY <1>6 DEF Trees
  <2> QED BY <2>1, <1>1, <1>2 DEF Nodes
<1> HIDE DEF x, y
<1>10. /\ u \in Trees(N) /\ u.root = b.root
       /\ u.node[o] = x /\ u.node[l] = y /\ \A n \in N \ {o, l} : u.node[n] = b.node[n]
  BY <1>6, <1>7, <1>8, <1>9, TwoNodes, SMTT(30)
<1>11. ASSUME NEW n \in N
       PROVE  /\ u.node[n].right = IF n = l THEN o
                                  ELSE IF n = p /\ t.node[p].left # o THEN l ELSE t.node[n].right
              /\ u.node[n].left = IF n = o THEN c
                                   ELSE IF n = p /\ t.node[p].left = o THEN l ELSE t.node[n].left
              /\ u.node[n].parent = IF n = o THEN l ELSE IF n = l THEN p
                                    ELSE IF n = c THEN o ELSE t.node[n].parent
              /\ u.node[n].upper = IF n = l THEN up ELSE t.node[n].upper
              /\ u.node[n].lower = IF n = o THEN lo ELSE t.node[n].lower
              /\ u.node[n].height = IF n = o THEN h ELSE IF n = l THEN k ELSE t.node[n].height
  <2>1. CASE n = o
    BY <2>1, <1>4, <1>5, <1>8, <1>10, Z3T(30) DEF Slotted, Adopted
  <2>2. CASE n = l
    BY <2>2, <1>4, <1>5, <1>9, <1>10, SMTT(30) DEF Slotted, Adopted
  <2>3. CASE n \notin {o, l}
    BY <2>3, <1>4, <1>5, <1>10, Z3T(30) DEF Slotted, Adopted
  <2> QED BY <2>1, <2>2, <2>3
<1>12. u.root = IF p = NULL THEN l ELSE t.root
  BY <1>4, <1>5, <1>10 DEF Slotted, Adopted
<1> QED BY <1>10, <1>11, <1>12, ZenonT(40) DEF RotatedRight, u, lo, up, h, k

-----------------------------------------------------------------------------
(* The links and the bounds of a tree as functions on its nodes.           *)

Lefts(t)   == [n \in Live(t) |-> t.node[n].left]
Rights(t)  == [n \in Live(t) |-> t.node[n].right]
Parents(t) == [n \in Live(t) |-> t.node[n].parent]
Lowers(t)  == [n \in Live(t) |-> t.node[n].lower]
Uppers(t)  == [n \in Live(t) |-> t.node[n].upper]
Starts     == [n \in Block |-> n]
Ends       == [n \in Block |-> End(n)]

\* t is a search tree, sub gives the nodes of its subtrees.
Shape(t, sub) ==
  /\ Live(t) \in SUBSET Block /\ IsFiniteSet(Live(t)) /\ t \in Trees(Live(t))
  /\ Hung(Live(t), Lefts(t), Rights(t), Parents(t), t.root, sub)
  /\ Ordered(Lefts(t), Rights(t), sub, Live(t))

\* The bounds of n agree with those of its children.
Tight(t, n) ==
  /\ t.node[n].lower = IF t.node[n].left = NULL THEN n ELSE t.node[t.node[n].left].lower
  /\ t.node[n].upper = IF t.node[n].right = NULL THEN End(n) ELSE t.node[t.node[n].right].upper

\* What a search tree gives of a node, in terms of the tree's own fields.
LEMMA NodeFields ==
  ASSUME NEW t, NEW sub, Shape(t, sub), NEW n \in Live(t)
  PROVE  /\ n \in Block /\ n \in Nat /\ n # NULL
         /\ t.node[n] \in Nodes
         /\ t.node[n].left \in Live(t) \cup {NULL} /\ t.node[n].left = Lefts(t)[n]
         /\ t.node[n].right \in Live(t) \cup {NULL} /\ t.node[n].right = Rights(t)[n]
         /\ t.node[n].parent \in Live(t) \cup {NULL} /\ t.node[n].parent = Parents(t)[n]
         /\ t.node[n].height \in Nat
         /\ t.node[n].lower \in Nat /\ t.node[n].lower = Lowers(t)[n]
         /\ t.node[n].upper \in Nat /\ t.node[n].upper = Uppers(t)[n]
<1>1. n \in Block /\ n \in Nat /\ n # NULL /\ t.node[n] \in Nodes
  BY Addresses DEF Shape, Trees
<1>2. /\ t.node[n].left = Lefts(t)[n] /\ t.node[n].right = Rights(t)[n]
      /\ t.node[n].parent = Parents(t)[n]
      /\ t.node[n].lower = Lowers(t)[n] /\ t.node[n].upper = Uppers(t)[n]
  BY DEF Lefts, Rights, Parents, Lowers, Uppers
<1>3. /\ Lefts(t)[n] \in Live(t) \cup {NULL} /\ Rights(t)[n] \in Live(t) \cup {NULL}
      /\ Parents(t)[n] \in Live(t) \cup {NULL}
  BY DEF Shape, Hung
<1>4. t.node[n].height \in Nat /\ t.node[n].lower \in Nat /\ t.node[n].upper \in Nat
  BY <1>1 DEF Nodes
<1> QED BY <1>1, <1>2, <1>3, <1>4

\* The recursion of Members gives the subtrees.
LEMMA MembersExact ==
  ASSUME NEW t, NEW sub, Shape(t, sub)
  PROVE  Members(t) = sub
<1> DEFINE N == Live(t)
           D == N \cup {NULL}
           below[n \in Live(t) \cup {NULL}] ==
             IF n = NULL THEN {} ELSE {n} \cup below[t.node[n].left] \cup below[t.node[n].right]
<1>1. /\ Hung(N, Lefts(t), Rights(t), Parents(t), t.root, sub) /\ IsFiniteSet(N) /\ NULL \notin N
      /\ sub = [n \in D |-> sub[n]] /\ sub[NULL] = {}
  BY DEF Shape, Hung
<1>2. \A n \in N : /\ sub[n] = {n} \cup sub[t.node[n].left] \cup sub[t.node[n].right]
                   /\ t.node[n].left = Lefts(t)[n] /\ t.node[n].right = Rights(t)[n]
                   /\ t.node[n].left \in D /\ t.node[n].right \in D
  <2> TAKE n \in N
  <2>1. /\ t.node[n].left = Lefts(t)[n] /\ t.node[n].right = Rights(t)[n]
        /\ t.node[n].left \in D /\ t.node[n].right \in D
    BY NodeFields
  <2>2. sub[n] = {n} \cup sub[Lefts(t)[n]] \cup sub[Rights(t)[n]]
    BY <1>1 DEF Hung
  <2> QED BY <2>1, <2>2
<1>3. sub = [n \in Live(t) \cup {NULL} |->
               IF n = NULL THEN {} ELSE {n} \cup sub[t.node[n].left] \cup sub[t.node[n].right]]
  <2>1. \A n \in D : sub[n] = IF n = NULL THEN {}
                              ELSE {n} \cup sub[t.node[n].left] \cup sub[t.node[n].right]
    BY <1>1, <1>2, ZenonT(60)
  <2> QED BY <2>1, <1>1
<1>4. below = [n \in Live(t) \cup {NULL} |->
                 IF n = NULL THEN {} ELSE {n} \cup below[t.node[n].left] \cup below[t.node[n].right]]
  BY <1>3, ZenonT(60) DEF below
<1>5. Members(t) = below
  BY ZenonT(60) DEF Members, below
<1> HIDE DEF below
<1>6. below[NULL] = {} /\ \A n \in N : below[n] = {n} \cup below[t.node[n].left] \cup below[t.node[n].right]
  BY <1>1, <1>4, ZenonT(60)
<1>7. \A n \in N : below[n] = sub[n]
  <2> DEFINE T == {n \in N : below[n] # sub[n]}
  <2>1. ASSUME NEW n \in T PROVE Lefts(t)[n] \in T \/ Rights(t)[n] \in T
    <3>1. below[t.node[n].left] # sub[t.node[n].left] \/ below[t.node[n].right] # sub[t.node[n].right]
      <4> SUFFICES ASSUME below[t.node[n].left] = sub[t.node[n].left],
                          below[t.node[n].right] = sub[t.node[n].right]
                   PROVE  FALSE
        OBVIOUS
      <4>1. n \in N /\ below[n] # sub[n]
        OBVIOUS
      <4>2. below[n] = {n} \cup below[t.node[n].left] \cup below[t.node[n].right]
        BY <4>1, <1>6
      <4>3. sub[n] = {n} \cup sub[t.node[n].left] \cup sub[t.node[n].right]
        BY <4>1, <1>2
      <4> HIDE DEF N, T
      <4> QED BY <4>1, <4>2, <4>3
    <3> QED BY <3>1, <1>1, <1>2, <1>6
  <2>2. T \in SUBSET N
    OBVIOUS
  <2>3. T = {}
    <3> HIDE DEF T, N
    <3> QED BY <1>1, <2>1, <2>2, DownInduction
  <2> QED BY SMTT(30), <2>3
<1>8. below = [n \in D |-> below[n]]
  BY <1>4
<1> QED BY <1>1, <1>5, <1>6, <1>7, <1>8

\* A node's bounds agree with its children's when they do so on either side.
LEMMA TightBounds ==
  ASSUME NEW t, NEW sub, Shape(t, sub), NEW n \in Live(t)
  PROVE  /\ Tight(t, n) => /\ Bound(Lefts(t), Lowers(t), Starts, n)
                           /\ Bound(Rights(t), Uppers(t), Ends, n)
         /\ Bound(Lefts(t), Lowers(t), Starts, n) /\ Bound(Rights(t), Uppers(t), Ends, n)
            => Tight(t, n)
<1>1. /\ n \in Block /\ n # NULL
      /\ t.node[n].left \in Live(t) \cup {NULL} /\ t.node[n].left = Lefts(t)[n]
      /\ t.node[n].right \in Live(t) \cup {NULL} /\ t.node[n].right = Rights(t)[n]
  BY NodeFields
<1>2. \A m \in Live(t) : t.node[m].lower = Lowers(t)[m] /\ t.node[m].upper = Uppers(t)[m]
  BY DEF Lowers, Uppers
<1>3. Starts[n] = n /\ Ends[n] = End(n)
  BY <1>1 DEF Starts, Ends
<1> QED BY <1>1, <1>2, <1>3 DEF Tight, Bound

-----------------------------------------------------------------------------
(* Rebalancing steps.                                                      *)

\* What such a step at o does: the tree keeps its nodes, and outside o's subtree
\* the subtrees and the parents; where the bounds agreed they still do.
Rearranged(t, sub, u, new, o) ==
  /\ Live(u) = Live(t) /\ Shape(u, new)
  /\ \A n \in Live(t) \ sub[o] : new[n] = sub[n] /\ u.node[n].parent = t.node[n].parent
  /\ (\A n \in sub[o] : Tight(t, n)) => /\ \A n \in sub[o] : Tight(u, n)
                                       /\ \A n \in Live(t) \ sub[o] : Tight(t, n) => Tight(u, n)

\* A tree with the links and the bounds of t is t, but for its heights.
LEMMA SameTree ==
  ASSUME NEW t, NEW sub, Shape(t, sub), NEW o \in Live(t),
         NEW u \in Trees(Live(t)), u.root = t.root,
         \A n \in Live(t) :
            /\ u.node[n].left = t.node[n].left /\ u.node[n].right = t.node[n].right
            /\ u.node[n].parent = t.node[n].parent
            /\ u.node[n].lower = t.node[n].lower /\ u.node[n].upper = t.node[n].upper
  PROVE  Rearranged(t, sub, u, sub, o)
<1>1. Live(u) = Live(t)
  BY DEF Trees, Live
<1>2. Lefts(u) = Lefts(t) /\ Rights(u) = Rights(t) /\ Parents(u) = Parents(t)
  BY <1>1 DEF Lefts, Rights, Parents
<1>3. Shape(u, sub)
  BY <1>1, <1>2 DEF Shape
<1>4. ASSUME NEW n \in Live(t), Tight(t, n) PROVE Tight(u, n)
  <2>1. t.node[n].left \in Live(t) \cup {NULL} /\ t.node[n].right \in Live(t) \cup {NULL}
    BY NodeFields
  <2> QED BY <2>1, <1>4 DEF Tight
<1>5. sub[o] \subseteq Live(t)
  BY DEF Shape, Hung
<1> QED BY <1>1, <1>3, <1>4, <1>5 DEF Rearranged

\* A rotation to the left, whether or not its assertion holds.
LEMMA RotateLeftRearranges ==
  ASSUME NEW t, NEW sub, Shape(t, sub), NEW o \in Live(t)
  PROVE  \E new : Rearranged(t, sub, RotateLeft(t, o), new, o)
<1> DEFINE N == Live(t)
           L == Lefts(t)
           R == Rights(t)
           P == Parents(t)
           r == R[o]
           c == L[r]
           u == RotateLeft(t, o)
           new == TurnSub(sub, o, r, L[o], c)
<1>1. /\ o \in N /\ N \in SUBSET Block /\ N \in SUBSET Nat /\ IsFiniteSet(N) /\ t \in Trees(N) /\ NULL \notin N
      /\ Hung(N, L, R, P, t.root, sub)
      /\ Ordered(Lefts(t), Rights(t), sub, N)
  BY Addresses DEF Shape
<1>2. /\ \A n \in N : /\ L[n] \in N \cup {NULL} /\ R[n] \in N \cup {NULL} /\ P[n] \in N \cup {NULL}
                      /\ L[n] = t.node[n].left /\ R[n] = t.node[n].right /\ P[n] = t.node[n].parent
      /\ L \in [N -> N \cup {NULL}] /\ R \in [N -> N \cup {NULL}] /\ P \in [N -> N \cup {NULL}]
  BY <1>1 DEF Hung, Lefts, Rights, Parents
<1>3. CASE r = NULL
  <2>1. u = [t EXCEPT !.panicked = TRUE]
    BY <1>2, <1>3, ZenonT(60) DEF RotateLeft
  <2>2. u \in Trees(N) /\ u.root = t.root /\ u.node = t.node /\ Live(u) = N
    BY <2>1, <1>1 DEF Trees, Live
  <2>3. Rearranged(t, sub, u, sub, o)
    <3> HIDE DEF u, L, R, P, r, c
    <3> QED BY <2>2, SameTree
  <2> QED BY <2>3, ZenonT(60)
<1>4. CASE r # NULL
  <2>1. r \in N /\ c \in N \cup {NULL} /\ r = t.node[o].right /\ c = t.node[r].left /\ R[o] = r /\ L[r] = c
    BY SMTT(30), <1>2, <1>4
  <2>2. /\ r # o /\ c # o /\ c # r /\ P[o] # o /\ P[o] # r /\ (P[o] # c \/ P[o] = NULL) /\ P[r] = o
        /\ L[o] \notin {o, r} /\ R[r] \notin {o, r}
        /\ \A n \in N : L[n] = o \/ R[n] = o => n = P[o] /\ n \notin sub[o]
        /\ \A n \in N : L[n] = r \/ R[n] = r <=> n = o
        /\ sub[o] = {o} \cup sub[L[o]] \cup sub[r] /\ sub[r] = {r} \cup sub[c] \cup sub[R[r]]
    <3> HIDE DEF L, R, P, r, c
    <3> QED BY <1>1, <2>1, TurnNodes, Z3T(30)
  <2>3. RotatedLeft(N, t, u, o, r, c)
    <3>1. {t.node[o].left, t.node[r].right} \subseteq N \cup {NULL} /\ P[o] = t.node[o].parent
      BY <1>2, <2>1
    <3> HIDE DEF N, L, R, P, r, c
    <3> QED BY <1>1, <1>2, <2>1, <2>2, <3>1, RotateLeftFields, ZenonT(60) DEF u
  <2> HIDE DEF u
  <2>4. /\ u \in Trees(N)
        /\ u.root = IF P[o] = NULL THEN r ELSE t.root
        /\ \A n \in N :
             /\ u.node[n].left = IF n = r THEN o ELSE IF L[n] = o THEN r ELSE L[n]
             /\ u.node[n].right = IF n = o THEN c ELSE IF R[n] = o THEN r ELSE R[n]
             /\ u.node[n].parent = IF n = o THEN r ELSE IF n = r THEN P[o] ELSE IF n = c THEN o ELSE P[n]
    <3>1. \A n \in N : P[o] = n <=> o \in {L[n], R[n]}
      BY <1>1 DEF Hung
    <3>2. \A n \in N : ~(L[n] = o /\ R[n] = o)
      <4> HIDE DEF N, L, R, P, r, c
      <4> QED BY <1>1, Around
    <3> HIDE DEF N, r, c, L, R, P
    <3>3. P[o] \in N \cup {NULL} /\ P[o] = t.node[o].parent
      BY <1>1, <1>2
    <3>4. u \in Trees(N) /\ u.root = IF P[o] = NULL THEN r ELSE t.root
      BY <2>3, <3>3 DEF RotatedLeft
    <3>5. ASSUME NEW n \in N
          PROVE  /\ u.node[n].left = IF n = r THEN o ELSE IF L[n] = o THEN r ELSE L[n]
                 /\ u.node[n].right = IF n = o THEN c ELSE IF R[n] = o THEN r ELSE R[n]
                 /\ u.node[n].parent = IF n = o THEN r ELSE IF n = r THEN P[o] ELSE IF n = c THEN o ELSE P[n]
      BY <1>1, <1>2, <2>3, <3>1, <3>2, <3>3 DEF RotatedLeft
    <3> QED BY <3>4, <3>5
  <2>5. Live(u) = N
    <3> HIDE DEF N
    <3> QED BY <2>4 DEF Trees, Live
  <2>6. /\ Lefts(u) = TurnL(L, o, r) /\ Rights(u) = TurnR(R, o, r, c) /\ Parents(u) = TurnP(P, o, r, c)
        /\ u.root = TurnRoot(t.root, o, r)
    <3>1. P[o] = NULL <=> o = t.root
      BY <1>1 DEF Hung
    <3>2. u.root = TurnRoot(t.root, o, r)
      BY <3>1, <2>4 DEF TurnRoot
    <3>3. DOMAIN L = N /\ DOMAIN R = N /\ DOMAIN P = N
      BY <1>2
    <3> HIDE DEF N, L, R, P, r, c
    <3>4. Lefts(u) = TurnL(L, o, r)
      BY <2>4, <2>5, <3>3 DEF Lefts, TurnL
    <3>5. Rights(u) = TurnR(R, o, r, c)
      BY <2>4, <2>5, <3>3 DEF Rights, TurnR
    <3>6. Parents(u) = TurnP(P, o, r, c)
      BY <2>4, <2>5, <3>3, Z3T(30) DEF Parents, TurnP
    <3> QED BY <3>2, <3>4, <3>5, <3>6
  <2>7. /\ Hung(N, Lefts(u), Rights(u), Parents(u), u.root, new)
        /\ \A n \in N \ {o, r} : new[n] = sub[n]
    <3> HIDE DEF N, L, R, P, r, c
    <3> QED BY SMTT(30), <1>1, <2>1, <2>6, Turn DEF new
  <2>8. Ordered(Lefts(u), Rights(u), new, N)
    <3> HIDE DEF N, L, R, P, r, c
    <3>1. Ordered(L, R, sub, N)
      BY <1>1 DEF L, R
    <3> QED BY <3>1, <1>1, <2>1, <2>6, TurnOrdered DEF new
  <2>9. Shape(u, new)
    BY <1>1, <2>4, <2>5, <2>7, <2>8 DEF Shape
  <2>10. ASSUME NEW n \in N \ sub[o]
         PROVE  new[n] = sub[n] /\ u.node[n].parent = t.node[n].parent
    <3>1. n \in N /\ n \notin {o, r} /\ (c # NULL => n # c) /\ n # NULL
      <4> HIDE DEF N, L, R, P, r, c
      <4>1. r \in sub[r] /\ (c # NULL => c \in sub[c])
        BY <1>1, <2>1, Around
      <4> QED BY <4>1, <2>2, <1>1
    <3> HIDE DEF N, L, R, P, r, c, new
    <3> QED BY <3>1, <2>7, <2>4, <1>2
  <2>11. ASSUME Tight(t, o), Tight(t, r), NEW n \in N, n \in {o, r} \/ Tight(t, n)
         PROVE  Tight(u, n)
    <3>1. /\ Bound(L, Lowers(t), Starts, o) /\ Bound(R, Uppers(t), Ends, o) /\ Bound(R, Uppers(t), Ends, r)
          /\ n \in {o, r} \/ (Bound(L, Lowers(t), Starts, n) /\ Bound(R, Uppers(t), Ends, n))
      BY <2>1, <2>11, TightBounds, Z3T(30)
    <3>2. /\ Lowers(u)[r] = Lowers(t)[o] /\ \A m \in N \ {r} : Lowers(u)[m] = Lowers(t)[m]
          /\ Uppers(u)[o] = (IF c = NULL THEN Ends[o] ELSE Uppers(t)[c])
          /\ \A m \in N \ {o} : Uppers(u)[m] = Uppers(t)[m]
      <4>1. o \in Block
        BY <1>1
      <4> HIDE DEF N, L, R, P, r, c
      <4> QED BY <4>1, <1>1, <2>1, <2>3, <2>5, ZenonT(60) DEF N, Lowers, Uppers, Ends, RotatedLeft
    <3>3. n \in {o, r} \/ Bound(L, Lowers(t), Starts, n) => Bound(Lefts(u), Lowers(u), Starts, n)
      <4> HIDE DEF N, L, R, P, r, c
      <4> DEFINE b == Lowers(t)
                 b2 == Lowers(u)
      <4>1. b2[r] = b[o] /\ (\A m \in N \ {r} : b2[m] = b[m]) /\ Bound(L, b, Starts, o)
        BY <3>1, <3>2
      <4> HIDE DEF b, b2
      <4>3. \A m \in N : m \in {o, r} \/ Bound(L, b, Starts, m) => Bound(TurnL(L, o, r), b2, Starts, m)
        BY <4>1, <1>1, <2>1, TurnNearBound
      <4> QED BY <4>3, <2>6 DEF b, b2
    <3>4. n \in {o, r} \/ Bound(R, Uppers(t), Ends, n) => Bound(Rights(u), Uppers(u), Ends, n)
      <4> HIDE DEF N, L, R, P, r, c
      <4> DEFINE b == Uppers(t)
                 b2 == Uppers(u)
      <4>1. b2[o] = (IF c = NULL THEN Ends[o] ELSE b[c]) /\ (\A m \in N \ {o} : b2[m] = b[m])
        BY <3>2
      <4>2. Bound(R, b, Ends, o) /\ Bound(R, b, Ends, r)
        BY <3>1
      <4> HIDE DEF b, b2
      <4>3. \A m \in N : m \in {o, r} \/ Bound(R, b, Ends, m) => Bound(TurnR(R, o, r, c), b2, Ends, m)
        BY <4>1, <4>2, <1>1, <2>1, TurnFarBound
      <4> QED BY <4>3, <2>6 DEF b, b2
    <3> QED BY <3>1, <3>3, <3>4, <2>5, <2>9, TightBounds
  <2>12. Rearranged(t, sub, u, new, o)
    <3>1. o \in sub[o] /\ r \in sub[o]
      <4> HIDE DEF N, L, R, P, r, c
      <4>1. r \in sub[r] /\ o \in sub[o]
        BY <1>1, <2>1, Around
      <4> QED BY <4>1, <2>2
    <3>2. sub[o] \subseteq N
      <4> HIDE DEF N, L, R, P, r, c
      <4> QED BY <1>1, Around
    <3> HIDE DEF N, L, R, P, r, c, new
    <3> QED BY <3>1, <3>2, <2>5, <2>9, <2>10, <2>11 DEF Rearranged, N
  <2> QED BY <2>12 DEF u
<1> QED BY <1>3, <1>4

\* A rotation to the right, whether or not its assertion holds.
LEMMA RotateRightRearranges ==
  ASSUME NEW t, NEW sub, Shape(t, sub), NEW o \in Live(t)
  PROVE  \E new : Rearranged(t, sub, RotateRight(t, o), new, o)
<1> DEFINE N == Live(t)
           L == Rights(t)
           R == Lefts(t)
           P == Parents(t)
           r == R[o]
           c == L[r]
           u == RotateRight(t, o)
           new == TurnSub(sub, o, r, L[o], c)
<1>1. /\ o \in N /\ N \in SUBSET Block /\ N \in SUBSET Nat /\ IsFiniteSet(N) /\ t \in Trees(N) /\ NULL \notin N
      /\ Hung(N, L, R, P, t.root, sub)
      /\ Ordered(Lefts(t), Rights(t), sub, N)
  BY Addresses, Mirror DEF Shape
<1>2. /\ \A n \in N : /\ L[n] \in N \cup {NULL} /\ R[n] \in N \cup {NULL} /\ P[n] \in N \cup {NULL}
                      /\ L[n] = t.node[n].right /\ R[n] = t.node[n].left /\ P[n] = t.node[n].parent
      /\ L \in [N -> N \cup {NULL}] /\ R \in [N -> N \cup {NULL}] /\ P \in [N -> N \cup {NULL}]
  BY <1>1 DEF Hung, Lefts, Rights, Parents
<1>3. CASE r = NULL
  <2>1. u = [t EXCEPT !.panicked = TRUE]
    BY <1>2, <1>3, ZenonT(60) DEF RotateRight
  <2>2. u \in Trees(N) /\ u.root = t.root /\ u.node = t.node /\ Live(u) = N
    BY <2>1, <1>1 DEF Trees, Live
  <2>3. Rearranged(t, sub, u, sub, o)
    <3> HIDE DEF u, L, R, P, r, c
    <3> QED BY <2>2, SameTree
  <2> QED BY <2>3
<1>4. CASE r # NULL
  <2>1. r \in N /\ c \in N \cup {NULL} /\ r = t.node[o].left /\ c = t.node[r].right /\ R[o] = r /\ L[r] = c
    BY <1>2, <1>4
  <2>2. /\ r # o /\ c # o /\ c # r /\ P[o] # o /\ P[o] # r /\ (P[o] # c \/ P[o] = NULL) /\ P[r] = o
        /\ L[o] \notin {o, r} /\ R[r] \notin {o, r}
        /\ \A n \in N : L[n] = o \/ R[n] = o => n = P[o] /\ n \notin sub[o]
        /\ \A n \in N : L[n] = r \/ R[n] = r <=> n = o
        /\ sub[o] = {o} \cup sub[L[o]] \cup sub[r] /\ sub[r] = {r} \cup sub[c] \cup sub[R[r]]
    <3> HIDE DEF L, R, P, r, c
    <3> QED BY <1>1, <2>1, TurnNodes, Z3T(30)
  <2>3. RotatedRight(N, t, u, o, r, c)
    <3>1. {t.node[o].right, t.node[r].left} \subseteq N \cup {NULL} /\ P[o] = t.node[o].parent
      BY <1>2, <2>1
    <3> HIDE DEF N, L, R, P, r, c
    <3> QED BY <1>1, <1>2, <2>1, <2>2, <3>1, RotateRightFields, ZenonT(60) DEF u
  <2> HIDE DEF u
  <2>4. /\ u \in Trees(N)
        /\ u.root = IF P[o] = NULL THEN r ELSE t.root
        /\ \A n \in N :
             /\ u.node[n].right = IF n = r THEN o ELSE IF L[n] = o THEN r ELSE L[n]
             /\ u.node[n].left = IF n = o THEN c ELSE IF R[n] = o THEN r ELSE R[n]
             /\ u.node[n].parent = IF n = o THEN r ELSE IF n = r THEN P[o] ELSE IF n = c THEN o ELSE P[n]
    <3>1. \A n \in N : P[o] = n <=> o \in {L[n], R[n]}
      BY <1>1 DEF Hung
    <3>2. \A n \in N : ~(L[n] = o /\ R[n] = o)
      <4> HIDE DEF N, L, R, P, r, c
      <4> QED BY <1>1, Around
    <3> HIDE DEF N, r, c, L, R, P
    <3>3. P[o] \in N \cup {NULL} /\ P[o] = t.node[o].parent
      BY <1>1, <1>2
    <3>4. u \in Trees(N) /\ u.root = IF P[o] = NULL THEN r ELSE t.root
      BY <2>3, <3>3 DEF RotatedRight
    <3>5. ASSUME NEW n \in N
          PROVE  /\ u.node[n].right = IF n = r THEN o ELSE IF L[n] = o THEN r ELSE L[n]
                 /\ u.node[n].left = IF n = o THEN c ELSE IF R[n] = o THEN r ELSE R[n]
                 /\ u.node[n].parent = IF n = o THEN r ELSE IF n = r THEN P[o] ELSE IF n = c THEN o ELSE P[n]
      BY <1>1, <1>2, <2>3, <3>1, <3>2, <3>3 DEF RotatedRight
    <3> QED BY <3>4, <3>5
  <2>5. Live(u) = N
    <3> HIDE DEF N
    <3> QED BY <2>4 DEF Trees, Live
  <2>6. /\ Rights(u) = TurnL(L, o, r) /\ Lefts(u) = TurnR(R, o, r, c) /\ Parents(u) = TurnP(P, o, r, c)
        /\ u.root = TurnRoot(t.root, o, r)
    <3>1. P[o] = NULL <=> o = t.root
      BY <1>1 DEF Hung
    <3>2. u.root = TurnRoot(t.root, o, r)
      BY <3>1, <2>4 DEF TurnRoot
    <3>3. DOMAIN L = N /\ DOMAIN R = N /\ DOMAIN P = N
      BY <1>2
    <3> HIDE DEF N, L, R, P, r, c
    <3>4. Rights(u) = TurnL(L, o, r)
      BY <2>4, <2>5, <3>3 DEF Rights, TurnL
    <3>5. Lefts(u) = TurnR(R, o, r, c)
      BY <2>4, <2>5, <3>3 DEF Lefts, TurnR
    <3>6. Parents(u) = TurnP(P, o, r, c)
      BY <2>4, <2>5, <3>3, Z3T(30) DEF Parents, TurnP
    <3> QED BY <3>2, <3>4, <3>5, <3>6
  <2>7. /\ Hung(N, Rights(u), Lefts(u), Parents(u), u.root, new)
        /\ \A n \in N \ {o, r} : new[n] = sub[n]
    <3> HIDE DEF N, L, R, P, r, c
    <3> QED BY <1>1, <2>1, <2>6, Turn, Z3T(30) DEF new
  <2>8. Ordered(Lefts(u), Rights(u), new, N)
    <3> HIDE DEF N, L, R, P, r, c
    <3>1. Ordered(R, L, sub, N)
      BY <1>1 DEF L, R
    <3> QED BY <3>1, <1>1, <2>1, <2>6, TurnOrdered DEF new
  <2>9. Shape(u, new)
    BY <1>1, <2>4, <2>5, <2>7, <2>8, Mirror DEF Shape
  <2>10. ASSUME NEW n \in N \ sub[o]
         PROVE  new[n] = sub[n] /\ u.node[n].parent = t.node[n].parent
    <3>1. n \in N /\ n \notin {o, r} /\ (c # NULL => n # c) /\ n # NULL
      <4> HIDE DEF N, L, R, P, r, c
      <4>1. r \in sub[r] /\ (c # NULL => c \in sub[c])
        BY <1>1, <2>1, Around
      <4> QED BY <4>1, <2>2, <1>1
    <3> HIDE DEF N, L, R, P, r, c, new
    <3> QED BY <3>1, <2>7, <2>4, <1>2
  <2>11. ASSUME Tight(t, o), Tight(t, r), NEW n \in N, n \in {o, r} \/ Tight(t, n)
         PROVE  Tight(u, n)
    <3>1. /\ Bound(L, Uppers(t), Ends, o) /\ Bound(R, Lowers(t), Starts, o) /\ Bound(R, Lowers(t), Starts, r)
          /\ n \in {o, r} \/ (Bound(L, Uppers(t), Ends, n) /\ Bound(R, Lowers(t), Starts, n))
      BY <2>1, <2>11, TightBounds, Z3T(30)
    <3>2. /\ Uppers(u)[r] = Uppers(t)[o] /\ \A m \in N \ {r} : Uppers(u)[m] = Uppers(t)[m]
          /\ Lowers(u)[o] = (IF c = NULL THEN Starts[o] ELSE Lowers(t)[c])
          /\ \A m \in N \ {o} : Lowers(u)[m] = Lowers(t)[m]
      <4>1. o \in Block
        BY <1>1
      <4> HIDE DEF N, L, R, P, r, c
      <4> QED BY <4>1, <1>1, <2>1, <2>3, <2>5, ZenonT(60) DEF N, Lowers, Uppers, Starts, RotatedRight
    <3>3. n \in {o, r} \/ Bound(L, Uppers(t), Ends, n) => Bound(Rights(u), Uppers(u), Ends, n)
      <4> HIDE DEF N, L, R, P, r, c
      <4> DEFINE b == Uppers(t)
                 b2 == Uppers(u)
      <4>1. b2[r] = b[o] /\ (\A m \in N \ {r} : b2[m] = b[m]) /\ Bound(L, b, Ends, o)
        BY <3>1, <3>2
      <4> HIDE DEF b, b2
      <4>3. \A m \in N : m \in {o, r} \/ Bound(L, b, Ends, m) => Bound(TurnL(L, o, r), b2, Ends, m)
        BY <4>1, <1>1, <2>1, TurnNearBound
      <4> QED BY <4>3, <2>6 DEF b, b2
    <3>4. n \in {o, r} \/ Bound(R, Lowers(t), Starts, n) => Bound(Lefts(u), Lowers(u), Starts, n)
      <4> HIDE DEF N, L, R, P, r, c
      <4> DEFINE b == Lowers(t)
                 b2 == Lowers(u)
      <4>1. b2[o] = (IF c = NULL THEN Starts[o] ELSE b[c]) /\ (\A m \in N \ {o} : b2[m] = b[m])
        BY <3>2
      <4>2. Bound(R, b, Starts, o) /\ Bound(R, b, Starts, r)
        BY <3>1
      <4> HIDE DEF b, b2
      <4>3. \A m \in N : m \in {o, r} \/ Bound(R, b, Starts, m) => Bound(TurnR(R, o, r, c), b2, Starts, m)
        BY <4>1, <4>2, <1>1, <2>1, TurnFarBound
      <4> QED BY <4>3, <2>6 DEF b, b2
    <3> QED BY <3>1, <3>3, <3>4, <2>5, <2>9, TightBounds
  <2>12. Rearranged(t, sub, u, new, o)
    <3>1. o \in sub[o] /\ r \in sub[o]
      <4> HIDE DEF N, L, R, P, r, c
      <4>1. r \in sub[r] /\ o \in sub[o]
        BY <1>1, <2>1, Around
      <4> QED BY <4>1, <2>2
    <3>2. sub[o] \subseteq N
      <4> HIDE DEF N, L, R, P, r, c
      <4> QED BY <1>1, Around
    <3> HIDE DEF N, L, R, P, r, c, new
    <3> QED BY <3>1, <3>2, <2>5, <2>9, <2>10, <2>11 DEF Rearranged, N
  <2> QED BY <2>12 DEF u
<1> QED BY <1>3, <1>4

\* Steps at o one after the other.
LEMMA RearrangedTwice ==
  ASSUME NEW t, NEW sub, NEW o \in Live(t), NEW u, NEW mid, NEW v, NEW new,
         Shape(t, sub), Rearranged(t, sub, u, mid, o), mid[o] = sub[o], Rearranged(u, mid, v, new, o)
  PROVE  Rearranged(t, sub, v, new, o)
BY DEF Rearranged

\* A step at a node of o's subtree is a step at o.
LEMMA RearrangedBelow ==
  ASSUME NEW t, NEW sub, Shape(t, sub), NEW o \in Live(t), NEW l \in sub[o], NEW u, NEW mid,
         Rearranged(t, sub, u, mid, l)
  PROVE  Rearranged(t, sub, u, mid, o)
<1>1. sub[l] \subseteq sub[o] /\ sub[o] \subseteq Live(t)
  BY Nested, Around DEF Shape
<1> QED BY <1>1 DEF Rearranged

\* The double rotations.
LEMMA DoubleRearranges ==
  ASSUME NEW t, NEW sub, Shape(t, sub), NEW o \in Live(t)
  PROVE  /\ t.node[o].left # NULL =>
              \E new : Rearranged(t, sub, RotateRight(RotateLeft(t, t.node[o].left), o), new, o)
         /\ t.node[o].right # NULL =>
              \E new : Rearranged(t, sub, RotateLeft(RotateRight(t, t.node[o].right), o), new, o)
<1>1. ASSUME NEW l \in Live(t), l \in {t.node[o].left, t.node[o].right}
      PROVE  l \in sub[o] /\ o \notin sub[l]
  BY <1>1, NodeFields, Around DEF Shape
<1>2. ASSUME t.node[o].left # NULL
      PROVE  \E new : Rearranged(t, sub, RotateRight(RotateLeft(t, t.node[o].left), o), new, o)
  <2> DEFINE l == t.node[o].left
             u == RotateLeft(t, l)
  <2>1. l \in Live(t) /\ l \in sub[o] /\ o \notin sub[l]
    BY <1>1, <1>2, NodeFields
  <2> HIDE DEF l
  <2>2. PICK mid : Rearranged(t, sub, u, mid, l)
    BY <2>1, RotateLeftRearranges
  <2> HIDE DEF u
  <2>3. Rearranged(t, sub, u, mid, o)
    BY <2>1, <2>2, RearrangedBelow
  <2>4. mid[o] = sub[o] /\ Shape(u, mid) /\ o \in Live(u)
    BY <2>1, <2>2 DEF Rearranged
  <2>5. PICK new : Rearranged(u, mid, RotateRight(u, o), new, o)
    BY <2>4, RotateRightRearranges
  <2>6. Rearranged(t, sub, RotateRight(u, o), new, o)
    BY <2>3, <2>4, <2>5, RearrangedTwice
  <2> QED BY <2>6 DEF u, l
<1>3. ASSUME t.node[o].right # NULL
      PROVE  \E new : Rearranged(t, sub, RotateLeft(RotateRight(t, t.node[o].right), o), new, o)
  <2> DEFINE r == t.node[o].right
             u == RotateRight(t, r)
  <2>1. r \in Live(t) /\ r \in sub[o] /\ o \notin sub[r]
    BY <1>1, <1>3, NodeFields
  <2> HIDE DEF r
  <2>2. PICK mid : Rearranged(t, sub, u, mid, r)
    BY <2>1, RotateRightRearranges
  <2> HIDE DEF u
  <2>3. Rearranged(t, sub, u, mid, o)
    BY <2>1, <2>2, RearrangedBelow
  <2>4. mid[o] = sub[o] /\ Shape(u, mid) /\ o \in Live(u)
    BY <2>1, <2>2 DEF Rearranged
  <2>5. PICK new : Rearranged(u, mid, RotateLeft(u, o), new, o)
    BY <2>4, RotateLeftRearranges
  <2>6. Rearranged(t, sub, RotateLeft(u, o), new, o)
    BY <2>3, <2>4, <2>5, RearrangedTwice
  <2> QED BY <2>6 DEF u, r
<1> QED BY <1>2, <1>3

\* A node out of balance has a child on its heavy side.
LEMMA HeavySide ==
  ASSUME NEW t, NEW sub, Shape(t, sub), NEW o \in Live(t), Balance(t, o) \notin -1..1
  PROVE  IF Balance(t, o) < -1 THEN t.node[o].left # NULL ELSE t.node[o].right # NULL
<1>1. /\ t.node[o].left \in Live(t) \cup {NULL} /\ t.node[o].right \in Live(t) \cup {NULL}
  BY NodeFields
<1>2. \A n \in Live(t) \cup {NULL} : Height(t, n) \in Nat /\ (n = NULL => Height(t, n) = 0)
  BY NodeFields DEF Height
<1> DEFINE hl == Height(t, t.node[o].left)
           hr == Height(t, t.node[o].right)
<1>3. hl \in Nat /\ hr \in Nat /\ Balance(t, o) = hr - hl
  BY <1>1, <1>2 DEF Balance
<1>4. (t.node[o].left = NULL => hl = 0) /\ (t.node[o].right = NULL => hr = 0)
  BY <1>1, <1>2
<1> HIDE DEF hl, hr
<1> QED BY <1>3, <1>4

\* Whichever rotations the two loops choose, they rearrange the subtree at p.
LEMMA RestoreRearranges ==
  ASSUME NEW t, NEW sub, Shape(t, sub), NEW p \in Live(t), NEW o, Balance(t, p) \notin -1..1
  PROVE  /\ \E new : Rearranged(t, sub, RestoreAfterInsert(t, p, o), new, p)
         /\ \E new : Rearranged(t, sub, RestoreAfterErase(t, p), new, p)
<1> DEFINE l == t.node[p].left
           r == t.node[p].right
<1>1. CASE Balance(t, p) < -1
  <2>1. l # NULL
    BY <1>1, HeavySide
  <2>2. \E new : Rearranged(t, sub, RotateRight(t, p), new, p)
    BY RotateRightRearranges
  <2>3. \E new : Rearranged(t, sub, RotateRight(RotateLeft(t, l), p), new, p)
    BY <2>1, DoubleRearranges
  <2>4. RestoreAfterInsert(t, p, o) \in {RotateRight(t, p), RotateRight(RotateLeft(t, l), p)}
    BY <1>1 DEF RestoreAfterInsert
  <2>5. RestoreAfterErase(t, p) \in {RotateRight(t, p), RotateRight(RotateLeft(t, l), p)}
    BY <1>1 DEF RestoreAfterErase
  <2> QED BY <2>2, <2>3, <2>4, <2>5
<1>2. CASE ~(Balance(t, p) < -1)
  <2>1. r # NULL
    BY <1>2, HeavySide
  <2>2. \E new : Rearranged(t, sub, RotateLeft(t, p), new, p)
    BY RotateLeftRearranges
  <2>3. \E new : Rearranged(t, sub, RotateLeft(RotateRight(t, r), p), new, p)
    BY <2>1, DoubleRearranges
  <2>4. RestoreAfterInsert(t, p, o) \in {RotateLeft(t, p), RotateLeft(RotateRight(t, r), p)}
    BY <1>2 DEF RestoreAfterInsert
  <2>5. RestoreAfterErase(t, p) \in {RotateLeft(t, p), RotateLeft(RotateRight(t, r), p)}
    BY <1>2 DEF RestoreAfterErase
  <2> QED BY <2>2, <2>3, <2>4, <2>5
<1> QED BY <1>1, <1>2

\* Updating a height moves nothing.
LEMMA UpdateHeightRearranges ==
  ASSUME NEW t, NEW sub, Shape(t, sub), NEW p \in Live(t)
  PROVE  Rearranged(t, sub, UpdateHeight(t, p), sub, p)
<1> DEFINE h == 1 + MaxOf(Height(t, t.node[p].left), Height(t, t.node[p].right))
           u == UpdateHeight(t, p)
           x == [t.node[p] EXCEPT !.height = h]
<1>1. h \in Nat
  <2>1. /\ t.node[p].left \in Live(t) \cup {NULL} /\ t.node[p].right \in Live(t) \cup {NULL}
    BY NodeFields
  <2>2. \A n \in Live(t) \cup {NULL} : Height(t, n) \in Nat
    BY NodeFields DEF Height
  <2>3. \A i, j \in Nat : 1 + MaxOf(i, j) \in Nat
    BY DEF MaxOf
  <2> QED BY <2>1, <2>2, <2>3
<1>2. t \in Trees(Live(t)) /\ t.node[p] \in Nodes
  BY DEF Shape, Trees
<1>3. u = [t EXCEPT !.node = [@ EXCEPT ![p] = x]]
  BY <1>2 DEF UpdateHeight, Trees
<1> HIDE DEF h
<1>4. /\ x \in Nodes /\ x.left = t.node[p].left /\ x.right = t.node[p].right
      /\ x.parent = t.node[p].parent /\ x.lower = t.node[p].lower /\ x.upper = t.node[p].upper
  BY <1>1, <1>2 DEF Nodes
<1> HIDE DEF u, x
<1>5. /\ u \in Trees(Live(t)) /\ u.root = t.root
      /\ u.node[p] = x /\ \A n \in Live(t) \ {p} : u.node[n] = t.node[n]
  BY <1>2, <1>3, <1>4 DEF Trees
<1>6. \A n \in Live(t) :
         /\ u.node[n].left = t.node[n].left /\ u.node[n].right = t.node[n].right
         /\ u.node[n].parent = t.node[n].parent
         /\ u.node[n].lower = t.node[n].lower /\ u.node[n].upper = t.node[n].upper
  BY <1>4, <1>5
<1>7. Rearranged(t, sub, u, sub, p)
  BY <1>5, <1>6, SameTree
<1> QED BY <1>7 DEF u

\* Nothing is lost when a step of the insertion loop ends.
AllTight(t) == \A n \in Live(t) : Tight(t, n)
Sound(t) == \E sub : Shape(t, sub) /\ AllTight(t)

\* A tree with exact bounds keeps them when it is rearranged.
LEMMA RearrangedSound ==
  ASSUME NEW t, NEW sub, Shape(t, sub), \A n \in Live(t) : Tight(t, n), NEW p \in Live(t),
         NEW u, NEW new, Rearranged(t, sub, u, new, p)
  PROVE  Shape(u, new) /\ Live(u) = Live(t) /\ \A n \in Live(u) : Tight(u, n)
<1>1. sub[p] \subseteq Live(t)
  BY Around DEF Shape
<1> QED BY <1>1 DEF Rearranged

\* One round of the loop of object_insert keeps the index sound.
LEMMA InsertStepSound ==
  ASSUME NEW acc, NEW p, NEW o, Sound(acc.tree), p \in Live(acc.tree)
  PROVE  /\ Sound(InsertStep(acc, p, o).tree)
         /\ Live(InsertStep(acc, p, o).tree) = Live(acc.tree)
<1> DEFINE t == acc.tree
           s == UpdateHeight(t, p)
           v == RestoreAfterInsert(s, p, o)
<1>1. PICK sub : Shape(t, sub) /\ \A n \in Live(t) : Tight(t, n)
  BY DEF Sound, AllTight
<1> HIDE DEF t
<1>2. p \in Live(t)
  BY DEF t
<1>3. Shape(s, sub) /\ Live(s) = Live(t) /\ \A n \in Live(s) : Tight(s, n)
  BY <1>1, <1>2, UpdateHeightRearranges, RearrangedSound
<1> HIDE DEF s
<1>4. CASE acc.done
  BY <1>1, <1>4 DEF InsertStep, t
<1>5. CASE ~acc.done /\ Balance(s, p) \in -1..1
  <2>1. InsertStep(acc, p, o).tree = s
    BY <1>5 DEF InsertStep, s, t
  <2> QED BY <2>1, <1>3 DEF Sound, AllTight, t
<1>6. CASE ~acc.done /\ Balance(s, p) \notin -1..1
  <2>1. InsertStep(acc, p, o).tree = v
    BY <1>6 DEF InsertStep, s, t
  <2>2. PICK new : Rearranged(s, sub, v, new, p)
    BY <1>2, <1>3, <1>6, RestoreRearranges
  <2> HIDE DEF v
  <2>3. Shape(v, new) /\ Live(v) = Live(s) /\ \A n \in Live(v) : Tight(v, n)
    BY <1>2, <1>3, <2>2, RearrangedSound
  <2> QED BY <2>1, <2>3, <1>3 DEF Sound, AllTight, t
<1> QED BY <1>4, <1>5, <1>6

\* The loop of object_erase makes the bounds of the node it visits exact.
LEMMA UpdateBoundsTightens ==
  ASSUME NEW t, NEW sub, Shape(t, sub), NEW p \in Live(t)
  PROVE  LET u == UpdateBounds(t, p)
         IN /\ Live(u) = Live(t) /\ Shape(u, sub)
            /\ \A n \in Live(t) : u.node[n].parent = t.node[n].parent
            /\ Tight(u, p)
            /\ \A n \in Live(t) \ {p, t.node[p].parent} : Tight(t, n) => Tight(u, n)
<1> DEFINE l == t.node[p].left
           r == t.node[p].right
           lo == IF l = NULL THEN p ELSE t.node[l].lower
           up == IF r = NULL THEN End(p) ELSE t.node[r].upper
           u == UpdateBounds(t, p)
           x == [t.node[p] EXCEPT !.lower = lo, !.upper = up]
<1>1. /\ p \in Nat /\ p \in Block /\ End(p) \in Nat /\ l \in Live(t) \cup {NULL} /\ r \in Live(t) \cup {NULL}
      /\ t \in Trees(Live(t)) /\ t.node[p] \in Nodes
  BY NodeFields, Addresses DEF Shape
<1>2. lo \in Nat /\ up \in Nat
  BY <1>1, NodeFields
<1>3. u = [t EXCEPT !.node = [@ EXCEPT ![p] = x]]
  BY <1>1 DEF UpdateBounds, Trees
<1> HIDE DEF lo, up
<1>4. /\ x \in Nodes /\ x.left = l /\ x.right = r /\ x.parent = t.node[p].parent
      /\ x.lower = lo /\ x.upper = up
  BY <1>1, <1>2 DEF Nodes
<1> HIDE DEF u, x
<1>5. /\ u \in Trees(Live(t)) /\ u.root = t.root
      /\ u.node[p] = x /\ \A n \in Live(t) \ {p} : u.node[n] = t.node[n]
  BY <1>1, <1>3, <1>4 DEF Trees
<1>6. Live(u) = Live(t)
  BY <1>5 DEF Trees, Live
<1>7. \A n \in Live(t) : /\ u.node[n].left = t.node[n].left /\ u.node[n].right = t.node[n].right
                         /\ u.node[n].parent = t.node[n].parent
  BY <1>4, <1>5
<1>8. Shape(u, sub)
  <2>1. Lefts(u) = Lefts(t) /\ Rights(u) = Rights(t) /\ Parents(u) = Parents(t)
    BY <1>6, <1>7 DEF Lefts, Rights, Parents
  <2> QED BY <2>1, <1>5, <1>6 DEF Shape
<1>9. l # p /\ r # p /\ \A n \in Live(t) : p \in {t.node[n].left, t.node[n].right} => n = t.node[p].parent
  BY NodeFields, Around DEF Shape
<1>10. Tight(u, p)
  BY <1>1, <1>4, <1>5, <1>9 DEF Tight, lo, up
<1>11. ASSUME NEW n \in Live(t) \ {p, t.node[p].parent}, Tight(t, n) PROVE Tight(u, n)
  <2>1. /\ t.node[n].left \in Live(t) \cup {NULL} /\ t.node[n].right \in Live(t) \cup {NULL}
        /\ t.node[n].left # p /\ t.node[n].right # p
    BY <1>9, NodeFields
  <2> QED BY <2>1, <1>5, <1>11 DEF Tight
<1> QED BY <1>6, <1>7, <1>8, <1>10, <1>11 DEF u

\* A step of the erase loop at q repairs the bounds of q; only those of its
\* parent are then out of date.
LEMMA EraseStepRepairs ==
  ASSUME NEW t, NEW sub, Shape(t, sub), NEW q \in Live(t), \A n \in Live(t) \ {q} : Tight(t, n)
  PROVE  \E new :
           /\ Shape(EraseStep(t, q), new) /\ Live(EraseStep(t, q)) = Live(t)
           /\ \A n \in Live(t) \ {t.node[q].parent} : Tight(EraseStep(t, q), n)
           /\ \A n \in Live(t) \ sub[q] : /\ new[n] = sub[n]
                                          /\ EraseStep(t, q).node[n].parent = t.node[n].parent
<1> DEFINE s == UpdateHeight(t, q)
           u == UpdateBounds(s, q)
           v == RestoreAfterErase(u, q)
           p == t.node[q].parent
<1>1. p \notin sub[q] /\ sub[q] \subseteq Live(t) /\ q \in sub[q]
  BY NodeFields, Around DEF Shape
<1>2. Rearranged(t, sub, s, sub, q)
  BY UpdateHeightRearranges
<1>3. Shape(s, sub) /\ Live(s) = Live(t)
  BY <1>2 DEF Rearranged
<1>4. \A n \in Live(t) : s.node[n].parent = t.node[n].parent
  BY DEF UpdateHeight, Shape, Trees, Nodes
<1>5. \A n \in Live(t) \ {q} : Tight(s, n)
  <2>1. \A n \in Live(t) : /\ s.node[n].left = t.node[n].left /\ s.node[n].right = t.node[n].right
                           /\ s.node[n].lower = t.node[n].lower /\ s.node[n].upper = t.node[n].upper
    BY DEF UpdateHeight, Shape, Trees, Nodes
  <2> TAKE n \in Live(t) \ {q}
  <2>2. /\ t.node[n].left \in Live(t) \cup {NULL} /\ t.node[n].right \in Live(t) \cup {NULL} /\ Tight(t, n)
    BY NodeFields
  <2> HIDE DEF s
  <2> QED BY <2>1, <2>2 DEF Tight
<1> HIDE DEF s
<1>6. /\ Live(u) = Live(t) /\ Shape(u, sub) /\ Tight(u, q)
      /\ \A n \in Live(t) : u.node[n].parent = t.node[n].parent
      /\ \A n \in Live(t) \ {q, p} : Tight(u, n)
  <2>1. q \in Live(s) /\ s.node[q].parent = p
    BY <1>3, <1>4
  <2>2. /\ Live(u) = Live(s) /\ Shape(u, sub) /\ Tight(u, q)
        /\ \A n \in Live(s) : u.node[n].parent = s.node[n].parent
        /\ \A n \in Live(s) \ {q, s.node[q].parent} : Tight(s, n) => Tight(u, n)
    BY <1>3, <2>1, UpdateBoundsTightens
  <2> HIDE DEF u, p
  <2> QED BY <1>3, <1>4, <1>5, <2>1, <2>2
<1> HIDE DEF u
<1>7. \A n \in Live(t) \ {p} : Tight(u, n)
  BY <1>6
<1>8. CASE Balance(u, q) \in -1..1
  <2>1. EraseStep(t, q) = u
    BY <1>8 DEF EraseStep, u, s
  <2> QED BY <2>1, <1>6, <1>7
<1>9. CASE Balance(u, q) \notin -1..1
  <2>1. EraseStep(t, q) = v
    BY <1>9 DEF EraseStep, u, s
  <2>2. PICK new : Rearranged(u, sub, v, new, q)
    BY <1>6, <1>9, RestoreRearranges
  <2> HIDE DEF v
  <2>3. \A n \in sub[q] : Tight(u, n)
    BY <1>1, <1>7
  <2>4. \A n \in Live(t) \ {p} : Tight(v, n)
    BY <1>1, <1>6, <1>7, <2>2, <2>3 DEF Rearranged
  <2> HIDE DEF p
  <2> QED BY <1>6, <2>1, <2>2, <2>4 DEF Rearranged, p
<1> QED BY <1>8, <1>9

-----------------------------------------------------------------------------
(* Heights.  A node is restored by the rotations object_insert chooses.    *)

\* The heights of the nodes, and of NULL.
Heights(t) == [n \in Live(t) \cup {NULL} |-> Height(t, n)]

\* The heights of a search tree.
LEMMA HeightsGraded ==
  ASSUME NEW t, NEW sub, Shape(t, sub)
  PROVE  /\ Graded(Live(t), Heights(t)) /\ NULL \notin Live(t)
         /\ \A n \in Live(t) : Heights(t)[n] = t.node[n].height
         /\ \A n \in Live(t) \cup {NULL} : Heights(t)[n] = Height(t, n)
<1>1. NULL \notin Live(t) /\ NULL = 0
  BY Addresses DEF Shape
<1>2. \A n \in Live(t) : t.node[n].height \in Nat
  BY NodeFields
<1>3. \A n \in Live(t) \cup {NULL} : Height(t, n) \in Nat
  BY <1>1, <1>2 DEF Height
<1>4. Height(t, NULL) = 0 /\ \A n \in Live(t) : Height(t, n) = t.node[n].height
  BY <1>1 DEF Height
<1> HIDE DEF Live
<1> QED BY <1>1, <1>3, <1>4 DEF Graded, Heights

\* A rotation to the left lifts the right child.
LEMMA RotateLeftLifts ==
  ASSUME NEW t, NEW sub, Shape(t, sub), NEW o \in Live(t), t.node[o].right # NULL
  PROVE  /\ Live(RotateLeft(t, o)) = Live(t)
         /\ Lifted(Live(t), Lefts(t), Rights(t), Heights(t),
                   Lefts(RotateLeft(t, o)), Rights(RotateLeft(t, o)), Heights(RotateLeft(t, o)),
                   o, Rights(t)[o])
<1> DEFINE N == Live(t)
           L == Lefts(t)
           R == Rights(t)
           P == Parents(t)
           r == R[o]
           c == L[r]
           u == RotateLeft(t, o)
           H == Heights(t)
           K == Heights(u)
<1>1. /\ o \in N /\ N \in SUBSET Block /\ N \in SUBSET Nat /\ IsFiniteSet(N) /\ t \in Trees(N) /\ NULL \notin N
      /\ Hung(N, L, R, P, t.root, sub)
  BY Addresses DEF Shape
<1>2. /\ \A n \in N : /\ L[n] \in N \cup {NULL} /\ R[n] \in N \cup {NULL} /\ P[n] \in N \cup {NULL}
                      /\ L[n] = t.node[n].left /\ R[n] = t.node[n].right /\ P[n] = t.node[n].parent
  BY <1>1 DEF Hung, Lefts, Rights, Parents
<1>3. /\ r \in N /\ c \in N \cup {NULL} /\ r = t.node[o].right /\ c = t.node[r].left /\ R[o] = r /\ L[r] = c
  BY SMTT(30), <1>2
<1>4. /\ r # o /\ c # o /\ c # r /\ P[o] # o /\ P[o] # r /\ (P[o] # c \/ P[o] = NULL) /\ P[r] = o
      /\ L[o] \notin {o, r} /\ R[r] \notin {o, r}
      /\ \A n \in N : L[n] = o \/ R[n] = o => n = P[o] /\ n \notin sub[o]
      /\ \A n \in N : L[n] = r \/ R[n] = r <=> n = o
  <2> HIDE DEF L, R, P, r, c
  <2> QED BY <1>1, <1>3, TurnNodes, Z3T(30)
<1>5. RotatedLeft(N, t, u, o, r, c)
  <2>1. {t.node[o].left, t.node[r].right} \subseteq N \cup {NULL} /\ P[o] = t.node[o].parent
    BY <1>2, <1>3
  <2> HIDE DEF N, L, R, P, r, c
  <2> QED BY <1>1, <1>2, <1>3, <1>4, <2>1, RotateLeftFields, ZenonT(60) DEF u
<1> HIDE DEF u
<1>6. Live(u) = N
  <2>1. u \in Trees(N)
    BY <1>5 DEF RotatedLeft
  <2> HIDE DEF N
  <2> QED BY <2>1 DEF Trees, Live
<1>7. \A n \in N : H[n] = t.node[n].height /\ K[n] = u.node[n].height
  <2> HIDE DEF N
  <2> QED BY <1>1, <1>6, ZenonT(60) DEF Heights, Height, N
<1>8. H[NULL] = 0 /\ K[NULL] = 0
  BY DEF Heights, Height
<1>9. \A n \in N \cup {NULL} : H[n] = Height(t, n)
  BY DEF Heights
<1>10. /\ \A n \in N : Lefts(u)[n] = u.node[n].left /\ Rights(u)[n] = u.node[n].right
  BY <1>6 DEF Lefts, Rights
<1>11. \A n \in N : P[o] = n <=> o \in {L[n], R[n]}
  BY <1>1 DEF Hung
<1>12. \A n \in N : ~(L[n] = o /\ R[n] = o)
  <2> HIDE DEF N, L, R, P, r, c
  <2> QED BY <1>1, Around
<1> HIDE DEF N, r, c, L, R, P, H, K
<1>13. P[o] \in N \cup {NULL} /\ P[o] = t.node[o].parent
  BY <1>1, <1>2
<1>14. ASSUME NEW n \in N
       PROVE  /\ Lefts(u)[n] = IF n = r THEN o ELSE IF L[n] = o THEN r ELSE L[n]
              /\ Rights(u)[n] = IF n = o THEN c ELSE IF R[n] = o THEN r ELSE R[n]
  BY <1>1, <1>2, <1>5, <1>10, <1>11, <1>12, <1>13 DEF RotatedLeft
<1>15. /\ K[o] = 1 + MaxOf(Height(t, t.node[o].left), Height(t, c))
       /\ K[r] = 1 + MaxOf(K[o], Height(t, t.node[r].right))
       /\ \A n \in N \ {o, r} : K[n] = t.node[n].height
  <2> DEFINE h == 1 + MaxOf(Height(t, t.node[o].left), Height(t, c))
             k == 1 + MaxOf(h, Height(t, t.node[r].right))
  <2>1. \A n \in N : u.node[n].height = IF n = o THEN h ELSE IF n = r THEN k ELSE t.node[n].height
    BY <1>5, ZenonT(60) DEF RotatedLeft
  <2> HIDE DEF h, k
  <2>2. K[o] = h /\ K[r] = k /\ \A n \in N \ {o, r} : K[n] = t.node[n].height
    BY <2>1, <1>1, <1>3, <1>4, <1>7
  <2> QED BY <2>2 DEF h, k
<1>16. /\ K[o] = 1 + MaxOf(H[L[o]], H[L[r]]) /\ K[r] = 1 + MaxOf(K[o], H[R[r]])
       /\ \A n \in N \ {o, r} : K[n] = H[n]
  <2>1. L[o] = t.node[o].left /\ R[r] = t.node[r].right /\ L[o] \in N \cup {NULL} /\ R[r] \in N \cup {NULL} /\ L[r] = c
    BY <1>1, <1>2, <1>3
  <2>2. H[L[o]] = Height(t, t.node[o].left) /\ H[L[r]] = Height(t, c) /\ H[R[r]] = Height(t, t.node[r].right)
    BY <2>1, <1>3, <1>9
  <2> QED BY <2>2, <1>15, <1>7
<1>17. /\ Lefts(u)[o] = L[o] /\ Rights(u)[o] = L[r] /\ Lefts(u)[r] = o /\ Rights(u)[r] = R[r]
  BY <1>1, <1>3, <1>4, <1>14
<1>18. \A n \in N \ {o, r} : /\ Lefts(u)[n] = IF L[n] = o THEN r ELSE L[n]
                             /\ Rights(u)[n] = IF R[n] = o THEN r ELSE R[n]
  BY <1>14
<1>19. Lifted(N, L, R, H, Lefts(u), Rights(u), K, o, r)
  BY <1>8, <1>16, <1>17, <1>18 DEF Lifted
<1> QED BY <1>6, <1>19 DEF N, L, R, H, K, r, u

\* A rotation to the right lifts the left child.
LEMMA RotateRightLifts ==
  ASSUME NEW t, NEW sub, Shape(t, sub), NEW o \in Live(t), t.node[o].left # NULL
  PROVE  /\ Live(RotateRight(t, o)) = Live(t)
         /\ Lifted(Live(t), Rights(t), Lefts(t), Heights(t),
                   Rights(RotateRight(t, o)), Lefts(RotateRight(t, o)), Heights(RotateRight(t, o)),
                   o, Lefts(t)[o])
<1> DEFINE N == Live(t)
           L == Rights(t)
           R == Lefts(t)
           P == Parents(t)
           r == R[o]
           c == L[r]
           u == RotateRight(t, o)
           H == Heights(t)
           K == Heights(u)
<1>1. /\ o \in N /\ N \in SUBSET Block /\ N \in SUBSET Nat /\ IsFiniteSet(N) /\ t \in Trees(N) /\ NULL \notin N
      /\ Hung(N, L, R, P, t.root, sub)
  BY Addresses, Mirror DEF Shape
<1>2. /\ \A n \in N : /\ L[n] \in N \cup {NULL} /\ R[n] \in N \cup {NULL} /\ P[n] \in N \cup {NULL}
                      /\ L[n] = t.node[n].right /\ R[n] = t.node[n].left /\ P[n] = t.node[n].parent
  BY <1>1 DEF Hung, Rights, Lefts, Parents
<1>3. /\ r \in N /\ c \in N \cup {NULL} /\ r = t.node[o].left /\ c = t.node[r].right /\ R[o] = r /\ L[r] = c
  BY SMTT(30), <1>2
<1>4. /\ r # o /\ c # o /\ c # r /\ P[o] # o /\ P[o] # r /\ (P[o] # c \/ P[o] = NULL) /\ P[r] = o
      /\ L[o] \notin {o, r} /\ R[r] \notin {o, r}
      /\ \A n \in N : L[n] = o \/ R[n] = o => n = P[o] /\ n \notin sub[o]
      /\ \A n \in N : L[n] = r \/ R[n] = r <=> n = o
  <2> HIDE DEF L, R, P, r, c
  <2> QED BY <1>1, <1>3, TurnNodes, Z3T(30)
<1>5. RotatedRight(N, t, u, o, r, c)
  <2>1. {t.node[o].right, t.node[r].left} \subseteq N \cup {NULL} /\ P[o] = t.node[o].parent
    BY <1>2, <1>3
  <2> HIDE DEF N, L, R, P, r, c
  <2> QED BY <1>1, <1>2, <1>3, <1>4, <2>1, RotateRightFields, ZenonT(60) DEF u
<1> HIDE DEF u
<1>6. Live(u) = N
  <2>1. u \in Trees(N)
    BY <1>5 DEF RotatedRight
  <2> HIDE DEF N
  <2> QED BY <2>1 DEF Trees, Live
<1>7. \A n \in N : H[n] = t.node[n].height /\ K[n] = u.node[n].height
  <2> HIDE DEF N
  <2> QED BY <1>1, <1>6, ZenonT(60) DEF Heights, Height, N
<1>8. H[NULL] = 0 /\ K[NULL] = 0
  BY DEF Heights, Height
<1>9. \A n \in N \cup {NULL} : H[n] = Height(t, n)
  BY DEF Heights
<1>10. /\ \A n \in N : Rights(u)[n] = u.node[n].right /\ Lefts(u)[n] = u.node[n].left
  BY <1>6 DEF Rights, Lefts
<1>11. \A n \in N : P[o] = n <=> o \in {L[n], R[n]}
  BY <1>1 DEF Hung
<1>12. \A n \in N : ~(L[n] = o /\ R[n] = o)
  <2> HIDE DEF N, L, R, P, r, c
  <2> QED BY <1>1, Around
<1> HIDE DEF N, r, c, L, R, P, H, K
<1>13. P[o] \in N \cup {NULL} /\ P[o] = t.node[o].parent
  BY <1>1, <1>2
<1>14. ASSUME NEW n \in N
       PROVE  /\ Rights(u)[n] = IF n = r THEN o ELSE IF L[n] = o THEN r ELSE L[n]
              /\ Lefts(u)[n] = IF n = o THEN c ELSE IF R[n] = o THEN r ELSE R[n]
  BY <1>1, <1>2, <1>5, <1>10, <1>11, <1>12, <1>13 DEF RotatedRight
<1>15. /\ K[o] = 1 + MaxOf(Height(t, c), Height(t, t.node[o].right))
       /\ K[r] = 1 + MaxOf(Height(t, t.node[r].left), K[o])
       /\ \A n \in N \ {o, r} : K[n] = t.node[n].height
  <2> DEFINE h == 1 + MaxOf(Height(t, c), Height(t, t.node[o].right))
             k == 1 + MaxOf(Height(t, t.node[r].left), h)
  <2>1. \A n \in N : u.node[n].height = IF n = o THEN h ELSE IF n = r THEN k ELSE t.node[n].height
    BY <1>5, ZenonT(60) DEF RotatedRight
  <2> HIDE DEF h, k
  <2>2. K[o] = h /\ K[r] = k /\ \A n \in N \ {o, r} : K[n] = t.node[n].height
    BY <2>1, <1>1, <1>3, <1>4, <1>7
  <2> QED BY <2>2 DEF h, k
<1>16. /\ K[o] = 1 + MaxOf(H[L[o]], H[L[r]]) /\ K[r] = 1 + MaxOf(K[o], H[R[r]])
       /\ \A n \in N \ {o, r} : K[n] = H[n]
  <2>1. L[o] = t.node[o].right /\ R[r] = t.node[r].left /\ L[o] \in N \cup {NULL} /\ R[r] \in N \cup {NULL} /\ L[r] = c
    BY <1>1, <1>2, <1>3
  <2>2. H[L[o]] = Height(t, t.node[o].right) /\ H[L[r]] = Height(t, c) /\ H[R[r]] = Height(t, t.node[r].left)
    BY <2>1, <1>3, <1>9
  <2>3. \A n \in N \cup {NULL} : H[n] \in Nat
    BY HeightsGraded DEF H, N, Graded
  <2>4. \A i, j \in Nat : MaxOf(i, j) = MaxOf(j, i) /\ 1 + MaxOf(i, j) \in Nat
    BY DEF MaxOf
  <2>5. K[o] = 1 + MaxOf(H[L[o]], H[L[r]])
    BY <2>1, <2>2, <2>3, <2>4, <1>3, <1>15
  <2>6. K[r] = 1 + MaxOf(K[o], H[R[r]])
    <3>1. K[o] \in Nat
      <4>1. L[r] \in N \cup {NULL} /\ L[o] \in N \cup {NULL}
        BY <2>1, <1>3
      <4>2. H[L[r]] \in Nat /\ H[L[o]] \in Nat
        BY <4>1, <2>3
      <4> QED BY <4>2, <2>4, <2>5
    <3>2. K[r] = 1 + MaxOf(H[R[r]], K[o])
      BY <2>2, <1>15
    <3> QED BY <2>1, <2>3, <2>4, <3>1, <3>2
  <2> QED BY <2>5, <2>6, <1>7, <1>15
<1>17. /\ Rights(u)[o] = L[o] /\ Lefts(u)[o] = L[r] /\ Rights(u)[r] = o /\ Lefts(u)[r] = R[r]
  BY <1>1, <1>3, <1>4, <1>14
<1>18. \A n \in N \ {o, r} : /\ Rights(u)[n] = IF L[n] = o THEN r ELSE L[n]
                             /\ Lefts(u)[n] = IF R[n] = o THEN r ELSE R[n]
  BY <1>14
<1>19. Lifted(N, L, R, H, Rights(u), Lefts(u), K, o, r)
  BY <1>8, <1>16, <1>17, <1>18 DEF Lifted
<1> QED BY <1>6, <1>19 DEF N, L, R, H, K, r, u

\* An AVL tree.
Levelled(t) == AllLevel(Live(t), Lefts(t), Rights(t), Heights(t))

\* A node that tips to the left is restored by one rotation, or by two.
LEMMA RestoredRight ==
  ASSUME NEW t, NEW sub, Shape(t, sub), NEW q \in Live(t), NEW l \in Live(t), l = Lefts(t)[q],
         LevelBut(Live(t), Lefts(t), Rights(t), Heights(t), q, Heights(t)[l]),
         Heights(t)[l] = 2 + Heights(t)[Rights(t)[q]]
  PROVE  /\ Heights(t)[Lefts(t)[l]] = 1 + Heights(t)[Rights(t)[l]] => Levelled(RotateRight(t, q))
         /\ Heights(t)[Rights(t)[l]] = 1 + Heights(t)[Lefts(t)[l]] =>
              Levelled(RotateRight(RotateLeft(t, l), q))
<1> DEFINE N == Live(t)
           L == Lefts(t)
           R == Rights(t)
           P == Parents(t)
           H == Heights(t)
<1>1. Hung(N, R, L, P, t.root, sub) /\ IsFiniteSet(N) /\ Graded(N, H) /\ N \in SUBSET Nat /\ NULL \notin N
  BY Mirror, HeightsGraded, Addresses DEF Shape
<1>2. L \in [N -> N \cup {NULL}] /\ R \in [N -> N \cup {NULL}]
  BY <1>1 DEF Hung
<1>3. l = t.node[q].left /\ R[l] = t.node[l].right /\ R[l] \in N \cup {NULL} /\ L[l] \in N \cup {NULL} /\ l # NULL
  BY <1>1, <1>2, NodeFields
<1>4. LevelBut(N, R, L, H, q, H[l])
  <2>1. q \in Nat /\ H[l] \in Nat
    BY <1>1 DEF Graded
  <2> HIDE DEF N, L, R, H
  <2>2. LevelBut(N, L, R, H, q, H[l])
    BY DEF N, L, R, H
  <2> QED BY <1>1, <1>2, <2>1, <2>2, LevelMirror
<1>5. ASSUME NEW u, NEW new, Shape(u, new), AllLevel(Live(u), Rights(u), Lefts(u), Heights(u))
      PROVE  Levelled(u)
  <2>1. /\ Lefts(u) \in [Live(u) -> Live(u) \cup {NULL}] /\ Rights(u) \in [Live(u) -> Live(u) \cup {NULL}]
        /\ Graded(Live(u), Heights(u))
    BY <1>5, HeightsGraded DEF Shape, Hung
  <2> QED BY <2>1, <1>5, LevelMirror DEF Levelled
<1>6. H[l] = 2 + H[R[q]] /\ l = L[q]
  OBVIOUS
<1>7. ASSUME H[L[l]] = 1 + H[R[l]]
      PROVE  Levelled(RotateRight(t, q))
  <2> DEFINE u == RotateRight(t, q)
  <2>1. Live(u) = N /\ Lifted(N, R, L, H, Rights(u), Lefts(u), Heights(u), q, l)
    BY <1>3, RotateRightLifts
  <2>2. \E new : Shape(u, new)
    BY RotateRightRearranges DEF Rearranged
  <2> HIDE DEF u, N, L, R, H
  <2>3. AllLevel(N, Rights(u), Lefts(u), Heights(u))
    BY <1>1, <1>4, <1>6, <1>7, <2>1, SingleLevels DEF N
  <2> QED BY <2>1, <2>2, <2>3, <1>5 DEF u
<1>8. ASSUME H[R[l]] = 1 + H[L[l]]
      PROVE  Levelled(RotateRight(RotateLeft(t, l), q))
  <2> DEFINE v == RotateLeft(t, l)
             u == RotateRight(v, q)
             m == R[l]
  <2>1. m \in N
    <3>1. H[L[l]] \in Nat /\ H[NULL] = 0
      BY <1>1, <1>3 DEF Graded
    <3> QED BY <3>1, <1>3, <1>8
  <2>2. Live(v) = N /\ Lifted(N, L, R, H, Lefts(v), Rights(v), Heights(v), l, m)
    BY <1>1, <1>3, <2>1, RotateLeftLifts
  <2>3. PICK mid : Shape(v, mid)
    BY RotateLeftRearranges DEF Rearranged
  <2>4. q # l /\ q \in Live(v)
    <3>1. l \in {R[q], L[q]}
      OBVIOUS
    <3> HIDE DEF N, L, R, v
    <3>2. l # q
      BY <1>1, <3>1, ChildOf DEF N
    <3> QED BY <2>2, <3>2 DEF N
  <2>5. q # m
    <3>1. m \in sub[l] /\ l \in {R[q], L[q]}
      <4> HIDE DEF N, L, R
      <4> QED BY <1>1, <2>1, Around, <1>6 DEF N
    <3> HIDE DEF N, L, R, v, m
    <3> QED BY <1>1, <3>1, ChildOf DEF N
  <2> HIDE DEF v, m
  <2>6. Lefts(v)[q] = m
    BY <2>2, <2>4, <2>5, <1>6 DEF Lifted
  <2>7. v.node[q].left # NULL
    BY <2>3, <2>4, <2>6, <2>1, <1>1, NodeFields
  <2>8. Live(u) = N /\ Lifted(N, Rights(v), Lefts(v), Heights(v), Rights(u), Lefts(u), Heights(u), q, m)
    BY <2>2, <2>3, <2>4, <2>6, <2>7, RotateRightLifts
  <2>9. \E new : Shape(u, new)
    BY <2>3, <2>4, RotateRightRearranges DEF Rearranged
  <2> HIDE DEF u, N, L, R, H
  <2>10. AllLevel(N, Rights(u), Lefts(u), Heights(u))
    BY <1>1, <1>4, <1>6, <1>8, <2>1, <2>2, <2>8, DoubleLevels DEF N, m
  <2> QED BY <2>8, <2>9, <2>10, <1>5 DEF u, v
<1> QED BY <1>7, <1>8

\* A node that tips to the right is restored by one rotation, or by two.
LEMMA RestoredLeft ==
  ASSUME NEW t, NEW sub, Shape(t, sub), NEW q \in Live(t), NEW r \in Live(t), r = Rights(t)[q],
         LevelBut(Live(t), Lefts(t), Rights(t), Heights(t), q, Heights(t)[r]),
         Heights(t)[r] = 2 + Heights(t)[Lefts(t)[q]]
  PROVE  /\ Heights(t)[Rights(t)[r]] = 1 + Heights(t)[Lefts(t)[r]] => Levelled(RotateLeft(t, q))
         /\ Heights(t)[Lefts(t)[r]] = 1 + Heights(t)[Rights(t)[r]] =>
              Levelled(RotateLeft(RotateRight(t, r), q))
<1> DEFINE N == Live(t)
           L == Rights(t)
           R == Lefts(t)
           P == Parents(t)
           H == Heights(t)
<1>1. Hung(N, R, L, P, t.root, sub) /\ IsFiniteSet(N) /\ Graded(N, H) /\ N \in SUBSET Nat /\ NULL \notin N
  BY Mirror, HeightsGraded, Addresses DEF Shape
<1>2. L \in [N -> N \cup {NULL}] /\ R \in [N -> N \cup {NULL}]
  BY <1>1 DEF Hung
<1>3. r = t.node[q].right /\ R[r] = t.node[r].left /\ R[r] \in N \cup {NULL} /\ L[r] \in N \cup {NULL} /\ r # NULL
  BY <1>1, <1>2, NodeFields
<1>4. LevelBut(N, R, L, H, q, H[r])
  OBVIOUS
<1>5. ASSUME NEW u, AllLevel(Live(u), Lefts(u), Rights(u), Heights(u))
      PROVE  Levelled(u)
  BY <1>5 DEF Levelled
<1>6. H[r] = 2 + H[R[q]] /\ r = L[q]
  OBVIOUS
<1>7. ASSUME H[L[r]] = 1 + H[R[r]]
      PROVE  Levelled(RotateLeft(t, q))
  <2> DEFINE u == RotateLeft(t, q)
  <2>1. Live(u) = N /\ Lifted(N, R, L, H, Lefts(u), Rights(u), Heights(u), q, r)
    BY <1>3, RotateLeftLifts
  <2>2. \E new : Shape(u, new)
    BY RotateLeftRearranges DEF Rearranged
  <2> HIDE DEF u, N, L, R, H
  <2>3. AllLevel(N, Lefts(u), Rights(u), Heights(u))
    BY <1>1, <1>4, <1>6, <1>7, <2>1, SingleLevels DEF N
  <2> QED BY <2>1, <2>2, <2>3, <1>5 DEF u
<1>8. ASSUME H[R[r]] = 1 + H[L[r]]
      PROVE  Levelled(RotateLeft(RotateRight(t, r), q))
  <2> DEFINE v == RotateRight(t, r)
             u == RotateLeft(v, q)
             m == R[r]
  <2>1. m \in N
    <3>1. H[L[r]] \in Nat /\ H[NULL] = 0
      BY <1>1, <1>3 DEF Graded
    <3> QED BY <3>1, <1>3, <1>8
  <2>2. Live(v) = N /\ Lifted(N, L, R, H, Rights(v), Lefts(v), Heights(v), r, m)
    BY <1>1, <1>3, <2>1, RotateRightLifts
  <2>3. PICK mid : Shape(v, mid)
    BY RotateRightRearranges DEF Rearranged
  <2>4. q # r /\ q \in Live(v)
    <3>1. r \in {R[q], L[q]}
      OBVIOUS
    <3> HIDE DEF N, L, R, v
    <3>2. r # q
      BY <1>1, <3>1, ChildOf DEF N
    <3> QED BY <2>2, <3>2 DEF N
  <2>5. q # m
    <3>1. m \in sub[r] /\ r \in {R[q], L[q]}
      <4> HIDE DEF N, L, R
      <4> QED BY <1>1, <2>1, Around, <1>6 DEF N
    <3> HIDE DEF N, L, R, v, m
    <3> QED BY <1>1, <3>1, ChildOf DEF N
  <2> HIDE DEF v, m
  <2>6. Rights(v)[q] = m
    BY <2>2, <2>4, <2>5, <1>6 DEF Lifted
  <2>7. v.node[q].right # NULL
    BY <2>3, <2>4, <2>6, <2>1, <1>1, NodeFields
  <2>8. Live(u) = N /\ Lifted(N, Lefts(v), Rights(v), Heights(v), Lefts(u), Rights(u), Heights(u), q, m)
    BY <2>2, <2>3, <2>4, <2>6, <2>7, RotateLeftLifts
  <2>9. \E new : Shape(u, new)
    BY <2>3, <2>4, RotateLeftRearranges DEF Rearranged
  <2> HIDE DEF u, N, L, R, H
  <2>10. AllLevel(N, Lefts(u), Rights(u), Heights(u))
    BY <1>1, <1>4, <1>6, <1>8, <2>1, <2>2, <2>8, DoubleLevels DEF N, m
  <2> QED BY <2>8, <2>9, <2>10, <1>5 DEF u, v
<1> QED BY <1>7, <1>8

\* The loop of object_insert has made o's subtree grow up to c: every node but c's
\* parent is level over its children, and c's parent is so if c counts as h high.
\* A c that has grown leans towards o, unless it is o itself.
Growing(t, sub, o, c, h) ==
  LET H == Heights(t)
      l == H[Lefts(t)[c]]
      r == H[Rights(t)[c]]
  IN
  /\ Shape(t, sub) /\ c \in Live(t) /\ o \in sub[c] /\ h \in Nat
  /\ LevelBut(Live(t), Lefts(t), Rights(t), H, c, h)
  /\ Level(H[c], l, r) /\ H[c] \in {h, h + 1}
  /\ H[c] = h + 1 /\ h > 0 => o # c /\ (o < c => l = 1 + r) /\ (c < o => r = 1 + l)

\* The heights after the loop has updated that of q.
LEMMA UpdateHeightFields ==
  ASSUME NEW t, NEW sub, Shape(t, sub), NEW q \in Live(t)
  PROVE  LET s == UpdateHeight(t, q)
             H == Heights(t)
         IN /\ Live(s) = Live(t) /\ Shape(s, sub)
            /\ Lefts(s) = Lefts(t) /\ Rights(s) = Rights(t) /\ Parents(s) = Parents(t)
            /\ Heights(s)[q] = 1 + MaxOf(H[Lefts(t)[q]], H[Rights(t)[q]])
            /\ \A n \in Live(t) \ {q} : Heights(s)[n] = H[n]
<1> DEFINE h == 1 + MaxOf(Height(t, t.node[q].left), Height(t, t.node[q].right))
           s == UpdateHeight(t, q)
           x == [t.node[q] EXCEPT !.height = h]
           H == Heights(t)
<1>1. t \in Trees(Live(t)) /\ t.node[q] \in Nodes
  BY DEF Shape, Trees
<1>2. s = [t EXCEPT !.node = [@ EXCEPT ![q] = x]]
  BY <1>1 DEF UpdateHeight, Trees
<1> HIDE DEF h
<1>3. /\ x.left = t.node[q].left /\ x.right = t.node[q].right
      /\ x.parent = t.node[q].parent /\ x.height = h
  BY <1>1 DEF Nodes
<1> HIDE DEF x
<1>4. DOMAIN s.node = DOMAIN t.node /\ s.node[q] = x /\ \A n \in Live(t) \ {q} : s.node[n] = t.node[n]
  BY <1>1, <1>2 DEF Trees
<1>5. Shape(s, sub)
  BY UpdateHeightRearranges DEF Rearranged
<1> HIDE DEF s
<1>6. Live(s) = Live(t)
  BY <1>4 DEF Live
<1>7. Lefts(s) = Lefts(t) /\ Rights(s) = Rights(t) /\ Parents(s) = Parents(t)
  BY <1>3, <1>4, <1>6 DEF Lefts, Rights, Parents
<1>8. /\ \A n \in Live(t) : Heights(s)[n] = s.node[n].height /\ H[n] = t.node[n].height
      /\ \A n \in Live(t) \cup {NULL} : H[n] = Height(t, n)
  BY <1>5, <1>6, HeightsGraded
<1>9. /\ Lefts(t)[q] = t.node[q].left /\ Rights(t)[q] = t.node[q].right
      /\ Lefts(t)[q] \in Live(t) \cup {NULL} /\ Rights(t)[q] \in Live(t) \cup {NULL}
  BY NodeFields
<1>10. Heights(s)[q] = 1 + MaxOf(H[Lefts(t)[q]], H[Rights(t)[q]])
  <2>1. Heights(s)[q] = h
    BY <1>3, <1>4, <1>8
  <2> HIDE DEF H
  <2>2. H[Lefts(t)[q]] = Height(t, t.node[q].left) /\ H[Rights(t)[q]] = Height(t, t.node[q].right)
    BY <1>8, <1>9
  <2> QED BY <2>1, <2>2 DEF h
<1>11. \A n \in Live(t) \ {q} : Heights(s)[n] = H[n]
  BY <1>4, <1>8
<1> QED BY <1>5, <1>6, <1>7, <1>10, <1>11 DEF s

\* The loop of object_insert climbs from c to its parent q: the growth is passed on,
\* or q is restored and the whole tree is level.
LEMMA GrowthStep ==
  ASSUME NEW t, NEW sub, NEW o, NEW c, NEW h, Growing(t, sub, o, c, h),
         NEW q \in Live(t), Parents(t)[c] = q, NEW s, s = UpdateHeight(t, q)
  PROVE  /\ Balance(s, q) \in -1..1 => \E k : Growing(s, sub, o, q, k)
         /\ Balance(s, q) \notin -1..1 => Levelled(RestoreAfterInsert(s, q, o))
<1> DEFINE N == Live(t)
           L == Lefts(t)
           R == Rights(t)
           P == Parents(t)
           H == Heights(t)
           K == Heights(s)
<1>1. /\ Shape(t, sub) /\ c \in N /\ o \in sub[c] /\ h \in Nat
      /\ Hung(N, L, R, P, t.root, sub) /\ Hung(N, R, L, P, t.root, sub)
      /\ Ordered(L, R, sub, N) /\ IsFiniteSet(N) /\ N \in SUBSET Nat /\ NULL \notin N
      /\ sub[q] \subseteq N /\ q \in Nat /\ c \in Nat
  <2>1. Shape(t, sub) /\ c \in N /\ o \in sub[c] /\ h \in Nat
    BY DEF Growing
  <2>2. /\ Hung(N, L, R, P, t.root, sub) /\ Ordered(L, R, sub, N) /\ IsFiniteSet(N) /\ N \in SUBSET Nat /\ NULL \notin N
    BY <2>1, Addresses DEF Shape
  <2> HIDE DEF L, R, P
  <2>3. Hung(N, R, L, P, t.root, sub) /\ sub[q] \subseteq N
    BY <2>2, Mirror, Around
  <2> QED BY <2>1, <2>2, <2>3
<1>2. /\ LevelBut(N, L, R, H, c, h) /\ Level(H[c], H[L[c]], H[R[c]]) /\ H[c] \in {h, h + 1}
      /\ H[c] = h + 1 /\ h > 0 =>
           o # c /\ (o < c => H[L[c]] = 1 + H[R[c]]) /\ (c < o => H[R[c]] = 1 + H[L[c]])
  BY DEF Growing
<1>3. /\ Live(s) = N /\ Shape(s, sub) /\ Lefts(s) = L /\ Rights(s) = R
      /\ K[q] = 1 + MaxOf(H[L[q]], H[R[q]]) /\ \A n \in N \ {q} : K[n] = H[n]
  <2>1. Shape(t, sub)
    BY <1>1
  <2> QED BY <2>1, UpdateHeightFields
<1>4. Graded(N, H) /\ Graded(N, K)
  BY <1>1, <1>3, HeightsGraded
<1>5. /\ L[q] \in N \cup {NULL} /\ R[q] \in N \cup {NULL} /\ c \in {L[q], R[q]}
      /\ L[c] \in N \cup {NULL} /\ R[c] \in N \cup {NULL}
      /\ L \in [N -> N \cup {NULL}] /\ R \in [N -> N \cup {NULL}]
  BY <1>1 DEF Hung
<1>6. /\ s.node[q].left = L[q] /\ s.node[q].right = R[q]
      /\ Balance(s, q) = K[R[q]] - K[L[q]]
  <2>1. s.node[q].left = Lefts(s)[q] /\ s.node[q].right = Rights(s)[q]
    BY <1>3, NodeFields
  <2>2. \A n \in N \cup {NULL} : K[n] = Height(s, n)
    BY <1>3, HeightsGraded
  <2> HIDE DEF K
  <2> QED BY <2>1, <2>2, <1>3, <1>5 DEF Balance
<1>7. o # q /\ o \in sub[q] /\ o \in N /\ o \in Nat /\ sub[c] \subseteq sub[q]
  <2> HIDE DEF N, L, R, P
  <2>1. q \in N
    BY DEF N
  <2>2. Hung(N, L, R, P, t.root, sub) /\ IsFiniteSet(N) /\ c \in N
    BY <1>1
  <2>3. q \notin sub[c]
    BY <2>1, <2>2, <1>5, Around
  <2>4. c \in sub[q]
    <3>1. c # NULL
      BY <1>1
    <3> QED BY <3>1, <2>1, <2>2, <1>5, Around
  <2>5. sub[c] \subseteq sub[q]
    BY <2>1, <2>2, <2>4, Nested
  <2> QED BY <2>1, <2>3, <2>5, <1>1
<1>8. \A n \in N \cup {NULL} : H[n] \in Nat /\ K[n] \in Nat
  BY <1>4 DEF Graded
<1> HIDE DEF N, L, R, P, H, K
<1>9. CASE c = L[q]
  <2>1. o < q
    BY <1>1, <1>7, <1>9 DEF Ordered, N
  <2>2. K[q] = 1 + MaxOf(H[c], H[R[q]]) /\ q \in N
    BY <1>3, <1>9 DEF N
  <2>3. /\ K[c] = H[c] /\ K[L[c]] = H[L[c]] /\ K[R[c]] = H[R[c]]
        /\ K[R[q]] - K[c] \in -1..1 =>
             /\ LevelBut(N, L, R, K, q, H[q]) /\ Level(K[q], K[c], K[R[q]])
             /\ K[q] \in {H[q], H[q] + 1} /\ (K[q] = H[q] + 1 => K[c] = 1 + K[R[q]])
        /\ K[R[q]] - K[c] \notin -1..1 =>
             /\ K[R[q]] - K[c] < -1 /\ LevelBut(N, L, R, K, q, K[c]) /\ K[c] = 2 + K[R[q]]
             /\ H[c] = h + 1 /\ h > 0
    <3>1. /\ Hung(N, L, R, P, t.root, sub) /\ IsFiniteSet(N) /\ Graded(N, H) /\ Graded(N, K)
          /\ q \in N /\ c \in N /\ c = L[q] /\ h \in Nat /\ LevelBut(N, L, R, H, c, h)
          /\ Level(H[c], H[L[c]], H[R[c]]) /\ H[c] \in {h, h + 1}
          /\ K[q] = 1 + MaxOf(H[c], H[R[q]]) /\ \A n \in N \ {q} : K[n] = H[n]
      BY <1>1, <1>2, <1>3, <1>4, <1>9, <2>2
    <3>2. PassedOn(N, L, R, H, K, q, c, h)
      BY <3>1, GrowthPassed
    <3> QED BY <3>2, <1>9 DEF PassedOn
  <2>4. ASSUME Balance(s, q) \in -1..1 PROVE Growing(s, sub, o, q, H[q])
    <3>1. H[q] \in Nat /\ ~(q < o)
      BY <2>1, <2>2, <1>1, <1>7, <1>8
    <3> QED BY <3>1, <1>3, <1>6, <1>7, <1>9, <2>2, <2>3, <2>4 DEF Growing, K
  <2>5. ASSUME Balance(s, q) \notin -1..1 PROVE Levelled(RestoreAfterInsert(s, q, o))
    <3>1. /\ Balance(s, q) < -1 /\ LevelBut(N, L, R, K, q, K[c]) /\ K[c] = 2 + K[R[q]]
          /\ o # c /\ (o < c => K[L[c]] = 1 + K[R[c]]) /\ (c < o => K[R[c]] = 1 + K[L[c]])
      BY <2>3, <2>5, <1>2, <1>6, <1>9
    <3>2. /\ K[L[c]] = 1 + K[R[c]] => Levelled(RotateRight(s, q))
          /\ K[R[c]] = 1 + K[L[c]] => Levelled(RotateRight(RotateLeft(s, c), q))
      BY <1>1, <1>3, <1>9, <2>2, <3>1, RestoredRight DEF K
    <3>3. RestoreAfterInsert(s, q, o) = IF o < c THEN RotateRight(s, q) ELSE RotateRight(RotateLeft(s, c), q)
      BY <1>6, <1>9, <3>1 DEF RestoreAfterInsert
    <3> QED BY <3>1, <3>2, <3>3, <1>1, <1>7
  <2> QED BY <2>4, <2>5
<1>10. CASE c = R[q]
  <2>1. q < o
    BY <1>1, <1>7, <1>10 DEF Ordered, N
  <2>2. K[q] = 1 + MaxOf(H[c], H[L[q]]) /\ q \in N
    <3>1. H[L[q]] \in Nat /\ H[c] \in Nat
      BY <1>5, <1>8, <1>1
    <3> QED BY <3>1, <1>3, <1>10 DEF N, MaxOf
  <2>3. LevelBut(N, R, L, H, c, h) /\ Level(H[c], H[R[c]], H[L[c]])
    <3>1. LevelBut(N, R, L, H, c, h)
      BY <1>1, <1>2, <1>4, <1>5, LevelMirror
    <3>2. H[c] \in Nat /\ H[R[c]] \in Nat /\ H[L[c]] \in Nat
      BY <1>1, <1>5, <1>8
    <3> QED BY <3>1, <3>2, <1>2 DEF Level, MaxOf
  <2>4. /\ K[c] = H[c] /\ K[L[c]] = H[L[c]] /\ K[R[c]] = H[R[c]]
        /\ K[L[q]] - K[c] \in -1..1 =>
             /\ LevelBut(N, R, L, K, q, H[q]) /\ Level(K[q], K[c], K[L[q]])
             /\ K[q] \in {H[q], H[q] + 1} /\ (K[q] = H[q] + 1 => K[c] = 1 + K[L[q]])
        /\ K[L[q]] - K[c] \notin -1..1 =>
             /\ K[L[q]] - K[c] < -1 /\ LevelBut(N, R, L, K, q, K[c]) /\ K[c] = 2 + K[L[q]]
             /\ H[c] = h + 1 /\ h > 0
    <3>1. /\ Hung(N, R, L, P, t.root, sub) /\ IsFiniteSet(N) /\ Graded(N, H) /\ Graded(N, K)
          /\ q \in N /\ c \in N /\ c = R[q] /\ h \in Nat /\ LevelBut(N, R, L, H, c, h)
          /\ Level(H[c], H[R[c]], H[L[c]]) /\ H[c] \in {h, h + 1}
          /\ K[q] = 1 + MaxOf(H[c], H[L[q]]) /\ \A n \in N \ {q} : K[n] = H[n]
      BY <1>1, <1>2, <1>3, <1>4, <1>10, <2>2, <2>3
    <3>2. PassedOn(N, R, L, H, K, q, c, h)
      BY <3>1, GrowthPassed
    <3> QED BY <3>2, <1>10 DEF PassedOn
  <2>5. \A k \in Nat : LevelBut(N, R, L, K, q, k) => LevelBut(N, L, R, K, q, k)
    BY <1>1, <1>4, <1>5, LevelMirror
  <2>6. K[L[q]] \in Nat /\ K[c] \in Nat /\ K[q] \in Nat /\ H[q] \in Nat
    BY <1>1, <1>5, <1>8, <2>2
  <2>7. Balance(s, q) = K[c] - K[L[q]]
    BY <1>6, <1>10
  <2>8. ASSUME Balance(s, q) \in -1..1 PROVE Growing(s, sub, o, q, H[q])
    <3>1. K[L[q]] - K[c] \in -1..1
      BY <2>6, <2>7, <2>8
    <3>2. ~(o < q)
      BY <2>1, <1>1, <1>7
    <3>3. Level(K[q], K[L[q]], K[c])
      BY <3>1, <2>4, <2>6 DEF Level, MaxOf
    <3>4. LevelBut(N, L, R, K, q, H[q])
      BY <3>1, <2>4, <2>5, <2>6
    <3> QED BY <3>1, <3>2, <3>3, <3>4, <1>3, <1>7, <1>10, <2>2, <2>4, <2>6 DEF Growing, K
  <2>9. ASSUME Balance(s, q) \notin -1..1 PROVE Levelled(RestoreAfterInsert(s, q, o))
    <3>1. K[L[q]] - K[c] \notin -1..1
      BY <2>6, <2>7, <2>9
    <3>2. /\ ~(Balance(s, q) < -1) /\ K[c] = 2 + K[L[q]]
          /\ o # c /\ (o < c => K[L[c]] = 1 + K[R[c]]) /\ (c < o => K[R[c]] = 1 + K[L[c]])
      BY <3>1, <2>4, <2>6, <2>7, <1>2
    <3>3. LevelBut(N, L, R, K, q, K[c])
      BY <3>1, <2>4, <2>5, <2>6
    <3>4. /\ K[R[c]] = 1 + K[L[c]] => Levelled(RotateLeft(s, q))
          /\ K[L[c]] = 1 + K[R[c]] => Levelled(RotateLeft(RotateRight(s, c), q))
      BY <1>1, <1>3, <1>10, <2>2, <3>2, <3>3, RestoredLeft DEF K
    <3>5. RestoreAfterInsert(s, q, o) = IF o > c THEN RotateLeft(s, q) ELSE RotateLeft(RotateRight(s, c), q)
      BY <1>6, <1>10, <3>2 DEF RestoreAfterInsert
    <3> QED BY <3>2, <3>4, <3>5, <1>1, <1>7
  <2> QED BY <2>8, <2>9
<1> QED BY <1>5, <1>9, <1>10

-----------------------------------------------------------------------------
(* object_insert.                                                          *)

\* Every descent ends, so the recursion of Path defines it.
LEMMA PathSteps ==
  ASSUME NEW t, NEW sub, Shape(t, sub), NEW a
  PROVE  \E down : /\ Walks(Live(t), Lefts(t), Rights(t), {n \in Live(t) : a < n}, down)
                   /\ Path(t, a) = down[t.root]
<1> DEFINE N == Live(t)
           L == Lefts(t)
           R == Rights(t)
           D == N \cup {NULL}
           S == Seq(N)
           Body(n, f) == IF n = NULL THEN << >> ELSE <<n>> \o f[IF a < n THEN L[n] ELSE R[n]]
           G == [n \in D |-> [f \in [D -> S] |-> Body(n, f)]]
           down[n \in Live(t) \cup {NULL}] ==
             IF n = NULL THEN << >>
             ELSE <<n>> \o down[IF a < n THEN t.node[n].left ELSE t.node[n].right]
<1>1. /\ NULL \notin N /\ \A n \in N : L[n] \in D /\ R[n] \in D /\ L[n] = t.node[n].left /\ R[n] = t.node[n].right
      /\ t.root \in D /\ IsFiniteSet(N) /\ Hung(N, L, R, Parents(t), t.root, sub)
  <2>1. /\ NULL \notin N /\ t.root \in D /\ IsFiniteSet(N)
        /\ Hung(N, L, R, Parents(t), t.root, sub)
    BY DEF Shape, Hung
  <2> QED BY <2>1, NodeFields
<1>2. ByChildren(N, L, R, D, S, G)
  <2>1. S # {} /\ D \in SUBSET (N \cup {NULL})
    <3>1. << >> \in Seq(N)
      OBVIOUS
    <3> QED BY <3>1
  <2>2. ASSUME NEW n \in D, NEW f \in [D -> S] PROVE Body(n, f) \in S
    <3>1. CASE n = NULL
      BY <3>1
    <3>2. CASE n \in N
      <4> DEFINE c == IF a < n THEN L[n] ELSE R[n]
      <4>1. c \in D /\ n # NULL
        BY <1>1, <3>2
      <4>2. f[c] \in S /\ <<n>> \in S
        BY <4>1, <3>2
      <4> QED BY <4>1, <4>2
    <3> QED BY <3>1, <3>2
  <2>3. G \in [D -> [[D -> S] -> S]]
    BY <2>2
  <2>4. ASSUME NEW n \in D, NEW f \in [D -> S], NEW g \in [D -> S],
               n \in N => \A m \in D : m \in {L[n], R[n]} => f[m] = g[m]
        PROVE  G[n][f] = G[n][g]
    <3>1. CASE n = NULL
      BY <3>1
    <3>2. CASE n \in N
      BY <1>1, <2>4, <3>2
    <3> QED BY <3>1, <3>2
  <2> HIDE DEF G, S, D
  <2> QED BY <2>1, <2>3, <2>4 DEF ByChildren
<1>3. PICK f \in [D -> S] : \A n \in D : f[n] = G[n][f]
  <2> HIDE DEF G, S, D, N, L, R
  <2> QED BY <1>1, <1>2, DownRecursion
<1>4. \A n \in D : f[n] = Body(n, f)
  BY <1>3
<1>5. f = [n \in Live(t) \cup {NULL} |->
             IF n = NULL THEN << >>
             ELSE <<n>> \o f[IF a < n THEN t.node[n].left ELSE t.node[n].right]]
  <2>1. ASSUME NEW n \in D
        PROVE  f[n] = IF n = NULL THEN << >>
                      ELSE <<n>> \o f[IF a < n THEN t.node[n].left ELSE t.node[n].right]
    <3>1. CASE n = NULL
      BY ZenonT(60), <3>1, <1>4
    <3>2. CASE n # NULL
      <4>1. f[n] = <<n>> \o f[IF a < n THEN L[n] ELSE R[n]]
        BY <3>2, <1>4
      <4>2. L[n] = t.node[n].left /\ R[n] = t.node[n].right
        BY <3>2, <1>1
      <4> QED BY ZenonT(60), <3>2, <4>1, <4>2
    <3> QED BY <3>1, <3>2
  <2>2. f = [n \in D |-> f[n]]
    BY ZenonT(60)
  <2> QED BY <2>1, <2>2
<1>6. down = [n \in Live(t) \cup {NULL} |->
             IF n = NULL THEN << >>
             ELSE <<n>> \o down[IF a < n THEN t.node[n].left ELSE t.node[n].right]]
  BY <1>5, ZenonT(60) DEF down
<1>7. Path(t, a) = down[t.root]
  BY ZenonT(60) DEF Path, down
<1> HIDE DEF down
<1>8. \A n \in D : down[n] = Body(n, down)
  BY <1>1, <1>6
<1>9. \A n \in D : down[n] = f[n]
  <2> DEFINE T == {n \in N : down[n] # f[n]}
  <2>1. down[NULL] = f[NULL]
    BY <1>4, <1>8
  <2>2. ASSUME NEW n \in T PROVE L[n] \in T \/ R[n] \in T
    <3> DEFINE c == IF a < n THEN L[n] ELSE R[n]
    <3>1. c \in D /\ n # NULL /\ n \in D
      BY <1>1
    <3>2. down[c] # f[c]
      BY <3>1, <1>4, <1>8
    <3> QED BY <2>1, <3>1, <3>2
  <2>3. T \in SUBSET N
    OBVIOUS
  <2>4. T = {}
    <3> HIDE DEF T, N, L, R
    <3> QED BY <1>1, <2>2, <2>3, DownInduction
  <2> QED BY <2>1, <2>4
<1>10. Walks(N, L, R, {n \in N : a < n}, f)
  <2> DEFINE B == {n \in N : a < n}
  <2>1. \A n \in N : f[n] = <<n>> \o f[IF n \in B THEN L[n] ELSE R[n]]
    BY <1>1, <1>4
  <2>2. f[NULL] = << >>
    BY <1>1, <1>4
  <2> HIDE DEF N, L, R, B
  <2> QED BY <2>1, <2>2 DEF Walks, D, S, B
<1>11. Path(t, a) = f[t.root]
  BY <1>1, <1>7, <1>9
<1> QED BY <1>10, <1>11

\* The blocks N share no byte.
Apart(N) == \A m, n \in N : m < n => End(m) <= n

\* Bounds that agree with those of the children are those of the subtree.
LEMMA BoundsCover ==
  ASSUME NEW t, NEW sub, Shape(t, sub), AllTight(t), Apart(Live(t)), NEW n \in Live(t)
  PROVE  /\ t.node[n].lower \in sub[n] /\ \A m \in sub[n] : t.node[n].lower <= m
         /\ \E m \in sub[n] : t.node[n].upper = End(m)
         /\ \A m \in sub[n] : End(m) <= t.node[n].upper
<1> DEFINE N == Live(t)
           L == Lefts(t)
           R == Rights(t)
           Fit(x) == /\ t.node[x].lower \in sub[x] /\ \A m \in sub[x] : t.node[x].lower <= m
                     /\ \E m \in sub[x] : t.node[x].upper = End(m)
                     /\ \A m \in sub[x] : End(m) <= t.node[x].upper
           T == {x \in N : ~Fit(x)}
<1>1. Hung(N, L, R, Parents(t), t.root, sub) /\ IsFiniteSet(N)
  BY DEF Shape
<1>2. ASSUME NEW x \in N, L[x] \notin T, R[x] \notin T PROVE Fit(x)
  <2> DEFINE l == L[x]
             r == R[x]
             lo == t.node[x].lower
             up == t.node[x].upper
  <2>1. /\ l \in N \cup {NULL} /\ r \in N \cup {NULL} /\ x \in sub[x] /\ sub[NULL] = {}
        /\ sub[x] = {x} \cup sub[l] \cup sub[r] /\ sub[x] \subseteq N
    <3> HIDE DEF N, L, R
    <3> QED BY <1>1, Around
  <2>2. /\ lo = IF l = NULL THEN x ELSE t.node[l].lower
        /\ up = IF r = NULL THEN End(x) ELSE t.node[r].upper
    BY NodeFields DEF Tight, AllTight
  <2>3. /\ \A m \in sub[l] : m < x
        /\ \A m \in sub[r] : x < m
    BY <2>1 DEF Shape, Ordered
  <2>4. (l # NULL => Fit(l)) /\ (r # NULL => Fit(r))
    BY <1>2, <2>1
  <2>5. \A m \in N : m \in Nat /\ End(m) \in Nat /\ m < End(m)
    BY Addresses DEF Shape
  <2> HIDE DEF L, R, l, r, lo, up, Fit
  <2>6. lo \in sub[x] /\ \A m \in sub[x] : lo <= m
    <3>1. CASE l = NULL
      <4>1. lo = x /\ sub[l] = {}
        BY <3>1, <2>1, <2>2
      <4> QED BY <4>1, <2>1, <2>3, <2>5
    <3>2. CASE l # NULL
      <4>1. lo \in sub[l] /\ \A m \in sub[l] : lo <= m
        BY <3>2, <2>2, <2>4 DEF Fit
      <4>2. lo < x /\ lo \in Nat /\ x \in Nat
        BY <4>1, <2>1, <2>3, <2>5
      <4>3. ASSUME NEW m \in sub[x] PROVE lo <= m
        <5>1. m \in Nat /\ (m = x \/ m \in sub[l] \/ x < m)
          BY <2>1, <2>3, <2>5
        <5> QED BY <5>1, <4>1, <4>2
      <4> QED BY <4>1, <4>3, <2>1
    <3> QED BY <3>1, <3>2
  <2>7. (\E m \in sub[x] : up = End(m)) /\ \A m \in sub[x] : End(m) <= up
    <3>0. \A m \in sub[l] : End(m) <= x
      BY <2>1, <2>3 DEF Apart
    <3>1. CASE r = NULL
      <4>1. up = End(x) /\ sub[r] = {}
        BY <3>1, <2>1, <2>2
      <4>2. ASSUME NEW m \in sub[x] PROVE End(m) <= up
        <5>1. End(m) \in Nat /\ x \in Nat /\ End(x) \in Nat /\ x < End(x) /\ (m = x \/ End(m) <= x)
          BY <3>0, <4>1, <2>1, <2>5
        <5> QED BY <5>1, <4>1
      <4> QED BY <4>1, <4>2, <2>1
    <3>2. CASE r # NULL
      <4>1. PICK z \in sub[r] : up = End(z)
        BY <3>2, <2>2, <2>4 DEF Fit
      <4>2. \A m \in sub[r] : End(m) <= up
        BY <3>2, <2>2, <2>4 DEF Fit
      <4>3. /\ z \in Nat /\ x \in Nat /\ End(x) \in Nat /\ End(z) \in Nat
            /\ x < z /\ z < End(z) /\ End(x) <= z /\ z \in sub[x]
        BY <2>1, <2>3, <2>5 DEF Apart
      <4>4. ASSUME NEW m \in sub[x] PROVE End(m) <= up
        <5>1. End(m) \in Nat /\ (m = x \/ m \in sub[r] \/ End(m) <= x)
          BY <3>0, <2>1, <2>5
        <5> QED BY <5>1, <4>1, <4>2, <4>3, <2>5
      <4> QED BY <4>1, <4>3, <4>4
    <3> QED BY <3>1, <3>2
  <2> QED BY <2>6, <2>7 DEF Fit, lo, up
<1>3. T = {}
  <2>1. T \in SUBSET N
    OBVIOUS
  <2>2. \A x \in T : L[x] \in T \/ R[x] \in T
    BY <1>2
  <2> HIDE DEF T, N, L, R
  <2> QED BY <1>1, <2>1, <2>2, DownInduction
<1> QED BY <1>3

\* The tree below the node o, and the blocks the descent for o passes.
LEMMA WidenFields ==
  ASSUME NEW t, t \in Trees(Live(t)), Live(t) \in SUBSET Block, NEW o \in Block
  PROVE  LET w == Widen(t, o)
             Q == ToSet(Path(t, o))
         IN /\ w \in Trees(Live(t)) /\ Live(w) = Live(t) /\ w.root = t.root
            /\ \A n \in Live(t) :
                 /\ w.node[n].left = t.node[n].left /\ w.node[n].right = t.node[n].right
                 /\ w.node[n].parent = t.node[n].parent /\ w.node[n].height = t.node[n].height
                 /\ w.node[n].lower = IF n \in Q /\ o < n THEN MinOf(t.node[n].lower, o) ELSE t.node[n].lower
                 /\ w.node[n].upper = IF n \in Q /\ ~(o < n) THEN MaxOf(t.node[n].upper, End(o))
                                      ELSE t.node[n].upper
<1> DEFINE N == Live(t)
           Q == ToSet(Path(t, o))
           w == Widen(t, o)
           x(n) == IF n \notin Q THEN t.node[n]
                   ELSE IF o < n THEN [t.node[n] EXCEPT !.lower = MinOf(@, o)]
                   ELSE               [t.node[n] EXCEPT !.upper = MaxOf(@, End(o))]
<1>1. \A n \in N : t.node[n] \in Nodes /\ n \in Nat
  BY Addresses DEF Trees
<1>2. o \in Nat /\ End(o) \in Nat
  BY Addresses
<1>3. \A a, b \in Nat : MinOf(a, b) \in Nat /\ MaxOf(a, b) \in Nat
  BY DEF MinOf, MaxOf
<1>4. ASSUME NEW n \in N
      PROVE  /\ x(n) \in Nodes
             /\ x(n).left = t.node[n].left /\ x(n).right = t.node[n].right
             /\ x(n).parent = t.node[n].parent /\ x(n).height = t.node[n].height
             /\ x(n).lower = IF n \in Q /\ o < n THEN MinOf(t.node[n].lower, o) ELSE t.node[n].lower
             /\ x(n).upper = IF n \in Q /\ ~(o < n) THEN MaxOf(t.node[n].upper, End(o))
                                      ELSE t.node[n].upper
  <2> HIDE DEF Q
  <2>1. t.node[n] \in Nodes /\ t.node[n].lower \in Nat /\ t.node[n].upper \in Nat
    BY <1>1 DEF Nodes
  <2>2. CASE n \notin Q
    BY <2>1, <2>2
  <2>3. CASE n \in Q /\ o < n
    <3>1. x(n) = [t.node[n] EXCEPT !.lower = MinOf(t.node[n].lower, o)]
      BY <2>1, <2>3 DEF Nodes
    <3>2. MinOf(t.node[n].lower, o) \in Nat
      BY <2>1, <1>2, <1>3
    <3> QED BY <2>1, <2>3, <3>1, <3>2 DEF Nodes
  <2>4. CASE n \in Q /\ ~(o < n)
    <3>1. x(n) = [t.node[n] EXCEPT !.upper = MaxOf(t.node[n].upper, End(o))]
      BY <2>1, <2>4 DEF Nodes
    <3>2. MaxOf(t.node[n].upper, End(o)) \in Nat
      BY <2>1, <1>2, <1>3
    <3> QED BY <2>1, <2>4, <3>1, <3>2 DEF Nodes
  <2> QED BY <2>2, <2>3, <2>4
<1>5. w = [t EXCEPT !.node = [n \in N |-> x(n)]]
  BY DEF Widen
<1> HIDE DEF Q, x
<1>6. w \in Trees(N) /\ w.root = t.root /\ w.node = [n \in N |-> x(n)]
  BY <1>4, <1>5 DEF Trees
<1>7. Live(w) = N /\ \A n \in N : w.node[n] = x(n)
  BY <1>6 DEF Live
<1> HIDE DEF w
<1> QED BY <1>4, <1>6, <1>7 DEF Q, w

\* The new leaf o has been hung from p, the last node of the descent.
LEMMA AttachFields ==
  ASSUME NEW t, t \in Trees(Live(t)), Live(t) \in SUBSET Block, NEW o \in Block, o \notin Live(t),
         NEW p, p = (IF Path(t, o) = << >> THEN NULL ELSE Last(Path(t, o))), p \in Live(t) \cup {NULL}
  PROVE  LET a == Attach(t, o)
         IN /\ Live(a) = Live(t) \cup {o} /\ a \in Trees(Live(a))
            /\ a.root = IF p = NULL THEN o ELSE t.root
            /\ a.node[o] = NewNode(o, p)
            /\ \A n \in Live(t) :
                 /\ a.node[n].left = IF n = p /\ o < p THEN o ELSE t.node[n].left
                 /\ a.node[n].right = IF n = p /\ ~(o < p) THEN o ELSE t.node[n].right
                 /\ a.node[n].parent = t.node[n].parent /\ a.node[n].height = t.node[n].height
                 /\ a.node[n].lower = t.node[n].lower /\ a.node[n].upper = t.node[n].upper
<1> DEFINE N == Live(t)
           M == N \cup {o}
           s == [t EXCEPT !.node = [n \in M |-> IF n = o THEN NewNode(o, p) ELSE t.node[n]]]
           a == Attach(t, o)
<1>1. NULL \notin M /\ p \in Block \cup {NULL} /\ o # p /\ o \in Nat /\ End(o) \in Nat
  BY Addresses
<1>2. NewNode(o, p) \in Nodes
  BY <1>1 DEF NewNode, Nodes
<1>3. s \in Trees(M) /\ s.root = t.root /\ s.node[o] = NewNode(o, p)
      /\ \A n \in N : s.node[n] = t.node[n] /\ s.node[n] \in Nodes
  BY <1>2 DEF Trees
<1>4. a = IF p = NULL   THEN [s EXCEPT !.root = o]
          ELSE IF o < p THEN [s EXCEPT !.node[p].left = o]
          ELSE               [s EXCEPT !.node[p].right = o]
  BY DEF Attach
<1> HIDE DEF s, a
<1>5. CASE p = NULL
  <2>1. a = [s EXCEPT !.root = o]
    BY <1>4, <1>5
  <2>2. a \in Trees(M) /\ a.root = o /\ a.node = s.node
    BY <2>1, <1>3 DEF Trees
  <2>3. Live(a) = M
    BY <2>2 DEF Trees, Live
  <2>4. \A n \in N : n # p
    BY <1>1, <1>5
  <2> QED BY <2>2, <2>3, <2>4, <1>3, <1>5 DEF a
<1>6. CASE p # NULL /\ o < p
  <2>0. p \in N /\ p \in M
    BY <1>6
  <2> DEFINE x == [s.node[p] EXCEPT !.left = o]
  <2>x. x \in Nodes
    BY <2>0, <1>3 DEF Nodes
  <2>1. a = [s EXCEPT !.node = [@ EXCEPT ![p] = x]]
    BY <1>4, <1>6
  <2> HIDE DEF x
  <2>2. /\ a \in Trees(M) /\ a.root = s.root /\ a.node[o] = s.node[o]
        /\ a.node[p] = x /\ \A n \in M \ {p} : a.node[n] = s.node[n]
    BY <2>0, <2>1, <2>x, <1>1, <1>3 DEF Trees
  <2>3. Live(a) = M
    BY <2>2 DEF Trees, Live
  <2>4. ASSUME NEW n \in N
        PROVE  /\ a.node[n].left = IF n = p THEN o ELSE t.node[n].left
               /\ a.node[n].right = t.node[n].right
               /\ a.node[n].parent = t.node[n].parent /\ a.node[n].height = t.node[n].height
               /\ a.node[n].lower = t.node[n].lower /\ a.node[n].upper = t.node[n].upper
    BY <2>0, <2>2, <1>3, SMTT(30) DEF Nodes, x
  <2> QED BY <2>2, <2>3, <2>4, <1>3, <1>6 DEF a
<1>7. CASE p # NULL /\ ~(o < p)
  <2>0. p \in N /\ p \in M
    BY <1>7
  <2> DEFINE x == [s.node[p] EXCEPT !.right = o]
  <2>x. x \in Nodes
    BY <2>0, <1>3 DEF Nodes
  <2>1. a = [s EXCEPT !.node = [@ EXCEPT ![p] = x]]
    BY <1>4, <1>7
  <2> HIDE DEF x
  <2>2. /\ a \in Trees(M) /\ a.root = s.root /\ a.node[o] = s.node[o]
        /\ a.node[p] = x /\ \A n \in M \ {p} : a.node[n] = s.node[n]
    BY <2>0, <2>1, <2>x, <1>1, <1>3 DEF Trees
  <2>3. Live(a) = M
    BY <2>2 DEF Trees, Live
  <2>4. ASSUME NEW n \in N
        PROVE  /\ a.node[n].right = IF n = p THEN o ELSE t.node[n].right
               /\ a.node[n].left = t.node[n].left
               /\ a.node[n].parent = t.node[n].parent /\ a.node[n].height = t.node[n].height
               /\ a.node[n].lower = t.node[n].lower /\ a.node[n].upper = t.node[n].upper
    BY <2>0, <2>2, <1>3, SMTT(30) DEF Nodes, x
  <2> QED BY <2>2, <2>3, <2>4, <1>3, <1>7 DEF a
<1> QED BY <1>5, <1>6, <1>7

\* A tree of one node.
LEMMA SingleSound ==
  ASSUME NEW o \in Block, NEW a, Live(a) = {o}, a \in Trees({o}), a.root = o, a.node[o] = NewNode(o, NULL)
  PROVE  \E sub : Shape(a, sub) /\ AllTight(a)
<1> DEFINE sub == [n \in {o, NULL} |-> IF n = o THEN {o} ELSE {}]
<1>1. NULL # o
  BY Addresses
<1>2. /\ a.node[o].left = NULL /\ a.node[o].right = NULL /\ a.node[o].parent = NULL
      /\ a.node[o].lower = o /\ a.node[o].upper = End(o)
  BY DEF NewNode
<1>3. Lefts(a)[o] = NULL /\ Rights(a)[o] = NULL /\ Parents(a)[o] = NULL
  BY <1>2 DEF Lefts, Rights, Parents
<1>4. /\ Lefts(a) \in [{o} -> {o, NULL}] /\ Rights(a) \in [{o} -> {o, NULL}] /\ Parents(a) \in [{o} -> {o, NULL}]
  BY <1>2 DEF Lefts, Rights, Parents
<1>5. sub[o] = {o} /\ sub[NULL] = {} /\ sub \in [{o, NULL} -> SUBSET {o}]
  BY <1>1
<1> HIDE DEF sub
<1>6. {o} \cup {NULL} = {o, NULL}
  OBVIOUS
<1>7. Hung({o}, Lefts(a), Rights(a), Parents(a), o, sub)
  BY <1>1, <1>3, <1>4, <1>5, <1>6 DEF Hung
<1>8. Ordered(Lefts(a), Rights(a), sub, {o})
  BY <1>3, <1>5 DEF Ordered
<1>9. IsFiniteSet({o})
  BY FS_Singleton
<1>10. Shape(a, sub)
  BY <1>7, <1>8, <1>9 DEF Shape
<1>11. AllTight(a)
  BY <1>2 DEF AllTight, Tight
<1> QED BY <1>10, <1>11

\* The new leaf o hangs where t had no child; the rest of a is as it was in t.
Hangs(t, a, o) ==
  /\ \A n \in Live(t) : /\ Lefts(a)[n] = Lefts(t)[n] \/ (Lefts(t)[n] = NULL /\ Lefts(a)[n] = o)
                        /\ Rights(a)[n] = Rights(t)[n] \/ (Rights(t)[n] = NULL /\ Rights(a)[n] = o)
                        /\ a.node[n].height = t.node[n].height
  /\ Lefts(a)[o] = NULL /\ Rights(a)[o] = NULL /\ a.node[o].height = 1

\* After the descent the new leaf hangs where it belongs and the bounds agree.
LEMMA AttachSound ==
  ASSUME NEW t, NEW sub, Shape(t, sub), AllTight(t),
         NEW o \in Block, o \notin Live(t), Apart(Live(t) \cup {o})
  PROVE  /\ Live(Attach(Widen(t, o), o)) = Live(t) \cup {o}
         /\ \E new : Shape(Attach(Widen(t, o), o), new) /\ AllTight(Attach(Widen(t, o), o))
         /\ Hangs(t, Attach(Widen(t, o), o), o)
<1> DEFINE N == Live(t)
           M == N \cup {o}
           L == Lefts(t)
           R == Rights(t)
           P == Parents(t)
           B == {n \in N : o < n}
           Q == ToSet(Path(t, o))
           w == Widen(t, o)
           a == Attach(w, o)
<1>1. /\ Hung(N, L, R, P, t.root, sub) /\ Ordered(L, R, sub, N)
      /\ N \in SUBSET Block /\ IsFiniteSet(N) /\ t \in Trees(N)
  BY DEF Shape
<1>2. /\ w \in Trees(N) /\ Live(w) = N /\ w.root = t.root
      /\ \A n \in N :
           /\ w.node[n].left = t.node[n].left /\ w.node[n].right = t.node[n].right
           /\ w.node[n].parent = t.node[n].parent /\ w.node[n].height = t.node[n].height
           /\ w.node[n].lower = IF n \in Q /\ o < n THEN MinOf(t.node[n].lower, o) ELSE t.node[n].lower
           /\ w.node[n].upper = IF n \in Q /\ ~(o < n) THEN MaxOf(t.node[n].upper, End(o)) ELSE t.node[n].upper
  BY <1>1, WidenFields
<1> HIDE DEF w
<1>3. Lefts(w) = L /\ Rights(w) = R /\ Parents(w) = P
  BY <1>2 DEF Lefts, Rights, Parents
<1>4. Shape(w, sub)
  BY <1>1, <1>2, <1>3 DEF Shape
<1>5. PICK down : Walks(N, L, R, B, down) /\ Path(t, o) = down[t.root]
  BY PathSteps
<1>6. Path(w, o) = Path(t, o)
  <2>1. PICK down2 : Walks(N, L, R, B, down2) /\ Path(w, o) = down2[w.root]
    BY <1>2, <1>3, <1>4, PathSteps
  <2>2. down2 = down
    <3> HIDE DEF N, L, R, P, B
    <3> QED BY <1>1, <1>5, <2>1, OneWalk
  <2> QED BY <1>2, <1>5, <2>1, <2>2
<1>7. NULL \notin N /\ NULL \notin M /\ o # NULL /\ o \in Nat /\ N \subseteq Nat
  BY <1>1, Addresses
<1>8. CASE t.root = NULL
  <2>1. N = {}
    BY <1>1, <1>8 DEF Hung
  <2>2. Path(w, o) = << >>
    BY <1>5, <1>6, <1>8 DEF Walks
  <2>3. /\ Live(a) = {o} /\ a \in Trees(Live(a)) /\ a.root = o /\ a.node[o] = NewNode(o, NULL)
    <3>1. w \in Trees(Live(w)) /\ Live(w) \in SUBSET Block /\ o \notin Live(w) /\ Live(w) \cup {o} = {o}
      BY <1>1, <1>2, <2>1
    <3> QED BY <3>1, <2>2, AttachFields
  <2> HIDE DEF a
  <2>4. \E new : Shape(a, new) /\ AllTight(a)
    BY <2>3, SingleSound
  <2>5. Hangs(t, a, o)
    BY <2>1, <2>3 DEF Hangs, NewNode, Lefts, Rights
  <2> QED BY <2>1, <2>3, <2>4, <2>5 DEF a, w
<1>9. CASE t.root # NULL
  <2> DEFINE p == Last(Path(t, o))
             L2 == GraftLink(L, o, p, p \in B)
             R2 == GraftLink(R, o, p, p \notin B)
             new == GraftSub(sub, Q, o)
  <2>1. Path(t, o) # << >> /\ Descent(N, L, R, t.root, Q, B, p)
    <3> HIDE DEF N, L, R, P, B
    <3> QED BY <1>1, <1>5, <1>9, WalkDescends
  <2> HIDE DEF p, Q
  <2>2. /\ Q \in SUBSET N /\ p \in Q /\ p \in N /\ p # NULL
        /\ \A n \in N : /\ L[n] \in Q <=> n \in Q /\ n \in B /\ n # p
                        /\ R[n] \in Q <=> n \in Q /\ n \notin B /\ n # p
        /\ (p \in B => L[p] = NULL) /\ (p \notin B => R[p] = NULL)
    BY <2>1, <1>7 DEF Descent
  <2>3. /\ Live(a) = M /\ a \in Trees(Live(a)) /\ a.root = t.root /\ a.node[o] = NewNode(o, p)
        /\ \A n \in N :
             /\ a.node[n].left = IF n = p /\ o < p THEN o ELSE w.node[n].left
             /\ a.node[n].right = IF n = p /\ ~(o < p) THEN o ELSE w.node[n].right
             /\ a.node[n].parent = w.node[n].parent /\ a.node[n].height = w.node[n].height
             /\ a.node[n].lower = w.node[n].lower /\ a.node[n].upper = w.node[n].upper
    <3>1. /\ p = (IF Path(w, o) = << >> THEN NULL ELSE Last(Path(w, o))) /\ p \in Live(w) \cup {NULL}
          /\ w \in Trees(Live(w)) /\ Live(w) \in SUBSET Block /\ o \notin Live(w)
      BY <1>1, <1>2, <1>6, <2>1, <2>2 DEF p
    <3> HIDE DEF a
    <3>2. /\ Live(a) = Live(w) \cup {o} /\ a \in Trees(Live(a))
          /\ a.root = (IF p = NULL THEN o ELSE w.root)
          /\ a.node[o] = NewNode(o, p)
          /\ \A n \in Live(w) :
               /\ a.node[n].left = IF n = p /\ o < p THEN o ELSE w.node[n].left
               /\ a.node[n].right = IF n = p /\ ~(o < p) THEN o ELSE w.node[n].right
               /\ a.node[n].parent = w.node[n].parent /\ a.node[n].height = w.node[n].height
               /\ a.node[n].lower = w.node[n].lower /\ a.node[n].upper = w.node[n].upper
      BY <3>1, AttachFields DEF a
    <3> QED BY <3>2, <1>2, <2>2
  <2> HIDE DEF a
  <2>4. /\ \A n \in N :
             /\ a.node[n].left = IF n = p /\ p \in B THEN o ELSE L[n]
             /\ a.node[n].right = IF n = p /\ p \notin B THEN o ELSE R[n]
             /\ a.node[n].parent = P[n]
             /\ a.node[n].lower = IF n \in Q /\ n \in B THEN MinOf(t.node[n].lower, o) ELSE t.node[n].lower
             /\ a.node[n].upper = IF n \in Q /\ n \notin B THEN MaxOf(t.node[n].upper, End(o))
                                  ELSE t.node[n].upper
        /\ a.node[o].left = NULL /\ a.node[o].right = NULL /\ a.node[o].parent = p
        /\ a.node[o].lower = o /\ a.node[o].upper = End(o)
    <3>1. \A n \in N : L[n] = t.node[n].left /\ R[n] = t.node[n].right /\ P[n] = t.node[n].parent
      BY DEF Lefts, Rights, Parents
    <3>2. \A n \in N : n \in B <=> o < n
      OBVIOUS
    <3> HIDE DEF L, R, P, B, N
    <3> QED BY <1>2, <2>2, <2>3, <3>1, <3>2 DEF NewNode
  <2>5. /\ Lefts(a) = L2 /\ Rights(a) = R2 /\ Parents(a) = GraftP(P, o, p)
    <3>1. DOMAIN L = N /\ DOMAIN R = N /\ DOMAIN P = N
      BY DEF Lefts, Rights, Parents
    <3> HIDE DEF L, R, P, B, N
    <3>2. Lefts(a) = L2
      BY <2>3, <2>4, <3>1 DEF Lefts, GraftLink
    <3>3. Rights(a) = R2
      BY <2>3, <2>4, <3>1 DEF Rights, GraftLink
    <3>4. Parents(a) = GraftP(P, o, p)
      BY <2>3, <2>4, <3>1 DEF Parents, GraftP
    <3> QED BY <3>2, <3>3, <3>4
  <2>6. Hung(M, L2, R2, GraftP(P, o, p), t.root, new) /\ Ordered(L2, R2, new, M)
    <3>1. \A n \in N : (n \in B => o < n) /\ (n \notin B => n < o)
      BY <1>7
    <3>2. o \notin N
      OBVIOUS
    <3> HIDE DEF L, R, P, B, N
    <3> QED BY <1>1, <1>7, <2>1, <3>1, <3>2, GraftHung
  <2>7. Shape(a, new)
    <3>1. IsFiniteSet(M)
      BY <1>1, FS_AddElement
    <3>2. M \in SUBSET Block
      BY <1>1
    <3> HIDE DEF L, R, P, B, N, L2, R2, new
    <3> QED BY <3>1, <3>2, <2>3, <2>5, <2>6 DEF Shape
  <2>8. ASSUME NEW n \in M PROVE Tight(a, n)
    <3>1. \A m \in N : /\ m \in Nat /\ m # o /\ End(m) \in Nat /\ m < End(m)
                       /\ t.node[m].lower \in Nat /\ t.node[m].upper \in Nat
                       /\ t.node[m].lower <= m /\ End(m) <= t.node[m].upper
                       /\ L[m] \in N \cup {NULL} /\ R[m] \in N \cup {NULL}
                       /\ t.node[m].lower = IF L[m] = NULL THEN m ELSE t.node[L[m]].lower
                       /\ t.node[m].upper = IF R[m] = NULL THEN End(m) ELSE t.node[R[m]].upper
      <4> TAKE m \in N
      <4>1. Apart(Live(t))
        BY DEF Apart
      <4>2. m \in sub[m]
        <5> HIDE DEF N, L, R, P
        <5> QED BY <1>1, Around
      <4>3. t.node[m].lower <= m /\ End(m) <= t.node[m].upper
        BY <4>1, <4>2, BoundsCover
      <4>4. /\ m \in Nat /\ m # o /\ End(m) \in Nat /\ m < End(m)
            /\ t.node[m].lower \in Nat /\ t.node[m].upper \in Nat
            /\ L[m] \in N \cup {NULL} /\ R[m] \in N \cup {NULL}
            /\ L[m] = t.node[m].left /\ R[m] = t.node[m].right
        BY Addresses, NodeFields
      <4>5. Tight(t, m)
        BY DEF AllTight
      <4> QED BY <4>3, <4>4, <4>5 DEF Tight
    <3>2. /\ End(o) \in Nat /\ o \in Nat /\ o < End(o)
          /\ \A m \in N : (m \in B => o < m /\ End(o) <= m) /\ (m \notin B => m < o /\ End(m) <= o)
      <4>1. End(o) \in Nat /\ o \in Nat /\ o < End(o)
        BY Addresses
      <4>2. \A m \in N : (o < m => End(o) <= m) /\ (m < o => End(m) <= o)
        <5>1. \A m \in N : m \in M /\ o \in M
          OBVIOUS
        <5>2. Apart(M)
          OBVIOUS
        <5> HIDE DEF N, M
        <5> QED BY <5>1, <5>2 DEF Apart
      <4>3. \A m \in N : (m \in B <=> o < m) /\ (~(o < m) => m < o)
        BY <4>1, <3>1
      <4> QED BY <4>1, <4>2, <4>3
    <3> HIDE DEF L, R, P, B, N
    <3>3. CASE n = o
      BY <3>3, <2>4 DEF Tight
    <3>4. CASE n \in N
      <4>1. a.node[n].lower = IF a.node[n].left = NULL THEN n ELSE a.node[a.node[n].left].lower
        <5>1. CASE n = p /\ p \in B
          <6>1. /\ a.node[n].left = o /\ a.node[n].lower = MinOf(t.node[n].lower, o)
                /\ t.node[n].lower = n /\ o < n /\ n \in Nat
            BY <5>1, <3>1, <3>2, <2>2, <2>4
          <6> QED BY <6>1, <3>2, <2>4, <1>7 DEF MinOf
        <5>2. CASE n # p \/ p \notin B
          <6> DEFINE l == L[n]
          <6>1. /\ a.node[n].left = l /\ l \in N \cup {NULL}
                /\ l \in Q <=> n \in Q /\ n \in B /\ n # p
            BY <5>2, <3>1, <3>4, <2>2, <2>4
          <6>2. t.node[n].lower = IF l = NULL THEN n ELSE t.node[l].lower
            BY <3>1, <3>4
          <6>3. CASE l = NULL
            <7>1. n \notin Q \/ n \notin B
              <8>1. n = p => n \notin B
                BY <5>2
              <8>2. l \notin Q
                BY <6>3, <2>2, <1>7
              <8> QED BY <8>1, <8>2, <6>1
            <7>2. a.node[n].lower = t.node[n].lower
              BY <7>1, <3>4, <2>4
            <7> QED BY <7>2, <6>1, <6>2, <6>3
          <6>4. CASE l # NULL /\ l \notin Q
            <7>1. n \notin Q \/ n \notin B
              BY <5>2, <6>1, <6>4
            <7>2. a.node[n].lower = t.node[n].lower /\ a.node[l].lower = t.node[l].lower
              BY <7>1, <3>4, <6>1, <6>4, <2>4
            <7> QED BY <7>2, <6>1, <6>2, <6>4
          <6>5. CASE l # NULL /\ l \in Q /\ l \in B
            <7>1. /\ a.node[n].lower = MinOf(t.node[n].lower, o) /\ a.node[l].lower = MinOf(t.node[l].lower, o)
              BY <3>4, <6>1, <6>5, <2>4
            <7> QED BY <7>1, <6>1, <6>2, <6>5
          <6>6. CASE l # NULL /\ l \in Q /\ l \notin B
            <7>1. /\ a.node[n].lower = MinOf(t.node[n].lower, o) /\ a.node[l].lower = t.node[l].lower
              BY <3>4, <6>1, <6>6, <2>4
            <7>2. t.node[l].lower <= l /\ l < o /\ l \in Nat /\ t.node[l].lower \in Nat
              BY <6>1, <6>6, <3>1, <3>2
            <7>3. MinOf(t.node[l].lower, o) = t.node[l].lower
              BY <7>2, <3>2 DEF MinOf
            <7> QED BY <7>1, <7>3, <6>1, <6>2, <6>6
          <6> QED BY <6>3, <6>4, <6>5, <6>6
        <5> QED BY <5>1, <5>2
      <4>2. a.node[n].upper = IF a.node[n].right = NULL THEN End(n) ELSE a.node[a.node[n].right].upper
        <5>1. CASE n = p /\ p \notin B
          <6>1. /\ a.node[n].right = o /\ a.node[n].upper = MaxOf(t.node[n].upper, End(o))
                /\ t.node[n].upper = End(n) /\ End(n) <= o /\ End(n) \in Nat
            BY <5>1, <3>1, <3>2, <2>2, <2>4
          <6> QED BY <6>1, <3>2, <2>4, <1>7 DEF MaxOf
        <5>2. CASE n # p \/ p \in B
          <6> DEFINE r == R[n]
          <6>1. /\ a.node[n].right = r /\ r \in N \cup {NULL}
                /\ r \in Q <=> n \in Q /\ n \notin B /\ n # p
            BY <5>2, <3>1, <3>4, <2>2, <2>4
          <6>2. t.node[n].upper = IF r = NULL THEN End(n) ELSE t.node[r].upper
            BY <3>1, <3>4
          <6>3. CASE r = NULL
            <7>1. n \notin Q \/ n \in B
              <8>1. n = p => n \in B
                BY <5>2
              <8>2. r \notin Q
                BY <6>3, <2>2, <1>7
              <8> QED BY <8>1, <8>2, <6>1
            <7>2. a.node[n].upper = t.node[n].upper
              BY <7>1, <3>4, <2>4
            <7> QED BY <7>2, <6>1, <6>2, <6>3
          <6>4. CASE r # NULL /\ r \notin Q
            <7>1. n \notin Q \/ n \in B
              BY <5>2, <6>1, <6>4
            <7>2. a.node[n].upper = t.node[n].upper /\ a.node[r].upper = t.node[r].upper
              BY <7>1, <3>4, <6>1, <6>4, <2>4
            <7> QED BY <7>2, <6>1, <6>2, <6>4
          <6>5. CASE r # NULL /\ r \in Q /\ r \notin B
            <7>1. /\ a.node[n].upper = MaxOf(t.node[n].upper, End(o))
                  /\ a.node[r].upper = MaxOf(t.node[r].upper, End(o))
              BY <3>4, <6>1, <6>5, <2>4
            <7> QED BY <7>1, <6>1, <6>2, <6>5
          <6>6. CASE r # NULL /\ r \in Q /\ r \in B
            <7>1. /\ a.node[n].upper = MaxOf(t.node[n].upper, End(o)) /\ a.node[r].upper = t.node[r].upper
              BY <3>4, <6>1, <6>6, <2>4
            <7>2. /\ End(o) <= r /\ r < End(r) /\ End(r) <= t.node[r].upper
                  /\ r \in Nat /\ End(r) \in Nat /\ t.node[r].upper \in Nat
              BY <6>1, <6>6, <3>1, <3>2
            <7>3. MaxOf(t.node[r].upper, End(o)) = t.node[r].upper
              BY <7>2, <3>2 DEF MaxOf
            <7> QED BY <7>1, <7>3, <6>1, <6>2, <6>6
          <6> QED BY <6>3, <6>4, <6>5, <6>6
        <5> QED BY <5>1, <5>2
      <4> QED BY <4>1, <4>2 DEF Tight
    <3>5. n = o \/ n \in N
      OBVIOUS
    <3> QED BY <3>3, <3>4, <3>5
  <2>9. AllTight(a)
    BY <2>3, <2>8 DEF AllTight
  <2>10. Hangs(t, a, o)
    <3>1. \A n \in N : a.node[n].height = t.node[n].height
      BY <1>2, <2>3
    <3>2. a.node[o].height = 1
      BY <2>3 DEF NewNode
    <3>3. \A n \in N : Lefts(a)[n] = a.node[n].left /\ Rights(a)[n] = a.node[n].right
      BY <2>3 DEF Lefts, Rights
    <3>4. Lefts(a)[o] = NULL /\ Rights(a)[o] = NULL
      BY <2>3, <2>4 DEF Lefts, Rights
    <3> HIDE DEF L, R, P, B
    <3> QED BY <2>2, <2>4, <3>1, <3>2, <3>3, <3>4 DEF Hangs, N, L, R
  <2> QED BY <2>3, <2>7, <2>9, <2>10 DEF a, w
<1> QED BY <1>8, <1>9

-----------------------------------------------------------------------------
(* The loops that climb to the root.                                       *)

\* The recursion of Ancestors defines it.
LEMMA AncestorsSteps ==
  ASSUME NEW t, NEW sub, Shape(t, sub), NEW p
  PROVE  \E up : Climbs(Live(t), Parents(t), up) /\ Ancestors(t, p) = up[p]
<1> DEFINE N == Live(t)
           P == Parents(t)
           D == N \cup {NULL}
           S == Seq(N)
           Body(n, f) == IF n = NULL THEN << >> ELSE <<n>> \o f[P[n]]
           G == [n \in D |-> [f \in [D -> S] |-> Body(n, f)]]
           up[n \in Live(t) \cup {NULL}] ==
             IF n = NULL THEN << >> ELSE <<n>> \o up[t.node[n].parent]
<1>1. /\ NULL \notin N /\ \A n \in N : P[n] \in D /\ P[n] = t.node[n].parent
      /\ IsFiniteSet(N) /\ Hung(N, Lefts(t), Rights(t), P, t.root, sub)
  <2>1. NULL \notin N /\ IsFiniteSet(N) /\ Hung(N, Lefts(t), Rights(t), P, t.root, sub)
    BY DEF Shape, Hung
  <2> QED BY <2>1, NodeFields
<1>2. ByParent(N, P, D, S, G)
  <2>1. S # {}
    <3>1. << >> \in Seq(N)
      OBVIOUS
    <3> QED BY <3>1
  <2>2. ASSUME NEW n \in D, NEW f \in [D -> S] PROVE Body(n, f) \in S
    <3>1. CASE n = NULL
      BY <3>1
    <3>2. CASE n \in N
      <4>1. P[n] \in D /\ n # NULL
        BY <1>1, <3>2
      <4>2. f[P[n]] \in S /\ <<n>> \in S
        BY <4>1, <3>2
      <4> QED BY <4>1, <4>2
    <3> QED BY <3>1, <3>2
  <2>3. G \in [D -> [[D -> S] -> S]]
    BY <2>2
  <2>4. ASSUME NEW n \in D, NEW f \in [D -> S], NEW g \in [D -> S], n \in N => f[P[n]] = g[P[n]]
        PROVE  G[n][f] = G[n][g]
    <3>1. CASE n = NULL
      BY <3>1
    <3>2. CASE n \in N
      BY <2>4, <3>2
    <3> QED BY <3>1, <3>2
  <2> HIDE DEF G, S
  <2> QED BY <2>1, <2>3, <2>4 DEF ByParent
<1>3. PICK f \in [D -> S] : \A n \in D : f[n] = G[n][f]
  <2>1. IsFiniteSet(N) /\ Hung(N, Lefts(t), Rights(t), P, t.root, sub)
    BY <1>1
  <2> HIDE DEF G, S, N, P, D
  <2> QED BY <2>1, <1>2, UpRecursion
<1>4. \A n \in D : f[n] = Body(n, f)
  BY <1>3
<1>5. f = [n \in Live(t) \cup {NULL} |->
             IF n = NULL THEN << >> ELSE <<n>> \o f[t.node[n].parent]]
  <2>1. ASSUME NEW n \in D
        PROVE  f[n] = IF n = NULL THEN << >> ELSE <<n>> \o f[t.node[n].parent]
    BY <1>1, <1>4, ZenonT(60)
  <2>2. f = [n \in D |-> f[n]]
    OBVIOUS
  <2> QED BY <2>1, <2>2
<1>6. up = [n \in Live(t) \cup {NULL} |->
             IF n = NULL THEN << >> ELSE <<n>> \o up[t.node[n].parent]]
  BY <1>5, ZenonT(60) DEF up
<1>7. Ancestors(t, p) = up[p]
  BY DEF Ancestors, up
<1> HIDE DEF up
<1>8. \A n \in D : up[n] = Body(n, up)
  BY <1>1, <1>6
<1>9. \A n \in D : up[n] = f[n]
  <2> DEFINE T == {n \in N : up[n] # f[n]}
  <2>1. up[NULL] = f[NULL]
    BY <1>4, <1>8
  <2>2. ASSUME NEW n \in T PROVE P[n] \in T
    <3>1. P[n] \in D /\ n # NULL /\ n \in D
      BY <1>1
    <3>2. up[P[n]] # f[P[n]]
      BY <3>1, <1>4, <1>8
    <3> QED BY <2>1, <3>1, <3>2
  <2>3. T \in SUBSET N
    OBVIOUS
  <2>4. T = {}
    <3> HIDE DEF T, N, P
    <3> QED BY <1>1, <2>2, <2>3, UpInduction, ZenonT(60)
  <2> QED BY <2>1, <2>4
<1>10. up = f
  <2>1. f = [n \in D |-> f[n]]
    OBVIOUS
  <2>2. up = [n \in D |-> up[n]]
    BY <1>1, <1>6
  <2> QED BY <2>1, <2>2, <1>9
<1>11. Climbs(N, P, f)
  <2>1. f[NULL] = << >> /\ \A n \in N : f[n] = <<n>> \o f[P[n]]
    BY <1>1, <1>4
  <2> HIDE DEF N, P
  <2> QED BY <2>1 DEF Climbs
<1> QED BY <1>7, <1>10, <1>11

\* The rounds of the loop that climbs after an insertion.
InsertRounds(t, o, chain, after) ==
  /\ after[0] = [tree |-> t, done |-> FALSE]
  /\ \A k \in 1..Len(chain) : after[k] = InsertStep(after[k - 1], chain[k], o)
  /\ RebalanceAfterInsert(t, o) = after[Len(chain)].tree

\* The loop goes through every ancestor of the new node.
LEMMA InsertLoop ==
  ASSUME NEW t, NEW sub, Shape(t, sub), NEW o \in Live(t)
  PROVE  /\ Ancestors(t, t.node[o].parent) \in Seq(Live(t))
         /\ \E after : InsertRounds(t, o, Ancestors(t, t.node[o].parent), after)
<1> DEFINE chain == Ancestors(t, t.node[o].parent)
           c == Len(chain)
           start == [tree |-> t, done |-> FALSE]
           Next1(f, k) == IF k = 0 THEN start ELSE InsertStep(f[k - 1], chain[k], o)
           after[k \in 0..Len(chain)] ==
             IF k = 0 THEN [tree |-> t, done |-> FALSE] ELSE InsertStep(after[k - 1], chain[k], o)
<1>1. chain \in Seq(Live(t)) /\ c \in Nat /\ \A k \in 1..c : chain[k] \in Live(t)
  <2>2. PICK up : Climbs(Live(t), Parents(t), up) /\ chain = up[t.node[o].parent]
    BY AncestorsSteps
  <2>3. t.node[o].parent \in Live(t) \cup {NULL}
    BY NodeFields
  <2>4. chain \in Seq(Live(t))
    BY <2>2, <2>3 DEF Climbs
  <2> QED BY <2>4
<1>2. RebalanceAfterInsert(t, o) = after[c].tree
  BY DEF RebalanceAfterInsert, after
<1> HIDE DEF chain, c, start
<1>3. \E f : f = [k \in 0..c |-> Next1(f, k)]
  <2> DEFINE T == {m \in 0..c : \E f : f = [k \in 0..m |-> Next1(f, k)]}
  <2>1. 0 \in T
    <3> DEFINE f == [k \in 0..0 |-> start]
    <3>1. \A k \in 0..0 : f[k] = Next1(f, k)
      OBVIOUS
    <3>2. f = [k \in 0..0 |-> f[k]]
      OBVIOUS
    <3>3. f = [k \in 0..0 |-> Next1(f, k)]
      <4> HIDE DEF f
      <4> QED BY <3>1, <3>2
    <3>4. \E g : g = [k \in 0..0 |-> Next1(g, k)]
      <4> HIDE DEF f, Next1
      <4> QED BY <3>3
    <3>5. 0 \in 0..c
      BY <1>1
    <3> QED BY <3>4, <3>5
  <2>2. ASSUME NEW m \in T, m < c PROVE m + 1 \in T
    <3>1. PICK f : f = [k \in 0..m |-> Next1(f, k)]
      OBVIOUS
    <3> DEFINE g == [k \in 0..(m + 1) |-> IF k = m + 1 THEN Next1(f, k) ELSE f[k]]
    <3>2. m \in Nat /\ m + 1 \in 0..c
      BY <2>2, <1>1
    <3>3. ASSUME NEW k \in 0..(m + 1) PROVE g[k] = Next1(g, k)
      <4>1. CASE k = m + 1
        <5>1. k # 0 /\ k - 1 = m /\ g[k - 1] = f[m]
          BY <3>2, <4>1
        <5> QED BY <5>1, <4>1
      <4>2. CASE k # m + 1 /\ k # 0
        <5>1. k \in 0..m /\ k - 1 \in 0..m
          BY <3>2, <4>2
        <5>2. g[k - 1] = f[k - 1] /\ g[k] = f[k] /\ f[k] = Next1(f, k)
          BY <5>1, <3>1, <3>2
        <5> HIDE DEF g
        <5> QED BY <5>2, <4>2
      <4>3. CASE k = 0
        <5>1. 0 \in 0..m /\ 0 # m + 1
          BY <3>2
        <5>2. g[k] = f[0] /\ f[0] = start
          BY <5>1, <4>3, <3>1
        <5> QED BY <5>2, <4>3
      <4> QED BY <4>1, <4>2, <4>3
    <3>4. g = [k \in 0..(m + 1) |-> g[k]]
      OBVIOUS
    <3>5. g = [k \in 0..(m + 1) |-> Next1(g, k)]
      <4> HIDE DEF g
      <4> QED BY <3>3, <3>4
    <3> QED BY <3>2, <3>5
  <2>3. T = 0..c
    <3>1. T \in SUBSET (0..c)
      OBVIOUS
    <3> HIDE DEF T
    <3> QED BY <1>1, <2>1, <2>2, <3>1, UpTo
  <2>4. c \in T
    BY <2>3, <1>1
  <2> QED BY <2>4
<1>4. after = [k \in 0..Len(chain) |->
                IF k = 0 THEN [tree |-> t, done |-> FALSE] ELSE InsertStep(after[k - 1], chain[k], o)]
  BY <1>3 DEF after, c, start
<1> HIDE DEF after
<1>4a. after = [k \in 0..c |-> IF k = 0 THEN start ELSE InsertStep(after[k - 1], chain[k], o)]
  BY <1>4 DEF c, start
<1>5. after[0] = start /\ \A k \in 1..c : after[k] = InsertStep(after[k - 1], chain[k], o)
  <2>1. 0 \in 0..c /\ \A k \in 1..c : k \in 0..c /\ k # 0
    BY <1>1
  <2> QED BY <2>1, <1>4a
<1> QED BY <1>1, <1>2, <1>5 DEF InsertRounds, chain, c, start

\* The loop of object_insert keeps the index sound, and every object in it.
LEMMA RebalanceAfterInsertSound ==
  ASSUME NEW t, Sound(t), NEW o \in Live(t)
  PROVE  Sound(RebalanceAfterInsert(t, o)) /\ Live(RebalanceAfterInsert(t, o)) = Live(t)
<1> DEFINE chain == Ancestors(t, t.node[o].parent)
           c == Len(chain)
           start == [tree |-> t, done |-> FALSE]
<1>1. chain \in Seq(Live(t)) /\ c \in Nat /\ \A k \in 1..c : chain[k] \in Live(t)
  <2>1. chain \in Seq(Live(t))
    BY InsertLoop DEF Sound
  <2> QED BY <2>1
<1>2. PICK after : InsertRounds(t, o, chain, after)
  BY InsertLoop DEF Sound
<1>3. RebalanceAfterInsert(t, o) = after[c].tree
  BY <1>2 DEF InsertRounds
<1>5. after[0] = start /\ \A k \in 1..c : after[k] = InsertStep(after[k - 1], chain[k], o)
  BY <1>2 DEF InsertRounds
<1> HIDE DEF chain, c, start
<1> DEFINE T == {k \in 0..c : Sound(after[k].tree) /\ Live(after[k].tree) = Live(t)}
<1>6. 0 \in T
  BY <1>1, <1>5 DEF start
<1>7. ASSUME NEW k \in T, k < c PROVE k + 1 \in T
  <2>1. /\ k + 1 \in 1..c /\ k + 1 \in 0..c /\ (k + 1) - 1 = k /\ chain[k + 1] \in Live(t)
    BY <1>1, <1>7
  <2>2. after[k + 1] = InsertStep(after[k], chain[k + 1], o)
    BY <1>5, <2>1
  <2> QED BY <2>1, <2>2, InsertStepSound
<1>8. T = 0..c
  <2>1. T \in SUBSET (0..c)
    OBVIOUS
  <2> HIDE DEF T
  <2> QED BY <1>1, <1>6, <1>7, <2>1, UpTo
<1>9. c \in T
  BY <1>1, <1>8
<1> QED BY <1>3, <1>9

\* An insertion keeps the tree a search tree with exact bounds.
LEMMA InsertSound ==
  ASSUME NEW t, Sound(t), NEW o \in Block, o \notin Live(t), Apart(Live(t) \cup {o})
  PROVE  Sound(InsertObject(t, o)) /\ Live(InsertObject(t, o)) = Live(t) \cup {o}
<1> DEFINE a == Attach(Widen(t, o), o)
<1>1. PICK sub : Shape(t, sub) /\ AllTight(t)
  BY DEF Sound
<1>2. Live(a) = Live(t) \cup {o} /\ Sound(a)
  BY <1>1, AttachSound DEF Sound
<1> HIDE DEF a
<1>3. Sound(RebalanceAfterInsert(a, o)) /\ Live(RebalanceAfterInsert(a, o)) = Live(a)
  BY <1>2, RebalanceAfterInsertSound
<1> QED BY <1>2, <1>3 DEF InsertObject, a

\* The AVL property in terms of the children's heights.
LEMMA LevelledNodes ==
  ASSUME NEW t, NEW sub, Shape(t, sub)
  PROVE  Levelled(t) <=>
           /\ \A n \in Live(t) :
                t.node[n].height = 1 + MaxOf(Height(t, t.node[n].left), Height(t, t.node[n].right))
           /\ \A n \in Live(t) : Balance(t, n) \in -1..1
<1> DEFINE H == Heights(t)
<1>1. ASSUME NEW n \in Live(t)
      PROVE  /\ t.node[n].height = H[n] /\ H[n] \in Nat
             /\ Height(t, t.node[n].left) = H[Lefts(t)[n]] /\ H[Lefts(t)[n]] \in Nat
             /\ Height(t, t.node[n].right) = H[Rights(t)[n]] /\ H[Rights(t)[n]] \in Nat
  <2>1. /\ t.node[n].left \in Live(t) \cup {NULL} /\ t.node[n].left = Lefts(t)[n]
        /\ t.node[n].right \in Live(t) \cup {NULL} /\ t.node[n].right = Rights(t)[n]
    BY NodeFields
  <2>2. /\ \A m \in Live(t) : H[m] = t.node[m].height
        /\ \A m \in Live(t) \cup {NULL} : H[m] = Height(t, m) /\ H[m] \in Nat
    BY HeightsGraded DEF Graded
  <2> HIDE DEF H
  <2> QED BY <2>1, <2>2
<1> HIDE DEF H
<1>2. ASSUME NEW n \in Live(t)
      PROVE  Level(H[n], H[Lefts(t)[n]], H[Rights(t)[n]]) <=>
               /\ t.node[n].height = 1 + MaxOf(Height(t, t.node[n].left), Height(t, t.node[n].right))
               /\ Balance(t, n) \in -1..1
  BY <1>1 DEF Balance, Level
<1> QED BY <1>2 DEF Levelled, AllLevel, H

\* Restoring one node is enough: when the new node is all that keeps the tree from
\* being level, the loop leaves it level.
LEMMA RebalanceLevels ==
  ASSUME NEW t, NEW sub, Shape(t, sub), NEW o \in Live(t), Growing(t, sub, o, o, 0)
  PROVE  Levelled(RebalanceAfterInsert(t, o))
<1> DEFINE N == Live(t)
           P == Parents(t)
           chain == Ancestors(t, t.node[o].parent)
           c == Len(chain)
           w == <<o>> \o chain
<1>1. /\ Hung(N, Lefts(t), Rights(t), P, t.root, sub) /\ IsFiniteSet(N) /\ NULL \notin N
      /\ t.node[o].parent = P[o]
  BY NodeFields, Addresses DEF Shape
<1>2. chain \in Seq(N)
  BY InsertLoop
<1>3. PICK after : InsertRounds(t, o, chain, after)
  BY InsertLoop
<1>4. PICK up : Climbs(N, P, up) /\ chain = up[P[o]]
  BY <1>1, AncestorsSteps
<1>5. w = up[o]
  BY <1>4 DEF Climbs
<1> HIDE DEF chain
<1>6. /\ w \in Seq(N) /\ Len(w) = c + 1 /\ c \in Nat /\ w[1] = o
      /\ \A k \in 1..c : w[k + 1] = chain[k] /\ chain[k] \in N
  BY <1>2
<1> HIDE DEF c, w
<1>7. \A i \in 1..(c + 1) : P[w[i]] = IF i = c + 1 THEN NULL ELSE w[i + 1]
  <2>1. \A i \in 1..Len(up[o]) : P[up[o][i]] = IF i = Len(up[o]) THEN NULL ELSE up[o][i + 1]
    <3> HIDE DEF N, P
    <3> QED BY <1>1, <1>4, Climb DEF N
  <2> QED BY <2>1, <1>5, <1>6
<1> DEFINE Good(k) == IF after[k].done THEN Levelled(after[k].tree)
                      ELSE /\ Live(after[k].tree) = N /\ Parents(after[k].tree) = P
                           /\ \E h : Growing(after[k].tree, sub, o, w[k + 1], h)
           T == {k \in 0..c : Good(k)}
<1>8. 0 \in T
  <2>1. after[0].tree = t /\ after[0].done = FALSE
    BY <1>3 DEF InsertRounds
  <2>2. Good(0)
    BY <2>1, <1>6
  <2> QED BY <2>2, <1>6
<1>9. ASSUME NEW k \in T, k < c PROVE k + 1 \in T
  <2> DEFINE u == after[k].tree
             q == chain[k + 1]
             s == UpdateHeight(u, q)
  <2>1. /\ k \in Nat /\ k + 1 \in 1..c /\ k + 1 \in 0..c /\ (k + 1) - 1 = k /\ k + 1 \in 1..(c + 1) /\ k + 1 # c + 1
        /\ Good(k)
    BY <1>6, <1>9
  <2>2. after[k + 1] = InsertStep(after[k], q, o)
    BY <2>1, <1>3 DEF InsertRounds, c
  <2>3. q \in N /\ w[(k + 1) + 1] = q /\ P[w[k + 1]] = q
    BY <2>1, <1>6, <1>7
  <2> HIDE DEF q, T
  <2>4. CASE after[k].done
    <3>1. after[k + 1] = after[k]
      BY <2>2, <2>4 DEF InsertStep
    <3> QED BY <3>1, <2>1, <2>4 DEF T
  <2>5. CASE ~after[k].done
    <3>1. Live(u) = N /\ Parents(u) = P
      BY <2>1, <2>5
    <3>2. PICK h : Growing(u, sub, o, w[k + 1], h)
      BY <2>1, <2>5
    <3> HIDE DEF u, N, P, Good
    <3>3. /\ Balance(s, q) \in -1..1 => \E j : Growing(s, sub, o, q, j)
          /\ Balance(s, q) \notin -1..1 => Levelled(RestoreAfterInsert(s, q, o))
      BY <2>3, <3>1, <3>2, GrowthStep
    <3>4. Live(s) = N /\ Parents(s) = P
      <4>1. Shape(u, sub) /\ q \in Live(u)
        BY <2>3, <3>1, <3>2 DEF Growing
      <4> QED BY <4>1, <3>1, UpdateHeightFields
    <3> HIDE DEF s
    <3>5. CASE Balance(s, q) \in -1..1
      <4>1. after[k + 1] = [tree |-> s, done |-> FALSE]
        BY <2>2, <2>5, <3>5 DEF InsertStep, s, u
      <4>2. Good(k + 1)
        BY <4>1, <3>3, <3>4, <3>5, <2>3 DEF Good
      <4> QED BY <4>2, <2>1 DEF T
    <3>6. CASE Balance(s, q) \notin -1..1
      <4>1. after[k + 1] = [tree |-> RestoreAfterInsert(s, q, o), done |-> TRUE]
        BY <2>2, <2>5, <3>6 DEF InsertStep, s, u
      <4>2. Good(k + 1)
        BY <4>1, <3>3, <3>6 DEF Good
      <4> QED BY <4>2, <2>1 DEF T
    <3> QED BY <3>5, <3>6
  <2> QED BY <2>4, <2>5
<1>10. Good(c)
  <2>1. T \in SUBSET (0..c)
    OBVIOUS
  <2>2. c \in T
    <3> HIDE DEF T
    <3>1. T = 0..c
      BY <1>6, <1>8, <1>9, <2>1, UpTo
    <3> QED BY <3>1, <1>6
  <2> QED BY <2>2
<1>11. RebalanceAfterInsert(t, o) = after[c].tree
  BY <1>3 DEF InsertRounds, c
<1>12. CASE after[c].done
  BY <1>10, <1>11, <1>12
<1>13. CASE ~after[c].done
  <2> DEFINE u == after[c].tree
             x == w[c + 1]
  <2>1. PICK h : Growing(u, sub, o, x, h)
    BY <1>10, <1>13
  <2>2. Live(u) = N /\ Parents(u) = P /\ P[x] = NULL
    BY <1>6, <1>7, <1>10, <1>13
  <2> HIDE DEF u, x
  <2>3. /\ Shape(u, sub) /\ x \in Live(u)
        /\ LevelBut(Live(u), Lefts(u), Rights(u), Heights(u), x, h)
        /\ Level(Heights(u)[x], Heights(u)[Lefts(u)[x]], Heights(u)[Rights(u)[x]])
    BY <2>1 DEF Growing
  <2>4. ASSUME NEW n \in Live(u) PROVE Lefts(u)[n] # x /\ Rights(u)[n] # x
    <3>1. Hung(Live(u), Lefts(u), Rights(u), Parents(u), u.root, sub) /\ NULL \notin Live(u)
      BY <2>3, Addresses DEF Shape
    <3> QED BY <3>1, <2>2, <2>3 DEF Hung
  <2>5. Levelled(u)
    BY <2>3, <2>4 DEF LevelBut, AllLevel, Levelled
  <2> QED BY <2>5, <1>11 DEF u
<1> QED BY <1>12, <1>13

\* An insertion into a level tree leaves it level.
LEMMA InsertLevels ==
  ASSUME NEW t, Sound(t), Levelled(t), NEW o \in Block, o \notin Live(t), Apart(Live(t) \cup {o})
  PROVE  Levelled(InsertObject(t, o))
<1> DEFINE a == Attach(Widen(t, o), o)
           N == Live(t)
<1>1. PICK sub : Shape(t, sub) /\ AllTight(t)
  BY DEF Sound
<1>2. PICK new : Live(a) = N \cup {o} /\ Shape(a, new) /\ Hangs(t, a, o)
  BY <1>1, AttachSound
<1> HIDE DEF a
<1>3. Growing(a, new, o, o, 0)
  <2> DEFINE H == Heights(t)
             K == Heights(a)
  <2>1. /\ NULL \notin N /\ Graded(N, H) /\ o # NULL
        /\ \A n \in N : H[n] = t.node[n].height
    BY <1>1, HeightsGraded, Addresses
  <2>2. Graded(Live(a), K) /\ \A n \in Live(a) : K[n] = a.node[n].height
    BY <1>2, HeightsGraded
  <2> HIDE DEF H, K
  <2>3. /\ K[NULL] = 0 /\ H[NULL] = 0 /\ K[o] = 1 /\ \A n \in N : K[n] = H[n]
    BY <2>1, <2>2, <1>2 DEF Graded, Hangs, N
  <2>4. Lefts(a)[o] = NULL /\ Rights(a)[o] = NULL
    BY <1>2 DEF Hangs
  <2>5. o \in new[o]
    BY <1>2, Around DEF Shape
  <2>6. ASSUME NEW n \in Live(a) \ {o}
        PROVE  Level(K[n], IF Lefts(a)[n] = o THEN 0 ELSE K[Lefts(a)[n]], IF Rights(a)[n] = o THEN 0 ELSE K[Rights(a)[n]])
    <3>1. n \in N
      BY <1>2
    <3>2. /\ Lefts(t)[n] \in N \cup {NULL} /\ Rights(t)[n] \in N \cup {NULL}
      BY <1>1, <3>1, NodeFields
    <3>3. /\ (IF Lefts(a)[n] = o THEN 0 ELSE K[Lefts(a)[n]]) = H[Lefts(t)[n]]
          /\ (IF Rights(a)[n] = o THEN 0 ELSE K[Rights(a)[n]]) = H[Rights(t)[n]]
      BY <1>2, <2>1, <2>3, <3>1, <3>2 DEF Hangs, N
    <3>4. Level(H[n], H[Lefts(t)[n]], H[Rights(t)[n]])
      BY <3>1 DEF Levelled, AllLevel, H, N
    <3> QED BY <2>3, <3>1, <3>3, <3>4
  <2>7. LevelBut(Live(a), Lefts(a), Rights(a), K, o, 0)
    BY <2>6 DEF LevelBut
  <2>8. Level(K[o], K[Lefts(a)[o]], K[Rights(a)[o]]) /\ K[o] = 0 + 1
    BY <2>3, <2>4 DEF Level, MaxOf
  <2> QED BY <1>2, <2>5, <2>7, <2>8 DEF Growing, K
<1>4. o \in Live(a)
  BY <1>2
<1>5. Levelled(RebalanceAfterInsert(a, o))
  BY <1>2, <1>3, <1>4, RebalanceLevels
<1> QED BY <1>5 DEF InsertObject, a

-----------------------------------------------------------------------------
(* object_erase.                                                           *)

\* The recursion of Predecessor defines it: the greatest node of o's left subtree.
LEMMA PredecessorGreatest ==
  ASSUME NEW t, NEW sub, Shape(t, sub), NEW o \in Live(t), t.node[o].left # NULL
  PROVE  LET q == Predecessor(t, o)
             l == t.node[o].left
         IN /\ q \in sub[l] /\ t.node[q].right = NULL
            /\ \A m \in sub[l] : m = q \/ m < q
            /\ q = l \/ (t.node[q].parent \in sub[l] /\ t.node[t.node[q].parent].right = q)
<1> DEFINE N == Live(t)
           R == Rights(t)
           Body(n, f) == IF R[n] = NULL THEN n ELSE f[R[n]]
           G == [n \in N |-> [f \in [N -> N] |-> Body(n, f)]]
           last[n \in Live(t)] == IF t.node[n].right = NULL THEN n ELSE last[t.node[n].right]
           l == t.node[o].left
<1>1. /\ \A n \in N : R[n] \in N \cup {NULL} /\ R[n] = t.node[n].right
      /\ IsFiniteSet(N) /\ Hung(N, Lefts(t), R, Parents(t), t.root, sub) /\ l \in N
      /\ Ordered(Lefts(t), R, sub, N)
  <2>1. IsFiniteSet(N) /\ Hung(N, Lefts(t), R, Parents(t), t.root, sub) /\ Ordered(Lefts(t), R, sub, N)
    BY DEF Shape
  <2> QED BY <2>1, NodeFields
<1>2. ByChildren(N, Lefts(t), R, N, N, G)
  <2>1. ASSUME NEW n \in N, NEW f \in [N -> N] PROVE Body(n, f) \in N
    BY <1>1
  <2>2. G \in [N -> [[N -> N] -> N]]
    BY <2>1
  <2>3. ASSUME NEW n \in N, NEW f \in [N -> N], NEW g \in [N -> N],
               n \in N => \A m \in N : m \in {Lefts(t)[n], R[n]} => f[m] = g[m]
        PROVE  G[n][f] = G[n][g]
    BY <1>1, <2>3
  <2> HIDE DEF G
  <2> QED BY <2>2, <2>3 DEF ByChildren
<1>3. PICK f \in [N -> N] : \A n \in N : f[n] = G[n][f]
  <2>1. IsFiniteSet(N) /\ Hung(N, Lefts(t), R, Parents(t), t.root, sub)
    BY <1>1
  <2> HIDE DEF G, N, R
  <2> QED BY <2>1, <1>2, DownRecursion
<1>4. f = [n \in Live(t) |-> IF t.node[n].right = NULL THEN n ELSE f[t.node[n].right]]
  <2>1. \A n \in N : f[n] = IF t.node[n].right = NULL THEN n ELSE f[t.node[n].right]
    BY <1>1, <1>3
  <2>2. f = [n \in N |-> f[n]]
    BY ZenonT(60)
  <2> QED BY <2>1, <2>2
<1>5. last = [n \in Live(t) |-> IF t.node[n].right = NULL THEN n ELSE last[t.node[n].right]]
  BY <1>4 DEF last
<1>6. Predecessor(t, o) = last[l]
  BY DEF Predecessor, last
<1> HIDE DEF last
<1>7. \A n \in N : /\ f[n] = IF R[n] = NULL THEN n ELSE f[R[n]]
                   /\ last[n] = IF R[n] = NULL THEN n ELSE last[R[n]]
  BY <1>1, <1>3, <1>5
<1>8. \A n \in N : last[n] = f[n]
  <2> DEFINE T == {n \in N : last[n] # f[n]}
  <2>1. \A n \in T : R[n] \in T
    BY <1>1, <1>7
  <2>2. T \in SUBSET N
    OBVIOUS
  <2>3. T = {}
    <3> HIDE DEF T, N, R
    <3> QED BY <1>1, <2>1, <2>2, DownInduction
  <2> QED BY <2>3
<1>9. last = f
  <2>1. f = [n \in N |-> f[n]]
    OBVIOUS
  <2>2. last = [n \in N |-> last[n]]
    BY <1>5
  <2> QED BY <2>1, <2>2, <1>8
<1>10. Lasts(N, R, last)
  BY <1>7, <1>9 DEF Lasts
<1>11. Numbers(N)
  BY Addresses DEF Shape, Numbers
<1> DEFINE q == Predecessor(t, o)
           P == Parents(t)
<1>12. /\ q \in sub[l] /\ R[q] = NULL /\ (\A m \in sub[l] : m = q \/ m < q)
       /\ q = l \/ (P[q] \in sub[l] /\ R[P[q]] = q)
  <2>1. Hung(N, Lefts(t), R, P, t.root, sub)
    BY <1>1
  <2>2. q = last[l]
    BY <1>6
  <2> HIDE DEF N, R, P, l, q
  <2> QED BY <1>1, <1>10, <1>11, <2>1, <2>2, LastGreatest
<1>13. sub[l] \subseteq N
  BY <1>1, Around
<1>14. q \in N /\ t.node[q].right = R[q] /\ t.node[q].parent = P[q]
  BY <1>12, <1>13, NodeFields
<1>15. P[q] \in sub[l] => t.node[P[q]].right = R[P[q]]
  BY <1>13, NodeFields
<1> QED BY <1>12, <1>14, <1>15

\* o has been removed from below p and x, its only child, has taken its place.
CutFrom(N, t, u, o, x, p) ==
  /\ Live(u) = N \ {o} /\ u \in Trees(N \ {o})
  /\ u.root = IF p = NULL THEN x ELSE t.root
  /\ \A n \in N \ {o} :
       /\ u.node[n].left = IF n = p /\ t.node[p].left = o THEN x ELSE t.node[n].left
       /\ u.node[n].right = IF n = p /\ t.node[p].left # o THEN x ELSE t.node[n].right
       /\ u.node[n].parent = IF n = x THEN p ELSE t.node[n].parent
       /\ u.node[n].lower = t.node[n].lower /\ u.node[n].upper = t.node[n].upper

\* The fields of the nodes after a removal (heap.c:222-228).
LEMMA CutFields ==
  ASSUME NEW N \in SUBSET Block, NEW t \in Trees(N), NEW o \in N, NEW x \in N \cup {NULL},
         x = OnlyChild(t, o), NEW p \in N \cup {NULL}, p = t.node[o].parent, x # o, p # o
  PROVE  CutFrom(N, t, Cut(t, o), o, x, p)
<1> DEFINE a == SetSlot(t, o, x)
           b == SetParent(a, x, p)
           u == Cut(t, o)
<1>1. NULL \notin N /\ x \in Block \cup {NULL} /\ p \in Block \cup {NULL}
  BY Addresses
<1>2. u = Without(b, o)
  BY DEF Cut
<1>3. Slotted(N, t, a, o, x)
  BY <1>1, SetSlotFields
<1> HIDE DEF a, u
<1>4. a \in Trees(N) /\ Adopted(N, a, b, x, p)
  <2>1. a \in Trees(N)
    BY <1>3 DEF Slotted
  <2> QED BY <2>1, <1>1, SetParentFields
<1> HIDE DEF b
<1>5. b \in Trees(N)
  BY <1>4 DEF Adopted
<1>6. u = [b EXCEPT !.node = [n \in N \ {o} |-> b.node[n]]]
  <2>1. DOMAIN b.node = N
    BY <1>5 DEF Trees
  <2>2. Restrict(b.node, DOMAIN b.node \ {o}) = [n \in N \ {o} |-> b.node[n]]
    BY <2>1 DEF Restrict
  <2> QED BY <2>2, <1>2 DEF Without
<1>7. /\ u \in Trees(N \ {o}) /\ u.root = b.root
      /\ \A n \in N \ {o} : u.node[n] = b.node[n]
  BY <1>5, <1>6 DEF Trees
<1>8. Live(u) = N \ {o}
  BY <1>7 DEF Trees, Live
<1>9. u.root = IF p = NULL THEN x ELSE t.root
  BY <1>3, <1>4, <1>7 DEF Slotted, Adopted
<1>10. ASSUME NEW n \in N \ {o}
       PROVE  /\ u.node[n].left = IF n = p /\ t.node[p].left = o THEN x ELSE t.node[n].left
              /\ u.node[n].right = IF n = p /\ t.node[p].left # o THEN x ELSE t.node[n].right
              /\ u.node[n].parent = IF n = x THEN p ELSE t.node[n].parent
              /\ u.node[n].lower = t.node[n].lower /\ u.node[n].upper = t.node[n].upper
  BY <1>3, <1>4, <1>7 DEF Slotted, Adopted
<1> QED BY <1>7, <1>8, <1>9, <1>10 DEF u, CutFrom

\* o has one child at most, and only the bounds of its parent may be out of date.
\* P holds the parents; where the child is about to get a new parent its old one
\* does not matter.
CutReady(t, o, P, sub) ==
  /\ Live(t) \in SUBSET Block /\ IsFiniteSet(Live(t)) /\ t \in Trees(Live(t)) /\ o \in Live(t)
  /\ NULL \in {t.node[o].left, t.node[o].right}
  /\ Hung(Live(t), Lefts(t), Rights(t), P, t.root, sub)
  /\ \A n \in Live(t) \ {OnlyChild(t, o)} : P[n] = t.node[n].parent
  /\ Ordered(Lefts(t), Rights(t), sub, Live(t) \ {o})
  /\ \A n \in Live(t) \ {o, t.node[o].parent} : Tight(t, n)

\* Removing such a node.
LEMMA CutSound ==
  ASSUME NEW t, NEW o, NEW P, NEW sub, CutReady(t, o, P, sub)
  PROVE  /\ Live(Cut(t, o)) = Live(t) \ {o} /\ t.node[o].parent \in Live(Cut(t, o)) \cup {NULL}
         /\ \E new : Shape(Cut(t, o), new)
         /\ \A n \in Live(Cut(t, o)) \ {t.node[o].parent} : Tight(Cut(t, o), n)
<1> DEFINE N == Live(t)
           M == N \ {o}
           L == Lefts(t)
           R == Rights(t)
           u == Cut(t, o)
           x == OnlyChild(t, o)
           p == t.node[o].parent
           new == CutSub(sub, o)
<1>0. /\ N \in SUBSET Block /\ IsFiniteSet(N) /\ t \in Trees(N) /\ o \in N
      /\ NULL \in {t.node[o].left, t.node[o].right}
      /\ Hung(N, L, R, P, t.root, sub) /\ Ordered(L, R, sub, M)
      /\ \A n \in N \ {x} : P[n] = t.node[n].parent
      /\ \A n \in N \ {o, p} : Tight(t, n)
  BY DEF CutReady
<1>1. L[o] = t.node[o].left /\ R[o] = t.node[o].right /\ N \in SUBSET Block /\ NULL \notin N
  BY <1>0, Addresses DEF Lefts, Rights
<1>2. (L[o] = NULL /\ R[o] = x) \/ (L[o] = x /\ R[o] = NULL)
  BY <1>0, <1>1 DEF OnlyChild
<1>3. Hung(N, L, R, P, t.root, sub) /\ o \in N /\ IsFiniteSet(N)
  BY <1>0
<1> HIDE DEF x, p
<1>4. /\ x \in N \cup {NULL} /\ x # o /\ p \in N \cup {NULL} /\ p # o /\ P[o] = p
      /\ p = x => p = NULL
      /\ t.root = o <=> p = NULL
      /\ \A n \in N : o \in {L[n], R[n]} <=> n = p
      /\ \A n \in N : L[n] \in N \cup {NULL} /\ R[n] \in N \cup {NULL} /\ (L[n] = o => R[n] # o)
      /\ \A n \in N : x # NULL => (x \in {L[n], R[n]} <=> n = o)
  <2>1. /\ L[o] \in N \cup {NULL} /\ R[o] \in N \cup {NULL} /\ P[o] \in N \cup {NULL} /\ o # NULL
        /\ L[o] # o /\ R[o] # o /\ P[o] \notin sub[o] /\ o \in sub[o]
        /\ (L[o] # NULL => L[o] \in sub[o]) /\ (R[o] # NULL => R[o] \in sub[o])
        /\ o = t.root <=> P[o] = NULL
        /\ \A n \in N : o \in {L[n], R[n]} <=> n = P[o]
        /\ (L[o] # NULL => P[L[o]] = o) /\ (R[o] # NULL => P[R[o]] = o)
    <3> HIDE DEF N, L, R
    <3> QED BY <1>3, Around
  <2>2. x # o /\ x \in N \cup {NULL}
    BY <2>1, <1>2
  <2>3. P[o] = p
    BY <2>2, <1>0 DEF p
  <2>4. p = x => p = NULL
    BY <2>1, <2>3, <1>2
  <2>5. \A n \in N : L[n] \in N \cup {NULL} /\ R[n] \in N \cup {NULL} /\ (L[n] # R[n] \/ L[n] = NULL)
    <3> HIDE DEF N, L, R
    <3> QED BY <1>3, Around
  <2>6. x # NULL => P[x] = o
    BY <2>1, <1>2
  <2>7. \A n \in N : x # NULL => (x \in {L[n], R[n]} <=> n = o)
    <3>1. x \in N => \A n \in N : x \in {L[n], R[n]} <=> n = P[x]
      <4> HIDE DEF N, L, R
      <4> QED BY <1>3, Around
    <3> QED BY <3>1, <2>2, <2>6
  <2> HIDE DEF N, L, R
  <2> QED BY <2>1, <2>2, <2>3, <2>4, <2>5, <2>7
<1>5. /\ Live(u) = M /\ u \in Trees(M)
      /\ u.root = IF p = NULL THEN x ELSE t.root
      /\ \A n \in M :
           /\ u.node[n].left = IF n = p /\ t.node[p].left = o THEN x ELSE t.node[n].left
           /\ u.node[n].right = IF n = p /\ t.node[p].left # o THEN x ELSE t.node[n].right
           /\ u.node[n].parent = IF n = x THEN p ELSE t.node[n].parent
           /\ u.node[n].lower = t.node[n].lower /\ u.node[n].upper = t.node[n].upper
  <2>1. /\ x \in N \cup {NULL} /\ p \in N \cup {NULL} /\ x # o /\ p # o /\ o \in N /\ N \in SUBSET Block
        /\ t \in Trees(N)
    BY <1>0, <1>4
  <2>2. x = OnlyChild(t, o) /\ p = t.node[o].parent
    BY DEF x, p
  <2> HIDE DEF N, L, R, x, p
  <2>3. CutFrom(N, t, u, o, x, p)
    BY <2>1, <2>2, CutFields
  <2> HIDE DEF u
  <2> QED BY <2>3, ZenonT(60) DEF CutFrom
<1> HIDE DEF u
<1>6. \A n \in N : L[n] = t.node[n].left /\ R[n] = t.node[n].right
  BY DEF Lefts, Rights
<1>7. /\ Lefts(u) = CutLink(L, o, x) /\ Rights(u) = CutLink(R, o, x)
      /\ Parents(u) = CutP(P, o, x) /\ u.root = CutRoot(t.root, o, x)
  <2>1. DOMAIN L = N /\ DOMAIN R = N /\ DOMAIN P = N
    BY <1>3 DEF Hung
  <2>2. ASSUME NEW n \in M
        PROVE  /\ u.node[n].left = IF L[n] = o THEN x ELSE L[n]
               /\ u.node[n].right = IF R[n] = o THEN x ELSE R[n]
               /\ u.node[n].parent = IF n = x THEN P[o] ELSE P[n]
    <3>1. n \in N /\ (n # x => P[n] = t.node[n].parent)
      BY <1>0
    <3>2. p \in N => p \in M
      BY <1>4
    <3> HIDE DEF L, R
    <3>3. u.node[n].left = IF L[n] = o THEN x ELSE L[n]
      BY <3>1, <1>4, <1>5, <1>6
    <3>4. u.node[n].right = IF R[n] = o THEN x ELSE R[n]
      BY <3>1, <1>4, <1>5, <1>6
    <3>5. u.node[n].parent = IF n = x THEN P[o] ELSE P[n]
      BY <3>1, <1>4, <1>5
    <3> QED BY <3>3, <3>4, <3>5
  <2>3. u.root = CutRoot(t.root, o, x)
    BY <1>4, <1>5 DEF CutRoot
  <2> HIDE DEF L, R, N
  <2> QED BY <2>1, <2>2, <2>3, <1>5 DEF Lefts, Rights, Parents, CutLink, CutP
<1>8. /\ Hung(M, CutLink(L, o, x), CutLink(R, o, x), CutP(P, o, x), CutRoot(t.root, o, x), new)
      /\ Ordered(CutLink(L, o, x), CutLink(R, o, x), new, M)
  <2>1. Ordered(L, R, sub, N \ {o})
    BY <1>0
  <2> HIDE DEF N, L, R, M, new, u
  <2> QED BY <2>1, <1>2, <1>3, CutHung DEF M, new
<1> HIDE DEF new
<1>9. Ordered(Lefts(u), Rights(u), new, M)
  BY <1>7, <1>8
<1>10. IsFiniteSet(M) /\ M \in SUBSET Block
  BY <1>0, FS_Subset
<1>11. Shape(u, new)
  BY SMTT(30), <1>5, <1>7, <1>8, <1>9, <1>10 DEF Shape
<1>12. ASSUME NEW n \in M \ {p} PROVE Tight(u, n)
  <2>1. /\ Tight(t, n) /\ n \in N /\ n # o /\ n # p
    BY <1>0, <1>5
  <2>2. /\ t.node[n].left \in M \cup {NULL} /\ t.node[n].right \in M \cup {NULL}
    BY <2>1, <1>4, <1>6
  <2>3. /\ u.node[n].left = t.node[n].left /\ u.node[n].right = t.node[n].right
        /\ u.node[n].lower = t.node[n].lower /\ u.node[n].upper = t.node[n].upper
    BY <2>1, <1>5
  <2> QED BY <2>1, <2>2, <2>3, <1>5 DEF Tight
<1>13. p \in Live(u) \cup {NULL}
  BY <1>4, <1>5
<1> QED BY <1>5, <1>11, <1>12, <1>13 DEF u, p

\* One node of a tree is replaced.
LEMMA OneNode ==
  ASSUME NEW N, NEW t \in Trees(N), NEW o \in N, NEW x \in Nodes
  PROVE  LET u == [t EXCEPT !.node = [@ EXCEPT ![o] = x]]
         IN /\ u \in Trees(N) /\ u.root = t.root
            /\ u.node[o] = x /\ \A n \in N \ {o} : u.node[n] = t.node[n]
BY DEF Trees

\* SwapWithPredecessor with the predecessor, q, as a parameter.
Swapped(t, o, q) ==
  LET pred     == q
      old      == t.node[o]
      adjacent == old.left = pred
      moved    == [SetSlot(t, o, pred) EXCEPT
                     !.node[pred]      = [old EXCEPT !.left = IF adjacent THEN o ELSE @],
                     !.node[o].parent  = IF adjacent THEN pred ELSE t.node[pred].parent,
                     !.node[o].left    = t.node[pred].left,
                     !.node[o].right   = NULL,
                     !.node[old.right].parent = pred]
  IN IF adjacent THEN moved
     ELSE [moved EXCEPT !.node[t.node[pred].parent].right = o,
                        !.node[old.left].parent = pred]

\* The exchange with the predecessor, the predecessor given.
LEMMA SwapIsSwapped ==
  ASSUME NEW t, NEW o, NEW q, q = Predecessor(t, o)
  PROVE  SwapWithPredecessor(t, o) = Swapped(t, o, q)
<1>1. SwapWithPredecessor(t, o) = Swapped(t, o, Predecessor(t, o))
  BY ZenonT(60) DEF SwapWithPredecessor, Swapped
<1> QED BY <1>1

\* o, with children l and r and parent p, and its predecessor q, below z, have
\* exchanged their places; the parent of the left child that o takes over from q
\* has not been set yet.
SwappedPlaces(N, t, s, o, q, l, r, p, z) ==
  /\ s \in Trees(N)
  /\ s.root = IF p = NULL THEN q ELSE t.root
  /\ \A n \in N :
       /\ s.node[n].left = IF n = q THEN (IF l = q THEN o ELSE l)
                           ELSE IF n = o THEN t.node[q].left
                           ELSE IF n = p /\ t.node[p].left = o THEN q ELSE t.node[n].left
       /\ s.node[n].right = IF n = q THEN r ELSE IF n = o THEN NULL
                            ELSE IF n = p /\ t.node[p].left # o THEN q
                            ELSE IF n = z THEN o ELSE t.node[n].right
       /\ s.node[n].parent = IF n = q THEN p ELSE IF n = o THEN (IF l = q THEN q ELSE z)
                             ELSE IF n \in {l, r} THEN q ELSE t.node[n].parent
       /\ s.node[n].lower = IF n = q THEN t.node[o].lower ELSE t.node[n].lower
       /\ s.node[n].upper = IF n = q THEN t.node[o].upper ELSE t.node[n].upper

\* The fields of the nodes after the exchange with the predecessor (heap.c:188-220).
LEMMA SwapFields ==
  ASSUME NEW N \in SUBSET Block, NEW t \in Trees(N), NEW o \in N, NEW q \in N, q = Predecessor(t, o),
         NEW l \in N, l = t.node[o].left, NEW r \in N, r = t.node[o].right,
         NEW p \in N \cup {NULL}, p = t.node[o].parent, NEW z \in N, z = t.node[q].parent,
         q # o, r # o, r # q, l # o, p # o, p # q, z # q, z # p, z = o <=> l = q, p # r, l # p, l # r
  PROVE  SwappedPlaces(N, t, SwapWithPredecessor(t, o), o, q, l, r, p, z)
<1> DEFINE a == SetSlot(t, o, q)
           k == IF l = q THEN o ELSE l
           e == IF l = q THEN q ELSE z
           x == [t.node[o] EXCEPT !.left = k]
           b == [a EXCEPT !.node = [@ EXCEPT ![q] = x]]
           y == [a.node[o] EXCEPT !.parent = e, !.left = t.node[q].left, !.right = NULL]
           c == [b EXCEPT !.node = [@ EXCEPT ![o] = y]]
           w == [a.node[r] EXCEPT !.parent = q]
           d == [c EXCEPT !.node = [@ EXCEPT ![r] = w]]
           g == [d.node[z] EXCEPT !.right = o]
           f == [d EXCEPT !.node = [@ EXCEPT ![z] = g]]
           h == [f.node[l] EXCEPT !.parent = q]
           s == SwapWithPredecessor(t, o)
<1>1. /\ NULL \notin N /\ N \subseteq Block /\ \A n \in N : t.node[n] \in Nodes
      /\ q \in Block /\ o \in Block /\ z \in Block /\ l \in Block /\ r \in Block
  BY Addresses DEF Trees
<1>2. Slotted(N, t, a, o, q)
  BY SMTT(30), <1>1, SetSlotFields
<1>3. /\ a \in Trees(N) /\ a.root = (IF p = NULL THEN q ELSE t.root)
      /\ \A n \in N :
           /\ a.node[n].left = IF n = p /\ t.node[p].left = o THEN q ELSE t.node[n].left
           /\ a.node[n].right = IF n = p /\ t.node[p].left # o THEN q ELSE t.node[n].right
           /\ a.node[n].parent = t.node[n].parent
           /\ a.node[n].lower = t.node[n].lower
           /\ a.node[n].upper = t.node[n].upper
           /\ a.node[n] \in Nodes
  BY <1>2 DEF Slotted, Trees
<1>4. t.node[o].left = q <=> l = q
  OBVIOUS
<1> DEFINE moved == [a EXCEPT !.node[q]        = [t.node[o] EXCEPT !.left = IF t.node[o].left = q THEN o ELSE @],
                              !.node[o].parent = IF t.node[o].left = q THEN q ELSE t.node[q].parent,
                              !.node[o].left   = t.node[q].left,
                              !.node[o].right  = NULL,
                              !.node[t.node[o].right].parent = q]
<1>5. s = IF t.node[o].left = q THEN moved
          ELSE [moved EXCEPT !.node[t.node[q].parent].right = o, !.node[t.node[o].left].parent = q]
  <2>1. s = Swapped(t, o, q)
    BY SwapIsSwapped
  <2> QED BY <2>1, ZenonT(60) DEF Swapped
<1> HIDE DEF a, s
<1>7. /\ x \in Nodes /\ x.left = k /\ x.right = r /\ x.parent = p
      /\ x.lower = t.node[o].lower /\ x.upper = t.node[o].upper
  BY <1>1 DEF Nodes
<1>8. /\ y \in Nodes /\ y.left = t.node[q].left /\ y.right = NULL /\ y.parent = e
      /\ y.lower = t.node[o].lower /\ y.upper = t.node[o].upper
  <2>1. /\ e \in Block /\ t.node[q].left \in Block \cup {NULL} /\ a.node[o] \in Nodes
        /\ a.node[o].lower = t.node[o].lower /\ a.node[o].upper = t.node[o].upper
    BY <1>1, <1>3 DEF Nodes
  <2> HIDE DEF e
  <2> QED BY <2>1 DEF Nodes
<1>9. /\ w \in Nodes /\ w.left = t.node[r].left /\ w.right = t.node[r].right /\ w.parent = q
      /\ w.lower = t.node[r].lower /\ w.upper = t.node[r].upper
  BY <1>1, <1>3 DEF Nodes
<1> DEFINE K == IF t.node[o].left = q THEN o ELSE t.node[o].left
           E == IF t.node[o].left = q THEN q ELSE t.node[q].parent
           b1 == [a EXCEPT !.node[q] = [t.node[o] EXCEPT !.left = K]]
           c1 == [b1 EXCEPT !.node[o].parent = E, !.node[o].left = t.node[q].left, !.node[o].right = NULL]
           d1 == [c1 EXCEPT !.node[t.node[o].right].parent = q]
<1>6. moved = d1
  OBVIOUS
<1>6a. b1 = b /\ K = k /\ E = e
  BY SMTT(30), <1>3 DEF Trees
<1> HIDE DEF moved, x, y, w, b1, c1, d1, K, E, e, k
<1>10. /\ b \in Trees(N) /\ b.root = a.root /\ b.node[q] = x /\ \A n \in N \ {q} : b.node[n] = a.node[n]
  BY <1>3, <1>7, OneNode
<1>10a. c1 = c
  <2>1. c1 = [b EXCEPT !.node[o].parent = e, !.node[o].left = t.node[q].left, !.node[o].right = NULL]
    BY SMTT(30), <1>6a DEF c1
  <2>2. b.node[o] = a.node[o] /\ b.node[o] \in Nodes
    BY <1>3, <1>10
  <2> HIDE DEF b, c
  <2>3. c1 = [b EXCEPT !.node = [@ EXCEPT ![o] = [b.node[o] EXCEPT !.parent = e, !.left = t.node[q].left, !.right = NULL]]]
    BY <2>1, <1>10 DEF Trees
  <2> QED BY <2>2, <2>3 DEF c, y
<1> HIDE DEF b
<1>11. /\ c \in Trees(N) /\ c.root = b.root /\ c.node[o] = y /\ \A n \in N \ {o} : c.node[n] = b.node[n]
  BY <1>8, <1>10, OneNode
<1>11a. d1 = d
  <2>1. d1 = [c EXCEPT !.node[r].parent = q]
    BY <1>10a DEF d1
  <2>2. c.node[r] = a.node[r]
    BY <1>10, <1>11
  <2> HIDE DEF c
  <2>3. d1 = [c EXCEPT !.node = [@ EXCEPT ![r] = [c.node[r] EXCEPT !.parent = q]]]
    BY <2>1, <1>11 DEF Trees
  <2> QED BY <2>2, <2>3 DEF d, w
<1> HIDE DEF c
<1>12. /\ d \in Trees(N) /\ d.root = c.root /\ d.node[r] = w /\ \A n \in N \ {r} : d.node[n] = c.node[n]
  <2>1. c \in Trees(N) /\ w \in Nodes
    BY <1>9, <1>11
  <2> DEFINE v == [c EXCEPT !.node = [@ EXCEPT ![r] = w]]
  <2>2. v \in Trees(N) /\ v.root = c.root /\ v.node[r] = w /\ \A n \in N \ {r} : v.node[n] = c.node[n]
    BY <2>1, OneNode
  <2>3. d = v
    BY DEF d
  <2> HIDE DEF v, d
  <2> QED BY <2>2, <2>3
<1> HIDE DEF d
<1>13. /\ d.root = a.root /\ d.node[q] = x /\ d.node[o] = y /\ d.node[r] = w
       /\ \A n \in N \ {q, o, r} : d.node[n] = a.node[n]
  BY SMTT(30), <1>10, <1>11, <1>12
<1>14. CASE l = q
  <2>1. s = d
    BY <1>14, <1>5, <1>6, <1>11a
  <2>2. k = o /\ e = q /\ z = o
    BY <1>14 DEF k, e
  <2>3. ASSUME NEW n \in N
        PROVE  /\ d.node[n].left = IF n = q THEN o ELSE IF n = o THEN t.node[q].left
                                   ELSE IF n = p /\ t.node[p].left = o THEN q ELSE t.node[n].left
               /\ d.node[n].right = IF n = q THEN r ELSE IF n = o THEN NULL
                                    ELSE IF n = p /\ t.node[p].left # o THEN q ELSE t.node[n].right
               /\ d.node[n].parent = IF n = q THEN p ELSE IF n = o THEN q
                                     ELSE IF n = r THEN q ELSE t.node[n].parent
               /\ d.node[n].lower = IF n = q THEN t.node[o].lower ELSE t.node[n].lower
               /\ d.node[n].upper = IF n = q THEN t.node[o].upper ELSE t.node[n].upper
    <3>1. CASE n = q
      BY <3>1, <2>2, <1>7, <1>13
    <3>2. CASE n = o
      BY <3>2, <2>2, <1>8, <1>13
    <3>3. CASE n = r
      BY SMTT(30), <3>3, <1>9, <1>13
    <3>4. CASE n \notin {q, o, r}
      BY SMTT(30), <3>4, <1>3, <1>13
    <3> QED BY <3>1, <3>2, <3>3, <3>4
  <2>4. d.root = IF p = NULL THEN q ELSE t.root
    BY SMTT(30), <1>3, <1>13
  <2>5. ASSUME NEW n \in N
        PROVE  /\ d.node[n].left = IF n = q THEN (IF l = q THEN o ELSE l)
                                   ELSE IF n = o THEN t.node[q].left
                                   ELSE IF n = p /\ t.node[p].left = o THEN q ELSE t.node[n].left
               /\ d.node[n].right = IF n = q THEN r ELSE IF n = o THEN NULL
                                    ELSE IF n = p /\ t.node[p].left # o THEN q
                                    ELSE IF n = z THEN o ELSE t.node[n].right
               /\ d.node[n].parent = IF n = q THEN p ELSE IF n = o THEN (IF l = q THEN q ELSE z)
                                     ELSE IF n \in {l, r} THEN q ELSE t.node[n].parent
               /\ d.node[n].lower = IF n = q THEN t.node[o].lower ELSE t.node[n].lower
               /\ d.node[n].upper = IF n = q THEN t.node[o].upper ELSE t.node[n].upper
    BY SMTT(30), <2>2, <2>3, <1>14
  <2> QED BY <2>1, <2>4, <2>5, <1>12 DEF s, SwappedPlaces
<1>15. CASE l # q
  <2>1. k = l /\ e = z /\ z # o
    BY <1>15 DEF k, e
  <2>2. s = [d EXCEPT !.node[z].right = o, !.node[l].parent = q]
    BY <1>15, <1>5, <1>6, <1>11a
  <2>3. d.node[z] \in Nodes /\ \A n \in N : d.node[n] \in Nodes
    BY SMTT(30), <1>12 DEF Trees
  <2>4. s = [f EXCEPT !.node = [@ EXCEPT ![l] = h]]
    BY SMTT(30), <2>2, <2>3, <1>12 DEF Trees
  <2>5. /\ g \in Nodes /\ g.left = d.node[z].left /\ g.right = o /\ g.parent = d.node[z].parent
        /\ g.lower = d.node[z].lower /\ g.upper = d.node[z].upper
    BY SMTT(30), <2>3, <1>1 DEF Nodes
  <2> HIDE DEF g
  <2>6. /\ f \in Trees(N) /\ f.root = d.root /\ f.node[z] = g /\ \A n \in N \ {z} : f.node[n] = d.node[n]
    BY SMTT(30), <2>5, <1>12, OneNode
  <2> HIDE DEF f
  <2>7. /\ h \in Nodes /\ h.left = f.node[l].left /\ h.right = f.node[l].right /\ h.parent = q
        /\ h.lower = f.node[l].lower /\ h.upper = f.node[l].upper
    <3>1. f.node[l] \in Nodes
      BY SMTT(30), <2>6 DEF Trees
    <3> QED BY <3>1, <1>1 DEF Nodes
  <2> HIDE DEF h
  <2>8. /\ s \in Trees(N) /\ s.root = f.root /\ s.node[l] = h /\ \A n \in N \ {l} : s.node[n] = f.node[n]
    BY SMTT(30), <2>4, <2>6, <2>7, OneNode
  <2>9. ASSUME NEW n \in N
        PROVE  /\ f.node[n].left = d.node[n].left /\ f.node[n].parent = d.node[n].parent
               /\ f.node[n].right = IF n = z THEN o ELSE d.node[n].right
               /\ f.node[n].lower = d.node[n].lower /\ f.node[n].upper = d.node[n].upper
    BY <2>5, <2>6
  <2>10. ASSUME NEW n \in N
         PROVE  /\ s.node[n].left = d.node[n].left /\ s.node[n].parent = IF n = l THEN q ELSE d.node[n].parent
                /\ s.node[n].right = IF n = z THEN o ELSE d.node[n].right
                /\ s.node[n].lower = d.node[n].lower /\ s.node[n].upper = d.node[n].upper
    <3>1. CASE n = l
      BY <3>1, <2>7, <2>8, <2>9
    <3>2. CASE n # l
      BY SMTT(30), <3>2, <2>8, <2>9
    <3> QED BY SMTT(30), <3>1, <3>2
  <2>11. ASSUME NEW n \in N
         PROVE  /\ s.node[n].left = IF n = q THEN l ELSE IF n = o THEN t.node[q].left
                                    ELSE IF n = p /\ t.node[p].left = o THEN q ELSE t.node[n].left
                /\ s.node[n].right = IF n = q THEN r ELSE IF n = o THEN NULL
                                     ELSE IF n = p /\ t.node[p].left # o THEN q
                                     ELSE IF n = z THEN o ELSE t.node[n].right
                /\ s.node[n].parent = IF n = q THEN p ELSE IF n = o THEN z
                                      ELSE IF n \in {l, r} THEN q ELSE t.node[n].parent
                /\ s.node[n].lower = IF n = q THEN t.node[o].lower ELSE t.node[n].lower
                /\ s.node[n].upper = IF n = q THEN t.node[o].upper ELSE t.node[n].upper
    <3>1. CASE n = q
      BY <3>1, <2>1, <2>10, <1>7, <1>13, <1>15
    <3>2. CASE n = o
      BY <3>2, <2>1, <2>10, <1>8, <1>13, Z3T(30)
    <3>3. CASE n = r
      BY <3>3, <2>10, <1>9, <1>13, Z3T(30)
    <3>4. CASE n \notin {q, o, r}
      <4>1. d.node[n] = a.node[n]
        BY SMTT(30), <3>4, <1>13
      <4> QED BY <4>1, <3>4, <2>10, <1>3
    <3> QED BY <3>1, <3>2, <3>3, <3>4
  <2>12. s.root = IF p = NULL THEN q ELSE t.root
    BY SMTT(30), <2>6, <2>8, <1>3, <1>13
  <2>13. ASSUME NEW n \in N
         PROVE  /\ s.node[n].left = IF n = q THEN (IF l = q THEN o ELSE l)
                                    ELSE IF n = o THEN t.node[q].left
                                    ELSE IF n = p /\ t.node[p].left = o THEN q ELSE t.node[n].left
                /\ s.node[n].parent = IF n = q THEN p ELSE IF n = o THEN (IF l = q THEN q ELSE z)
                                      ELSE IF n \in {l, r} THEN q ELSE t.node[n].parent
    BY <2>11, <1>15
  <2> QED BY <2>8, <2>11, <2>12, <2>13 DEF s, SwappedPlaces
<1> QED BY <1>14, <1>15

\* After the exchange and the removal the tree is a search tree again; only the
\* bounds of the node that o hung from are out of date.
LEMMA SwapAndCut ==
  ASSUME NEW t, NEW sub, Shape(t, sub), AllTight(t), NEW o \in Live(t),
         t.node[o].left # NULL, t.node[o].right # NULL,
         NEW s, s = SwapWithPredecessor(t, o), NEW u, u = Cut(s, o)
  PROVE  /\ Live(u) = Live(t) \ {o} /\ s.node[o].parent \in Live(u) \cup {NULL}
         /\ \E new : Shape(u, new)
         /\ \A n \in Live(u) \ {s.node[o].parent} : Tight(u, n)
<1> DEFINE N == Live(t)
           L == Lefts(t)
           R == Rights(t)
           P == Parents(t)
           l == t.node[o].left
           r == t.node[o].right
           p == t.node[o].parent
           q == Predecessor(t, o)
           z == t.node[q].parent
           x == t.node[q].left
           e == [n \in N \cup {NULL} |-> IF n = o THEN q ELSE IF n = q THEN o ELSE n]
           P2 == Renamed(P, e)
           sub2 == RenamedSub(N, sub, e)
<1>1. /\ Hung(N, L, R, P, t.root, sub) /\ Ordered(L, R, sub, N) /\ N \in SUBSET Block
      /\ IsFiniteSet(N) /\ t \in Trees(N) /\ NULL \notin N /\ o \in N /\ o # NULL
  BY Addresses DEF Shape
<1>2. \A n \in N : /\ t.node[n].left = L[n] /\ L[n] \in N \cup {NULL}
                   /\ t.node[n].right = R[n] /\ R[n] \in N \cup {NULL}
                   /\ t.node[n].parent = P[n] /\ P[n] \in N \cup {NULL}
  BY NodeFields
<1>3. /\ q \in sub[l] /\ t.node[q].right = NULL /\ (\A m \in sub[l] : m = q \/ m < q)
      /\ q = l \/ (z \in sub[l] /\ t.node[z].right = q)
  BY PredecessorGreatest
<1> HIDE DEF q
<1>4. /\ l \in N /\ l = L[o] /\ r \in N /\ r = R[o] /\ p \in N \cup {NULL} /\ p = P[o]
      /\ sub[l] \subseteq sub[o] /\ sub[o] \subseteq N /\ o \notin sub[l] /\ o \notin sub[r]
      /\ sub[l] \cap sub[r] = {} /\ l \in sub[l] /\ r \in sub[r] /\ l \in sub[o] /\ r \in sub[o]
      /\ p \notin sub[o] /\ l # r /\ l # o /\ r # o /\ P[l] = o /\ P[r] = o /\ p # o
      /\ t.root = o <=> p = NULL
  <2>1. l = L[o] /\ r = R[o] /\ p = P[o]
    BY <1>1, <1>2
  <2>2. l \in N /\ r \in N /\ p \in N \cup {NULL}
    BY <1>1, <1>2
  <2> HIDE DEF l, r, p, N, L, R, P
  <2>3. /\ sub[o] = {o} \cup sub[l] \cup sub[r] /\ sub[o] \subseteq N /\ o \notin sub[l] /\ o \notin sub[r]
        /\ sub[l] \cap sub[r] = {} /\ l \in sub[l] /\ r \in sub[r] /\ l \in sub[o] /\ r \in sub[o]
        /\ p \notin sub[o] /\ l # r /\ l # o /\ r # o /\ P[l] = o /\ P[r] = o /\ o \in sub[o]
        /\ t.root = o <=> p = NULL
    BY <1>1, <2>1, <2>2, Around
  <2> QED BY <2>1, <2>2, <2>3
<1>5. /\ q \in N /\ q # o /\ q # r /\ p # q /\ p # r /\ (p # l)
      /\ x = L[q] /\ z = P[q] /\ R[q] = NULL /\ x \in N \cup {NULL}
  BY <1>2, <1>3, <1>4
<1>6. z \in N /\ z # q /\ z # p /\ (z = o <=> l = q) /\ x # q /\ x # o /\ (l # q => R[z] = q /\ L[z] # q)
  <2>1. /\ q \in sub[q] /\ P[q] \notin sub[q] /\ L[q] # q /\ (L[q] # NULL => P[L[q]] = q)
    <3> HIDE DEF N, L, R, P, q
    <3> QED BY <1>1, <1>5, Around
  <2>2. CASE l = q
    BY <2>1, <2>2, <1>1, <1>4, <1>5
  <2>3. CASE l # q
    <3>1. z \in sub[l] /\ t.node[z].right = q
      BY <2>3, <1>3
    <3>2. z \in N /\ R[z] = q
      BY <3>1, <1>2, <1>4
    <3>3. L[z] # R[z] \/ L[z] = NULL
      <4> HIDE DEF N, L, R, P, z
      <4> QED BY <3>2, <1>1, Around, Z3T(30)
    <3> HIDE DEF N, L, R, P, z, l, p, x
    <3> QED BY <2>1, <2>3, <3>1, <3>2, <3>3, <1>1, <1>4, <1>5
  <2> QED BY <2>2, <2>3
<1> HIDE DEF z
<1>7. /\ s \in Trees(N)
      /\ s.root = IF p = NULL THEN q ELSE t.root
      /\ \A n \in N :
           /\ s.node[n].left = IF n = q THEN (IF l = q THEN o ELSE l)
                               ELSE IF n = o THEN t.node[q].left
                               ELSE IF n = p /\ t.node[p].left = o THEN q ELSE t.node[n].left
           /\ s.node[n].right = IF n = q THEN r ELSE IF n = o THEN NULL
                                ELSE IF n = p /\ t.node[p].left # o THEN q
                                ELSE IF n = z THEN o ELSE t.node[n].right
           /\ s.node[n].parent = IF n = q THEN p ELSE IF n = o THEN (IF l = q THEN q ELSE z)
                                 ELSE IF n \in {l, r} THEN q ELSE t.node[n].parent
           /\ s.node[n].lower = IF n = q THEN t.node[o].lower ELSE t.node[n].lower
           /\ s.node[n].upper = IF n = q THEN t.node[o].upper ELSE t.node[n].upper
  <2>1. /\ q = Predecessor(t, o) /\ l = t.node[o].left /\ r = t.node[o].right
        /\ p = t.node[o].parent /\ z = t.node[q].parent /\ s = SwapWithPredecessor(t, o)
    BY DEF q, z
  <2> HIDE DEF N, l, r, p
  <2>2. SwappedPlaces(N, t, s, o, q, l, r, p, z)
    BY <1>1, <1>4, <1>5, <1>6, <2>1, SwapFields
  <2> QED BY <2>2, ZenonT(60) DEF SwappedPlaces
<1>8. /\ e[o] = q /\ e[q] = o /\ e[NULL] = NULL /\ \A n \in N \ {o, q} : e[n] = n
      /\ Exchange(N, e)
  <2>1. /\ e[o] = q /\ e[q] = o /\ e[NULL] = NULL /\ \A n \in N \ {o, q} : e[n] = n
    BY <1>1, <1>5
  <2>2. e \in [N \cup {NULL} -> N \cup {NULL}]
    BY <1>1, <1>5
  <2> HIDE DEF e, N
  <2>3. \A n \in N \cup {NULL} : e[e[n]] = n
    BY <2>1
  <2> QED BY <2>1, <2>2, <2>3 DEF Exchange
<1> HIDE DEF e
<1>9. Live(s) = N
  BY <1>7 DEF Trees, Live
<1>10. \A n \in N : /\ L[n] = o => n = p
                    /\ R[n] = o => n = p /\ L[p] # o
                    /\ n = p => L[n] = o \/ R[n] = o
                    /\ L[n] = q => n = z /\ l = q
                    /\ R[n] = q => n = z /\ l # q
                    /\ P[n] = o <=> n \in {l, r}
                    /\ P[n] = q => n = x
  <2>1. \A n \in N : /\ o \in {L[n], R[n]} <=> n = p
                     /\ q \in {L[n], R[n]} <=> n = z
                     /\ L[n] # R[n] \/ L[n] = NULL
                     /\ P[n] # NULL => n \in {L[P[n]], R[P[n]]}
    <3> HIDE DEF N, L, R, P, p, l, r, x
    <3> QED BY <1>1, <1>4, <1>5, Around
  <2> HIDE DEF N, L, R, P, p, l, r, x
  <2> QED BY <2>1, <1>1, <1>4, <1>5, <1>6
<1>11. Lefts(s) = Renamed(L, e)
  <2>1. ASSUME NEW n \in N PROVE s.node[n].left = e[L[e[n]]]
    <3>1. CASE n = q
      BY <3>1, <1>1, <1>4, <1>7, <1>8
    <3>2. CASE n = o
      BY <3>2, <1>5, <1>6, <1>7, <1>8
    <3>3. CASE n \notin {o, q}
      <4>1. e[n] = n /\ s.node[n].left = IF n = p /\ t.node[p].left = o THEN q ELSE t.node[n].left
        BY <3>3, <1>7, <1>8
      <4>2. (L[n] = q => FALSE) /\ (L[n] = o <=> n = p /\ t.node[p].left = o) /\ L[n] = t.node[n].left
        BY <3>3, <1>2, <1>6, <1>10
      <4>3. L[n] \in N \cup {NULL}
        BY <1>2
      <4> HIDE DEF L, p
      <4> QED BY <4>1, <4>2, <4>3, <1>8
    <3> QED BY <3>1, <3>2, <3>3
  <2>2. DOMAIN L = N
    BY DEF Lefts
  <2> QED BY <2>1, <2>2, <1>9 DEF Lefts, Renamed
<1>12. Rights(s) = Renamed(R, e)
  <2>1. ASSUME NEW n \in N PROVE s.node[n].right = e[R[e[n]]]
    <3>1. CASE n = q
      BY <3>1, <1>1, <1>4, <1>5, <1>7, <1>8
    <3>2. CASE n = o
      BY <3>2, <1>5, <1>6, <1>7, <1>8
    <3>3. CASE n \notin {o, q}
      <4>1. e[n] = n /\ s.node[n].right = IF n = p /\ t.node[p].left # o THEN q
                                          ELSE IF n = z THEN o ELSE t.node[n].right
        BY <3>3, <1>7, <1>8
      <4>2. /\ R[n] = q <=> n = z
            /\ R[n] = o <=> n = p /\ t.node[p].left # o
            /\ R[n] = t.node[n].right
        BY <3>3, <1>2, <1>6, <1>10
      <4>3. R[n] \in N \cup {NULL} /\ q # o
        BY <1>2, <1>5
      <4> HIDE DEF R, p
      <4> QED BY <4>1, <4>2, <4>3, <1>8
    <3> QED BY <3>1, <3>2, <3>3
  <2>2. DOMAIN R = N
    BY DEF Rights
  <2> QED BY <2>1, <2>2, <1>9 DEF Rights, Renamed
<1>13. s.root = e[t.root]
  <2>1. t.root \in N \cup {NULL} /\ (t.root = q => FALSE)
    <3>1. P[q] # NULL
      BY <1>1, <1>5, <1>6
    <3>2. q = t.root => P[q] = NULL
      BY <1>1, <1>5, Around
    <3> QED BY <3>1, <3>2, <1>1 DEF Hung
  <2>2. t.root = o <=> p = NULL
    BY <1>4
  <2> QED BY <2>1, <2>2, <1>7, <1>8
<1>14. \A n \in N \ {x} : P2[n] = s.node[n].parent
  <2> TAKE n \in N \ {x}
  <2>0. P2[n] = e[P[e[n]]]
    BY DEF Renamed, Parents
  <2>1. CASE n = q
    BY SMTT(30), <2>0, <2>1, <1>1, <1>4, <1>5, <1>7, <1>8
  <2>2. CASE n = o
    BY <2>0, <2>2, <1>5, <1>6, <1>7, <1>8
  <2>3. CASE n \notin {o, q}
    <3>1. e[n] = n /\ s.node[n].parent = IF n \in {l, r} THEN q ELSE t.node[n].parent
      BY <2>3, <1>7, <1>8
    <3>2. (P[n] = o <=> n \in {l, r}) /\ P[n] # q /\ P[n] = t.node[n].parent /\ P[n] \in N \cup {NULL}
      BY <1>2, <1>10
    <3> HIDE DEF P, l, r, x, P2
    <3> QED BY <2>0, <3>1, <3>2, <1>8
  <2> QED BY <2>1, <2>2, <2>3
<1>15. Hung(N, Lefts(s), Rights(s), P2, s.root, sub2)
  <2>1. Hung(N, Renamed(L, e), Renamed(R, e), Renamed(P, e), e[t.root], RenamedSub(N, sub, e))
    <3> HIDE DEF N, L, R, P
    <3> QED BY <1>1, <1>8, ExchangeHung
  <2> QED BY <2>1, <1>11, <1>12, <1>13
<1>16. Ordered(Lefts(s), Rights(s), sub2, N \ {o})
  <2>1. N \in SUBSET Nat /\ q \in sub[L[o]] /\ \A m \in sub[L[o]] : m = q \/ m < q
    BY <1>1, <1>3, <1>4, Addresses
  <2>2. Ordered(Renamed(L, e), Renamed(R, e), RenamedSub(N, sub, e), N \ {o})
    <3> HIDE DEF N, L, R, P
    <3> QED BY <2>1, <1>1, <1>8, ExchangeOrdered
  <2> QED BY <2>2, <1>11, <1>12
<1> DEFINE p2 == s.node[o].parent
<1>17. p2 = (IF l = q THEN q ELSE z) /\ OnlyChild(s, o) = x /\ s.node[o].right = NULL
  <2>1. s.node[o].left = x /\ s.node[o].right = NULL /\ p2 = IF l = q THEN q ELSE z
    BY <1>5, <1>7
  <2> QED BY <2>1 DEF OnlyChild
<1>18. ASSUME NEW n \in N \ {o, p2} PROVE Tight(s, n)
  <2>1. Tight(t, n) /\ Tight(t, o)
    BY <1>1 DEF AllTight
  <2>2. CASE n = q
    <3>1. l # q /\ l # NULL /\ r # NULL /\ r # q
      BY SMTT(30), <2>2, <1>1, <1>4, <1>5, <1>17
    <3>2. /\ s.node[q].left = l /\ s.node[q].right = r
          /\ s.node[q].lower = t.node[o].lower /\ s.node[q].upper = t.node[o].upper
      BY <3>1, <1>5, <1>7
    <3>3. s.node[l].lower = t.node[l].lower /\ s.node[r].upper = t.node[r].upper
      BY <3>1, <1>4, <1>7
    <3> QED BY <2>1, <2>2, <3>1, <3>2, <3>3 DEF Tight
  <2>3. CASE n # q
    <3>1. n \in N /\ n # o /\ n # z
      BY <2>3, <1>6, <1>17
    <3>2. s.node[n].lower = t.node[n].lower /\ s.node[n].upper = t.node[n].upper
      BY <2>3, <3>1, <1>7
    <3>3. t.node[n].lower = IF t.node[n].left = NULL THEN n ELSE t.node[t.node[n].left].lower
      BY <2>1 DEF Tight
    <3>4. t.node[n].upper = IF t.node[n].right = NULL THEN End(n) ELSE t.node[t.node[n].right].upper
      BY <2>1 DEF Tight
    <3>5. s.node[q].lower = t.node[o].lower /\ s.node[q].upper = t.node[o].upper /\ q # NULL
      BY <1>1, <1>5, <1>7
    <3>6. s.node[n].lower = IF s.node[n].left = NULL THEN n ELSE s.node[s.node[n].left].lower
      <4>1. CASE t.node[n].left = o
        <5>1. s.node[n].left = q
          BY <4>1, <2>3, <3>1, <1>2, <1>7, <1>10
        <5> QED BY <5>1, <4>1, <3>2, <3>3, <3>5, <1>1
      <4>2. CASE t.node[n].left # o
        <5>1. s.node[n].left = t.node[n].left /\ t.node[n].left # q /\ t.node[n].left \in N \cup {NULL}
          BY <4>2, <2>3, <3>1, <1>2, <1>7, <1>10
        <5>2. t.node[n].left # NULL => s.node[t.node[n].left].lower = t.node[t.node[n].left].lower
          BY <5>1, <1>7
        <5> QED BY <5>1, <5>2, <3>2, <3>3
      <4> QED BY <4>1, <4>2
    <3>7. s.node[n].upper = IF s.node[n].right = NULL THEN End(n) ELSE s.node[s.node[n].right].upper
      <4>1. CASE t.node[n].right = o
        <5>1. n = p /\ t.node[p].left # o
          BY <4>1, <3>1, <1>2, <1>10
        <5>2. s.node[n].right = q
          BY <5>1, <2>3, <3>1, <1>7
        <5> QED BY <5>2, <4>1, <3>2, <3>4, <3>5, <1>1
      <4>2. CASE t.node[n].right # o
        <5>1. t.node[n].right # q /\ t.node[n].right \in N \cup {NULL} /\ ~(n = p /\ t.node[p].left # o)
          BY <4>2, <3>1, <1>2, <1>10
        <5>3. s.node[n].right = t.node[n].right
          BY <5>1, <2>3, <3>1, <1>7
        <5>2. t.node[n].right # NULL => s.node[t.node[n].right].upper = t.node[t.node[n].right].upper
          BY <5>1, <1>7
        <5> QED BY <5>1, <5>2, <5>3, <3>2, <3>4
      <4> QED BY <4>1, <4>2
    <3> QED BY <3>6, <3>7 DEF Tight
  <2> QED BY <2>2, <2>3
<1>19. /\ Live(u) = Live(s) \ {o} /\ p2 \in Live(u) \cup {NULL}
       /\ \E new : Shape(u, new)
       /\ \A n \in Live(u) \ {p2} : Tight(u, n)
  <2>1. CutReady(s, o, P2, sub2)
    <3>1. /\ Live(s) \in SUBSET Block /\ IsFiniteSet(Live(s)) /\ s \in Trees(Live(s)) /\ o \in Live(s)
          /\ NULL \in {s.node[o].left, s.node[o].right}
      BY <1>1, <1>7, <1>9, <1>17
    <3>2. /\ Hung(Live(s), Lefts(s), Rights(s), P2, s.root, sub2)
          /\ \A n \in Live(s) \ {OnlyChild(s, o)} : P2[n] = s.node[n].parent
          /\ Ordered(Lefts(s), Rights(s), sub2, Live(s) \ {o})
          /\ \A n \in Live(s) \ {o, p2} : Tight(s, n)
      BY <1>9, <1>14, <1>15, <1>16, <1>17, <1>18
    <3> HIDE DEF P2, sub2
    <3> QED BY <3>1, <3>2 DEF CutReady
  <2> HIDE DEF P2, sub2
  <2> QED BY <2>1, CutSound
<1> QED BY <1>9, <1>19

\* The loop of an erasure repairs the bounds from p up to the root.
LEMMA RebalanceAfterEraseSound ==
  ASSUME NEW t, NEW sub, Shape(t, sub), NEW p \in Live(t) \cup {NULL},
         \A n \in Live(t) \ {p} : Tight(t, n)
  PROVE  Sound(RebalanceAfterErase(t, p)) /\ Live(RebalanceAfterErase(t, p)) = Live(t)
<1> DEFINE N == Live(t)
           chain == Ancestors(t, p)
           c == Len(chain)
           Next1(f, k) == IF k = 0 THEN t ELSE EraseStep(f[k - 1], chain[k])
           after[k \in 0..Len(chain)] == IF k = 0 THEN t ELSE EraseStep(after[k - 1], chain[k])
           above(k) == IF k = c THEN NULL ELSE chain[k + 1]
<1>0. NULL \notin N
  BY Addresses DEF Shape
<1>1. /\ chain \in Seq(N) /\ c \in Nat /\ \A k \in 1..c : chain[k] \in N
      /\ above(0) = p
      /\ \A i \in 1..c : t.node[chain[i]].parent = above(i)
      /\ \A i, j \in 1..c : i < j => chain[j] \notin sub[chain[i]]
  <2>1. PICK up : Climbs(N, Parents(t), up) /\ chain = up[p]
    BY AncestorsSteps
  <2>2. chain \in Seq(N) /\ (p = NULL => c = 0)
    BY <2>1 DEF Climbs
  <2>3. c \in Nat /\ \A k \in 1..c : chain[k] \in N
    BY <2>2
  <2>4. CASE p = NULL
    BY <2>2, <2>3, <2>4
  <2>5. CASE p # NULL
    <3>1. Hung(N, Lefts(t), Rights(t), Parents(t), t.root, sub) /\ IsFiniteSet(N) /\ p \in N
      BY <2>5 DEF Shape
    <3>2. /\ Len(up[p]) > 0 /\ up[p][1] = p
          /\ \A i \in 1..Len(up[p]) : Parents(t)[up[p][i]] = IF i = Len(up[p]) THEN NULL ELSE up[p][i + 1]
          /\ \A i, j \in 1..Len(up[p]) : i < j => up[p][j] \notin sub[up[p][i]]
      <4> HIDE DEF N
      <4> QED BY <2>1, <3>1, Climb
    <3>3. \A i \in 1..c : Parents(t)[chain[i]] = t.node[chain[i]].parent
      BY <2>3, NodeFields
    <3>4. chain = up[p]
      BY <2>1
    <3> HIDE DEF chain, N
    <3> QED BY <3>2, <3>3, <3>4, <2>2, <2>3
  <2> QED BY <2>4, <2>5
<1>2. RebalanceAfterErase(t, p) = after[c]
  BY DEF RebalanceAfterErase, after
<1> HIDE DEF chain, c
<1>3. \E f : f = [k \in 0..c |-> Next1(f, k)]
  <2> DEFINE T == {m \in 0..c : \E f : f = [k \in 0..m |-> Next1(f, k)]}
  <2>1. 0 \in T
    <3> DEFINE f == [k \in 0..0 |-> t]
    <3>1. \A k \in 0..0 : f[k] = Next1(f, k)
      OBVIOUS
    <3>2. f = [k \in 0..0 |-> f[k]]
      OBVIOUS
    <3>3. f = [k \in 0..0 |-> Next1(f, k)]
      <4> HIDE DEF f
      <4> QED BY <3>1, <3>2
    <3>4. \E g : g = [k \in 0..0 |-> Next1(g, k)]
      <4> HIDE DEF f, Next1
      <4> QED BY <3>3
    <3>5. 0 \in 0..c
      BY <1>1
    <3> QED BY <3>4, <3>5
  <2>2. ASSUME NEW m \in T, m < c PROVE m + 1 \in T
    <3>1. PICK f : f = [k \in 0..m |-> Next1(f, k)]
      OBVIOUS
    <3> DEFINE g == [k \in 0..(m + 1) |-> IF k = m + 1 THEN Next1(f, k) ELSE f[k]]
    <3>2. m \in Nat /\ m + 1 \in 0..c
      BY <2>2, <1>1
    <3>3. ASSUME NEW k \in 0..(m + 1) PROVE g[k] = Next1(g, k)
      <4>1. CASE k = m + 1
        <5>1. k # 0 /\ k - 1 = m /\ g[k - 1] = f[m]
          BY <3>2, <4>1
        <5> QED BY <5>1, <4>1
      <4>2. CASE k # m + 1 /\ k # 0
        <5>1. k \in 0..m /\ k - 1 \in 0..m
          BY <3>2, <4>2
        <5>2. g[k - 1] = f[k - 1] /\ g[k] = f[k] /\ f[k] = Next1(f, k)
          BY <5>1, <3>1, <3>2
        <5> HIDE DEF g
        <5> QED BY <5>2, <4>2
      <4>3. CASE k = 0
        <5>1. 0 \in 0..m /\ 0 # m + 1
          BY <3>2
        <5>2. g[k] = f[0] /\ f[0] = t
          BY <5>1, <4>3, <3>1
        <5> QED BY <5>2, <4>3
      <4> QED BY <4>1, <4>2, <4>3
    <3>4. g = [k \in 0..(m + 1) |-> g[k]]
      OBVIOUS
    <3>5. g = [k \in 0..(m + 1) |-> Next1(g, k)]
      <4> HIDE DEF g
      <4> QED BY <3>3, <3>4
    <3> QED BY <3>2, <3>5
  <2>3. T = 0..c
    <3>1. T \in SUBSET (0..c)
      OBVIOUS
    <3> HIDE DEF T
    <3> QED BY <1>1, <2>1, <2>2, <3>1, UpTo
  <2>4. c \in T
    <3>1. c \in 0..c
      BY <1>1
    <3> HIDE DEF T
    <3> QED BY <3>1, <2>3
  <2> QED BY <2>4
<1>4. after = [k \in 0..Len(chain) |-> IF k = 0 THEN t ELSE EraseStep(after[k - 1], chain[k])]
  BY <1>3 DEF after, c
<1>5. after = [k \in 0..c |-> IF k = 0 THEN t ELSE EraseStep(after[k - 1], chain[k])]
  BY <1>4 DEF c
<1> HIDE DEF after
<1>6. after[0] = t /\ \A k \in 1..c : after[k] = EraseStep(after[k - 1], chain[k])
  <2>1. 0 \in 0..c /\ \A k \in 1..c : k \in 0..c /\ k # 0
    BY <1>1
  <2> QED BY <2>1, <1>5
\* Before the loop reaches chain[k + 1] only its bounds may be wrong, and the
\* rest of the chain is as it was.
<1> DEFINE Good(k, new) ==
             /\ Shape(after[k], new) /\ Live(after[k]) = N
             /\ \A n \in N \ {above(k)} : Tight(after[k], n)
             /\ \A i \in 1..c : k < i => after[k].node[chain[i]].parent = above(i)
             /\ \A i, j \in 1..c : k < i /\ i < j => chain[j] \notin new[chain[i]]
           T == {k \in 0..c : \E new : Good(k, new)}
<1>7. 0 \in T
  <2>1. Good(0, sub)
    BY <1>1, <1>6
  <2>2. 0 \in 0..c
    BY <1>1
  <2> QED BY <2>1, <2>2
<1>8. ASSUME NEW k \in T, k < c PROVE k + 1 \in T
  <2> DEFINE q == chain[k + 1]
             s == after[k]
             u == after[k + 1]
  <2>1. PICK old : Good(k, old)
    OBVIOUS
  <2>2. k \in Nat /\ k + 1 \in 1..c /\ k + 1 \in 0..c /\ (k + 1) - 1 = k /\ q \in N /\ above(k) = q /\ k < k + 1
    BY <1>1, <1>8
  <2>3. u = EraseStep(s, q)
    BY <1>6, <2>2
  <2>4. /\ Shape(s, old) /\ Live(s) = N /\ q \in Live(s) /\ \A n \in Live(s) \ {q} : Tight(s, n)
    BY <2>1, <2>2
  <2>5. PICK new : /\ Shape(u, new) /\ Live(u) = N
                   /\ \A n \in N \ {s.node[q].parent} : Tight(u, n)
                   /\ \A n \in N \ old[q] : new[n] = old[n] /\ u.node[n].parent = s.node[n].parent
    <3> HIDE DEF q, s, u, N
    <3> QED BY <2>3, <2>4, EraseStepRepairs
  <2>6. s.node[q].parent = above(k + 1)
    BY <2>1, <2>2
  <2>7. ASSUME NEW i \in 1..c, k + 1 < i
        PROVE  chain[i] \in N /\ chain[i] \notin old[q] /\ k < i
    <3>1. k < i
      BY <2>2, <2>7
    <3> QED BY <3>1, <2>1, <2>2, <2>7, <1>1
  <2>8. \A i \in 1..c : k + 1 < i => u.node[chain[i]].parent = above(i)
    <3> TAKE i \in 1..c
    <3> HAVE k + 1 < i
    <3>1. u.node[chain[i]].parent = s.node[chain[i]].parent
      BY <2>5, <2>7
    <3>2. s.node[chain[i]].parent = above(i)
      BY <2>1, <2>7
    <3> QED BY <3>1, <3>2
  <2>9. \A i, j \in 1..c : k + 1 < i /\ i < j => chain[j] \notin new[chain[i]]
    <3> TAKE i, j \in 1..c
    <3> HAVE k + 1 < i /\ i < j
    <3>1. new[chain[i]] = old[chain[i]]
      BY <2>5, <2>7
    <3>2. chain[j] \notin old[chain[i]]
      BY <2>1, <2>7
    <3> QED BY <3>1, <3>2
  <2>10. Good(k + 1, new)
    <3> HIDE DEF above, q, N
    <3> QED BY <2>5, <2>6, <2>8, <2>9
  <2> QED BY <2>2, <2>10
<1>9. T = 0..c
  <2>1. T \in SUBSET (0..c)
    OBVIOUS
  <2> HIDE DEF T
  <2> QED BY <1>1, <1>7, <1>8, <2>1, UpTo
<1>10. PICK new : Good(c, new)
  <2>1. c \in T
    BY <1>1, <1>9
  <2> QED BY <2>1
<1>11. \A n \in N : Tight(after[c], n)
  BY <1>0, <1>10
<1> QED BY <1>2, <1>10, <1>11 DEF Sound, AllTight

\* An erasure keeps the tree a search tree with exact bounds.
LEMMA EraseSound ==
  ASSUME NEW t, Sound(t), NEW o \in Live(t)
  PROVE  Sound(EraseObject(t, o)) /\ Live(EraseObject(t, o)) = Live(t) \ {o}
<1> DEFINE s == IF NULL \notin {t.node[o].left, t.node[o].right} THEN SwapWithPredecessor(t, o) ELSE t
           u == Cut(s, o)
           p == s.node[o].parent
<1>1. PICK sub : Shape(t, sub) /\ AllTight(t)
  BY DEF Sound
<1>2. /\ Live(u) = Live(t) \ {o} /\ p \in Live(u) \cup {NULL}
      /\ \E new : Shape(u, new)
      /\ \A n \in Live(u) \ {p} : Tight(u, n)
  <2>1. CASE NULL \notin {t.node[o].left, t.node[o].right}
    <3>1. s = SwapWithPredecessor(t, o) /\ t.node[o].left # NULL /\ t.node[o].right # NULL
      BY <2>1
    <3> HIDE DEF s
    <3> QED BY <3>1, <1>1, SwapAndCut
  <2>2. CASE NULL \in {t.node[o].left, t.node[o].right}
    <3>1. s = t
      BY <2>2
    <3>2. \A n \in Live(t) : Parents(t)[n] = t.node[n].parent
      BY DEF Parents
    <3>3. CutReady(t, o, Parents(t), sub)
      BY <2>2, <3>2, <1>1 DEF CutReady, Shape, Ordered, AllTight
    <3> HIDE DEF s
    <3> QED BY <3>1, <3>3, CutSound
  <2> QED BY <2>1, <2>2
<1>3. EraseObject(t, o) = RebalanceAfterErase(u, p)
  BY DEF EraseObject
<1> HIDE DEF s, u, p
<1> QED BY <1>2, <1>3, RebalanceAfterEraseSound

-----------------------------------------------------------------------------
(* Lookup.                                                                 *)

Holds(m, a) == m <= a /\ a < End(m)

\* What object_from_pointer returns for address a when the objects of M need not
\* be found: an object that holds the address, unless it is one of those.
Finds(S, a, M, b) ==
  /\ \A o \in S : Holds(o, a) => b = o \/ (b = NULL /\ o \in M)
  /\ (\A o \in S : ~Holds(o, a)) => b = NULL

\* The recursion of FromPointer finds the live block that holds address a, or
\* stops above it where the marker has marked a whole subtree.
LEMMA FromPointerPruned ==
  ASSUME NEW t, NEW sub, Shape(t, sub), AllTight(t), Apart(Live(t)), NEW a \in Nat,
         NEW all, NEW find \in BOOLEAN, NEW M, \A n \in Live(t) : n \in all /\ ~find => sub[n] \subseteq M
  PROVE  Finds(Live(t), a, M, FromPointer(t, all, a, find))
<1> DEFINE N == Live(t)
           D == N \cup {NULL}
           look[n \in Live(t) \cup {NULL}] ==
             IF n = NULL                                          THEN NULL
             ELSE IF (n \in all /\ ~find) \/ a < t.node[n].lower
                                          \/ a >= t.node[n].upper THEN NULL
             ELSE IF a < n                                        THEN look[t.node[n].left]
             ELSE IF a < End(n)                                   THEN n
             ELSE look[t.node[n].right]
           Skip(n) == (n \in all /\ ~find) \/ a < t.node[n].lower \/ a >= t.node[n].upper
           Body(n, f) == IF n = NULL THEN NULL
                         ELSE IF Skip(n) THEN NULL
                         ELSE IF a < n THEN f[t.node[n].left]
                         ELSE IF a < End(n) THEN n
                         ELSE f[t.node[n].right]
           G == [n \in D |-> [f \in [D -> D] |-> Body(n, f)]]
<1>1. /\ Hung(N, Lefts(t), Rights(t), Parents(t), t.root, sub) /\ IsFiniteSet(N) /\ NULL \notin N
      /\ N \in SUBSET Block /\ Ordered(Lefts(t), Rights(t), sub, N)
  BY Addresses DEF Shape
<1>2. \A n \in N : /\ n \in Nat /\ End(n) \in Nat /\ n < End(n)
                   /\ t.node[n].left = Lefts(t)[n] /\ t.node[n].right = Rights(t)[n]
                   /\ t.node[n].left \in D /\ t.node[n].right \in D
                   /\ t.node[n].lower \in Nat /\ t.node[n].upper \in Nat
  BY <1>1, NodeFields, Addresses
<1>3. \A n \in N : /\ sub[n] \subseteq N /\ sub[NULL] = {} /\ n \in sub[n]
                   /\ sub[n] = {n} \cup sub[t.node[n].left] \cup sub[t.node[n].right]
  <2>1. \A n \in N : /\ sub[n] \subseteq N /\ sub[NULL] = {} /\ n \in sub[n]
                     /\ sub[n] = {n} \cup sub[Lefts(t)[n]] \cup sub[Rights(t)[n]]
    <3> HIDE DEF N
    <3> QED BY <1>1, Around
  <2> QED BY <2>1, <1>2
<1>4. \A n \in N : /\ \A m \in sub[t.node[n].left] : m < n
                   /\ \A m \in sub[t.node[n].right] : n < m
  BY SMTT(30), <1>1, <1>2, <1>3 DEF Ordered
<1> HIDE DEF Skip
<1>5. ByChildren(N, Lefts(t), Rights(t), D, D, G)
  <2>1. ASSUME NEW n \in D, NEW f \in [D -> D] PROVE Body(n, f) \in D
    BY <1>2
  <2>2. G \in [D -> [[D -> D] -> D]]
    BY <2>1
  <2>3. ASSUME NEW n \in D, NEW f \in [D -> D], NEW g \in [D -> D],
               n \in N => \A m \in D : m \in {Lefts(t)[n], Rights(t)[n]} => f[m] = g[m]
        PROVE  G[n][f] = G[n][g]
    <3>1. n # NULL => f[t.node[n].left] = g[t.node[n].left] /\ f[t.node[n].right] = g[t.node[n].right]
      BY <2>3, <1>2
    <3> HIDE DEF D
    <3> QED BY <3>1
  <2> HIDE DEF G
  <2> QED BY <2>2, <2>3 DEF ByChildren
<1>6. PICK f \in [D -> D] : \A n \in D : f[n] = G[n][f]
  <2> HIDE DEF G, N, D
  <2> QED BY <1>1, <1>5, DownRecursion
<1>7. \A n \in D : f[n] = Body(n, f)
  <2> HIDE DEF D
  <2> QED BY <1>6
<1>8. f = [n \in Live(t) \cup {NULL} |->
             IF n = NULL                                          THEN NULL
             ELSE IF (n \in all /\ ~find) \/ a < t.node[n].lower
                                          \/ a >= t.node[n].upper THEN NULL
             ELSE IF a < n                                        THEN f[t.node[n].left]
             ELSE IF a < End(n)                                   THEN n
             ELSE f[t.node[n].right]]
  <2>1. f = [n \in D |-> f[n]]
    <3> HIDE DEF D
    <3> QED OBVIOUS
  <2>2. f = [n \in D |-> Body(n, f)]
    <3> HIDE DEF D, Body
    <3> QED BY <2>1, <1>7, ZenonT(60)
  <2> QED BY <2>2, ZenonT(60) DEF Skip
<1>9. look = [n \in Live(t) \cup {NULL} |->
                IF n = NULL                                          THEN NULL
                ELSE IF (n \in all /\ ~find) \/ a < t.node[n].lower
                                             \/ a >= t.node[n].upper THEN NULL
                ELSE IF a < n                                        THEN look[t.node[n].left]
                ELSE IF a < End(n)                                   THEN n
                ELSE look[t.node[n].right]]
  BY <1>8, ZenonT(60) DEF look
<1>10. FromPointer(t, all, a, find) = IF a = NULL THEN NULL ELSE look[t.root]
  BY ZenonT(60) DEF FromPointer, look
<1> HIDE DEF look
<1>11. look[NULL] = NULL /\ \A n \in N : look[n] = Body(n, look)
  BY <1>1, <1>9, ZenonT(60) DEF Skip
<1>12. ASSUME NEW n \in N,
              t.node[n].left # NULL => Finds(sub[t.node[n].left], a, M, look[t.node[n].left]),
              t.node[n].right # NULL => Finds(sub[t.node[n].right], a, M, look[t.node[n].right])
       PROVE  Finds(sub[n], a, M, look[n])
  <2> DEFINE l == t.node[n].left
             r == t.node[n].right
  <2>1. /\ \A m \in sub[n] : t.node[n].lower <= m
        /\ \A m \in sub[n] : End(m) <= t.node[n].upper
    BY BoundsCover
  <2>2. n # NULL /\ look[n] = Body(n, look)
    BY <1>1, <1>11
  <2>3. Finds(sub[l], a, M, look[l]) /\ Finds(sub[r], a, M, look[r])
    BY <1>3, <1>11, <1>12 DEF Finds
  <2>4. CASE n \in all /\ ~find
    <3>1. look[n] = NULL /\ sub[n] \subseteq M
      BY <2>2, <2>4 DEF Skip
    <3> QED BY <3>1 DEF Finds
  <2>5. CASE a < t.node[n].lower \/ a >= t.node[n].upper
    <3>1. ASSUME NEW m \in sub[n] PROVE ~Holds(m, a)
      <4>1. m \in Nat /\ End(m) \in Nat /\ t.node[n].lower <= m /\ End(m) <= t.node[n].upper
            /\ t.node[n].lower \in Nat /\ t.node[n].upper \in Nat
        BY <1>2, <1>3, <2>1
      <4> QED BY <4>1, <2>5 DEF Holds
    <3>2. look[n] = NULL
      BY <2>2, <2>5 DEF Skip
    <3> QED BY <3>1, <3>2 DEF Finds
  <2>6. CASE ~Skip(n) /\ a < n
    <3>1. ASSUME NEW m \in sub[n], Holds(m, a) PROVE m \in sub[l]
      <4>1. m < n
        BY <3>1, <2>6, <1>2, <1>3 DEF Holds
      <4>2. m \in Nat /\ n \in Nat /\ (m = n \/ m \in sub[l] \/ n < m)
        BY <1>2, <1>3, <1>4
      <4> QED BY <4>1, <4>2
    <3>2. look[n] = look[l]
      BY <2>2, <2>6
    <3>3. sub[l] \subseteq sub[n]
      BY <1>3
    <3> HIDE DEF l
    <3> QED BY <3>1, <3>2, <3>3, <2>3 DEF Finds
  <2>7. CASE ~Skip(n) /\ ~(a < n) /\ a < End(n)
    <3>1. Holds(n, a)
      BY <2>7, <1>2 DEF Holds
    <3>2. ASSUME NEW m \in sub[n], Holds(m, a) PROVE m = n
      <4>1. /\ m \in N /\ m \in Nat /\ n \in Nat /\ End(m) \in Nat /\ End(n) \in Nat
            /\ m <= a /\ a < End(m) /\ n <= a /\ a < End(n)
        BY <3>1, <3>2, <1>2, <1>3 DEF Holds
      <4>2. (m < n => End(m) <= n) /\ (n < m => End(n) <= m)
        BY <4>1 DEF Apart
      <4> QED BY <4>1, <4>2
    <3>3. look[n] = n
      BY <2>2, <2>7
    <3>4. n \in sub[n]
      BY <1>3
    <3> QED BY <3>1, <3>2, <3>3, <3>4 DEF Finds
  <2>8. CASE ~Skip(n) /\ ~(a < n) /\ ~(a < End(n))
    <3>1. ASSUME NEW m \in sub[n], Holds(m, a) PROVE m \in sub[r]
      <4>1. /\ m \in N /\ m \in Nat /\ n \in Nat /\ End(m) \in Nat /\ End(n) \in Nat
            /\ m <= a /\ a < End(m) /\ End(n) <= a
        BY <3>1, <2>8, <1>2, <1>3 DEF Holds
      <4>2. m < n => End(m) <= n
        BY <4>1 DEF Apart
      <4>3. m = n \/ m < n \/ m \in sub[r]
        BY <1>3, <1>4
      <4>4. n < End(n)
        BY <1>2
      <4> QED BY <4>1, <4>2, <4>3, <4>4
    <3>2. look[n] = look[r]
      BY <2>2, <2>8
    <3>3. sub[r] \subseteq sub[n]
      BY <1>3
    <3> HIDE DEF r
    <3> QED BY <3>1, <3>2, <3>3, <2>3 DEF Finds
  <2> QED BY <2>4, <2>5, <2>6, <2>7, <2>8 DEF Skip
<1>13. \A n \in N : Finds(sub[n], a, M, look[n])
  <2> DEFINE T == {n \in N : ~Finds(sub[n], a, M, look[n])}
  <2>1. ASSUME NEW n \in T PROVE Lefts(t)[n] \in T \/ Rights(t)[n] \in T
    BY <1>2, <1>12
  <2>2. T \in SUBSET N
    OBVIOUS
  <2>3. T = {}
    <3> HIDE DEF T, N
    <3> QED BY <1>1, <2>1, <2>2, DownInduction
  <2> QED BY <2>3
<1>14. t.root \in D /\ sub[t.root] = N /\ sub[NULL] = {}
  BY <1>1 DEF Hung
<1>15. Finds(N, a, M, look[t.root])
  BY <1>11, <1>13, <1>14 DEF Finds
<1>16. a = NULL => Finds(N, a, M, NULL)
  BY <1>2, <1>1, Addresses DEF Holds, Finds
<1> QED BY <1>10, <1>15, <1>16

\* Otherwise it finds the one live block that holds the address.
LEMMA FromPointerExact ==
  ASSUME NEW t, Sound(t), Apart(Live(t)), NEW a \in Nat
  PROVE  LET b == FromPointer(t, {}, a, TRUE)
         IN /\ \A o \in Live(t) : Holds(o, a) => b = o
            /\ (\A o \in Live(t) : ~Holds(o, a)) => b = NULL
<1>1. PICK sub : Shape(t, sub) /\ AllTight(t)
  BY DEF Sound
<1>2. Finds(Live(t), a, {}, FromPointer(t, {}, a, TRUE))
  BY <1>1, FromPointerPruned
<1> QED BY <1>2 DEF Finds

-----------------------------------------------------------------------------
(* Traversals.                                                             *)

\* The recursion of First defines it: the least node of n's subtree.
LEMMA FirstExact ==
  ASSUME NEW t, NEW sub, Shape(t, sub), NEW n \in Live(t)
  PROVE  First(t, n) \in sub[n] /\ \A m \in sub[n] : m = First(t, n) \/ First(t, n) < m
<1> DEFINE N == Live(t)
           L == Lefts(t)
           Body(k, f) == IF L[k] = NULL THEN k ELSE f[L[k]]
           G == [k \in N |-> [f \in [N -> N] |-> Body(k, f)]]
           leftmost[m \in Live(t)] == IF t.node[m].left = NULL THEN m ELSE leftmost[t.node[m].left]
<1>1. /\ \A k \in N : L[k] \in N \cup {NULL} /\ L[k] = t.node[k].left
      /\ IsFiniteSet(N) /\ Hung(N, L, Rights(t), Parents(t), t.root, sub)
      /\ Ordered(L, Rights(t), sub, N)
  <2>1. IsFiniteSet(N) /\ Hung(N, L, Rights(t), Parents(t), t.root, sub) /\ Ordered(L, Rights(t), sub, N)
    BY DEF Shape
  <2> QED BY <2>1, NodeFields
<1>2. ByChildren(N, L, Rights(t), N, N, G)
  <2>1. ASSUME NEW k \in N, NEW f \in [N -> N] PROVE Body(k, f) \in N
    BY <1>1
  <2>2. G \in [N -> [[N -> N] -> N]]
    BY <2>1
  <2>3. ASSUME NEW k \in N, NEW f \in [N -> N], NEW g \in [N -> N],
               k \in N => \A m \in N : m \in {L[k], Rights(t)[k]} => f[m] = g[m]
        PROVE  G[k][f] = G[k][g]
    BY <1>1, <2>3
  <2> HIDE DEF G
  <2> QED BY <2>2, <2>3 DEF ByChildren
<1>3. PICK f \in [N -> N] : \A k \in N : f[k] = G[k][f]
  <2> HIDE DEF G, N, L
  <2> QED BY <1>1, <1>2, DownRecursion
<1>4. f = [m \in Live(t) |-> IF t.node[m].left = NULL THEN m ELSE f[t.node[m].left]]
  <2>1. \A m \in N : f[m] = IF t.node[m].left = NULL THEN m ELSE f[t.node[m].left]
    BY <1>1, <1>3
  <2>2. f = [m \in N |-> f[m]]
    BY ZenonT(60)
  <2> QED BY <2>1, <2>2
<1>5. leftmost = [m \in Live(t) |-> IF t.node[m].left = NULL THEN m ELSE leftmost[t.node[m].left]]
  BY <1>4, ZenonT(60) DEF leftmost
<1>6. n # NULL /\ First(t, n) = leftmost[n]
  <2>1. n # NULL
    BY NodeFields
  <2> QED BY <2>1, ZenonT(60) DEF First, leftmost
<1> HIDE DEF leftmost
<1>7. \A m \in N : /\ f[m] = IF L[m] = NULL THEN m ELSE f[L[m]]
                   /\ leftmost[m] = IF L[m] = NULL THEN m ELSE leftmost[L[m]]
  BY <1>1, <1>3, <1>5
<1>8. \A m \in N : leftmost[m] = f[m]
  <2> DEFINE T == {m \in N : leftmost[m] # f[m]}
  <2>1. \A m \in T : L[m] \in T
    BY <1>1, <1>7
  <2>2. T \in SUBSET N
    OBVIOUS
  <2>3. T = {}
    <3> HIDE DEF T, N, L
    <3> QED BY <1>1, <2>1, <2>2, DownInduction
  <2> QED BY <2>3
<1>9. Firsts(N, L, leftmost)
  <2>1. leftmost = [m \in N |-> leftmost[m]]
    BY <1>5
  <2> QED BY <2>1, <1>7, <1>8 DEF Firsts
<1>10. Numbers(N)
  BY Addresses DEF Shape, Numbers
<1> HIDE DEF N, L
<1>11. leftmost[n] \in sub[n] /\ \A m \in sub[n] : m = leftmost[n] \/ leftmost[n] < m
  BY <1>1, <1>9, <1>10, FirstLeast DEF N
<1> QED BY <1>6, <1>11

\* Climbing from m, as object_succ does.
Above(t) ==
  LET climb[m \in Live(t)] ==
        LET p == t.node[m].parent IN
        IF p # NULL /\ m = t.node[p].right THEN climb[p] ELSE p
  IN climb

\* The recursion of object_succ that climbs defines a function.
LEMMA AboveExact ==
  ASSUME NEW t, NEW sub, Shape(t, sub)
  PROVE  Nexts(Live(t), Rights(t), Parents(t), Above(t))
<1> DEFINE N == Live(t)
           R == Rights(t)
           P == Parents(t)
           D == N \cup {NULL}
           Body(m, f) == IF m # NULL /\ P[m] # NULL /\ m = R[P[m]] THEN f[P[m]]
                         ELSE IF m = NULL THEN NULL ELSE P[m]
           G == [m \in D |-> [f \in [D -> D] |-> Body(m, f)]]
           climb[m \in Live(t)] ==
             LET p == t.node[m].parent IN
             IF p # NULL /\ m = t.node[p].right THEN climb[p] ELSE p
<1>1. /\ NULL \notin N /\ \A m \in N : /\ P[m] \in D /\ P[m] = t.node[m].parent
                                       /\ R[m] = t.node[m].right
      /\ IsFiniteSet(N) /\ Hung(N, Lefts(t), R, P, t.root, sub)
  <2>1. NULL \notin N /\ IsFiniteSet(N) /\ Hung(N, Lefts(t), R, P, t.root, sub)
    BY DEF Shape, Hung
  <2> QED BY <2>1, NodeFields
<1>2. ByParent(N, P, D, D, G)
  <2>1. ASSUME NEW m \in D, NEW f \in [D -> D] PROVE Body(m, f) \in D
    BY <1>1
  <2>2. G \in [D -> [[D -> D] -> D]]
    BY <2>1
  <2>3. ASSUME NEW m \in D, NEW f \in [D -> D], NEW g \in [D -> D], m \in N => f[P[m]] = g[P[m]]
        PROVE  G[m][f] = G[m][g]
    BY <2>3, <1>1
  <2> HIDE DEF G
  <2> QED BY <2>2, <2>3 DEF ByParent
<1>3. PICK f \in [D -> D] : \A m \in D : f[m] = G[m][f]
  <2> HIDE DEF G, N, P, R, D
  <2> QED BY <1>1, <1>2, UpRecursion
<1>4. \A m \in N : f[m] = LET p == t.node[m].parent IN
                          IF p # NULL /\ m = t.node[p].right THEN f[p] ELSE p
  <2> TAKE m \in N
  <2>1. f[m] = Body(m, f) /\ m # NULL /\ P[m] \in D /\ P[m] = t.node[m].parent
    BY <1>1, <1>3
  <2>2. P[m] # NULL => R[P[m]] = t.node[P[m]].right
    BY <1>1
  <2> HIDE DEF P, R
  <2> QED BY <2>1, <2>2
<1> DEFINE g == [m \in N |-> f[m]]
<1>5. g = [m \in Live(t) |-> LET p == t.node[m].parent IN
                             IF p # NULL /\ m = t.node[p].right THEN g[p] ELSE p]
  <2>1. ASSUME NEW m \in N
        PROVE  f[m] = LET p == t.node[m].parent IN
                      IF p # NULL /\ m = t.node[p].right THEN g[p] ELSE p
    <3>1. t.node[m].parent # NULL => g[t.node[m].parent] = f[t.node[m].parent]
      <4>1. t.node[m].parent \in D
        BY <1>1
      <4> HIDE DEF N
      <4> QED BY <4>1
    <3> HIDE DEF g, N
    <3> QED BY <3>1, <1>4
  <2> HIDE DEF N
  <2> QED BY <2>1 DEF N
<1> HIDE DEF g
<1>6. climb = [m \in Live(t) |-> LET p == t.node[m].parent IN
                                 IF p # NULL /\ m = t.node[p].right THEN climb[p] ELSE p]
  BY <1>5, ZenonT(60) DEF climb
<1>7. Above(t) = climb
  BY ZenonT(60) DEF Above, climb
<1> HIDE DEF climb
<1>8. ASSUME NEW m \in N
      PROVE  climb[m] = IF P[m] # NULL /\ m = R[P[m]] THEN climb[P[m]] ELSE P[m]
  <2>1. climb[m] = IF t.node[m].parent # NULL /\ m = t.node[t.node[m].parent].right
                   THEN climb[t.node[m].parent] ELSE t.node[m].parent
    BY <1>6
  <2>2. P[m] = t.node[m].parent /\ (P[m] # NULL => R[P[m]] = t.node[P[m]].right)
    BY <1>1
  <2> HIDE DEF P, R
  <2> QED BY <2>1, <2>2
<1> QED BY <1>7, <1>8 DEF Nexts

\* object_succ leads to the next live object, by address.
LEMMA SuccNext ==
  ASSUME NEW t, NEW sub, Shape(t, sub), NEW o \in Live(t)
  PROVE  /\ Succ(t, o) \in Live(t) \cup {NULL}
         /\ Succ(t, o) # NULL => o < Succ(t, o)
         /\ \A n \in Live(t) : o < n => Succ(t, o) # NULL /\ Succ(t, o) <= n
<1> DEFINE N == Live(t)
           r == t.node[o].right
<1>1. /\ IsFiniteSet(N) /\ Hung(N, Lefts(t), Rights(t), Parents(t), t.root, sub)
      /\ Ordered(Lefts(t), Rights(t), sub, N) /\ Numbers(N)
  BY Addresses DEF Shape, Numbers
<1>2. /\ Lefts(t)[o] \in N \cup {NULL} /\ r = Rights(t)[o] /\ r \in N \cup {NULL}
      /\ sub[o] = {o} \cup sub[Lefts(t)[o]] \cup sub[r] /\ sub[o] \subseteq N /\ o \in sub[o]
      /\ sub[NULL] = {}
  <2>1. r = Rights(t)[o]
    BY NodeFields
  <2> HIDE DEF r, N
  <2> QED BY <2>1, <1>1, Around DEF N
<1>3. (\A m \in sub[Lefts(t)[o]] : m < o) /\ (\A m \in sub[r] : o < m)
  BY <1>1, <1>2 DEF Ordered
<1>4. \A n \in N : n \in Nat
  BY <1>1 DEF Numbers
<1>5. CASE r # NULL
  <2> DEFINE s == First(t, r)
  <2>1. Succ(t, o) = s
    BY <1>5, ZenonT(60) DEF Succ
  <2>2. s \in sub[r] /\ \A m \in sub[r] : m = s \/ s < m
    BY <1>2, <1>5, FirstExact
  <2>3. s \in N /\ s # NULL /\ o < s
    <3>1. NULL \notin N
      BY <1>1 DEF Hung
    <3> QED BY <3>1, <2>2, <1>2, <1>3
  <2>4. ASSUME NEW n \in N, o < n PROVE s <= n
    <3>1. n \in Nat /\ s \in Nat /\ o \in Nat
      BY <1>4, <2>3
    <3>2. CASE n \in sub[o]
      <4>1. n \in sub[r]
        BY <3>1, <3>2, <2>4, <1>2, <1>3
      <4> QED BY <4>1, <3>1, <2>2
    <3>3. CASE n \notin sub[o]
      <4>1. (\A k \in sub[o] : k < n) \/ (\A k \in sub[o] : n < k)
        <5> HIDE DEF N
        <5> QED BY <3>3, <1>1, Interval DEF N
      <4>2. s \in sub[o] /\ ~(n < o)
        BY <2>2, <2>4, <1>2, <3>1
      <4> QED BY <4>1, <4>2, <3>1, <1>2
    <3> QED BY <3>2, <3>3
  <2> HIDE DEF s
  <2> QED BY <2>1, <2>3, <2>4
<1>6. CASE r = NULL
  <2>1. Succ(t, o) = Above(t)[o]
    BY <1>6, ZenonT(60) DEF Succ, Above
  <2>2. Follows(N, sub, o, Above(t)[o])
    <3>1. Nexts(N, Rights(t), Parents(t), Above(t))
      BY AboveExact
    <3> HIDE DEF N
    <3> QED BY <3>1, <1>1, NextFollows DEF N
  <2>3. \A n \in N : o < n => n \notin sub[o]
    <3>1. sub[r] = {}
      BY <1>2, <1>6
    <3>2. ASSUME NEW n \in N, o < n PROVE n # o /\ ~(n < o)
      BY <3>2, <1>4
    <3> QED BY <3>1, <3>2, <1>2, <1>3
  <2> QED BY <2>1, <2>2, <2>3, <1>2 DEF Follows
<1> QED BY <1>5, <1>6

-----------------------------------------------------------------------------
(* The walk of the sweep.                                                  *)

Successors(t) == [n \in Live(t) |-> Succ(t, n)]

\* The recursion of SuccWalk defines it.
LEMMA SuccWalkSteps ==
  ASSUME NEW t, NEW sub, Shape(t, sub)
  PROVE  /\ Advances(Live(t), Successors(t))
         /\ \E trail : Trails(Live(t), Successors(t), trail) /\ SuccWalk(t) = trail[First(t, t.root)]
<1> DEFINE N == Live(t)
           X == Successors(t)
           D == N \cup {NULL}
           S == Seq(N)
           rank == Unwalked(N)
           Body(n, f) == IF n = NULL THEN << >> ELSE <<n>> \o f[X[n]]
           G == [n \in D |-> [f \in [D -> S] |-> Body(n, f)]]
           walk[n \in Live(t) \cup {NULL}] == IF n = NULL THEN << >> ELSE <<n>> \o walk[Succ(t, n)]
<1>1. /\ N \subseteq Nat /\ IsFiniteSet(N) /\ NULL \notin N
      /\ \A n \in N : X[n] = Succ(t, n) /\ X[n] \in D
      /\ \A n \in N : X[n] # NULL => n < X[n]
      /\ \A n, m \in N : n < m => X[n] # NULL /\ X[n] <= m
      /\ X \in [N -> D]
  <2>1. N \subseteq Nat /\ IsFiniteSet(N) /\ NULL \notin N
    BY Addresses DEF Shape
  <2>2. \A n \in N : X[n] = Succ(t, n)
    BY DEF Successors
  <2>3. \A n \in N : X[n] \in D /\ (X[n] # NULL => n < X[n])
    BY <2>2, SuccNext
  <2>4. \A n, m \in N : n < m => X[n] # NULL /\ X[n] <= m
    BY <2>2, SuccNext
  <2>5. X \in [N -> D]
    BY <2>2, <2>3 DEF Successors
  <2> QED BY <2>1, <2>2, <2>3, <2>4, <2>5
<1>2. Advances(N, X)
  BY <1>1 DEF Advances
<1>3. rank \in [D -> Nat] /\ \A n \in N : rank[X[n]] < rank[n]
  BY <1>2, UnwalkedShrinks
<1>4. Recursive(D, rank, S, G)
  <2>1. S # {}
    <3>1. << >> \in Seq(N)
      OBVIOUS
    <3> QED BY <3>1
  <2>2. ASSUME NEW n \in D, NEW f \in [D -> S] PROVE Body(n, f) \in S
    <3>1. CASE n = NULL
      BY <3>1
    <3>2. CASE n \in N
      <4>1. X[n] \in D /\ n # NULL
        BY <1>1, <3>2
      <4>2. f[X[n]] \in S /\ <<n>> \in S
        BY <4>1, <3>2
      <4> QED BY <4>1, <4>2
    <3> QED BY <3>1, <3>2
  <2>3. G \in [D -> [[D -> S] -> S]]
    BY <2>2
  <2>4. ASSUME NEW n \in D, NEW f \in [D -> S], NEW g \in [D -> S],
               \A y \in D : rank[y] < rank[n] => f[y] = g[y]
        PROVE  G[n][f] = G[n][g]
    <3>1. CASE n = NULL
      BY <3>1
    <3>2. CASE n \in N
      <4>1. X[n] \in D /\ f[X[n]] = g[X[n]]
        BY <1>1, <1>3, <2>4, <3>2
      <4> HIDE DEF X
      <4> QED BY <4>1
    <3> QED BY <3>1, <3>2
  <2> HIDE DEF G, S, D, rank
  <2> QED BY <1>3, <2>1, <2>3, <2>4 DEF Recursive
<1>5. PICK f \in [D -> S] : \A n \in D : f[n] = G[n][f]
  <2> HIDE DEF G, S, D, rank
  <2> QED BY <1>4, RecursionWorks
<1>6. \A n \in D : f[n] = Body(n, f)
  BY <1>5
<1>7. f = [n \in Live(t) \cup {NULL} |-> IF n = NULL THEN << >> ELSE <<n>> \o f[Succ(t, n)]]
  <2>1. ASSUME NEW n \in D PROVE f[n] = IF n = NULL THEN << >> ELSE <<n>> \o f[Succ(t, n)]
    BY <1>1, <1>6, ZenonT(60)
  <2>2. f = [n \in D |-> f[n]]
    OBVIOUS
  <2> QED BY <2>1, <2>2
<1>8. walk = [n \in Live(t) \cup {NULL} |-> IF n = NULL THEN << >> ELSE <<n>> \o walk[Succ(t, n)]]
  BY <1>7, ZenonT(60) DEF walk
<1>9. SuccWalk(t) = walk[First(t, t.root)]
  BY ZenonT(60) DEF SuccWalk, walk
<1> HIDE DEF walk
<1>10. \A n \in D : walk[n] = Body(n, walk)
  BY <1>1, <1>8
<1>11. \A n \in D : walk[n] = f[n]
  <2> DEFINE T == {n \in N : walk[n] # f[n]}
  <2>1. walk[NULL] = f[NULL]
    BY <1>6, <1>10
  <2>2. ASSUME NEW n \in T PROVE X[n] \in T
    <3>1. X[n] \in D /\ n # NULL /\ n \in D
      BY <1>1
    <3>2. walk[X[n]] # f[X[n]]
      BY <3>1, <1>6, <1>10
    <3> QED BY <2>1, <3>1, <3>2
  <2>3. T \in SUBSET N
    OBVIOUS
  <2>4. T = {}
    <3> HIDE DEF T, N, X
    <3> QED BY <1>2, <2>2, <2>3, BackInduction
  <2> QED BY <2>1, <2>4
<1>12. walk = f
  <2>1. f = [n \in D |-> f[n]]
    OBVIOUS
  <2>2. walk = [n \in D |-> walk[n]]
    BY <1>1, <1>8
  <2> QED BY <2>1, <2>2, <1>11
<1>13. Trails(N, X, f)
  <2>1. f[NULL] = << >> /\ \A n \in N : f[n] = <<n>> \o f[X[n]]
    BY <1>1, <1>6
  <2> HIDE DEF N, X
  <2> QED BY <2>1 DEF Trails
<1> QED BY <1>2, <1>9, <1>12, <1>13

\* The walk from object_first by object_succ meets the live objects, each once and
\* in the order of their addresses.
LEMMA SuccWalkExact ==
  ASSUME NEW t, NEW sub, Shape(t, sub)
  PROVE  ToSet(SuccWalk(t)) = Live(t) /\ Rising(SuccWalk(t))
<1> DEFINE N == Live(t)
           X == Successors(t)
<1>1. Advances(N, X)
  BY SuccWalkSteps
<1>2. PICK trail : Trails(N, X, trail) /\ SuccWalk(t) = trail[First(t, t.root)]
  BY SuccWalkSteps
<1>3. N \subseteq Nat /\ NULL \notin N /\ t.root \in N \cup {NULL} /\ sub[NULL] = {} /\ sub[t.root] = N
  BY Addresses DEF Shape, Hung
<1>4. CASE t.root = NULL
  <2>1. First(t, t.root) = NULL
    BY <1>4, ZenonT(60) DEF First
  <2>2. SuccWalk(t) = << >> /\ N = {}
    BY <2>1, <1>2, <1>3, <1>4 DEF Trails
  <2>3. ToSet(<< >>) = {} /\ Rising(<< >>)
    BY DEF ToSet, Rising
  <2> QED BY <2>2, <2>3
<1>5. CASE t.root # NULL
  <2> DEFINE n == First(t, t.root)
  <2>1. n \in N /\ \A m \in N : m = n \/ n < m
    BY <1>3, <1>5, FirstExact
  <2> HIDE DEF n
  <2>2. ToSet(trail[n]) = {m \in N : n <= m} /\ Rising(trail[n])
    BY <1>1, <1>2, <2>1, TrailRises
  <2>3. {m \in N : n <= m} = N
    BY <1>3, <2>1
  <2> QED BY <1>2, <2>2, <2>3 DEF n
<1> QED BY <1>4, <1>5

-----------------------------------------------------------------------------
(* The tree a heap starts with, and the blocks it grows by.                *)

\* The empty index.
LEMMA EmptySound == Sound(EmptyTree) /\ Live(EmptyTree) = {}
<1> DEFINE t == EmptyTree
           sub == [n \in {NULL} |-> {}]
<1>1. Live(t) = {} /\ t.root = NULL /\ t.panicked = FALSE /\ t.node = << >>
  BY DEF EmptyTree, Live
<1>2. t \in Trees({})
  <2>1. << >> \in [{} -> Nodes]
    OBVIOUS
  <2> QED BY <2>1 DEF EmptyTree, Trees
<1>3. /\ Lefts(t) \in [{} -> {} \cup {NULL}] /\ Rights(t) \in [{} -> {} \cup {NULL}]
      /\ Parents(t) \in [{} -> {} \cup {NULL}]
  BY <1>1 DEF Lefts, Rights, Parents
<1>4. sub \in [{} \cup {NULL} -> SUBSET {}] /\ sub[NULL] = {}
  OBVIOUS
<1> HIDE DEF t, sub
<1>5. Hung({}, Lefts(t), Rights(t), Parents(t), NULL, sub)
  BY <1>3, <1>4 DEF Hung
<1>6. Ordered(Lefts(t), Rights(t), sub, {})
  BY DEF Ordered
<1>7. Shape(t, sub)
  BY <1>1, <1>2, <1>5, <1>6, FS_EmptySet DEF Shape
<1>8. AllTight(t)
  BY <1>1 DEF AllTight
<1> QED BY <1>1, <1>7, <1>8 DEF Sound, t

\* What malloc returns shares no byte with a live object.
LEMMA FreshApart ==
  ASSUME NEW N \in SUBSET Block, Apart(N), NEW o \in Block, \A p \in N : ~Overlap(o, p)
  PROVE  Apart(N \cup {o}) /\ o \notin N
<1>1. \A n \in Block : n \in Nat /\ End(n) \in Nat /\ n < End(n)
  BY Addresses
<1>2. o \notin N
  BY <1>1 DEF Overlap
<1>3. ASSUME NEW m \in N \cup {o}, NEW n \in N \cup {o}, m < n PROVE End(m) <= n
  <2>1. CASE m \in N /\ n \in N
    BY <2>1, <1>3 DEF Apart
  <2>2. CASE m = o /\ n \in N
    BY <2>2, <1>1, <1>3 DEF Overlap
  <2>3. CASE m \in N /\ n = o
    BY <2>3, <1>1, <1>3 DEF Overlap
  <2>4. CASE m = o /\ n = o
    BY <2>4, <1>1, <1>3
  <2> QED BY <2>1, <2>2, <2>3, <2>4
<1> QED BY <1>2, <1>3 DEF Apart

\* The live objects are blocks.
LEMMA LiveBlocks ==
  ASSUME NEW t, Sound(t)
  PROVE  Live(t) \in SUBSET Block
BY DEF Sound, Shape
=============================================================================
