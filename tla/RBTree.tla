------------------------------- MODULE RBTree -------------------------------
(***************************************************************************)
(* The red-black tree of src/rbtree.c, pointer by pointer.  Scopes keep    *)
(* their variables in one, the context its symbols and its externals.      *)
(*                                                                         *)
(* A node is named by the key of its element; the two never part, since a  *)
(* deletion swaps nodes by relinking them.  Left and right are mirror      *)
(* images in the code and a parameter, side, here.                         *)
(***************************************************************************)
EXTENDS Integers, FiniteSets, SequencesExt

CONSTANTS Key, Value,      \* elements are pairs of these
          Compare(_, _)    \* tree->compare as the callers see it, in an int

ASSUME KeyAssumption == Key \subseteq Nat \ {0}

VARIABLE tree   \* [root: tree->root, node: the nodes allocated]

NULL == -1
LEAF == 0

Side == {"left", "right"}
Other(side) == IF side = "left" THEN "right" ELSE "left"

Red == "Red"
Black == "Black"

-----------------------------------------------------------------------------
(* Operators on a tree t, a record [root, node].                           *)

Node(p, v) == [parent |-> p, left |-> LEAF, right |-> LEAF, color |-> Red, value |-> v]

Nodes(t) == DOMAIN t.node

\* n->field = v
Store(t, n, field, v) == [t EXCEPT !.node[n][field] = v]

\* LEAF is a node too: black, without links.
Color(t, n) == IF n = LEAF THEN Black ELSE t.node[n].color
Paint(t, n, c) == Store(t, n, "color", c)

Parent(t, n) == t.node[n].parent
SideOf(t, n) == IF n = t.node[Parent(t, n)].left THEN "left" ELSE "right"

SetParent(t, n, p) == IF n = LEAF THEN t ELSE Store(t, n, "parent", p)

\* What n's parent, if it has one, points to in n's place.
Replace(t, n, m) == IF Parent(t, n) = NULL THEN t ELSE Store(t, Parent(t, n), SideOf(t, n), m)

RotateForgettingParent(t, n, side) ==   \* seeded fault: the moved subtree keeps its old parent
  LET up == t.node[n][Other(side)]
      t1 == Store(Store(Replace(t, n, up), n, Other(side), t.node[up][side]), n, "parent", up)
  IN Store(Store(t1, up, side, n), up, "parent", Parent(t, n))

\* rotate_left and rotate_right: n goes down on that side.
Rotate(t, n, side) ==
  LET up    == t.node[n][Other(side)]
      inner == t.node[up][side]
      t1    == Store(Store(Replace(t, n, up), n, Other(side), inner), n, "parent", up)
      t2    == Store(Store(t1, up, side, n), up, "parent", Parent(t, n))
  IN SetParent(t2, inner, n)

\* "Update root if necessary"
RootIfTop(t, n) == IF Parent(t, n) = NULL THEN [t EXCEPT !.root = n] ELSE t

-----------------------------------------------------------------------------
(* Insertion.                                                              *)

\* n and its parent are red and the uncle is black: bring n to the outside of
\* the grandparent, and rotate that.
RaiseOverGrandparent(t, n) ==
  LET p    == Parent(t, n)
      g    == Parent(t, p)
      side == SideOf(t, p)
      t1   == IF SideOf(t, n) = side THEN t ELSE Rotate(t, p, side)
      t2   == Rotate(t1, g, Other(side))
      up   == Parent(t2, g)
  IN RootIfTop(Paint(Paint(t2, up, Black), g, Red), up)

\* The sibling of n's parent.
Uncle(t, n) == LET p == Parent(t, n) IN t.node[Parent(t, p)][Other(SideOf(t, p))]

\* The case in which the repair moves up from n, to its grandparent.
RedUncle(t, n) == Parent(t, n) # NULL /\ Red = Color(t, Parent(t, n)) /\ Red = Color(t, Uncle(t, n))

\* The nodes that the loop calls n, from n on.  It paints none that it has yet to
\* look at, so the colours it meets are those of t.
Risen(t, n) ==
  LET rise[m \in Nodes(t)] ==
        {m} \cup IF RedUncle(t, m) THEN rise[Parent(t, Parent(t, m))] ELSE {}
  IN rise[n]

Recolor(t, black, red) ==
  LET color(m) == IF m \in black THEN Black ELSE IF m \in red THEN Red ELSE t.node[m].color
  IN [t EXCEPT !.node = [m \in Nodes(t) |-> [t.node[m] EXCEPT !.color = color(m)]]]

RepairAfterInsert(t, n) ==
  LET passed == {m \in Risen(t, n) : RedUncle(t, m)}
      last   == CHOOSE m \in Risen(t, n) : m \notin passed
      t1     == Recolor(t, UNION {{Parent(t, m), Uncle(t, m)} : m \in passed},
                           {Parent(t, Parent(t, m)) : m \in passed})
  IN IF Parent(t, last) = NULL THEN Paint(t1, last, Black)
     ELSE IF Color(t1, Parent(t, last)) = Black THEN t1
     ELSE RaiseOverGrandparent(t1, last)

\* The last node of the way down towards k: k's own, or its parent to be.
Descend(t, k) ==
  LET down[n \in Nodes(t)] ==
        LET next == t.node[n][IF Compare(k, n) < 0 THEN "left" ELSE "right"]
        IN IF Compare(k, n) = 0 \/ next = LEAF THEN n ELSE down[next]
  IN down[t.root]

With(t, n, node) ==
  [t EXCEPT !.node = [m \in Nodes(t) \cup {n} |-> IF m = n THEN node ELSE t.node[m]]]

InsertElement(t, k, v) ==
  IF t.root = NULL
  THEN [With(t, k, [Node(NULL, v) EXCEPT !.color = Black]) EXCEPT !.root = k]
  ELSE LET p == Descend(t, k) IN
       IF Compare(k, p) = 0 THEN Store(t, p, "value", v)
       ELSE LET side == IF Compare(k, p) < 0 THEN "left" ELSE "right"
            IN RepairAfterInsert(Store(With(t, k, Node(p, v)), p, side, k), k)

-----------------------------------------------------------------------------
(* Deletion.                                                               *)

\* n's sibling, where p is the parent; n may be LEAF.
OtherChild(t, n, p) == IF n = t.node[p].left THEN t.node[p].right ELSE t.node[p].left

\* The repair moves up from n.
AllBlack(t, n, p) ==
  LET s == OtherChild(t, n, p)
  IN {Color(t, p), Color(t, s), Color(t, t.node[s].left), Color(t, t.node[s].right)} = {Black}

Lightened(t, n) == Parent(t, n) # NULL /\ AllBlack(t, n, Parent(t, n))

\* The nodes that the loop calls n, from the node n on.
Lifted(t, n) ==
  LET lift[m \in Nodes(t)] == {m} \cup IF Lightened(t, m) THEN lift[Parent(t, m)] ELSE {}
  IN lift[n]

\* While p, the sibling s and its children are black, s turns red and the
\* repair moves up; the result is the tree and the place it stopped at, with
\* p = NULL when nothing is left to repair.
MoveUp(t, n, p) ==
  LET up     == IF AllBlack(t, n, p) THEN Lifted(t, p) ELSE {}
      passed == {m \in up : Lightened(t, m)}
      last   == CHOOSE m \in up : m \notin passed
      x      == IF up = {} THEN n ELSE last
      q      == IF up = {} THEN p ELSE Parent(t, last)
      reds   == {OtherChild(t, m, Parent(t, m)) : m \in passed}
  IN [t    |-> IF up = {} THEN t ELSE Recolor(t, {}, reds \cup {OtherChild(t, n, p)}),
      p    |-> q,
      side |-> IF q = NULL \/ x = t.node[q].left THEN "left" ELSE "right"]

\* A red sibling rises above p.  When p was the root of the tree, the code makes
\* the new sibling the root, and not the old one (rbtree.c:211).
RaiseRedSibling(t, p, side) ==
  LET s == t.node[p][Other(side)] IN
  IF Color(t, s) = Black THEN t
  ELSE LET t1 == Rotate(Paint(Paint(t, p, Red), s, Black), p, side)
       IN IF Parent(t1, Parent(t1, p)) = NULL
          THEN [t1 EXCEPT !.root = t1.node[p][Other(side)]]
          ELSE t1

NoStraightening(t, p, side) == t   \* seeded fault: the inner case is not told apart

\* The red child of s that is near to n moves to the far side.
StraightenSibling(t, p, side) ==
  LET s    == t.node[p][Other(side)]
      near == t.node[s][side]
  IN IF Color(t, s) = Black /\ Color(t, near) = Red /\ Color(t, t.node[s][Other(side)]) = Black
     THEN Rotate(Paint(Paint(t, s, Red), near, Black), s, Other(side))
     ELSE t

RotateOverParent(t, p, side) ==
  LET s  == t.node[p][Other(side)]
      t1 == Paint(Paint(t, s, Color(t, p)), p, Black)
      t2 == Rotate(Paint(t1, t.node[s][Other(side)], Black), p, side)
  IN RootIfTop(t2, Parent(t2, p))

RepairAfterErase(t, n, p) ==
  LET m  == MoveUp(t, n, p)
      t1 == RaiseRedSibling(m.t, m.p, m.side)
      s  == t1.node[m.p][Other(m.side)]
  IN IF m.p = NULL THEN m.t
     ELSE IF /\ Color(t1, m.p) = Red
             /\ {Color(t1, s), Color(t1, t1.node[s].left), Color(t1, t1.node[s].right)} = {Black}
     THEN Paint(Paint(t1, s, Red), m.p, Black)
     ELSE RotateOverParent(StraightenSibling(t1, m.p, m.side), m.p, m.side)

Rightmost(t, n) ==
  LET last[m \in Nodes(t)] == IF t.node[m].right = LEAF THEN m ELSE last[t.node[m].right]
  IN last[n]

\* A node with two children exchanges its place and colour with its predecessor.
SwapWithPredecessor(t, n) ==
  LET q  == Rightmost(t, t.node[n].left)
      a  == t.node[n]
      b  == t.node[q]
      t1 == [t EXCEPT !.node[q] = [a EXCEPT !.value = b.value],
                      !.node[n] = [b EXCEPT !.value = a.value]]
      t2 == IF a.left = q THEN [t1 EXCEPT !.node[q].left = n]
            ELSE [t1 EXCEPT !.node[b.parent].right = n]
      t3 == SetParent(SetParent(t2, t2.node[q].left, q), a.right, q)
  IN IF a.parent = NULL THEN [t3 EXCEPT !.root = q]
     ELSE [t3 EXCEPT !.node[a.parent][SideOf(t, n)] = q]

OnlyChild(t, n) == IF t.node[n].left # LEAF THEN t.node[n].left ELSE t.node[n].right

Without(t, n) == [t EXCEPT !.node = [m \in Nodes(t) \ {n} |-> t.node[m]]]

UnlinkKeepingSlot(t, n) ==   \* seeded fault: the parent still points to n
  LET child == OnlyChild(t, n) IN
  IF Parent(t, n) = NULL
  THEN Without([SetParent(t, child, NULL) EXCEPT !.root = IF child = LEAF THEN NULL ELSE child], n)
  ELSE Without(SetParent(t, child, Parent(t, n)), n)

\* n's only child, if any, takes its place and is black.
Unlink(t, n) ==
  LET child == OnlyChild(t, n)
      t1    == SetParent(IF child = LEAF THEN t ELSE Paint(t, child, Black), child, Parent(t, n))
  IN Without(IF Parent(t, n) = NULL THEN [t1 EXCEPT !.root = IF child = LEAF THEN NULL ELSE child]
             ELSE Replace(t1, n, child), n)

EraseWithChild(t, n) ==   \* seeded fault: the child of the unlinked node goes with it
  LET t1 == IF LEAF \in {t.node[n].left, t.node[n].right} THEN t ELSE SwapWithPredecessor(t, n)
      t2 == IF Parent(t1, n) = NULL THEN [t1 EXCEPT !.root = NULL] ELSE Replace(t1, n, LEAF)
  IN Without(Without(t2, n), OnlyChild(t1, n))

EraseElement(t, n) ==
  LET t1 == IF LEAF \in {t.node[n].left, t.node[n].right} THEN t ELSE SwapWithPredecessor(t, n)
      t2 == Unlink(t1, n)
      c  == OnlyChild(t1, n)
      p  == Parent(t1, n)
  IN IF p # NULL /\ Black = Color(t1, n) /\ Black = Color(t1, c) THEN RepairAfterErase(t2, c, p)
     ELSE t2

-----------------------------------------------------------------------------
(* Lookup and iteration.                                                   *)

FindByKey(t, k) ==
  IF t.root = NULL THEN NULL
  ELSE LET n == Descend(t, k) IN IF Compare(k, n) = 0 THEN n ELSE NULL

Leftmost(t, n) ==
  LET first[m \in Nodes(t)] == IF t.node[m].left = LEAF THEN m ELSE first[t.node[m].left]
  IN first[n]

\* sm_rbtree_size
SizeOf(t) ==
  LET size[n \in Nodes(t) \cup {NULL, LEAF}] ==
        IF n \in {NULL, LEAF} THEN 0 ELSE 1 + size[t.node[n].left] + size[t.node[n].right]
  IN size[t.root]

First(t) == IF t.root = NULL THEN NULL ELSE Leftmost(t, t.root)

BackUpOnce(t, n) ==   \* seeded fault: the walk ends with the first right branch
  IF Parent(t, n) # NULL /\ n = t.node[Parent(t, n)].right THEN NULL ELSE Parent(t, n)

BackUp(t, n) ==
  LET back[m \in Nodes(t)] ==
        IF Parent(t, m) # NULL /\ m = t.node[Parent(t, m)].right THEN back[Parent(t, m)]
        ELSE Parent(t, m)
  IN back[n]

NextElement(t, n) == IF t.node[n].right # LEAF THEN Leftmost(t, t.node[n].right) ELSE BackUp(t, n)

-----------------------------------------------------------------------------
(* The operations of include/rbtree.h that change a tree.                  *)

EmptyTree == [root |-> NULL, node |-> << >>]
Live == Nodes(tree)

Init == tree = EmptyTree

Insert(k, v) == tree' = InsertElement(tree, k, v)

\* Callers erase what they have looked up (sm_scope_delete,
\* sm_context_unregister_external), and NULL is accepted.
Erase(k) ==
  LET n == FindByKey(tree, k) IN
  tree' = IF n = NULL THEN tree ELSE EraseElement(tree, n)

\* sm_rbtree_drop, which sm_rbtree_clear is another name of.
Drop == tree' = EmptyTree

Next ==
  \/ \E k \in Key, v \in Value : Insert(k, v)
  \/ \E k \in Key : Erase(k)
  \/ Drop

Spec == Init /\ [][Next]_tree

\* The node above all the others, which the code means tree->root to be.
Top == IF Live = {} THEN NULL ELSE CHOOSE n \in Live : Parent(tree, n) = NULL

\* The behaviours up to the first operation that loses the root (rbtree.c:211).
Rooted == tree.root = Top
Stay == ~Rooted /\ UNCHANGED tree
IntactNext == Stay \/ (Rooted /\ Next)
IntactSpec == Init /\ [][IntactNext]_tree

-----------------------------------------------------------------------------
(* Properties.                                                             *)

TypeOK ==
  /\ Live \subseteq Key
  /\ tree.root \in Live \cup {NULL}
  /\ tree.node \in [Live -> [parent : Live \cup {NULL}, left : Live \cup {LEAF},
                            right : Live \cup {LEAF}, color : {Red, Black}, value : Value]]

\* The nodes of every subtree.
Members ==
  LET below[n \in Live \cup {LEAF}] ==
        IF n = LEAF THEN {} ELSE {n} \cup below[tree.node[n].left] \cup below[tree.node[n].right]
  IN below

\* The nodes form one tree, each linked both ways, with their keys in order:
\* rotations, swaps and unlinkings lose and misplace none.
SearchTree ==
  /\ Live # {} => Members[Top] = Live
  /\ \A n \in Live :
       /\ \A m \in Members[tree.node[n].left]  : Compare(m, n) < 0
       /\ \A m \in Members[tree.node[n].right] : Compare(n, m) < 0
       /\ \A m \in {tree.node[n].left, tree.node[n].right} \ {LEAF} : Parent(tree, m) = n

\* The balance of a red-black tree: a black top, no red node below a red one,
\* as many black nodes on every way down (rbtree_test.c's validate_tree).
RedBlack ==
  LET depth[n \in Live \cup {LEAF}] ==
        IF n = LEAF THEN {0}
        ELSE {d + (IF Color(tree, n) = Black THEN 1 ELSE 0) :
                d \in depth[tree.node[n].left] \cup depth[tree.node[n].right]}
  IN Live # {} =>
       /\ Color(tree, Top) = Black
       /\ Cardinality(depth[Top]) = 1
       /\ \A n \in Live : Color(tree, n) = Red =>
            Black = Color(tree, tree.node[n].left) /\ Black = Color(tree, tree.node[n].right)

\* As long as the root is the top, first and next visit every element, in order,
\* and "sm_rbtree_size should return correct size" (rbtree_test.c:247, 296).
Iterates ==
  LET visit[n \in Live \cup {NULL}] == IF n = NULL THEN << >> ELSE <<n>> \o visit[NextElement(tree, n)]
      walk == visit[First(tree)]
  IN tree.root = Top =>
       /\ ToSet(walk) = Live
       /\ \A i \in 1..Len(walk) - 1 : Compare(walk[i], walk[i + 1]) < 0
       /\ SizeOf(tree) = Cardinality(Live)

\* "sm_rbtree_find should not return NULL for any present key", nor another's
\* element (rbtree_test.c:260, 261).
FindsPresent == \A k \in Live : FindByKey(tree, k) = k

\* "sm_rbtree_find should return NULL for absent key" (rbtree_test.c:213).
MissesAbsent == \A k \in Key \ Live : FindByKey(tree, k) = NULL

\* As long as the root is the top, a lookup finds the element of its key or none.
LookupExact == tree.root = Top => FindsPresent /\ MissesAbsent

\* Seen through lookups, the tree is a map.
View == [k \in {x \in Key : FindByKey(tree, x) # NULL} |-> tree.node[FindByKey(tree, k)].value]
Map  == INSTANCE KeyMap WITH map <- View

\* As long as the root is the top, every operation changes what the map says of
\* the key it is given, and nothing of the others, however much the nodes move.
ImplementsKeyMap == Map!Init /\ [][tree'.root = Top' => [Map!Next]_View]_tree
=============================================================================
