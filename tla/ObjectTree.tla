----------------------------- MODULE ObjectTree -----------------------------
(***************************************************************************)
(* The index the collector keeps of its heap objects (src/heap.c, Object   *)
(* in src/private/heap.h): a binary search tree on addresses, AVL balanced *)
(* and augmented, in each node, with the bounds of the memory its subtree  *)
(* covers.  This module holds the algorithms, as operators on a tree; the  *)
(* modules ObjectIndex and MarkSweep hold the states that evolve by them.  *)
(*                                                                         *)
(* An object is named by its address, which is what the code compares.     *)
(* A tree is a record:                                                     *)
(*   root      heap->objects, NULL when the heap is empty                  *)
(*   node      the live objects, each with its links, height and bounds    *)
(*   panicked  an assertion of a rotation failed; the program has aborted  *)
(***************************************************************************)
EXTENDS Links, SequencesExt

CONSTANTS Block,   \* addresses malloc may return for an object
          Size     \* the number of bytes of each block

ASSUME BlockAssumption == /\ Block \subseteq Nat \ {0}
                          /\ Size \in [Block -> Nat \ {0}]

\* obj->end: one past the last byte.
End(o) == o + Size[o]

\* Two blocks that malloc never has allocated at the same time.
Overlap(o, p) == o < End(p) /\ p < End(o)

Nodes == [parent : Block \cup {NULL}, left : Block \cup {NULL}, right : Block \cup {NULL},
          height : Nat, lower : Nat, upper : Nat]

EmptyTree == [root |-> NULL, node |-> << >>, panicked |-> FALSE]

\* The tree fields object_new fills in.
NewNode(o, p) == [parent |-> p, left |-> NULL, right |-> NULL,
                  height |-> 1, lower |-> o, upper |-> End(o)]

Live(t) == DOMAIN t.node

-----------------------------------------------------------------------------
(* Links and rotations.                                                    *)

Height(t, n) == IF n = NULL THEN 0 ELSE t.node[n].height

\* *object_slot(root, o) = n
SetSlot(t, o, n) ==
  LET p == t.node[o].parent IN
  IF p = NULL                THEN [t EXCEPT !.root = n]
  ELSE IF t.node[p].left = o THEN [t EXCEPT !.node[p].left = n]
  ELSE                            [t EXCEPT !.node[p].right = n]

SetParent(t, o, p) == IF o = NULL THEN t ELSE [t EXCEPT !.node[o].parent = p]

\* Every caller stores the result of a rotation in the slot of the rotated
\* node, so the store is part of these two operators.
RotateLeft(t, o) ==
  LET n == t.node[o]
      r == n.right
      c == t.node[r].left
      h == 1 + MaxOf(Height(t, n.left), Height(t, c))
  IN IF r = NULL THEN [t EXCEPT !.panicked = TRUE]
     ELSE [SetParent(SetSlot(t, o, r), c, o) EXCEPT
             !.node[o] = [@ EXCEPT !.parent = r, !.right = c, !.height = h,
                                   !.upper = IF c = NULL THEN End(o) ELSE t.node[c].upper],
             !.node[r] = [@ EXCEPT !.parent = n.parent, !.left = o, !.lower = n.lower,
                                   !.height = 1 + MaxOf(h, Height(t, t.node[r].right))]]

RotateRightKeepingBounds(t, o) ==   \* seeded fault: "Update bounds" left out
  LET n == t.node[o]
      l == n.left
      c == t.node[l].right
      h == 1 + MaxOf(Height(t, c), Height(t, n.right))
  IN IF l = NULL THEN [t EXCEPT !.panicked = TRUE]
     ELSE [SetParent(SetSlot(t, o, l), c, o) EXCEPT
             !.node[o] = [@ EXCEPT !.parent = l, !.left = c, !.height = h],
             !.node[l] = [@ EXCEPT !.parent = n.parent, !.right = o,
                                   !.height = 1 + MaxOf(Height(t, t.node[l].left), h)]]

RotateRight(t, o) ==
  LET n == t.node[o]
      l == n.left
      c == t.node[l].right
      h == 1 + MaxOf(Height(t, c), Height(t, n.right))
  IN IF l = NULL THEN [t EXCEPT !.panicked = TRUE]
     ELSE [SetParent(SetSlot(t, o, l), c, o) EXCEPT
             !.node[o] = [@ EXCEPT !.parent = l, !.left = c, !.height = h,
                                   !.lower = IF c = NULL THEN o ELSE t.node[c].lower],
             !.node[l] = [@ EXCEPT !.parent = n.parent, !.right = o, !.upper = n.upper,
                                   !.height = 1 + MaxOf(Height(t, t.node[l].left), h)]]

\* The chain p, p->parent, ... that both rebalancing loops climb.  A rotation
\* at p leaves the parent of p's subtree alone, so the chain is fixed when
\* the loop starts.
Ancestors(t, p) ==
  LET up[n \in Live(t) \cup {NULL}] ==
        IF n = NULL THEN << >> ELSE <<n>> \o up[t.node[n].parent]
  IN up[p]

UpdateHeight(t, p) ==
  [t EXCEPT !.node[p].height = 1 + MaxOf(Height(t, t.node[p].left), Height(t, t.node[p].right))]

Balance(t, p) == Height(t, t.node[p].right) - Height(t, t.node[p].left)

-----------------------------------------------------------------------------
(* object_insert.                                                          *)

\* The nodes the descent for address a visits, from the root.
Path(t, a) ==
  LET down[n \in Live(t) \cup {NULL}] ==
        IF n = NULL THEN << >>
        ELSE <<n>> \o down[IF a < n THEN t.node[n].left ELSE t.node[n].right]
  IN down[t.root]

KeepBounds(t, o) == t   \* seeded fault: the bounds are not updated

\* "While descending, update bounds".
Widen(t, o) ==
  LET path == ToSet(Path(t, o))
      widened(n) == IF n \notin path THEN t.node[n]
                    ELSE IF o < n    THEN [t.node[n] EXCEPT !.lower = MinOf(@, o)]
                    ELSE                  [t.node[n] EXCEPT !.upper = MaxOf(@, End(o))]
  IN [t EXCEPT !.node = [n \in Live(t) |-> widened(n)]]

Attach(t, o) ==
  LET path == Path(t, o)
      p    == IF path = << >> THEN NULL ELSE Last(path)
      s    == [t EXCEPT !.node = [n \in Live(t) \cup {o} |-> IF n = o THEN NewNode(o, p) ELSE t.node[n]]]
  IN IF p = NULL   THEN [s EXCEPT !.root = o]
     ELSE IF o < p THEN [s EXCEPT !.node[p].left = o]
     ELSE               [s EXCEPT !.node[p].right = o]

SingleRotationAfterInsert(t, p, o) ==   \* seeded fault: the inner cases are missing
  IF Balance(t, p) < -1 THEN RotateRight(t, p) ELSE RotateLeft(t, p)

\* The case analysis compares the new object's address with p's child.
RestoreAfterInsert(t, p, o) ==
  LET l == t.node[p].left
      r == t.node[p].right
  IN IF Balance(t, p) < -1
     THEN IF o < l THEN RotateRight(t, p) ELSE RotateRight(RotateLeft(t, l), p)
     ELSE IF o > r THEN RotateLeft(t, p)  ELSE RotateLeft(RotateRight(t, r), p)

\* The loop at node p; it stops at the first node it rotates.
InsertStep(acc, p, o) ==
  LET s == UpdateHeight(acc.tree, p) IN
  IF acc.done                     THEN acc
  ELSE IF Balance(s, p) \in -1..1 THEN [tree |-> s, done |-> FALSE]
  ELSE [tree |-> RestoreAfterInsert(s, p, o), done |-> TRUE]

RebalanceAfterInsert(t, o) ==
  LET chain == Ancestors(t, t.node[o].parent)
      after[k \in 0..Len(chain)] ==
        IF k = 0 THEN [tree |-> t, done |-> FALSE] ELSE InsertStep(after[k - 1], chain[k], o)
  IN after[Len(chain)].tree

InsertObject(t, o) == RebalanceAfterInsert(Attach(Widen(t, o), o), o)

-----------------------------------------------------------------------------
(* object_erase.                                                           *)

Predecessor(t, o) ==
  LET rightmost[n \in Live(t)] == IF t.node[n].right = NULL THEN n ELSE rightmost[t.node[n].right]
  IN rightmost[t.node[o].left]

SwapForgettingRight(t, o) ==   \* seeded fault: the right child keeps its old parent
  LET pred     == Predecessor(t, o)
      old      == t.node[o]
      adjacent == old.left = pred
      moved    == [SetSlot(t, o, pred) EXCEPT
                     !.node[pred]      = [old EXCEPT !.left = IF adjacent THEN o ELSE @],
                     !.node[o].parent  = IF adjacent THEN pred ELSE t.node[pred].parent,
                     !.node[o].left    = t.node[pred].left,
                     !.node[o].right   = NULL]
  IN IF adjacent THEN moved
     ELSE [moved EXCEPT !.node[t.node[pred].parent].right = o,
                        !.node[old.left].parent = pred]

\* Exchange the places of o and its predecessor.  The predecessor takes over
\* the height and the bounds of the place it moves to.
SwapWithPredecessor(t, o) ==
  LET pred     == Predecessor(t, o)
      old      == t.node[o]
      adjacent == old.left = pred
      moved    == [SetSlot(t, o, pred) EXCEPT
                     !.node[pred]      = [old EXCEPT !.left = IF adjacent THEN o ELSE @],
                     !.node[o].parent  = IF adjacent THEN pred ELSE t.node[pred].parent,
                     !.node[o].left    = t.node[pred].left,
                     !.node[o].right   = NULL,
                     !.node[old.right].parent = pred]
  IN IF adjacent THEN moved
     ELSE [moved EXCEPT !.node[t.node[pred].parent].right = o,
                        !.node[old.left].parent = pred]

\* "Update bounds" in the erase loop.
UpdateBounds(t, p) ==
  LET n == t.node[p] IN
  [t EXCEPT !.node[p].lower = IF n.left = NULL THEN p ELSE t.node[n.left].lower,
            !.node[p].upper = IF n.right = NULL THEN End(p) ELSE t.node[n.right].upper]

\* The code chooses between one and two rotations by comparing p's two
\* children, not the two children of the taller one: with the left child the
\* taller, p->left->height >= p->right->height is always true.
RestoreAfterErase(t, p) ==
  LET l == t.node[p].left
      r == t.node[p].right
  IN IF Balance(t, p) < -1
     THEN IF r = NULL \/ Height(t, l) >= Height(t, r) THEN RotateRight(t, p)
          ELSE RotateRight(RotateLeft(t, l), p)
     ELSE IF l = NULL \/ Height(t, r) >= Height(t, l) THEN RotateLeft(t, p)
          ELSE RotateLeft(RotateRight(t, r), p)

\* The loop at node q.
EraseStep(t, q) ==
  LET u == UpdateBounds(UpdateHeight(t, q), q) IN
  IF Balance(u, q) \in -1..1 THEN u ELSE RestoreAfterErase(u, q)

RebalanceAfterErase(t, p) ==
  LET chain == Ancestors(t, p)
      after[k \in 0..Len(chain)] == IF k = 0 THEN t ELSE EraseStep(after[k - 1], chain[k])
  IN after[Len(chain)]

OnlyChild(t, o) == IF t.node[o].left # NULL THEN t.node[o].left ELSE t.node[o].right

Without(t, o) == [t EXCEPT !.node = Restrict(@, DOMAIN @ \ {o})]

CutSlotOnly(t, o) ==   \* seeded fault: the child keeps its parent
  Without(SetSlot(t, o, OnlyChild(t, o)), o)

\* The only child of o, if any, takes its place.
Cut(t, o) ==
  Without(SetParent(SetSlot(t, o, OnlyChild(t, o)), OnlyChild(t, o), t.node[o].parent), o)

EraseObject(t, o) ==
  LET s == IF NULL \notin {t.node[o].left, t.node[o].right} THEN SwapWithPredecessor(t, o) ELSE t
  IN RebalanceAfterErase(Cut(s, o), s.node[o].parent)

-----------------------------------------------------------------------------
(* Lookup and traversals.                                                  *)

\* object_from_pointer: the object whose memory holds address a.  When find is
\* false the marker is asking: subtrees in allMarked are pruned.
FromPointer(t, allMarked, a, find) ==
  LET look[n \in Live(t) \cup {NULL}] ==
        IF n = NULL                                          THEN NULL
        ELSE IF (n \in allMarked /\ ~find) \/ a < t.node[n].lower
                                           \/ a >= t.node[n].upper THEN NULL
        ELSE IF a < n                                        THEN look[t.node[n].left]
        ELSE IF a < End(n)                                   THEN n
        ELSE look[t.node[n].right]
  IN IF a = NULL THEN NULL ELSE look[t.root]

First(t, n) ==
  LET leftmost[m \in Live(t)] == IF t.node[m].left = NULL THEN m ELSE leftmost[t.node[m].left]
  IN IF n = NULL THEN NULL ELSE leftmost[n]

Next_(t, o) ==   \* object_next
  LET p == t.node[o].parent
      deepest[m \in Live(t)] ==
        IF t.node[m].right = NULL THEN m ELSE deepest[First(t, t.node[m].right)]
  IN IF p = NULL THEN NULL
     ELSE IF o = t.node[p].left THEN deepest[p] ELSE p

SuccUpOnly(t, o) == t.node[o].parent   \* seeded fault: the right subtree is skipped

Succ(t, o) ==
  LET climb[m \in Live(t)] ==
        LET p == t.node[m].parent IN
        IF p # NULL /\ m = t.node[p].right THEN climb[p] ELSE p
  IN IF t.node[o].right # NULL THEN First(t, t.node[o].right) ELSE climb[o]

\* The objects sm_heap_drop visits, in its order.
DropWalk(t) ==
  LET walk[n \in Live(t) \cup {NULL}] == IF n = NULL THEN << >> ELSE <<n>> \o walk[Next_(t, n)]
  IN walk[First(t, t.root)]

\* The objects a traversal by object_succ visits, in its order.
SuccWalk(t) ==
  LET walk[n \in Live(t) \cup {NULL}] == IF n = NULL THEN << >> ELSE <<n>> \o walk[Succ(t, n)]
  IN walk[First(t, t.root)]

-----------------------------------------------------------------------------
(* What properties say of a tree.                                          *)

\* The nodes of every subtree.
Members(t) ==
  LET below[n \in Live(t) \cup {NULL}] ==
        IF n = NULL THEN {} ELSE {n} \cup below[t.node[n].left] \cup below[t.node[n].right]
  IN below
=============================================================================
