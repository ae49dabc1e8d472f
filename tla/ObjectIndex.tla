---------------------------- MODULE ObjectIndex -----------------------------
(***************************************************************************)
(* The life of the object index (heap->objects): objects enter it when     *)
(* they are allocated, leave it one at a time when the sweep erases them,  *)
(* and sm_heap_drop frees whatever it reaches when the context is dropped. *)
(* Which objects are erased is the collector's choice (modules Heap and    *)
(* MarkSweep); here any live object may be erased next.                    *)
(***************************************************************************)
EXTENDS ObjectTree

VARIABLES tree,   \* the index
          open,   \* the heap has not been dropped
          lost    \* objects sm_heap_drop did not free

vars == <<tree, open, lost>>

\* Addresses worth asking about: every byte of a block, and the two next to it.
Pointer == {NULL} \cup UNION {(o - 1) .. End(o) : o \in Block}

Init == tree = EmptyTree /\ open = TRUE /\ lost = {}

\* object_new, object_insert: malloc returns memory nothing live occupies.
Insert(o) ==
  /\ open /\ ~tree.panicked
  /\ \A p \in Live(tree) : ~Overlap(o, p)
  /\ tree' = InsertObject(tree, o)
  /\ UNCHANGED <<open, lost>>

\* The sweep: object_erase, object_drop.
Erase(o) ==
  /\ open /\ ~tree.panicked
  /\ o \in Live(tree)
  /\ tree' = EraseObject(tree, o)
  /\ UNCHANGED <<open, lost>>

\* sm_heap_drop: free what the walk visits and forget the rest.
Drop ==
  /\ open /\ ~tree.panicked
  /\ open' = FALSE
  /\ lost' = Live(tree) \ ToSet(DropWalk(tree))
  /\ tree' = EmptyTree

Next == Drop \/ \E o \in Block : Insert(o) \/ Erase(o)

Spec == Init /\ [][Next]_vars

-----------------------------------------------------------------------------
(* Properties.                                                             *)

\* The tree's fields have their types and every link leads to a live object.
TypeOK ==
  LET Link == Live(tree) \cup {NULL} IN
  /\ Live(tree) \subseteq Block
  /\ tree.root \in Link
  /\ tree.panicked \in BOOLEAN
  /\ \A n \in Live(tree) :
       /\ tree.node[n] \in Nodes
       /\ {tree.node[n].parent, tree.node[n].left, tree.node[n].right} \subseteq Link
  /\ open \in BOOLEAN
  /\ lost \subseteq Block

\* Whatever was inserted and erased, in whatever order: exactly the live
\* objects hang from the root, ordered by address, and parent links invert the
\* child links, through rotations and the exchange with the predecessor
\* (heap.c:88-266).  A wrong link here loses a live object or frees it twice.
SearchTree ==
  LET sub == Members(tree) IN
  /\ sub[tree.root] = Live(tree)
  /\ tree.root # NULL => tree.node[tree.root].parent = NULL
  /\ \A n \in Live(tree) :
       /\ \A m \in sub[tree.node[n].left]  : m < n
       /\ \A m \in sub[tree.node[n].right] : n < m
       /\ \A c \in {tree.node[n].left, tree.node[n].right} \ {NULL} : tree.node[c].parent = n

\* The augmentation is exact, not just safe: every node's bounds are the first
\* and the last byte of its subtree, although descents, rotations, erasures and
\* the exchange with the predecessor each maintain them their own way
\* (heap.c:84-86, 113-115, 137-144, 203-204, 238-240).
BoundsExact ==
  LET sub == Members(tree) IN
  \A n \in Live(tree) :
    /\ tree.node[n].lower \in sub[n] /\ \A m \in sub[n] : tree.node[n].lower <= m
    /\ \E m \in sub[n] : tree.node[n].upper = End(m)
    /\ \A m \in sub[n] : End(m) <= tree.node[n].upper

\* Starting at object_first, object_succ meets every live object once and by
\* increasing address: the sweep of sm_heap_gc skips and repeats none.
SuccInOrder ==
  LET walk == SuccWalk(tree) IN
  /\ ToSet(walk) = Live(tree)
  /\ \A i, j \in DOMAIN walk : i < j => walk[i] < walk[j]

\* The height of every node is the height of its subtree.
HeightExact ==
  \A n \in Live(tree) :
    tree.node[n].height = 1 + MaxOf(Height(tree, tree.node[n].left), Height(tree, tree.node[n].right))

\* "Objects implement an AVL augmented tree" (private/heap.h:27): heights are
\* exact and those of two siblings differ by at most one.
Balanced == HeightExact /\ \A n \in Live(tree) : Balance(tree, n) \in -1..1

\* An insertion into an AVL tree leaves an AVL tree, with one double or single
\* rotation at most ("balancing one node is enough on insertion", heap.c:181).
\* Erasures do not: after them the heights are not those of an AVL tree.
InsertBalances == [][Balanced /\ Live(tree) \subseteq Live(tree') => Balanced']_vars

\* The rotations' own assertions hold: sm_assert(r != NULL) in
\* object_rotate_left and sm_assert(l != NULL) in object_rotate_right, also in the
\* double rotations of an insertion, which need a child that an AVL tree has.
NoPanic == ~tree.panicked

\* object_next is "suitable for dropping the whole tree" (heap.c:302): when the
\* heap is dropped every object is freed.
DropFreesAll == lost = {}

\* The index is a pointer map: object_from_pointer finds, for every address, the
\* one live object that contains it and nothing else, at every moment of any
\* history of insertions and erasures (sm_heap_is_managed and the marker rely
\* on it for interior pointers).
Map == INSTANCE PointerMap WITH owner <- [a \in Pointer |-> FromPointer(tree, {}, a, TRUE)]

ImplementsPointerMap == Map!Spec
=============================================================================
