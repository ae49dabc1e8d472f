------------------------- MODULE ObjectIndexProofs -------------------------
(***************************************************************************)
(* Theorems about the object index, for every set of blocks malloc may     *)
(* return and whatever their sizes: after any history of insertions,       *)
(* erasures and drops the index is a search tree on the live objects, its  *)
(* bounds are exact, and looking a pointer up in it implements the map of  *)
(* the module PointerMap.                                                  *)
(*                                                                         *)
(* The inductive invariant says of the tree what ObjectTreeProofs shows    *)
(* that object_insert and object_erase preserve (Sound: the links form a   *)
(* search tree, and every node's bounds agree with its children's), and    *)
(* that no two live objects share a byte, which is malloc's promise.       *)
(***************************************************************************)
EXTENDS ObjectIndex, ObjectTreeProofs, TLAPS

IInv ==
  /\ Sound(tree)
  /\ Apart(Live(tree))
  /\ open \in BOOLEAN
  /\ lost \subseteq Block

-----------------------------------------------------------------------------
(* The inductive invariant.                                                *)

\* What an insertion does to a sound index.
LEMMA InsertStepTree ==
  ASSUME IInv, NEW o \in Block, Insert(o)
  PROVE  /\ o \notin Live(tree)
         /\ Sound(tree') /\ Live(tree') = Live(tree) \cup {o} /\ Apart(Live(tree'))
<1>1. Live(tree) \in SUBSET Block /\ Apart(Live(tree)) /\ Sound(tree)
  BY LiveBlocks DEF IInv
<1>2. Apart(Live(tree) \cup {o}) /\ o \notin Live(tree)
  BY <1>1, FreshApart DEF Insert
<1>3. Sound(InsertObject(tree, o)) /\ Live(InsertObject(tree, o)) = Live(tree) \cup {o}
  BY <1>1, <1>2, InsertSound
<1>4. tree' = InsertObject(tree, o)
  BY DEF Insert
<1> QED BY <1>2, <1>3, <1>4

\* What an erasure does to a sound index.
LEMMA EraseStepTree ==
  ASSUME IInv, NEW o \in Block, Erase(o)
  PROVE  /\ o \in Live(tree)
         /\ Sound(tree') /\ Live(tree') = Live(tree) \ {o} /\ Apart(Live(tree'))
<1>1. o \in Live(tree) /\ tree' = EraseObject(tree, o) /\ Apart(Live(tree)) /\ Sound(tree)
  BY DEF Erase, IInv
<1>2. Sound(EraseObject(tree, o)) /\ Live(EraseObject(tree, o)) = Live(tree) \ {o}
  BY <1>1, EraseSound
<1>3. Apart(Live(tree) \ {o})
  BY <1>1 DEF Apart
<1> QED BY <1>1, <1>2, <1>3

\* What dropping the heap leaves of the index.
LEMMA DropStepTree ==
  ASSUME IInv, Drop
  PROVE  Sound(tree') /\ Live(tree') = {} /\ Apart(Live(tree'))
<1>1. tree' = EmptyTree
  BY DEF Drop
<1>2. Sound(tree') /\ Live(tree') = {}
  BY <1>1, EmptySound
<1> QED BY <1>2 DEF Apart

\* After any history of insertions and erasures the index is sound, and the live
\* objects share no byte.
THEOREM Invariance == Spec => []IInv
<1>1. Init => IInv
  BY EmptySound DEF Init, IInv, Apart
<1>2. ASSUME IInv, [Next]_vars PROVE IInv'
  <2>1. CASE Drop
    <3>1. Sound(tree') /\ Apart(Live(tree'))
      BY <2>1, <1>2, DropStepTree
    <3>2. open' \in BOOLEAN /\ lost' \subseteq Block
      BY <2>1, <1>2, LiveBlocks DEF Drop, IInv
    <3> QED BY <3>1, <3>2 DEF IInv, Live
  <2>2. ASSUME NEW o \in Block, Insert(o) PROVE IInv'
    <3>1. Sound(tree') /\ Apart(Live(tree'))
      BY <2>2, <1>2, InsertStepTree
    <3> QED BY <3>1, <2>2, <1>2 DEF IInv, Insert, Live
  <2>3. ASSUME NEW o \in Block, Erase(o) PROVE IInv'
    <3>1. Sound(tree') /\ Apart(Live(tree'))
      BY <2>3, <1>2, EraseStepTree
    <3> QED BY <3>1, <2>3, <1>2 DEF IInv, Erase, Live
  <2>4. CASE UNCHANGED vars
    BY <2>4, <1>2 DEF IInv, vars, Live
  <2> QED BY <2>1, <2>2, <2>3, <2>4, <1>2 DEF Next
<1> QED BY <1>1, <1>2, PTL DEF Spec

\* The tree's fields keep their types and every link leads to a live object.
THEOREM TypesCorrect == Spec => []TypeOK
<1>1. ASSUME IInv PROVE TypeOK
  <2>1. PICK sub : Shape(tree, sub)
    BY <1>1 DEF IInv, Sound
  <2>2. /\ Live(tree) \subseteq Block /\ tree.panicked \in BOOLEAN
        /\ tree.root \in Live(tree) \cup {NULL}
    BY <2>1 DEF Shape, Trees, Hung
  <2>3. ASSUME NEW n \in Live(tree)
        PROVE  /\ tree.node[n] \in Nodes
               /\ {tree.node[n].parent, tree.node[n].left, tree.node[n].right} \subseteq Live(tree) \cup {NULL}
    BY <2>1, NodeFields
  <2>4. open \in BOOLEAN /\ lost \subseteq Block
    BY <1>1 DEF IInv
  <2> QED BY <2>2, <2>3, <2>4 DEF TypeOK
<1> QED BY <1>1, Invariance, PTL

-----------------------------------------------------------------------------
(* What the invariant says of the subtrees.                                *)

\* Exactly the live objects hang from the root, in the order of their addresses,
\* and parent links invert child links (heap.c:88-266).
THEOREM OrderKept == Spec => []SearchTree
<1>1. ASSUME IInv PROVE SearchTree
  <2>1. PICK sub : Shape(tree, sub)
    BY <1>1 DEF IInv, Sound
  <2>2. Members(tree) = sub
    BY <2>1, MembersExact
  <2>3. /\ Hung(Live(tree), Lefts(tree), Rights(tree), Parents(tree), tree.root, sub)
        /\ Ordered(Lefts(tree), Rights(tree), sub, Live(tree)) /\ NULL \notin Live(tree)
    BY <2>1, Addresses DEF Shape
  <2>4. sub[tree.root] = Live(tree) /\ tree.root \in Live(tree) \cup {NULL}
    BY <2>3 DEF Hung
  <2>5. tree.root # NULL => tree.node[tree.root].parent = NULL
    <3> SUFFICES ASSUME tree.root # NULL PROVE tree.node[tree.root].parent = NULL
      OBVIOUS
    <3>1. tree.root \in Live(tree)
      BY <2>4
    <3>2. Parents(tree)[tree.root] = NULL
      BY <3>1, <2>3 DEF Hung
    <3> QED BY <3>1, <3>2, <2>1, NodeFields
  <2>6. ASSUME NEW n \in Live(tree)
        PROVE  /\ \A m \in sub[tree.node[n].left]  : m < n
               /\ \A m \in sub[tree.node[n].right] : n < m
               /\ \A c \in {tree.node[n].left, tree.node[n].right} \ {NULL} : tree.node[c].parent = n
    <3>1. /\ tree.node[n].left = Lefts(tree)[n] /\ tree.node[n].right = Rights(tree)[n]
          /\ tree.node[n].left \in Live(tree) \cup {NULL} /\ tree.node[n].right \in Live(tree) \cup {NULL}
      BY <2>1, NodeFields
    <3>3. sub[Lefts(tree)[n]] \subseteq Live(tree) /\ sub[Rights(tree)[n]] \subseteq Live(tree)
      BY <3>1, <2>3 DEF Hung
    <3>4. /\ \A m \in sub[tree.node[n].left]  : m < n
          /\ \A m \in sub[tree.node[n].right] : n < m
      BY <3>1, <3>3, <2>3 DEF Ordered
    <3>5. ASSUME NEW c \in {tree.node[n].left, tree.node[n].right} \ {NULL} PROVE tree.node[c].parent = n
      <4>1. c \in Live(tree) /\ c \in {Lefts(tree)[n], Rights(tree)[n]}
        BY <3>1
      <4>2. Parents(tree)[c] = n
        BY <4>1, <2>3 DEF Hung
      <4> QED BY <4>1, <4>2, <2>1, NodeFields
    <3> QED BY <3>4, <3>5
  <2> QED BY <2>2, <2>4, <2>5, <2>6 DEF SearchTree
<1> QED BY <1>1, Invariance, PTL

\* Every node's bounds are the first and the last byte of its subtree
\* (heap.c:84-86, 113-115, 137-144, 203-204, 238-240).
THEOREM BoundsKept == Spec => []BoundsExact
<1>1. ASSUME IInv PROVE BoundsExact
  <2>1. PICK sub : Shape(tree, sub) /\ AllTight(tree)
    BY <1>1 DEF IInv, Sound
  <2>2. Members(tree) = sub
    BY <2>1, MembersExact
  <2>3. Apart(Live(tree))
    BY <1>1 DEF IInv
  <2>4. ASSUME NEW n \in Live(tree)
        PROVE  /\ tree.node[n].lower \in sub[n] /\ \A m \in sub[n] : tree.node[n].lower <= m
               /\ \E m \in sub[n] : tree.node[n].upper = End(m)
               /\ \A m \in sub[n] : End(m) <= tree.node[n].upper
    BY <2>1, <2>3, BoundsCover
  <2> QED BY <2>2, <2>4 DEF BoundsExact
<1> QED BY <1>1, Invariance, PTL

\* Starting at object_first, object_succ meets every live object once and by
\* increasing address, whatever rotations have made of the tree (heap.c:318-332).
THEOREM WalkInOrder == Spec => []SuccInOrder
<1>1. ASSUME IInv PROVE SuccInOrder
  <2>1. PICK sub : Shape(tree, sub)
    BY <1>1 DEF IInv, Sound
  <2>2. ToSet(SuccWalk(tree)) = Live(tree) /\ Rising(SuccWalk(tree))
    BY <2>1, SuccWalkExact
  <2> QED BY <2>2 DEF SuccInOrder, Rising
<1> QED BY <1>1, Invariance, PTL

\* An insertion that finds an AVL tree leaves one, whatever the history before it:
\* "balancing one node is enough on insertion" (heap.c:181).
THEOREM InsertionBalances == Spec => InsertBalances
<1>1. ASSUME IInv, [Next]_vars, Balanced, Live(tree) \subseteq Live(tree')
      PROVE  Balanced'
  <2>1. CASE Drop
    <3>1. tree' = EmptyTree
      BY <2>1 DEF Drop
    <3>2. Live(tree') = {}
      BY <3>1, EmptySound
    <3> QED BY <3>2 DEF Balanced, HeightExact
  <2>2. ASSUME NEW o \in Block, Insert(o) PROVE Balanced'
    <3>1. /\ o \notin Live(tree) /\ Sound(tree) /\ Live(tree) \in SUBSET Block
          /\ Sound(tree') /\ Live(tree') = Live(tree) \cup {o} /\ Apart(Live(tree'))
          /\ tree' = InsertObject(tree, o)
      BY <1>1, <2>2, InsertStepTree, LiveBlocks DEF IInv, Insert
    <3>2. Levelled(tree)
      BY <1>1, <3>1, LevelledNodes DEF Sound, Balanced, HeightExact
    <3>3. Levelled(tree')
      BY <3>1, <3>2, InsertLevels
    <3>4. PICK sub : Shape(tree', sub)
      BY <3>1 DEF Sound
    <3> QED BY <3>3, <3>4, LevelledNodes DEF Balanced, HeightExact
  <2>3. ASSUME NEW o \in Block, Erase(o) PROVE Balanced'
    BY <1>1, <2>3, EraseStepTree
  <2>4. CASE UNCHANGED vars
    BY <1>1, <2>4 DEF vars, Balanced, HeightExact
  <2> QED BY <1>1, <2>1, <2>2, <2>3, <2>4 DEF Next
<1> QED BY <1>1, Invariance, PTL DEF Spec, InsertBalances

-----------------------------------------------------------------------------
(* The index implements the map from pointers to owners.                   *)

Owners(t) == [a \in Pointer |-> FromPointer(t, {}, a, TRUE)]

\* Pointers are numbers, and every byte of a block is one.
LEMMA Pointers ==
  /\ Pointer \subseteq Nat
  /\ \A o \in Block : Map!Bytes(o) \subseteq Pointer /\ o \in Pointer
  /\ \A o \in Block, a \in Pointer : a \in Map!Bytes(o) <=> Holds(o, a)
<1>1. \A o \in Block : o \in Nat /\ o # 0 /\ Size[o] \in Nat /\ Size[o] # 0
  BY BlockAssumption
<1>2. \A o \in Block : (o - 1) .. End(o) \subseteq Nat
  BY <1>1 DEF End
<1>3. ASSUME NEW a \in Pointer PROVE a \in Nat
  <2> DEFINE S == {(o - 1) .. End(o) : o \in Block}
  <2>1. Pointer = {NULL} \cup UNION S
    BY ZenonT(60) DEF Pointer
  <2>2. \A X \in S : X \subseteq Nat
    BY <1>2
  <2> HIDE DEF S
  <2>3. a \in UNION S \/ a = NULL
    BY <2>1
  <2>4. CASE a = NULL
    BY <2>4 DEF NULL
  <2>5. CASE a \in UNION S
    <3>1. PICK X \in S : a \in X
      BY <2>5
    <3> QED BY <3>1, <2>2
  <2> QED BY <2>3, <2>4, <2>5
<1>4. ASSUME NEW o \in Block PROVE Map!Bytes(o) \subseteq Pointer /\ o \in Pointer
  <2>1. Map!Bytes(o) \subseteq (o - 1) .. End(o) /\ o \in (o - 1) .. End(o)
    BY <1>1 DEF Map!Bytes, End
  <2> QED BY <2>1 DEF Pointer
<1>5. ASSUME NEW o \in Block, NEW a \in Pointer PROVE a \in Map!Bytes(o) <=> Holds(o, a)
  <2>1. a \in Nat
    BY <1>3
  <2> QED BY <2>1, <1>1 DEF Map!Bytes, Holds, End
<1> QED BY <1>3, <1>4, <1>5

\* The owner of a pointer into a live object is that object, of any other nothing.
LEMMA OwnersExact ==
  ASSUME NEW t, Sound(t), Apart(Live(t)), NEW a \in Pointer
  PROVE  /\ \A o \in Live(t) : Holds(o, a) => Owners(t)[a] = o
         /\ (\A o \in Live(t) : ~Holds(o, a)) => Owners(t)[a] = NULL
<1>1. a \in Nat /\ Owners(t)[a] = FromPointer(t, {}, a, TRUE)
  BY Pointers DEF Owners
<1> QED BY <1>1, FromPointerExact

\* Inserting a block gives its bytes an owner and leaves the others alone.
LEMMA InsertClaims ==
  ASSUME IInv, NEW o \in Block, Insert(o)
  PROVE  Map!Claim(o)
<1> DEFINE N == Live(tree)
<1>1. /\ o \notin N /\ Sound(tree') /\ Live(tree') = N \cup {o} /\ Apart(Live(tree'))
      /\ Sound(tree) /\ Apart(N) /\ N \in SUBSET Block
  BY InsertStepTree, LiveBlocks DEF IInv
<1>2. ASSUME NEW a \in Pointer, Holds(o, a), NEW p \in N PROVE ~Holds(p, a)
  <2>1. /\ a \in Nat /\ o \in Nat /\ p \in Nat /\ End(o) \in Nat /\ End(p) \in Nat /\ o # p
    BY <1>1, Pointers, Addresses
  <2>2. (o < p => End(o) <= p) /\ (p < o => End(p) <= o)
    BY <1>1 DEF Apart
  <2> QED BY <2>1, <2>2, <1>2 DEF Holds
<1>3. ASSUME NEW a \in Map!Bytes(o) PROVE Owners(tree)[a] = NULL
  <2>1. a \in Pointer /\ Holds(o, a)
    BY Pointers
  <2> QED BY <2>1, <1>1, <1>2, OwnersExact
<1>4. ASSUME NEW a \in Pointer
      PROVE  Owners(tree')[a] = IF a \in Map!Bytes(o) THEN o ELSE Owners(tree)[a]
  <2>1. CASE a \in Map!Bytes(o)
    <3>1. Holds(o, a) /\ o \in Live(tree')
      BY <2>1, <1>1, Pointers
    <3>2. Owners(tree')[a] = o
      BY <3>1, <1>1, OwnersExact
    <3> QED BY <2>1, <3>2
  <2>2. CASE a \notin Map!Bytes(o)
    <3>1. ~Holds(o, a)
      BY <2>2, Pointers
    <3>2. CASE \E p \in N : Holds(p, a)
      <4>1. PICK p \in N : Holds(p, a)
        BY <3>2
      <4>2. Owners(tree)[a] = p
        BY <4>1, <1>1, OwnersExact
      <4>3. Owners(tree')[a] = p
        <5>1. p \in Live(tree')
          BY <1>1
        <5> QED BY <5>1, <4>1, <1>1, OwnersExact
      <4> QED BY <4>2, <4>3, <2>2
    <3>3. CASE \A p \in N : ~Holds(p, a)
      <4>1. Owners(tree)[a] = NULL
        BY <3>3, <1>1, OwnersExact
      <4>2. \A p \in Live(tree') : ~Holds(p, a)
        BY <3>1, <3>3, <1>1
      <4>3. Owners(tree')[a] = NULL
        BY <4>2, <1>1, OwnersExact
      <4> QED BY <4>1, <4>3, <2>2
    <3> QED BY <3>2, <3>3
  <2> QED BY <2>1, <2>2
<1>5. Owners(tree') = [a \in Pointer |-> IF a \in Map!Bytes(o) THEN o ELSE Owners(tree)[a]]
  <2>1. Owners(tree') = [a \in Pointer |-> Owners(tree')[a]]
    BY DEF Owners
  <2> HIDE DEF N
  <2> QED BY <2>1, <1>4
<1> QED BY <1>3, <1>5 DEF Map!Claim, Map!NoOwner, Owners, NULL

\* Erasing an object takes its bytes away from it and leaves the others alone.
LEMMA EraseReleases ==
  ASSUME IInv, NEW o \in Block, Erase(o)
  PROVE  Map!Release(o)
<1> DEFINE N == Live(tree)
<1>1. /\ o \in N /\ Sound(tree') /\ Live(tree') = N \ {o} /\ Apart(Live(tree'))
      /\ Sound(tree) /\ Apart(N) /\ N \in SUBSET Block
  BY EraseStepTree, LiveBlocks DEF IInv
<1>2. Owners(tree)[o] = o
  <2>1. o \in Pointer /\ Holds(o, o)
    BY Pointers, Addresses DEF Holds
  <2> QED BY <2>1, <1>1, OwnersExact
<1>3. ASSUME NEW a \in Pointer
      PROVE  Owners(tree')[a] = IF Owners(tree)[a] = o THEN NULL ELSE Owners(tree)[a]
  <2>1. CASE \E p \in N : Holds(p, a)
    <3>1. PICK p \in N : Holds(p, a)
      BY <2>1
    <3>2. Owners(tree)[a] = p
      BY <3>1, <1>1, OwnersExact
    <3>3. CASE p = o
      <4>1. \A r \in Live(tree') : ~Holds(r, a)
        <5> TAKE r \in Live(tree')
        <5>1. r \in N /\ r # o
          BY <1>1
        <5>2. /\ a \in Nat /\ o \in Nat /\ r \in Nat /\ End(o) \in Nat /\ End(r) \in Nat
          BY <5>1, <1>1, Pointers, Addresses
        <5>3. (o < r => End(o) <= r) /\ (r < o => End(r) <= o)
          BY <5>1, <1>1 DEF Apart
        <5> QED BY <5>1, <5>2, <5>3, <3>1, <3>3 DEF Holds
      <4>2. Owners(tree')[a] = NULL
        BY <4>1, <1>1, OwnersExact
      <4> QED BY <4>2, <3>2, <3>3
    <3>4. CASE p # o
      <4>1. p \in Live(tree')
        BY <3>4, <1>1
      <4>2. Owners(tree')[a] = p
        BY <4>1, <3>1, <1>1, OwnersExact
      <4> QED BY <4>2, <3>2, <3>4
    <3> QED BY <3>3, <3>4
  <2>2. CASE \A p \in N : ~Holds(p, a)
    <3>1. Owners(tree)[a] = NULL
      BY <2>2, <1>1, OwnersExact
    <3>2. \A p \in Live(tree') : ~Holds(p, a)
      BY <2>2, <1>1
    <3>3. Owners(tree')[a] = NULL
      BY <3>2, <1>1, OwnersExact
    <3> QED BY <3>1, <3>3
  <2> QED BY <2>1, <2>2
<1>4. Owners(tree') = [a \in Pointer |-> IF Owners(tree)[a] = o THEN NULL ELSE Owners(tree)[a]]
  <2>1. Owners(tree') = [a \in Pointer |-> Owners(tree')[a]]
    BY DEF Owners
  <2> HIDE DEF N
  <2> QED BY <2>1, <1>3
<1> QED BY <1>2, <1>4 DEF Map!Release, Map!NoOwner, Owners, NULL

\* In an empty index nothing has an owner.
LEMMA EmptyOwnsNothing ==
  ASSUME NEW t, Sound(t), Live(t) = {}
  PROVE  Owners(t) = [a \in Pointer |-> NULL]
<1>1. ASSUME NEW a \in Pointer PROVE Owners(t)[a] = NULL
  <2>1. Apart(Live(t)) /\ \A o \in Live(t) : ~Holds(o, a)
    BY DEF Apart
  <2> QED BY <2>1, OwnersExact
<1>2. Owners(t) = [a \in Pointer |-> Owners(t)[a]]
  BY DEF Owners
<1> QED BY <1>1, <1>2

\* object_from_pointer finds, for every address and at every moment of any history
\* of insertions, erasures and drops, the one live object that contains it.
THEOREM IndexImplementsMap == Spec => ImplementsPointerMap
<1>1. Init => Map!Init
  <2> SUFFICES ASSUME Init PROVE Map!Init
    OBVIOUS
  <2>1. Sound(tree) /\ Live(tree) = {}
    BY EmptySound DEF Init
  <2>2. Owners(tree) = [a \in Pointer |-> NULL]
    BY <2>1, EmptyOwnsNothing
  <2> QED BY <2>2 DEF Map!Init, Map!NoOwner, Owners, NULL
<1>2. ASSUME IInv, [Next]_vars
      PROVE  [Map!Next]_[a \in Pointer |-> FromPointer(tree, {}, a, TRUE)]
  <2>1. CASE Drop
    <3>1. Sound(tree') /\ Live(tree') = {}
      BY <2>1, <1>2, DropStepTree
    <3>2. Owners(tree') = [a \in Pointer |-> NULL]
      BY <3>1, EmptyOwnsNothing
    <3>3. Map!Clear
      BY <3>2 DEF Map!Clear, Map!NoOwner, Owners, NULL
    <3> QED BY <3>3 DEF Map!Next
  <2>2. ASSUME NEW o \in Block, Insert(o) PROVE Map!Next
    BY <2>2, <1>2, InsertClaims DEF Map!Next
  <2>3. ASSUME NEW o \in Block, Erase(o) PROVE Map!Next
    BY <2>3, <1>2, EraseReleases DEF Map!Next
  <2>4. CASE UNCHANGED vars
    BY <2>4 DEF vars, Pointer, FromPointer, Live
  <2> QED BY <2>1, <2>2, <2>3, <2>4, <1>2 DEF Next
<1> QED BY <1>1, <1>2, Invariance, PTL DEF Spec, ImplementsPointerMap, Map!Spec
=============================================================================
