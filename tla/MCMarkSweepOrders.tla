------------------------- MODULE MCMarkSweepOrders --------------------------
(***************************************************************************)
(* One collection of a larger heap.  The root cell holds a binary tree of  *)
(* any of the objects in any order, so that the marks arrive in every      *)
(* order and leave every subset to the sweep; the objects outside it have  *)
(* been unlinked.                                                          *)
(***************************************************************************)
EXTENDS MarkSweep

MCBlock == {2, 4, 6, 8, 10, 12}
MCSize  == [o \in MCBlock |-> 2]

Orders == UNION {{s \in [1..n -> Block] : IsInjective(s)} : n \in 0..Cardinality(Block)}

\* The i-th object of s points to those at 2 * i and 2 * i + 1.
At(s, i) == IF i <= Len(s) THEN Data(s[i]) ELSE NULL

Started(s, order) ==
  /\ tree = FoldLeft(LAMBDA t, o : InsertObject(t, o), EmptyTree, order)
  /\ mem = [x \in Holder |-> [f \in 1..Fields |->
              IF x \in ToSet(s) THEN At(s, f - 1 + 2 * CHOOSE i \in DOMAIN s : s[i] = x) ELSE NULL]]
  /\ root = [i \in Root |-> [open |-> TRUE, ref |-> At(s, 1)]]
  /\ scope = Globals /\ frames = <<Globals>>
  /\ count = Cardinality(Block) /\ threshold = ObjectThreshold /\ unref = 0
  /\ phase = "idle" /\ client = Nil
  /\ pending = << >> /\ marked = {} /\ allMarked = {} /\ cursor = NULL

\* Insertion orders that give the index two shapes.
Insertions == {<<2, 4, 6, 8, 10, 12>>, <<12, 10, 8, 6, 4, 2>>}

OrdersInit == \E s \in Orders, order \in Insertions : Started(s, order)
OrdersSpec == OrdersInit /\ [][Collect \/ Gc]_vars
=============================================================================
