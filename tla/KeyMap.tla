------------------------------- MODULE KeyMap -------------------------------
(***************************************************************************)
(* What the ordered sets of src/rbtree.c promise the symbol set, the       *)
(* scopes and the table of externals (include/rbtree.h): one element per   *)
(* key, the last one stored, found again by that key and no other.         *)
(***************************************************************************)
EXTENDS Functions

CONSTANTS Key, Value

VARIABLE map   \* from the keys present to their elements

Init == map = << >>

Put(k, v) == map' = [x \in DOMAIN map \cup {k} |-> IF x = k THEN v ELSE map[x]]
Remove(k) == map' = Restrict(map, DOMAIN map \ {k})
Clear == map' = << >>

Next ==
  \/ \E k \in Key, v \in Value : Put(k, v)
  \/ \E k \in Key : Remove(k)
  \/ Clear

Spec == Init /\ [][Next]_map
=============================================================================
