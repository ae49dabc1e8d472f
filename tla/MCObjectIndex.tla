--------------------------- MODULE MCObjectIndex ----------------------------
(***************************************************************************)
(* Instances of ObjectIndex for TLC: eight candidate blocks of one to three*)
(* bytes, some of them alternatives for the same memory (malloc may reuse  *)
(* a freed range for an object of another size).                           *)
(***************************************************************************)
EXTENDS ObjectIndex

MCBlock == {1, 3, 4, 5, 7, 9, 12, 14}
MCSize  == (1 :> 2) @@ (3 :> 1) @@ (4 :> 3) @@ (5 :> 2) @@ (7 :> 1) @@ (9 :> 3) @@ (12 :> 1) @@ (14 :> 2)
=============================================================================
