---------------------------- MODULE MCMarkSweep -----------------------------
(***************************************************************************)
(* Instances of MarkSweep for TLC: three blocks of two bytes, header and   *)
(* data, at fixed places; the global scope is a variable beyond them.      *)
(***************************************************************************)
EXTENDS MarkSweep

SmallBlock == {2, 4, 6}
SmallSize  == [o \in SmallBlock |-> 2]
=============================================================================
