------------------------------- MODULE MCHeap -------------------------------
(***************************************************************************)
(* Instances of Heap for TLC.                                              *)
(***************************************************************************)
EXTENDS Heap, TLC

Symmetry == Permutations(Object) \cup Permutations(Root)
=============================================================================
