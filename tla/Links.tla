------------------------------- MODULE Links -------------------------------
(***************************************************************************)
(* What the index of the heap and the lemmas about binary trees share: the *)
(* link to no node, and the larger and the smaller of two numbers.         *)
(***************************************************************************)
EXTENDS Integers

NULL == 0

MaxOf(a, b) == IF a < b THEN b ELSE a
MinOf(a, b) == IF b < a THEN b ELSE a
=============================================================================
