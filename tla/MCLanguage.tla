----------------------------- MODULE MCLanguage -----------------------------
(* Interpreter with small bounds.                                          *)
EXTENDS Interpreter

MCReg     == {"x", "y"}
MCAtoms   == {Nil}
MCLengths == {1, 3, 5}
MCLines   == {1, 2, 4, 5}
=============================================================================
