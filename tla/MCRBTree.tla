------------------------------ MODULE MCRBTree ------------------------------
(***************************************************************************)
(* Instances of RBTree for TLC: a symbol set, ordered by text, and a scope *)
(* or the table of externals, ordered by the addresses of symbols.         *)
(***************************************************************************)
EXTENDS RBTree

CONSTANT IntBits

K == INSTANCE Keys

\* The empty text, texts that are prefixes of others, bytes on both sides of 127.
Text == << << >>, <<97>>, <<97, 97>>, <<97, 200>>, <<200>>, <<98>>, <<97, 97, 98>> >>
TextOrder == [p \in (DOMAIN Text) \X (DOMAIN Text) |-> K!CompareData(Text[p[1]], Text[p[2]])]
ByText(a, b) == TextOrder[a, b]

ByAddress(a, b) == K!ComparePtr(a, b)
=============================================================================
