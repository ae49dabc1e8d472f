SPECIFICATION Spec
CONSTANTS
  Object = {o1, o2, o3}
  Kind = {"Scope", "String", "Symbol"}
  Root = {r1}
  Globals = Globals
  Atom = Atom
  Nil = Nil
  Unused = Unused
  ObjectThreshold = 1
  Factor = 2
  UnrefThreshold = 2
  MaxLinks = 2
  MaxFrames = 2
  MaxVars = 1
SYMMETRY Symmetry
INVARIANTS TypeOK NoDangling Accounting
