SPECIFICATION OrdersSpec
CONSTANTS
  Block <- MCBlock
  Size <- MCSize
  Root = {r1}
  Globals = 100
  Atom = Atom
  Nil = Nil
  Unused = Unused
  ObjectThreshold = 8
  Factor = 2
  UnrefThreshold = 100
  Header = 1
  Fields = 2
  MaxLinks = 6
  MaxFrames = 1
INVARIANTS AllMarkedExact Frontier
PROPERTIES LeavesAccessible
