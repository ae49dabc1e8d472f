SPECIFICATION Spec
CONSTANTS
  Block <- SmallBlock
  Size <- SmallSize
  Root = {r1}
  Globals = 100
  Atom = Atom
  Nil = Nil
  Unused = Unused
  ObjectThreshold = 2
  Factor = 2
  UnrefThreshold = 1
  Header = 1
  Fields = 1
  MaxLinks = 1
  MaxFrames = 2
INVARIANTS TypeOK FlagsCleared
PROPERTIES ImplementsHeap GcEnds
