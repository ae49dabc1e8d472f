SPECIFICATION IntactSpec
CONSTANTS
  Key = {1, 2, 3, 4, 5, 6, 7}
  Value = {v1}
  IntBits = 10
  Compare <- ByText
INVARIANTS TypeOK SearchTree RedBlack Iterates LookupExact
PROPERTIES ImplementsKeyMap
