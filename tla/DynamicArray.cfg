\* Two slots at first, one index below them and one above; pointers of 8 bytes.
CONSTANTS
  Block = {b1, b2, b3}
  Null = Null
  Data = {d1, d2}
  Reach = 1
  InitialSize = 2
  PointerSize = 8
SPECIFICATION Spec
INVARIANTS
  ElementsOwned
