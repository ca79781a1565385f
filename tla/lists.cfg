CONSTANTS
  Heads = {h1, h2, q}
  FreeQueue = q
  Entries = {e1, e2, e3, e4}
  Null = Null
SPECIFICATION Spec
SYMMETRY HeadAndEntrySymmetry
INVARIANTS
  Rings
PROPERTIES
  ListsSpec
