\* A modifier and a reader on a thread safe index; one thread and callbacks on one that is not.
CONSTANTS
  w = w
  r = r
  Threads = {w, r}
  Calls <- ModifierAndReader
  CallbackCalls <- Callbacks
  Data <- ThreeKeys
  InitialSize = 2
  ExpansionSize = 1
  INDEX_OBJ_BLOAT = 1
SPECIFICATION FairSpec
INVARIANTS
  Sorted
  FindSound
  CapacityHolds
PROPERTIES
  TraversalUndisturbed
  ImplementsSortedIndex
  ModificationReturns
