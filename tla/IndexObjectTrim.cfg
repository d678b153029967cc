\* A thread trims while another inserts.
CONSTANTS
  w = w
  r = r
  Threads = {w, r}
  Calls <- ModifierAndTrimmer
  CallbackCalls <- NoCallbacks
  Data <- ThreeKeys
  InitialSize = 4
  ExpansionSize = 1
  INDEX_OBJ_BLOAT = 1
SPECIFICATION Spec
INVARIANTS
  CapacityHolds
