\* Two blocking writers, nobody dies.
CONSTANTS
  Procs = {p1, p2, p3}
  Readers = {p1, p2}
  Writers = {p2, p3}
  Unblocked = {p3}
  ZeroByte = {}
  MaxNest = 2
  MaxDeaths = 0
  Nobody = Nobody
SPECIFICATION Spec
INVARIANTS
  OneWriter
\* A dead process stops, and one may wait for it.
CHECK_DEADLOCK FALSE
