\* A process dies with the mutex in hand.
CONSTANTS
  Procs = {p1, p2, p3}
  Readers = {p1, p2}
  Writers = {p2, p3}
  Unblocked = {p3}
  ZeroByte = {}
  MaxNest = 2
  MaxDeaths = 1
  Nobody = Nobody
SPECIFICATION Spec
INVARIANTS
  MutexGivenBack
\* A dead process stops, and one may wait for it.
CHECK_DEADLOCK FALSE
