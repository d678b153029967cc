\* A reader, a writer that nests, a writer of each kind; one of them dies.
CONSTANTS
  Procs = {p1, p2, p3}
  Readers = {p1, p2}
  Writers = {p2, p3}
  Unblocked = {p3}
  ZeroByte = {}
  MaxNest = 2
  MaxDeaths = 1
  Nobody = Nobody
SPECIFICATION FairSpec
INVARIANTS
  ReadersExcludeWriters
  WritersCounted
PROPERTIES
  PendingHoldsReaders
  WriterServed
\* A dead process stops, and one may wait for it.
CHECK_DEADLOCK FALSE
