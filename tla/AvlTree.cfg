\* Trees of up to seven nodes, which reach every branch; searched and traversed up to four.
CONSTANTS
  Nil = 0
  changer = changer
  walker = walker
  Threads = {changer, walker}
  Calls <- Together
  Keys = {1, 2, 3, 4, 5, 6, 7}
  Shared = {1, 2, 3, 4}
SPECIFICATION FairSpec
INVARIANTS
  WellFormed
  SearchExact
  Preordered
PROPERTIES
  CallsReturn
