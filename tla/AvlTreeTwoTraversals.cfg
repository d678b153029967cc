\* Trees of up to four nodes under two Morris traversals at once.
CONSTANTS
  Nil = 0
  changer = changer
  walker = walker
  Threads = {changer, walker}
  Calls <- TwoTraversals
  Keys = {1, 2, 3, 4}
  Shared = {1, 2, 3, 4}
SPECIFICATION Spec
INVARIANTS
  EveryNodeVisited
