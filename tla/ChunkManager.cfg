\* Three threads, two group addresses of two chunks each.
CONSTANTS
  Threads = {t1, t2, t3}
  Group = {g1, g2}
  PerGroup = 2
  NoThread = NoThread
SPECIFICATION FairSpec
INVARIANTS
  AddressesStay
  HandedOutOnce
  CountsExact
  NoLeak
  TrimThorough
PROPERTIES
  ImplementsPool
  CallsReturn
