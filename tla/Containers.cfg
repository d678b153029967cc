\* One component at a time.
CONSTANTS
  Off = Off
  Node = {n1, n2, n3, n4}
  Null = Null
  Data = {d1, d2}
  Limits = {0, 3}
  OrderedData <- TwoKeys
  BITS_PER_INT = 3
  Ranges <- BitRanges
  NTRIE_ALPHABET_SIZE = 2
  RadixKeys <- KeysOfBytes
  Traversers = {t1, t2}
  TlvBuffers <- EmptyAndReceived
  TlvTypes = {1, 2}
  TlvValues <- ValuesOfAllLengths
  MAX_TLV_VALUE_BYTES = 2
  PoolSizes <- ThreePools
  PoolCounts <- TwoTwoOne
  Objects = {o1, o2}
  Monitors = {m1, m2}
  Block = {b1, b2, b3}
  BlockSizes = {1, 2}
  Header = 2
  MaxAllocations = 3
  EventTypes = {1}
  ALL_OBJECT_TYPES = 99
  Registrants <- FarApart
  HALF_INT = 4
  MaxRegistrations = 3
  MaxNesting = 2
  Process = {p1, p2}
  MALLOC_CHUNK_SIZE = 4
  MALLOC_MAX_CHUNKS = 4
  MAX_HEAP_CONTROL_BLOCKS = 2
  ADMIN_SIZE = 1
  MallocSizes = {3, 7, 15, 16}
  IndexKeys = {1, 2, 3, 4}
  MaxSize = 3
  MaxReferences = 2
  WordBits = 2
  DesiredSizes = {0, 1, 2, 3, 4}
  Nil <- MinusOne
  TreeKeys = {1, 2, 3, 4, 5}
  TreeSize = 4
SPECIFICATION Spec
SYMMETRY Alike
INVARIANTS
  ListsExact
  BitListsExact
  RadixExact
  
  
  BuffersExact
  MemoryCounted
  EventRegistered
  EventToldAsRegistered
  ShmExtentsExact
  ShmKeysExact
\* A radix tree whose traversal found no memory cannot be modified again, and
\* a memory monitor's allocations are bounded.
CHECK_DEADLOCK FALSE
