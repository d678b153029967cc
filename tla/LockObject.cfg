\* A reader that nests, a writer, and a thread that does both.
CONSTANTS
  Readers = {r1, b1}
  Writers = {w1, b1}
  MaxDepth = 2
  MaxShort = 4
SPECIFICATION FairSpec
INVARIANTS
  TypeOK
  MtxExclusion
  ReadersExact
  WriterExclusion
  MarkCoversWriter
PROPERTIES
  NoReaderPassesMark
  ImplementsRWLock
  WriterNotStarved
