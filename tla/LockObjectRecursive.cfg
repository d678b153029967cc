\* One reader that nests, one writer: the nested request.
CONSTANTS
  Readers = {r1}
  Writers = {w1}
  MaxDepth = 2
  MaxShort = 4
SPECIFICATION FairSpec
PROPERTIES
  RecursiveReadGranted
