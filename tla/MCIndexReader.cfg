SPECIFICATION FairSpec
CONSTANTS
  Files = {"index", "heap"}
  NULL = NULL
  NONE = NONE
  ZLIB = ZLIB
  SNAPPY = SNAPPY
  Garbage = Garbage
  SLAB_MIN = 2
  EntrySize = 2
  MaxLength = 6
  Bytes = {a, b, c}
  a = a
  b = b
  c = c
  Contents <- SmallContents
CHECK_DEADLOCK FALSE
INVARIANTS
  RecordsInOrder
  EndIsTheEnd
PROPERTY
  CallsReturn
