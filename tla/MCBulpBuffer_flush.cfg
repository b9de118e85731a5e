SPECIFICATION FairSpec
CONSTANTS
  Buffers = {b1}
  Frag = {f1, f2}
  Foreign = {}
  NUL = x
  LF = x
  Hole = Hole
  x = x
  y = y
  Byte = {x, Hole}
  NULL = NULL
  FREE = FREE
  NATIVE = NATIVE
  BUF_CHUNK_SIZE = 3
  Header = 1
  MAX_RECYCLED = 1
  MAX_FRAGMENTS_TO_WRITE = 2
  Data <- Lengths
  MaxSize = 3
CHECK_DEADLOCK FALSE
PROPERTY
  FlushEnds
