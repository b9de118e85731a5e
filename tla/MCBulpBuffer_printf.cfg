SPECIFICATION Spec
CONSTANTS
  Buffers = {b1, b2}
  Frag = {f1, f2}
  Foreign = {o1}
  NUL = x
  LF = y
  Hole = Hole
  x = x
  y = y
  Byte = {x, y, Hole}
  NULL = NULL
  FREE = FREE
  NATIVE = NATIVE
  BUF_CHUNK_SIZE = 3
  Header = 1
  MAX_RECYCLED = 1
  MAX_FRAGMENTS_TO_WRITE = 2
  Data <- Strings
  MaxSize = 3
SYMMETRY Symmetry
VIEW StateView
CHECK_DEADLOCK FALSE
PROPERTY
  PrintfExact
