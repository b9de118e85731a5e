SPECIFICATION Spec
CONSTANTS
  Buffers = {b1}
  Frag = {f1, f2, f3, f4}
  Foreign = {o1, o2}
  NUL = z
  LF = y
  Hole = Hole
  x = x
  y = y
  z = z
  h = h
  High = {h}
  Negative = Negative
  Byte = {x, y, z, h, Hole}
  NULL = NULL
  FREE = FREE
  NATIVE = NATIVE
  BUF_CHUNK_SIZE = 3
  Header = 1
  MAX_RECYCLED = 2
  MAX_FRAGMENTS_TO_WRITE = 2
  Data <- HighTexts
  Patterns <- SearchedFor
  MaxSize = 5
SYMMETRY Symmetry
VIEW StateView
CHECK_DEADLOCK FALSE
INVARIANTS
  NoLeak
  LentIsReachable
  InsideAllocation
  ScansAgree
