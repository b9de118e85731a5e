SPECIFICATION Spec
CONSTANTS
  Group = 4
  ByteBits = 3
  ShortWord = 32
  IntWord = 512
  LongWord = 524288
  ForeignBytes = {}
  MaxForeign = 0
  Schemas <- StructSchemas
INVARIANT StructEndsWithNul
CHECK_DEADLOCK FALSE
