SPECIFICATION Spec
CONSTANTS
  Group = 4
  ByteBits = 3
  ShortWord = 32
  IntWord = 512
  LongWord = 524288
  ForeignBytes = {0, 1, 4, 7}
  MaxForeign = 5
  Schemas <- FormatSchemas
INVARIANTS
  SizeIsExact
  RoundTrip
  RefusedOnlyWhenShort
  StaysInside
  AcceptedCanBeSent
  NoEarlyAcceptance
  LookupsAgree
  ComparedAsValues
CHECK_DEADLOCK FALSE
