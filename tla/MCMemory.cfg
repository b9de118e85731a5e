SPECIFICATION MCSpec
CONSTANTS
  ChunkSize = 4
  PtrSize = 2
  UIntSize = 10
  PiecesPerSlab = 2
  Buffer = Buffer
  Caller = Caller
  k1 = k1
  k2 = k2
  k3 = k3
  Blocks = {k1, k2, k3}
  PieceSize = 2
  PieceSizes = {2, 3}
  BufferSizes = {3}
  BufferCounts = {0, 2}
  Lengths = {0, 1, 2, 4}
  Sizes = {0, 1, 2, 4}
  MaxBytes = 6
  MaxPieces = 4
SYMMETRY Symmetry
VIEW StateView
CHECK_DEADLOCK FALSE
INVARIANTS
  PiecesAreTold
  SizeIsBuilt
  AllocationsInside
  AllocationsApart
  AllocationsAligned
  ChunksOwned
  PieceHeldOnce
  PiecesApart
  SlabsOwned
