SPECIFICATION SupportSpec
CONSTANTS
  Kernels <- MCKernels
  MaxSize = 2
  PageUnits = 2
  MaxHeld = 2
  MaxCount = 3
INVARIANTS ShimInv ObjectsInv BufferBacked
PROPERTY LoadEnds
