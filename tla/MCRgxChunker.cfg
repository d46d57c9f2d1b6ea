CONSTANTS
  Byte = {0, 1}
  ZeroByte = 0
  WordBits = 3
  WindowSize = 3
  MinChunkSize = 4
  MaxChunkSize = 6
  BoundaryMask <- MCMask
  GearValue <- MCGear
  BufferSize = 4
  MaxText = 12
SPECIFICATION Spec
INVARIANTS ChunkerInv CutsAreLocal
CHECK_DEADLOCK FALSE
