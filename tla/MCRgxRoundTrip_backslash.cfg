CONSTANTS
  c1 = c1
  c2 = c2
  top = top
  a = a
  bs = bs
  dot = dot
  Garbage = Garbage
  Name = {top, a, bs}
  Refused = {}
  Backslashed = {bs}
  Chunk = {c1, c2}
  ChunkLen <- MCChunkLen
  ZipLen <- MCZipLen
  MaxChunk = 2
  MaxRefs = 2
  CounterMax = 5
  Root = top
  MaxDepth = 1
  MaxEntries = 3
  Operations <- VerifyOperation
  MaxDamage = 0
SPECIFICATION RoundTripSpec
PROPERTIES PackedVerifies
CHECK_DEADLOCK FALSE
