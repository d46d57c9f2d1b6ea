CONSTANTS
  c1 = c1
  c2 = c2
  top = top
  a = a
  bs = bs
  BodyLen = 3
  Garbage = Garbage
  Name = {top, a, bs}
  Refused = {}
  Backslashed = {bs}
  Chunk = {c1, c2}
  ChunkLen <- MCChunkLen
  ZipLen <- MCZipLen
  MaxChunk = 2
  MaxRefs = 2
  CounterMax = 4
  Operations <- MCOperations
SPECIFICATION Spec
INVARIANTS ReaderConsistent ScanMatchesFormat NoSelfCollision DeliversWhatIsRecorded
CHECK_DEADLOCK FALSE
