CONSTANTS
  c1 = c1
  c2 = c2
  top = top
  a = a
  bs = bs
  dot = dot
  Garbage = Garbage
  Name = {top, a, dot}
  Refused = {dot}
  Backslashed = {}
  Chunk = {c1, c2}
  ChunkLen <- MCChunkLen
  ZipLen <- MCZipLen
  MaxChunk = 2
  MaxRefs = 2
  CounterMax = 5
  Root = top
  MaxDepth = 1
  MaxEntries = 3
  Operations <- AllOperations
  MaxDamage = 0
SPECIFICATION ReadFair
INVARIANTS TypeOK ChunksMatchReferences ByteLedger AcceptedIsComplete RestoresWhatWasPacked
PROPERTIES OnlyIncompleteIsRefused ReadEnds
CHECK_DEADLOCK FALSE
