CONSTANTS
  c1 = c1
  c2 = c2
  top = top
  a = a
  bs = bs
  dot = dot
  Garbage = Garbage
  Name = {top, a}
  Refused = {}
  Backslashed = {}
  Chunk = {c1, c2}
  ChunkLen <- SameLen
  ZipLen <- MCZipLen
  MaxChunk = 2
  MaxRefs = 2
  CounterMax = 3
  Root = top
  MaxDepth = 1
  MaxEntries = 3
  Operations <- DeliveringOperations
  MaxDamage = 1
SPECIFICATION ReadFair
INVARIANTS NoAlteredContent NoLostContent
PROPERTIES ReadEnds
CHECK_DEADLOCK FALSE
