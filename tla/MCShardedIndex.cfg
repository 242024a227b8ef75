SPECIFICATION Spec
CONSTANTS
  Flushers = {w1, w2}
  Loaders = {r1, r2}
  MaxFlush = 3
  MaxShards = 2
  Width <- MCWidth
  Readable = {1, 3}
INVARIANTS TypeOK PublishedIsWhole
 
