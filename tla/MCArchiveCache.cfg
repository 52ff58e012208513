\* Two threads on three row groups with room for two chunks.
CONSTANTS
  t1 = t1  t2 = t2
  g1 = g1  g2 = g2  g3 = g3
  c1 = c1  c2 = c2  c3 = c3
  f1 = f1  f2 = f2  f3 = f3  d = d
  NoThread = NoThread  NoColumn = NoColumn
  Threads = {t1, t2}
  Groups = {g1, g2, g3}
  Columns = {c1, c2, c3}
  Chunk <- MCChunk
  Paths = {f1, f2, f3, d}
  Files = {f1, f2, f3}
  Dirs = {d}
  GroupOf <- MCGroupOf
  WithExtra = {g1}
  Capacity = 2
  MaxCalls = 2
SPECIFICATION FairSpec
CHECK_DEADLOCK FALSE
INVARIANTS CachesCoherent CacheIsMostRecent RepliesRight LocksAreShort
PROPERTIES EveryCallReturns
