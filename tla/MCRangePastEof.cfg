\* "callers never request past EOF", with a shard that is replaced.
CONSTANTS
  Contents <- MCContents
  Bytes = {1, 2, 3, 4, 5}
  Adapters = {"local", "loose"}
  Buffers = {1, 2, 4}
  NoReader = NoReader
SPECIFICATION Spec
INVARIANTS NeverPastEof
