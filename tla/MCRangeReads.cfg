\* Any adapter, and a shard that is replaced under the index.
CONSTANTS
  Contents <- MCContents
  Bytes = {1, 2, 3, 4, 5}
  Adapters = {"local", "loose"}
  Buffers = {1, 2, 4}
  NoReader = NoReader
SPECIFICATION FairSpec
INVARIANTS StreamFollowsShard RangeIsWhole EndIsTheEnd InsideUntilReplaced
PROPERTIES StreamEnds
