\* Two threads, three schemes and two hosts, one of which never answers; globs
\* of up to two segments, one with braces before its wildcard and one that
\* does not parse.
CONSTANTS
  t1 = t1  t2 = t2  h1 = h1  h2 = h2  a = a  b = b  x = x
  NoThread = NoThread  NoHost = NoHost
  Threads = {t1, t2}
  Schemes = {"s3", "http", "https"}
  Hosts = {h1, h2, NoHost}
  Names = {a, b, x}
  Paths <- MCPaths
  Objects <- MCObjects
  Sent <- Unchanged
  Stalled = {h2}
  MaxCalls = 1
SPECIFICATION NativeFairSpec
CHECK_DEADLOCK FALSE
INVARIANTS ListsEveryMatch
PROPERTIES OthersReturn
