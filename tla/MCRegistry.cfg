\* Two threads, a scheme of their own and a built-in one; the finalizer of one
\* adapter gives the GIL up, and then the threads may all stop.
CONSTANTS
  t1 = t1  t2 = t2
  a1 = a1  a2 = a2  mem = mem  file = file
  NoThread = NoThread  NoAdapter = NoAdapter  Native = Native
  Threads = {t1, t2}
  Schemes = {mem, file}
  BuiltIn = {file}
  Adapters = {a1, a2}
  Yielding = {a1}
  MaxCalls = 2
  MaxUrls = 1
SPECIFICATION FairSpec
CHECK_DEADLOCK FALSE
INVARIANTS AdaptersAreCurrent LockHoldersRun
PROPERTIES EveryCallReturns
