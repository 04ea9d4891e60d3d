\* Two clients past the warm state at capacity: each insert grows the log
\* and evicts, and the two evictors meet between Evict's unlock and count--.
SPECIFICATION Spec
CONSTANTS
  t1 = t1
  t2 = t2
  k1 = k1
  k2 = k2
  k3 = k3
  NoThread = NoThread
  Threads = {t1, t2}
  Keys = {k1, k2, k3}
  SlotsPerSegment = 1
  Capacity = 5
  MinSegmentCount = 4
  OpBudget <- MCBudget2
  WarmEntries <- MCWarm
INVARIANT LogAboveFloor
