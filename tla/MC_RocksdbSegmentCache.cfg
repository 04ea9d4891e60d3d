SPECIFICATION Spec
CONSTANTS
  t1 = t1
  t2 = t2
  NoThread = NoThread
  Threads = {t1, t2}
  Keys <- MCKeys
  ClientKeys = {1, 2, 3}
  SlotsPerSegment = 2
  Capacity = 5
  MinSegmentCount = 20
  Requests = {"insert", "lookup", "erase", "release"}
  OpBudget <- MCBudget3
  WarmSlots <- MCWarm
INVARIANT TypeOK
INVARIANT RefCountExact
INVARIANT UsageCountsEntries
INVARIANT IndexedEntryHasCurrentSlot
