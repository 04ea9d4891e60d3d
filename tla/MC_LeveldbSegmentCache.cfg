SPECIFICATION Spec
CONSTANTS
  t1 = t1
  t2 = t2
  NoThread = NoThread
  Threads = {t1, t2}
  Keys <- MCKeys
  ClientKeys = {1, 2}
  SlotsPerSegment = 2
  Capacity = 2
  Requests = {"insert", "lookup", "erase", "release"}
  OpBudget <- MCBudget3
INVARIANT NoSelfWait
