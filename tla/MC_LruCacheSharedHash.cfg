SPECIFICATION Spec
CONSTANTS
  UsageMax = 1000
  t1 = t1
  t2 = t2
  k1 = k1
  k2 = k2
  NoThread = NoThread
  Threads = {t1, t2}
  Keys = {k1, k2}
  Capacity = 2
  OpBudget <- MCBudget2
  WarmChoices <- MCWarm1
  Requests = {"insert", "lookup", "erase"}
INVARIANT ListMatchesMap
