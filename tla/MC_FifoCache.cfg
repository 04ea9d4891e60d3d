SPECIFICATION Spec
CONSTANTS
  UsageMax = 1000
  t1 = t1
  t2 = t2
  t3 = t3
  k1 = k1
  k2 = k2
  k3 = k3
  NoThread = NoThread
  Threads = {t1, t2, t3}
  Keys = {k1, k2, k3}
  Capacity = 2
  OpBudget <- MCBudget1
  WarmChoices <- MCWarmFull
  Requests = {"insert", "lookup", "erase"}
INVARIANT TypeOK
INVARIANT ListMatchesMap
INVARIANT NoNodeLeak
PROPERTY EveryOperationCompletes
PROPERTY ImplementsFifoQueue
