SPECIFICATION Spec
CONSTANTS
  UsageMax = 1000
  t1 = t1
  t2 = t2
  t3 = t3
  k1 = k1
  k2 = k2
  k3 = k3
  NoThread = NoThread
  Threads = {t1, t2}
  Keys = {k1, k2, k3}
  Capacity = 1
  OpBudget <- MCBudget2
  WarmChoices <- MCCold
  Requests = {"insert"}
INVARIANT NoSelfDeadlock
