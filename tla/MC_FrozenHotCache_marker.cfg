SPECIFICATION Spec
CONSTANTS
  t1 = t1
  t2 = t2
  k1 = k1
  k2 = k2
  k3 = k3
  Ctrl = Ctrl
  NullKey = NullKey
  MarkerKey = MarkerKey
  NoThread = NoThread
  Threads = {t1, t2}
  Keys = {k1, k2, k3}
  Capacity = 1
  OpBudget <- MCBudget2
  WarmChoices <- MCWarmEmptyOrOver
  Requests = {"insert", "lookup"}
  CtrlBudget = 1
  FCSizes = {0}
  Magic = 0
INVARIANT MarkerInList
VIEW DeadDataView
