SPECIFICATION Spec
CONSTANTS
  t1 = t1
  t2 = t2
  k1 = k1
  k2 = k2
  k3 = k3
  NoThread = NoThread
  Threads = {t1, t2}
  Keys = {k1, k2, k3}
  SlotsPerSegment = 1
  Capacity = 1
  MinSegmentCount = 4
  OpBudget <- MCBudgetRace
  WarmEntries <- MCCold
INVARIANT NoUnpublishedSlotScanned
