SPECIFICATION Spec
CONSTANTS
  c1 = c1
  c2 = c2
  Clients = {c1, c2}
  NumRequests = 2
  Granularity = 2
INVARIANT TypeOK
INVARIANT NoSampleCountedTwice
PROPERTY RunCompletes
