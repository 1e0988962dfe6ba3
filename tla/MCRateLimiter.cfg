SPECIFICATION Spec
CONSTANTS
  c1 = c1
  c2 = c2
  h1 = h1
  h2 = h2
  l1 = l1
  l2 = l2
  l3 = l3
  l4 = l4
  Clients = {c1, c2}
  NoClient = NoClient
  Handlers = {h1, h2}
  Limiters = {l1, l2, l3, l4}
  NoLimiter = NoLimiter
  Burst = 2
  CleanupInterval = 2
  ClientTimeout = 3
  MaxStall = 2
SYMMETRY Interchangeable
INVARIANTS
  TypeOK
  VisitorsExpire
PROPERTIES
  OneBucketPerClient
