SPECIFICATION Spec
CONSTANTS
  e1 = e1
  e2 = e2
  e3 = e3
  r1 = r1
  r2 = r2
  Events = {e1, e2, e3}
  Relays = {r1, r2}
  BatchSize = 2
  BoundAtStart = TRUE
  Faults = {"db", "broker", "crash"}
  MaxFaults = 3
SYMMETRY RowsAndRelays
INVARIANTS
  TypeOK
  NoDoubleClaim
  PublishedReachedQueue
CHECK_DEADLOCK FALSE
