SPECIFICATION FairSpec
CONSTANTS
  e1 = e1
  e2 = e2
  e3 = e3
  r1 = r1
  r2 = r2
  Events = {e1, e2}
  Relays = {r1, r2}
  BatchSize = 2
  BoundAtStart = FALSE
  Faults = {"db", "conn", "stall", "crash"}
  MaxFaults = 2
PROPERTIES
  PublishedIsFinal
  EventuallyPublished
CHECK_DEADLOCK FALSE
