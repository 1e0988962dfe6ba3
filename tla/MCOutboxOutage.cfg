SPECIFICATION FairSpec
CONSTANTS
  e1 = e1
  e2 = e2
  e3 = e3
  r1 = r1
  r2 = r2
  Events = {e1}
  Relays = {r1}
  BatchSize = 1
  BoundAtStart = TRUE
  Faults = {"broker"}
  MaxFaults = 1
PROPERTIES
  EventuallyQueued
CHECK_DEADLOCK FALSE
