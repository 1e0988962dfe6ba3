SPECIFICATION FairSpec
CONSTANTS
  Messages = {m1, m2, m3, m4, m5}
  Workers = {w1, w2}
  NoMessage = NoMessage
  MaxPanics = 2
  Faults = {"conn", "shutdown"}
INVARIANTS
  TypeOK
  ShutdownIsClean
  IdleIsServed
PROPERTIES
  StartReturns
  QueueDrains
CHECK_DEADLOCK FALSE
