SPECIFICATION FairSpec
CONSTANTS
  Requests = {r1, r2}
  Ids = {o1}
  NoId = NoId
  Amounts <- MCAmounts
  MaxCents = 4
  NoPayload = NoPayload
  Faults = {"db", "disconnect", "crash"}
INVARIANTS
  TypeOK
  OrderHasItsEvent
  OneAcceptedPerId
  AcceptedIsStored
  SumWithinACent
PROPERTIES
  AtomicSpec
  EveryRequestEnds
CHECK_DEADLOCK FALSE
