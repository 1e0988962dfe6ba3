SPECIFICATION FairSpec
CONSTANTS
  o1 = o1
  m1 = m1
  m2 = m2
  t1 = t1
  p1 = p1
  d1 = d1
  d2 = d2
  Orders = {o1}
  Requests = {r1}
  NoId = NoId
  Amounts <- MCAmounts
  MaxCents = 1
  NoPayload = NoPayload
  ApiFaults = {"db", "crash"}
  Replica = Replica
  BatchSize = 1
  RelayFaults = {"db", "stall", "crash"}
  MaxFaults = 1
  Msgs = {m1, m2}
  MsgOrder <- MCMsgOrder
  Threads = {t1}
  Procs = {p1}
  ProcOf <- MCProcOf
  NoMsg = NoMsg
  MaxRetries = 1
  BackoffRetries = 1
  WorkerFaults = {"db", "fleet"}
  Drivers = {d1, d2}
  NoDriver = NoDriver
  Distance <- MCDistance
  Radius = 5
  FleetFaults = {"geo", "net", "stop"}
PROPERTIES
  ServiceSpec
  EveryOrderSettles
INVARIANTS
  TypeOK
  OnlyAcceptedOrders
  AcceptedIsInHand
CHECK_DEADLOCK FALSE
