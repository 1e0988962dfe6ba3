SPECIFICATION Spec
CONSTANTS
  o1 = o1
  m1 = m1
  m2 = m2
  t1 = t1
  t2 = t2
  p1 = p1
  p2 = p2
  Orders = {o1}
  Msgs = {m1}
  MsgOrder <- SoloCopy
  Backlog = {m1}
  Threads = {t1, t2}
  Procs = {p1}
  ProcOf <- SameProcess
  Drivers = {d1}
  NoDriver = NoDriver
  NoMsg = NoMsg
  MaxRetries = 1
  BackoffRetries = 1
  Faults = {"crash"}
INVARIANTS
  NoSilentLoss
CHECK_DEADLOCK FALSE
