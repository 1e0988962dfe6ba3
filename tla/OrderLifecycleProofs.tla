----------------------- MODULE OrderLifecycleProofs -----------------------
(***************************************************************************)
(* The promises of the aggregate, for any orders and drivers.              *)
(***************************************************************************)
EXTENDS OrderLifecycle, TLAPS

\* No driver has the empty id.
DriversHaveIds == NoDriver \notin Drivers

\* The two invariants together are inductive.
IInv == TypeOK /\ DriverMatchesStatus

LEMMA InitInv ==
  ASSUME DriversHaveIds
  PROVE  Init => IInv
BY DEF DriversHaveIds, Init, IInv, TypeOK, DriverMatchesStatus, Row, Status

\* One operation on one order keeps the invariant and the driver.
LEMMA OperationInv ==
  ASSUME DriversHaveIds, IInv, NEW o \in Orders,
         \/ \E d \in Drivers : Dispatch(o, d)
         \/ SendToManual(o) \/ Deliver(o) \/ Cancel(o)
  PROVE  /\ IInv'
         /\ \A x \in Orders : row[x].driver # NoDriver => row'[x].driver = row[x].driver
<1>1. row[o] \in Row
  BY DEF IInv, TypeOK
<1>2. PICK r \in Row : /\ row' = [row EXCEPT ![o] = r]
                       /\ \/ /\ row[o].status \in DispatchFrom
                             /\ r.status = "DISPATCHED" /\ r.driver \in Drivers
                          \/ /\ row[o].status \in SendToManualFrom
                             /\ r.status = "MANUAL_DISPATCH" /\ r.driver = row[o].driver
                          \/ /\ row[o].status \in DeliverFrom
                             /\ r.status = "DELIVERED" /\ r.driver = row[o].driver
                          \/ /\ r.status = "CANCELLED" /\ r.driver = row[o].driver
  <2>1. CASE \E d \in Drivers : Dispatch(o, d)
    <3>1. PICK d \in Drivers : Dispatch(o, d)
      BY <2>1
    <3>2. [status |-> "DISPATCHED", driver |-> d] \in Row
      BY DEF Row, Status
    <3> QED BY <3>1, <3>2 DEF Dispatch
  <2>2. CASE SendToManual(o)
    <3> DEFINE r == [row[o] EXCEPT !.status = "MANUAL_DISPATCH"]
    <3>1. r \in Row /\ r.status = "MANUAL_DISPATCH" /\ r.driver = row[o].driver
      BY <1>1 DEF Row, Status
    <3>2. row' = [row EXCEPT ![o] = r] /\ row[o].status \in SendToManualFrom
      BY <2>2 DEF SendToManual
    <3> QED BY <3>1, <3>2
  <2>3. CASE Deliver(o)
    <3> DEFINE r == [row[o] EXCEPT !.status = "DELIVERED"]
    <3>1. r \in Row /\ r.status = "DELIVERED" /\ r.driver = row[o].driver
      BY <1>1 DEF Row, Status
    <3>2. row' = [row EXCEPT ![o] = r] /\ row[o].status \in DeliverFrom
      BY <2>3 DEF Deliver
    <3> QED BY <3>1, <3>2
  <2>4. CASE Cancel(o)
    <3> DEFINE r == [row[o] EXCEPT !.status = "CANCELLED"]
    <3>1. r \in Row /\ r.status = "CANCELLED" /\ r.driver = row[o].driver
      BY <1>1 DEF Row, Status
    <3>2. row' = [row EXCEPT ![o] = r]
      BY <2>4 DEF Cancel
    <3> QED BY <3>1, <3>2
  <2> QED BY <2>1, <2>2, <2>3, <2>4
<1>3. TypeOK'
  BY <1>2 DEF IInv, TypeOK
<1>4. \A x \in Orders : row'[x] = IF x = o THEN r ELSE row[x]
  BY <1>2 DEF IInv, TypeOK
<1>5. DriverMatchesStatus'
  BY <1>2, <1>4
     DEF DriversHaveIds, IInv, DriverMatchesStatus, SendToManualFrom, DeliverFrom
<1>6. \A x \in Orders : row[x].driver # NoDriver => row'[x].driver = row[x].driver
  BY <1>2, <1>4 DEF IInv, DriverMatchesStatus, DispatchFrom
<1> QED BY <1>3, <1>5, <1>6 DEF IInv

\* A step keeps the invariant and the drivers that are assigned.
LEMMA StepInv ==
  ASSUME DriversHaveIds
  PROVE  IInv /\ [Next]_row =>
            /\ IInv'
            /\ \A o \in Orders : row[o].driver # NoDriver => row'[o].driver = row[o].driver
<1> SUFFICES ASSUME IInv, [Next]_row
             PROVE  /\ IInv'
                    /\ \A o \in Orders : row[o].driver # NoDriver => row'[o].driver = row[o].driver
  OBVIOUS
<1>1. CASE Next
  BY <1>1, OperationInv DEF Next
<1>2. CASE UNCHANGED row
  BY <1>2 DEF IInv, TypeOK, DriverMatchesStatus
<1> QED BY <1>1, <1>2

(***************************************************************************)
(* Status and driver columns keep their types over every sequence of       *)
(* operations of the aggregate.                                            *)
(***************************************************************************)
THEOREM TypeCorrect ==
  ASSUME DriversHaveIds
  PROVE  Spec => []TypeOK
<1>1. IInv => TypeOK
  BY DEF IInv
<1> QED BY InitInv, StepInv, <1>1, PTL DEF Spec

(***************************************************************************)
(* A driver is there exactly when the status says so.                      *)
(***************************************************************************)
THEOREM DriverIsConsistent ==
  ASSUME DriversHaveIds
  PROVE  Spec => []DriverMatchesStatus
<1>1. IInv => DriverMatchesStatus
  BY DEF IInv
<1> QED BY InitInv, StepInv, <1>1, PTL DEF Spec

(***************************************************************************)
(* No sequence of operations replaces or removes an assigned driver.       *)
(***************************************************************************)
THEOREM DriverIsFinal ==
  ASSUME DriversHaveIds
  PROVE  Spec => AssignedDriverIsFinal
<1>1. IInv /\ [Next]_row =>
        [\A o \in Orders : row[o].driver # NoDriver => row'[o].driver = row[o].driver]_row
  BY StepInv
<1> QED BY InitInv, StepInv, <1>1, PTL DEF Spec, AssignedDriverIsFinal
=============================================================================
