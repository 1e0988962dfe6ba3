--------------------------- MODULE OrderLifecycle ---------------------------
(***************************************************************************)
(* What the domain layer promises about an order, as the abstract          *)
(* specification of the orders table: a row is created PENDING without a   *)
(* driver and from then on changes only by an operation of the aggregate   *)
(* applied to the row's current value.  The services read a row, run the   *)
(* operation in memory and write the row back in another statement; the    *)
(* module Consumer shows when that still implements this specification.    *)
(***************************************************************************)
EXTENDS OrderStates

CONSTANTS Orders,    \* ids of the orders in the table
          Drivers,   \* driver ids
          NoDriver   \* an empty driver id, NULL in the table

VARIABLE row         \* row[o]: the status and driver columns of order o

Row == [status : Status, driver : Drivers \cup {NoDriver}]

TypeOK == row \in [Orders -> Row]

Init == row = [o \in Orders |-> [status |-> "PENDING", driver |-> NoDriver]]

(***************************************************************************)
(* The operations of the aggregate.  Only Dispatch touches the driver.     *)
(***************************************************************************)
Dispatch(o, d) ==
  /\ row[o].status \in DispatchFrom
  /\ row' = [row EXCEPT ![o] = [status |-> "DISPATCHED", driver |-> d]]

SendToManual(o) ==
  /\ row[o].status \in SendToManualFrom
  /\ row' = [row EXCEPT ![o].status = "MANUAL_DISPATCH"]

Deliver(o) ==
  /\ row[o].status \in DeliverFrom
  /\ row' = [row EXCEPT ![o].status = "DELIVERED"]

Cancel(o) ==
  /\ row[o].status \in CancelFrom
  /\ row' = [row EXCEPT ![o].status = "CANCELLED"]

Next ==
  \E o \in Orders :
     \/ \E d \in Drivers : Dispatch(o, d)
     \/ SendToManual(o)
     \/ Deliver(o)
     \/ Cancel(o)

Spec == Init /\ [][Next]_row

-----------------------------------------------------------------------------
(***************************************************************************)
(* A driver, once assigned, is never replaced or taken away: the only      *)
(* operation that writes the driver is refused in every state that a       *)
(* dispatched order can reach.                                             *)
(***************************************************************************)
AssignedDriverIsFinal ==
  [][\A o \in Orders :
        row[o].driver # NoDriver => row'[o].driver = row[o].driver]_row

(***************************************************************************)
(* An order is on the road or delivered only with a driver, and waits      *)
(* (PENDING or MANUAL_DISPATCH) only without one.                          *)
(***************************************************************************)
DriverMatchesStatus ==
  \A o \in Orders :
     /\ row[o].status \in {"DISPATCHED", "DELIVERED"} => row[o].driver # NoDriver
     /\ row[o].status \in {"PENDING", "MANUAL_DISPATCH"} => row[o].driver = NoDriver
=============================================================================
