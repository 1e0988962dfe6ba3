---------------------------- MODULE OrderStates ----------------------------
(***************************************************************************)
(* The order aggregate's state machine (internal/domain/entity): the       *)
(* persisted status names and, for each operation of the State pattern,    *)
(* the states whose implementation of it succeeds.  In every other state   *)
(* the operation returns ErrInvalidStateTransition and changes nothing.    *)
(***************************************************************************)

Status == {"PENDING", "DISPATCHED", "MANUAL_DISPATCH", "DELIVERED", "CANCELLED"}

\* Mutants of the next two: DispatchedState accepts the operation.
DispatchFromDispatched     == {"PENDING", "MANUAL_DISPATCH", "DISPATCHED"}
SendToManualFromDispatched == {"PENDING", "DISPATCHED"}

DispatchFrom     == {"PENDING", "MANUAL_DISPATCH"}
SendToManualFrom == {"PENDING"}
DeliverFrom      == {"DISPATCHED"}
CancelFrom       == {"PENDING", "MANUAL_DISPATCH", "DISPATCHED"}
=============================================================================
