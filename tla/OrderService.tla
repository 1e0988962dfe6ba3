----------------------------- MODULE OrderService -----------------------------
(***************************************************************************)
(* What the whole system promises the people who order, as if it were one  *)
(* program with one database: an order is accepted once, only an accepted  *)
(* order is confirmed to the client, and only an accepted order is worked  *)
(* on, which means that it is dispatched, out of a state that allows it    *)
(* and to a driver in range, or handed to the operators.  Nothing else     *)
(* happens to it, whatever fails, dies, arrives twice or comes late.       *)
(***************************************************************************)
EXTENDS OrderStates, Naturals

CONSTANTS Orders, Drivers, NoDriver, Distance, Radius

VARIABLES
  accepted,    \* orders the system has taken on
  confirmed,   \* orders a client was told about
  row          \* status and driver of every order

vars == <<accepted, confirmed, row>>

Init ==
  /\ accepted = {}
  /\ confirmed = {}
  /\ row = [o \in Orders |-> [status |-> "PENDING", driver |-> NoDriver]]

\* The client may be told 500 of an order that was accepted.
Accept(o) ==
  /\ o \notin accepted
  /\ accepted' = accepted \cup {o}
  /\ confirmed' \in {confirmed, confirmed \cup {o}}
  /\ UNCHANGED row

Dispatch(o, d) ==
  /\ o \in accepted
  /\ row[o].status \in DispatchFrom
  /\ Distance[d] <= Radius
  /\ row' = [row EXCEPT ![o] = [status |-> "DISPATCHED", driver |-> d]]
  /\ UNCHANGED <<accepted, confirmed>>

\* Out of any state: the fallback writes what it has decided on when it read
\* the row, and takes the driver of an order dispatched in between away.
SendToManual(o) ==
  /\ o \in accepted
  /\ row' = [row EXCEPT ![o] = [status |-> "MANUAL_DISPATCH", driver |-> NoDriver]]
  /\ UNCHANGED <<accepted, confirmed>>

Next ==
  \E o \in Orders :
     Accept(o) \/ SendToManual(o) \/ \E d \in Drivers : Dispatch(o, d)

Spec == Init /\ [][Next]_vars
=============================================================================
