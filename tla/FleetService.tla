---------------------------- MODULE FleetService ----------------------------
(***************************************************************************)
(* The fleet service: a geo index of drivers in Redis, filled when the     *)
(* service starts, and SearchDriver, which answers the nearest driver      *)
(* within Radius of the order, or an error.  It keeps no reservation: the  *)
(* same driver is found for every order.  Coordinates are reduced to the   *)
(* distance from the one position all orders have.                         *)
(***************************************************************************)
EXTENDS Naturals

CONSTANTS Drivers,   \* the drivers of the seed data
          Distance,  \* Distance[d]: from the order to driver d
          Radius,    \* how far SearchDriver looks (5 km)
          FleetFaults

FaultKinds == {"geo",    \* a Redis call fails
               "net",    \* a call, or its answer, does not get through
               "stop"}   \* the service stops, and is started again

VARIABLES
  located,   \* drivers in the geo index
  serving    \* the gRPC server answers

vars == <<located, serving>>

TypeOK == located \subseteq Drivers /\ serving \in BOOLEAN

Init == located = {} /\ serving = FALSE

\* UpdateDriverPosition for each driver of the seed; its errors are dropped.
Start ==
  /\ ~serving
  /\ serving' = TRUE
  /\ \E missed \in IF "geo" \in FleetFaults THEN SUBSET Drivers ELSE {{}} :
        located' = located \cup (Drivers \ missed)

Stop ==
  /\ "stop" \in FleetFaults
  /\ serving
  /\ serving' = FALSE
  /\ UNCHANGED located

\* Mutant of InRange: the nearest driver, however far.
InRangeAlways(d) == TRUE
InRange(d) == Distance[d] <= Radius

Nearest ==
  {d \in located : InRange(d) /\ \A e \in located : Distance[d] <= Distance[e]}

\* The two answers of SearchDriver, as its caller sees them.
Finds(d) == serving /\ d \in Nearest
Fails == ~serving \/ FleetFaults \cap {"geo", "net"} # {} \/ Nearest = {}
=============================================================================
