----------------------------- MODULE AtomicCreate -----------------------------
(***************************************************************************)
(* What POST /api/v1/orders promises its clients and the rest of the       *)
(* system, whatever happens between the statements of the unit of work: an *)
(* order and the event that announces it come into being in one step, one  *)
(* order per request and per id, and neither is ever taken back.  The      *)
(* client may read 200, or not, but only of the order its own request      *)
(* created.                                                                *)
(***************************************************************************)
CONSTANTS Requests, Ids

VARIABLES
  stored,      \* orders in the database, with the request that created each
  announced,   \* orders whose event the relay may read
  confirmed    \* requests answered 200

vars == <<stored, announced, confirmed>>

Init ==
  /\ stored = {}
  /\ announced = {}
  /\ confirmed = {}

Create(r, id) ==
  /\ \A s \in stored : s.by # r /\ s.id # id
  /\ stored' = stored \cup {[by |-> r, id |-> id]}
  /\ announced' = announced \cup {[by |-> r, id |-> id]}
  /\ confirmed' \in {confirmed, confirmed \cup {r}}

Next == \E r \in Requests, id \in Ids : Create(r, id)

Spec == Init /\ [][Next]_vars
=============================================================================
