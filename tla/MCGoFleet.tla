----------------------------- MODULE MCGoFleet -----------------------------
(***************************************************************************)
(* An instance of GoFleet for TLC: one order, an event that may be         *)
(* published twice, a worker process with one goroutine, and the two       *)
(* drivers of the seed, of whom the second is out of range.                *)
(***************************************************************************)
EXTENDS GoFleet, TLC

CONSTANTS o1, m1, m2, t1, p1, d1, d2

MCAmounts  == {0, 10}
MCMsgOrder == m1 :> o1 @@ m2 :> o1
MCProcOf   == t1 :> p1
MCDistance == d1 :> 1 @@ d2 :> 9
=============================================================================
