---------------------------- MODULE MCCreateOrder ----------------------------
(***************************************************************************)
(* An instance of CreateOrder for TLC.  Of the amounts, -5 is refused by   *)
(* the aggregate, 0 is a field that was left out, 15 and 25 are ties       *)
(* between cents and 25 + 25 does not fit into four cents.                 *)
(***************************************************************************)
EXTENDS CreateOrder

MCAmounts == {-5, 0, 15, 25}
=============================================================================
