------------------------------ MODULE MCOutbox ------------------------------
(***************************************************************************)
(* Instances of Outbox for TLC.                                            *)
(***************************************************************************)
EXTENDS Outbox, TLC

CONSTANTS e1, e2, e3, r1, r2

\* Rows are interchangeable and so are replicas.
RowsAndRelays == Permutations({e1, e2, e3}) \cup Permutations({r1, r2})
=============================================================================
