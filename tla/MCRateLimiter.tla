--------------------------- MODULE MCRateLimiter ---------------------------
(***************************************************************************)
(* An instance of RateLimiter for TLC: two clients and two handlers, a     *)
(* bucket that fills up just before its visitor times out.                 *)
(***************************************************************************)
EXTENDS RateLimiter, TLC

CONSTANTS c1, c2, h1, h2, l1, l2, l3, l4

Interchangeable ==
  Permutations({c1, c2}) \cup Permutations({h1, h2}) \cup Permutations({l1, l2, l3, l4})
=============================================================================
