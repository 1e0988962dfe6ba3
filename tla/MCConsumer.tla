----------------------------- MODULE MCConsumer -----------------------------
(***************************************************************************)
(* Instances of Consumer for TLC: two goroutines, in one process or two,   *)
(* and one copy of an event or two.                                        *)
(***************************************************************************)
EXTENDS Consumer, TLC

CONSTANTS o1, m1, m2, t1, t2, p1, p2

\* One event delivered twice (the relay may publish an event again).
TwoCopies == m1 :> o1 @@ m2 :> o1

SoloCopy == m1 :> o1

\* Goroutines of one process share the breaker and the channel.
SameProcess  == t1 :> p1 @@ t2 :> p1
TwoProcesses == t1 :> p1 @@ t2 :> p2

\* Goroutines together with their processes are interchangeable.
Processes == {f \in Permutations({t1, t2, p1, p2}) :
                 \A t \in {t1, t2} : /\ f[t] \in {t1, t2}
                                     /\ f[TwoProcesses[t]] = TwoProcesses[f[t]]}
=============================================================================
