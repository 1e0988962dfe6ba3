---------------------------- MODULE TokenBucket ----------------------------
(***************************************************************************)
(* What the rate limiter of the API promises: every client has one token   *)
(* bucket, full when the client is first seen, and each of its requests is *)
(* decided by that bucket alone, in one step, whoever else is served       *)
(* meanwhile.  A tick is the time in which one token comes in (a tenth of  *)
(* a second), so that the rate is one token per tick.                      *)
(***************************************************************************)
EXTENDS Naturals

CONSTANTS Clients,   \* keys of the limiter
          NoClient,
          Handlers,  \* goroutines that serve requests
          Burst      \* capacity of a bucket (20)

VARIABLES
  bucket,  \* tokens of each client
  phase,   \* handler: waiting for a request, for the decision, decided
  client   \* handler: whose request it serves

vars == <<bucket, phase, client>>

Init ==
  /\ bucket = [c \in Clients |-> Burst]
  /\ phase = [h \in Handlers |-> "idle"]
  /\ client = [h \in Handlers |-> NoClient]

Goto(h, next) == phase' = [phase EXCEPT ![h] = next]

Refill(tokens) == IF tokens < Burst THEN tokens + 1 ELSE tokens

Arrive(h, c) ==
  /\ phase[h] = "idle"
  /\ Goto(h, "limit")
  /\ client' = [client EXCEPT ![h] = c]
  /\ UNCHANGED bucket

Serve(h) ==
  /\ phase[h] = "limit"
  /\ bucket[client[h]] > 0
  /\ bucket' = [bucket EXCEPT ![client[h]] = @ - 1]
  /\ Goto(h, "served")
  /\ UNCHANGED client

Refuse(h) ==
  /\ phase[h] = "limit"
  /\ bucket[client[h]] = 0
  /\ Goto(h, "refused")
  /\ UNCHANGED <<bucket, client>>

Finish(h) ==
  /\ phase[h] \in {"served", "refused"}
  /\ Goto(h, "idle")
  /\ client' = [client EXCEPT ![h] = NoClient]
  /\ UNCHANGED bucket

Tick ==
  /\ bucket' = [c \in Clients |-> Refill(bucket[c])]
  /\ UNCHANGED <<phase, client>>

Next ==
  \/ Tick
  \/ \E h \in Handlers :
        \/ \E c \in Clients : Arrive(h, c)
        \/ Serve(h) \/ Refuse(h) \/ Finish(h)

Spec == Init /\ [][Next]_vars
=============================================================================
