---------------------------- MODULE RateLimiter ----------------------------
(***************************************************************************)
(* middleware.IPDispatcher of the API service: a map from client keys to   *)
(* visitors, each a rate.Limiter and the time it was last asked for.  A    *)
(* handler fetches the limiter of its client under the lock and uses it    *)
(* after the lock is released, while a ticker goroutine removes visitors   *)
(* that were not seen for ClientTimeout.  A limiter is an object: one that *)
(* was removed from the map lives on in the handlers that hold it.         *)
(*                                                                         *)
(* A tick is the time in which one token comes in (1/RequestsPerSecond).   *)
(***************************************************************************)
EXTENDS Naturals

CONSTANTS Clients,          \* keys: remote address, or the forwarding header
          NoClient,
          Handlers,         \* goroutines that serve requests
          Limiters,         \* limiter objects
          NoLimiter,
          Burst,            \* capacity of a bucket (20)
          CleanupInterval,  \* ticks between two runs of the cleanup (600)
          ClientTimeout,    \* ticks until a visitor is inactive (1800)
          MaxStall          \* bound: ticks from getVisitor to Allow

ASSUME LimiterAssumption ==
  /\ NoClient \notin Clients
  /\ NoLimiter \notin Limiters
  /\ Burst \in Nat
  /\ CleanupInterval \in Nat
  /\ ClientTimeout \in Nat
  /\ MaxStall \in Nat
  /\ MaxStall <= ClientTimeout

\* A visitor that times out has had the time to fill up.
ASSUME TimeoutFillsBucket == Burst + MaxStall <= ClientTimeout + 1

VARIABLES
  visitor,  \* map: the limiter of a client, if it has an entry
  unseen,   \* map: ticks since lastSeen
  tokens,   \* tokens of each limiter object
  timer,    \* ticks since the cleanup last ran
  phase,    \* handler: next step
  client,   \* handler: key of its request
  held,     \* handler: the limiter it fetched
  stalled   \* handler: ticks since it fetched it

mapVars     == <<visitor, unseen>>
handlerVars == <<phase, client, held, stalled>>
vars == <<mapVars, tokens, timer, handlerVars>>

TypeOK ==
  /\ visitor \in [Clients -> Limiters \cup {NoLimiter}]
  /\ unseen \in [Clients -> Nat]
  /\ tokens \in [Limiters -> 0..Burst]
  /\ timer \in 0..CleanupInterval
  /\ phase \in [Handlers -> {"idle", "lookup", "allow", "served", "refused"}]
  /\ client \in [Handlers -> Clients \cup {NoClient}]
  /\ \A h \in Handlers : phase[h] # "idle" => client[h] # NoClient
  /\ held \in [Handlers -> Limiters \cup {NoLimiter}]
  /\ \A h \in Handlers : phase[h] = "allow" <=> held[h] # NoLimiter
  /\ stalled \in [Handlers -> 0..MaxStall]

Init ==
  /\ visitor = [c \in Clients |-> NoLimiter]
  /\ unseen = [c \in Clients |-> 0]
  /\ tokens = [l \in Limiters |-> Burst]
  /\ timer = 0
  /\ phase = [h \in Handlers |-> "idle"]
  /\ client = [h \in Handlers |-> NoClient]
  /\ held = [h \in Handlers |-> NoLimiter]
  /\ stalled = [h \in Handlers |-> 0]

Goto(h, next) == phase' = [phase EXCEPT ![h] = next]

\* Objects nothing refers to; a new one is allocated among them.
Unreferenced ==
  {l \in Limiters : /\ \A c \in Clients : visitor[c] # l
                    /\ \A h \in Handlers : held[h] # l}

-----------------------------------------------------------------------------
Arrive(h, c) ==
  /\ phase[h] = "idle"
  /\ Goto(h, "lookup")
  /\ client' = [client EXCEPT ![h] = c]
  /\ UNCHANGED <<mapVars, tokens, timer, held, stalled>>

\* Mutant of Seen: lastSeen is set when the visitor is created and never again.
SeenOnce(c) == unseen
Seen(c) == [unseen EXCEPT ![c] = 0]

\* The lock makes lookup and insertion one step.
GetVisitor(h) ==
  LET c == client[h]
  IN /\ phase[h] = "lookup"
     /\ \/ /\ visitor[c] # NoLimiter
           /\ held' = [held EXCEPT ![h] = visitor[c]]
           /\ unseen' = Seen(c)
           /\ UNCHANGED <<visitor, tokens>>
        \/ /\ visitor[c] = NoLimiter
           /\ \E l \in Unreferenced :
                 /\ visitor' = [visitor EXCEPT ![c] = l]
                 /\ tokens' = [tokens EXCEPT ![l] = Burst]
                 /\ held' = [held EXCEPT ![h] = l]
           /\ unseen' = [unseen EXCEPT ![c] = 0]
     /\ stalled' = [stalled EXCEPT ![h] = 0]
     /\ Goto(h, "allow")
     /\ UNCHANGED <<timer, client>>

\* Mutant of TokenLeft: the bucket may be overdrawn to the last token.
TokenAlways(l) == tokens[l] >= 0
TokenLeft(l) == tokens[l] > 0

Allow(h) ==
  LET l == held[h]
  IN /\ phase[h] = "allow"
     /\ \/ /\ TokenLeft(l)
           /\ tokens' = [tokens EXCEPT ![l] = @ - 1]
           /\ Goto(h, "served")
        \/ /\ ~TokenLeft(l)
           /\ Goto(h, "refused")
           /\ UNCHANGED tokens
     /\ held' = [held EXCEPT ![h] = NoLimiter]
     /\ stalled' = [stalled EXCEPT ![h] = 0]
     /\ UNCHANGED <<mapVars, timer, client>>

\* The next handler, or the answer 429, is through.
Finish(h) ==
  /\ phase[h] \in {"served", "refused"}
  /\ Goto(h, "idle")
  /\ client' = [client EXCEPT ![h] = NoClient]
  /\ UNCHANGED <<mapVars, tokens, timer, held, stalled>>

-----------------------------------------------------------------------------
\* Mutant of Inactive: the cleanup loop finds nobody to remove.
InactiveNever(c) == FALSE
Inactive(c) == unseen[c] > ClientTimeout

Cleanup ==
  /\ timer = CleanupInterval
  /\ timer' = 0
  /\ visitor' = [c \in Clients |-> IF Inactive(c) THEN NoLimiter ELSE visitor[c]]
  /\ unseen' = [c \in Clients |-> IF Inactive(c) THEN 0 ELSE unseen[c]]
  /\ UNCHANGED <<tokens, handlerVars>>

Refill(n) == IF n < Burst THEN n + 1 ELSE n

\* Time passes; the cleanup is not late and no request stalls too long.
Tick ==
  /\ timer < CleanupInterval
  /\ \A h \in Handlers : phase[h] = "allow" => stalled[h] < MaxStall
  /\ timer' = timer + 1
  /\ tokens' = [l \in Limiters |-> Refill(tokens[l])]
  /\ unseen' = [c \in Clients |-> IF visitor[c] = NoLimiter THEN 0 ELSE unseen[c] + 1]
  /\ stalled' = [h \in Handlers |-> IF phase[h] = "allow" THEN stalled[h] + 1 ELSE stalled[h]]
  /\ UNCHANGED <<visitor, phase, client, held>>

Next ==
  \/ Tick \/ Cleanup
  \/ \E h \in Handlers :
        \/ \E c \in Clients : Arrive(h, c)
        \/ GetVisitor(h) \/ Allow(h) \/ Finish(h)

Spec == Init /\ [][Next]_vars

-----------------------------------------------------------------------------
(***************************************************************************)
(* Removing a visitor is invisible: although a limiter is used outside of  *)
(* the lock and its visitor goes by the age of lastSeen alone, every       *)
(* request is decided as if its client had one bucket for ever.  This is   *)
(* what the timeout must be long enough for, compared with the time a      *)
(* bucket takes to fill and the time a request may stand still between the *)
(* two calls; one that stands still for longer than the timeout would use  *)
(* a limiter that the map has replaced.                                    *)
(***************************************************************************)
Bucket == INSTANCE TokenBucket WITH
  bucket <- [c \in Clients |-> IF visitor[c] = NoLimiter THEN Burst ELSE tokens[visitor[c]]],
  phase  <- [h \in Handlers |-> IF phase[h] \in {"lookup", "allow"} THEN "limit" ELSE phase[h]]
OneBucketPerClient == Bucket!Spec

(***************************************************************************)
(* The map does not grow with the clients ever seen: an entry is gone one  *)
(* cleanup interval after its timeout at the latest.                       *)
(***************************************************************************)
VisitorsExpire ==
  \A c \in Clients : visitor[c] # NoLimiter => unseen[c] <= ClientTimeout + CleanupInterval
=============================================================================
