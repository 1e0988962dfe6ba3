------------------------- MODULE RateLimiterProofs -------------------------
(***************************************************************************)
(* RateLimiter implements TokenBucket, for any number of clients, handlers *)
(* and limiters, any burst, any intervals that satisfy the assumptions.    *)
(***************************************************************************)
EXTENDS RateLimiter, TLAPS

(***************************************************************************)
(* The inductive invariant.  A limiter belongs to one client; one that is  *)
(* held is still the client's visitor, because its client was seen no      *)
(* longer ago than the handler has stalled; and a bucket has gained a      *)
(* token for every tick its client was not seen, but for the ticks a       *)
(* stalled request may have delayed its last use.                          *)
(***************************************************************************)
OneClientPerLimiter ==
  \A c, d \in Clients : visitor[c] # NoLimiter /\ visitor[c] = visitor[d] => c = d

HeldIsVisitor ==
  \A h \in Handlers : phase[h] = "allow" =>
     visitor[client[h]] = held[h] /\ unseen[client[h]] <= stalled[h]

FillsUp ==
  \A c \in Clients : visitor[c] # NoLimiter =>
     \/ tokens[visitor[c]] = Burst
     \/ unseen[c] <= tokens[visitor[c]] + MaxStall

Expires ==
  \A c \in Clients : visitor[c] # NoLimiter => unseen[c] <= ClientTimeout + timer

IInv == TypeOK /\ OneClientPerLimiter /\ HeldIsVisitor /\ FillsUp /\ Expires

-----------------------------------------------------------------------------
\* Every variable has its type in the initial state and so has the invariant.
LEMMA InitInv == Init => IInv
<1> SUFFICES ASSUME Init PROVE IInv
  OBVIOUS
<1> USE LimiterAssumption DEF Init
<1>1. TypeOK
  BY DEF TypeOK
<1>2. OneClientPerLimiter /\ HeldIsVisitor /\ FillsUp /\ Expires
  BY DEF OneClientPerLimiter, HeldIsVisitor, FillsUp, Expires
<1> QED BY <1>1, <1>2 DEF IInv

\* A request that arrives or is through touches neither map nor buckets.
LEMMA ArriveInv ==
  ASSUME IInv, NEW h \in Handlers, NEW c \in Clients, Arrive(h, c)
  PROVE  IInv'
<1> USE LimiterAssumption DEF IInv, Arrive, Goto, mapVars
<1>1. TypeOK'
  BY DEF TypeOK
<1>2. OneClientPerLimiter'
  BY DEF OneClientPerLimiter
<1>3. HeldIsVisitor'
  BY DEF TypeOK, HeldIsVisitor
<1>4. FillsUp' /\ Expires'
  BY DEF FillsUp, Expires
<1> QED BY <1>1, <1>2, <1>3, <1>4

\* The same of a request that is through.
LEMMA FinishInv ==
  ASSUME IInv, NEW h \in Handlers, Finish(h)
  PROVE  IInv'
<1> USE LimiterAssumption DEF IInv, Finish, Goto, mapVars
<1>1. TypeOK'
  BY DEF TypeOK
<1>2. OneClientPerLimiter'
  BY DEF OneClientPerLimiter
<1>3. HeldIsVisitor'
  BY DEF TypeOK, HeldIsVisitor
<1>4. FillsUp' /\ Expires'
  BY DEF FillsUp, Expires
<1> QED BY <1>1, <1>2, <1>3, <1>4

\* A known visitor is handed out and its client was seen just now.
LEMMA GetKnownInv ==
  ASSUME IInv, NEW h \in Handlers, GetVisitor(h), visitor[client[h]] # NoLimiter
  PROVE  IInv'
<1> DEFINE c == client[h]
<1> USE LimiterAssumption
<1>0. /\ phase[h] = "lookup"
      /\ held' = [held EXCEPT ![h] = visitor[c]]
      /\ unseen' = [unseen EXCEPT ![c] = 0]
      /\ stalled' = [stalled EXCEPT ![h] = 0]
      /\ phase' = [phase EXCEPT ![h] = "allow"]
      /\ UNCHANGED <<visitor, tokens, timer, client>>
  BY DEF GetVisitor, Goto, Seen
<1>a. c \in Clients
  BY <1>0 DEF IInv, TypeOK
<1> HIDE DEF c
<1>1. TypeOK'
  BY <1>0, <1>a DEF IInv, TypeOK, c
<1>2. OneClientPerLimiter'
  BY <1>0 DEF IInv, OneClientPerLimiter
<1>3. HeldIsVisitor'
  <2> SUFFICES ASSUME NEW g \in Handlers, phase'[g] = "allow"
               PROVE  visitor[client[g]] = held'[g] /\ unseen'[client[g]] <= stalled'[g]
    BY <1>0 DEF HeldIsVisitor
  <2>1. CASE g = h
    BY <2>1, <1>0, <1>a DEF IInv, TypeOK, c
  <2>2. CASE g # h
    <3>1. phase[g] = "allow" /\ held'[g] = held[g] /\ stalled'[g] = stalled[g]
      BY <2>2, <1>0 DEF IInv, TypeOK
    <3>2. visitor[client[g]] = held[g] /\ unseen[client[g]] <= stalled[g]
      BY <3>1 DEF IInv, HeldIsVisitor
    <3>3. client[g] \in Clients /\ stalled[g] \in Nat
      BY <3>1 DEF IInv, TypeOK
    <3>4. unseen'[client[g]] \in {0, unseen[client[g]]}
      BY <3>3, <1>0, <1>a DEF IInv, TypeOK
    <3> QED BY <3>1, <3>2, <3>3, <3>4
  <2> QED BY <2>1, <2>2
<1>4. FillsUp'
  <2> SUFFICES ASSUME NEW d \in Clients, visitor[d] # NoLimiter
               PROVE  \/ tokens[visitor[d]] = Burst
                      \/ unseen'[d] <= tokens[visitor[d]] + MaxStall
    BY <1>0 DEF FillsUp
  <2>1. tokens[visitor[d]] \in Nat /\ unseen'[d] \in {0, unseen[d]}
    BY <1>0, <1>a DEF IInv, TypeOK
  <2> QED BY <2>1 DEF IInv, FillsUp
<1>5. Expires'
  <2> SUFFICES ASSUME NEW d \in Clients, visitor[d] # NoLimiter
               PROVE  unseen'[d] <= ClientTimeout + timer
    BY <1>0 DEF Expires
  <2>1. timer \in Nat /\ unseen'[d] \in {0, unseen[d]}
    BY <1>0, <1>a DEF IInv, TypeOK
  <2> QED BY <2>1 DEF IInv, Expires
<1> QED BY <1>1, <1>2, <1>3, <1>4, <1>5 DEF IInv

\* A new visitor gets a full bucket that nobody else refers to.
LEMMA GetNewInv ==
  ASSUME IInv, NEW h \in Handlers, GetVisitor(h), visitor[client[h]] = NoLimiter
  PROVE  IInv'
<1> DEFINE c == client[h]
<1> USE LimiterAssumption
<1>0. PICK l \in Unreferenced :
      /\ visitor' = [visitor EXCEPT ![c] = l]
      /\ tokens' = [tokens EXCEPT ![l] = Burst]
      /\ held' = [held EXCEPT ![h] = l]
  BY DEF GetVisitor
<1>9. /\ phase[h] = "lookup"
      /\ unseen' = [unseen EXCEPT ![c] = 0]
      /\ stalled' = [stalled EXCEPT ![h] = 0]
      /\ phase' = [phase EXCEPT ![h] = "allow"]
      /\ UNCHANGED <<timer, client>>
  BY DEF GetVisitor, Goto
<1>a. c \in Clients /\ visitor[c] = NoLimiter
  BY <1>9 DEF IInv, TypeOK
<1>b. /\ l \in Limiters
      /\ \A d \in Clients : visitor[d] # l
      /\ \A g \in Handlers : held[g] # l
  BY DEF Unreferenced
<1> HIDE DEF c
<1>1. TypeOK'
  BY <1>0, <1>9, <1>a, <1>b DEF IInv, TypeOK
<1>2. OneClientPerLimiter'
  BY <1>0, <1>a, <1>b DEF IInv, TypeOK, OneClientPerLimiter
<1>3. HeldIsVisitor'
  <2> SUFFICES ASSUME NEW g \in Handlers, phase'[g] = "allow"
               PROVE  visitor'[client[g]] = held'[g] /\ unseen'[client[g]] <= stalled'[g]
    BY <1>9 DEF HeldIsVisitor
  <2>1. CASE g = h
    BY <2>1, <1>0, <1>9, <1>a DEF IInv, TypeOK, c
  <2>2. CASE g # h
    <3>1. phase[g] = "allow" /\ held'[g] = held[g] /\ stalled'[g] = stalled[g]
      BY <2>2, <1>0, <1>9 DEF IInv, TypeOK
    <3>2. visitor[client[g]] = held[g] /\ unseen[client[g]] <= stalled[g]
      BY <3>1 DEF IInv, HeldIsVisitor
    <3>3. client[g] \in Clients /\ held[g] # NoLimiter
      BY <3>1 DEF IInv, TypeOK
    <3>4. client[g] # c
      BY <3>2, <3>3, <1>a
    <3> QED BY <3>1, <3>2, <3>3, <3>4, <1>0, <1>9 DEF IInv, TypeOK
  <2> QED BY <2>1, <2>2
<1>4. FillsUp'
  <2> SUFFICES ASSUME NEW d \in Clients, visitor'[d] # NoLimiter
               PROVE  \/ tokens'[visitor'[d]] = Burst
                      \/ unseen'[d] <= tokens'[visitor'[d]] + MaxStall
    BY DEF FillsUp
  <2>1. CASE d = c
    BY <2>1, <1>0, <1>a, <1>b DEF IInv, TypeOK
  <2>2. CASE d # c
    <3>1. /\ visitor'[d] = visitor[d]
          /\ unseen'[d] = unseen[d]
      BY <2>2, <1>0, <1>9 DEF IInv, TypeOK
    <3>2. tokens'[visitor[d]] = tokens[visitor[d]]
      BY <1>0, <1>b, <3>1 DEF IInv, TypeOK
    <3> QED BY <3>1, <3>2 DEF IInv, FillsUp
  <2> QED BY <2>1, <2>2
<1>5. Expires'
  <2> SUFFICES ASSUME NEW d \in Clients, visitor'[d] # NoLimiter
               PROVE  unseen'[d] <= ClientTimeout + timer
    BY <1>9 DEF Expires
  <2>0. timer \in Nat
    BY DEF IInv, TypeOK
  <2>1. CASE d = c
    BY <2>0, <2>1, <1>9 DEF IInv, TypeOK
  <2>2. CASE d # c
    BY <2>2, <1>0, <1>9 DEF IInv, TypeOK, Expires
  <2> QED BY <2>1, <2>2
<1> QED BY <1>1, <1>2, <1>3, <1>4, <1>5 DEF IInv

\* The limiter that is used is the visitor of a client seen a moment ago, so
\* that taking a token leaves the bucket as full as FillsUp wants it.
LEMMA AllowInv ==
  ASSUME IInv, NEW h \in Handlers, Allow(h)
  PROVE  IInv'
<1> DEFINE l == held[h]
<1> USE LimiterAssumption
<1>0. /\ phase[h] = "allow"
      /\ held' = [held EXCEPT ![h] = NoLimiter]
      /\ stalled' = [stalled EXCEPT ![h] = 0]
      /\ UNCHANGED <<visitor, unseen, timer, client>>
      /\ \/ /\ tokens[l] > 0
            /\ tokens' = [tokens EXCEPT ![l] = @ - 1]
            /\ phase' = [phase EXCEPT ![h] = "served"]
         \/ /\ phase' = [phase EXCEPT ![h] = "refused"]
            /\ tokens' = tokens
  BY DEF Allow, Goto, TokenLeft, mapVars
<1>a. /\ l \in Limiters /\ tokens[l] \in 0..Burst
      /\ client[h] \in Clients
      /\ visitor[client[h]] = l
      /\ unseen[client[h]] <= MaxStall
  BY <1>0 DEF IInv, TypeOK, HeldIsVisitor
<1> HIDE DEF l
<1>b. tokens' \in [Limiters -> 0..Burst]
  BY <1>0, <1>a DEF IInv, TypeOK
<1>1. TypeOK'
  BY <1>0, <1>b DEF IInv, TypeOK
<1>2. OneClientPerLimiter'
  BY <1>0 DEF IInv, OneClientPerLimiter
<1>3. HeldIsVisitor'
  BY <1>0 DEF IInv, TypeOK, HeldIsVisitor
<1>4. FillsUp'
  <2> SUFFICES ASSUME NEW d \in Clients, visitor[d] # NoLimiter
               PROVE  \/ tokens'[visitor[d]] = Burst
                      \/ unseen[d] <= tokens'[visitor[d]] + MaxStall
    BY <1>0 DEF FillsUp
  <2>1. CASE visitor[d] = l
    <3>1. d = client[h]
      BY <2>1, <1>a DEF IInv, OneClientPerLimiter
    <3>2. tokens'[l] \in Nat
      BY <1>b, <1>a
    <3>3. unseen[d] \in Nat
      BY DEF IInv, TypeOK
    <3> QED BY <2>1, <3>1, <3>2, <3>3, <1>a
  <2>2. CASE visitor[d] # l
    <3>1. tokens'[visitor[d]] = tokens[visitor[d]]
      BY <2>2, <1>0 DEF IInv, TypeOK
    <3> QED BY <3>1 DEF IInv, FillsUp
  <2> QED BY <2>1, <2>2
<1>5. Expires'
  BY <1>0 DEF IInv, Expires
<1> QED BY <1>1, <1>2, <1>3, <1>4, <1>5 DEF IInv

\* Nothing that is removed is held, and what stays is not yet inactive.
LEMMA CleanupInv ==
  ASSUME IInv, Cleanup
  PROVE  IInv'
<1> USE LimiterAssumption
<1>0. /\ timer' = 0
      /\ visitor' = [c \in Clients |-> IF Inactive(c) THEN NoLimiter ELSE visitor[c]]
      /\ unseen' = [c \in Clients |-> IF Inactive(c) THEN 0 ELSE unseen[c]]
      /\ UNCHANGED <<tokens, phase, client, held, stalled>>
  BY DEF Cleanup, handlerVars
<1>a. \A c \in Clients : ~Inactive(c) => unseen[c] <= ClientTimeout
  BY DEF IInv, TypeOK, Inactive
<1>1. TypeOK'
  BY <1>0 DEF IInv, TypeOK
<1>2. OneClientPerLimiter'
  BY <1>0 DEF IInv, OneClientPerLimiter
<1>3. HeldIsVisitor'
  <2> SUFFICES ASSUME NEW g \in Handlers, phase[g] = "allow"
               PROVE  visitor'[client[g]] = held[g] /\ unseen'[client[g]] <= stalled[g]
    BY <1>0 DEF HeldIsVisitor
  <2>1. /\ client[g] \in Clients /\ unseen[client[g]] \in Nat
        /\ stalled[g] \in Nat /\ stalled[g] <= MaxStall
        /\ visitor[client[g]] = held[g] /\ unseen[client[g]] <= stalled[g]
    BY DEF IInv, TypeOK, HeldIsVisitor
  <2>2. ~Inactive(client[g])
    BY <2>1 DEF Inactive
  <2> QED BY <1>0, <2>1, <2>2
<1>4. FillsUp'
  BY <1>0 DEF IInv, FillsUp
<1>5. Expires'
  BY <1>0, <1>a DEF IInv, TypeOK, Expires
<1> QED BY <1>1, <1>2, <1>3, <1>4, <1>5 DEF IInv

\* Buckets gain a token while clients are unseen for one tick more.
LEMMA TickInv ==
  ASSUME IInv, Tick
  PROVE  IInv'
<1> USE LimiterAssumption
<1>0. /\ timer < CleanupInterval
      /\ \A h \in Handlers : phase[h] = "allow" => stalled[h] < MaxStall
      /\ timer' = timer + 1
      /\ tokens' = [l \in Limiters |-> Refill(tokens[l])]
      /\ unseen' = [c \in Clients |-> IF visitor[c] = NoLimiter THEN 0 ELSE unseen[c] + 1]
      /\ stalled' = [h \in Handlers |-> IF phase[h] = "allow" THEN stalled[h] + 1 ELSE stalled[h]]
      /\ UNCHANGED <<visitor, phase, client, held>>
  BY DEF Tick
<1>a. \A l \in Limiters : /\ tokens[l] \in 0..Burst
                          /\ tokens'[l] = Refill(tokens[l])
                          /\ tokens'[l] \in 0..Burst
  BY <1>0 DEF IInv, TypeOK, Refill
<1>1. TypeOK'
  <2>1. tokens' \in [Limiters -> 0..Burst]
    BY <1>0, <1>a
  <2>2. unseen' \in [Clients -> Nat] /\ timer' \in 0..CleanupInterval
    BY <1>0 DEF IInv, TypeOK
  <2>3. stalled' \in [Handlers -> 0..MaxStall]
    BY <1>0 DEF IInv, TypeOK
  <2> QED BY <1>0, <2>1, <2>2, <2>3 DEF IInv, TypeOK
<1>2. OneClientPerLimiter'
  BY <1>0 DEF IInv, OneClientPerLimiter
<1>3. HeldIsVisitor'
  <2> SUFFICES ASSUME NEW g \in Handlers, phase[g] = "allow"
               PROVE  visitor[client[g]] = held[g] /\ unseen'[client[g]] <= stalled'[g]
    BY <1>0 DEF HeldIsVisitor
  <2>1. /\ client[g] \in Clients /\ unseen[client[g]] \in Nat /\ stalled[g] \in Nat
        /\ visitor[client[g]] = held[g] /\ unseen[client[g]] <= stalled[g]
        /\ held[g] # NoLimiter
    BY DEF IInv, TypeOK, HeldIsVisitor
  <2> QED BY <1>0, <2>1
<1>4. FillsUp'
  <2> SUFFICES ASSUME NEW d \in Clients, visitor[d] # NoLimiter
               PROVE  \/ tokens'[visitor[d]] = Burst
                      \/ unseen'[d] <= tokens'[visitor[d]] + MaxStall
    BY <1>0 DEF FillsUp
  <2>1. visitor[d] \in Limiters /\ unseen[d] \in Nat /\ unseen'[d] = unseen[d] + 1
    BY <1>0 DEF IInv, TypeOK
  <2>2. \/ tokens[visitor[d]] = Burst
        \/ unseen[d] <= tokens[visitor[d]] + MaxStall
    BY DEF IInv, FillsUp
  <2> QED BY <2>1, <2>2, <1>a DEF Refill
<1>5. Expires'
  BY <1>0 DEF IInv, TypeOK, Expires
<1> QED BY <1>1, <1>2, <1>3, <1>4, <1>5 DEF IInv

-----------------------------------------------------------------------------
\* Every step keeps the invariant.
LEMMA NextInv == IInv /\ [Next]_vars => IInv'
<1> SUFFICES ASSUME IInv, [Next]_vars PROVE IInv'
  OBVIOUS
<1>1. CASE Tick
  BY <1>1, TickInv
<1>2. CASE Cleanup
  BY <1>2, CleanupInv
<1>3. ASSUME NEW h \in Handlers, NEW c \in Clients, Arrive(h, c) PROVE IInv'
  BY <1>3, ArriveInv
<1>4. ASSUME NEW h \in Handlers, GetVisitor(h) PROVE IInv'
  BY <1>4, GetKnownInv, GetNewInv
<1>5. ASSUME NEW h \in Handlers, Allow(h) PROVE IInv'
  BY <1>5, AllowInv
<1>6. ASSUME NEW h \in Handlers, Finish(h) PROVE IInv'
  BY <1>6, FinishInv
<1>7. CASE UNCHANGED vars
  BY <1>7 DEF vars, mapVars, handlerVars, IInv, TypeOK, OneClientPerLimiter,
              HeldIsVisitor, FillsUp, Expires
<1> QED BY <1>1, <1>2, <1>3, <1>4, <1>5, <1>6, <1>7 DEF Next

\* The invariant holds in every reachable state.
THEOREM Invariant == Spec => []IInv
BY InitInv, NextInv, PTL DEF Spec

(***************************************************************************)
(* The types are kept; in particular a bucket is never overdrawn and no    *)
(* request is in the hands of a handler without its client.                *)
(***************************************************************************)
THEOREM TypeCorrect == Spec => []TypeOK
<1>1. IInv => TypeOK
  BY DEF IInv
<1> QED BY <1>1, Invariant, PTL

(***************************************************************************)
(* No entry of the map outlives its timeout by more than one interval.     *)
(***************************************************************************)
THEOREM MapIsBounded == Spec => []VisitorsExpire
<1>1. IInv => VisitorsExpire
  <2> SUFFICES ASSUME IInv, NEW c \in Clients, visitor[c] # NoLimiter
               PROVE  unseen[c] <= ClientTimeout + CleanupInterval
    BY DEF VisitorsExpire
  <2>1. unseen[c] \in Nat /\ timer \in 0..CleanupInterval
    BY DEF IInv, TypeOK
  <2>2. unseen[c] <= ClientTimeout + timer
    BY DEF IInv, Expires
  <2> QED BY <2>1, <2>2, LimiterAssumption
<1> QED BY <1>1, Invariant, PTL

-----------------------------------------------------------------------------
(***************************************************************************)
(* The refinement: the bucket and the phase that the abstract handler sees *)
(***************************************************************************)
TheBucket == [c \in Clients |-> IF visitor[c] = NoLimiter THEN Burst ELSE tokens[visitor[c]]]
ThePhase  == [h \in Handlers |-> IF phase[h] \in {"lookup", "allow"} THEN "limit" ELSE phase[h]]

\* All buckets are full and all handlers are idle at first.
LEMMA InitRefines == Init => Bucket!Init
BY DEF Init, Bucket!Init

\* A lookup, known visitor or new, is not seen.
LEMMA GetStutters ==
  ASSUME IInv, NEW h \in Handlers, GetVisitor(h)
  PROVE  UNCHANGED <<TheBucket, ThePhase, client>>
<1>1. ThePhase' = ThePhase
  <2>1. phase[h] = "lookup" /\ phase' = [phase EXCEPT ![h] = "allow"]
    BY DEF GetVisitor, Goto
  <2> QED BY <2>1 DEF IInv, TypeOK, ThePhase
<1>2. TheBucket' = TheBucket
  <2>1. CASE visitor[client[h]] # NoLimiter
    BY <2>1 DEF GetVisitor, TheBucket
  <2>2. CASE visitor[client[h]] = NoLimiter
    <3>1. client[h] \in Clients
      BY DEF IInv, TypeOK, GetVisitor
    <3>2. PICK l \in Unreferenced : /\ visitor' = [visitor EXCEPT ![client[h]] = l]
                                    /\ tokens' = [tokens EXCEPT ![l] = Burst]
      BY <2>2 DEF GetVisitor
    <3>3. l \in Limiters /\ l # NoLimiter /\ \A c \in Clients : visitor[c] # l
      BY LimiterAssumption DEF Unreferenced
    <3>4. ASSUME NEW c \in Clients PROVE TheBucket'[c] = TheBucket[c]
      BY <2>2, <3>1, <3>2, <3>3 DEF IInv, TypeOK, TheBucket
    <3> QED BY <3>4 DEF TheBucket
  <2> QED BY <2>1, <2>2
<1> QED BY <1>1, <1>2 DEF GetVisitor

\* What is removed is a full bucket, which is what a client without an entry has.
LEMMA CleanupStutters ==
  ASSUME IInv, Cleanup
  PROVE  UNCHANGED <<TheBucket, ThePhase, client>>
<1>1. ASSUME NEW c \in Clients, Inactive(c), visitor[c] # NoLimiter
      PROVE  tokens[visitor[c]] = Burst
  <2>1. /\ unseen[c] \in Nat /\ tokens[visitor[c]] \in 0..Burst
        /\ \/ tokens[visitor[c]] = Burst
           \/ unseen[c] <= tokens[visitor[c]] + MaxStall
    BY <1>1 DEF IInv, TypeOK, FillsUp
  <2> QED BY <1>1, <2>1, LimiterAssumption, TimeoutFillsBucket DEF Inactive
<1>2. ASSUME NEW c \in Clients PROVE TheBucket'[c] = TheBucket[c]
  BY <1>1 DEF Cleanup, TheBucket
<1> QED BY <1>2 DEF Cleanup, handlerVars, TheBucket, ThePhase

\* The decision is the abstract one: the limiter in hand is the visitor.
LEMMA AllowRefines ==
  ASSUME IInv, NEW h \in Handlers, Allow(h)
  PROVE  Bucket!Serve(h) \/ Bucket!Refuse(h)
<1>1. /\ phase[h] = "allow" /\ held[h] \in Limiters /\ tokens[held[h]] \in Nat
      /\ client[h] \in Clients /\ visitor[client[h]] = held[h]
      /\ visitor[client[h]] # NoLimiter
  BY LimiterAssumption DEF Allow, IInv, TypeOK, HeldIsVisitor
<1>2. ThePhase[h] = "limit" /\ TheBucket[client[h]] = tokens[held[h]]
  BY <1>1 DEF ThePhase, TheBucket
<1>3. CASE TokenLeft(held[h])
  <2>1. /\ tokens' = [tokens EXCEPT ![held[h]] = @ - 1]
        /\ phase' = [phase EXCEPT ![h] = "served"]
        /\ UNCHANGED <<visitor, client>>
    BY <1>3 DEF Allow, Goto, mapVars
  <2>2. ThePhase' = [ThePhase EXCEPT ![h] = "served"]
    BY <2>1 DEF IInv, TypeOK, ThePhase
  <2>3. ASSUME NEW c \in Clients
        PROVE  TheBucket'[c] = IF c = client[h] THEN TheBucket[c] - 1 ELSE TheBucket[c]
    BY <1>1, <2>1 DEF IInv, TypeOK, OneClientPerLimiter, TheBucket
  <2>4. TheBucket' = [TheBucket EXCEPT ![client[h]] = @ - 1]
    BY <2>3 DEF TheBucket
  <2> QED BY <1>2, <1>3, <2>1, <2>2, <2>4 DEF Bucket!Serve, Bucket!Goto, TheBucket, ThePhase, TokenLeft
<1>4. CASE ~TokenLeft(held[h])
  <2>1. /\ tokens' = tokens
        /\ phase' = [phase EXCEPT ![h] = "refused"]
        /\ UNCHANGED <<visitor, client>>
    BY <1>4 DEF Allow, Goto, mapVars
  <2>2. ThePhase' = [ThePhase EXCEPT ![h] = "refused"]
    BY <2>1 DEF IInv, TypeOK, ThePhase
  <2>3. TheBucket' = TheBucket
    BY <2>1 DEF TheBucket
  <2>4. TheBucket[client[h]] = 0
    BY <1>1, <1>2, <1>4 DEF TokenLeft
  <2> QED BY <1>2, <2>1, <2>2, <2>3, <2>4 DEF Bucket!Refuse, Bucket!Goto, TheBucket, ThePhase
<1> QED BY <1>3, <1>4

\* The other actions are the abstract ones of the same name.
LEMMA ArriveRefines ==
  ASSUME IInv, NEW h \in Handlers, NEW c \in Clients, Arrive(h, c)
  PROVE  Bucket!Arrive(h, c)
<1>1. ThePhase[h] = "idle" /\ ThePhase' = [ThePhase EXCEPT ![h] = "limit"]
  BY DEF IInv, TypeOK, Arrive, Goto, ThePhase
<1>2. TheBucket' = TheBucket
  BY DEF Arrive, mapVars, TheBucket
<1> QED BY <1>1, <1>2 DEF Arrive, Bucket!Arrive, Bucket!Goto, TheBucket, ThePhase

\* Finish is the abstract Finish.
LEMMA FinishRefines ==
  ASSUME IInv, NEW h \in Handlers, Finish(h)
  PROVE  Bucket!Finish(h)
<1>1. ThePhase[h] \in {"served", "refused"} /\ ThePhase' = [ThePhase EXCEPT ![h] = "idle"]
  BY DEF IInv, TypeOK, Finish, Goto, ThePhase
<1>2. TheBucket' = TheBucket
  BY DEF Finish, mapVars, TheBucket
<1> QED BY <1>1, <1>2 DEF Finish, Bucket!Finish, Bucket!Goto, TheBucket, ThePhase

\* A tick refills all buckets; one without an entry is full anyway.
LEMMA TickRefines ==
  ASSUME IInv, Tick
  PROVE  Bucket!Tick
<1>1. ASSUME NEW c \in Clients
      PROVE  TheBucket'[c] = Refill(TheBucket[c])
  BY <1>1, LimiterAssumption DEF IInv, TypeOK, Tick, TheBucket, Refill
<1>2. TheBucket' = [c \in Clients |-> Refill(TheBucket[c])]
  BY <1>1 DEF TheBucket
<1>3. UNCHANGED <<ThePhase, client>>
  BY DEF Tick, ThePhase
<1> QED BY <1>2, <1>3 DEF Bucket!Tick, Bucket!Refill, Refill, TheBucket, ThePhase

\* Every step of the limiter is a step of TokenBucket, or none.
LEMMA StepRefines == IInv /\ [Next]_vars => [Bucket!Next]_(Bucket!vars)
<1> SUFFICES ASSUME IInv, [Next]_vars PROVE [Bucket!Next]_(Bucket!vars)
  OBVIOUS
<1>1. UNCHANGED <<TheBucket, ThePhase, client>> => UNCHANGED Bucket!vars
  BY DEF Bucket!vars, TheBucket, ThePhase
<1>2. CASE Tick
  BY <1>2, TickRefines DEF Bucket!Next
<1>3. CASE Cleanup
  BY <1>1, <1>3, CleanupStutters
<1>4. ASSUME NEW h \in Handlers, NEW c \in Clients, Arrive(h, c) PROVE Bucket!Next
  BY <1>4, ArriveRefines DEF Bucket!Next
<1>5. ASSUME NEW h \in Handlers, GetVisitor(h) PROVE UNCHANGED Bucket!vars
  BY <1>1, <1>5, GetStutters
<1>6. ASSUME NEW h \in Handlers, Allow(h) PROVE Bucket!Next
  BY <1>6, AllowRefines DEF Bucket!Next
<1>7. ASSUME NEW h \in Handlers, Finish(h) PROVE Bucket!Next
  BY <1>7, FinishRefines DEF Bucket!Next
<1>8. CASE UNCHANGED vars
  BY <1>8 DEF vars, mapVars, handlerVars, Bucket!vars
<1> QED BY <1>2, <1>3, <1>4, <1>5, <1>6, <1>7, <1>8 DEF Next

(***************************************************************************)
(* The limiter implements one token bucket per client: no interleaving of  *)
(* lookups, decisions, cleanups and stalls below the bound lets a client   *)
(* have two buckets, or refuses one that has a token.                      *)
(***************************************************************************)
THEOREM LimiterImplementsBucket == Spec => OneBucketPerClient
BY InitRefines, Invariant, StepRefines, PTL DEF Spec, OneBucketPerClient, Bucket!Spec
=============================================================================
