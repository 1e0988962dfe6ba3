----------------------- MODULE ConsumerDeliveryProofs -----------------------
(***************************************************************************)
(* What Consumer promises about the deliveries of RabbitMQ: the retry      *)
(* budget, that no order loses its last message, and that the row follows  *)
(* the lifecycle of the aggregate when no event has two copies.            *)
(***************************************************************************)
EXTENDS ConsumerProofs

(***************************************************************************)
(* The budget is inductive with one fact more: a copy in the wait queue    *)
(* has a trip left, so that none that is parked can be there.              *)
(***************************************************************************)
BudgetInv ==
  \A m \in Msgs : /\ deaths[m] <= MaxRetries
                  /\ m \in parked => deaths[m] = MaxRetries
                  /\ queue[m] = "wait" => deaths[m] < MaxRetries

LEMMA BudgetStep == TypeOK /\ BudgetInv /\ [Next]_vars => BudgetInv'
<1> SUFFICES ASSUME TypeOK, BudgetInv, [Next]_vars PROVE BudgetInv'
  OBVIOUS
<1> USE ConsumerAssumption DEF ConsumerAssumption
<1>0. deaths \in [Msgs -> Nat] /\ queue \in [Msgs -> {"main", "unacked", "wait", "gone"}]
  BY DEF TypeOK
<1>1. ASSUME NEW t \in Threads, NackToWait(t) PROVE BudgetInv'
  BY <1>0, <1>1 DEF BudgetInv, NackToWait, Exhausted, Tell, Rejected
<1>2. ASSUME NEW t \in Threads, Park(t) PROVE BudgetInv'
  BY <1>0, <1>2 DEF BudgetInv, Park, Exhausted
<1>3. ASSUME NEW m \in Msgs, WaitExpire(m) PROVE BudgetInv'
  BY <1>0, <1>3 DEF BudgetInv, WaitExpire
<1>4. CASE /\ UNCHANGED <<deaths, parked>>
           /\ \A m \in Msgs : queue'[m] = "wait" => queue[m] = "wait"
  BY <1>4 DEF BudgetInv
<1>5. ASSUME NEW t \in Threads,
             \/ GuardSetNX(t) \/ Admit(t) \/ IdemSetNX(t) \/ SearchDriver(t) \/ FindOrder(t)
             \/ UpdateOrder(t) \/ DelIdem(t) \/ DelDedup(t) \/ Backoff(t) \/ FallbackFind(t)
             \/ FallbackUpdate(t) \/ Timeout(t) \/ Resend(t) \/ Panic(t)
      PROVE  UNCHANGED brokerVars
  BY <1>5 DEF GuardSetNX, Admit, IdemSetNX, SearchDriver, FindOrder, UpdateOrder, DelIdem, DelDedup,
     Backoff, FallbackFind, FallbackUpdate, Timeout, Resend, Panic
<1>6. ASSUME NEW t \in Threads, ParkFails(t) \/ Ack(t) \/ \E m \in Msgs : Deliver(t, m)
      PROVE  /\ UNCHANGED <<deaths, parked>>
             /\ \A m \in Msgs : queue'[m] = "wait" => queue[m] = "wait"
  BY <1>0, <1>6 DEF ParkFails, Ack, Deliver, Tell
<1>7. ASSUME NEW p \in Procs, \/ BreakerTimeout(p) \/ LoseChannel(p) \/ BeginShutdown(p)
                              \/ Exit(p) \/ Start(p)
      PROVE  /\ UNCHANGED <<deaths, parked>>
             /\ \A m \in Msgs : queue'[m] = "wait" => queue[m] = "wait"
  BY <1>0, <1>7 DEF BreakerTimeout, LoseChannel, BeginShutdown, Exit, Start, Requeue, brokerVars
<1>8. CASE UNCHANGED vars
  BY <1>4, <1>8 DEF vars, brokerVars
<1> QED
  BY <1>1, <1>2, <1>3, <1>4, <1>5, <1>6, <1>7, <1>8 DEF Next, Handle, brokerVars

(***************************************************************************)
(* A copy is parked after exactly MaxRetries trips, whatever fails.        *)
(***************************************************************************)
THEOREM RetriesAreBudgeted == Spec => []RetryBudget
<1>1. Init => BudgetInv
  BY ConsumerAssumption DEF ConsumerAssumption, Init, BudgetInv
<1>2. BudgetInv => RetryBudget
  BY DEF BudgetInv, RetryBudget
<1> QED
  BY <1>1, <1>2, BudgetStep, TypeCorrect, PTL DEF Spec

-----------------------------------------------------------------------------
(***************************************************************************)
(* While channels last as long as their process, a goroutine holds what it *)
(* handles: the copy is unacknowledged and nobody else has it.             *)
(***************************************************************************)
LastingChannels == Faults \cap {"conn", "shutdown"} = {}

Holding ==
  /\ \A p \in Procs : proc[p] # "stopping" /\ (chan[p] <=> proc[p] = "up")
  /\ \A t \in Threads : msg[t] # NoMsg => Open(t) /\ queue[msg[t]] = "unacked"
  /\ \A t, u \in Threads : msg[t] # NoMsg /\ msg[t] = msg[u] => t = u

LEMMA HoldingInit == Init => Holding
BY ConsumerAssumption DEF ConsumerAssumption, Init, Holding

\* Steps that give no delivery and take none.
LEMMA HoldingKept ==
  ASSUME TypeOK, Holding, UNCHANGED <<queue, msg, proc, chan>>
  PROVE  Holding'
BY DEF Holding, Open

\* A delivery that is settled leaves the goroutine's hands.
LEMMA HoldingSettled ==
  ASSUME TypeOK, Holding, NEW t \in Threads, NackToWait(t) \/ ParkFails(t) \/ Ack(t)
  PROVE  Holding'
<1> USE ConsumerAssumption DEF ConsumerAssumption
<1>1. /\ UNCHANGED <<proc, chan>>
      /\ msg' = [msg EXCEPT ![t] = NoMsg]
      /\ \A m \in Msgs : m # msg[t] => queue'[m] = queue[m]
  BY DEF NackToWait, ParkFails, Ack, Finish, Tell, procVars, TypeOK
<1>2. msg[t] \in Msgs
  BY DEF NackToWait, ParkFails, Ack, TypeOK
<1>3. \A u \in Threads : msg'[u] = IF u = t THEN NoMsg ELSE msg[u]
  BY <1>1 DEF TypeOK
<1>4. ASSUME NEW u \in Threads, msg'[u] # NoMsg
      PROVE  Open(u)' /\ queue'[msg'[u]] = "unacked"
  <2>1. u # t /\ msg'[u] = msg[u] /\ msg[u] \in Msgs /\ msg[u] # NoMsg
    BY <1>3, <1>4 DEF TypeOK
  <2>2. msg[u] # msg[t]
    BY <2>1 DEF Holding
  <2>3. Open(u) /\ queue[msg[u]] = "unacked"
    BY <2>1 DEF Holding
  <2> QED
    BY <1>1, <2>1, <2>2, <2>3 DEF Open
<1>5. \A u, v \in Threads : msg'[u] # NoMsg /\ msg'[u] = msg'[v] => u = v
  BY <1>3 DEF Holding
<1> QED
  BY <1>1, <1>4, <1>5 DEF Holding

\* What is delivered was nobody's: it was in the queue.
LEMMA HoldingDeliver ==
  ASSUME TypeOK, Holding, NEW t \in Threads, NEW m \in Msgs, Deliver(t, m)
  PROVE  Holding'
<1> USE ConsumerAssumption DEF ConsumerAssumption
<1>1. /\ UNCHANGED <<proc, chan>> /\ Open(t)
      /\ msg' = [msg EXCEPT ![t] = m]
      /\ queue[m] = "main" /\ queue' = [queue EXCEPT ![m] = "unacked"]
  BY DEF Deliver, procVars
<1>2. \A u \in Threads : msg[u] # m
  BY <1>1 DEF Holding
<1>3. \A u \in Threads : msg'[u] = IF u = t THEN m ELSE msg[u]
  BY <1>1 DEF TypeOK
<1>4. \A k \in Msgs : queue'[k] = IF k = m THEN "unacked" ELSE queue[k]
  BY <1>1 DEF TypeOK
<1>5. ASSUME NEW u \in Threads, msg'[u] # NoMsg
      PROVE  Open(u)' /\ queue'[msg'[u]] = "unacked"
  BY <1>1, <1>3, <1>4, <1>5 DEF Holding, Open, TypeOK
<1>6. \A u, v \in Threads : msg'[u] # NoMsg /\ msg'[u] = msg'[v] => u = v
  BY <1>2, <1>3 DEF Holding
<1> QED
  BY <1>1, <1>5, <1>6 DEF Holding

\* A process that dies gives back what its goroutines held.
LEMMA HoldingExit ==
  ASSUME TypeOK, Holding, NEW p \in Procs, Exit(p)
  PROVE  Holding'
<1> USE ConsumerAssumption DEF ConsumerAssumption
<1>1. /\ proc' = [proc EXCEPT ![p] = "down"]
      /\ chan' = [chan EXCEPT ![p] = FALSE]
      /\ \A u \in Threads : msg'[u] = IF ProcOf[u] = p THEN NoMsg ELSE msg[u]
      /\ \A m \in Msgs : queue'[m] = queue[m] \/ \E u \in Threads : ProcOf[u] = p /\ msg[u] = m
  BY DEF Exit, Requeue
<1>2. \A q \in Procs : /\ proc'[q] = IF q = p THEN "down" ELSE proc[q]
                       /\ chan'[q] = IF q = p THEN FALSE ELSE chan[q]
  BY <1>1 DEF TypeOK
<1>3. ASSUME NEW u \in Threads, msg'[u] # NoMsg
      PROVE  Open(u)' /\ queue'[msg'[u]] = "unacked"
  <2>1. ProcOf[u] # p /\ msg'[u] = msg[u] /\ msg[u] \in Msgs /\ msg[u] # NoMsg
    BY <1>1, <1>3 DEF TypeOK
  <2>2. \A v \in Threads : ProcOf[v] = p => msg[v] # msg[u]
    BY <2>1 DEF Holding
  <2>3. queue'[msg[u]] = queue[msg[u]]
    BY <1>1, <2>1, <2>2
  <2> QED
    BY <1>2, <2>1, <2>3 DEF Holding, Open
<1>4. \A u, v \in Threads : msg'[u] # NoMsg /\ msg'[u] = msg'[v] => u = v
  BY <1>1 DEF Holding
<1> QED
  BY <1>2, <1>3, <1>4 DEF Holding

LEMMA HoldingStep == LastingChannels /\ TypeOK /\ Holding /\ [Next]_vars => Holding'
<1> SUFFICES ASSUME LastingChannels, TypeOK, Holding, [Next]_vars PROVE Holding'
  OBVIOUS
<1> USE ConsumerAssumption DEF ConsumerAssumption
<1>1. ASSUME NEW t \in Threads,
             \/ GuardSetNX(t) \/ Admit(t) \/ IdemSetNX(t) \/ SearchDriver(t) \/ FindOrder(t)
             \/ UpdateOrder(t) \/ DelIdem(t) \/ DelDedup(t) \/ Backoff(t) \/ FallbackFind(t)
             \/ FallbackUpdate(t) \/ Park(t) \/ Timeout(t) \/ Resend(t) \/ Panic(t)
      PROVE  UNCHANGED <<queue, msg, proc, chan>>
  BY <1>1 DEF GuardSetNX, Admit, IdemSetNX, SearchDriver, FindOrder, UpdateOrder, DelIdem, DelDedup,
     Backoff, FallbackFind, FallbackUpdate, Park, Timeout, Resend, Panic, brokerVars, procVars
<1>2. ASSUME NEW m \in Msgs, WaitExpire(m) PROVE Holding'
  <2>1. /\ UNCHANGED <<msg, proc, chan>>
        /\ queue[m] = "wait" /\ queue' = [queue EXCEPT ![m] = "main"]
    BY <1>2 DEF WaitExpire, procVars
  <2>2. \A u \in Threads : msg[u] # m
    BY <2>1 DEF Holding
  <2>3. \A k \in Msgs : k # m => queue'[k] = queue[k]
    BY <2>1 DEF TypeOK
  <2> QED
    BY <2>1, <2>2, <2>3 DEF Holding, Open, TypeOK
<1>3. ASSUME NEW p \in Procs, BreakerTimeout(p) PROVE UNCHANGED <<queue, msg, proc, chan>>
  BY <1>3 DEF BreakerTimeout, brokerVars
<1>4. ASSUME NEW p \in Procs PROVE ~LoseChannel(p) /\ ~BeginShutdown(p)
  BY DEF LoseChannel, BeginShutdown, LastingChannels, Holding
<1>5. ASSUME NEW p \in Procs, Start(p) PROVE Holding'
  <2>1. \A q \in Procs : /\ proc'[q] = IF q = p THEN "up" ELSE proc[q]
                         /\ chan'[q] = IF q = p THEN TRUE ELSE chan[q]
    BY <1>5 DEF Start, TypeOK
  <2>2. UNCHANGED <<queue, msg>>
    BY <1>5 DEF Start, brokerVars
  <2> QED
    BY <2>1, <2>2 DEF Holding, Open
<1>6. CASE UNCHANGED vars
  BY <1>6, HoldingKept DEF vars, brokerVars, procVars
<1> QED
  BY <1>1, <1>2, <1>3, <1>4, <1>5, <1>6, HoldingKept, HoldingSettled, HoldingDeliver, HoldingExit
     DEF Next, Handle

-----------------------------------------------------------------------------
(***************************************************************************)
(* No silent loss, where keys can be trusted and channels last.  A copy    *)
(* that is acknowledged unseen is not the last one: the goroutine that     *)
(* owns the key holds another, which no acknowledgement is under way for.  *)
(***************************************************************************)
Acking(m) == \E t \in Threads : msg[t] = m /\ pc[t] = "ack"
Alive(m)  == m \in parked \/ (queue[m] # "gone" /\ ~Acking(m))

InHand(o) == Settled(o) \/ \E m \in Msgs : MsgOrder[m] = o /\ Alive(m)

EventAlive == \A o \in Orders : InHand(o)

\* Every order has a copy in the queue at first.
AllPublished == \A o \in Orders : \E m \in Backlog : MsgOrder[m] = o

Kept == Calm /\ DedupHandled /\ IdemHandled

\* It is enough to look at the copies that die.
LEMMA AliveKept ==
  ASSUME TypeOK, [Next]_vars, NEW o \in Orders, InHand(o),
         \A m \in Msgs : Alive(m) => Alive(m)' \/ row'[MsgOrder[m]].status # "PENDING"
  PROVE  InHand(o)'
<1>1. Settled(o) => Settled(o)'
  BY SettledStep
<1>2. ASSUME NEW m \in Msgs, MsgOrder[m] = o, Alive(m) PROVE InHand(o)'
  BY <1>2 DEF InHand, Settled
<1> QED
  BY <1>1, <1>2 DEF InHand

\* A goroutine that is about to acknowledge kills its own copy only.
LEMMA AliveAck ==
  ASSUME TypeOK, Holding, NEW t \in Threads,
         UNCHANGED <<queue, msg>>, parked \subseteq parked',
         pc' = [pc EXCEPT ![t] = "ack"],
         NEW m \in Msgs, Alive(m), m # msg[t] \/ m \in parked'
  PROVE  Alive(m)'
BY DEF Alive, Acking, TypeOK

\* The copy of a goroutine that answers for a key is not going away.
LEMMA HolderAlive ==
  ASSUME TypeOK, Holding, NEW u \in Threads, pc[u] \in DedupHolder
  PROVE  /\ msg[u] \in Msgs
         /\ Alive(msg[u])
         /\ \A t \in Threads : t # u => msg[t] # msg[u]
<1>1. msg[u] # NoMsg /\ msg[u] \in Msgs /\ pc[u] # "ack"
  BY DEF TypeOK, DedupHolder, Guarded, InBreaker
<1>2. queue[msg[u]] = "unacked"
  BY <1>1 DEF Holding
<1>3. \A t \in Threads : t # u => msg[t] # msg[u]
  BY <1>1 DEF Holding
<1> QED
  BY <1>1, <1>2, <1>3 DEF Alive, Acking

\* A duplicate: the owner of the key holds a copy of the event that stays alive.
LEMMA GuardSetNXAlive ==
  ASSUME Reliable, TypeOK, Holding, Kept, [Next]_vars, NEW o \in Orders, InHand(o),
         NEW t \in Threads, GuardSetNX(t)
  PROVE  InHand(o)'
<1> USE ConsumerAssumption DEF ConsumerAssumption
<1>0. /\ pc[t] = "guard"
      /\ UNCHANGED <<row, queue, parked, msg>>
      /\ \A u \in Threads : u # t => pc'[u] = pc[u]
  BY DEF GuardSetNX, Goto, TypeOK, brokerVars
<1>1. CASE pc'[t] # "ack"
  <2>1. \A m \in Msgs : Alive(m) => Alive(m)'
    BY <1>0, <1>1 DEF Alive, Acking
  <2> QED
    BY <2>1, AliveKept
<1>2. CASE pc'[t] = "ack"
  <2>1. pc' = [pc EXCEPT ![t] = "ack"] /\ Key(t) \in dedup
    BY <1>2 DEF GuardSetNX, Goto, TypeOK, KeyFree
  <2>2. \A m \in Msgs : Alive(m) /\ m # msg[t] => Alive(m)'
    BY <1>0, <2>1, AliveAck
  <2>3. CASE Settled(o)
    BY <1>0, <2>3 DEF InHand, Settled
  <2>4. CASE ~Settled(o) /\ o = Key(t)
    <3>1. PICK u \in Threads : pc[u] \in DedupHolder /\ Key(u) = o
      BY <2>1, <2>4 DEF Kept, DedupHandled
    <3>2. u # t
      BY <1>0, <3>1 DEF DedupHolder, Guarded, InBreaker
    <3>3. msg[u] \in Msgs /\ Alive(msg[u]) /\ msg[u] # msg[t]
      BY <3>1, <3>2, HolderAlive
    <3> QED
      BY <2>2, <3>1, <3>3 DEF InHand, Key
  <2>5. CASE ~Settled(o) /\ o # Key(t)
    <3>1. PICK m \in Msgs : MsgOrder[m] = o /\ Alive(m)
      BY <2>5 DEF InHand
    <3>2. m # msg[t]
      BY <2>5, <3>1 DEF Key
    <3> QED
      BY <2>2, <3>1, <3>2 DEF InHand
  <2> QED
    BY <2>3, <2>4, <2>5
<1> QED
  BY <1>1, <1>2

\* The idempotency key is found only when the order is settled, or when a
\* goroutine panicked, which keeps its copy.
LEMMA IdemSetNXAlive ==
  ASSUME Reliable, TypeOK, GuardExclusive, Holding, Kept, [Next]_vars, NEW o \in Orders, InHand(o),
         NEW t \in Threads, IdemSetNX(t)
  PROVE  InHand(o)'
<1> USE ConsumerAssumption DEF ConsumerAssumption
<1>0. /\ pc[t] = "idem"
      /\ UNCHANGED <<row, queue, parked, msg>>
      /\ \A u \in Threads : u # t => pc'[u] = pc[u]
  BY DEF IdemSetNX, Goto, TypeOK, brokerVars
<1>1. CASE pc'[t] # "ack"
  <2>1. \A m \in Msgs : Alive(m) => Alive(m)'
    BY <1>0, <1>1 DEF Alive, Acking
  <2> QED
    BY <2>1, AliveKept
<1>2. CASE pc'[t] = "ack"
  <2>1. pc' = [pc EXCEPT ![t] = "ack"] /\ Key(t) \in idem
    BY <1>2 DEF IdemSetNX, Goto, TypeOK
  <2>2. \A m \in Msgs : Alive(m) /\ m # msg[t] => Alive(m)'
    BY <1>0, <2>1, AliveAck
  <2>3. CASE Settled(Key(t))
    <3>1. row'[MsgOrder[msg[t]]].status # "PENDING"
      BY <1>0, <2>3 DEF Settled, Key
    <3> QED
      BY <2>2, <3>1, AliveKept
  <2>4. CASE ~Settled(Key(t))
    <3>1. PICK u \in Threads : pc[u] = "dead" /\ Key(u) = Key(t)
      <4>1. \A u \in Threads : pc[u] \in InLogic => Key(u) # Key(t)
        BY <1>0 DEF GuardExclusive, Guarded, InBreaker, InLogic
      <4> QED
        BY <2>1, <2>4, <4>1 DEF Kept, IdemHandled, IdemHolder
    <3>2. msg[u] \in Msgs /\ Alive(msg[u]) /\ msg[u] # msg[t]
      BY <1>0, <3>1, HolderAlive DEF DedupHolder
    <3>3. CASE o = Key(t)
      BY <2>2, <3>1, <3>2, <3>3 DEF InHand, Key
    <3>4. CASE o # Key(t) /\ ~Settled(o)
      <4>1. PICK m \in Msgs : MsgOrder[m] = o /\ Alive(m)
        BY <3>4 DEF InHand
      <4>2. m # msg[t]
        BY <3>4, <4>1 DEF Key
      <4> QED
        BY <2>2, <4>1, <4>2 DEF InHand
    <3>5. CASE Settled(o)
      BY <1>0, <3>5 DEF InHand, Settled
    <3> QED
      BY <3>3, <3>4, <3>5
  <2> QED
    BY <2>3, <2>4
<1> QED
  BY <1>1, <1>2

\* Writes settle the order before the copy is acknowledged.
LEMMA WritesAlive ==
  ASSUME Reliable, TypeOK, Holding, Kept, [Next]_vars, NEW o \in Orders, InHand(o),
         NEW t \in Threads, UpdateOrder(t) \/ FallbackUpdate(t) \/ Park(t)
  PROVE  InHand(o)'
<1> USE ConsumerAssumption DEF ConsumerAssumption
<1>0. /\ UNCHANGED <<queue, msg>> /\ parked \subseteq parked' /\ msg[t] \in Msgs
      /\ \A u \in Threads : u # t => pc'[u] = pc[u]
  BY DEF UpdateOrder, FallbackUpdate, Park, Goto, TypeOK, brokerVars
<1>1. CASE pc'[t] # "ack"
  <2>1. \A m \in Msgs : Alive(m) => Alive(m)'
    BY <1>0, <1>1 DEF Alive, Acking
  <2> QED
    BY <2>1, AliveKept
<1>2. CASE pc'[t] = "ack"
  <2>1. pc' = [pc EXCEPT ![t] = "ack"]
    BY <1>2 DEF UpdateOrder, FallbackUpdate, Park, Goto, TypeOK
  <2>2. row'[MsgOrder[msg[t]]].status # "PENDING" \/ msg[t] \in parked'
    <3>1. Key(t) \in Orders
      BY <1>0 DEF Key
    <3>2. CASE UpdateOrder(t) \/ FallbackUpdate(t)
      BY <1>0, <1>2, <3>1, <3>2 DEF UpdateOrder, FallbackUpdate, Goto, Write, Key, TypeOK
    <3>3. CASE Park(t)
      BY <3>3 DEF Park
    <3> QED
      BY <3>2, <3>3
  <2>3. \A m \in Msgs : Alive(m) => Alive(m)' \/ row'[MsgOrder[m]].status # "PENDING"
    <3>1. ASSUME NEW m \in Msgs, Alive(m), m # msg[t] \/ m \in parked' PROVE Alive(m)'
      BY <1>0, <2>1, <3>1, AliveAck
    <3> QED
      BY <2>2, <3>1
  <2> QED
    BY <2>3, AliveKept
<1> QED
  BY <1>1, <1>2

\* No other step acknowledges, or takes a copy away that is not acknowledged.
LEMMA OtherAlive ==
  ASSUME Reliable, TypeOK, Holding, Kept, [Next]_vars, NEW o \in Orders, InHand(o),
         ~(\E t \in Threads : \/ GuardSetNX(t) \/ IdemSetNX(t)
                              \/ UpdateOrder(t) \/ FallbackUpdate(t) \/ Park(t))
  PROVE  InHand(o)'
<1> USE ConsumerAssumption DEF ConsumerAssumption
<1>0. SUFFICES \A m \in Msgs : Alive(m) => Alive(m)'
  BY AliveKept
<1>1. ASSUME NEW t \in Threads,
             \/ Admit(t) \/ SearchDriver(t) \/ FindOrder(t) \/ DelIdem(t) \/ DelDedup(t)
             \/ Backoff(t) \/ FallbackFind(t) \/ Timeout(t) \/ Resend(t) \/ Panic(t)
      PROVE  /\ UNCHANGED <<queue, parked, msg>>
             /\ \A u \in Threads : pc'[u] = "ack" => pc[u] = "ack"
  BY <1>1 DEF Admit, SearchDriver, FindOrder, DelIdem, DelDedup, Backoff, FallbackFind, Timeout, Resend,
     Panic, Goto, TypeOK, brokerVars
<1>2. ASSUME NEW t \in Threads, NackToWait(t) \/ ParkFails(t) \/ Ack(t)
      PROVE  \A m \in Msgs : Alive(m) => Alive(m)'
  <2>1. /\ UNCHANGED parked
        /\ msg[t] \in Msgs
        /\ \A m \in Msgs : m # msg[t] => queue'[m] = queue[m]
        /\ \A u \in Threads : pc'[u] = "ack" => pc[u] = "ack" /\ msg'[u] = msg[u]
    BY <1>2 DEF NackToWait, ParkFails, Ack, Tell, Finish, Goto, TypeOK
  <2>2. ASSUME NEW m \in Msgs, Alive(m), m # msg[t] \/ m \in parked PROVE Alive(m)'
    BY <2>1, <2>2 DEF Alive, Acking
  <2>3. CASE Ack(t)
    <3>1. Acking(msg[t])
      BY <2>3 DEF Ack, Acking
    <3> QED
      BY <2>2, <3>1 DEF Alive
  <2>4. CASE NackToWait(t) \/ ParkFails(t)
    <3>1. pc[t] # "ack" /\ queue'[msg[t]] # "gone"
      BY <2>1, <2>4 DEF NackToWait, ParkFails, Tell, Rejected, Holding, TypeOK
    <3>2. \A u \in Threads : msg[u] = msg[t] => u = t
      BY <2>1 DEF Holding
    <3>3. \A m \in Msgs : m = msg[t] => Alive(m)'
      BY <2>1, <3>1, <3>2 DEF Alive, Acking
    <3> QED
      BY <2>2, <3>3
  <2> QED
    BY <1>2, <2>3, <2>4
<1>3. ASSUME NEW t \in Threads, NEW k \in Msgs, Deliver(t, k)
      PROVE  \A m \in Msgs : Alive(m) => Alive(m)'
  <2>1. /\ UNCHANGED parked
        /\ \A m \in Msgs : queue'[m] = "gone" => queue[m] = "gone"
        /\ \A u \in Threads : pc'[u] = "ack" => pc[u] = "ack" /\ msg'[u] = msg[u]
    BY <1>3 DEF Deliver, Goto, TypeOK
  <2> QED
    BY <2>1 DEF Alive, Acking
<1>4. ASSUME NEW k \in Msgs, WaitExpire(k)
      PROVE  \A m \in Msgs : Alive(m) => Alive(m)'
  BY <1>4 DEF WaitExpire, Alive, Acking, TypeOK
<1>5. ASSUME NEW p \in Procs, \/ BreakerTimeout(p) \/ LoseChannel(p) \/ BeginShutdown(p) \/ Start(p)
      PROVE  /\ UNCHANGED <<parked, msg, pc>>
             /\ \A m \in Msgs : queue'[m] = "gone" => queue[m] = "gone"
  BY <1>5 DEF BreakerTimeout, LoseChannel, BeginShutdown, Start, Requeue, brokerVars, TypeOK
<1>6. ASSUME NEW p \in Procs PROVE ~Exit(p)
  BY DEF Exit, Reliable, Kept, Calm
<1>7. CASE UNCHANGED vars
  BY <1>7 DEF vars, brokerVars, Alive, Acking
<1>8. ASSUME /\ UNCHANGED <<parked, msg>>
             /\ \A m \in Msgs : queue'[m] = "gone" => queue[m] = "gone"
             /\ \A u \in Threads : pc'[u] = "ack" => pc[u] = "ack"
      PROVE  \A m \in Msgs : Alive(m) => Alive(m)'
  BY <1>8 DEF Alive, Acking
<1> QED
  BY <1>1, <1>2, <1>3, <1>4, <1>5, <1>6, <1>7, <1>8 DEF Next, Handle

\* What is in hand stays in hand, and the keys stay honest.
LEMMA InHandStep ==
  ASSUME Reliable, TypeOK, GuardExclusive, Holding, Kept, [Next]_vars, NEW o \in Orders, InHand(o)
  PROVE  InHand(o)'
BY GuardSetNXAlive, IdemSetNXAlive, WritesAlive, OtherAlive

LEMMA KeptStep ==
  ASSUME Reliable, TypeOK, GuardExclusive, Kept, [Next]_vars
  PROVE  Kept'
BY CalmStep, GuardSetNXKeys, IdemSetNXKeys, LeaveKeys, OtherKeys DEF Kept

LEMMA AliveInit == AllPublished /\ Init => EventAlive
<1> SUFFICES ASSUME AllPublished, Init, NEW o \in Orders
             PROVE  \E m \in Msgs : MsgOrder[m] = o /\ Alive(m)
  BY DEF EventAlive, InHand
<1>1. PICK m \in Backlog : MsgOrder[m] = o
  BY DEF AllPublished
<1> QED
  BY <1>1, ConsumerAssumption DEF ConsumerAssumption, Init, Alive, Acking

(***************************************************************************)
(* No PENDING order loses its last message, with any number of copies,     *)
(* goroutines and processes, whatever statements, the fleet service and    *)
(* the parking queue do, and although goroutines panic: the key one leaves *)
(* behind makes duplicates disappear, but not the delivery it holds.       *)
(***************************************************************************)
THEOREM NoOrderIsLost ==
  ASSUME Reliable, LastingChannels, AllPublished
  PROVE  Spec => []NoSilentLoss
<1>1. Init => Holding /\ Kept /\ EventAlive
  BY HoldingInit, AliveInit DEF Init, Kept, Calm, DedupHandled, IdemHandled
<1>2. TypeOK /\ GuardExclusive /\ Kept /\ [Next]_vars => Kept'
  BY KeptStep
<1>3. TypeOK /\ GuardExclusive /\ Holding /\ Kept /\ EventAlive /\ [Next]_vars => EventAlive'
  BY InHandStep DEF EventAlive
<1>4. EventAlive => NoSilentLoss
  BY DEF EventAlive, InHand, NoSilentLoss, Settled, Alive
<1>5. Spec => []GuardExclusive
  BY GuardIsLock DEF NothingResent, Reliable
<1> QED
  BY <1>1, <1>2, <1>3, <1>4, <1>5, HoldingStep, TypeCorrect, PTL DEF Spec

-----------------------------------------------------------------------------
(***************************************************************************)
(* Nothing is done about an order without a message: it stays untouched    *)
(* until a copy of its event is in the queue.                              *)
(***************************************************************************)
Untouched(o) ==
  /\ \A m \in Msgs : MsgOrder[m] = o => queue[m] = "gone" /\ m \notin parked
  /\ \A t \in Threads : msg[t] # NoMsg => Key(t) # o
  /\ o \notin dedup \cup idem
  /\ row[o].status = "PENDING"

LEMMA UntouchedStep ==
  ASSUME TypeOK, [Next]_vars, NEW o \in Orders, Untouched(o)
  PROVE  Untouched(o)'
<1> USE ConsumerAssumption DEF ConsumerAssumption
<1>1. ASSUME NEW t \in Threads, Handle(t) \/ Resend(t) PROVE Untouched(o)'
  <2>1. msg[t] \in Msgs /\ msg[t] # NoMsg /\ Key(t) # o /\ Key(t) \in Orders
    <3>1. pc[t] # "idle"
      BY <1>1 DEF Handle, GuardSetNX, Admit, IdemSetNX, SearchDriver, FindOrder, UpdateOrder, DelIdem,
         DelDedup, Backoff, FallbackFind, FallbackUpdate, NackToWait, Park, ParkFails, Ack, Resend
    <3>2. msg[t] \in Msgs /\ msg[t] # NoMsg
      BY <3>1 DEF TypeOK
    <3> QED
      BY <3>2 DEF Untouched, Key
  <2>2. /\ dedup' \subseteq dedup \cup {Key(t)} /\ idem' \subseteq idem \cup {Key(t)}
        /\ \A x \in Orders : x # Key(t) => row'[x] = row[x]
        /\ \A m \in Msgs : m # msg[t] => queue'[m] = queue[m] /\ (m \in parked' => m \in parked)
        /\ \A u \in Threads : msg'[u] \in {msg[u], NoMsg}
    <3>1. CASE GuardSetNX(t) \/ Admit(t) \/ IdemSetNX(t) \/ SearchDriver(t) \/ FindOrder(t)
      BY <3>1 DEF GuardSetNX, Admit, IdemSetNX, SearchDriver, FindOrder, redisVars, brokerVars
    <3>2. CASE UpdateOrder(t) \/ FallbackFind(t) \/ FallbackUpdate(t)
      BY <3>2 DEF UpdateOrder, FallbackFind, FallbackUpdate, Write, TypeOK, redisVars, brokerVars
    <3>3. CASE DelIdem(t) \/ DelDedup(t) \/ Backoff(t)
      BY <3>3 DEF DelIdem, DelDedup, WithoutIdem, WithoutDedup, Backoff, redisVars, brokerVars
    <3>4. CASE NackToWait(t) \/ Park(t) \/ ParkFails(t) \/ Ack(t)
      BY <3>4 DEF NackToWait, Park, ParkFails, Ack, Tell, Finish, TypeOK, redisVars
    <3>5. CASE Resend(t)
      BY <3>5 DEF Resend, WithoutIdem, WithoutDedup, brokerVars
    <3> QED
      BY <1>1, <3>1, <3>2, <3>3, <3>4, <3>5 DEF Handle
  <2> QED
    BY <2>1, <2>2 DEF Untouched, Key
<1>2. ASSUME NEW t \in Threads, Timeout(t) \/ Panic(t) PROVE Untouched(o)'
  BY <1>2 DEF Timeout, Panic, Untouched, Key, redisVars, brokerVars
<1>3. ASSUME NEW t \in Threads, NEW m \in Msgs, Deliver(t, m) PROVE Untouched(o)'
  BY <1>3 DEF Deliver, Untouched, Key, TypeOK, redisVars
<1>4. ASSUME NEW m \in Msgs, WaitExpire(m) PROVE Untouched(o)'
  BY <1>4 DEF WaitExpire, Untouched, Key, TypeOK, redisVars
<1>5. ASSUME NEW p \in Procs, BreakerTimeout(p) \/ BeginShutdown(p) \/ Start(p) PROVE Untouched(o)'
  BY <1>5 DEF BreakerTimeout, BeginShutdown, Start, Untouched, Key, redisVars, brokerVars
<1>6. ASSUME NEW p \in Procs, LoseChannel(p) \/ Exit(p) PROVE Untouched(o)'
  <2>1. \A m \in Msgs : queue'[m] = queue[m] \/ \E u \in Threads : msg[u] = m
    <3>1. Requeue(p)
      BY <1>6 DEF LoseChannel, Exit
    <3> QED
      BY <3>1 DEF Requeue
  <2>2. /\ UNCHANGED <<row, dedup, idem, parked>>
        /\ \A u \in Threads : msg'[u] \in {msg[u], NoMsg}
    BY <1>6 DEF LoseChannel, Exit, redisVars
  <2>3. \A m \in Msgs : MsgOrder[m] = o => \A u \in Threads : msg[u] # m
    BY DEF Untouched, Key
  <2> QED
    BY <2>1, <2>2, <2>3 DEF Untouched, Key
<1>7. CASE UNCHANGED vars
  BY <1>7 DEF vars, redisVars, brokerVars, Untouched, Key
<1> QED
  BY <1>1, <1>2, <1>3, <1>4, <1>5, <1>6, <1>7 DEF Next

-----------------------------------------------------------------------------
(***************************************************************************)
(* What is written, whatever fails and however many copies there are: the  *)
(* driver of a dispatch was answered by the fleet service, and a fallback  *)
(* writes none, because it was decided on a row that had none.  So status  *)
(* and driver agree although a fallback may undo a dispatch.               *)
(***************************************************************************)
Drafts ==
  /\ \A t \in Threads : pc[t] \in {"find", "update"} => drv[t] \in Drivers
  /\ \A t \in Threads : pc[t] = "fbUpdate" => drv[t] = NoDriver

\* The steps of one goroutine leave the others where they are.
LEMMA HandleLocal ==
  ASSUME TypeOK, NEW t \in Threads, Handle(t), NEW u \in Threads, u # t
  PROVE  pc'[u] = pc[u] /\ msg'[u] = msg[u] /\ drv'[u] = drv[u]
BY DEF TypeOK, Handle, GuardSetNX, Admit, IdemSetNX, SearchDriver, FindOrder, UpdateOrder, DelIdem,
   DelDedup, Backoff, FallbackFind, FallbackUpdate, NackToWait, Park, ParkFails, Ack, Finish, Goto

\* How a goroutine comes to a write: it found a driver, or read a row.
LEMMA DraftStep ==
  ASSUME TypeOK, [Next]_vars, NEW u \in Threads
  PROVE  /\ pc'[u] \in {"find", "update"} =>
              \/ pc[u] \in {"find", "update"} /\ drv'[u] = drv[u] /\ msg'[u] = msg[u]
              \/ pc[u] = "search" /\ pc'[u] = "find" /\ drv'[u] \in Drivers
         /\ pc'[u] = "fbUpdate" =>
              \/ pc[u] = "fbUpdate" /\ drv'[u] = drv[u] /\ msg'[u] = msg[u]
              \/ /\ pc[u] = "fbFind" /\ row[Key(u)].status \in SendToManualFrom
                 /\ drv'[u] = row[Key(u)].driver
<1>1. CASE Handle(u)
  <2>1. CASE \/ GuardSetNX(u) \/ Admit(u) \/ IdemSetNX(u) \/ DelIdem(u) \/ DelDedup(u)
             \/ Backoff(u) \/ NackToWait(u) \/ Park(u) \/ ParkFails(u) \/ Ack(u)
             \/ UpdateOrder(u) \/ FallbackUpdate(u)
    <3>1. pc'[u] \notin {"find", "update", "fbUpdate"}
      BY <2>1 DEF GuardSetNX, Admit, IdemSetNX, DelIdem, DelDedup, Backoff, NackToWait, Park,
         ParkFails, Ack, UpdateOrder, FallbackUpdate, Finish, Goto, TypeOK
    <3> QED
      BY <3>1
  <2>2. CASE SearchDriver(u)
    BY <2>2 DEF SearchDriver, Goto, TypeOK
  <2>3. CASE FindOrder(u)
    BY <2>3 DEF FindOrder, Goto, TypeOK
  <2>4. CASE FallbackFind(u)
    BY <2>4 DEF FallbackFind, Goto, TypeOK
  <2> QED
    BY <1>1, <2>1, <2>2, <2>3, <2>4 DEF Handle
<1>2. CASE \E t \in Threads : Handle(t) /\ t # u
  BY <1>2, HandleLocal
<1>3. CASE \E t \in Threads : Panic(t) \/ Timeout(t) \/ Resend(t) \/ \E m \in Msgs : Deliver(t, m)
  <2>1. /\ UNCHANGED drv
        /\ pc'[u] \in {"dead", "guard"} \/ (pc'[u] = pc[u] /\ msg'[u] = msg[u])
    BY <1>3 DEF Panic, Timeout, Resend, Deliver, Goto, TypeOK
  <2> QED
    BY <2>1
<1>4. CASE \E p \in Procs : Exit(p)
  BY <1>4 DEF Exit
<1>5. CASE UNCHANGED <<pc, msg, drv>>
  BY <1>5
<1> QED
  BY <1>1, <1>2, <1>3, <1>4, <1>5 DEF Next, WaitExpire, BreakerTimeout, LoseChannel, BeginShutdown,
     Start, vars

\* The row is written at two places only.
LEMMA RowStep ==
  ASSUME TypeOK, [Next]_vars
  PROVE  \/ UNCHANGED row
         \/ \E t \in Threads : pc[t] = "update" /\ row' = Write(Key(t), "DISPATCHED", drv[t])
         \/ \E t \in Threads : pc[t] = "fbUpdate" /\ row' = Write(Key(t), "MANUAL_DISPATCH", drv[t])
<1>1. CASE \E t \in Threads : UpdateOrder(t) \/ FallbackUpdate(t)
  BY <1>1 DEF UpdateOrder, FallbackUpdate
<1> QED
  BY <1>1 DEF Next, Handle, Deliver, GuardSetNX, Admit, IdemSetNX, SearchDriver, FindOrder, DelIdem,
     DelDedup, Backoff, FallbackFind, NackToWait, Park, ParkFails, Ack, Timeout, Resend, Panic, WaitExpire,
     BreakerTimeout, LoseChannel, BeginShutdown, Exit, Start, vars

LEMMA KeyOfHandled ==
  ASSUME TypeOK, NEW t \in Threads, pc[t] # "idle"
  PROVE  msg[t] \in Msgs /\ msg[t] # NoMsg /\ Key(t) \in Orders
BY ConsumerAssumption DEF ConsumerAssumption, TypeOK, Key

LEMMA DraftsStep ==
  ASSUME TypeOK, Drafts, DriverIffDispatched, [Next]_vars
  PROVE  Drafts' /\ DriverIffDispatched'
<1> USE ConsumerAssumption DEF ConsumerAssumption
<1>1. ASSUME NEW u \in Threads, pc'[u] \in {"find", "update"} PROVE drv'[u] \in Drivers
  BY <1>1, DraftStep DEF Drafts
<1>2. ASSUME NEW u \in Threads, pc'[u] = "fbUpdate" PROVE drv'[u] = NoDriver
  <2>1. CASE pc[u] = "fbUpdate" /\ drv'[u] = drv[u]
    BY <2>1 DEF Drafts
  <2>2. CASE /\ pc[u] = "fbFind" /\ row[Key(u)].status \in SendToManualFrom
             /\ drv'[u] = row[Key(u)].driver
    <3>1. Key(u) \in Orders
      BY <2>2, KeyOfHandled
    <3> QED
      BY <2>2, <3>1 DEF DriverIffDispatched, Lifecycle!DriverMatchesStatus, SendToManualFrom
  <2> QED
    BY <1>2, <2>1, <2>2, DraftStep
<1>3. DriverIffDispatched'
  <2>1. CASE UNCHANGED row
    BY <2>1 DEF DriverIffDispatched, Lifecycle!DriverMatchesStatus
  <2>2. ASSUME NEW t \in Threads, pc[t] = "update", row' = Write(Key(t), "DISPATCHED", drv[t])
        PROVE  DriverIffDispatched'
    <3>1. Key(t) \in Orders /\ drv[t] # NoDriver
      BY <2>2, KeyOfHandled DEF Drafts
    <3>2. \A o \in Orders :
            row'[o] = IF o = Key(t) THEN [status |-> "DISPATCHED", driver |-> drv[t]] ELSE row[o]
      BY <2>2 DEF Write, TypeOK
    <3> QED
      BY <3>1, <3>2 DEF DriverIffDispatched, Lifecycle!DriverMatchesStatus
  <2>3. ASSUME NEW t \in Threads, pc[t] = "fbUpdate",
               row' = Write(Key(t), "MANUAL_DISPATCH", drv[t])
        PROVE  DriverIffDispatched'
    <3>1. Key(t) \in Orders /\ drv[t] = NoDriver
      BY <2>3, KeyOfHandled DEF Drafts
    <3>2. \A o \in Orders :
            row'[o] = IF o = Key(t) THEN [status |-> "MANUAL_DISPATCH", driver |-> drv[t]] ELSE row[o]
      BY <2>3 DEF Write, TypeOK
    <3> QED
      BY <3>1, <3>2 DEF DriverIffDispatched, Lifecycle!DriverMatchesStatus
  <2> QED
    BY <2>1, <2>2, <2>3, RowStep
<1> QED
  BY <1>1, <1>2, <1>3 DEF Drafts

LEMMA DraftsInit == Init => Drafts /\ DriverIffDispatched
BY DEF Init, Drafts, DriverIffDispatched, Lifecycle!DriverMatchesStatus

(***************************************************************************)
(* Status and driver agree in every row, with all faults, any number of    *)
(* copies and stale fallbacks.                                             *)
(***************************************************************************)
THEOREM DriversAgree == Spec => []DriverIffDispatched
BY DraftsInit, DraftsStep, TypeCorrect, PTL DEF Spec

-----------------------------------------------------------------------------
(***************************************************************************)
(* The refinement.  With one copy of every event and lasting channels no   *)
(* two goroutines are at one order, so that what either path has read is   *)
(* still true when it writes.                                              *)
(***************************************************************************)
OneCopy == \A m, k \in Msgs : MsgOrder[m] = MsgOrder[k] => m = k

ReadStillTrue ==
  \A t \in Threads :
     /\ pc[t] \in {"find", "update"} => drv[t] \in Drivers
     /\ pc[t] = "update" => row[Key(t)].status \in DispatchFrom
     /\ pc[t] = "fbUpdate" =>
           row[Key(t)].status \in SendToManualFrom /\ row[Key(t)].driver = drv[t]

\* Steps that leave the row alone and bring no goroutine to a write.
LEMMA ReadKept ==
  ASSUME ReadStillTrue,
         \A u \in Threads :
            \/ pc'[u] \notin {"find", "update", "fbUpdate"}
            \/ /\ pc'[u] = pc[u] /\ drv'[u] = drv[u] /\ msg'[u] = msg[u]
               /\ pc[u] \in {"update", "fbUpdate"} => row'[Key(u)] = row[Key(u)]
  PROVE  ReadStillTrue'
BY DEF ReadStillTrue, Key

LEMMA ReadHandle ==
  ASSUME OneCopy, TypeOK, Holding, ReadStillTrue, NEW t \in Threads, Handle(t)
  PROVE  ReadStillTrue'
<1> USE ConsumerAssumption DEF ConsumerAssumption
<1>1. ASSUME \/ GuardSetNX(t) \/ Admit(t) \/ IdemSetNX(t) \/ DelIdem(t) \/ DelDedup(t)
             \/ Backoff(t) \/ NackToWait(t) \/ Park(t) \/ ParkFails(t) \/ Ack(t)
      PROVE  ReadStillTrue'
  <2>1. /\ UNCHANGED row
        /\ pc'[t] \notin {"find", "update", "fbUpdate"}
        /\ \A u \in Threads : u # t => pc'[u] = pc[u] /\ msg'[u] = msg[u] /\ drv'[u] = drv[u]
    BY <1>1 DEF GuardSetNX, Admit, IdemSetNX, DelIdem, DelDedup, Backoff, NackToWait, Park, ParkFails,
       Ack, Finish, Goto, TypeOK
  <2> QED
    BY <2>1, ReadKept
<1>2. ASSUME SearchDriver(t) PROVE ReadStillTrue'
  <2>1. /\ UNCHANGED <<row, msg>>
        /\ pc'[t] = "find" => drv'[t] \in Drivers
        /\ pc'[t] \in {"find", "undo"}
        /\ \A u \in Threads : u # t => pc'[u] = pc[u] /\ drv'[u] = drv[u]
    BY <1>2 DEF SearchDriver, Goto, TypeOK
  <2> QED
    BY <2>1 DEF ReadStillTrue, Key
<1>3. ASSUME FindOrder(t) PROVE ReadStillTrue'
  <2>1. /\ UNCHANGED <<row, msg, drv>>
        /\ pc[t] = "find" /\ pc'[t] \in {"update", "undo"}
        /\ pc'[t] = "update" => row[Key(t)].status \in DispatchFrom
        /\ \A u \in Threads : u # t => pc'[u] = pc[u]
    BY <1>3 DEF FindOrder, Dispatchable, Goto, TypeOK
  <2> QED
    BY <2>1 DEF ReadStillTrue, Key
<1>4. ASSUME FallbackFind(t) PROVE ReadStillTrue'
  <2>1. /\ UNCHANGED <<row, msg>>
        /\ pc'[t] = "fbUpdate" => /\ row[Key(t)].status \in SendToManualFrom
                                  /\ drv'[t] = row[Key(t)].driver
        /\ pc'[t] \in {"fbUpdate", "dispose"}
        /\ \A u \in Threads : u # t => pc'[u] = pc[u] /\ drv'[u] = drv[u]
    BY <1>4 DEF FallbackFind, Goto, TypeOK
  <2> QED
    BY <2>1 DEF ReadStillTrue, Key
<1>5. ASSUME UpdateOrder(t) \/ FallbackUpdate(t) PROVE ReadStillTrue'
  <2>1. /\ UNCHANGED <<msg, drv>>
        /\ pc[t] # "idle" /\ pc'[t] \in {"ack", "undo", "dispose"}
        /\ \A u \in Threads : u # t => pc'[u] = pc[u]
        /\ \A o \in Orders : o # Key(t) => row'[o] = row[o]
    BY <1>5 DEF UpdateOrder, FallbackUpdate, Write, Goto, TypeOK
  <2>2. ASSUME NEW u \in Threads, u # t, pc[u] \in {"update", "fbUpdate"}
        PROVE  row'[Key(u)] = row[Key(u)]
    <3>1. msg[u] \in Msgs /\ msg[t] \in Msgs /\ msg[u] # NoMsg
      BY <2>1, <2>2 DEF TypeOK
    <3>2. msg[u] # msg[t]
      BY <2>2, <3>1 DEF Holding
    <3> QED
      BY <2>1, <3>1, <3>2 DEF OneCopy, Key
  <2> QED
    BY <2>1, <2>2, ReadKept
<1> QED
  BY <1>1, <1>2, <1>3, <1>4, <1>5 DEF Handle

LEMMA ReadStep ==
  ASSUME OneCopy, TypeOK, Holding, ReadStillTrue, [Next]_vars
  PROVE  ReadStillTrue'
<1> USE ConsumerAssumption DEF ConsumerAssumption
<1>1. ASSUME NEW t \in Threads, Panic(t) \/ Timeout(t) \/ Resend(t) \/ \E m \in Msgs : Deliver(t, m)
      PROVE  ReadStillTrue'
  <2>1. /\ UNCHANGED <<row, drv>>
        /\ \A u \in Threads : \/ pc'[u] \in {"dead", "guard"}
                              \/ pc'[u] = pc[u] /\ msg'[u] = msg[u]
    BY <1>1 DEF Panic, Timeout, Resend, Deliver, Goto, TypeOK
  <2> QED
    BY <2>1 DEF ReadStillTrue, Key
<1>2. ASSUME NEW p \in Procs, Exit(p) PROVE ReadStillTrue'
  <2>1. /\ UNCHANGED row
        /\ \A u \in Threads : \/ pc'[u] = "idle"
                              \/ pc'[u] = pc[u] /\ msg'[u] = msg[u] /\ drv'[u] = drv[u]
    BY <1>2 DEF Exit
  <2> QED
    BY <2>1 DEF ReadStillTrue, Key
<1>3. CASE UNCHANGED <<row, pc, msg, drv>>
  BY <1>3 DEF ReadStillTrue, Key
<1> QED
  BY <1>1, <1>2, <1>3, ReadHandle DEF Next, WaitExpire, BreakerTimeout, LoseChannel, BeginShutdown,
     Start, vars

\* Each write is an operation of the aggregate on the row as it is.
LEMMA WriteRefines ==
  ASSUME TypeOK, ReadStillTrue, [Next]_vars
  PROVE  [Lifecycle!Next]_row
<1> USE ConsumerAssumption DEF ConsumerAssumption
<1>1. ASSUME NEW t \in Threads, UpdateOrder(t), row' # row PROVE Lifecycle!Next
  <2>1. /\ pc[t] = "update" /\ Key(t) \in Orders
        /\ row' = [row EXCEPT ![Key(t)] = [status |-> "DISPATCHED", driver |-> drv[t]]]
    BY <1>1 DEF UpdateOrder, Write, TypeOK, Key
  <2>2. row[Key(t)].status \in DispatchFrom /\ drv[t] \in Drivers
    BY <2>1 DEF ReadStillTrue
  <2>3. Lifecycle!Dispatch(Key(t), drv[t])
    BY <2>1, <2>2 DEF Lifecycle!Dispatch, Lifecycle!DispatchFrom, DispatchFrom
  <2> QED
    BY <2>1, <2>2, <2>3 DEF Lifecycle!Next
<1>2. ASSUME NEW t \in Threads, FallbackUpdate(t), row' # row PROVE Lifecycle!Next
  <2>1. /\ pc[t] = "fbUpdate" /\ Key(t) \in Orders
        /\ row' = [row EXCEPT ![Key(t)] = [status |-> "MANUAL_DISPATCH", driver |-> drv[t]]]
    BY <1>2 DEF FallbackUpdate, Write, TypeOK, Key
  <2>2. row[Key(t)].status \in SendToManualFrom /\ row[Key(t)].driver = drv[t]
    BY <2>1 DEF ReadStillTrue
  <2>3. [row[Key(t)] EXCEPT !.status = "MANUAL_DISPATCH"]
          = [status |-> "MANUAL_DISPATCH", driver |-> drv[t]]
    BY <2>1, <2>2 DEF TypeOK, Row
  <2>4. Lifecycle!SendToManual(Key(t))
    BY <2>1, <2>2, <2>3 DEF Lifecycle!SendToManual, Lifecycle!SendToManualFrom, SendToManualFrom
  <2> QED
    BY <2>1, <2>4 DEF Lifecycle!Next
<1>3. ASSUME ~(\E t \in Threads : UpdateOrder(t) \/ FallbackUpdate(t)) PROVE UNCHANGED row
  BY <1>3 DEF Next, Handle, Deliver, GuardSetNX, Admit, IdemSetNX, SearchDriver, FindOrder, DelIdem,
     DelDedup, Backoff, FallbackFind, NackToWait, Park, ParkFails, Ack, Timeout, Resend, Panic, WaitExpire,
     BreakerTimeout, LoseChannel, BeginShutdown, Exit, Start, vars
<1> QED
  BY <1>1, <1>2, <1>3

(***************************************************************************)
(* The worker implements the lifecycle of the aggregate although it reads  *)
(* and writes in two statements: failing calls, lost replies, commands     *)
(* sent twice, deadlines, panics and crashes included, unless an event has *)
(* two copies or a channel goes before its handlers: it is lost, or closed *)
(* on SIGTERM.                                                             *)
(***************************************************************************)
THEOREM WorkerImplementsLifecycle ==
  ASSUME LastingChannels, OneCopy
  PROVE  Spec => LifecycleSpec
<1>1. Init => Lifecycle!Init
  BY DEF Init, Lifecycle!Init
<1>2. Init => Holding /\ ReadStillTrue
  BY HoldingInit DEF Init, ReadStillTrue
<1>3. TypeOK /\ Holding /\ ReadStillTrue /\ [Next]_vars => ReadStillTrue'
  BY ReadStep
<1>4. TypeOK /\ ReadStillTrue /\ [Next]_vars => [Lifecycle!Next]_row
  BY WriteRefines
<1> QED
  BY <1>1, <1>2, <1>3, <1>4, HoldingStep, TypeCorrect, PTL
     DEF Spec, LifecycleSpec, Lifecycle!Spec

(***************************************************************************)
(* The proofs about the aggregate, for the rows the worker writes.         *)
(***************************************************************************)
Aggregate == INSTANCE OrderLifecycleProofs

LEMMA AggregateStep ==
  Aggregate!IInv /\ [Lifecycle!Next]_row =>
     /\ Aggregate!IInv'
     /\ \A o \in Orders : row[o].driver # NoDriver => row'[o].driver = row[o].driver
<1>1. Lifecycle!Next <=> Aggregate!Next
  BY DEF Lifecycle!Next, Lifecycle!Dispatch, Lifecycle!SendToManual, Lifecycle!Deliver,
     Lifecycle!Cancel, Lifecycle!DispatchFrom, Lifecycle!SendToManualFrom, Lifecycle!DeliverFrom,
     Lifecycle!CancelFrom, Aggregate!Next, Aggregate!Dispatch, Aggregate!SendToManual,
     Aggregate!Deliver, Aggregate!Cancel, Aggregate!DispatchFrom, Aggregate!SendToManualFrom,
     Aggregate!DeliverFrom, Aggregate!CancelFrom
<1> QED
  BY <1>1, Aggregate!StepInv, ConsumerAssumption DEF ConsumerAssumption, Aggregate!DriversHaveIds

(***************************************************************************)
(* A driver in the table is there exactly when the status says so and is   *)
(* never replaced, by refinement of the lifecycle.                         *)
(***************************************************************************)
THEOREM DriversAreKept ==
  ASSUME LastingChannels, OneCopy
  PROVE  Spec => DriverKept
<1>1. Lifecycle!Init => Aggregate!IInv
  BY ConsumerAssumption, Aggregate!InitInv
     DEF ConsumerAssumption, Aggregate!DriversHaveIds, Lifecycle!Init, Aggregate!Init
<1>2. Aggregate!IInv => Lifecycle!DriverMatchesStatus
  BY DEF Aggregate!IInv, Aggregate!DriverMatchesStatus, Lifecycle!DriverMatchesStatus
<1>3. Aggregate!IInv /\ [Lifecycle!Next]_row =>
        [\A o \in Orders : row[o].driver # NoDriver => row'[o].driver = row[o].driver]_row
  BY AggregateStep
<1> QED
  BY <1>1, <1>2, <1>3, AggregateStep, WorkerImplementsLifecycle, PTL
     DEF LifecycleSpec, Lifecycle!Spec, DriverKept, Lifecycle!AssignedDriverIsFinal
=============================================================================
