---------------------------- MODULE GoFleetProofs ----------------------------
(***************************************************************************)
(* Proofs about the composition.  The pipeline implements the API and the  *)
(* relay, so that what is proved of either holds in it.  It does not       *)
(* implement the worker alone, whose queue is filled once and for all:     *)
(* here an event arrives when it is published, and the worker's invariants *)
(* are shown to survive an arrival.                                        *)
(***************************************************************************)
EXTENDS GoFleet, TLAPS

Cust == INSTANCE CreateOrderProofs WITH Ids <- Orders, Faults <- ApiFaults, pc <- request
Out  == INSTANCE OutboxProofs WITH Events <- Orders, Relays <- {Replica},
                                   BoundAtStart <- TRUE, Faults <- RelayFaults
Del  == INSTANCE ConsumerDeliveryProofs WITH Backlog <- {}, Faults <- WorkerFaults

-----------------------------------------------------------------------------
(***************************************************************************)
(* The components are the ones the proofs are about.                       *)
(***************************************************************************)
LEMMA ApiIsProved ==
  /\ Cust!CreateAssumption
  /\ Api!TypeOK <=> Cust!TypeOK
  /\ Api!Init => Cust!Init
  /\ Api!Next => Cust!Next
  /\ UNCHANGED Api!vars => UNCHANGED Cust!vars
  /\ Accepted = {e.order : e \in Cust!Committed(outbox)}
<1>1. Cust!CreateAssumption
  BY CompositionAssumption
     DEF CompositionAssumption, Api!CreateAssumption, Cust!CreateAssumption, Api!FaultKinds, Cust!FaultKinds
<1>2. Api!TypeOK <=> Cust!TypeOK
  BY DEF Api!TypeOK, Cust!TypeOK, Api!InTx, Cust!InTx, Api!Steps, Cust!Steps, Api!Input, Cust!Input
<1>3. Api!Init => Cust!Init
  BY DEF Api!Init, Cust!Init
<1>4. Api!Next => Cust!Next
  BY Zenon DEF Api!Next, Api!Decode, Api!Handle, Api!Disconnect, Api!ContextEnds, Api!Crash,
     Api!Failures, Api!NewOrder, Api!BeginTx, Api!Save, Api!SaveOutboxEvent, Api!Rollback, Api!Commit,
     Api!Goto, Api!Answer, Api!Input, Api!Valid, Api!FinalPrice, Api!Cents, Api!Fits, Api!SameId,
     Api!Committed, Api!EventFinal, Api!RollbackOf, Api!OrdersWithout, Api!Ended,
     Api!AfterCommitError, Api!Running, Api!LeftToContext,
     Cust!Next, Cust!Decode, Cust!Handle, Cust!Disconnect, Cust!ContextEnds, Cust!Crash,
     Cust!Failures, Cust!NewOrder, Cust!BeginTx, Cust!Save, Cust!SaveOutboxEvent, Cust!Rollback,
     Cust!Commit, Cust!Goto, Cust!Answer, Cust!Input, Cust!Valid, Cust!FinalPrice, Cust!Cents,
     Cust!Fits, Cust!SameId, Cust!Committed, Cust!EventFinal, Cust!RollbackOf, Cust!OrdersWithout,
     Cust!Ended, Cust!AfterCommitError, Cust!Running, Cust!LeftToContext
<1>5. UNCHANGED Api!vars => UNCHANGED Cust!vars
  BY DEF Api!vars, Cust!vars
<1>6. Accepted = {e.order : e \in Cust!Committed(outbox)}
  BY DEF Accepted, Api!Committed, Cust!Committed
<1> QED
  BY <1>1, <1>2, <1>3, <1>4, <1>5, <1>6

LEMMA RelayIsProved ==
  /\ Out!OutboxAssumption
  /\ Relay!TypeOK <=> Out!TypeOK
  /\ Relay!Init => Out!Init
  /\ Relay!Next => Out!Next
  /\ UNCHANGED Relay!vars => UNCHANGED Out!vars
<1>1. Out!OutboxAssumption
  BY CompositionAssumption
     DEF CompositionAssumption, Relay!OutboxAssumption, Out!OutboxAssumption, Relay!FaultKinds, Out!FaultKinds,
         Relay!IsFiniteSet, Out!IsFiniteSet
<1>2. Relay!TypeOK <=> Out!TypeOK
  BY DEF Relay!TypeOK, Out!TypeOK, Relay!RowStatus, Out!RowStatus, Relay!Batch, Out!Batch,
         Relay!Cardinality, Out!Cardinality, Relay!IsFiniteSet, Out!IsFiniteSet
<1>3. Relay!Init => Out!Init
  BY DEF Relay!Init, Out!Init
<1>4. Relay!Next => Out!Next
  BY Zenon DEF Relay!Next, Relay!Create, Relay!Age, Relay!Fetch, Relay!ClaimCommit, Relay!ClaimFails,
     Relay!Crash, Relay!Work, Relay!Publish, Relay!MarkPublished, Relay!MarkFailed, Relay!Mark,
     Relay!Rescue, Relay!Cleanup, Relay!Bind, Relay!Fault, Relay!SetStatus, Relay!MaybeSetStatus,
     Relay!Locked, Relay!Batch, Relay!Assign, Relay!Advance, Relay!Pickable, Relay!FitsBatch,
     Relay!AfterRefusal, Relay!Busy, Relay!Rescued, Relay!Cardinality, Relay!IsFiniteSet,
     Out!Next, Out!Create, Out!Age, Out!Fetch, Out!ClaimCommit, Out!ClaimFails,
     Out!Crash, Out!Work, Out!Publish, Out!MarkPublished, Out!MarkFailed, Out!Mark,
     Out!Rescue, Out!Cleanup, Out!Bind, Out!Fault, Out!SetStatus, Out!MaybeSetStatus,
     Out!Locked, Out!Batch, Out!Assign, Out!Advance, Out!Pickable, Out!FitsBatch,
     Out!AfterRefusal, Out!Busy, Out!Rescued, Out!Cardinality, Out!IsFiniteSet
<1>5. UNCHANGED Relay!vars => UNCHANGED Out!vars
  BY DEF Relay!vars, Out!vars
<1> QED
  BY <1>1, <1>2, <1>3, <1>4, <1>5

LEMMA WorkerIsProved ==
  /\ Del!ConsumerAssumption
  /\ Worker!TypeOK <=> Del!TypeOK
  /\ Worker!Init => Del!Init
  /\ Worker!Next => Del!Next
  /\ UNCHANGED Worker!vars => UNCHANGED Del!vars
<1>1. Del!ConsumerAssumption
  BY CompositionAssumption
     DEF CompositionAssumption, Worker!ConsumerAssumption, Del!ConsumerAssumption,
         Worker!FaultKinds, Del!FaultKinds
<1>2. Worker!TypeOK <=> Del!TypeOK
  BY DEF Worker!TypeOK, Del!TypeOK, Worker!Row, Del!Row, Worker!Status, Del!Status, Worker!Steps, Del!Steps,
     Worker!Guarded, Del!Guarded, Worker!InBreaker, Del!InBreaker
<1>3. Worker!Init => Del!Init
  BY DEF Worker!Init, Del!Init
<1>4. Worker!Next => Del!Next
  BY Zenon DEF Worker!Next, Worker!Handle, Worker!GuardSetNX, Worker!Admit, Worker!IdemSetNX,
     Worker!SearchDriver, Worker!FindOrder, Worker!UpdateOrder, Worker!DelIdem, Worker!DelDedup,
     Worker!Backoff, Worker!FallbackFind, Worker!FallbackUpdate, Worker!NackToWait, Worker!Park,
     Worker!ParkFails, Worker!Ack, Worker!Timeout, Worker!Resend, Worker!Panic, Worker!Deliver, Worker!WaitExpire,
     Worker!BreakerTimeout, Worker!LoseChannel, Worker!BeginShutdown, Worker!Exit, Worker!Start,
     Worker!Key, Worker!Open, Worker!Cancelled, Worker!CtxDone, Worker!Goto, Worker!FailWith,
     Worker!Write, Worker!Tell, Worker!Finish, Worker!Failure, Worker!Success, Worker!Report,
     Worker!KeyFree, Worker!Dispatchable, Worker!WithoutIdem, Worker!WithoutDedup,
     Worker!MoreAttempts, Worker!Exhausted, Worker!Rejected, Worker!Requeue, Worker!InBreaker,
     Worker!DispatchFrom, Worker!SendToManualFrom, Worker!redisVars, Worker!brokerVars, Worker!procVars,
     Del!Next, Del!Handle, Del!GuardSetNX, Del!Admit, Del!IdemSetNX,
     Del!SearchDriver, Del!FindOrder, Del!UpdateOrder, Del!DelIdem, Del!DelDedup,
     Del!Backoff, Del!FallbackFind, Del!FallbackUpdate, Del!NackToWait, Del!Park,
     Del!ParkFails, Del!Ack, Del!Timeout, Del!Resend, Del!Panic, Del!Deliver, Del!WaitExpire,
     Del!BreakerTimeout, Del!LoseChannel, Del!BeginShutdown, Del!Exit, Del!Start,
     Del!Key, Del!Open, Del!Cancelled, Del!CtxDone, Del!Goto, Del!FailWith,
     Del!Write, Del!Tell, Del!Finish, Del!Failure, Del!Success, Del!Report,
     Del!KeyFree, Del!Dispatchable, Del!WithoutIdem, Del!WithoutDedup,
     Del!MoreAttempts, Del!Exhausted, Del!Rejected, Del!Requeue, Del!InBreaker,
     Del!DispatchFrom, Del!SendToManualFrom, Del!redisVars, Del!brokerVars, Del!procVars
<1>5. UNCHANGED Worker!vars => UNCHANGED Del!vars
  BY DEF Worker!vars, Del!vars, Worker!redisVars, Del!redisVars, Worker!brokerVars, Del!brokerVars,
     Worker!procVars, Del!procVars
<1> QED
  BY <1>1, <1>2, <1>3, <1>4, <1>5

-----------------------------------------------------------------------------
(***************************************************************************)
(* What a step of the pipeline is for each of its parts.                   *)
(***************************************************************************)
LEMMA ApiStep == [Next]_vars => [Cust!Next]_(Cust!vars)
<1> SUFFICES ASSUME [Next]_vars PROVE Api!Next \/ UNCHANGED Api!vars
  BY ApiIsProved
<1>1. CASE ApiCrash
  BY <1>1 DEF ApiCrash, Api!Next, apiVars, Api!vars
<1>2. ASSUME NEW r \in Requests, Serve(r) PROVE Api!Next
  BY <1>2 DEF Serve, Api!Next
<1>3. CASE UNCHANGED apiVars
  BY <1>3 DEF apiVars, Api!vars
<1> QED
  BY <1>1, <1>2, <1>3 DEF Next, Forward, Publish, OfRelay, OfWorker, OfFleet, Work, Deliver, WaitExpire, vars

\* The rows that are created are those of accepted orders.
LEMMA RelayStep ==
  ASSUME Cust!TypeOK', [Next]_vars
  PROVE  [Out!Next]_(Out!vars)
<1> SUFFICES Relay!Next \/ UNCHANGED Relay!vars
  BY RelayIsProved
<1>1. CASE ApiCrash
  BY <1>1 DEF ApiCrash, Relay!Next
<1>2. ASSUME NEW r \in Requests, Serve(r) PROVE Relay!Next \/ UNCHANGED Relay!vars
  <2>1. CASE UNCHANGED relayVars
    BY <2>1 DEF relayVars, Relay!vars
  <2>2. ASSUME NEW o \in NewlyAccepted, Relay!Create(o) PROVE Relay!Next
    <3>1. o \in Orders
      BY <2>2, ApiIsProved DEF NewlyAccepted, Accepted, Api!Committed, Cust!TypeOK
    <3> QED
      BY <2>2, <3>1 DEF Relay!Next
  <2> QED
    BY <1>2, <2>1, <2>2 DEF Serve
<1>3. CASE OfRelay(Tend) \/ OfRelay(Relay!Cleanup) \/ \E o \in Orders : Publish(o)
  BY <1>3 DEF OfRelay, Tend, Publish, Relay!Next, Relay!Work
<1>4. CASE UNCHANGED relayVars
  BY <1>4 DEF relayVars, Relay!vars
<1> QED
  BY <1>1, <1>2, <1>3, <1>4 DEF Next, Forward, OfWorker, OfFleet, Work, Deliver, WaitExpire, vars

\* A copy of an event arrives in the queue.
Arrival(m) ==
  /\ Unused(m)
  /\ queue' = [queue EXCEPT ![m] = "main"]
  /\ deaths' = [deaths EXCEPT ![m] = 0]
  /\ UNCHANGED <<row, dedup, idem, parked, pc, msg, attempt, err, drv, late, proc, chan, breaker>>

LEMMA WorkerStep ==
  ASSUME [Next]_vars
  PROVE  \/ [Del!Next]_(Del!vars)
         \/ \E o \in Orders, m \in Msgs : Publish(o) /\ Arrives(o) /\ MsgOrder[m] = o /\ Arrival(m)
<1>1. SUFFICES \/ Worker!Next
               \/ UNCHANGED Worker!vars
               \/ \E o \in Orders, m \in Msgs :
                     Publish(o) /\ Arrives(o) /\ MsgOrder[m] = o /\ Arrival(m)
  BY WorkerIsProved
<1>2. CASE UNCHANGED workerVars
  BY <1>2 DEF workerVars, Worker!vars, Worker!redisVars, Worker!brokerVars, Worker!procVars
<1>3. ASSUME NEW t \in Threads, Work(t) PROVE Worker!Next
  BY <1>3 DEF Work, OfWorker, Worker!Next
<1>4. ASSUME NEW m \in Msgs, Deliver(m) \/ WaitExpire(m) PROVE Worker!Next
  BY <1>4 DEF Deliver, WaitExpire, OfWorker, Worker!Next
<1>5. CASE OfWorker(ProcessLife)
  BY <1>5 DEF ProcessLife, OfWorker, Worker!Next
<1>6. ASSUME NEW o \in Orders, Publish(o)
      PROVE  \/ UNCHANGED workerVars
             \/ \E m \in Msgs : Arrives(o) /\ MsgOrder[m] = o /\ Arrival(m)
  <2>1. CASE ~Arrives(o) /\ UNCHANGED <<queue, deaths>>
    BY <1>6, <2>1 DEF Publish, workerVars
  <2>2. CASE Arrives(o)
    <3>1. PICK m \in Copies(o) : /\ Unused(m)
                                 /\ queue' = [queue EXCEPT ![m] = "main"]
                                 /\ deaths' = [deaths EXCEPT ![m] = 0]
      BY <1>6, <2>2 DEF Publish
    <3> QED
      BY <1>6, <2>2, <3>1 DEF Publish, Arrival, Copies
  <2> QED
    BY <1>6, <2>1, <2>2 DEF Publish
<1> QED
  BY <1>2, <1>3, <1>4, <1>5, <1>6
     DEF Next, ApiCrash, Serve, Forward, OfRelay, OfFleet, vars

(***************************************************************************)
(* The pipeline implements its API process and its relay: nothing the      *)
(* others do disturbs them, and whoever writes an outbox row has committed *)
(* it in the unit of work.                                                 *)
(***************************************************************************)
THEOREM ApiImplemented == Spec => Cust!Spec
<1>1. Init => Cust!Init
  BY ApiIsProved DEF Init
<1> QED
  BY <1>1, ApiStep, PTL DEF Spec, Cust!Spec

LEMMA ApiInv == Spec => []Cust!IInv
BY ApiImplemented, ApiIsProved, Cust!Invariant, PTL

THEOREM RelayImplemented == Spec => Out!Spec
<1>1. Init => Out!Init
  BY RelayIsProved DEF Init
<1>2. Cust!IInv' /\ [Next]_vars => [Out!Next]_(Out!vars)
  BY RelayStep DEF Cust!IInv
<1> QED
  BY <1>1, <1>2, ApiInv, PTL DEF Spec, Out!Spec

LEMMA WorkerType ==
  ASSUME Del!TypeOK, [Next]_vars
  PROVE  Del!TypeOK'
<1>1. ASSUME NEW m \in Msgs, Arrival(m) PROVE Del!TypeOK'
  BY <1>1 DEF Arrival, Del!TypeOK
<1> QED
  BY <1>1, WorkerStep, WorkerIsProved, Del!TypeStep

LEMMA FleetType ==
  ASSUME Fleet!TypeOK, [Next]_vars
  PROVE  Fleet!TypeOK'
<1>1. CASE OfFleet(Fleet!Start)
  BY <1>1 DEF OfFleet, Fleet!Start, Fleet!TypeOK
<1>2. CASE OfFleet(Fleet!Stop)
  BY <1>2 DEF OfFleet, Fleet!Stop, Fleet!TypeOK
<1>3. CASE UNCHANGED fleetVars
  BY <1>3 DEF fleetVars, Fleet!TypeOK
<1> QED
  BY <1>1, <1>2, <1>3 DEF Next, ApiCrash, Serve, Forward, Publish, OfRelay, OfWorker, OfFleet, Work,
     Deliver, WaitExpire, vars

(***************************************************************************)
(* Every variable of every component keeps its type, where they act on     *)
(* each other too.                                                         *)
(***************************************************************************)
LEMMA WorkerTyped == Spec => []Del!TypeOK
<1>1. Init => Del!TypeOK
  BY WorkerIsProved, Del!TypeInit DEF Init
<1> QED
  BY <1>1, WorkerType, PTL DEF Spec

THEOREM TypeCorrect == Spec => []TypeOK
<1>1. Init => Fleet!TypeOK
  BY DEF Init, Fleet!Init, Fleet!TypeOK
<1>2. Cust!IInv /\ Out!TypeOK /\ Del!TypeOK /\ Fleet!TypeOK => TypeOK
  BY ApiIsProved, RelayIsProved, WorkerIsProved DEF TypeOK, Cust!IInv
<1>3. Spec => []Out!TypeOK
  BY RelayImplemented, RelayIsProved, Out!TypeCorrect, PTL
<1> QED
  BY <1>1, <1>2, <1>3, FleetType, ApiInv, WorkerTyped, PTL DEF Spec

-----------------------------------------------------------------------------
(***************************************************************************)
(* Acceptance comes first.  Before the commit of the unit of work an order *)
(* is unknown to the relay and to the worker, and a commit is never taken  *)
(* back.                                                                   *)
(***************************************************************************)
Unknown(o) == status[o] = "absent" /\ job[Replica][o] = "none"

AcceptedFirst ==
  \A o \in Orders : o \in Accepted \/ (Unknown(o) /\ Del!Untouched(o))

LEMMA AcceptedGrows ==
  ASSUME Cust!IInv, [Next]_vars
  PROVE  Accepted \subseteq Accepted'
<1>1. Cust!Committed(outbox) \subseteq Cust!Committed(outbox)'
  BY ApiStep, ApiIsProved, Cust!CommittedStays
<1>2. /\ Accepted = {e.order : e \in Cust!Committed(outbox)}
      /\ Accepted' = {e.order : e \in Cust!Committed(outbox)'}
  BY ApiIsProved DEF Accepted, Api!Committed, Cust!Committed
<1> QED
  BY <1>1, <1>2

\* The relay learns of a row when it is created, and not before.
LEMMA UnknownStep ==
  ASSUME Out!TypeOK, [Next]_vars, NEW o \in Orders, Unknown(o), o \notin Accepted'
  PROVE  Unknown(o)'
<1>1. CASE ApiCrash
  BY <1>1 DEF ApiCrash, Relay!Crash, Relay!Assign, Unknown, Out!TypeOK
<1>2. ASSUME NEW r \in Requests, Serve(r) PROVE Unknown(o)'
  <2>1. CASE UNCHANGED relayVars
    BY <2>1 DEF relayVars, Unknown
  <2>2. ASSUME NEW x \in NewlyAccepted, Relay!Create(x) PROVE Unknown(o)'
    BY <2>2 DEF NewlyAccepted, Relay!Create, Unknown, Out!TypeOK
  <2> QED
    BY <1>2, <2>1, <2>2 DEF Serve
<1>3. CASE Relay!Fetch(Replica)
  BY <1>3 DEF Relay!Fetch, Relay!Pickable, Relay!Assign, Unknown, Out!TypeOK
<1>4. CASE Relay!ClaimCommit(Replica) \/ Relay!ClaimFails(Replica)
  BY <1>4 DEF Relay!ClaimCommit, Relay!ClaimFails, Relay!MaybeSetStatus, Relay!SetStatus, Relay!Batch,
     Relay!Assign, Unknown, Out!TypeOK
<1>5. ASSUME NEW x \in Orders, Relay!MarkPublished(Replica, x) \/ Relay!MarkFailed(Replica, x)
      PROVE  Unknown(o)'
  BY <1>5 DEF Relay!MarkPublished, Relay!MarkFailed, Relay!Mark, Relay!MaybeSetStatus,
     Relay!SetStatus, Relay!Advance, Unknown, Out!TypeOK
<1>6. ASSUME NEW x \in Orders, Publish(x) PROVE Unknown(o)'
  <2>1. /\ job[Replica][x] = "publish" /\ UNCHANGED status
        /\ \E next : Relay!Advance(Replica, x, next)
    BY <1>6 DEF Publish, Relay!Publish
  <2> QED
    BY <2>1 DEF Relay!Advance, Unknown, Out!TypeOK
<1>7. CASE Relay!Rescue \/ Relay!Cleanup
  BY <1>7 DEF Relay!Rescue, Relay!Rescued, Relay!Cleanup, Relay!SetStatus, Unknown, Out!TypeOK
<1>8. CASE (\E x \in Orders : Relay!Age(x)) \/ UNCHANGED relayVars
  BY <1>8 DEF Relay!Age, relayVars, Unknown
<1> QED
  BY <1>1, <1>2, <1>3, <1>4, <1>5, <1>6, <1>7, <1>8
     DEF Next, Forward, Tend, OfRelay, OfWorker, OfFleet, Work, Deliver, WaitExpire, vars

\* The worker learns of an order when a relay that has its row publishes it.
LEMMA AcceptedFirstStep ==
  ASSUME Cust!IInv, Out!TypeOK, Del!TypeOK, AcceptedFirst, [Next]_vars
  PROVE  AcceptedFirst'
<1> SUFFICES ASSUME NEW o \in Orders, o \notin Accepted'
             PROVE  Unknown(o)' /\ Del!Untouched(o)'
  BY DEF AcceptedFirst
<1>1. Unknown(o) /\ Del!Untouched(o)
  BY AcceptedGrows DEF AcceptedFirst
<1>2. Unknown(o)'
  BY <1>1, UnknownStep
<1>3. ASSUME NEW x \in Orders, NEW m \in Msgs, Publish(x), MsgOrder[m] = x, Arrival(m)
      PROVE  Del!Untouched(o)'
  <2>1. x # o
    BY <1>1, <1>3 DEF Publish, Relay!Publish, Unknown
  <2> QED
    BY <1>1, <1>3, <2>1 DEF Arrival, Del!Untouched, Del!Key, Del!TypeOK
<1>4. CASE [Del!Next]_(Del!vars)
  BY <1>1, <1>2, <1>4, WorkerIsProved, Del!UntouchedStep
<1> QED
  BY <1>2, <1>3, <1>4, WorkerStep

(***************************************************************************)
(* Nothing is done for an order the API has not committed: not in          *)
(* RabbitMQ, not in Redis and not in its row, with any faults anywhere.    *)
(***************************************************************************)
THEOREM NothingBeforeAcceptance == Spec => []OnlyAcceptedOrders
<1> USE WorkerIsProved DEF Del!ConsumerAssumption
<1>1. Init => AcceptedFirst
  BY DEF Init, Relay!Init, Worker!Init, AcceptedFirst, Unknown, Del!Untouched
<1>2. AcceptedFirst /\ Del!TypeOK => OnlyAcceptedOrders
  BY DEF AcceptedFirst, Del!Untouched, Del!TypeOK, OnlyAcceptedOrders
<1>3. Spec => []Out!TypeOK
  BY RelayImplemented, RelayIsProved, Out!TypeCorrect, PTL
<1>4. Cust!IInv /\ Out!TypeOK /\ Del!TypeOK /\ AcceptedFirst /\ [Next]_vars => AcceptedFirst'
  BY AcceptedFirstStep
<1> QED
  BY <1>1, <1>2, <1>3, <1>4, ApiInv, WorkerTyped, PTL DEF Spec

-----------------------------------------------------------------------------
(***************************************************************************)
(* What the worker promises whatever fails holds in the pipeline too: a    *)
(* copy that arrives is in nobody's hands and starts a new budget.  The    *)
(* lock of the guard, and with it the fresh dispatch, needs a Redis client *)
(* that does not repeat a command; agreement and budget need nothing.      *)
(***************************************************************************)
WorkerSound == Del!BudgetInv /\ Del!Drafts /\ Del!DriverIffDispatched
WorkerFresh == Del!GuardExclusive /\ Del!DispatchNotStale

LEMMA WorkerSoundStep ==
  ASSUME Del!TypeOK, WorkerSound, [Next]_vars
  PROVE  WorkerSound'
<1>1. CASE [Del!Next]_(Del!vars)
  <2>1. Del!BudgetInv'
    BY <1>1, WorkerIsProved, Del!BudgetStep DEF WorkerSound
  <2>2. Del!Drafts' /\ Del!DriverIffDispatched'
    BY <1>1, WorkerIsProved, Del!DraftsStep DEF WorkerSound
  <2> QED
    BY <2>1, <2>2 DEF WorkerSound
<1>2. ASSUME NEW m \in Msgs, Arrival(m) PROVE WorkerSound'
  <2>1. Del!Drafts' /\ Del!DriverIffDispatched'
    BY <1>2 DEF Arrival, WorkerSound, Del!Drafts, Del!DriverIffDispatched,
       Del!Lifecycle!DriverMatchesStatus, Del!Key
  <2>2. Del!BudgetInv'
    <3>1. MaxRetries \in Nat
      BY WorkerIsProved DEF Del!ConsumerAssumption
    <3> QED
      BY <1>2, <3>1 DEF Arrival, Unused, WorkerSound, Del!BudgetInv, Del!TypeOK
  <2> QED
    BY <2>1, <2>2 DEF WorkerSound
<1> QED
  BY <1>1, <1>2, WorkerStep

LEMMA WorkerFreshStep ==
  ASSUME Del!NothingResent, Del!TypeOK, WorkerFresh, [Next]_vars
  PROVE  WorkerFresh'
<1>1. CASE [Del!Next]_(Del!vars)
  <2>1. Del!GuardExclusive'
    BY <1>1, WorkerIsProved, Del!HandleExclusive, Del!EnvironmentExclusive DEF WorkerFresh
  <2>2. Del!DispatchNotStale'
    BY <1>1, WorkerIsProved, Del!FindOrderFresh, Del!UpdateOrderFresh, Del!FallbackUpdateFresh,
       Del!OtherFresh DEF WorkerFresh
  <2> QED
    BY <2>1, <2>2 DEF WorkerFresh
<1>2. ASSUME NEW m \in Msgs, Arrival(m) PROVE WorkerFresh'
  BY <1>2 DEF Arrival, WorkerFresh, Del!GuardExclusive, Del!DispatchNotStale, Del!Key
<1> QED
  BY <1>1, <1>2, WorkerStep

LEMMA WorkerIsSound == Spec => []WorkerSound
<1>1. Init => WorkerSound
  <2>1. Init => Del!Init
    BY WorkerIsProved DEF Init
  <2>2. Del!Init => WorkerSound
    BY WorkerIsProved, Del!DraftsInit
       DEF WorkerSound, Del!Init, Del!BudgetInv, Del!ConsumerAssumption
  <2> QED
    BY <2>1, <2>2
<1> QED
  BY <1>1, WorkerSoundStep, WorkerTyped, PTL DEF Spec

LEMMA WorkerIsFresh ==
  ASSUME Del!NothingResent
  PROVE  Spec => []WorkerFresh
<1>1. Init => WorkerFresh
  <2>1. Init => Del!Init
    BY WorkerIsProved DEF Init
  <2>2. Del!Init => WorkerFresh
    BY DEF WorkerFresh, Del!Init, Del!GuardExclusive, Del!DispatchNotStale, Del!Guarded, Del!InBreaker
  <2> QED
    BY <2>1, <2>2
<1>2. Del!TypeOK /\ WorkerFresh /\ [Next]_vars => WorkerFresh'
  BY WorkerFreshStep
<1> QED
  BY <1>1, <1>2, WorkerTyped, PTL DEF Spec

(***************************************************************************)
(* The agreement of status and driver and the retry budget survive the     *)
(* composition, where events are published, lost and published again while *)
(* the worker runs, is told to stop, dies and is started again, with any   *)
(* faults in any of the services.                                          *)
(***************************************************************************)
THEOREM WorkerStaysSound == Spec => [](Worker!DriverIffDispatched /\ Worker!RetryBudget)
<1>1. WorkerSound => Worker!DriverIffDispatched /\ Worker!RetryBudget
  BY DEF WorkerSound, Del!DriverIffDispatched, Worker!DriverIffDispatched,
     Del!Lifecycle!DriverMatchesStatus, Worker!Lifecycle!DriverMatchesStatus,
     Del!BudgetInv, Worker!RetryBudget
<1> QED
  BY <1>1, WorkerIsSound, PTL

(***************************************************************************)
(* So do the lock of the guard and the dispatch that is not stale, with    *)
(* any faults in any of the services but one: a Redis client that sends a  *)
(* command again whose reply was lost takes the lock away.                 *)
(***************************************************************************)
THEOREM WorkerStaysFresh ==
  ASSUME "resend" \notin WorkerFaults
  PROVE  Spec => [](Worker!GuardExclusive /\ Worker!DispatchNotStale)
<1>1. WorkerFresh => Worker!GuardExclusive /\ Worker!DispatchNotStale
  BY DEF WorkerFresh, Del!GuardExclusive, Worker!GuardExclusive, Del!DispatchNotStale,
     Worker!DispatchNotStale, Del!Key, Worker!Key, Del!Guarded, Worker!Guarded,
     Del!InBreaker, Worker!InBreaker, Del!DispatchFrom, Worker!DispatchFrom
<1>2. Del!NothingResent
  BY DEF Del!NothingResent
<1> QED
  BY <1>1, <1>2, WorkerIsFresh, PTL

-----------------------------------------------------------------------------
(***************************************************************************)
(* Handed over without a gap.  The chain: a commit writes the row the      *)
(* relay works on; the relay lets go of a row only when its event is in    *)
(* the queue (Outbox); and an event that is in the queue is in hand until  *)
(* its order is settled (Consumer).                                        *)
(***************************************************************************)
WorkerReliable == WorkerFaults \cap {"redis", "resend", "slow", "crash", "shutdown", "conn"} = {}
RelayReliable  == RelayFaults \cap {"conn", "broker"} = {}

CommittedIsWritten == \A o \in Accepted : status[o] # "absent"
QueuedIsInHand == \A o \in queued : Del!InHand(o)

\* One step commits the row of one order, and that row is created with it.
LEMMA CommittedIsWrittenStep ==
  ASSUME Cust!IInv, Out!TypeOK, CommittedIsWritten, [Next]_vars
  PROVE  CommittedIsWritten'
<1> SUFFICES ASSUME NEW o \in Accepted' PROVE status'[o] # "absent"
  BY DEF CommittedIsWritten
<1>1. o \in Orders
  BY ApiStep, ApiIsProved, Cust!NextInv
     DEF Accepted, Api!Committed, Cust!IInv, Cust!TypeOK
<1>2. CASE o \in Accepted
  <2>1. status[o] # "absent"
    BY <1>2 DEF CommittedIsWritten
  <2>2. ASSUME NEW S, NEW s \in Relay!RowStatus \ {"absent"}, Relay!MaybeSetStatus(S, s)
        PROVE  status'[o] # "absent"
    BY <1>1, <2>1, <2>2 DEF Relay!MaybeSetStatus, Relay!SetStatus
  <2>3. ASSUME NEW x \in Orders, Relay!Create(x) PROVE status'[o] # "absent"
    BY <1>1, <2>1, <2>3 DEF Relay!Create, Out!TypeOK
  <2>4. CASE Tend \/ Relay!Cleanup
    <3>1. CASE Relay!Fetch(Replica) \/ \E x \in Orders : Relay!Age(x)
      BY <2>1, <3>1 DEF Relay!Fetch, Relay!Age
    <3>2. CASE Relay!ClaimCommit(Replica) \/ Relay!ClaimFails(Replica)
      BY <2>2, <3>2 DEF Relay!ClaimCommit, Relay!ClaimFails, Relay!MaybeSetStatus, Relay!RowStatus
    <3>3. ASSUME NEW x \in Orders, Relay!MarkPublished(Replica, x) \/ Relay!MarkFailed(Replica, x)
          PROVE  status'[o] # "absent"
      BY <2>2, <3>3 DEF Relay!MarkPublished, Relay!MarkFailed, Relay!Mark, Relay!MaybeSetStatus,
         Relay!RowStatus
    <3>4. CASE Relay!Rescue \/ Relay!Cleanup
      BY <2>2, <3>4 DEF Relay!Rescue, Relay!Cleanup, Relay!MaybeSetStatus, Relay!RowStatus
    <3> QED
      BY <2>4, <3>1, <3>2, <3>3, <3>4 DEF Tend
  <2>5. CASE UNCHANGED status
    BY <2>1, <2>5
  <2>6. NewlyAccepted \subseteq Orders
    BY ApiStep, ApiIsProved, Cust!NextInv
       DEF NewlyAccepted, Accepted, Api!Committed, Cust!IInv, Cust!TypeOK
  <2> QED
    BY <2>3, <2>4, <2>5, <2>6 DEF Next, ApiCrash, Serve, Forward, Publish, OfRelay, OfWorker, OfFleet,
       Work, Deliver, WaitExpire, Relay!Crash, Relay!Publish, relayVars, vars
<1>3. CASE o \notin Accepted
  <2>1. o \in NewlyAccepted
    BY <1>3 DEF NewlyAccepted
  <2>2. ~UNCHANGED apiVars /\ ~ApiCrash
    <3>1. CASE UNCHANGED apiVars
      BY <1>3, <3>1 DEF apiVars, Accepted, Api!Committed
    <3>2. CASE Api!Crash
      BY <1>3, <3>2 DEF Api!Crash, Api!RollbackOf, Api!Ended, Accepted, Api!Committed
    <3> QED
      BY <3>1, <3>2 DEF ApiCrash
  <2>3. PICK x \in NewlyAccepted : Relay!Create(x)
    BY <2>1, <2>2 DEF Next, Serve, Forward, Publish, OfRelay, OfWorker, OfFleet, Work, Deliver,
       WaitExpire, vars
  <2>4. x = o
    <3>1. \/ Cust!Committed(outbox)' \subseteq Cust!Committed(outbox)
          \/ \E r \in Requests : \A e \in Cust!Committed(outbox)' :
                e \in Cust!Committed(outbox) \/ e.order = input[r].id
      BY ApiStep, ApiIsProved, Cust!CommittedByOne
    <3>2. /\ Accepted = {e.order : e \in Cust!Committed(outbox)}
          /\ Accepted' = {e.order : e \in Cust!Committed(outbox)'}
      BY ApiIsProved DEF Accepted, Api!Committed, Cust!Committed
    <3> QED
      BY <2>1, <3>1, <3>2 DEF NewlyAccepted
  <2> QED
    BY <1>1, <2>3, <2>4 DEF Relay!Create, Out!TypeOK
<1> QED
  BY <1>2, <1>3

\* The worker's invariants survive the arrival of a copy nobody has.
WorkerInv == Del!GuardExclusive /\ Del!Holding /\ Del!Kept

LEMMA WorkerInvStep ==
  ASSUME WorkerReliable, Del!TypeOK, WorkerInv, [Next]_vars
  PROVE  WorkerInv'
<1>1. Del!Reliable /\ Del!LastingChannels /\ Del!NothingResent
  BY DEF WorkerReliable, Del!Reliable, Del!LastingChannels, Del!NothingResent
<1>2. CASE [Del!Next]_(Del!vars)
  <2>1. Del!GuardExclusive'
    BY <1>1, <1>2, WorkerIsProved, Del!HandleExclusive, Del!EnvironmentExclusive DEF WorkerInv
  <2>2. Del!Holding'
    BY <1>1, <1>2, WorkerIsProved, Del!HoldingStep DEF WorkerInv
  <2>3. Del!Kept'
    BY <1>1, <1>2, WorkerIsProved, Del!KeptStep DEF WorkerInv
  <2> QED
    BY <2>1, <2>2, <2>3 DEF WorkerInv
<1>3. ASSUME NEW m \in Msgs, Arrival(m) PROVE WorkerInv'
  <2>1. Del!GuardExclusive' /\ Del!Kept'
    BY <1>3 DEF Arrival, WorkerInv, Del!GuardExclusive, Del!Key, Del!Kept, Del!Calm,
       Del!DedupHandled, Del!IdemHandled, Del!Settled
  <2>2. Del!Holding'
    BY <1>3 DEF Arrival, Unused, WorkerInv, Del!Holding, Del!Open, Del!TypeOK
  <2> QED
    BY <2>1, <2>2 DEF WorkerInv
<1> QED
  BY <1>2, <1>3, WorkerStep

\* A publish that the relay counts as done has put a copy into the queue.
LEMMA QueuedIsInHandStep ==
  ASSUME WorkerReliable, RelayReliable, Cust!IInv, Out!TypeOK, Del!TypeOK, WorkerInv,
         QueuedIsInHand, [Next]_vars
  PROVE  QueuedIsInHand'
<1> SUFFICES ASSUME NEW o \in queued' PROVE Del!InHand(o)'
  BY DEF QueuedIsInHand
<1>1. ASSUME NEW m \in Msgs, Arrival(m) PROVE Del!Alive(m)'
  BY <1>1 DEF Arrival, Unused, Del!Alive, Del!Acking, Del!TypeOK
<1>2. CASE o \in queued
  <2>1. o \in Orders /\ Del!InHand(o)
    BY <1>2 DEF QueuedIsInHand, Out!TypeOK
  <2>2. CASE [Del!Next]_(Del!vars)
    <3>1. Del!Reliable
      BY DEF WorkerReliable, Del!Reliable
    <3> QED
      BY <2>1, <2>2, <3>1, WorkerIsProved, Del!InHandStep DEF WorkerInv
  <2>3. ASSUME NEW m \in Msgs, Arrival(m) PROVE Del!InHand(o)'
    <3>1. ASSUME NEW k \in Msgs, Del!Alive(k) PROVE Del!Alive(k)'
      BY <1>1, <2>3, <3>1 DEF Arrival, Del!Alive, Del!Acking, Del!TypeOK
    <3> QED
      BY <2>1, <2>3, <3>1 DEF Arrival, Del!InHand, Del!Settled
  <2> QED
    BY <2>2, <2>3, WorkerStep
<1>3. CASE o \notin queued
  <2>1. Publish(o) /\ Arrives(o)
    <3>1. PICK x \in Orders : Publish(x)
      BY <1>3 DEF Next, ApiCrash, Serve, Forward, Tend, OfRelay, OfWorker, OfFleet, Work, Deliver,
         WaitExpire, vars, relayVars, Relay!Crash, Relay!Create, Relay!Fetch, Relay!ClaimCommit,
         Relay!ClaimFails, Relay!MarkPublished, Relay!MarkFailed, Relay!Mark, Relay!Age,
         Relay!Rescue, Relay!Cleanup
    <3>2. /\ queued' = queued \cup {x} /\ UNCHANGED faults
          /\ Relay!Advance(Replica, x, "sent")
      BY <1>3, <3>1 DEF Publish, Relay!Publish, Relay!Fault, RelayReliable
    <3>3. x = o
      BY <1>3, <3>2
    <3> QED
      BY <3>1, <3>2, <3>3 DEF Arrives, Relay!Advance, Out!TypeOK
  <2>2. PICK m \in Copies(o) : Arrival(m)
    BY <2>1 DEF Publish, Arrival, Copies
  <2> QED
    BY <1>1, <2>2 DEF Copies, Del!InHand, Arrival
<1> QED
  BY <1>2, <1>3

(***************************************************************************)
(* An accepted order that is still PENDING is in the hands of the relay or *)
(* has a message, with any number of orders, requests, copies and workers, *)
(* when Redis and the worker processes live, no deadline passes and no     *)
(* publish fails; replicas crash, relays stall, goroutines panic,          *)
(* statements, the fleet service and the parking queue fail as they like.  *)
(***************************************************************************)
THEOREM AcceptedIsHandedOver ==
  ASSUME WorkerReliable, RelayReliable
  PROVE  Spec => []AcceptedIsInHand
<1>1. Init => CommittedIsWritten /\ QueuedIsInHand /\ WorkerInv
  <2>1. Init => Del!Init
    BY WorkerIsProved DEF Init
  <2>2. Del!Init => WorkerInv
    BY WorkerIsProved, Del!HoldingInit DEF WorkerInv, Del!Init, Del!Kept, Del!Calm, Del!DedupHandled,
       Del!IdemHandled, Del!GuardExclusive, Del!Guarded, Del!InBreaker
  <2> QED
    BY <2>1, <2>2 DEF Init, Api!Init, Relay!Init, CommittedIsWritten, QueuedIsInHand, Accepted,
       Api!Committed
<1>2. Out!TypeOK /\ Out!HandedOver /\ Cust!IInv /\ CommittedIsWritten /\ QueuedIsInHand
        => AcceptedIsInHand
  <2> SUFFICES ASSUME Out!TypeOK, Out!HandedOver, Cust!IInv, CommittedIsWritten, QueuedIsInHand,
                      NEW o \in Accepted,
                      row[o].status = "PENDING", status[o] \notin {"PENDING", "PROCESSING"}
               PROVE  \E m \in Copies(o) : m \in parked \/ queue[m] # "gone"
    BY DEF AcceptedIsInHand
  <2>1. o \in Orders
    BY ApiIsProved DEF Accepted, Api!Committed, Cust!IInv, Cust!TypeOK
  <2>2. status[o] \in {"PUBLISHED", "FAILED", "deleted"}
    BY <2>1 DEF CommittedIsWritten, Out!TypeOK, Out!RowStatus
  <2>3. Del!InHand(o)
    BY <2>1, <2>2 DEF Out!HandedOver, QueuedIsInHand
  <2> QED
    BY <2>3 DEF Del!InHand, Del!Settled, Del!Alive, Copies
<1>3. Spec => []Out!TypeOK /\ []Out!HandedOver
  <2>1. RelayFaults \cap {"conn", "broker"} = {}
    BY DEF RelayReliable
  <2> QED
    BY <2>1, RelayImplemented, RelayIsProved, Out!TypeCorrect, Out!RowsAreHandedOver, PTL
<1>4. Cust!IInv /\ Out!TypeOK /\ CommittedIsWritten /\ [Next]_vars => CommittedIsWritten'
  BY CommittedIsWrittenStep
<1>5. Del!TypeOK /\ WorkerInv /\ [Next]_vars => WorkerInv'
  BY WorkerInvStep
<1>6. Cust!IInv /\ Out!TypeOK /\ Del!TypeOK /\ WorkerInv /\ QueuedIsInHand /\ [Next]_vars
        => QueuedIsInHand'
  BY QueuedIsInHandStep
<1> QED
  BY <1>1, <1>2, <1>3, <1>4, <1>5, <1>6, ApiInv, WorkerTyped, PTL DEF Spec

-----------------------------------------------------------------------------
(***************************************************************************)
(* The order service.  A step that changes what was accepted or confirmed  *)
(* is the commit of one unit of work; one that changes a row is an update  *)
(* of the worker, for an accepted order, with what the worker drafted.     *)
(***************************************************************************)
Told == {input[r].id : r \in Cust!Confirmed}

\* A driver that is about to be written was found by the fleet service.
FoundInRange ==
  \A t \in Threads : pc[t] \in {"find", "update"} => Fleet!InRange(drv[t])

LEMMA FoundInRangeStep ==
  ASSUME Del!TypeOK, FoundInRange, [Next]_vars
  PROVE  FoundInRange'
<1> SUFFICES ASSUME NEW u \in Threads, pc'[u] \in {"find", "update"}
             PROVE  Fleet!InRange(drv'[u])
  BY DEF FoundInRange, Fleet!InRange
<1>1. CASE pc[u] \in {"find", "update"} /\ drv'[u] = drv[u]
  BY <1>1 DEF FoundInRange, Fleet!InRange
<1>2. CASE pc[u] = "search" /\ pc'[u] = "find"
  <2>1. ASSUME NEW t \in Threads, Work(t) PROVE t = u
    <3>1. \E step : pc' = [pc EXCEPT ![t] = step]
      BY <2>1, Zenon DEF Work, OfWorker, Worker!Handle, Worker!GuardSetNX, Worker!Admit, Worker!IdemSetNX,
         Worker!SearchDriver, Worker!FindOrder, Worker!UpdateOrder, Worker!DelIdem, Worker!DelDedup,
         Worker!Backoff, Worker!FallbackFind, Worker!FallbackUpdate, Worker!NackToWait, Worker!Park,
         Worker!ParkFails, Worker!Ack, Worker!Finish, Worker!Goto
    <3> QED
      BY <1>2, <3>1 DEF Del!TypeOK
  <2>2. Work(u)
    <3>1. ASSUME NEW m \in Msgs, Deliver(m) \/ WaitExpire(m) PROVE FALSE
      BY <1>2, <3>1 DEF Deliver, WaitExpire, OfWorker, Worker!Deliver, Worker!WaitExpire, Worker!Goto,
         Del!TypeOK
    <3>2. ~OfWorker(ProcessLife)
      <4>1. ASSUME NEW t \in Threads, Worker!Timeout(t) \/ Worker!Resend(t) \/ Worker!Panic(t)
            PROVE  FALSE
        BY <1>2, <4>1 DEF Worker!Timeout, Worker!Resend, Worker!Panic, Worker!Goto, Del!TypeOK
      <4>2. ASSUME NEW p \in Procs, Worker!Exit(p) PROVE FALSE
        BY <1>2, <4>2 DEF Worker!Exit
      <4>3. ASSUME NEW p \in Procs,
                   \/ Worker!BreakerTimeout(p) \/ Worker!LoseChannel(p)
                   \/ Worker!BeginShutdown(p) \/ Worker!Start(p)
            PROVE  FALSE
        BY <1>2, <4>3 DEF Worker!BreakerTimeout, Worker!LoseChannel, Worker!BeginShutdown, Worker!Start
      <4> QED
        BY <4>1, <4>2, <4>3 DEF OfWorker, ProcessLife
    <3>3. ~UNCHANGED pc
      BY <1>2
    <3>4. PICK t \in Threads : Work(t)
      BY <3>1, <3>2, <3>3 DEF Next, Forward, ApiCrash, Serve, OfRelay, OfFleet, Publish, workerVars, vars
    <3> QED
      BY <2>1, <3>4
  <2>3. Fleet!Finds(drv'[u])
    BY <1>2, <2>2 DEF Work, OfWorker, Answered
  <2> QED
    BY <2>3 DEF Fleet!Finds, Fleet!Nearest
<1>3. CASE [Del!Next]_(Del!vars)
  BY <1>1, <1>2, <1>3, WorkerIsProved, Del!DraftStep
<1>4. ASSUME NEW m \in Msgs, Arrival(m) PROVE Fleet!InRange(drv'[u])
  BY <1>1, <1>4 DEF Arrival
<1> QED
  BY <1>3, <1>4, WorkerStep
LEMMA AcceptedIsAnnounced ==
  /\ Accepted = {s.id : s \in Cust!Announced}
  /\ Accepted' = {s.id : s \in Cust!Announced'}
<1>1. \A e : [by |-> e.by, id |-> e.order].id = e.order
  OBVIOUS
<1>2. Accepted = {s.id : s \in Cust!Announced}
  <2>1. ASSUME NEW e \in Cust!Committed(outbox)
        PROVE  \E s \in Cust!Announced : s.id = e.order
    <3>1. [by |-> e.by, id |-> e.order] \in Cust!Announced
      BY DEF Cust!Announced
    <3> QED
      BY <1>1, <3>1
  <2>2. ASSUME NEW s \in Cust!Announced
        PROVE  \E e \in Cust!Committed(outbox) : e.order = s.id
    BY <1>1 DEF Cust!Announced
  <2> QED
    BY <2>1, <2>2, ApiIsProved
<1>3. Accepted' = {s.id : s \in Cust!Announced'}
  <2>1. ASSUME NEW e \in Cust!Committed(outbox)'
        PROVE  \E s \in Cust!Announced' : s.id = e.order
    <3>1. [by |-> e.by, id |-> e.order] \in Cust!Announced'
      BY DEF Cust!Announced
    <3> QED
      BY <1>1, <3>1
  <2>2. ASSUME NEW s \in Cust!Announced'
        PROVE  \E e \in Cust!Committed(outbox)' : e.order = s.id
    BY <1>1 DEF Cust!Announced
  <2>3. Accepted' = {e.order : e \in Cust!Committed(outbox)'}
    BY DEF Accepted, Api!Committed, Cust!Committed
  <2> QED
    BY <2>1, <2>2, <2>3
<1> QED
  BY <1>2, <1>3

\* A commit, as the system sees it.
AcceptedBy(o) ==
  /\ o \in Orders \ Accepted
  /\ Accepted' = Accepted \cup {o}
  /\ Told' \in {Told, Told \cup {o}}

LEMMA AcceptStep ==
  ASSUME Cust!IInv, Cust!IInv', [Next]_vars
  PROVE  \/ Accepted' = Accepted /\ Told' = Told
         \/ \E o \in Orders : AcceptedBy(o)
<1>1. \A r \in Cust!Confirmed' : r \in Requests /\ input'[r] = input[r]
  <2>1. \A r \in Cust!Confirmed' : r \in Requests /\ request'[r] = "done"
    BY DEF Cust!Confirmed, Cust!IInv, Cust!Answered
  <2> QED
    BY <2>1, ApiStep, ApiIsProved, Cust!InputStays
<1>2. Told' = {input[r].id : r \in Cust!Confirmed'}
  BY <1>1 DEF Told
<1>3. Accepted' = {s.id : s \in Cust!Announced'}
  BY AcceptedIsAnnounced
<1>4. CASE Cust!NothingCreated
  BY <1>2, <1>3, <1>4, AcceptedIsAnnounced DEF Cust!NothingCreated, Told
<1>5. ASSUME NEW r \in Requests, Cust!CreateAs(r) PROVE \E o \in Orders : AcceptedBy(o)
  <2> DEFINE o == input[r].id
             new == [by |-> r, id |-> o]
  <2>1. /\ \A s \in Cust!Stored : s.id # o
        /\ o \in Orders
        /\ Cust!Announced' = Cust!Announced \cup {new}
        /\ Cust!Confirmed' \in {Cust!Confirmed, Cust!Confirmed \cup {r}}
    BY <1>5 DEF Cust!CreateAs
  <2>2. new.id = o
    OBVIOUS
  <2> HIDE DEF new
  <2>3. o \notin Accepted
    <3> SUFFICES ASSUME NEW e \in Cust!Committed(outbox), e.order = o PROVE FALSE
      BY ApiIsProved
    <3>1. PICK x \in Cust!Committed(orders) : x.id = e.order
      BY ApiIsProved, Cust!OrderOfEvent
    <3>2. [by |-> x.by, id |-> x.id] \in Cust!Stored
      BY DEF Cust!Stored
    <3> QED
      BY <2>1, <3>1, <3>2
  <2>4. Accepted' = Accepted \cup {o}
    BY <1>3, <2>1, <2>2, AcceptedIsAnnounced
  <2>5. Told' \in {Told, Told \cup {o}}
    BY <1>2, <2>1 DEF Told
  <2> HIDE DEF o
  <2> QED
    BY <2>1, <2>3, <2>4, <2>5 DEF AcceptedBy
<1> QED
  BY <1>4, <1>5, ApiStep, ApiIsProved, Cust!StepRefines

\* Of the steps of the pipeline only the worker's change a row.
LEMMA RowOrApi == [Next]_vars => UNCHANGED row \/ UNCHANGED apiVars
BY DEF Next, Forward, ApiCrash, Serve, OfRelay, OfFleet, OfWorker, Publish, Work, Deliver, WaitExpire,
   workerVars, vars

LEMMA ServiceStep ==
  ASSUME Cust!IInv, Cust!IInv', Del!TypeOK, AcceptedFirst, WorkerSound, WorkerFresh, FoundInRange,
         [Next]_vars
  PROVE  [Service!Next]_(Service!vars)
<1> USE WorkerIsProved DEF Del!ConsumerAssumption
<1>1. Told = {input[r].id : r \in {q \in Requests : answer[q] = "200"}}
  BY DEF Told, Cust!Confirmed
<1>2. Told' = {input'[r].id : r \in {q \in Requests : answer'[q] = "200"}}
  BY DEF Told, Cust!Confirmed
<1>3. CASE UNCHANGED row
  <2>1. CASE Accepted' = Accepted /\ Told' = Told
    BY <1>1, <1>2, <1>3, <2>1 DEF Service!vars
  <2>2. ASSUME NEW o \in Orders, AcceptedBy(o) PROVE Service!Next
    <3>1. Service!Accept(o)
      BY <1>1, <1>2, <1>3, <2>2 DEF AcceptedBy, Service!Accept
    <3> QED
      BY <3>1 DEF Service!Next
  <2> QED
    BY <2>1, <2>2, AcceptStep
<1>4. CASE UNCHANGED apiVars
  <2>1. Accepted' = Accepted /\ Told' = Told
    BY <1>4 DEF apiVars, Accepted, Api!Committed, Told, Cust!Confirmed
  <2>2. ASSUME NEW t \in Threads, pc[t] = "update" \/ pc[t] = "fbUpdate"
        PROVE  Del!Key(t) \in Orders /\ Del!Key(t) \in Accepted
    <3>1. msg[t] # NoMsg /\ Del!Key(t) \in Orders
      BY <2>2, Del!KeyOfHandled
    <3> QED
      BY <3>1 DEF AcceptedFirst, Del!Untouched
  <2>3. ASSUME NEW t \in Threads, pc[t] = "update",
               row' = Del!Write(Del!Key(t), "DISPATCHED", drv[t])
        PROVE  Service!Next
    <3> DEFINE o == Del!Key(t)
    <3>1. o \in Orders /\ o \in Accepted
      BY <2>2, <2>3
    <3>2. row[o].status \in Service!DispatchFrom
      BY <2>3 DEF WorkerFresh, Del!DispatchNotStale, Del!DispatchFrom, Service!DispatchFrom
    <3>3. drv[t] \in Drivers /\ Distance[drv[t]] <= Radius
      BY <2>3 DEF WorkerSound, Del!Drafts, FoundInRange, Fleet!InRange
    <3>4. row' = [row EXCEPT ![o] = [status |-> "DISPATCHED", driver |-> drv[t]]]
      BY <2>3 DEF Del!Write
    <3>5. Service!Dispatch(o, drv[t])
      BY <1>1, <1>2, <2>1, <3>1, <3>2, <3>3, <3>4 DEF Service!Dispatch
    <3> HIDE DEF o
    <3> QED
      BY <3>1, <3>3, <3>5 DEF Service!Next
  <2>4. ASSUME NEW t \in Threads, pc[t] = "fbUpdate",
               row' = Del!Write(Del!Key(t), "MANUAL_DISPATCH", drv[t])
        PROVE  Service!Next
    <3> DEFINE o == Del!Key(t)
    <3>1. o \in Orders /\ o \in Accepted
      BY <2>2, <2>4
    <3>2. row' = [row EXCEPT ![o] = [status |-> "MANUAL_DISPATCH", driver |-> NoDriver]]
      BY <2>4 DEF Del!Write, WorkerSound, Del!Drafts
    <3>3. Service!SendToManual(o)
      BY <1>1, <1>2, <2>1, <3>1, <3>2 DEF Service!SendToManual
    <3> HIDE DEF o
    <3> QED
      BY <3>1, <3>3 DEF Service!Next
  <2>5. CASE [Del!Next]_(Del!vars)
    BY <1>3, <2>3, <2>4, <2>5, Del!RowStep
  <2> QED
    BY <1>3, <2>5, WorkerStep DEF Arrival
<1> QED
  BY <1>3, <1>4, RowOrApi

(***************************************************************************)
(* The pipeline implements the order service, with any number of requests, *)
(* orders, copies, goroutines, processes and drivers and any set of faults *)
(* in any of the services, SIGTERM included, but one: the dispatch out of  *)
(* a state that allows it rests on the guard, and the guard on a Redis     *)
(* client that does not send a command again.                              *)
(***************************************************************************)
THEOREM PipelineIsOrderService ==
  ASSUME "resend" \notin WorkerFaults
  PROVE  Spec => ServiceSpec
<1>1. Init => Service!Init
  BY DEF Init, Api!Init, Worker!Init, Service!Init, Accepted, Api!Committed
<1>2. Init => FoundInRange /\ AcceptedFirst
  BY DEF Init, Relay!Init, Worker!Init, FoundInRange, AcceptedFirst, Unknown, Del!Untouched
<1>3. Spec => []Out!TypeOK
  BY RelayImplemented, RelayIsProved, Out!TypeCorrect, PTL
<1>4. Cust!IInv /\ Out!TypeOK /\ Del!TypeOK /\ AcceptedFirst /\ [Next]_vars => AcceptedFirst'
  BY AcceptedFirstStep
<1>5. Del!TypeOK /\ FoundInRange /\ [Next]_vars => FoundInRange'
  BY FoundInRangeStep
<1>6. ASSUME Cust!IInv, Cust!IInv', Del!TypeOK,
             AcceptedFirst, WorkerSound, WorkerFresh, FoundInRange, [Next]_vars
      PROVE  [Service!Next]_(Service!vars)
  BY <1>6, ServiceStep, Zenon
<1>7. Spec => []WorkerFresh
  BY WorkerIsFresh DEF Del!NothingResent
<1> QED
  BY <1>1, <1>2, <1>3, <1>4, <1>5, <1>6, <1>7, ApiInv, WorkerTyped, WorkerIsSound, PTL
     DEF Spec, ServiceSpec, Service!Spec
=============================================================================
