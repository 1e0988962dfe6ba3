------------------------------ MODULE GoFleet ------------------------------
(***************************************************************************)
(* The whole pipeline: an API replica with its relay, the worker processes *)
(* and the fleet service, composed of the modules CreateOrder, Outbox,     *)
(* Consumer and FleetService.  Two steps are taken together where one      *)
(* action of the program is a step of two of them:                         *)
(*                                                                         *)
(*   the end of a transaction   commits the order and its outbox row       *)
(*   a publish                  puts a copy of the event into the queue    *)
(*   a call of SearchDriver     is answered by the fleet service           *)
(*   the end of the API         ends its requests and its relay            *)
(*                                                                         *)
(* The id of an order is the id of its event and of its outbox row.  The   *)
(* table orders is split: the amounts are in CreateOrder, the columns the  *)
(* worker writes in Consumer; a row that is not yet there is PENDING.      *)
(***************************************************************************)
EXTENDS Integers, FiniteSets

CONSTANTS Orders,                       \* ids clients choose, see CreateOrder
          Requests, NoId, Amounts, MaxCents, NoPayload, ApiFaults,
          Replica, BatchSize, RelayFaults, MaxFaults,       \* see Outbox
          Msgs, MsgOrder, Threads, Procs, ProcOf, NoMsg,    \* see Consumer
          MaxRetries, BackoffRetries, WorkerFaults,
          Drivers, NoDriver, Distance, Radius, FleetFaults  \* see FleetService

VARIABLES
  orders, outbox, open, payload, request, input, answer, gone,
  status, stale, claiming, job, queued, bound, faults,
  row, dedup, idem, queue, deaths, parked,
  pc, msg, attempt, err, drv, late, proc, chan, breaker,
  located, serving

apiVars    == <<orders, outbox, open, payload, request, input, answer, gone>>
relayVars  == <<status, stale, claiming, job, queued, bound, faults>>
workerVars == <<row, dedup, idem, queue, deaths, parked,
                pc, msg, attempt, err, drv, late, proc, chan, breaker>>
fleetVars  == <<located, serving>>
vars == <<apiVars, relayVars, workerVars, fleetVars>>

\* The queue is declared by the first worker; here, before the first publish.
Api    == INSTANCE CreateOrder WITH Ids <- Orders, Faults <- ApiFaults, pc <- request
Relay  == INSTANCE Outbox WITH Events <- Orders, Relays <- {Replica},
                               BoundAtStart <- TRUE, Faults <- RelayFaults
Worker == INSTANCE Consumer WITH Backlog <- {}, Faults <- WorkerFaults
Fleet  == INSTANCE FleetService

\* Copies of an event that are, or could still be, in the queue.
Copies(o) == {m \in Msgs : MsgOrder[m] = o}
Unused(m) ==
  /\ queue[m] = "gone"
  /\ m \notin parked
  /\ \A t \in Threads : msg[t] # m

\* The worker has to expect the errors of the fleet service.
ASSUME CompositionAssumption ==
  /\ Api!CreateAssumption /\ Relay!OutboxAssumption /\ Worker!ConsumerAssumption
  /\ \A o \in Orders : Cardinality(Copies(o)) > MaxFaults
  /\ "fleet" \in WorkerFaults

TypeOK == Api!TypeOK /\ Relay!TypeOK /\ Worker!TypeOK /\ Fleet!TypeOK

Init == Api!Init /\ Relay!Init /\ Worker!Init /\ Fleet!Init

-----------------------------------------------------------------------------
Accepted == {e.order : e \in Api!Committed(outbox)}

\* Mutants of NewlyAccepted: rows that are not committed yet, and an event
\* that is left out of the transaction.
NewlyWritten == {e.order : e \in outbox'} \ {e.order : e \in outbox}
NeverAccepted == {}
NewlyAccepted == Accepted' \ Accepted

\* A step of a request; what it commits is an outbox row for the relay.
Serve(r) ==
  /\ \/ Api!Decode(r) \/ Api!Disconnect(r) \/ Api!ContextEnds(r)
     \/ \E fails \in Api!Failures : Api!Handle(r, fails)
  /\ \/ NewlyAccepted = {} /\ UNCHANGED relayVars
     \/ \E o \in NewlyAccepted : Relay!Create(o)
  /\ UNCHANGED <<workerVars, fleetVars>>

\* The replica ends, and with it its requests, if there are any, and its relay.
ApiCrash ==
  /\ Relay!Crash(Replica)
  /\ \/ Api!Crash
     \/ Api!Running \cup open = {} /\ UNCHANGED apiVars
  /\ UNCHANGED <<workerVars, fleetVars>>

\* A step of one component that no other takes part in.
OfRelay(A)  == A /\ UNCHANGED <<apiVars, workerVars, fleetVars>>
OfWorker(A) == A /\ UNCHANGED <<apiVars, relayVars, fleetVars>>
OfFleet(A)  == A /\ UNCHANGED <<apiVars, relayVars, workerVars>>

\* A publish without an error puts a copy into the queue, unless it gets lost.
Arrives(o) == job'[Replica][o] = "sent" /\ faults' = faults

Publish(o) ==
  /\ Relay!Publish(Replica, o)
  /\ \/ /\ Arrives(o)
        /\ \E m \in Copies(o) : /\ Unused(m)
                                /\ queue' = [queue EXCEPT ![m] = "main"]
                                /\ deaths' = [deaths EXCEPT ![m] = 0]
     \/ ~Arrives(o) /\ UNCHANGED <<queue, deaths>>
  /\ UNCHANGED <<apiVars, fleetVars>>
  /\ UNCHANGED <<row, dedup, idem, parked, pc, msg, attempt, err, drv, late, proc, chan, breaker>>

\* Relay and rescuer: the other steps do not touch RabbitMQ.
Tend ==
  \/ Relay!Fetch(Replica) \/ Relay!ClaimCommit(Replica) \/ Relay!ClaimFails(Replica)
  \/ \E o \in Orders : Relay!MarkPublished(Replica, o) \/ Relay!MarkFailed(Replica, o)
  \/ \E o \in Orders : Relay!Age(o)
  \/ Relay!Rescue

Forward == OfRelay(Tend) \/ \E o \in Orders : Publish(o)

-----------------------------------------------------------------------------
\* The answer to a SearchDriver is the fleet service's, unless the worker's
\* context is done first.
Answered(t) ==
  \/ pc'[t] = "find" /\ Fleet!Finds(drv'[t])
  \/ pc'[t] = "undo" /\ (Fleet!Fails \/ Worker!CtxDone(t))

Work(t) == OfWorker(Worker!Handle(t) /\ (pc[t] = "search" => Answered(t)))
Deliver(m) == OfWorker(\E t \in Threads : Worker!Deliver(t, m))
WaitExpire(m) == OfWorker(Worker!WaitExpire(m))

\* What happens to the worker processes and their calls, and the breaker's timer.
ProcessLife ==
  \/ \E t \in Threads : Worker!Timeout(t) \/ Worker!Resend(t) \/ Worker!Panic(t)
  \/ \E p \in Procs : \/ Worker!BreakerTimeout(p) \/ Worker!LoseChannel(p)
                      \/ Worker!BeginShutdown(p) \/ Worker!Exit(p) \/ Worker!Start(p)

Next ==
  \/ ApiCrash
  \/ \E r \in Requests : Serve(r)
  \/ Forward \/ OfRelay(Relay!Cleanup)
  \/ \E t \in Threads : Work(t)
  \/ \E m \in Msgs : Deliver(m) \/ WaitExpire(m)
  \/ OfWorker(ProcessLife)
  \/ OfFleet(Fleet!Start \/ Fleet!Stop)

Spec == Init /\ [][Next]_vars

\* The relay's tickers, the goroutines, the queue and the timers go on.  Nothing
\* is assumed of clients, faults, the life of the processes and the fleet service.
Fairness ==
  /\ WF_vars(Forward)
  /\ \A t \in Threads : WF_vars(Work(t))
  /\ \A m \in Msgs : SF_vars(Deliver(m)) /\ WF_vars(WaitExpire(m))

FairSpec == Spec /\ Fairness

-----------------------------------------------------------------------------
(***************************************************************************)
(* Nothing is done for an order that was not accepted: copies of its event *)
(* in RabbitMQ, keys in Redis and a row that has left PENDING all follow   *)
(* the commit of order and event in the API, whatever is rolled back.      *)
(***************************************************************************)
OnlyAcceptedOrders ==
  /\ \A m \in Msgs : queue[m] # "gone" \/ m \in parked => MsgOrder[m] \in Accepted
  /\ dedup \cup idem \subseteq Accepted
  /\ \A o \in Orders : row[o].status # "PENDING" => o \in Accepted

(***************************************************************************)
(* Handed over without a gap: an accepted order that is still PENDING is   *)
(* in the outbox as a row the relay will take up, or has a copy of its     *)
(* event in RabbitMQ, to be handled or parked for an operator.             *)
(***************************************************************************)
AcceptedIsInHand ==
  \A o \in Accepted :
     \/ row[o].status # "PENDING"
     \/ status[o] \in {"PENDING", "PROCESSING"}
     \/ \E m \in Copies(o) : m \in parked \/ queue[m] # "gone"

(***************************************************************************)
(* The four services implement the order service: of all their steps only  *)
(* the commit of the unit of work, the two updates of the worker and       *)
(* nothing else is visible in what was accepted, confirmed and written,    *)
(* and each of them is one step of that specification.                     *)
(***************************************************************************)
Service ==
  INSTANCE OrderService WITH
    accepted  <- Accepted,
    confirmed <- {input[r].id : r \in {q \in Requests : answer[q] = "200"}}

ServiceSpec == Service!Spec

(***************************************************************************)
(* End to end: an order the API has committed, also when it answered 500,  *)
(* is eventually dispatched, sent to manual dispatch or parked.            *)
(***************************************************************************)
EveryOrderSettles ==
  \A o \in Orders :
     o \in Accepted ~> \/ row[o].status # "PENDING"
                       \/ \E m \in parked : MsgOrder[m] = o
=============================================================================
