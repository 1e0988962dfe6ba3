------------------------------ MODULE Consumer ------------------------------
(***************************************************************************)
(* The worker service: the goroutines of event.Consumer take deliveries of *)
(* the queue orders.created and run the handler stack of                   *)
(* cmd/worker/main.go on each, from the outside in                         *)
(*                                                                         *)
(*   backoff        WrapExponentialBackoff   retries in place              *)
(*   guard          WrapIdempotency          Redis key dedup:<event>       *)
(*   breaker        WrapResilientConsumer    5 s deadline, circuit breaker *)
(*   ProcessOrder   Redis key idem:<event>, gRPC SearchDriver and the      *)
(*                  dispatch use case, which reads and then writes the row *)
(*                                                                         *)
(* and settle it: ack, manual-dispatch fallback, wait queue or parking.    *)
(* One action is one remote call or one local decision, so that the        *)
(* goroutines of all the processes interleave between calls.  A call fails *)
(* when its context is done or when the fault it is exposed to is in       *)
(* Faults; a failed write may have been applied (the reply was lost).      *)
(*                                                                         *)
(* An event is identified with its order: CreateOrder emits exactly one    *)
(* event per order, and every copy of its message carries the same         *)
(* x-event-id.  The 24 h lifetime of both Redis keys is taken as endless.  *)
(***************************************************************************)
EXTENDS OrderStates, Naturals

CONSTANTS Orders,          \* ids of the orders, and of their events
          Msgs,            \* copies of the events' messages, duplicates included
          MsgOrder,        \* MsgOrder[m]: the order that copy m is about
          Backlog,         \* copies in the queue at first; no other is ever published
          Threads,         \* worker goroutines of all the processes
          Procs,           \* worker processes
          ProcOf,          \* ProcOf[t]: the process goroutine t lives in
          Drivers,         \* driver ids the fleet service may answer
          NoDriver, NoMsg,
          MaxRetries,      \* trips through the wait queue before parking (3)
          BackoffRetries,  \* in-place retries of one delivery (3)
          Faults           \* what may go wrong in the environment

FaultKinds == {"redis",    \* a Redis call fails, applied or not
               "resend",   \* a Redis reply is lost and the client repeats the command
               "db",       \* a PostgreSQL statement fails, applied or not
               "fleet",    \* SearchDriver fails
               "park",     \* the publish to the parking queue fails
               "slow",     \* the 5 s deadline passes inside the breaker
               "conn",     \* the AMQP connection of a process is lost
               "panic",    \* a handler panics
               "crash",    \* a process dies
               "shutdown"} \* a process receives SIGTERM

ASSUME ConsumerAssumption ==
  /\ MsgOrder \in [Msgs -> Orders]
  /\ Backlog \subseteq Msgs
  /\ ProcOf \in [Threads -> Procs]
  /\ NoDriver \notin Drivers
  /\ NoMsg \notin Msgs
  /\ MaxRetries \in Nat
  /\ BackoffRetries \in Nat
  /\ Faults \subseteq FaultKinds

VARIABLES
  row,      \* orders table: row[o] has the status and driver columns
  dedup,    \* Redis: events whose key dedup:WorkerProcessOrder:<event> exists
  idem,     \* Redis: events whose key idem:orders:<event> exists
  queue,    \* RabbitMQ: where copy m is
  deaths,   \* RabbitMQ: count in the x-death header of copy m
  parked,   \* RabbitMQ: copies in the parking queue
  pc,       \* goroutine: the next call it makes
  msg,      \* goroutine: the delivery it handles
  attempt,  \* goroutine: loop counter of the backoff wrapper
  err,      \* goroutine: error of the last attempt
  drv,      \* goroutine: driver found, or read by the fallback
  late,     \* goroutine: the 5 s deadline has passed
  proc,     \* process: running, told to stop, or not there
  chan,     \* process: its AMQP channel is open
  breaker   \* process: state of its circuit breaker

redisVars  == <<dedup, idem>>
brokerVars == <<queue, deaths, parked>>
procVars   == <<proc, chan, breaker>>
vars == <<row, redisVars, brokerVars, pc, msg, attempt, err, drv, late, procVars>>

Row == [status : Status, driver : Drivers \cup {NoDriver}]

\* Steps taken while the goroutine owns the dedup key, and those of them that
\* run inside the breaker, under the 5 s deadline.
InBreaker == {"idem", "search", "find", "update", "undo"}
Guarded   == {"admit", "release"} \cup InBreaker
Steps     == {"idle", "guard", "retry", "fbFind", "fbUpdate", "dispose", "ack", "dead"} \cup Guarded

TypeOK ==
  /\ row \in [Orders -> Row]
  /\ dedup \subseteq Orders
  /\ idem \subseteq Orders
  /\ queue \in [Msgs -> {"main", "unacked", "wait", "gone"}]
  /\ deaths \in [Msgs -> Nat]
  /\ parked \subseteq Msgs
  /\ pc \in [Threads -> Steps]
  /\ msg \in [Threads -> Msgs \cup {NoMsg}]
  /\ \A t \in Threads : pc[t] # "idle" <=> msg[t] # NoMsg
  /\ attempt \in [Threads -> 0..BackoffRetries]
  /\ err \in [Threads -> {"none", "open", "other"}]
  /\ drv \in [Threads -> Drivers \cup {NoDriver}]
  /\ late \in [Threads -> BOOLEAN]
  /\ proc \in [Procs -> {"up", "stopping", "down"}]
  /\ chan \in [Procs -> BOOLEAN]
  /\ breaker \in [Procs -> {"closed", "open", "half"}]

Init ==
  /\ row = [o \in Orders |-> [status |-> "PENDING", driver |-> NoDriver]]
  /\ dedup = {}
  /\ idem = {}
  /\ queue = [m \in Msgs |-> IF m \in Backlog THEN "main" ELSE "gone"]
  /\ deaths = [m \in Msgs |-> 0]
  /\ parked = {}
  /\ pc = [t \in Threads |-> "idle"]
  /\ msg = [t \in Threads |-> NoMsg]
  /\ attempt = [t \in Threads |-> 0]
  /\ err = [t \in Threads |-> "none"]
  /\ drv = [t \in Threads |-> NoDriver]
  /\ late = [t \in Threads |-> FALSE]
  /\ proc = [p \in Procs |-> "up"]
  /\ chan = [p \in Procs |-> TRUE]
  /\ breaker = [p \in Procs |-> "closed"]

-----------------------------------------------------------------------------
Key(t)  == MsgOrder[msg[t]]
Open(t) == chan[ProcOf[t]]

\* The handlers' context is the signal context of main: SIGTERM cancels it.
Cancelled(t) == proc[ProcOf[t]] = "stopping"
CtxDone(t)   == late[t] \/ Cancelled(t)

Goto(t, step)   == pc' = [pc EXCEPT ![t] = step]
FailWith(t, e)  == err' = [err EXCEPT ![t] = e]
Write(o, s, d)  == [row EXCEPT ![o] = [status |-> s, driver |-> d]]

\* The broker honours an ack or a nack only on the channel of the delivery.
Tell(t, place) ==
  queue' = IF Open(t) THEN [queue EXCEPT ![msg[t]] = place] ELSE queue

Finish(t) ==
  /\ Goto(t, "idle")
  /\ msg' = [msg EXCEPT ![t] = NoMsg]
  /\ attempt' = [attempt EXCEPT ![t] = 0]
  /\ FailWith(t, "none")
  /\ drv' = [drv EXCEPT ![t] = NoDriver]

\* Outcomes of cb.Execute.  Counts and generations are abstracted: a failure
\* may or may not trip, a result of an earlier generation is ignored.
Failure(b) == {b, "open"}
Success(b) == IF b = "half" THEN {"half", "closed"} ELSE {b}
Report(t, outcomes) ==
  /\ \E b \in outcomes : breaker' = [breaker EXCEPT ![ProcOf[t]] = b]
  /\ late' = [late EXCEPT ![t] = FALSE]

-----------------------------------------------------------------------------
(***************************************************************************)
(* A goroutine receives a delivery.  The broker keeps it unacknowledged;   *)
(* the client-side prefetch buffer is part of "main".                      *)
(***************************************************************************)
Deliver(t, m) ==
  /\ pc[t] = "idle"
  /\ Open(t)
  /\ queue[m] = "main"
  /\ queue' = [queue EXCEPT ![m] = "unacked"]
  /\ msg' = [msg EXCEPT ![t] = m]
  /\ Goto(t, "guard")
  /\ UNCHANGED <<row, redisVars, deaths, parked, attempt, err, drv, late, procVars>>

\* Mutant of KeyFree: SET in place of SETNX.
KeyAlwaysFree(t) == TRUE
KeyFree(t) == Key(t) \notin dedup

GuardSetNX(t) ==
  /\ pc[t] = "guard"
  /\ \/ /\ ~Cancelled(t)
        /\ KeyFree(t)
        /\ dedup' = dedup \cup {Key(t)}
        /\ Goto(t, "admit")
        /\ UNCHANGED err
     \/ /\ ~Cancelled(t)
        /\ ~KeyFree(t)
        /\ Goto(t, "ack")
        /\ UNCHANGED <<dedup, err>>
     \/ /\ Cancelled(t) \/ "redis" \in Faults
        /\ dedup' \in {dedup, dedup \cup {Key(t)}}
        /\ Goto(t, "retry")
        /\ FailWith(t, "other")
  /\ UNCHANGED <<row, idem, brokerVars, msg, attempt, drv, late, procVars>>

\* cb.Execute: half open lets a limited number of requests through and
\* rejects the others with ErrTooManyRequests, which is not ErrOpenState.
Admit(t) ==
  /\ pc[t] = "admit"
  /\ \/ /\ breaker[ProcOf[t]] # "open"
        /\ Goto(t, "idem")
        /\ UNCHANGED err
     \/ /\ breaker[ProcOf[t]] = "open"
        /\ Goto(t, "release")
        /\ FailWith(t, "open")
     \/ /\ breaker[ProcOf[t]] = "half"
        /\ Goto(t, "release")
        /\ FailWith(t, "other")
  /\ UNCHANGED <<row, redisVars, brokerVars, msg, attempt, drv, late, procVars>>

IdemSetNX(t) ==
  /\ pc[t] = "idem"
  /\ \/ /\ ~CtxDone(t)
        /\ Key(t) \notin idem
        /\ idem' = idem \cup {Key(t)}
        /\ Goto(t, "search")
        /\ UNCHANGED <<err, late, breaker>>
     \/ /\ ~CtxDone(t)
        /\ Key(t) \in idem
        /\ Goto(t, "ack")
        /\ Report(t, Success(breaker[ProcOf[t]]))
        /\ UNCHANGED <<idem, err>>
     \/ /\ CtxDone(t) \/ "redis" \in Faults
        /\ idem' \in {idem, idem \cup {Key(t)}}
        /\ Goto(t, "release")
        /\ FailWith(t, "other")
        /\ Report(t, Failure(breaker[ProcOf[t]]))
  /\ UNCHANGED <<row, dedup, brokerVars, msg, attempt, drv, proc, chan>>

SearchDriver(t) ==
  /\ pc[t] = "search"
  /\ \/ /\ ~CtxDone(t)
        /\ \E d \in Drivers : drv' = [drv EXCEPT ![t] = d]
        /\ Goto(t, "find")
        /\ UNCHANGED err
     \/ /\ CtxDone(t) \/ "fleet" \in Faults
        /\ Goto(t, "undo")
        /\ FailWith(t, "other")
        /\ UNCHANGED drv
  /\ UNCHANGED <<row, redisVars, brokerVars, msg, attempt, late, procVars>>

\* Mutant of Dispatchable: the aggregate accepts Dispatch in any state.
AlwaysDispatchable(t) == TRUE
Dispatchable(t) == row[Key(t)].status \in DispatchFrom

\* FindByID and Order.Dispatch, on the value read.
FindOrder(t) ==
  /\ pc[t] = "find"
  /\ \/ /\ ~CtxDone(t)
        /\ Dispatchable(t)
        /\ Goto(t, "update")
        /\ UNCHANGED err
     \/ /\ CtxDone(t) \/ "db" \in Faults \/ ~Dispatchable(t)
        /\ Goto(t, "undo")
        /\ FailWith(t, "other")
  /\ UNCHANGED <<row, redisVars, brokerVars, msg, attempt, drv, late, procVars>>

\* UpdateStatus: the statement names the row by its id and nothing else.
UpdateOrder(t) ==
  LET written == Write(Key(t), "DISPATCHED", drv[t])
  IN /\ pc[t] = "update"
     /\ \/ /\ ~CtxDone(t)
           /\ row' = written
           /\ Goto(t, "ack")
           /\ Report(t, Success(breaker[ProcOf[t]]))
           /\ UNCHANGED err
        \/ /\ CtxDone(t) \/ "db" \in Faults
           /\ row' \in {row, written}
           /\ Goto(t, "undo")
           /\ FailWith(t, "other")
           /\ UNCHANGED <<late, breaker>>
     /\ UNCHANGED <<redisVars, brokerVars, msg, attempt, drv, proc, chan>>

-----------------------------------------------------------------------------
(***************************************************************************)
(* The way back out of the stack after a failure.  Both DELs run on the    *)
(* context of the attempt that failed; neither outcome changes the path.   *)
(***************************************************************************)
\* Mutants of the two releases: the DEL is forgotten.
KeepIdem(t)  == idem
KeepDedup(t) == dedup
WithoutIdem(t)  == idem \ {Key(t)}
WithoutDedup(t) == dedup \ {Key(t)}

DelIdem(t) ==
  /\ pc[t] = "undo"
  /\ \/ /\ ~CtxDone(t)
        /\ idem' = WithoutIdem(t)
     \/ /\ CtxDone(t) \/ "redis" \in Faults
        /\ UNCHANGED idem
  /\ Goto(t, "release")
  /\ Report(t, Failure(breaker[ProcOf[t]]))
  /\ UNCHANGED <<row, dedup, brokerVars, msg, attempt, err, drv, proc, chan>>

DelDedup(t) ==
  /\ pc[t] = "release"
  /\ \/ /\ ~Cancelled(t)
        /\ dedup' = WithoutDedup(t)
     \/ /\ Cancelled(t) \/ "redis" \in Faults
        /\ UNCHANGED dedup
  /\ Goto(t, "retry")
  /\ drv' = [drv EXCEPT ![t] = NoDriver]
  /\ UNCHANGED <<row, idem, brokerVars, msg, attempt, err, late, procVars>>

\* Mutant of MoreAttempts: <= in place of <.
OneAttemptTooMany(t) == attempt[t] <= BackoffRetries
MoreAttempts(t) == attempt[t] < BackoffRetries

\* The backoff loop: sleep and try again, give up after the last attempt, or
\* return the context's error in place of the handler's.
Backoff(t) ==
  /\ pc[t] = "retry"
  /\ \/ /\ MoreAttempts(t)
        /\ attempt' = [attempt EXCEPT ![t] = @ + 1]
        /\ Goto(t, "guard")
     \/ /\ ~MoreAttempts(t)
        /\ Goto(t, IF err[t] = "open" THEN "fbFind" ELSE "dispose")
        /\ UNCHANGED attempt
     \/ /\ MoreAttempts(t)
        /\ Cancelled(t)
        /\ Goto(t, "dispose")
        /\ UNCHANGED attempt
  /\ FailWith(t, "none")
  /\ UNCHANGED <<row, redisVars, brokerVars, msg, drv, late, procVars>>

-----------------------------------------------------------------------------
(***************************************************************************)
(* handleMessage after the stack has returned.                             *)
(***************************************************************************)
FallbackFind(t) ==
  /\ pc[t] = "fbFind"
  /\ \/ /\ ~Cancelled(t)
        /\ row[Key(t)].status \in SendToManualFrom
        /\ drv' = [drv EXCEPT ![t] = row[Key(t)].driver]
        /\ Goto(t, "fbUpdate")
     \/ /\ \/ Cancelled(t) \/ "db" \in Faults
           \/ row[Key(t)].status \notin SendToManualFrom
        /\ Goto(t, "dispose")
        /\ UNCHANGED drv
  /\ UNCHANGED <<row, redisVars, brokerVars, msg, attempt, err, late, procVars>>

FallbackUpdate(t) ==
  LET written == Write(Key(t), "MANUAL_DISPATCH", drv[t])
  IN /\ pc[t] = "fbUpdate"
     /\ \/ /\ ~Cancelled(t)
           /\ row' = written
           /\ Goto(t, "ack")
        \/ /\ Cancelled(t) \/ "db" \in Faults
           /\ row' \in {row, written}
           /\ Goto(t, "dispose")
     /\ UNCHANGED <<redisVars, brokerVars, msg, attempt, err, drv, late, procVars>>

\* Mutant of Exhausted: one retry too many.
ExhaustedLate(t) == deaths[msg[t]] > MaxRetries
Exhausted(t) == deaths[msg[t]] >= MaxRetries

\* Where a rejected delivery goes.  Mutant: it is rejected with requeue.
RejectedRequeued == "main"
Rejected == "wait"

NackToWait(t) ==
  /\ pc[t] = "dispose"
  /\ ~Exhausted(t)
  /\ Tell(t, Rejected)
  /\ Finish(t)
  /\ UNCHANGED <<row, redisVars, deaths, parked, late, procVars>>

Park(t) ==
  /\ pc[t] = "dispose"
  /\ Exhausted(t)
  /\ Open(t)
  /\ parked' = parked \cup {msg[t]}
  /\ Goto(t, "ack")
  /\ UNCHANGED <<row, redisVars, queue, deaths, msg, attempt, err, drv, late, procVars>>

ParkFails(t) ==
  /\ pc[t] = "dispose"
  /\ Exhausted(t)
  /\ ~Open(t) \/ "park" \in Faults
  /\ Tell(t, "main")
  /\ Finish(t)
  /\ UNCHANGED <<row, redisVars, deaths, parked, late, procVars>>

Ack(t) ==
  /\ pc[t] = "ack"
  /\ Tell(t, "gone")
  /\ Finish(t)
  /\ UNCHANGED <<row, redisVars, deaths, parked, late, procVars>>

Handle(t) ==
  \/ GuardSetNX(t) \/ Admit(t) \/ IdemSetNX(t)
  \/ SearchDriver(t) \/ FindOrder(t) \/ UpdateOrder(t)
  \/ DelIdem(t) \/ DelDedup(t) \/ Backoff(t)
  \/ FallbackFind(t) \/ FallbackUpdate(t)
  \/ NackToWait(t) \/ Park(t) \/ ParkFails(t) \/ Ack(t)

-----------------------------------------------------------------------------
(***************************************************************************)
(* The passing of time, the broker and the life of the processes.          *)
(***************************************************************************)
\* The TTL of the wait queue dead-letters the copy back to the main queue.
WaitExpire(m) ==
  /\ queue[m] = "wait"
  /\ queue' = [queue EXCEPT ![m] = "main"]
  /\ deaths' = [deaths EXCEPT ![m] = @ + 1]
  /\ UNCHANGED <<row, redisVars, parked, pc, msg, attempt, err, drv, late, procVars>>

Timeout(t) ==
  /\ "slow" \in Faults
  /\ pc[t] \in InBreaker
  /\ ~late[t]
  /\ late' = [late EXCEPT ![t] = TRUE]
  /\ UNCHANGED <<row, redisVars, brokerVars, pc, msg, attempt, err, drv, procVars>>

(***************************************************************************)
(* The reply to a command that Redis carried out is lost.  go-redis, with  *)
(* its default of three retries, sends the command again inside the same   *)
(* call: the goroutine is still at that call, its first answer unseen.  A  *)
(* repeated SETNX finds the key that it has set itself; a repeated DEL     *)
(* removes whatever key is there by then, as no key names its owner.       *)
(***************************************************************************)
Resend(t) ==
  /\ "resend" \in Faults
  /\ \/ /\ pc[t] = "guard" /\ ~Cancelled(t)
        /\ dedup' = dedup \cup {Key(t)} /\ UNCHANGED idem
     \/ /\ pc[t] = "idem" /\ ~CtxDone(t)
        /\ idem' = idem \cup {Key(t)} /\ UNCHANGED dedup
     \/ /\ pc[t] = "undo" /\ ~CtxDone(t)
        /\ idem' = WithoutIdem(t) /\ UNCHANGED dedup
     \/ /\ pc[t] = "release" /\ ~Cancelled(t)
        /\ dedup' = WithoutDedup(t) /\ UNCHANGED idem
  /\ UNCHANGED <<row, brokerVars, pc, msg, attempt, err, drv, late, procVars>>

\* recover ends the goroutine for good: nothing is released, the delivery stays
\* unacknowledged, and the breaker counts a failure.
Panic(t) ==
  /\ "panic" \in Faults
  /\ pc[t] \notin {"idle", "dead"}
  /\ Goto(t, "dead")
  /\ \/ pc[t] \in InBreaker /\ Report(t, Failure(breaker[ProcOf[t]]))
     \/ pc[t] \notin InBreaker /\ UNCHANGED <<late, breaker>>
  /\ UNCHANGED <<row, redisVars, brokerVars, msg, attempt, err, drv, proc, chan>>

BreakerTimeout(p) ==
  /\ breaker[p] = "open"
  /\ breaker' = [breaker EXCEPT ![p] = "half"]
  /\ UNCHANGED <<row, redisVars, brokerVars, pc, msg, attempt, err, drv, late, proc, chan>>

\* A closed channel returns its unacknowledged deliveries to the main queue.
Requeue(p) ==
  queue' = [m \in Msgs |->
              IF chan[p] /\ \E t \in Threads : ProcOf[t] = p /\ msg[t] = m
              THEN "main" ELSE queue[m]]

\* Lost with its connection (nothing reconnects), or closed by Start on
\* SIGTERM.  The goroutines go on with the deliveries they hold.
LoseChannel(p) ==
  /\ chan[p]
  /\ "conn" \in Faults \/ proc[p] = "stopping"
  /\ Requeue(p)
  /\ chan' = [chan EXCEPT ![p] = FALSE]
  /\ UNCHANGED <<row, redisVars, deaths, parked, pc, msg, attempt, err, drv, late, proc, breaker>>

BeginShutdown(p) ==
  /\ "shutdown" \in Faults
  /\ proc[p] = "up"
  /\ proc' = [proc EXCEPT ![p] = "stopping"]
  /\ UNCHANGED <<row, redisVars, brokerVars, pc, msg, attempt, err, drv, late, chan, breaker>>

\* The process is gone with all its goroutines: it crashed, or main returned,
\* which it does on SIGTERM without waiting for consumer.Start.
Exit(p) ==
  LET Kept(f, none) == [t \in Threads |-> IF ProcOf[t] = p THEN none ELSE f[t]]
  IN /\ \/ "crash" \in Faults /\ proc[p] = "up"
        \/ proc[p] = "stopping"
     /\ proc' = [proc EXCEPT ![p] = "down"]
     /\ Requeue(p)
     /\ chan' = [chan EXCEPT ![p] = FALSE]
     /\ breaker' = [breaker EXCEPT ![p] = "closed"]
     /\ pc' = Kept(pc, "idle")
     /\ msg' = Kept(msg, NoMsg)
     /\ attempt' = Kept(attempt, 0)
     /\ err' = Kept(err, "none")
     /\ drv' = Kept(drv, NoDriver)
     /\ late' = Kept(late, FALSE)
     /\ UNCHANGED <<row, redisVars, deaths, parked>>

Start(p) ==
  /\ proc[p] = "down"
  /\ proc' = [proc EXCEPT ![p] = "up"]
  /\ chan' = [chan EXCEPT ![p] = TRUE]
  /\ UNCHANGED <<row, redisVars, brokerVars, pc, msg, attempt, err, drv, late, breaker>>

Next ==
  \/ \E t \in Threads : \/ Handle(t) \/ Timeout(t) \/ Resend(t) \/ Panic(t)
                        \/ \E m \in Msgs : Deliver(t, m)
  \/ \E m \in Msgs : WaitExpire(m)
  \/ \E p \in Procs : \/ BreakerTimeout(p) \/ LoseChannel(p)
                      \/ BeginShutdown(p) \/ Exit(p) \/ Start(p)

Spec == Init /\ [][Next]_vars

\* Goroutines run, the queue is first in first out and timers fire; nothing is
\* promised about the environment.
Fairness ==
  /\ \A t \in Threads : WF_vars(Handle(t))
  /\ \A m \in Msgs : /\ SF_vars(\E t \in Threads : Deliver(t, m))
                     /\ WF_vars(WaitExpire(m))

FairSpec == Spec /\ Fairness
-----------------------------------------------------------------------------
(***************************************************************************)
(* The SETNX of the guard is a lock: of all the goroutines of all the      *)
(* processes, at most one is between its own SETNX and its own DEL for an  *)
(* event, whatever fails, and the key exists as long as it is.  Only the   *)
(* fault resend breaks it: a DEL that is sent again after its goroutine's  *)
(* key is gone may remove the key another goroutine has set since.         *)
(***************************************************************************)
GuardExclusive ==
  /\ \A t \in Threads : pc[t] \in Guarded => Key(t) \in dedup
  /\ \A t1, t2 \in Threads :
        /\ pc[t1] \in Guarded
        /\ pc[t2] \in Guarded
        /\ Key(t1) = Key(t2)
        => t1 = t2

(***************************************************************************)
(* The dispatch use case reads the row and writes it in two statements     *)
(* without a transaction; the write is never stale.  Between the two, the  *)
(* row stays in a state the aggregate may be dispatched from, although     *)
(* fallbacks and late copies of the event run beside it.  It rests on the  *)
(* guard being a lock, and falls with it under the fault resend.           *)
(***************************************************************************)
DispatchNotStale ==
  \A t \in Threads : pc[t] = "update" => row[Key(t)].status \in DispatchFrom

(***************************************************************************)
(* A key in Redis always means something: the order is settled, or one     *)
(* goroutine is working on it and will remove the key if it fails.  This   *)
(* is what makes it right to ack a duplicate unseen.  It needs a Redis     *)
(* that answers and goroutines that live to release what they hold: the    *)
(* faults redis, resend, slow, panic, crash and shutdown break it.         *)
(***************************************************************************)
KeyMeansHandled ==
  \A o \in dedup \cup idem :
     \/ row[o].status # "PENDING"
     \/ \E t \in Threads : pc[t] \in Guarded /\ Key(t) = o

(***************************************************************************)
(* No order is forgotten: one that is still PENDING has a copy of its      *)
(* event somewhere in RabbitMQ, to be handled or parked for an operator.   *)
(***************************************************************************)
NoSilentLoss ==
  \A o \in Orders :
     row[o].status = "PENDING" =>
        \E m \in Msgs : MsgOrder[m] = o /\ (m \in parked \/ queue[m] # "gone")

(***************************************************************************)
(* A copy makes exactly MaxRetries trips through the wait queue before it  *)
(* is parked, also when it is requeued by lost channels and failed parks.  *)
(***************************************************************************)
RetryBudget ==
  \A m \in Msgs : /\ deaths[m] <= MaxRetries
                  /\ m \in parked => deaths[m] = MaxRetries

(***************************************************************************)
(* The row changes as the aggregate allows: the read-modify-write of the   *)
(* dispatch use case and of the fallback together implement OrderLifecycle *)
(* as long as no two goroutines hold copies of one event.                  *)
(***************************************************************************)
Lifecycle == INSTANCE OrderLifecycle WITH row <- row
LifecycleSpec == Lifecycle!Spec

(***************************************************************************)
(* Status and driver of a row never contradict each other, also when a     *)
(* fallback that read the row before it was dispatched overwrites it: the  *)
(* two columns are written together, from one reading.                     *)
(***************************************************************************)
DriverIffDispatched == Lifecycle!DriverMatchesStatus

(***************************************************************************)
(* What the aggregate promises of a driver also holds of the table: it is  *)
(* there exactly when the status says so, and neither a second attempt     *)
(* after a lost reply nor a fallback replaces it or takes it away.         *)
(***************************************************************************)
DriverKept ==
  /\ []Lifecycle!DriverMatchesStatus
  /\ Lifecycle!AssignedDriverIsFinal

(***************************************************************************)
(* Every order is eventually dispatched, sent to manual dispatch or        *)
(* parked: retries in place, trips through the wait queue, the breaker and *)
(* the fallback never keep a message going round forever.                  *)
(***************************************************************************)
EveryOrderSettles ==
  \A o \in Orders :
     <>(row[o].status # "PENDING" \/ \E m \in parked : MsgOrder[m] = o)
=============================================================================
