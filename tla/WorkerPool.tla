----------------------------- MODULE WorkerPool -----------------------------
(***************************************************************************)
(* consumer.Start in one worker process: the channel to RabbitMQ with its  *)
(* prefetch window, the client library's buffer in front of the Go channel *)
(* msgs, the goroutines that range over msgs, the WaitGroup, and main,     *)
(* which starts all that in a goroutine of its own and waits for SIGTERM.  *)
(* What a handler does, and where a settled delivery goes, is in Consumer. *)
(***************************************************************************)
EXTENDS Naturals, FiniteSets

CONSTANTS Messages,   \* what is published to the queue
          Workers,    \* goroutines of the pool (10)
          NoMessage,
          MaxPanics,  \* bound: handlers that panic
          Faults

FaultKinds == {"conn",      \* the AMQP connection is lost
               "shutdown"}  \* SIGTERM

ASSUME PoolAssumption ==
  /\ IsFiniteSet(Workers)
  /\ IsFiniteSet(Messages)
  /\ NoMessage \notin Messages
  /\ MaxPanics \in Nat
  /\ Faults \subseteq FaultKinds

VARIABLES
  place,    \* RabbitMQ: where a message is
  channel,  \* the AMQP channel is open
  buffer,   \* deliveries in the client library
  msgs,     \* the Go channel msgs is open
  worker,   \* goroutine: its state
  held,     \* goroutine: the delivery it was given
  wg,       \* counter of the WaitGroup
  start,    \* Start: the goroutine that runs it
  main      \* main: before the signal, after it, returned

vars == <<place, channel, buffer, msgs, worker, held, wg, start, main>>

Running  == {w \in Workers : worker[w] \in {"receive", "handle"}}
Panicked == {w \in Workers : worker[w] = "panicked"}
Unacked  == {m \in Messages : place[m] = "unacked"}

TypeOK ==
  /\ place \in [Messages -> {"queue", "unacked", "settled"}]
  /\ channel \in BOOLEAN
  /\ buffer \subseteq Messages
  /\ msgs \in BOOLEAN
  /\ worker \in [Workers -> {"receive", "handle", "panicked", "stopped"}]
  /\ held \in [Workers -> Messages \cup {NoMessage}]
  /\ \A w \in Workers : held[w] # NoMessage <=> worker[w] \in {"handle", "panicked"}
  /\ wg = Cardinality(Running)
  /\ start \in {"consume", "wait", "returned"}
  /\ main \in {"wait", "signalled", "returned"}

Init ==
  /\ place = [m \in Messages |-> "queue"]
  /\ channel = TRUE
  /\ buffer = {}
  /\ msgs = TRUE
  /\ worker = [w \in Workers |-> "receive"]
  /\ held = [w \in Workers |-> NoMessage]
  /\ wg = Cardinality(Workers)
  /\ start = "consume"
  /\ main = "wait"

Alive == main # "returned"

-----------------------------------------------------------------------------
\* Mutant of PrefetchCount: fewer deliveries than goroutines.
PrefetchTooSmall == Cardinality(Workers) - 1
PrefetchCount == 2 * Cardinality(Workers)

\* RabbitMQ sends a message as long as the window is not full.
Push(m) ==
  /\ channel
  /\ place[m] = "queue"
  /\ Cardinality(Unacked) < PrefetchCount
  /\ place' = [place EXCEPT ![m] = "unacked"]
  /\ buffer' = buffer \cup {m}
  /\ UNCHANGED <<channel, msgs, worker, held, wg, start, main>>

Receive(w) ==
  /\ Alive
  /\ worker[w] = "receive"
  /\ msgs
  /\ \E m \in buffer : /\ buffer' = buffer \ {m}
                       /\ held' = [held EXCEPT ![w] = m]
  /\ worker' = [worker EXCEPT ![w] = "handle"]
  /\ UNCHANGED <<place, channel, msgs, wg, start, main>>

\* handleMessage returns.  The broker takes the ack or nack of an open channel.
Settle(w) ==
  /\ Alive
  /\ worker[w] = "handle"
  /\ place' = IF channel THEN [place EXCEPT ![held[w]] = "settled"] ELSE place
  /\ held' = [held EXCEPT ![w] = NoMessage]
  /\ worker' = [worker EXCEPT ![w] = "receive"]
  /\ UNCHANGED <<channel, buffer, msgs, wg, start, main>>

\* Mutant of AfterPanic: wg.Done is not deferred, a panic passes it by.
NotDone == wg
AfterPanic == wg - 1

\* recover ends the goroutine, not the process; nobody settles the delivery.
Panic(w) ==
  /\ Alive
  /\ worker[w] = "handle"
  /\ Cardinality(Panicked) < MaxPanics
  /\ worker' = [worker EXCEPT ![w] = "panicked"]
  /\ wg' = AfterPanic
  /\ UNCHANGED <<place, channel, buffer, msgs, held, start, main>>

\* The range over msgs ends.
Stop(w) ==
  /\ Alive
  /\ worker[w] = "receive"
  /\ ~msgs
  /\ worker' = [worker EXCEPT ![w] = "stopped"]
  /\ wg' = wg - 1
  /\ UNCHANGED <<place, channel, buffer, msgs, held, start, main>>

-----------------------------------------------------------------------------
\* The broker returns what a closed channel has not settled.
Requeue == place' = [m \in Messages |-> IF place[m] = "unacked" THEN "queue" ELSE place[m]]

\* The library drops its buffer and closes msgs some time after the channel
\* was closed; until then it still hands out deliveries.
CloseMsgs ==
  /\ Alive
  /\ ~channel
  /\ msgs
  /\ msgs' = FALSE
  /\ buffer' = {}
  /\ UNCHANGED <<place, channel, worker, held, wg, start, main>>

\* Nothing reopens the channel, and Start goes on waiting for the signal.
LoseConnection ==
  /\ "conn" \in Faults
  /\ channel
  /\ channel' = FALSE
  /\ Requeue
  /\ UNCHANGED <<buffer, msgs, worker, held, wg, start, main>>

Signal ==
  /\ "shutdown" \in Faults
  /\ main = "wait"
  /\ main' = "signalled"
  /\ UNCHANGED <<place, channel, buffer, msgs, worker, held, wg, start>>

\* Mutant of ClosedByStart: the channel is left to the deferred Close.
ClosedAtReturn == channel
ClosedByStart == FALSE

\* Start: ctx.Done, then ch.Close.
CloseChannel ==
  /\ main = "signalled"
  /\ start = "consume"
  /\ start' = "wait"
  /\ channel' = ClosedByStart
  /\ IF channel' THEN UNCHANGED place ELSE Requeue
  /\ UNCHANGED <<buffer, msgs, worker, held, wg, main>>

\* Mutant of AllDone: wg.Wait is left out.
NoWait == TRUE
AllDone == wg = 0

\* Start: wg.Wait.
Return ==
  /\ Alive
  /\ start = "wait"
  /\ AllDone
  /\ start' = "returned"
  /\ UNCHANGED <<place, channel, buffer, msgs, worker, held, wg, main>>

\* main does not wait for Start; the process ends with all its goroutines.
MainReturns ==
  /\ main = "signalled"
  /\ main' = "returned"
  /\ channel' = FALSE
  /\ Requeue
  /\ UNCHANGED <<buffer, msgs, worker, held, wg, start>>

Handle(w) == Receive(w) \/ Settle(w) \/ Panic(w) \/ Stop(w)
Shutdown  == CloseMsgs \/ CloseChannel \/ Return

Next ==
  \/ \E m \in Messages : Push(m)
  \/ \E w \in Workers : Handle(w)
  \/ Shutdown \/ LoseConnection \/ Signal \/ MainReturns

Spec == Init /\ [][Next]_vars

\* The goroutines run and every handler returns, since its calls end with the
\* context.  Nothing is assumed of main: that would make a shutdown short.
Fairness ==
  /\ \A m \in Messages : WF_vars(Push(m))
  /\ \A w \in Workers : WF_vars(Handle(w))
  /\ WF_vars(Shutdown)

FairSpec == Spec /\ Fairness

-----------------------------------------------------------------------------
(***************************************************************************)
(* When Start has returned, no goroutine of the pool is left in a handler  *)
(* and everything the process had taken without settling it is back in     *)
(* the queue, goroutines that panicked included.                           *)
(***************************************************************************)
ShutdownIsClean ==
  start = "returned" => Running = {} /\ Unacked = {}

(***************************************************************************)
(* The prefetch window is never the reason that a goroutine waits: while   *)
(* one has nothing to take from the buffer, the broker may send, whatever  *)
(* the others hold that are in a handler or have panicked, whose           *)
(* deliveries count against the window for good.                           *)
(***************************************************************************)
IdleIsServed ==
  \A w \in Workers :
     channel /\ worker[w] = "receive" /\ buffer = {} => Cardinality(Unacked) < PrefetchCount

(***************************************************************************)
(* Start never hangs in wg.Wait: the signal leads to its return, although  *)
(* goroutines have panicked, the connection may be gone already and the    *)
(* library still hands out deliveries - unless main returns before.        *)
(***************************************************************************)
StartReturns ==
  main = "signalled" ~> start = "returned" \/ main = "returned"

(***************************************************************************)
(* As long as one goroutine is left and the channel is open, no message    *)
(* waits for ever: the deliveries of goroutines that panicked, which are   *)
(* never settled, do not fill the prefetch window.  Nothing replaces a     *)
(* goroutine, reopens the channel or tells main when this has come to an   *)
(* end.                                                                    *)
(***************************************************************************)
QueueDrains ==
  \A m \in Messages :
     <>(\/ place[m] = "settled"
        \/ \E w \in Panicked : held[w] = m
        \/ Panicked = Workers
        \/ ~channel)
=============================================================================
