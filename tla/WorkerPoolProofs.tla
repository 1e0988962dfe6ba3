-------------------------- MODULE WorkerPoolProofs --------------------------
(***************************************************************************)
(* Theorems about WorkerPool, for any number of goroutines and messages,   *)
(* any number of panics and any faults.                                    *)
(***************************************************************************)
EXTENDS WorkerPool, FiniteSetTheorems, TLAPS

\* Start waits only after it has closed the channel.
WaitsOnClosed == start # "consume" => ~channel

\* A closed channel holds no delivery at the broker.
NothingUnackedOnClosed == ~channel => Unacked = {}

\* Start returns only when the counter is zero, and nothing raises it again.
ReturnsAtZero == start = "returned" => wg = 0

IInv == TypeOK /\ WaitsOnClosed /\ NothingUnackedOnClosed /\ ReturnsAtZero

-----------------------------------------------------------------------------
\* The counter follows the goroutines: one that ends is taken off both.
LEMMA RunningIsFinite == IsFiniteSet(Running) /\ (Cardinality(Running) = 0 <=> Running = {})
<1>1. Running \subseteq Workers /\ IsFiniteSet(Workers)
  BY PoolAssumption DEF Running
<1>2. IsFiniteSet(Running)
  BY <1>1, FS_Subset
<1>3. QED
  BY <1>2, FS_EmptySet

LEMMA OneLess ==
  ASSUME NEW w \in Running
  PROVE  Cardinality(Running \ {w}) = Cardinality(Running) - 1
BY RunningIsFinite, FS_RemoveElement

\* Requeue leaves nothing unacknowledged and every message somewhere.
LEMMA RequeueEmpties ==
  ASSUME TypeOK, Requeue
  PROVE  /\ place' \in [Messages -> {"queue", "unacked", "settled"}]
         /\ Unacked' = {}
BY DEF TypeOK, Requeue, Unacked

-----------------------------------------------------------------------------
LEMMA InitIInv == Init => IInv
<1>1. ASSUME Init PROVE Running = Workers
  BY <1>1 DEF Init, Running
<1>2. ASSUME Init PROVE Unacked = {}
  BY <1>2 DEF Init, Unacked
<1>3. QED
  BY <1>1, <1>2 DEF Init, IInv, TypeOK, WaitsOnClosed, NothingUnackedOnClosed, ReturnsAtZero

\* The parts of the invariant a step leaves alone if it leaves the pool alone.
LEMMA PoolUntouched ==
  ASSUME TypeOK, UNCHANGED <<worker, held, wg>>
  PROVE  /\ worker' \in [Workers -> {"receive", "handle", "panicked", "stopped"}]
         /\ held' \in [Workers -> Messages \cup {NoMessage}]
         /\ \A w \in Workers : held'[w] # NoMessage <=> worker'[w] \in {"handle", "panicked"}
         /\ wg' = Cardinality(Running)'
         /\ Running' = Running
BY DEF TypeOK, Running

LEMMA PushStep ==
  ASSUME IInv, NEW m \in Messages, Push(m)
  PROVE  IInv'
<1> USE DEF IInv
<1>1. TypeOK'
  BY PoolUntouched DEF TypeOK, Push
<1>2. WaitsOnClosed' /\ NothingUnackedOnClosed' /\ ReturnsAtZero'
  BY DEF Push, WaitsOnClosed, NothingUnackedOnClosed, ReturnsAtZero
<1>3. QED
  BY <1>1, <1>2

LEMMA ReceiveStep ==
  ASSUME IInv, NEW w \in Workers, Receive(w)
  PROVE  IInv'
<1> USE DEF IInv
<1>1. PICK m \in buffer : buffer' = buffer \ {m} /\ held' = [held EXCEPT ![w] = m]
  BY DEF Receive
<1>2. m \in Messages /\ m # NoMessage
  BY <1>1, PoolAssumption DEF TypeOK
<1>3. Running' = Running /\ Unacked' = Unacked
  BY DEF Receive, Running, Unacked, TypeOK
<1>4. TypeOK'
  BY <1>1, <1>2, <1>3 DEF TypeOK, Receive
<1>5. WaitsOnClosed' /\ NothingUnackedOnClosed' /\ ReturnsAtZero'
  BY <1>3 DEF Receive, WaitsOnClosed, NothingUnackedOnClosed, ReturnsAtZero
<1>6. QED
  BY <1>4, <1>5

LEMMA SettleStep ==
  ASSUME IInv, NEW w \in Workers, Settle(w)
  PROVE  IInv'
<1> USE DEF IInv
<1>1. Running' = Running
  BY DEF Settle, Running, TypeOK
<1>2. place' \in [Messages -> {"queue", "unacked", "settled"}] /\ Unacked' \subseteq Unacked
  BY DEF Settle, Unacked, TypeOK
<1>3. TypeOK'
  BY <1>1, <1>2 DEF TypeOK, Settle
<1>4. WaitsOnClosed' /\ NothingUnackedOnClosed' /\ ReturnsAtZero'
  BY <1>2 DEF Settle, WaitsOnClosed, NothingUnackedOnClosed, ReturnsAtZero
<1>5. QED
  BY <1>3, <1>4

\* A goroutine that ends was running, so the counter was not zero.
LEMMA GoroutineEnds ==
  ASSUME IInv, NEW w \in Running, Running' = Running \ {w}, wg' = wg - 1, UNCHANGED start
  PROVE  wg' = Cardinality(Running') /\ ReturnsAtZero'
<1>1. wg = Cardinality(Running) /\ wg # 0
  BY RunningIsFinite DEF IInv, TypeOK
<1>2. wg' = Cardinality(Running')
  BY <1>1, OneLess
<1>3. start # "returned"
  BY <1>1 DEF IInv, ReturnsAtZero
<1>4. QED
  BY <1>2, <1>3 DEF ReturnsAtZero

LEMMA PanicStep ==
  ASSUME IInv, NEW w \in Workers, Panic(w)
  PROVE  IInv'
<1> USE DEF IInv
<1>1. w \in Running /\ Running' = Running \ {w}
  BY DEF Panic, Running, TypeOK
<1>2. wg' = Cardinality(Running') /\ ReturnsAtZero'
  BY <1>1, GoroutineEnds DEF Panic, AfterPanic
<1>3. TypeOK'
  BY <1>2 DEF TypeOK, Panic
<1>4. WaitsOnClosed' /\ NothingUnackedOnClosed'
  BY DEF Panic, WaitsOnClosed, NothingUnackedOnClosed, Unacked
<1>5. QED
  BY <1>2, <1>3, <1>4

LEMMA StopStep ==
  ASSUME IInv, NEW w \in Workers, Stop(w)
  PROVE  IInv'
<1> USE DEF IInv
<1>1. w \in Running /\ Running' = Running \ {w}
  BY DEF Stop, Running, TypeOK
<1>2. wg' = Cardinality(Running') /\ ReturnsAtZero'
  BY <1>1, GoroutineEnds DEF Stop
<1>3. TypeOK'
  BY <1>2 DEF TypeOK, Stop
<1>4. WaitsOnClosed' /\ NothingUnackedOnClosed'
  BY DEF Stop, WaitsOnClosed, NothingUnackedOnClosed, Unacked
<1>5. QED
  BY <1>2, <1>3, <1>4

\* The steps that close the channel or shut the pool down.
LEMMA ProcessStep ==
  ASSUME IInv,
         CloseMsgs \/ CloseChannel \/ Return \/ LoseConnection \/ Signal \/ MainReturns
  PROVE  IInv'
<1> USE DEF IInv
<1>1. UNCHANGED <<worker, held, wg>>
  BY DEF CloseMsgs, CloseChannel, Return, LoseConnection, Signal, MainReturns
<1>2. CASE CloseMsgs
  BY <1>1, <1>2, PoolUntouched
     DEF TypeOK, CloseMsgs, WaitsOnClosed, NothingUnackedOnClosed, ReturnsAtZero, Unacked
<1>3. CASE CloseChannel
  <2>1. Requeue /\ channel' = FALSE /\ start' = "wait"
    BY <1>3 DEF CloseChannel, ClosedByStart
  <2>2. QED
    BY <1>1, <1>3, <2>1, PoolUntouched, RequeueEmpties
       DEF TypeOK, CloseChannel, WaitsOnClosed, NothingUnackedOnClosed, ReturnsAtZero
<1>4. CASE Return
  BY <1>1, <1>4, PoolUntouched
     DEF TypeOK, Return, AllDone, WaitsOnClosed, NothingUnackedOnClosed, ReturnsAtZero, Unacked
<1>5. CASE LoseConnection
  BY <1>1, <1>5, PoolUntouched, RequeueEmpties
     DEF TypeOK, LoseConnection, WaitsOnClosed, NothingUnackedOnClosed, ReturnsAtZero
<1>6. CASE Signal
  BY <1>1, <1>6, PoolUntouched
     DEF TypeOK, Signal, WaitsOnClosed, NothingUnackedOnClosed, ReturnsAtZero, Unacked
<1>7. CASE MainReturns
  BY <1>1, <1>7, PoolUntouched, RequeueEmpties
     DEF TypeOK, MainReturns, WaitsOnClosed, NothingUnackedOnClosed, ReturnsAtZero
<1>8. QED
  BY <1>2, <1>3, <1>4, <1>5, <1>6, <1>7

LEMMA NextIInv == IInv /\ [Next]_vars => IInv'
<1> SUFFICES ASSUME IInv, [Next]_vars PROVE IInv'
  OBVIOUS
<1>1. CASE UNCHANGED vars
  BY <1>1 DEF vars, IInv, TypeOK, WaitsOnClosed, NothingUnackedOnClosed, ReturnsAtZero,
              Running, Unacked
<1>2. CASE \E m \in Messages : Push(m)
  BY <1>2, PushStep
<1>3. CASE \E w \in Workers : Handle(w)
  BY <1>3, ReceiveStep, SettleStep, PanicStep, StopStep DEF Handle
<1>4. CASE Shutdown \/ LoseConnection \/ Signal \/ MainReturns
  BY <1>4, ProcessStep DEF Shutdown
<1>5. QED
  BY <1>1, <1>2, <1>3, <1>4 DEF Next

-----------------------------------------------------------------------------
THEOREM Invariant == Spec => []IInv
<1>1. Init => IInv
  BY InitIInv
<1>2. IInv /\ [Next]_vars => IInv'
  BY NextIInv
<1>3. QED
  BY <1>1, <1>2, PTL DEF Spec

(***************************************************************************)
(* The WaitGroup counts the goroutines that run, however many of them end  *)
(* in a panic (startWorker), besides the types.                            *)
(***************************************************************************)
THEOREM TypeCorrect == Spec => []TypeOK
<1>1. IInv => TypeOK
  BY DEF IInv
<1>2. QED
  BY <1>1, Invariant, PTL

(***************************************************************************)
(* Start returns only when its goroutines have ended and what they had not *)
(* settled is back in the queue.                                           *)
(***************************************************************************)
THEOREM ShutdownLeavesNothing == Spec => []ShutdownIsClean
<1>1. IInv => ShutdownIsClean
  <2> SUFFICES ASSUME IInv, start = "returned" PROVE Running = {} /\ Unacked = {}
    BY DEF ShutdownIsClean
  <2>1. Cardinality(Running) = 0 /\ ~channel
    BY DEF IInv, TypeOK, WaitsOnClosed, ReturnsAtZero
  <2>2. QED
    BY <2>1, RunningIsFinite DEF IInv, NothingUnackedOnClosed
<1>2. QED
  BY <1>1, Invariant, PTL

-----------------------------------------------------------------------------
(***************************************************************************)
(* The window.  As long as the channel is open, what the broker has sent   *)
(* and nobody has settled is in the buffer or in the hands of a goroutine, *)
(* one delivery each, so that an idle goroutine leaves room.               *)
(***************************************************************************)
InHands == {held[w] : w \in Workers}

Accounted == channel => Unacked \subseteq buffer \cup InHands

LEMMA ReceiveAccounts ==
  ASSUME TypeOK, Accounted, NEW w \in Workers, Receive(w)
  PROVE  Accounted'
<1>1. PICK m \in buffer : buffer' = buffer \ {m} /\ held' = [held EXCEPT ![w] = m]
  BY DEF Receive
<1>2. Unacked' = Unacked /\ UNCHANGED channel /\ held[w] = NoMessage
  BY DEF Receive, Unacked, TypeOK
<1>3. \A x \in InHands : x = NoMessage \/ x \in InHands'
  <2> SUFFICES ASSUME NEW v \in Workers, held[v] # NoMessage PROVE held[v] \in InHands'
    BY DEF InHands
  <2>1. held'[v] = held[v]
    BY <1>1, <1>2 DEF TypeOK
  <2> QED
    BY <2>1 DEF InHands
<1>4. m \in InHands'
  <2>1. held'[w] = m
    BY <1>1 DEF TypeOK
  <2> QED
    BY <2>1 DEF InHands
<1>5. NoMessage \notin Unacked
  BY PoolAssumption DEF Unacked
<1> QED
  BY <1>1, <1>2, <1>3, <1>4, <1>5 DEF Accounted

LEMMA SettleAccounts ==
  ASSUME TypeOK, Accounted, NEW w \in Workers, Settle(w)
  PROVE  Accounted'
<1> SUFFICES ASSUME channel, NEW x \in Unacked' PROVE x \in buffer' \cup InHands'
  BY DEF Accounted, Settle
<1>1. x \in Unacked /\ x # held[w]
  BY DEF Settle, Unacked, TypeOK
<1>2. CASE x \in buffer
  BY <1>2 DEF Settle
<1>3. ASSUME NEW v \in Workers, x = held[v] PROVE x \in InHands'
  <2>1. held'[v] = x
    BY <1>1, <1>3 DEF Settle, TypeOK
  <2> QED
    BY <2>1 DEF InHands
<1> QED
  BY <1>1, <1>2, <1>3 DEF Accounted, InHands

LEMMA AccountedStep == TypeOK /\ Accounted /\ [Next]_vars => Accounted'
<1> SUFFICES ASSUME TypeOK, Accounted, [Next]_vars PROVE Accounted'
  OBVIOUS
<1>1. CASE \E m \in Messages : Push(m)
  BY <1>1 DEF Push, Accounted, InHands, Unacked, TypeOK
<1>2. CASE \E w \in Workers : Receive(w) \/ Settle(w)
  BY <1>2, ReceiveAccounts, SettleAccounts
<1>3. ASSUME UNCHANGED <<place, buffer, held>>, channel' => channel PROVE Accounted'
  BY <1>3 DEF Accounted, InHands, Unacked
<1>4. CASE \E w \in Workers : Panic(w) \/ Stop(w)
  BY <1>3, <1>4 DEF Panic, Stop
<1>5. CASE Return \/ Signal \/ UNCHANGED vars
  BY <1>3, <1>5 DEF Return, Signal, vars
<1>6. CASE CloseMsgs \/ LoseConnection \/ CloseChannel \/ MainReturns
  BY <1>6 DEF CloseMsgs, LoseConnection, CloseChannel, ClosedByStart, MainReturns, Accounted
<1> QED
  BY <1>1, <1>2, <1>4, <1>5, <1>6 DEF Next, Handle, Shutdown

LEMMA IdleLeavesRoom == TypeOK /\ Accounted => IdleIsServed
<1> SUFFICES ASSUME TypeOK, Accounted, NEW w \in Workers,
                    channel, worker[w] = "receive", buffer = {}
             PROVE  Cardinality(Unacked) < PrefetchCount
  BY DEF IdleIsServed
<1> DEFINE Others == Workers \ {w}
           Theirs == {held[v] : v \in Others}
<1>1. Unacked \subseteq Theirs
  <2>1. held[w] = NoMessage
    BY DEF TypeOK
  <2> QED
    BY <2>1, PoolAssumption DEF Accounted, InHands, Unacked
<1>2. /\ IsFiniteSet(Others)
      /\ Cardinality(Others) = Cardinality(Workers) - 1
      /\ Cardinality(Workers) \in Nat
  BY PoolAssumption, FS_RemoveElement, FS_CardinalityType
<1>3. IsFiniteSet(Theirs) /\ Cardinality(Theirs) <= Cardinality(Others)
  <2> DEFINE delivery == [v \in Others |-> held[v]]
  <2>1. delivery \in Surjection(Others, Theirs)
    BY DEF Surjection
  <2> QED
    BY <1>2, <2>1, FS_Surjection
<1>4. /\ Cardinality(Unacked) <= Cardinality(Theirs)
      /\ Cardinality(Unacked) \in Nat
      /\ Cardinality(Theirs) \in Nat
  BY <1>1, <1>3, FS_Subset, FS_CardinalityType
<1>5. Cardinality(Others) \in Nat
  BY <1>2, FS_CardinalityType
<1> HIDE DEF Others, Theirs
<1> QED
  BY <1>2, <1>3, <1>4, <1>5 DEF PrefetchCount

(***************************************************************************)
(* No goroutine idles behind a full window (Qos in consumer.Start), for    *)
(* any pool, however many of its goroutines have panicked.                 *)
(***************************************************************************)
THEOREM WindowLeavesRoom == Spec => []IdleIsServed
<1>1. Init => Accounted
  BY DEF Init, Accounted, Unacked
<1> QED
  BY <1>1, AccountedStep, IdleLeavesRoom, TypeCorrect, PTL DEF Spec
=============================================================================
