--------------------------- MODULE ConsumerProofs ---------------------------
(***************************************************************************)
(* Proofs about Consumer, for any number of orders, copies, goroutines and *)
(* processes and any limits.  A theorem that leaves a fault out assumes so *)
(* by name.                                                                *)
(***************************************************************************)
EXTENDS Consumer, TLAPS

(***************************************************************************)
(* Every variable keeps its type; a goroutine holds a delivery exactly     *)
(* while it is in handleMessage.                                           *)
(***************************************************************************)
LEMMA TypeInit == Init => TypeOK
BY ConsumerAssumption DEF Init, TypeOK, ConsumerAssumption, Row, Status, Steps, Guarded, InBreaker

LEMMA WriteType ==
  ASSUME TypeOK, NEW o \in Orders, NEW s \in Status, NEW d \in Drivers \cup {NoDriver}
  PROVE  Write(o, s, d) \in [Orders -> Row]
<1>1. [status |-> s, driver |-> d] \in Row
  BY DEF Row
<1> QED
  BY <1>1 DEF TypeOK, Write

LEMMA ReportType ==
  ASSUME TypeOK, NEW t \in Threads, NEW states, Report(t, states),
         states \subseteq {"closed", "open", "half"}
  PROVE  /\ breaker' \in [Procs -> {"closed", "open", "half"}]
         /\ late' \in [Threads -> BOOLEAN]
BY DEF TypeOK, Report

LEMMA OutcomeType ==
  ASSUME TypeOK, NEW p \in Procs
  PROVE  /\ Success(breaker[p]) \subseteq {"closed", "open", "half"}
         /\ Failure(breaker[p]) \subseteq {"closed", "open", "half"}
BY DEF TypeOK, Success, Failure

LEMMA TypeHandle ==
  ASSUME TypeOK, NEW t \in Threads, Handle(t)
  PROVE  TypeOK'
<1> USE ConsumerAssumption DEF ConsumerAssumption
<1>1. msg[t] \in Msgs /\ pc[t] # "idle" /\ Key(t) \in Orders /\ ProcOf[t] \in Procs
  BY DEF TypeOK, Handle, Key, GuardSetNX, Admit, IdemSetNX, SearchDriver, FindOrder,
         UpdateOrder, DelIdem, DelDedup, Backoff, FallbackFind, FallbackUpdate,
         NackToWait, Park, ParkFails, Ack
<1>2. CASE GuardSetNX(t)
  BY <1>1, <1>2 DEF TypeOK, GuardSetNX, Goto, FailWith, KeyFree, Steps, Guarded, InBreaker,
     brokerVars, procVars
<1>3. CASE Admit(t)
  BY <1>1, <1>3 DEF TypeOK, Admit, Goto, FailWith, Steps, Guarded, InBreaker,
     redisVars, brokerVars, procVars
<1>4. CASE IdemSetNX(t)
  <2>1. late' \in [Threads -> BOOLEAN] /\ breaker' \in [Procs -> {"closed", "open", "half"}]
    BY <1>1, <1>4, ReportType, OutcomeType DEF TypeOK, IdemSetNX
  <2> QED
    BY <1>1, <1>4, <2>1 DEF TypeOK, IdemSetNX, Goto, FailWith, Steps, Guarded, InBreaker, brokerVars
<1>5. CASE SearchDriver(t)
  BY <1>1, <1>5 DEF TypeOK, SearchDriver, Goto, FailWith, Steps, Guarded, InBreaker,
     redisVars, brokerVars, procVars
<1>6. CASE FindOrder(t)
  BY <1>1, <1>6 DEF TypeOK, FindOrder, Goto, FailWith, Steps, Guarded, InBreaker,
     redisVars, brokerVars, procVars
<1>7. CASE UpdateOrder(t)
  <2>1. late' \in [Threads -> BOOLEAN] /\ breaker' \in [Procs -> {"closed", "open", "half"}]
    BY <1>1, <1>7, ReportType, OutcomeType DEF TypeOK, UpdateOrder
  <2>2. Write(Key(t), "DISPATCHED", drv[t]) \in [Orders -> Row]
    BY <1>1, WriteType DEF TypeOK, Status
  <2>3. row' \in [Orders -> Row]
    BY <1>7, <2>2 DEF TypeOK, UpdateOrder
  <2> QED
    BY <1>1, <1>7, <2>1, <2>3 DEF TypeOK, UpdateOrder, Goto, FailWith, Steps, Guarded,
       InBreaker, redisVars, brokerVars
<1>8. CASE DelIdem(t)
  <2>1. late' \in [Threads -> BOOLEAN] /\ breaker' \in [Procs -> {"closed", "open", "half"}]
    BY <1>1, <1>8, ReportType, OutcomeType DEF TypeOK, DelIdem
  <2> QED
    BY <1>1, <1>8, <2>1 DEF TypeOK, DelIdem, WithoutIdem, Goto, Steps, Guarded, InBreaker, brokerVars
<1>9. CASE DelDedup(t)
  BY <1>1, <1>9 DEF TypeOK, DelDedup, WithoutDedup, Goto, Steps, Guarded, InBreaker,
     brokerVars, procVars
<1>10. CASE Backoff(t)
  BY <1>1, <1>10 DEF TypeOK, Backoff, MoreAttempts, Goto, FailWith, Steps, Guarded, InBreaker,
     redisVars, brokerVars, procVars
<1>11. CASE FallbackFind(t)
  <2>1. row[Key(t)].driver \in Drivers \cup {NoDriver}
    BY <1>1 DEF TypeOK, Row
  <2> QED
    BY <1>1, <1>11, <2>1 DEF TypeOK, FallbackFind, Goto, Steps, Guarded, InBreaker,
       redisVars, brokerVars, procVars
<1>12. CASE FallbackUpdate(t)
  <2>1. Write(Key(t), "MANUAL_DISPATCH", drv[t]) \in [Orders -> Row]
    BY <1>1, WriteType DEF TypeOK, Status
  <2>2. row' \in [Orders -> Row]
    BY <1>12, <2>1 DEF TypeOK, FallbackUpdate
  <2> QED
    BY <1>1, <1>12, <2>2 DEF TypeOK, FallbackUpdate, Goto, Steps, Guarded, InBreaker,
       redisVars, brokerVars, procVars
<1>13. CASE NackToWait(t)
  BY <1>1, <1>13 DEF TypeOK, NackToWait, Rejected, Tell, Finish, FailWith, Goto, Steps, Guarded, InBreaker,
     redisVars, procVars
<1>14. CASE Park(t)
  BY <1>1, <1>14 DEF TypeOK, Park, Goto, Steps, Guarded, InBreaker,
     redisVars, procVars
<1>15. CASE ParkFails(t)
  BY <1>1, <1>15 DEF TypeOK, ParkFails, Tell, Finish, FailWith, Goto, Steps, Guarded, InBreaker,
     redisVars, procVars
<1>16. CASE Ack(t)
  BY <1>1, <1>16 DEF TypeOK, Ack, Tell, Finish, FailWith, Goto, Steps, Guarded, InBreaker,
     redisVars, procVars
<1> QED
  BY <1>2, <1>3, <1>4, <1>5, <1>6, <1>7, <1>8, <1>9, <1>10, <1>11, <1>12, <1>13,
     <1>14, <1>15, <1>16 DEF Handle

LEMMA TypeEnvironment ==
  ASSUME TypeOK,
         \/ \E t \in Threads, m \in Msgs : Deliver(t, m)
         \/ \E t \in Threads : Timeout(t) \/ Resend(t) \/ Panic(t)
         \/ \E m \in Msgs : WaitExpire(m)
         \/ \E p \in Procs : \/ BreakerTimeout(p) \/ LoseChannel(p)
                             \/ BeginShutdown(p) \/ Exit(p) \/ Start(p)
  PROVE  TypeOK'
<1> USE ConsumerAssumption DEF ConsumerAssumption
<1>1. CASE \E t \in Threads, m \in Msgs : Deliver(t, m)
  BY <1>1 DEF TypeOK, Deliver, Goto, Steps, redisVars, procVars
<1>2. CASE \E t \in Threads : Timeout(t)
  BY <1>2 DEF TypeOK, Timeout, Resend, redisVars, brokerVars, procVars
<1>3. CASE \E m \in Msgs : WaitExpire(m)
  BY <1>3 DEF TypeOK, WaitExpire, redisVars, procVars
<1>4. CASE \E p \in Procs : BreakerTimeout(p)
  BY <1>4 DEF TypeOK, BreakerTimeout, redisVars, brokerVars
<1>5. CASE \E p \in Procs : LoseChannel(p)
  BY <1>5 DEF TypeOK, LoseChannel, Requeue, redisVars
<1>6. CASE \E p \in Procs : BeginShutdown(p)
  BY <1>6 DEF TypeOK, BeginShutdown, redisVars, brokerVars
<1>7. CASE \E p \in Procs : Exit(p)
  <2>1. PICK p \in Procs : Exit(p)
    BY <1>7
  <2>2. \A t \in Threads : pc'[t] # "idle" <=> msg'[t] # NoMsg
    BY <2>1 DEF TypeOK, Exit
  <2>3. pc' \in [Threads -> Steps] /\ msg' \in [Threads -> Msgs \cup {NoMsg}]
    BY <2>1 DEF TypeOK, Exit, Steps
  <2>4. /\ attempt' \in [Threads -> 0..BackoffRetries]
        /\ err' \in [Threads -> {"none", "open", "other"}]
        /\ drv' \in [Threads -> Drivers \cup {NoDriver}]
        /\ late' \in [Threads -> BOOLEAN]
    <3>1. attempt' \in [Threads -> 0..BackoffRetries]
      <4>1. 0 \in 0..BackoffRetries
        OBVIOUS
      <4> QED
        BY <2>1, <4>1 DEF TypeOK, Exit
    <3>2. err' \in [Threads -> {"none", "open", "other"}]
      BY <2>1 DEF TypeOK, Exit
    <3>3. drv' \in [Threads -> Drivers \cup {NoDriver}]
      BY <2>1 DEF TypeOK, Exit
    <3>4. late' \in [Threads -> BOOLEAN]
      BY <2>1 DEF TypeOK, Exit
    <3> QED
      BY <3>1, <3>2, <3>3, <3>4
  <2>5. /\ queue' \in [Msgs -> {"main", "unacked", "wait", "gone"}]
        /\ proc' \in [Procs -> {"up", "stopping", "down"}]
        /\ chan' \in [Procs -> BOOLEAN]
        /\ breaker' \in [Procs -> {"closed", "open", "half"}]
    BY <2>1 DEF TypeOK, Exit, Requeue
  <2>6. UNCHANGED <<row, dedup, idem, deaths, parked>>
    BY <2>1 DEF Exit, redisVars
  <2> QED
    BY <2>2, <2>3, <2>4, <2>5, <2>6 DEF TypeOK
<1>8. CASE \E p \in Procs : Start(p)
  BY <1>8 DEF TypeOK, Start, redisVars, brokerVars
<1>9. CASE \E t \in Threads : Panic(t)
  <2>1. PICK t \in Threads : Panic(t)
    BY <1>9
  <2>2. late' \in [Threads -> BOOLEAN] /\ breaker' \in [Procs -> {"closed", "open", "half"}]
    BY <2>1, ReportType, OutcomeType DEF TypeOK, Panic
  <2> QED
    BY <2>1, <2>2 DEF TypeOK, Panic, Goto, Steps, redisVars, brokerVars
<1>10. CASE \E t \in Threads : Resend(t)
  <2>1. PICK t \in Threads : Resend(t)
    BY <1>10
  <2>2. Key(t) \in Orders
    BY <2>1 DEF Resend, TypeOK, Key
  <2> QED
    BY <2>1, <2>2 DEF TypeOK, Resend, WithoutIdem, WithoutDedup, brokerVars, procVars
<1> QED
  BY <1>1, <1>2, <1>3, <1>4, <1>5, <1>6, <1>7, <1>8, <1>9, <1>10

LEMMA TypeStep == TypeOK /\ [Next]_vars => TypeOK'
<1> SUFFICES ASSUME TypeOK, [Next]_vars PROVE TypeOK'
  OBVIOUS
<1>1. CASE \E t \in Threads : Handle(t)
  BY <1>1, TypeHandle
<1>2. CASE Next /\ ~(\E t \in Threads : Handle(t))
  BY <1>2, TypeEnvironment DEF Next
<1>3. CASE UNCHANGED vars
  BY <1>3 DEF TypeOK, vars, redisVars, brokerVars, procVars
<1> QED
  BY <1>1, <1>2, <1>3

THEOREM TypeCorrect == Spec => []TypeOK
BY TypeInit, TypeStep, PTL DEF Spec

-----------------------------------------------------------------------------
(***************************************************************************)
(* The guard as a lock.  GuardExclusive is inductive given the types: a    *)
(* goroutine enters the guarded steps only by creating the key, and only   *)
(* the owner of a key, on its way out, removes it, once.  A client that    *)
(* repeats commands whose reply was lost may remove it again, when it is   *)
(* another's, and is left out.                                             *)
(***************************************************************************)
NothingResent == "resend" \notin Faults

LEMMA GuardKept ==
  ASSUME GuardExclusive,
         \A u \in Threads : pc'[u] \in Guarded =>
            /\ pc[u] \in Guarded
            /\ msg'[u] = msg[u]
            /\ Key(u) \in dedup'
  PROVE  GuardExclusive'
BY DEF GuardExclusive, Key

LEMMA GuardSetNXExclusive ==
  ASSUME TypeOK, GuardExclusive, NEW t \in Threads, GuardSetNX(t)
  PROVE  GuardExclusive'
<1>1. pc[t] = "guard" /\ UNCHANGED msg /\ dedup \subseteq dedup'
  BY DEF GuardSetNX
<1>2. \A u \in Threads : u # t => pc'[u] = pc[u]
  BY DEF GuardSetNX, Goto, TypeOK
<1>3. CASE pc'[t] \in Guarded
  <2>1. Key(t) \notin dedup /\ Key(t) \in dedup'
    BY <1>3 DEF GuardSetNX, KeyFree, Goto, TypeOK, Guarded, InBreaker
  <2>2. \A u \in Threads : pc[u] \in Guarded => Key(u) \in dedup /\ Key(u) # Key(t)
    BY <2>1 DEF GuardExclusive
  <2> QED
    BY <1>1, <1>2, <2>1, <2>2 DEF GuardExclusive, Key
<1>4. CASE pc'[t] \notin Guarded
  BY <1>1, <1>2, <1>4, GuardKept DEF GuardExclusive
<1> QED
  BY <1>3, <1>4

LEMMA DelDedupExclusive ==
  ASSUME TypeOK, GuardExclusive, NEW t \in Threads, DelDedup(t)
  PROVE  GuardExclusive'
<1>1. pc[t] \in Guarded /\ pc'[t] \notin Guarded /\ UNCHANGED msg
  BY DEF DelDedup, Goto, TypeOK, Guarded, InBreaker
<1>2. \A u \in Threads : u # t => pc'[u] = pc[u]
  BY DEF DelDedup, Goto, TypeOK
<1>3. dedup \ {Key(t)} \subseteq dedup'
  BY DEF DelDedup, WithoutDedup
<1>4. \A u \in Threads : u # t /\ pc[u] \in Guarded => Key(u) # Key(t)
  BY <1>1 DEF GuardExclusive
<1> QED
  BY <1>1, <1>2, <1>3, <1>4, GuardKept DEF GuardExclusive

\* The steps of a goroutine that neither enter the guarded steps nor touch a key.
LEMMA HandleExclusive ==
  ASSUME TypeOK, GuardExclusive, NEW t \in Threads, Handle(t)
  PROVE  GuardExclusive'
<1>1. CASE GuardSetNX(t)
  BY <1>1, GuardSetNXExclusive
<1>2. CASE DelDedup(t)
  BY <1>2, DelDedupExclusive
<1>3. CASE \/ Admit(t) \/ IdemSetNX(t) \/ SearchDriver(t) \/ FindOrder(t) \/ UpdateOrder(t)
           \/ DelIdem(t)
  <2>1. pc[t] \in Guarded
    BY <1>3 DEF Admit, IdemSetNX, SearchDriver, FindOrder, UpdateOrder, DelIdem, Guarded, InBreaker
  <2>2. /\ UNCHANGED <<msg, dedup>>
        /\ \A u \in Threads : u # t => pc'[u] = pc[u]
    BY <1>3 DEF Admit, IdemSetNX, SearchDriver, FindOrder, UpdateOrder, DelIdem, Goto, TypeOK,
       redisVars
  <2> QED
    BY <2>1, <2>2, GuardKept DEF GuardExclusive
<1>4. CASE \/ Backoff(t) \/ FallbackFind(t) \/ FallbackUpdate(t)
           \/ NackToWait(t) \/ Park(t) \/ ParkFails(t) \/ Ack(t)
  <2>1. pc'[t] \notin Guarded
    BY <1>4 DEF Backoff, FallbackFind, FallbackUpdate, NackToWait, Park, ParkFails, Ack,
       Finish, Goto, TypeOK, Guarded, InBreaker
  <2>2. /\ UNCHANGED dedup
        /\ \A u \in Threads : u # t => pc'[u] = pc[u] /\ msg'[u] = msg[u]
    BY <1>4 DEF Backoff, FallbackFind, FallbackUpdate, NackToWait, Park, ParkFails, Ack,
       Finish, Goto, TypeOK, redisVars
  <2> QED
    BY <2>1, <2>2, GuardKept DEF GuardExclusive
<1> QED
  BY <1>1, <1>2, <1>3, <1>4 DEF Handle

LEMMA EnvironmentExclusive ==
  ASSUME NothingResent, TypeOK, GuardExclusive, [Next]_vars, ~(\E t \in Threads : Handle(t))
  PROVE  GuardExclusive'
<1>1. CASE \E t \in Threads, m \in Msgs : Deliver(t, m)
  <2>1. PICK t \in Threads, m \in Msgs : Deliver(t, m)
    BY <1>1
  <2>2. pc'[t] \notin Guarded /\ UNCHANGED dedup
    BY <2>1 DEF Deliver, Goto, TypeOK, Guarded, InBreaker, redisVars
  <2>3. \A u \in Threads : u # t => pc'[u] = pc[u] /\ msg'[u] = msg[u]
    BY <2>1 DEF Deliver, Goto, TypeOK
  <2> QED
    BY <2>2, <2>3, GuardKept DEF GuardExclusive
<1>2. CASE \E p \in Procs : Exit(p)
  <2>1. PICK p \in Procs : Exit(p)
    BY <1>2
  <2>2. /\ UNCHANGED dedup
        /\ \A u \in Threads : \/ pc'[u] = "idle"
                              \/ pc'[u] = pc[u] /\ msg'[u] = msg[u]
    BY <2>1 DEF Exit, redisVars
  <2> QED
    BY <2>2, GuardKept DEF GuardExclusive, Guarded, InBreaker
<1>3. CASE UNCHANGED <<pc, msg, dedup>>
  BY <1>3, GuardKept DEF GuardExclusive
<1>4. CASE \E t \in Threads : Panic(t)
  <2>1. PICK t \in Threads : Panic(t)
    BY <1>4
  <2>2. /\ UNCHANGED <<dedup, msg>>
        /\ \A u \in Threads : pc'[u] = "dead" \/ pc'[u] = pc[u]
    BY <2>1 DEF Panic, Goto, TypeOK, redisVars
  <2> QED
    BY <2>2, GuardKept DEF GuardExclusive, Guarded, InBreaker
<1> QED
  BY <1>1, <1>2, <1>3, <1>4 DEF NothingResent, Next, Timeout, Resend, WaitExpire, BreakerTimeout,
     LoseChannel, BeginShutdown, Start, vars, redisVars

(***************************************************************************)
(* The guard is a lock, whatever fails, as long as no command is resent.   *)
(***************************************************************************)
THEOREM GuardIsLock ==
  ASSUME NothingResent
  PROVE  Spec => []GuardExclusive
<1>1. Init => GuardExclusive
  BY DEF Init, GuardExclusive, Guarded, InBreaker
<1>2. TypeOK /\ GuardExclusive /\ [Next]_vars => GuardExclusive'
  BY HandleExclusive, EnvironmentExclusive
<1> QED
  BY <1>1, <1>2, TypeCorrect, PTL DEF Spec

-----------------------------------------------------------------------------
(***************************************************************************)
(* The dispatch write is never stale.  Two kinds of writes could take the  *)
(* row away under a goroutine about to write: another dispatch of the same *)
(* order, excluded by the guard, and a fallback, which leaves the order    *)
(* in MANUAL_DISPATCH, where it may still be dispatched.                   *)
(***************************************************************************)
LEMMA FreshKept ==
  ASSUME DispatchNotStale,
         \A u \in Threads : pc'[u] = "update" =>
            /\ pc[u] = "update"
            /\ msg'[u] = msg[u]
            /\ row'[Key(u)].status \in DispatchFrom \/ row'[Key(u)] = row[Key(u)]
  PROVE  DispatchNotStale'
BY DEF DispatchNotStale, Key

LEMMA UpdateOrderFresh ==
  ASSUME TypeOK, GuardExclusive, DispatchNotStale, NEW t \in Threads, UpdateOrder(t)
  PROVE  DispatchNotStale'
<1>1. pc[t] = "update" /\ pc'[t] # "update" /\ UNCHANGED msg
  BY DEF UpdateOrder, Goto, TypeOK
<1>2. \A u \in Threads : u # t => pc'[u] = pc[u]
  BY DEF UpdateOrder, Goto, TypeOK
<1>3. \A u \in Threads : u # t /\ pc[u] = "update" => Key(u) # Key(t)
  BY <1>1 DEF GuardExclusive, Guarded, InBreaker
<1>4. \A u \in Threads : pc[u] = "update" => Key(u) \in Orders
  BY ConsumerAssumption DEF ConsumerAssumption, TypeOK, Key
<1>5. \A o \in Orders : o # Key(t) => row'[o] = row[o]
  BY DEF UpdateOrder, Write, TypeOK
<1> QED
  BY <1>1, <1>2, <1>3, <1>4, <1>5, FreshKept

LEMMA FallbackUpdateFresh ==
  ASSUME TypeOK, DispatchNotStale, NEW t \in Threads, FallbackUpdate(t)
  PROVE  DispatchNotStale'
<1>1. pc'[t] # "update" /\ UNCHANGED msg
  BY DEF FallbackUpdate, Goto, TypeOK
<1>2. \A u \in Threads : u # t => pc'[u] = pc[u]
  BY DEF FallbackUpdate, Goto, TypeOK
<1>3. \A o \in Orders : row'[o].status \in DispatchFrom \/ row'[o] = row[o]
  BY DEF FallbackUpdate, Write, TypeOK, DispatchFrom
<1>4. \A u \in Threads : pc[u] = "update" => Key(u) \in Orders
  BY ConsumerAssumption DEF ConsumerAssumption, TypeOK, Key
<1> QED
  BY <1>1, <1>2, <1>3, <1>4, FreshKept

LEMMA FindOrderFresh ==
  ASSUME TypeOK, DispatchNotStale, NEW t \in Threads, FindOrder(t)
  PROVE  DispatchNotStale'
<1>1. pc'[t] = "update" => row[Key(t)].status \in DispatchFrom
  BY DEF FindOrder, Dispatchable, Goto, TypeOK
<1>2. \A u \in Threads : u # t => pc'[u] = pc[u]
  BY DEF FindOrder, Goto, TypeOK
<1>3. UNCHANGED <<row, msg>>
  BY DEF FindOrder
<1> QED
  BY <1>1, <1>2, <1>3 DEF DispatchNotStale, Key

LEMMA OtherFresh ==
  ASSUME TypeOK, DispatchNotStale, [Next]_vars,
         ~(\E t \in Threads : FindOrder(t) \/ UpdateOrder(t) \/ FallbackUpdate(t))
  PROVE  DispatchNotStale'
<1>1. UNCHANGED row
  BY DEF Next, Handle, Deliver, GuardSetNX, Admit, IdemSetNX, SearchDriver, DelIdem, DelDedup, Backoff,
     FallbackFind, NackToWait, Park, ParkFails, Ack, Timeout, Resend, Panic, WaitExpire, BreakerTimeout, LoseChannel,
     BeginShutdown, Exit, Start, vars
<1>2. \A u \in Threads : pc'[u] = "update" => pc[u] = "update" /\ msg'[u] = msg[u]
  <2>1. CASE \E t \in Threads : Handle(t)
    <3>1. PICK t \in Threads : Handle(t)
      BY <2>1
    <3>2. /\ pc'[t] # "update"
          /\ \A u \in Threads : u # t => pc'[u] = pc[u] /\ msg'[u] = msg[u]
      BY <3>1 DEF TypeOK, Handle, GuardSetNX, Admit, IdemSetNX, SearchDriver, DelIdem, DelDedup, Backoff,
         FallbackFind, NackToWait, Park, ParkFails, Ack, Finish, Goto
    <3> QED
      BY <3>2
  <2>2. CASE \E t \in Threads, m \in Msgs : Deliver(t, m)
    BY <2>2 DEF Deliver, Goto, TypeOK
  <2>3. CASE \E p \in Procs : Exit(p)
    <3>1. PICK p \in Procs : Exit(p)
      BY <2>3
    <3> QED
      BY <3>1 DEF Exit
  <2>4. CASE UNCHANGED <<pc, msg>>
    BY <2>4
  <2>5. CASE \E t \in Threads : Panic(t)
    BY <2>5 DEF Panic, Goto, TypeOK
  <2> QED
    BY <2>1, <2>2, <2>3, <2>4, <2>5 DEF Next, Timeout, Resend, WaitExpire, BreakerTimeout, LoseChannel,
       BeginShutdown, Start, vars
<1> QED
  BY <1>1, <1>2, FreshKept

(***************************************************************************)
(* A row about to be written DISPATCHED is still dispatchable, where the   *)
(* guard is a lock.                                                        *)
(***************************************************************************)
THEOREM DispatchIsNotStale ==
  ASSUME NothingResent
  PROVE  Spec => []DispatchNotStale
<1>1. Init => DispatchNotStale
  BY DEF Init, DispatchNotStale
<1>2. TypeOK /\ GuardExclusive /\ DispatchNotStale /\ [Next]_vars => DispatchNotStale'
  BY FindOrderFresh, UpdateOrderFresh, FallbackUpdateFresh, OtherFresh
<1> QED
  BY <1>1, <1>2, TypeCorrect, GuardIsLock, PTL DEF Spec

-----------------------------------------------------------------------------
(***************************************************************************)
(* Keys mean something, as long as Redis answers, no deadline passes and   *)
(* no process stops.  The invariant tells the two keys apart: a goroutine  *)
(* answers for dedup from its SETNX to its DEL, and for idem only while    *)
(* ProcessOrder runs.  One that panicked answers for both for good, with    *)
(* the delivery it never settles.                                          *)
(***************************************************************************)
InLogic == {"search", "find", "update", "undo"}

DedupHolder == Guarded \cup {"dead"}
IdemHolder  == InLogic \cup {"dead"}

Settled(o) == row[o].status # "PENDING"

Calm == /\ \A p \in Procs : proc[p] = "up"
        /\ \A t \in Threads : ~late[t]

DedupHandled ==
  \A o \in dedup : Settled(o) \/ \E t \in Threads : pc[t] \in DedupHolder /\ Key(t) = o
IdemHandled ==
  \A o \in idem : Settled(o) \/ \E t \in Threads : pc[t] \in IdemHolder /\ Key(t) = o

Reliable == Faults \cap {"redis", "resend", "slow", "crash", "shutdown"} = {}

LEMMA CalmStep ==
  ASSUME Reliable, TypeOK, Calm, [Next]_vars
  PROVE  Calm'
<1>1. UNCHANGED proc
  BY DEF Reliable, Calm, Next, Handle, Deliver, GuardSetNX, Admit, IdemSetNX, SearchDriver, FindOrder,
     UpdateOrder, DelIdem, DelDedup, Backoff, FallbackFind, FallbackUpdate, NackToWait, Park, ParkFails,
     Ack, Timeout, Resend, Panic, WaitExpire, BreakerTimeout, LoseChannel, BeginShutdown, Exit, Start, vars, procVars
<1>2. \A t \in Threads : ~late'[t]
  <2>1. CASE UNCHANGED late
    BY <2>1 DEF Calm
  <2>2. CASE \E t \in Threads : IdemSetNX(t) \/ UpdateOrder(t) \/ DelIdem(t) \/ Panic(t)
    BY <2>2 DEF Calm, TypeOK, IdemSetNX, UpdateOrder, DelIdem, Panic, Report
  <2> QED
    BY <2>1, <2>2 DEF Reliable, Calm, Next, Handle, Deliver, GuardSetNX, Admit, SearchDriver, FindOrder,
       DelDedup, Backoff, FallbackFind, FallbackUpdate, NackToWait, Park, ParkFails,
       Ack, Timeout, Resend, WaitExpire, BreakerTimeout, LoseChannel, BeginShutdown, Exit, Start, vars
<1> QED
  BY <1>1, <1>2 DEF Calm

LEMMA CalmContext ==
  ASSUME Calm, NEW t \in Threads
  PROVE  ~Cancelled(t) /\ ~CtxDone(t)
BY ConsumerAssumption DEF ConsumerAssumption, Calm, Cancelled, CtxDone

\* No write of either path makes an order PENDING again.
LEMMA SettledStep ==
  ASSUME TypeOK, [Next]_vars, NEW o \in Orders, Settled(o)
  PROVE  Settled(o)'
<1>1. CASE \E t \in Threads : UpdateOrder(t)
  BY <1>1 DEF UpdateOrder, Write, Settled, TypeOK
<1>2. CASE \E t \in Threads : FallbackUpdate(t)
  BY <1>2 DEF FallbackUpdate, Write, Settled, TypeOK
<1>3. CASE UNCHANGED row
  BY <1>3 DEF Settled
<1> QED
  BY <1>1, <1>2, <1>3 DEF Next, Handle, Deliver, GuardSetNX, Admit, IdemSetNX, SearchDriver, FindOrder,
     DelIdem, DelDedup, Backoff, FallbackFind, NackToWait, Park, ParkFails, Ack, Timeout, Resend, Panic, WaitExpire,
     BreakerTimeout, LoseChannel, BeginShutdown, Exit, Start, vars

\* When no key is created, it is enough to look at who stops answering for one.
LEMMA KeysKept ==
  ASSUME TypeOK, DedupHandled, IdemHandled, [Next]_vars,
         dedup' \subseteq dedup, idem' \subseteq idem,
         \A u \in Threads :
            pc[u] \in DedupHolder /\ Key(u) \in dedup' /\ row'[Key(u)].status = "PENDING"
               => pc'[u] \in DedupHolder /\ msg'[u] = msg[u],
         \A u \in Threads :
            pc[u] \in IdemHolder /\ Key(u) \in idem' /\ row'[Key(u)].status = "PENDING"
               => pc'[u] \in IdemHolder /\ msg'[u] = msg[u]
  PROVE  DedupHandled' /\ IdemHandled'
<1>1. \A o \in Orders : Settled(o) => Settled(o)'
  BY SettledStep
<1>2. ASSUME NEW o \in dedup', ~Settled(o)'
      PROVE  \E u \in Threads : pc'[u] \in DedupHolder /\ Key(u)' = o
  <2>1. o \in dedup /\ o \in Orders /\ ~Settled(o)
    BY <1>1, <1>2 DEF TypeOK
  <2>2. PICK u \in Threads : pc[u] \in DedupHolder /\ Key(u) = o
    BY <2>1 DEF DedupHandled
  <2>3. pc'[u] \in DedupHolder /\ msg'[u] = msg[u]
    BY <1>2, <2>2 DEF Settled
  <2> QED
    BY <2>2, <2>3 DEF Key
<1>3. ASSUME NEW o \in idem', ~Settled(o)'
      PROVE  \E u \in Threads : pc'[u] \in IdemHolder /\ Key(u)' = o
  <2>1. o \in idem /\ o \in Orders /\ ~Settled(o)
    BY <1>1, <1>3 DEF TypeOK
  <2>2. PICK u \in Threads : pc[u] \in IdemHolder /\ Key(u) = o
    BY <2>1 DEF IdemHandled
  <2>3. pc'[u] \in IdemHolder /\ msg'[u] = msg[u]
    BY <1>3, <2>2 DEF Settled
  <2> QED
    BY <2>2, <2>3 DEF Key
<1> QED
  BY <1>2, <1>3 DEF DedupHandled, IdemHandled

LEMMA GuardSetNXKeys ==
  ASSUME Reliable, TypeOK, Calm, DedupHandled, IdemHandled, [Next]_vars,
         NEW t \in Threads, GuardSetNX(t)
  PROVE  DedupHandled' /\ IdemHandled'
<1>1. /\ pc[t] = "guard"
      /\ UNCHANGED <<row, idem, msg>>
      /\ \A u \in Threads : u # t => pc'[u] = pc[u]
  BY DEF GuardSetNX, Goto, TypeOK
<1>2. IdemHandled'
  BY <1>1 DEF IdemHandled, IdemHolder, InLogic, Settled, Key
<1>3. CASE dedup' = dedup \cup {Key(t)} /\ pc'[t] = "admit"
  BY <1>1, <1>2, <1>3 DEF DedupHandled, DedupHolder, Guarded, InBreaker, Settled, Key
<1>4. CASE dedup' = dedup
  BY <1>1, <1>2, <1>4 DEF DedupHandled, DedupHolder, Guarded, InBreaker, Settled, Key
<1>5. ~Cancelled(t) /\ "redis" \notin Faults
  BY CalmContext DEF Reliable
<1> QED
  BY <1>2, <1>3, <1>4, <1>5 DEF GuardSetNX, Goto, TypeOK

LEMMA IdemSetNXKeys ==
  ASSUME Reliable, TypeOK, GuardExclusive, Calm, DedupHandled, IdemHandled, [Next]_vars,
         NEW t \in Threads, IdemSetNX(t)
  PROVE  DedupHandled' /\ IdemHandled'
<1>1. /\ pc[t] = "idem"
      /\ UNCHANGED <<row, dedup, msg>>
      /\ \A u \in Threads : u # t => pc'[u] = pc[u]
  BY DEF IdemSetNX, Goto, TypeOK
<1>2. ~CtxDone(t) /\ "redis" \notin Faults
  BY CalmContext DEF Reliable
<1>3. CASE Key(t) \notin idem
  <2>1. idem' = idem \cup {Key(t)} /\ pc'[t] = "search"
    BY <1>2, <1>3 DEF IdemSetNX, Goto, TypeOK
  <2>2. IdemHandled'
    BY <1>1, <2>1 DEF IdemHandled, IdemHolder, InLogic, Settled, Key
  <2>3. DedupHandled'
    BY <1>1, <2>1 DEF DedupHandled, DedupHolder, Guarded, InBreaker, Settled, Key
  <2> QED
    BY <2>2, <2>3
\* The event was processed before, or by a goroutine that panicked: no other can
\* be at it, because this one has the guard.
<1>4. CASE Key(t) \in idem
  <2>1. UNCHANGED idem
    BY <1>2, <1>4 DEF IdemSetNX
  <2>2. Settled(Key(t)) \/ \E u \in Threads : pc[u] = "dead" /\ Key(u) = Key(t)
    <3>1. \A u \in Threads : pc[u] \in InLogic => Key(u) # Key(t)
      BY <1>1 DEF GuardExclusive, Guarded, InBreaker, InLogic
    <3> QED
      BY <1>4, <3>1 DEF IdemHandled, IdemHolder
  <2>3. IdemHandled'
    BY <1>1, <2>1 DEF IdemHandled, IdemHolder, InLogic, Settled, Key
  <2>4. DedupHandled'
    BY <1>1, <2>2 DEF DedupHandled, DedupHolder, Guarded, InBreaker, Settled, Key
  <2> QED
    BY <2>3, <2>4
<1> QED
  BY <1>3, <1>4

\* A goroutine leaves the guarded steps with the order settled or without the key.
LEMMA LeaveKeys ==
  ASSUME Reliable, TypeOK, GuardExclusive, Calm, DedupHandled, IdemHandled, [Next]_vars,
         NEW t \in Threads, UpdateOrder(t) \/ DelIdem(t) \/ DelDedup(t)
  PROVE  DedupHandled' /\ IdemHandled'
<1>1. /\ UNCHANGED msg
      /\ \A u \in Threads : u # t => pc'[u] = pc[u]
  BY DEF UpdateOrder, DelIdem, DelDedup, Goto, TypeOK
<1>2. ~Cancelled(t) /\ ~CtxDone(t) /\ "redis" \notin Faults
  BY CalmContext DEF Reliable
<1>3. CASE UpdateOrder(t)
  <2>1. /\ UNCHANGED <<dedup, idem>>
        /\ pc'[t] = "undo" \/ row' = Write(Key(t), "DISPATCHED", drv[t])
    BY <1>3 DEF UpdateOrder, Goto, TypeOK, redisVars
  <2>2. Key(t) \in Orders
    BY <1>3, ConsumerAssumption DEF ConsumerAssumption, UpdateOrder, TypeOK, Key
  <2>3. pc'[t] = "undo" \/ row'[Key(t)].status = "DISPATCHED"
    BY <2>1, <2>2 DEF Write, TypeOK
  <2> QED
    BY <1>1, <2>1, <2>3, KeysKept DEF DedupHolder, IdemHolder, Guarded, InBreaker, InLogic
<1>4. CASE DelIdem(t)
  <2>1. idem' = idem \ {Key(t)} /\ dedup' = dedup /\ pc'[t] = "release"
    BY <1>2, <1>4 DEF DelIdem, WithoutIdem, Goto, TypeOK
  <2> QED
    BY <1>1, <2>1, KeysKept DEF DedupHolder, IdemHolder, Guarded, InBreaker, InLogic
<1>5. CASE DelDedup(t)
  <2>1. dedup' = dedup \ {Key(t)} /\ idem' = idem /\ pc[t] = "release"
    BY <1>2, <1>5 DEF DelDedup, WithoutDedup, Goto, TypeOK
  <2> QED
    BY <1>1, <2>1, KeysKept DEF DedupHolder, IdemHolder, Guarded, InBreaker, InLogic
<1> QED
  BY <1>3, <1>4, <1>5

LEMMA OtherKeys ==
  ASSUME Reliable, TypeOK, Calm, DedupHandled, IdemHandled, [Next]_vars,
         ~(\E t \in Threads : \/ GuardSetNX(t) \/ IdemSetNX(t)
                              \/ UpdateOrder(t) \/ DelIdem(t) \/ DelDedup(t))
  PROVE  DedupHandled' /\ IdemHandled'
<1>1. UNCHANGED <<dedup, idem>>
  BY DEF Reliable, Next, Handle, Deliver, Admit, SearchDriver, FindOrder, Backoff, FallbackFind, FallbackUpdate,
     NackToWait, Park, ParkFails, Ack, Timeout, Resend, Panic, WaitExpire, BreakerTimeout, LoseChannel,
     BeginShutdown, Exit, Start, vars, redisVars
<1>2. \A u \in Threads :
        /\ pc[u] \in DedupHolder => pc'[u] \in DedupHolder /\ msg'[u] = msg[u]
        /\ pc[u] \in IdemHolder => pc'[u] \in IdemHolder /\ msg'[u] = msg[u]
  <2>1. CASE \E t \in Threads : Admit(t) \/ SearchDriver(t) \/ FindOrder(t)
    BY <2>1 DEF Admit, SearchDriver, FindOrder, Goto, TypeOK, DedupHolder, IdemHolder, Guarded, InBreaker, InLogic
  <2>2. CASE \E t \in Threads :
               \/ Backoff(t) \/ FallbackFind(t) \/ FallbackUpdate(t)
               \/ NackToWait(t) \/ Park(t) \/ ParkFails(t) \/ Ack(t)
    <3>1. PICK t \in Threads :
               \/ Backoff(t) \/ FallbackFind(t) \/ FallbackUpdate(t)
               \/ NackToWait(t) \/ Park(t) \/ ParkFails(t) \/ Ack(t)
      BY <2>2
    <3>2. pc[t] \notin DedupHolder /\ pc[t] \notin IdemHolder
      BY <3>1 DEF Backoff, FallbackFind, FallbackUpdate, NackToWait, Park, ParkFails, Ack,
         DedupHolder, IdemHolder, Guarded, InBreaker, InLogic
    <3>3. \A u \in Threads : u # t => pc'[u] = pc[u] /\ msg'[u] = msg[u]
      BY <3>1 DEF Backoff, FallbackFind, FallbackUpdate, NackToWait, Park, ParkFails, Ack,
         Finish, Goto, TypeOK
    <3> QED
      BY <3>2, <3>3
  <2>3. CASE \E t \in Threads, m \in Msgs : Deliver(t, m)
    BY <2>3 DEF Deliver, Goto, TypeOK, DedupHolder, IdemHolder, Guarded, InBreaker, InLogic
  <2>4. CASE \E t \in Threads : Panic(t)
    BY <2>4 DEF Panic, Goto, TypeOK, DedupHolder, IdemHolder
  <2>5. CASE UNCHANGED <<pc, msg>>
    BY <2>5
  <2>6. ~\E p \in Procs : Exit(p)
    BY DEF Exit, Reliable, Calm
  <2> QED
    BY <2>1, <2>2, <2>3, <2>4, <2>5, <2>6 DEF Next, Handle, Timeout, Resend, WaitExpire, BreakerTimeout,
       LoseChannel, BeginShutdown, Start, vars
<1> QED
  BY <1>1, <1>2, KeysKept

LEMMA OnlyPanicKills ==
  ASSUME TypeOK, "panic" \notin Faults, [Next]_vars, NEW t \in Threads, pc[t] # "dead"
  PROVE  pc'[t] # "dead"
<1>1. CASE \E u \in Threads : \/ GuardSetNX(u) \/ Admit(u) \/ IdemSetNX(u) \/ SearchDriver(u)
                             \/ FindOrder(u) \/ UpdateOrder(u) \/ DelIdem(u) \/ DelDedup(u)
  BY <1>1 DEF GuardSetNX, Admit, IdemSetNX, SearchDriver, FindOrder, UpdateOrder, DelIdem, DelDedup,
     Goto, TypeOK
<1>2. CASE \E u \in Threads : \/ Backoff(u) \/ FallbackFind(u) \/ FallbackUpdate(u) \/ NackToWait(u)
                             \/ Park(u) \/ ParkFails(u) \/ Ack(u)
                             \/ \E m \in Msgs : Deliver(u, m)
  BY <1>2 DEF Backoff, FallbackFind, FallbackUpdate, NackToWait, Park, ParkFails, Ack, Deliver, Finish,
     Goto, TypeOK
<1>3. CASE \E p \in Procs : Exit(p)
  BY <1>3 DEF Exit
<1>4. CASE UNCHANGED pc
  BY <1>4
<1> QED
  BY <1>1, <1>2, <1>3, <1>4 DEF Next, Handle, Panic, Timeout, Resend, WaitExpire, BreakerTimeout, LoseChannel,
     BeginShutdown, Start, vars

(***************************************************************************)
(* A Redis key is held by a goroutine or stands for a settled order, so a  *)
(* duplicate may be acked; lost connections, database, fleet and parking   *)
(* faults and any number of copies and processes do not change that.       *)
(***************************************************************************)
THEOREM KeysAreHonest ==
  ASSUME Reliable, "panic" \notin Faults
  PROVE  Spec => []KeyMeansHandled
<1> DEFINE NoneDead == \A t \in Threads : pc[t] # "dead"
           KeysInv  == Calm /\ NoneDead /\ DedupHandled /\ IdemHandled
<1>1. Init => KeysInv
  BY DEF Init, Calm, DedupHandled, IdemHandled
<1>2. TypeOK /\ GuardExclusive /\ KeysInv /\ [Next]_vars => KeysInv'
  <2>1. TypeOK /\ NoneDead /\ [Next]_vars => NoneDead'
    BY OnlyPanicKills
  <2> QED
    BY <2>1, CalmStep, GuardSetNXKeys, IdemSetNXKeys, LeaveKeys, OtherKeys
<1>3. KeysInv => KeyMeansHandled
  BY DEF DedupHandled, IdemHandled, DedupHolder, IdemHolder, KeyMeansHandled, Settled, Guarded,
     InBreaker, InLogic
<1>4. Spec => []GuardExclusive
  BY GuardIsLock DEF NothingResent, Reliable
<1> QED
  BY <1>1, <1>2, <1>3, <1>4, TypeCorrect, PTL DEF Spec
=============================================================================
