-------------------------- MODULE CreateOrderProofs --------------------------
(***************************************************************************)
(* Proofs about CreateOrder, for any number of requests, ids and amounts,  *)
(* any precision of the columns and any set of faults.                     *)
(*                                                                         *)
(* The inductive invariant says, for each step of a request, which rows it *)
(* has written: none before the insert, its order afterwards, both rows    *)
(* when it commits, and that a transaction is lost early, or outlives its  *)
(* handler, only when its context has ended.                               *)
(***************************************************************************)
EXTENDS CreateOrder, TLAPS

\* The row of an order holds what its request sent.
OrderRows ==
  \A x \in orders :
    /\ x.id = input[x.by].id
    /\ x.price \in Cents(input[x.by].price)
    /\ x.tax \in Cents(input[x.by].tax)
    /\ x.final \in Cents(FinalPrice(input[x.by]))
    /\ pc[x.by] \in {"event", "commit", "rollback", "done"}

EventRows ==
  \A e \in outbox :
    /\ e.order = input[e.by].id
    /\ e.final = FinalPrice(input[e.by])
    /\ pc[e.by] \in {"commit", "rollback", "done"}

\* The primary key, over uncommitted rows too.
PrimaryKey == \A x, y \in orders : x.id = y.id => x = y

\* Unless the transaction is about to be rolled back, the rows of a request
\* come in pairs from the insert of the event on.
Pairs ==
  /\ \A e \in outbox : \E x \in orders : x.by = e.by
  /\ \A x \in orders :
        pc[x.by] = "commit" \/ x.by \notin open => \E e \in outbox : e.by = x.by
  /\ \A r \in open : pc[r] \in {"event", "commit"} => \E x \in orders : x.by = r

\* Rows of unfinished requests belong to open transactions; one that is no
\* longer open has lost its client.
Transactions ==
  /\ \A x \in orders : pc[x.by] # "done" => x.by \in open
  /\ \A r \in Requests : pc[r] \in InTx => r \in open \cup gone

Answered ==
  \A r \in Requests : answer[r] = "200" =>
     pc[r] = "done" /\ r \notin open /\ \E x \in orders : x.by = r

Checked ==
  \A r \in Requests : pc[r] \in {"begin"} \cup InTx => Valid(input[r])

IInv == TypeOK /\ OrderRows /\ EventRows /\ PrimaryKey /\ Pairs /\ Transactions
               /\ Answered /\ Checked

-----------------------------------------------------------------------------
\* Rounding an amount that is not negative gives a natural number of cents
\* that is at most five mills away.
LEMMA CentsOfAmount ==
  ASSUME NEW x \in Int, NEW c \in Cents(x)
  PROVE  c \in Int /\ 10 * c - 5 <= x /\ x <= 10 * c + 5 /\ (0 <= x => 0 <= c)
<1>1. x \div 10 \in Int
  OBVIOUS
<1> DEFINE q == x \div 10
<1>2. c \in {q, q + 1} /\ 10 * c - 5 <= x /\ x <= 10 * c + 5
  BY DEF Cents
<1>3. q \in Int
  BY <1>1
<1> HIDE DEF q
<1>4. c \in Int
  BY <1>2, <1>3
<1> QED
  BY <1>2, <1>4

LEMMA InputType ==
  ASSUME TypeOK, NEW r \in Requests
  PROVE  /\ input[r].id \in Ids \cup {NoId}
         /\ input[r].price \in Int
         /\ input[r].tax \in Int
         /\ FinalPrice(input[r]) \in Int
<1>1. input[r] \in Input
  BY DEF TypeOK
<1>2. input[r].id \in Ids \cup {NoId} /\ input[r].price \in Amounts /\ input[r].tax \in Amounts
  BY <1>1 DEF Input
<1>3. input[r].price \in Int /\ input[r].tax \in Int
  BY <1>2, CreateAssumption DEF CreateAssumption
<1>4. input[r].price + input[r].tax \in Int
  BY <1>3
<1> QED
  BY <1>2, <1>3, <1>4 DEF FinalPrice

LEMMA InitInv == Init => IInv
<1> USE CreateAssumption DEF CreateAssumption
<1> SUFFICES ASSUME Init PROVE IInv
  OBVIOUS
<1>1. TypeOK
  BY DEF Init, TypeOK, Input, Steps, InTx
<1> QED
  BY <1>1 DEF Init, IInv, OrderRows, EventRows, PrimaryKey, Pairs, Transactions, Answered,
     Checked, InTx

LEMMA DecodeInv == ASSUME IInv, NEW r \in Requests, Decode(r) PROVE IInv'
<1> USE CreateAssumption DEF CreateAssumption
<1>1. TypeOK'
  BY DEF IInv, TypeOK, Decode, Goto, Answer, Steps, InTx
<1>2. /\ \A x \in orders : x.by # r
      /\ \A e \in outbox : e.by # r
      /\ r \notin open
  BY DEF IInv, TypeOK, OrderRows, EventRows, Decode, InTx
<1>3. OrderRows' /\ EventRows' /\ PrimaryKey'
  BY <1>2 DEF IInv, TypeOK, OrderRows, EventRows, PrimaryKey, Decode, Goto
<1>4. Pairs' /\ Transactions' /\ Checked'
  BY <1>2 DEF IInv, TypeOK, Pairs, Transactions, Checked, Decode, Goto, InTx
<1>5. Answered'
  BY DEF IInv, TypeOK, Answered, Decode, Goto, Answer
<1> QED
  BY <1>1, <1>3, <1>4, <1>5 DEF IInv

LEMMA NewOrderInv == ASSUME IInv, NEW r \in Requests, NewOrder(r) PROVE IInv'
<1> USE CreateAssumption DEF CreateAssumption
<1>1. TypeOK'
  BY InputType DEF IInv, TypeOK, NewOrder, Goto, Answer, Steps, InTx
<1>2. /\ \A x \in orders : x.by # r
      /\ \A e \in outbox : e.by # r
      /\ r \notin open
  BY DEF IInv, TypeOK, OrderRows, EventRows, NewOrder, InTx
<1>3. OrderRows' /\ EventRows' /\ PrimaryKey'
  BY <1>2 DEF IInv, TypeOK, OrderRows, EventRows, PrimaryKey, NewOrder, Goto
<1>4. Pairs' /\ Transactions' /\ Checked'
  BY <1>2 DEF IInv, TypeOK, Pairs, Transactions, Checked, NewOrder, Goto, InTx
<1>5. Answered'
  BY DEF IInv, TypeOK, Answered, NewOrder, Goto, Answer
<1> QED
  BY <1>1, <1>3, <1>4, <1>5 DEF IInv

LEMMA BeginTxInv ==
  ASSUME IInv, NEW r \in Requests, NEW fails \in BOOLEAN, BeginTx(r, fails) PROVE IInv'
<1> USE CreateAssumption DEF CreateAssumption
<1>1. TypeOK'
  BY DEF IInv, TypeOK, BeginTx, Goto, Answer, Steps, InTx
<1>2. /\ \A x \in orders : x.by # r
      /\ \A e \in outbox : e.by # r
      /\ r \notin open
  BY DEF IInv, TypeOK, OrderRows, EventRows, BeginTx, InTx
<1>3. OrderRows' /\ EventRows' /\ PrimaryKey'
  BY <1>2 DEF IInv, TypeOK, OrderRows, EventRows, PrimaryKey, BeginTx, Goto
<1>4. Pairs' /\ Transactions' /\ Checked'
  BY <1>2 DEF IInv, TypeOK, Pairs, Transactions, Checked, BeginTx, Goto, InTx
<1>5. Answered'
  BY DEF IInv, TypeOK, Answered, BeginTx, Goto, Answer
<1> QED
  BY <1>1, <1>3, <1>4, <1>5 DEF IInv

\* The three columns of a row that is inserted are natural numbers that fit.
LEMMA SaveInv ==
  ASSUME IInv, NEW r \in Requests, NEW fails \in BOOLEAN, Save(r, fails) PROVE IInv'
<1> USE CreateAssumption DEF CreateAssumption
<1>1. /\ \A x \in orders : x.by # r
      /\ \A e \in outbox : e.by # r
  BY DEF IInv, OrderRows, EventRows, Save
<1>2. PICK p \in Cents(input[r].price), t \in Cents(input[r].tax),
           f \in Cents(FinalPrice(input[r])) :
        \/ /\ r \notin gone
           /\ SameId(r) = {}
           /\ Fits(p) /\ Fits(t) /\ Fits(f)
           /\ orders' = orders \cup {[by |-> r, id |-> input[r].id,
                                     price |-> p, tax |-> t, final |-> f]}
           /\ Goto(r, "event")
        \/ Goto(r, "rollback") /\ UNCHANGED orders
  BY DEF Save
<1>3. pc[r] = "order" /\ UNCHANGED <<outbox, open, payload, input, answer, gone>>
  BY DEF Save
<1>4. TypeOK /\ pc \in [Requests -> Steps]
  BY DEF IInv, TypeOK
<1>5. CASE Goto(r, "rollback") /\ UNCHANGED orders
  <2>1. TypeOK'
    BY <1>3, <1>4, <1>5 DEF TypeOK, Goto, Steps, InTx
  <2>2. OrderRows' /\ EventRows' /\ PrimaryKey'
    BY <1>1, <1>3, <1>4, <1>5 DEF IInv, OrderRows, EventRows, PrimaryKey, Goto
  <2>3. Pairs' /\ Transactions' /\ Checked' /\ Answered'
    BY <1>1, <1>3, <1>4, <1>5
    DEF IInv, Pairs, Transactions, Checked, Answered, Goto, InTx
  <2> QED
    BY <2>1, <2>2, <2>3 DEF IInv
<1>6. CASE /\ r \notin gone
           /\ SameId(r) = {}
           /\ Fits(p) /\ Fits(t) /\ Fits(f)
           /\ orders' = orders \cup {[by |-> r, id |-> input[r].id,
                                     price |-> p, tax |-> t, final |-> f]}
           /\ Goto(r, "event")
  <2> DEFINE new == [by |-> r, id |-> input[r].id, price |-> p, tax |-> t, final |-> f]
  <2>1. input[r].id \in Ids /\ input[r].price > 0 /\ input[r].tax >= 0
    BY <1>3, <1>4, InputType DEF IInv, Checked, Valid, InTx
  <2>2. p \in 0..MaxCents /\ t \in 0..MaxCents /\ f \in 0..MaxCents
    <3>1. 0 <= FinalPrice(input[r])
      BY <1>4, <2>1, InputType DEF FinalPrice
    <3>2. p \in Int /\ 0 <= p
      BY <1>4, <2>1, InputType, CentsOfAmount
    <3>3. t \in Int /\ 0 <= t
      BY <1>4, <2>1, InputType, CentsOfAmount
    <3>4. f \in Int /\ 0 <= f
      BY <1>4, <3>1, InputType, CentsOfAmount
    <3> QED
      BY <1>6, <3>2, <3>3, <3>4 DEF Fits
  <2>3. new \in [by : Requests, id : Ids, price : 0..MaxCents, tax : 0..MaxCents,
                  final : 0..MaxCents]
    BY <2>1, <2>2
  <2>4. /\ new.by = r /\ new.id = input[r].id
        /\ new.price = p /\ new.tax = t /\ new.final = f
    OBVIOUS
  <2>5. orders' = orders \cup {new}
    BY <1>6
  <2> HIDE DEF new
  <2>6. /\ pc' = [pc EXCEPT ![r] = "event"]
        /\ r \in open
    BY <1>3, <1>6 DEF Goto, IInv, Transactions, InTx
  <2>7. TypeOK'
    BY <1>3, <1>4, <2>3, <2>5, <2>6 DEF TypeOK, Steps, InTx
  <2>8. OrderRows' /\ EventRows'
    BY <1>1, <1>3, <1>4, <2>4, <2>5, <2>6 DEF IInv, OrderRows, EventRows
  <2>9. PrimaryKey'
    BY <1>3, <1>6, <2>4, <2>5 DEF IInv, PrimaryKey, SameId
  <2>10. Pairs' /\ Transactions' /\ Checked' /\ Answered'
    BY <1>1, <1>3, <1>4, <2>4, <2>5, <2>6
    DEF IInv, Pairs, Transactions, Checked, Answered, InTx
  <2> QED
    BY <2>7, <2>8, <2>9, <2>10 DEF IInv
<1> QED
  BY <1>2, <1>5, <1>6

LEMMA SaveOutboxEventInv ==
  ASSUME IInv, NEW r \in Requests, NEW fails \in BOOLEAN, SaveOutboxEvent(r, fails) PROVE IInv'
<1>1. TypeOK /\ pc \in [Requests -> Steps] /\ \A e \in outbox : e.by # r
  BY DEF IInv, TypeOK, EventRows, SaveOutboxEvent
<1>2. pc[r] = "event" /\ UNCHANGED <<orders, open, payload, input, answer, gone>>
  BY DEF SaveOutboxEvent
<1>3. CASE UNCHANGED outbox /\ Goto(r, "rollback")
  <2>1. TypeOK'
    BY <1>1, <1>2, <1>3 DEF TypeOK, Goto, Steps, InTx
  <2>2. OrderRows' /\ EventRows' /\ PrimaryKey'
    BY <1>1, <1>2, <1>3 DEF IInv, OrderRows, EventRows, PrimaryKey, Goto
  <2>3. Pairs' /\ Transactions' /\ Checked' /\ Answered'
    BY <1>1, <1>2, <1>3 DEF IInv, Pairs, Transactions, Checked, Answered, Goto, InTx
  <2> QED
    BY <2>1, <2>2, <2>3 DEF IInv
<1>4. CASE /\ r \notin gone
           /\ outbox' = outbox \cup {[by |-> r, order |-> input[r].id, final |-> EventFinal(r)]}
           /\ Goto(r, "commit")
  <2> DEFINE new == [by |-> r, order |-> input[r].id, final |-> EventFinal(r)]
  <2>1. input[r].id \in Ids
    BY <1>1, <1>2, InputType DEF IInv, Checked, Valid, InTx
  <2>2. new \in [by : Requests, order : Ids, final : Int]
    BY <1>1, <2>1, InputType DEF EventFinal
  <2>3. new.by = r /\ new.order = input[r].id /\ new.final = FinalPrice(input[r])
    BY DEF EventFinal
  <2>4. outbox' = outbox \cup {new} /\ pc' = [pc EXCEPT ![r] = "commit"]
    BY <1>4 DEF Goto
  <2> HIDE DEF new
  <2>5. r \in open /\ r \notin gone
    BY <1>2, <1>4 DEF IInv, Transactions, InTx
  <2>6. \E x \in orders : x.by = r
    BY <1>1, <1>2, <2>5 DEF IInv, Pairs
  <2>7. TypeOK'
    BY <1>1, <1>2, <2>2, <2>4 DEF TypeOK, Steps, InTx
  <2>8. OrderRows' /\ EventRows' /\ PrimaryKey'
    BY <1>1, <1>2, <2>3, <2>4 DEF IInv, OrderRows, EventRows, PrimaryKey
  <2>9. Pairs' /\ Transactions' /\ Checked' /\ Answered'
    BY <1>1, <1>2, <2>3, <2>4, <2>5, <2>6
    DEF IInv, Pairs, Transactions, Checked, Answered, InTx
  <2> QED
    BY <2>7, <2>8, <2>9 DEF IInv
<1> QED
  BY <1>3, <1>4 DEF SaveOutboxEvent

\* The rows of some requests are rolled back.  What is left keeps what the
\* invariant says about rows.
LEMMA RollbackRows ==
  ASSUME IInv, NEW S, RollbackOf(S), UNCHANGED input
  PROVE  /\ orders' \subseteq orders /\ outbox' \subseteq outbox /\ open' = open \ S
         /\ \A x \in orders : x \in orders' <=> x.by \notin S
         /\ \A e \in outbox : e \in outbox' <=> e.by \notin S
         /\ PrimaryKey'
         /\ \A e \in outbox' : \E x \in orders' : x.by = e.by
<1>1. /\ orders' = {x \in orders : x.by \notin S}
      /\ outbox' = {e \in outbox : e.by \notin S}
      /\ open' = open \ S
  BY DEF RollbackOf, OrdersWithout, Ended
<1>2. PrimaryKey'
  BY <1>1 DEF IInv, PrimaryKey
<1>3. \A e \in outbox' : \E x \in orders' : x.by = e.by
  BY <1>1 DEF IInv, Pairs
<1> QED
  BY <1>1, <1>2, <1>3

LEMMA ContextEndsInv == ASSUME IInv, NEW r \in Requests, ContextEnds(r) PROVE IInv'
<1> DEFINE S == {r}
<1>1. r \in gone /\ r \in open /\ RollbackOf(S) /\ UNCHANGED <<payload, pc, input, answer, gone>>
  BY DEF ContextEnds
<1> HIDE DEF S
<1>2. /\ orders' \subseteq orders /\ outbox' \subseteq outbox /\ open' = open \ S
      /\ \A x \in orders : x \in orders' <=> x.by \notin S
      /\ \A e \in outbox : e \in outbox' <=> e.by \notin S
      /\ PrimaryKey'
      /\ \A e \in outbox' : \E x \in orders' : x.by = e.by
  BY <1>1, RollbackRows
<1>3. S = {r}
  BY DEF S
<1>4. TypeOK'
  BY <1>1, <1>2 DEF IInv, TypeOK
<1>5. OrderRows' /\ EventRows'
  BY <1>1, <1>2 DEF IInv, OrderRows, EventRows
<1>6. Pairs' /\ Transactions' /\ Checked' /\ Answered'
  BY <1>1, <1>2, <1>3 DEF IInv, Pairs, Transactions, Checked, Answered
<1> QED
  BY <1>2, <1>4, <1>5, <1>6 DEF IInv

\* Also the outcome of a commit that was not applied.
LEMMA AfterRollback ==
  ASSUME IInv, NEW r \in Requests, pc[r] \in {"commit", "rollback"},
         RollbackOf({r}), Goto(r, "done"), Answer(r, "500"), UNCHANGED <<payload, input, gone>>
  PROVE  IInv'
<1> DEFINE S == {r}
<1>1. RollbackOf(S)
  OBVIOUS
<1> HIDE DEF S
<1>2. /\ orders' \subseteq orders /\ outbox' \subseteq outbox /\ open' = open \ S
      /\ \A x \in orders : x \in orders' <=> x.by \notin S
      /\ \A e \in outbox : e \in outbox' <=> e.by \notin S
      /\ PrimaryKey'
      /\ \A e \in outbox' : \E x \in orders' : x.by = e.by
  BY <1>1, RollbackRows
<1>3. S = {r}
  BY DEF S
<1>4. TypeOK /\ pc \in [Requests -> Steps] /\ pc' = [pc EXCEPT ![r] = "done"]
  BY DEF IInv, TypeOK, Goto
<1>5. TypeOK'
  BY <1>2, <1>3, <1>4 DEF TypeOK, Answer, Steps, InTx
<1>6. OrderRows' /\ EventRows'
  BY <1>2, <1>4 DEF IInv, OrderRows, EventRows
<1>7. Pairs' /\ Transactions' /\ Checked'
  BY <1>2, <1>3, <1>4 DEF IInv, Pairs, Transactions, Checked, InTx
<1>8. Answered'
  BY <1>2, <1>3, <1>4 DEF IInv, TypeOK, Answered, Answer
<1> QED
  BY <1>2, <1>5, <1>6, <1>7, <1>8 DEF IInv

\* The handler ends and leaves its transaction open.
LEMMA LeftOpenInv ==
  ASSUME IInv, NEW r \in Requests, pc[r] \in {"commit", "rollback"},
         LeftToContext(r), Goto(r, "done"), Answer(r, "500"), UNCHANGED <<payload, input, gone>>
  PROVE  IInv'
<1>1. /\ TypeOK /\ pc \in [Requests -> Steps] /\ pc' = [pc EXCEPT ![r] = "done"]
      /\ r \in gone /\ UNCHANGED <<orders, outbox, open, payload, input, gone>>
  BY DEF IInv, TypeOK, Goto, LeftToContext
<1>2. TypeOK'
  BY <1>1 DEF TypeOK, Answer, Steps, InTx
<1>3. OrderRows' /\ EventRows' /\ PrimaryKey'
  BY <1>1 DEF IInv, OrderRows, EventRows, PrimaryKey
<1>4. Pairs' /\ Transactions' /\ Checked'
  BY <1>1 DEF IInv, Pairs, Transactions, Checked, InTx
<1>5. Answered'
  BY <1>1 DEF IInv, TypeOK, Answered, Answer
<1> QED
  BY <1>2, <1>3, <1>4, <1>5 DEF IInv

LEMMA RollbackInv == ASSUME IInv, NEW r \in Requests, Rollback(r) PROVE IInv'
BY AfterRollback, LeftOpenInv DEF Rollback

LEMMA CommitInv ==
  ASSUME IInv, NEW r \in Requests, NEW fails \in BOOLEAN, Commit(r, fails) PROVE IInv'
<1>1. CASE RollbackOf({r}) /\ Answer(r, "500")
  BY <1>1, AfterRollback DEF Commit
<1>2. CASE /\ open' = open \ {r}
           /\ UNCHANGED <<orders, outbox>>
           /\ \/ Answer(r, "500")
              \/ /\ Answer(r, "200")
                 /\ r \notin gone
  <2>1. /\ pc[r] = "commit"
        /\ TypeOK /\ pc \in [Requests -> Steps] /\ pc' = [pc EXCEPT ![r] = "done"]
        /\ UNCHANGED <<payload, input, gone>>
    BY DEF Commit, Goto, IInv, TypeOK
  <2>2. TypeOK'
    BY <1>2, <2>1 DEF TypeOK, Answer, Steps, InTx
  <2>3. OrderRows' /\ EventRows' /\ PrimaryKey'
    BY <1>2, <2>1 DEF IInv, OrderRows, EventRows, PrimaryKey
  <2>4. Pairs' /\ Transactions' /\ Checked'
    BY <1>2, <2>1 DEF IInv, Pairs, Transactions, Checked, InTx
  <2>5. r \notin gone => \E x \in orders : x.by = r
    BY <2>1 DEF IInv, Pairs, Transactions, InTx
  <2>6. Answered'
    BY <1>2, <2>1, <2>5 DEF IInv, TypeOK, Answered, Answer
  <2> QED
    BY <2>2, <2>3, <2>4, <2>6 DEF IInv
<1>3. CASE LeftToContext(r) /\ Answer(r, "500")
  BY <1>3, LeftOpenInv DEF Commit
<1> QED
  BY <1>1, <1>2, <1>3 DEF Commit, AfterCommitError, Ended

LEMMA CrashInv == ASSUME IInv, Crash PROVE IInv'
<1> DEFINE S == Running \cup open
<1>1. /\ RollbackOf(S) /\ payload' = NoPayload /\ UNCHANGED <<input, answer, gone>>
      /\ pc' = [r \in Requests |-> IF r \in Running THEN "done" ELSE pc[r]]
  BY DEF Crash
<1> HIDE DEF S
<1>2. /\ orders' \subseteq orders /\ outbox' \subseteq outbox /\ open' = open \ S
      /\ \A x \in orders : x \in orders' <=> x.by \notin S
      /\ \A e \in outbox : e \in outbox' <=> e.by \notin S
      /\ PrimaryKey'
      /\ \A e \in outbox' : \E x \in orders' : x.by = e.by
  BY <1>1, RollbackRows
<1>3. TypeOK /\ open' = {} /\ \A r \in Requests : pc'[r] \in {"new", "done"}
  BY <1>1, <1>2 DEF S, IInv, TypeOK, Running
<1>4. TypeOK'
  BY <1>1, <1>2, <1>3 DEF TypeOK, Steps
<1>5. \A x \in orders' : pc[x.by] = "done" /\ pc'[x.by] = "done"
  BY <1>1, <1>2, <1>3 DEF S, IInv, TypeOK, OrderRows, Running
<1>6. \A e \in outbox' : pc[e.by] = "done" /\ pc'[e.by] = "done"
  BY <1>1, <1>2, <1>3 DEF S, IInv, TypeOK, EventRows, Running
<1>7. OrderRows' /\ EventRows'
  BY <1>1, <1>2, <1>5, <1>6 DEF IInv, OrderRows, EventRows
<1>8. Pairs' /\ Transactions' /\ Checked'
  BY <1>1, <1>2, <1>3, <1>5 DEF IInv, TypeOK, Pairs, Transactions, Checked, InTx
<1>9. Answered'
  BY <1>1, <1>2 DEF S, IInv, TypeOK, Answered, Running
<1> QED
  BY <1>2, <1>4, <1>7, <1>8, <1>9 DEF IInv

LEMMA DisconnectInv == ASSUME IInv, NEW r \in Requests, Disconnect(r) PROVE IInv'
BY DEF IInv, TypeOK, OrderRows, EventRows, PrimaryKey, Pairs, Transactions, Answered, Checked,
       Disconnect, Running

LEMMA NextInv == IInv /\ [Next]_vars => IInv'
<1> SUFFICES ASSUME IInv, [Next]_vars PROVE IInv'
  OBVIOUS
<1>1. CASE Crash
  BY <1>1, CrashInv
<1>2. ASSUME NEW r \in Requests, Decode(r) \/ Disconnect(r) \/ ContextEnds(r)
      PROVE  IInv'
  <2>1. CASE Decode(r)
    BY <2>1, DecodeInv
  <2>2. CASE Disconnect(r)
    BY <2>2, DisconnectInv
  <2>3. CASE ContextEnds(r)
    BY <2>3, ContextEndsInv
  <2> QED
    BY <1>2, <2>1, <2>2, <2>3
<1>3. ASSUME NEW r \in Requests, NEW fails \in BOOLEAN, Handle(r, fails)
      PROVE  IInv'
  BY <1>3, NewOrderInv, BeginTxInv, SaveInv, SaveOutboxEventInv, RollbackInv, CommitInv DEF Handle
<1>4. CASE UNCHANGED vars
  BY <1>4 DEF vars, IInv, TypeOK, OrderRows, EventRows, PrimaryKey, Pairs, Transactions,
              Answered, Checked
<1>5. Failures \subseteq BOOLEAN
  BY DEF Failures
<1> QED
  BY <1>1, <1>2, <1>3, <1>4, <1>5 DEF Next

THEOREM Invariant == Spec => []IInv
BY InitInv, NextInv, PTL DEF Spec

-----------------------------------------------------------------------------
(***************************************************************************)
(* What the relay sees of the outbox: the committed rows.  A rollback only *)
(* takes rows away whose transaction is open, and a step commits the row   *)
(* of one request at most.                                                 *)
(***************************************************************************)
LEMMA RowsOfUnfinished ==
  ASSUME IInv, NEW e \in Committed(outbox)
  PROVE  e \in outbox /\ e.by \in Requests /\ e.by \notin open /\ pc[e.by] = "done"
<1>1. e \in outbox /\ e.by \notin open
  BY DEF Committed
<1>2. PICK x \in orders : x.by = e.by
  BY <1>1 DEF IInv, Pairs
<1> QED
  BY <1>1, <1>2 DEF IInv, Transactions, TypeOK

LEMMA OrderOfEvent ==
  ASSUME IInv, NEW e \in Committed(outbox)
  PROVE  \E x \in Committed(orders) : x.by = e.by /\ x.id = e.order
<1>1. e \in outbox /\ e.by \notin open
  BY DEF Committed
<1>2. PICK x \in orders : x.by = e.by
  BY <1>1 DEF IInv, Pairs
<1>3. x.id = e.order
  BY <1>1, <1>2 DEF IInv, OrderRows, EventRows
<1> QED
  BY <1>1, <1>2, <1>3 DEF Committed

LEMMA CommittedStays ==
  ASSUME IInv, [Next]_vars
  PROVE  Committed(outbox) \subseteq Committed(outbox)'
<1> SUFFICES ASSUME NEW e \in Committed(outbox) PROVE e \in outbox' /\ e.by \notin open'
  BY DEF Committed
<1>1. e \in outbox /\ e.by \in Requests /\ e.by \notin open /\ pc[e.by] = "done"
  BY RowsOfUnfinished
<1>2. ASSUME NEW S, RollbackOf(S), e.by \notin S PROVE e \in outbox' /\ e.by \notin open'
  BY <1>1, <1>2 DEF RollbackOf, Ended
<1>3. CASE Crash
  BY <1>1, <1>2, <1>3 DEF Crash, Running
<1>4. ASSUME NEW r \in Requests, Decode(r) \/ Disconnect(r) \/ ContextEnds(r)
      PROVE  e \in outbox' /\ e.by \notin open'
  <2>1. CASE ContextEnds(r)
    BY <1>1, <1>2, <2>1 DEF ContextEnds
  <2> QED
    BY <1>1, <1>4, <2>1 DEF Decode, Disconnect
<1>5. ASSUME NEW r \in Requests, NEW fails \in BOOLEAN, Handle(r, fails)
      PROVE  e \in outbox' /\ e.by \notin open'
  <2>1. pc[r] # "done"
    BY <1>5 DEF Handle, NewOrder, BeginTx, Save, SaveOutboxEvent, Rollback, Commit
  <2>2. CASE NewOrder(r) \/ BeginTx(r, fails) \/ Save(r, fails) \/ SaveOutboxEvent(r, fails)
    BY <1>1, <2>1, <2>2 DEF NewOrder, BeginTx, Save, SaveOutboxEvent
  <2>3. CASE Rollback(r) \/ Commit(r, fails)
    BY <1>1, <1>2, <2>1, <2>3 DEF Rollback, Commit, Ended, LeftToContext
  <2> QED
    BY <1>5, <2>2, <2>3 DEF Handle
<1>6. CASE UNCHANGED vars
  BY <1>1, <1>6 DEF vars
<1>7. Failures \subseteq BOOLEAN
  BY DEF Failures
<1> QED
  BY <1>3, <1>4, <1>5, <1>6, <1>7 DEF Next

\* Only a commit, and only of the request that commits.
LEMMA CommittedByOne ==
  ASSUME IInv, [Next]_vars
  PROVE  \/ Committed(outbox)' \subseteq Committed(outbox)
         \/ \E r \in Requests : \A e \in Committed(outbox)' :
               e \in Committed(outbox) \/ e.order = input[r].id
<1>1. ASSUME NEW S, RollbackOf(S) PROVE Committed(outbox)' \subseteq Committed(outbox)
  BY <1>1 DEF RollbackOf, Ended, Committed
<1>2. CASE Crash
  BY <1>1, <1>2 DEF Crash
<1>3. ASSUME NEW r \in Requests, Decode(r) \/ Disconnect(r) \/ ContextEnds(r)
      PROVE  Committed(outbox)' \subseteq Committed(outbox)
  <2>1. CASE ContextEnds(r)
    BY <1>1, <2>1 DEF ContextEnds
  <2> QED
    BY <1>3, <2>1 DEF Decode, Disconnect, Committed
<1>4. ASSUME NEW r \in Requests, NEW fails \in BOOLEAN, Handle(r, fails)
      PROVE  \/ Committed(outbox)' \subseteq Committed(outbox)
             \/ \A e \in Committed(outbox)' : e \in Committed(outbox) \/ e.order = input[r].id
  <2>1. CASE NewOrder(r) \/ BeginTx(r, fails) \/ Save(r, fails)
    BY <2>1 DEF NewOrder, BeginTx, Save, Committed
  <2>2. CASE SaveOutboxEvent(r, fails)
    <3>1. \A e \in outbox' : e \in outbox \/ e.order = input[r].id
      BY <2>2 DEF SaveOutboxEvent
    <3> QED
      BY <2>2, <3>1 DEF SaveOutboxEvent, Committed
  <2>3. CASE Rollback(r)
    BY <1>1, <2>3 DEF Rollback, LeftToContext, Committed
  <2>4. CASE Commit(r, fails)
    <3>1. CASE RollbackOf({r})
      BY <1>1, <3>1
    <3>2. CASE open' = Ended({r}) /\ UNCHANGED outbox
      <4>1. \A e \in outbox : e.by = r => e.order = input[r].id
        BY DEF IInv, EventRows
      <4> QED
        BY <3>2, <4>1 DEF Committed, Ended
    <3> QED
      BY <2>4, <3>1, <3>2 DEF Commit, LeftToContext, Committed
  <2> QED
    BY <1>4, <2>1, <2>2, <2>3, <2>4 DEF Handle
<1>5. CASE UNCHANGED vars
  BY <1>5 DEF vars, Committed
<1>6. Failures \subseteq BOOLEAN
  BY DEF Failures
<1> QED
  BY <1>2, <1>3, <1>4, <1>5, <1>6 DEF Next

-----------------------------------------------------------------------------
(***************************************************************************)
(* The refinement.  A rollback takes away no committed row of either       *)
(* table, a statement adds none, and a commit that is applied makes the    *)
(* pair of its request appear, when the transaction had not been lost      *)
(* before.                                                                 *)
(***************************************************************************)
Stored    == {[by |-> x.by, id |-> x.id] : x \in Committed(orders)}
Announced == {[by |-> e.by, id |-> e.order] : e \in Committed(outbox)}
Confirmed == {r \in Requests : answer[r] = "200"}

LEMMA CommittedOrders ==
  ASSUME IInv, NEW x \in Committed(orders)
  PROVE  x \in orders /\ x.by \in Requests /\ x.by \notin open /\ pc[x.by] = "done"
BY DEF Committed, IInv, Transactions, TypeOK

LEMMA UnfinishedRollback ==
  ASSUME IInv, NEW S, RollbackOf(S), \A r \in S : pc[r] # "done" \/ r \in open
  PROVE  Stored' = Stored /\ Announced' = Announced
<1>1. /\ orders' = {x \in orders : x.by \notin S}
      /\ outbox' = {e \in outbox : e.by \notin S}
      /\ open' = open \ S
  BY DEF RollbackOf, OrdersWithout, Ended
<1>2. Committed(orders)' = Committed(orders)
  BY <1>1, CommittedOrders DEF Committed
<1>3. Committed(outbox)' = Committed(outbox)
  BY <1>1, RowsOfUnfinished DEF Committed
<1> QED
  BY <1>2, <1>3 DEF Stored, Announced

\* An insert writes a row of a request that is not done.
LEMMA StatementKeeps ==
  ASSUME IInv, NEW r \in Requests, NEW fails \in BOOLEAN,
         Decode(r) \/ NewOrder(r) \/ BeginTx(r, fails) \/ Save(r, fails)
           \/ SaveOutboxEvent(r, fails) \/ Disconnect(r)
  PROVE  Committed(orders)' = Committed(orders) /\ Committed(outbox)' = Committed(outbox)
<1>1. CASE Decode(r) \/ NewOrder(r) \/ Disconnect(r)
  BY <1>1 DEF Decode, NewOrder, Disconnect, Committed
<1>2. CASE BeginTx(r, fails)
  <2>1. /\ \A x \in orders : x.by # r
        /\ \A e \in outbox : e.by # r
    BY <1>2 DEF IInv, OrderRows, EventRows, BeginTx
  <2> QED
    BY <1>2, <2>1 DEF BeginTx, Committed
<1>3. CASE Save(r, fails)
  <2>1. UNCHANGED <<outbox, open>> /\ pc[r] = "order"
    BY <1>3 DEF Save
  <2>2. CASE UNCHANGED orders
    BY <2>1, <2>2 DEF Committed
  <2>3. CASE r \notin gone /\ \E new : new.by = r /\ orders' = orders \cup {new}
    <3>1. r \in open
      BY <2>1, <2>3 DEF IInv, Transactions, InTx
    <3> QED
      BY <2>1, <2>3, <3>1 DEF Committed
  <2> QED
    BY <1>3, <2>2, <2>3 DEF Save
<1>4. CASE SaveOutboxEvent(r, fails)
  <2>1. UNCHANGED <<orders, open>> /\ pc[r] = "event"
    BY <1>4 DEF SaveOutboxEvent
  <2>2. CASE UNCHANGED outbox
    BY <2>1, <2>2 DEF Committed
  <2>3. CASE r \notin gone /\ \E new : new.by = r /\ outbox' = outbox \cup {new}
    <3>1. r \in open
      BY <2>1, <2>3 DEF IInv, Transactions, InTx
    <3> QED
      BY <2>1, <2>3, <3>1 DEF Committed
  <2> QED
    BY <1>4, <2>2, <2>3 DEF SaveOutboxEvent
<1> QED
  BY <1>1, <1>2, <1>3, <1>4

LEMMA StatementConfirms ==
  ASSUME IInv, NEW r \in Requests, NEW fails \in BOOLEAN,
         Decode(r) \/ NewOrder(r) \/ BeginTx(r, fails) \/ Save(r, fails)
           \/ SaveOutboxEvent(r, fails) \/ Rollback(r) \/ Disconnect(r) \/ ContextEnds(r)
  PROVE  Confirmed' = Confirmed
<1>1. UNCHANGED answer \/ Answer(r, "400") \/ Answer(r, "500")
  BY DEF Decode, NewOrder, BeginTx, Save, SaveOutboxEvent, Rollback, Disconnect, ContextEnds
<1> QED
  BY <1>1 DEF Confirmed, Answer, IInv, TypeOK

\* A commit that is applied: nothing is left of a transaction that was lost
\* before, and otherwise the order and the event of the request appear.
LEMMA AppliedCommit ==
  ASSUME IInv, NEW r \in Requests, pc[r] = "commit",
         open' = open \ {r}, UNCHANGED <<orders, outbox>>
  PROVE  \/ r \in gone /\ Stored' = Stored /\ Announced' = Announced
         \/ /\ input[r].id \in Ids
            /\ \A s \in Stored : s.by # r /\ s.id # input[r].id
            /\ Stored' = Stored \cup {[by |-> r, id |-> input[r].id]}
            /\ Announced' = Announced \cup {[by |-> r, id |-> input[r].id]}
<1>1. /\ \A x \in orders : x.by = r => x.id = input[r].id
      /\ \A e \in outbox : e.by = r => e.order = input[r].id
  BY DEF IInv, OrderRows, EventRows
<1>2. CASE r \notin open
  <2>1. /\ \A x \in orders : x.by # r
        /\ \A e \in outbox : e.by # r
    BY <1>2 DEF IInv, Transactions, Pairs
  <2>2. r \in gone
    BY <1>2 DEF IInv, Transactions, InTx
  <2>3. Committed(orders)' = Committed(orders) /\ Committed(outbox)' = Committed(outbox)
    BY <2>1 DEF Committed
  <2> QED
    BY <2>2, <2>3 DEF Stored, Announced
<1>3. CASE r \in open
  <2>1. PICK x \in orders : x.by = r
    BY <1>3 DEF IInv, Pairs
  <2>2. PICK e \in outbox : e.by = r
    BY <2>1 DEF IInv, Pairs
  <2>3. x.id = input[r].id /\ e.order = input[r].id /\ x.id \in Ids
    BY <1>1, <2>1, <2>2 DEF IInv, TypeOK
  <2>4. \A y \in orders : y.by = r \/ y.id = x.id => y = x
    BY <1>1, <2>1, <2>3 DEF IInv, PrimaryKey
  <2>5. Committed(orders)' = Committed(orders) \cup {x}
    BY <2>1, <2>4 DEF Committed
  <2>6. Stored' = Stored \cup {[by |-> r, id |-> input[r].id]}
    BY <2>1, <2>3, <2>5 DEF Stored
  <2>7. \A f \in Committed(outbox)' : f \in Committed(outbox) \/ f.by = r
    BY DEF Committed
  <2>8. Committed(outbox) \subseteq Committed(outbox)' /\ e \in Committed(outbox)'
    BY <2>2 DEF Committed
  <2>9. Announced' = Announced \cup {[by |-> r, id |-> input[r].id]}
    <3>1. Announced' \subseteq Announced \cup {[by |-> r, id |-> input[r].id]}
      <4> SUFFICES ASSUME NEW f \in Committed(outbox)'
                   PROVE  \/ [by |-> f.by, id |-> f.order] \in Announced
                          \/ [by |-> f.by, id |-> f.order] = [by |-> r, id |-> input[r].id]
        BY DEF Announced
      <4>1. f \in outbox
        BY DEF Committed
      <4> QED
        BY <1>1, <2>7, <4>1 DEF Announced
    <3>2. Announced \subseteq Announced'
      BY <2>8 DEF Announced
    <3>3. [by |-> r, id |-> input[r].id] \in Announced'
      BY <2>2, <2>3, <2>8 DEF Announced
    <3> QED
      BY <3>1, <3>2, <3>3
  <2>10. ASSUME NEW y \in Committed(orders) PROVE y.by # r /\ y.id # input[r].id
    <3>1. y \in orders /\ y.by # r
      BY <1>3 DEF Committed
    <3> QED
      BY <2>1, <2>3, <2>4, <3>1
  <2> QED
    BY <2>3, <2>6, <2>9, <2>10 DEF Stored
<1> QED
  BY <1>2, <1>3

\* What a commit does, in terms of the abstract specification.
CreateAs(r) ==
  /\ \A s \in Stored : s.by # r /\ s.id # input[r].id
  /\ input[r].id \in Ids
  /\ Stored' = Stored \cup {[by |-> r, id |-> input[r].id]}
  /\ Announced' = Announced \cup {[by |-> r, id |-> input[r].id]}
  /\ Confirmed' \in {Confirmed, Confirmed \cup {r}}

NothingCreated == Stored' = Stored /\ Announced' = Announced /\ Confirmed' = Confirmed

LEMMA CommitRefines ==
  ASSUME IInv, NEW r \in Requests, NEW fails \in BOOLEAN, Commit(r, fails)
  PROVE  CreateAs(r) \/ NothingCreated
<1>1. pc[r] = "commit"
  BY DEF Commit
<1>2. Answer(r, "500") => Confirmed' = Confirmed
  BY DEF Answer, Confirmed, IInv, TypeOK
<1>3. Answer(r, "200") => Confirmed' \in {Confirmed, Confirmed \cup {r}}
  <2> SUFFICES ASSUME Answer(r, "200") PROVE Confirmed' \in {Confirmed, Confirmed \cup {r}}
    OBVIOUS
  <2>1. answer' = [answer EXCEPT ![r] = "200"] \/ answer' = answer
    BY DEF Answer, IInv, TypeOK
  <2>2. CASE answer' = answer
    BY <2>2 DEF Confirmed
  <2>3. CASE answer' = [answer EXCEPT ![r] = "200"]
    BY <2>3 DEF Confirmed, IInv, TypeOK
  <2> QED
    BY <2>1, <2>2, <2>3
<1>4. CASE RollbackOf({r}) /\ Answer(r, "500")
  BY <1>1, <1>2, <1>4, UnfinishedRollback DEF NothingCreated
<1>5. CASE open' = open \ {r} /\ UNCHANGED <<orders, outbox>> /\ Answer(r, "500")
  BY <1>1, <1>2, <1>5, AppliedCommit DEF NothingCreated, CreateAs
<1>6. CASE open' = open \ {r} /\ UNCHANGED <<orders, outbox>> /\ Answer(r, "200") /\ r \notin gone
  BY <1>1, <1>3, <1>6, AppliedCommit DEF CreateAs
<1>7. CASE LeftToContext(r) /\ Answer(r, "500")
  BY <1>2, <1>7 DEF LeftToContext, NothingCreated, Stored, Announced, Committed
<1> QED
  BY <1>4, <1>5, <1>6, <1>7 DEF Commit, AfterCommitError, Ended

LEMMA StepRefines ==
  ASSUME IInv, [Next]_vars
  PROVE  NothingCreated \/ \E r \in Requests : CreateAs(r)
<1>1. CASE Crash
  BY <1>1, UnfinishedRollback DEF Crash, Running, NothingCreated, Confirmed
<1>2. ASSUME NEW r \in Requests, ContextEnds(r) \/ Rollback(r)
      PROVE  NothingCreated
  <2>1. CASE RollbackOf({r}) /\ (pc[r] # "done" \/ r \in open)
    BY <1>2, <2>1, UnfinishedRollback, StatementConfirms DEF NothingCreated
  <2>2. CASE LeftToContext(r)
    BY <1>2, <2>2, StatementConfirms DEF LeftToContext, NothingCreated, Stored, Announced, Committed
  <2> QED
    BY <1>2, <2>1, <2>2 DEF ContextEnds, Rollback
<1>3. ASSUME NEW r \in Requests, NEW fails \in BOOLEAN,
             Decode(r) \/ NewOrder(r) \/ BeginTx(r, fails) \/ Save(r, fails)
               \/ SaveOutboxEvent(r, fails) \/ Disconnect(r)
      PROVE  NothingCreated
  BY <1>3, StatementKeeps, StatementConfirms DEF NothingCreated, Stored, Announced
<1>4. ASSUME NEW r \in Requests, NEW fails \in BOOLEAN, Handle(r, fails)
      PROVE  NothingCreated \/ CreateAs(r)
  BY <1>2, <1>3, <1>4, CommitRefines DEF Handle
<1>5. CASE UNCHANGED vars
  BY <1>5 DEF vars, NothingCreated, Stored, Announced, Confirmed, Committed
<1>6. Failures \subseteq BOOLEAN
  BY DEF Failures
<1>7. ASSUME NEW r \in Requests, Decode(r) \/ Disconnect(r) PROVE NothingCreated
  <2>1. TRUE \in BOOLEAN
    OBVIOUS
  <2> QED
    BY <1>3, <1>7, <2>1
<1> QED
  BY <1>1, <1>2, <1>4, <1>5, <1>6, <1>7 DEF Next

\* What a request was sent is read once, before anything else.
LEMMA InputStays ==
  ASSUME IInv, [Next]_vars, NEW r \in Requests, pc'[r] = "done"
  PROVE  input'[r] = input[r]
<1>1. ASSUME NEW q \in Requests, Decode(q) PROVE input'[r] = input[r]
  BY <1>1 DEF Decode, Goto, IInv, TypeOK
<1> QED
  BY <1>1 DEF Next, Crash, Handle, NewOrder, BeginTx, Save, SaveOutboxEvent, Rollback, Commit,
     Disconnect, ContextEnds, vars

(***************************************************************************)
(* The handlers, the unit of work and the database implement a creation in *)
(* one step.                                                               *)
(***************************************************************************)
THEOREM CreationIsAtomic == Spec => AtomicSpec
<1>1. Init => Atomic!Init
  BY DEF Init, Atomic!Init, Committed
<1>2. IInv /\ [Next]_vars => [Atomic!Next]_(Atomic!vars)
  <2> SUFFICES ASSUME IInv, [Next]_vars PROVE [Atomic!Next]_(Atomic!vars)
    OBVIOUS
  <2>1. CASE NothingCreated
    BY <2>1 DEF NothingCreated, Stored, Announced, Confirmed, Atomic!vars
  <2>2. ASSUME NEW r \in Requests, CreateAs(r) PROVE Atomic!Next
    <3>1. \E id \in Ids : Atomic!Create(r, id)
      BY <2>2 DEF CreateAs, Stored, Announced, Confirmed, Atomic!Create
    <3> QED
      BY <3>1 DEF Atomic!Next
  <2> QED
    BY <2>1, <2>2, StepRefines
<1> QED
  BY <1>1, <1>2, Invariant, PTL DEF Spec, AtomicSpec, Atomic!Spec

-----------------------------------------------------------------------------
(***************************************************************************)
(* Every variable keeps its type; in particular no amount is written that  *)
(* does not fit into its column.                                           *)
(***************************************************************************)
THEOREM TypeCorrect == Spec => []TypeOK
<1>1. IInv => TypeOK
  BY DEF IInv
<1> QED
  BY <1>1, Invariant, PTL

(***************************************************************************)
(* Order and event are committed together or not at all.                   *)
(***************************************************************************)
THEOREM UnitOfWorkIsAtomic == Spec => []OrderHasItsEvent
<1>1. IInv => OrderHasItsEvent
  <2> SUFFICES ASSUME IInv PROVE OrderHasItsEvent
    OBVIOUS
  <2>1. ASSUME NEW x \in Committed(orders)
        PROVE  \E e \in Committed(outbox) :
                  e.by = x.by /\ e.order = x.id /\ x.final \in Cents(e.final)
    <3>1. x \in orders /\ x.by \notin open /\ pc[x.by] = "done"
      BY DEF Committed, IInv, Transactions
    <3>2. PICK e \in outbox : e.by = x.by
      BY <3>1 DEF IInv, Pairs
    <3>3. e.order = x.id /\ x.final \in Cents(e.final)
      BY <3>1, <3>2 DEF IInv, OrderRows, EventRows
    <3> QED
      BY <3>1, <3>2, <3>3 DEF Committed
  <2>2. ASSUME NEW e \in Committed(outbox)
        PROVE  \E x \in Committed(orders) : x.by = e.by /\ x.id = e.order
    BY OrderOfEvent
  <2> QED
    BY <2>1, <2>2 DEF OrderHasItsEvent
<1> QED
  BY <1>1, Invariant, PTL

(***************************************************************************)
(* A client that reads 200 has its own order in the table.                 *)
(***************************************************************************)
THEOREM AcceptedOrdersAreStored == Spec => []AcceptedIsStored
<1>1. IInv => AcceptedIsStored
  <2> SUFFICES ASSUME IInv, NEW r \in Requests, answer[r] = "200"
               PROVE  \E x \in Committed(orders) : x.by = r /\ x.id = input[r].id
    BY DEF AcceptedIsStored
  <2>1. PICK x \in orders : x.by = r
    BY DEF IInv, Answered
  <2>2. pc[r] = "done" /\ r \notin open
    BY DEF IInv, Answered
  <2> QED
    BY <2>1, <2>2 DEF IInv, OrderRows, Committed
<1> QED
  BY <1>1, Invariant, PTL

(***************************************************************************)
(* At most one of the requests for an id is answered 200.                  *)
(***************************************************************************)
THEOREM OneAccepted == Spec => []OneAcceptedPerId
<1>1. IInv => OneAcceptedPerId
  <2> SUFFICES ASSUME IInv, NEW r \in Requests, NEW q \in Requests,
                      answer[r] = "200", answer[q] = "200", input[r].id = input[q].id
               PROVE  r = q
    BY DEF OneAcceptedPerId
  <2>1. PICK x \in orders : x.by = r
    BY DEF IInv, Answered
  <2>2. PICK y \in orders : y.by = q
    BY DEF IInv, Answered
  <2>3. x.id = y.id
    BY <2>1, <2>2 DEF IInv, OrderRows
  <2> QED
    BY <2>1, <2>2, <2>3 DEF IInv, PrimaryKey
<1> QED
  BY <1>1, Invariant, PTL

(***************************************************************************)
(* Three roundings cost at most one cent, whatever the amounts.            *)
(***************************************************************************)
THEOREM RoundingIsBounded == Spec => []SumWithinACent
<1>1. IInv => SumWithinACent
  <2> SUFFICES ASSUME IInv, NEW x \in orders
               PROVE  x.final - (x.price + x.tax) \in -1..1
    BY DEF SumWithinACent
  <2> DEFINE price == input[x.by].price
             tax   == input[x.by].tax
             p     == x.price
             t     == x.tax
             f     == x.final
  <2>1. x.by \in Requests
    BY DEF IInv, TypeOK
  <2>2. price \in Int /\ tax \in Int /\ FinalPrice(input[x.by]) = price + tax
    BY <2>1, InputType DEF IInv, FinalPrice
  <2>3. p \in Cents(price) /\ t \in Cents(tax) /\ f \in Cents(price + tax)
    BY <2>2 DEF IInv, OrderRows
  <2> HIDE DEF price, tax, p, t, f
  <2>4. p \in Int /\ 10 * p - 5 <= price /\ price <= 10 * p + 5
    BY <2>2, <2>3, CentsOfAmount
  <2>5. t \in Int /\ 10 * t - 5 <= tax /\ tax <= 10 * t + 5
    BY <2>2, <2>3, CentsOfAmount
  <2>6. f \in Int /\ 10 * f - 5 <= price + tax /\ price + tax <= 10 * f + 5
    <3>1. price + tax \in Int
      BY <2>2
    <3> QED
      BY <3>1, <2>3, CentsOfAmount
  <2>7. f - (p + t) \in -1..1
    BY <2>2, <2>4, <2>5, <2>6
  <2> QED
    BY <2>7 DEF p, t, f
<1> QED
  BY <1>1, Invariant, PTL
=============================================================================
