----------------------------- MODULE CreateOrder -----------------------------
(***************************************************************************)
(* POST /api/v1/orders in one API process: the handler, the use case and   *)
(* the unit of work that inserts the order and its outbox event in one     *)
(* transaction.  A statement is one action, so that concurrent requests,   *)
(* also for one and the same client-chosen id, interleave between          *)
(* statements.                                                             *)
(*                                                                         *)
(* The tables hold the uncommitted rows too: a row is committed unless the *)
(* transaction of the request that wrote it is open.  Amounts are in mills *)
(* (a thousandth), the columns, DECIMAL(10,2), in cents.                   *)
(***************************************************************************)
EXTENDS Integers

CONSTANTS Requests,   \* requests; a client's retry is another request
          Ids,        \* order ids clients choose
          NoId,       \* the empty id
          Amounts,    \* prices and taxes clients send
          MaxCents,   \* what fits into a column (10^10 - 1)
          NoPayload,  \* the event's payload before the first request
          Faults      \* what may go wrong

FaultKinds == {"db",          \* a statement fails; a failed commit may be applied
               "disconnect",  \* the client goes away: the context is cancelled
               "crash"}       \* the process dies

ASSUME CreateAssumption ==
  /\ NoId \notin Ids
  /\ Amounts \subseteq Int
  /\ 0 \in Amounts
  /\ MaxCents \in Nat
  /\ Faults \subseteq FaultKinds

VARIABLES
  orders,   \* orders table
  outbox,   \* outbox table
  open,     \* requests whose transaction is open
  payload,  \* payload of the OrderCreated all requests share
  pc,       \* request: the next step of its handler
  input,    \* request: what was decoded
  answer,   \* request: the status of the response, the first written counts
  gone      \* requests whose client disconnected

vars == <<orders, outbox, open, payload, pc, input, answer, gone>>

Input == [id : Ids \cup {NoId}, price : Amounts, tax : Amounts]
InTx  == {"order", "event", "commit", "rollback"}
Steps == {"new", "validate", "begin", "done"} \cup InTx

\* fmt.Sprintf("%.2f", x): a tie in decimal is none in binary, or goes to the
\* even neighbour; it may end on either side.
Cents(x) == {c \in {x \div 10, (x \div 10) + 1} : 10 * c - 5 <= x /\ x <= 10 * c + 5}

\* Mutant of Fits: the column has no precision.
FitsAlways(c) == TRUE
Fits(c) == c <= MaxCents

\* Mutant of FinalPrice: the tax is left out.
FinalPriceWithoutTax(i) == i.price
FinalPrice(i) == i.price + i.tax

Committed(table) == {x \in table : x.by \notin open}

TypeOK ==
  /\ \A x \in orders : x \in [by : Requests, id : Ids, price : 0..MaxCents,
                              tax : 0..MaxCents, final : 0..MaxCents]
  /\ \A e \in outbox : e \in [by : Requests, order : Ids, final : Int]
  /\ open \subseteq {r \in Requests : pc[r] \in InTx \/ (pc[r] = "done" /\ r \in gone)}
  /\ payload \in Int \cup {NoPayload}
  /\ pc \in [Requests -> Steps]
  /\ input \in [Requests -> Input]
  /\ answer \in [Requests -> {"none", "200", "400", "500"}]
  /\ gone \subseteq Requests

Init ==
  /\ orders = {}
  /\ outbox = {}
  /\ open = {}
  /\ payload = NoPayload
  /\ pc = [r \in Requests |-> "new"]
  /\ input = [r \in Requests |-> [id |-> NoId, price |-> 0, tax |-> 0]]
  /\ answer = [r \in Requests |-> "none"]
  /\ gone = {}

-----------------------------------------------------------------------------
Goto(r, step) == pc' = [pc EXCEPT ![r] = step]
Answer(r, s)  == answer' = [answer EXCEPT ![r] = IF @ = "none" THEN s ELSE @]

\* Whether the database fails at a statement; a statement also fails when the
\* context has ended.
Failures == IF "db" \in Faults THEN BOOLEAN ELSE {FALSE}

\* The decoder leaves the fields it could not read zero and the handler goes
\* on after answering 400.
Decode(r) ==
  /\ pc[r] = "new"
  /\ \E i \in Input :
        /\ input' = [input EXCEPT ![r] = i]
        /\ \/ UNCHANGED answer
           \/ /\ i.id = NoId \/ i.price = 0 \/ i.tax = 0
              /\ Answer(r, "400")
  /\ Goto(r, "validate")
  /\ UNCHANGED <<orders, outbox, open, payload, gone>>

Valid(i) == i.id # NoId /\ i.price > 0 /\ i.tax >= 0

\* entity.NewOrder and, when it succeeds, SetPayload.
NewOrder(r) ==
  /\ pc[r] = "validate"
  /\ \/ /\ Valid(input[r])
        /\ payload' = FinalPrice(input[r])
        /\ Goto(r, "begin")
        /\ UNCHANGED answer
     \/ /\ ~Valid(input[r])
        /\ Goto(r, "done")
        /\ Answer(r, "500")
        /\ UNCHANGED payload
  /\ UNCHANGED <<orders, outbox, open, input, gone>>

BeginTx(r, fails) ==
  /\ pc[r] = "begin"
  /\ \/ /\ r \notin gone
        /\ open' = open \cup {r}
        /\ Goto(r, "order")
        /\ UNCHANGED answer
     \/ /\ fails \/ r \in gone
        /\ Goto(r, "done")
        /\ Answer(r, "500")
        /\ UNCHANGED open
  /\ UNCHANGED <<orders, outbox, payload, input, gone>>

\* Mutant of SameId: the column id has no primary key.
SameIdNever(r) == {}
SameId(r) == {x \in orders : x.id = input[r].id}

\* The INSERT of an id that another open transaction has inserted waits for
\* the end of that transaction.
Save(r, fails) ==
  LET i == input[r]
  IN /\ pc[r] = "order"
     /\ \E p \in Cents(i.price), t \in Cents(i.tax), f \in Cents(FinalPrice(i)) :
          \/ /\ r \notin gone
             /\ SameId(r) = {}
             /\ Fits(p) /\ Fits(t) /\ Fits(f)
             /\ orders' = orders \cup {[by |-> r, id |-> i.id, price |-> p, tax |-> t, final |-> f]}
             /\ Goto(r, "event")
          \/ /\ \/ fails
                \/ r \in gone
                \/ Committed(SameId(r)) # {}
                \/ ~(Fits(p) /\ Fits(t) /\ Fits(f))
             /\ Goto(r, "rollback")
             /\ UNCHANGED orders
     /\ UNCHANGED <<outbox, open, payload, input, answer, gone>>

\* Mutant of EventFinal: the event is written from the shared payload.
EventFinalShared(r) == payload
EventFinal(r) == FinalPrice(input[r])

SaveOutboxEvent(r, fails) ==
  /\ pc[r] = "event"
  /\ \/ /\ r \notin gone
        /\ outbox' = outbox \cup {[by |-> r, order |-> input[r].id, final |-> EventFinal(r)]}
        /\ Goto(r, "commit")
     \/ /\ fails \/ r \in gone
        /\ Goto(r, "rollback")
        /\ UNCHANGED outbox
  /\ UNCHANGED <<orders, open, payload, input, answer, gone>>

\* Mutants: Save runs outside of the transaction, and a transaction that is
\* never ended.
OrdersKept(S) == orders
OrdersWithout(S) == {x \in orders : x.by \notin S}
StillOpen(S) == open
Ended(S) == open \ S

RollbackOf(S) ==
  /\ orders' = OrdersWithout(S)
  /\ outbox' = {e \in outbox : e.by \notin S}
  /\ open' = Ended(S)

\* database/sql rolls a transaction back in the background when its context
\* ends; the handler learns of it from its next statement, or has ended before.
ContextEnds(r) ==
  /\ r \in gone \cap open
  /\ RollbackOf({r})
  /\ UNCHANGED <<payload, pc, input, answer, gone>>

\* When the context has ended, the background may have taken the transaction
\* over: the handler's own call then returns at once, without an effect.
LeftToContext(r) == r \in gone /\ UNCHANGED <<orders, outbox, open>>

\* An error of the rollback itself only changes the wording of the answer.
Rollback(r) ==
  /\ pc[r] = "rollback"
  /\ RollbackOf({r}) \/ LeftToContext(r)
  /\ Goto(r, "done")
  /\ Answer(r, "500")
  /\ UNCHANGED <<payload, input, gone>>

\* Mutant of AfterCommitError: the error of tx.Commit is dropped.
CommitErrorIgnored == "200"
AfterCommitError == "500"

Commit(r, fails) ==
  /\ pc[r] = "commit"
  /\ \/ /\ r \notin gone
        /\ open' = Ended({r})
        /\ Answer(r, "200")
        /\ UNCHANGED <<orders, outbox>>
     \/ /\ fails \/ r \in gone   \* before the commit or during it
        /\ Answer(r, AfterCommitError)
        /\ \/ open' = Ended({r}) /\ UNCHANGED <<orders, outbox>>
           \/ RollbackOf({r})
           \/ LeftToContext(r)
  /\ Goto(r, "done")
  /\ UNCHANGED <<payload, input, gone>>

Handle(r, fails) ==
  \/ NewOrder(r) \/ BeginTx(r, fails) \/ Save(r, fails)
  \/ SaveOutboxEvent(r, fails) \/ Rollback(r) \/ Commit(r, fails)

-----------------------------------------------------------------------------
Running == {r \in Requests : pc[r] \notin {"new", "done"}}

Disconnect(r) ==
  /\ "disconnect" \in Faults
  /\ r \in Running
  /\ gone' = gone \cup {r}
  /\ UNCHANGED <<orders, outbox, open, payload, pc, input, answer>>

\* PostgreSQL rolls the open transactions of the process back.
Crash ==
  /\ "crash" \in Faults
  /\ Running \cup open # {}
  /\ pc' = [r \in Requests |-> IF r \in Running THEN "done" ELSE pc[r]]
  /\ RollbackOf(Running \cup open)
  /\ payload' = NoPayload
  /\ UNCHANGED <<input, answer, gone>>

Next ==
  \/ Crash
  \/ \E r \in Requests :
        \/ Decode(r)
        \/ \E fails \in Failures : Handle(r, fails)
        \/ Disconnect(r)
        \/ ContextEnds(r)

Spec == Init /\ [][Next]_vars

\* Every goroutine that serves a request runs, and the one of database/sql that waits for
\* the end of its context.  Nothing is assumed of clients, crashes and failures; a request
\* that waits for a lock cannot count on a failure.
FairSpec ==
  Spec /\ \A r \in Requests : WF_vars(Handle(r, FALSE)) /\ WF_vars(ContextEnds(r))

-----------------------------------------------------------------------------
(***************************************************************************)
(* The unit of work is atomic: a committed order has its committed event   *)
(* and the event its order, the final price in the event being the one     *)
(* that was rounded into the order's row, whatever other requests, crashes *)
(* and failing statements come in between.                                 *)
(***************************************************************************)
OrderHasItsEvent ==
  /\ \A x \in Committed(orders) :
        \E e \in Committed(outbox) :
           e.by = x.by /\ e.order = x.id /\ x.final \in Cents(e.final)
  /\ \A e \in Committed(outbox) :
        \E x \in Committed(orders) : x.by = e.by /\ x.id = e.order

(***************************************************************************)
(* Of several requests for one id, concurrent ones and retries included,   *)
(* at most one is ever answered 200: the others lose the race for the row  *)
(* or find it.                                                             *)
(***************************************************************************)
OneAcceptedPerId ==
  \A r, q \in Requests :
     answer[r] = "200" /\ answer[q] = "200" /\ input[r].id = input[q].id => r = q

(***************************************************************************)
(* A client that reads 200 has its own order in the table, not another     *)
(* request's order with the same id.  (The converse does not hold: a 400   *)
(* or 500 does not say that no order was created.)                         *)
(***************************************************************************)
AcceptedIsStored ==
  \A r \in Requests : answer[r] = "200" =>
     \E x \in Committed(orders) : x.by = r /\ x.id = input[r].id

(***************************************************************************)
(* Price, tax and final price are rounded one by one; the stored sum is    *)
(* still at most one cent off the sum of the stored parts.                 *)
(***************************************************************************)
SumWithinACent ==
  \A x \in orders : x.final - (x.price + x.tax) \in -1..1

(***************************************************************************)
(* The statements of concurrent requests, rollbacks in the background,     *)
(* failing commits and crashes included, implement a creation in one step: *)
(* the committed rows of both tables change together, for one request at a *)
(* time, nothing committed goes away again, and a 200 is written in the    *)
(* step that commits the order of the request it answers.                  *)
(***************************************************************************)
Atomic ==
  INSTANCE AtomicCreate WITH
    stored    <- {[by |-> x.by, id |-> x.id] : x \in Committed(orders)},
    announced <- {[by |-> e.by, id |-> e.order] : e \in Committed(outbox)},
    confirmed <- {r \in Requests : answer[r] = "200"}

AtomicSpec == Atomic!Spec

(***************************************************************************)
(* Requests end and their transactions with them: none waits for ever for  *)
(* the lock on an id another one inserts, also when the handler of that    *)
(* one has ended and left its transaction to the background.               *)
(***************************************************************************)
EveryRequestEnds ==
  \A r \in Requests : pc[r] # "new" ~> pc[r] = "done" /\ r \notin open
=============================================================================
