# GoFleet in TLA+

Specifications of the GoFleet order pipeline, the TLC instances that check them
and the TLAPS proofs about them. Every definition is written from the Go and SQL
sources; the paths below are relative to the repository root.

- [The system](#the-system)
- [Modules and how they correspond to the code](#modules-and-how-they-correspond-to-the-code)
- [What is checked](#what-is-checked)
- [What is proved](#what-is-proved)
- [Where code and documentation disagree](#where-code-and-documentation-disagree)
- [Abstractions, and what is not modelled](#abstractions-and-what-is-not-modelled)
- [Roadmap](#roadmap)

To run them: `tlc -config MCConsumerProcesses.cfg MCConsumer`, `tlapm ConsumerProofs.tla`.

## The system

Three services share PostgreSQL, RabbitMQ and Redis.

```
 POST /orders      one transaction        relay: claim, publish, mark
 client ----> API -----------------> PostgreSQL(orders, outbox) ----> RabbitMQ
                                        ^                          orders.created
                                        | dispatch / fallback            |
                                      Worker <---------------------------+
                                        | SETNX/DEL          nack -> .wait (10 s) -> main
                                        v                    exhausted -> .parking
                                      Redis      Worker -- gRPC --> Fleet --> Redis (geo)
```

| Component | State | Operations | Talks to |
|---|---|---|---|
| Order aggregate (`internal/domain/entity`) | status, driver | NewOrder, Dispatch, SendToManual, Deliver, Cancel, Restore | loaded and stored by the use cases |
| Order creation (`web/handler/order.go`, `usecase/order/create.go`, `database/unit_of_work.go`) | rows of `orders` and `outbox`; one `OrderCreated` for all requests | decode, validate, one transaction with both inserts, answer | PostgreSQL |
| Outbox relay (`infra/event/outbox_relay.go`, `database/outbox.sql.go`) | outbox status PENDING, PROCESSING, PUBLISHED, FAILED; the batch in memory | claim a batch, publish, mark; every 5 min rescue and clean up | PostgreSQL, RabbitMQ; one relay per API replica |
| Worker consumer (`infra/event/consumer.go` and wrappers, `cmd/worker/main.go`) | Redis keys `dedup:` and `idem:`, goroutine state, breaker, AMQP channel, WaitGroup | handler stack, fallback, ack, nack, parking, start and stop of the pool | RabbitMQ, Redis, fleet (gRPC), PostgreSQL |
| Circuit breaker (gobreaker, settings in `cmd/worker/main.go`) | closed, open, half open; counts | Execute | shared by the goroutines of a process |
| Fleet service (`grpc/service`, `redis_location_repository.go`) | geo index of drivers | SearchDriver, UpdateDriverPosition | Redis |
| Rate limiter (`web/middleware/rate_limit.go`) | visitors with token buckets | Allow, cleanup | in memory |
| Logging, metrics, tracing, health, configuration, generated stubs | - | - | - |

What makes it hard, and what must hold nevertheless:

- **Concurrency.** Ten goroutines per worker process and several processes; several
  relays. The Redis `SETNX` and `FOR UPDATE SKIP LOCKED` are the only locks: an
  event must not be processed twice at once, a row not be claimed twice.
- **One transaction, two rows.** The order and its event must be committed together,
  although statements fail, clients leave (the context rolls back in the background)
  and clients choose the ids, so that two requests may insert the same one.
- **Read, then write.** The dispatch use case and the fallback read an order, decide
  in memory, and write it with an `UPDATE ... WHERE id`: the write must not be stale.
- **Partial failure.** Each remote call may fail, and a failed write may have been
  applied. Failure must lead to a retry, the fallback or the parking queue, and
  never to an order that is forgotten.
- **Redelivery, crashes, shutdown.** RabbitMQ redelivers what was not acknowledged;
  a duplicate is acknowledged unseen if its key exists. A key must therefore mean
  that the order is settled or being handled.
- **Time.** The 5 s deadline of an attempt, the 10 s of the wait queue, the 30 s of
  the breaker, the 5 min of the rescuer.
- **Pool and shutdown.** A panic ends a goroutine of the pool and leaves its delivery
  in the prefetch window; `Start` must not hang in `wg.Wait`, nor the queue stop.
- **Objects used outside of their lock.** A handler uses a rate limiter after the lock
  is released, and the cleanup forgets visitors by the age of their last lookup alone;
  a client must not get a second or a refilled bucket by that.
- **Handing over.** An order passes from a transaction to the memory of a relay, to a
  queue and to a goroutine; between two owners it must not get lost.
- **Bounded retries.** Three in place, three through the wait queue, then parking:
  every order must settle.

`PROJECT.json` lists the hazards, each with its line and the properties about it.

## Modules and how they correspond to the code

| Module | Models | Used by |
|---|---|---|
| `OrderStates` | the status names and, per operation, the states that accept it (`entity/states.go`) | the next two |
| `OrderLifecycle` | abstract specification: a row changes only by an operation of the aggregate on its current value | `Consumer` (refinement), `OrderLifecycleProofs` |
| `AtomicCreate` | abstract specification: an order and its event come into being in one step, once per request and id | `CreateOrder` (refinement) |
| `OrderService` | abstract specification: the whole system as one program with one database | `GoFleet` (refinement) |
| `Consumer` | the worker service: what is done with each delivery | `MCConsumer`, `ConsumerProofs`, `ConsumerDeliveryProofs`, `GoFleet` |
| `WorkerPool` | `consumer.Start` and `main` of a worker process: goroutines, prefetch window, shutdown | `MCWorkerPool`, `WorkerPoolProofs` |
| `CreateOrder` | a request from the decoder to the answer, and its transaction | `MCCreateOrder`, `CreateOrderProofs`, `GoFleet` |
| `Outbox` | relay, rescuer and outbox table | `MCOutbox`, `OutboxProofs`, `GoFleet` |
| `FleetService` | the geo index and the answers of SearchDriver | `GoFleet` |
| `GoFleet` | composition of the four above: API, relay, worker, fleet service | `MCGoFleet`, `GoFleetProofs` |
| `TokenBucket` | abstract specification: one token bucket per client | `RateLimiter` (refinement) |
| `RateLimiter` | `middleware.IPDispatcher` | `MCRateLimiter`, `RateLimiterProofs` |
| `MC...` | instances for TLC | |
| `...Proofs` | theorems | |

### CreateOrder

A request is a program counter; requests interleave between statements.

| `pc` | Action | Code |
|---|---|---|
| `new` | `Decode` | the decoder; on an error 400 is answered, and the handler goes on |
| `validate` | `NewOrder` | `entity.NewOrder` and `SetPayload` on the shared event |
| `begin` | `BeginTx` | `UnitOfWorkImpl.Do` |
| `order` | `Save` | rounding and `INSERT INTO orders`, which waits while an open transaction holds the id |
| `event` | `SaveOutboxEvent` | `INSERT INTO outbox` |
| `rollback` | `Rollback` | the error path of `Do` |
| `commit` | `Commit` | `tx.Commit` and the answer |

The tables hold uncommitted rows too: `open` is the set of requests whose transaction
is open, and `Committed(table)` the rows everyone sees. A row remembers in `by` which
request wrote it. `ContextEnds` is the rollback that `database/sql` does on its own
when a client has left (`Disconnect`); the handler finds out at its next statement. A
`Commit` or `Rollback` on a context that is done may return at once (`LeftToContext`):
the handler answers and ends, and its transaction keeps the lock on the id until
`ContextEnds` has rolled it back, so that `open` may contain requests that are `done`.
`Crash` is a shutdown that was forced after 15 s, or a death. Amounts are integers in
thousandths, the columns in hundredths; a tie may be rounded to either side, as a
decimal tie is none in binary. A committed request is the action `Create` of `Outbox`.

`CreateOrder` implements `AtomicCreate`: `stored` and `announced` are the committed
rows of the two tables, `confirmed` the requests answered 200. A commit is the one step
in which all three may change; statements, rollbacks, disconnections and crashes are
stutters.

### Consumer

A goroutine is a program counter `pc[t]` with the delivery `msg[t]`; an action is
one remote call or one local decision, so goroutines of all processes interleave
between calls. The wrappers nest as in `cmd/worker/main.go:202-232`:

| `pc` | Action | Code |
|---|---|---|
| `idle` | `Deliver` | `startWorker` receives from the channel |
| `guard` | `GuardSetNX` | `WrapIdempotency`, SETNX of `dedup:`; an existing key leads to `ack` |
| `admit` | `Admit` | `cb.Execute`: admitted, `ErrOpenState`, or `ErrTooManyRequests` |
| `idem` | `IdemSetNX` | `ProcessOrder`, SETNX of `idem:` |
| `search` | `SearchDriver` | the gRPC call |
| `find`, `update` | `FindOrder`, `UpdateOrder` | `DispatchUseCase.Execute`: read and transition, write |
| `undo` | `DelIdem` | `ProcessOrder` releases `idem:` and the breaker counts a failure |
| `release` | `DelDedup` | `WrapIdempotency` releases `dedup:` |
| `retry` | `Backoff` | `WrapExponentialBackoff`: next attempt, give up, or cancelled |
| `fbFind`, `fbUpdate` | `FallbackFind`, `FallbackUpdate` | `executeFallback`, outside the guard |
| `dispose` | `NackToWait`, `Park`, `ParkFails` | the end of `handleMessage` |
| `ack` | `Ack` | success, duplicate, fallback success, parked |

`late[t]` says that the 5 s deadline of the attempt has passed: every later call on
that context fails, the DEL of `idem:` included. `Resend` is the Redis client sending a
command again whose reply was lost, as go-redis does by default: a repeated SETNX finds
the key it has set itself, a repeated DEL removes the key of whoever has it by then, as
no key names its owner. `Cancelled(t)` says that the signal
context is cancelled. `Tell` gives RabbitMQ's answer to an ack or nack: none, if the
channel of the delivery is closed. `WaitExpire` is the TTL of the wait queue and
counts in the x-death header. `LoseChannel`, `BeginShutdown`, `Exit` and `Start` are
the life of a process; `Exit` needs no goroutine to have finished, as `main` returns
without waiting for `consumer.Start`. `Panic` ends a goroutine for good, with its keys
in Redis and its delivery unacknowledged. `Backlog` is what is in the queue at first;
nothing else arrives, except in `GoFleet`.

The constant `Faults` names what the environment may do; a call fails when its
context is done or its fault is in `Faults`, and a failed write may have been
applied. Each run names the faults it allows.

### Outbox

`status` is the column, `stale` the PROCESSING rows that have not been updated for
five minutes, `job[r][e]` what relay `r` still has to do about row `e`. `Fetch` is
`BEGIN` and the `SELECT ... FOR UPDATE SKIP LOCKED`: the rows in the batch of a relay
in `claiming` are locked. `ClaimCommit` and `ClaimFails` end the transaction, the
latter with the update applied or not. `Publish`, `MarkPublished` and `MarkFailed`
are `processSingleEvent`, for the rows of a batch in any order (ten goroutines).
`Age`, `Rescue` and `Cleanup` are time and `RunRescuer`. `Crash` stops and restarts
a replica. `Bind` is the first worker declaring the queue: until then RabbitMQ drops
what is published.

### WorkerPool

`place` is RabbitMQ, `buffer` the deliveries the client library has received, `msgs`
the Go channel in front of it, `worker` and `held` the goroutines, `wg` the WaitGroup.
`Push` is the broker, which keeps `PrefetchCount` (twice the goroutines) deliveries
unacknowledged at most. `Receive`, `Settle`, `Panic` and `Stop` are the loop of
`startWorker` and its deferred `recover` and `wg.Done`. `Signal`, `CloseChannel` and
`Return` are `Start` on SIGTERM; `CloseMsgs` is the library, which closes `msgs` some
time after the channel; `MainReturns` is `main`, which waits for the signal only.

### RateLimiter

A limiter is an object: `visitor` is the map, `held` the reference a handler keeps
from `GetVisitor` (under the lock) to `Allow` (outside of it). `Cleanup` is the ticker
goroutine. `Tick` is the time in which one token comes in, 1/`RequestsPerSecond`, so
that times are counted in tokens. The refinement maps the bucket of a client to its
limiter, or to a full bucket if it has none.

### FleetService and GoFleet

`FleetService` has `Start` (the seed, any part of which may fail unnoticed), `Stop`,
and the two answers `Finds(d)` and `Fails`, the latter also for a call or an answer that
does not get through (fault `net`); all orders have one position in this program
(a constant in `fleet_service.go`), so a driver is reduced to its distance.

`GoFleet` joins the services where one action of the program is a step of two:

| Action | Steps taken together |
|---|---|
| `Serve` | the end of a transaction in `CreateOrder`, and `Create` of `Outbox` |
| `Publish` | `Publish` of `Outbox`, and a copy `queue[m]` of `Consumer` |
| `Work`, at `search` | `SearchDriver` of `Consumer`, answered by `FleetService`, or ended by its own context |
| `ApiCrash` | `Crash` of `CreateOrder` and of `Outbox` |

`GoFleet` implements `OrderService`: `accepted` are the committed orders, `confirmed`
the orders of the requests answered 200, `row` the table as the worker leaves it. Relay,
queues, keys, goroutines and the fleet's index have disappeared there; what is left is
`Accept`, `Dispatch` to a driver in range, and `SendToManual`. The last is enabled in
every state of an accepted order: the fallback writes what it decided on at its read,
and may take the driver of an order away that was dispatched in between. That is what
the program promises, and less than the aggregate does (`OrderLifecycle`).

All other steps are one component's alone: `ProcessLife` is what happens to worker
processes and their calls, SIGTERM (`BeginShutdown`) and repeated Redis commands
included. A publish by a relay that has stalled or
been restarted adds another copy, so duplicates arise as they do in the program.

## What is checked

Bounds are small because the interesting conflicts need two of a kind: two
goroutines, two processes, two copies of an event, two relays, and a batch smaller
than the table. All retry limits are cut: `MaxRetries` from 3 to 1 or 2 and
`BackoffRetries` from 3 to 1 (every path of the loop: retry, exhausted);
`BatchSize` from 100 to 2 of 3 rows; the pool from 10 goroutines to 2, with 5 messages
for a window of 4; the bucket from 20 tokens to 2. Three bounds are not in the code:
`MaxFaults` bounds faults of the outbox, since a fault at every step would allow no
progress (the worker's faults are not counted); `MaxPanics` bounds the panics of a
pool, here to all its goroutines; `MaxStall` bounds the time a request stands still
between `GetVisitor` and `Allow`, and `GoFleet` has more messages per event than its
relay may have faults, so that there is always one to publish. `MaxStall` is at most the
timeout, so the limiter a request holds is always its client's visitor: a request that
stands still for more than three minutes would spend from a limiter that the map has
replaced, and `OneBucketPerClient` is not claimed of it. Symmetry is used for safety only, and by
`MCRateLimiter`, whose refinement is a safety property that treats all clients alike.
Deadlock checking is off where the system rests when all orders are settled, that is
everywhere but in `MCRateLimiter`.

| Run | Instance | Shows | Distinct states |
|---|---|---|---|
| `MCGoFleet` | one order and request, 2 copies, 1 goroutine, drivers within and out of range; failing statements, stalled relay, death of the API, failing fleet service | types; `OnlyAcceptedOrders`; `AcceptedIsInHand`; `GoFleet` implements `OrderService` (`ServiceSpec`); `EveryOrderSettles` | 334 k |
| `MCCreateOrder` | 2 requests for one id, 4 amounts (negative, zero, ties), columns of 4 cents; all faults | types; `OrderHasItsEvent`; `OneAcceptedPerId`; `AcceptedIsStored`; `SumWithinACent`; `CreateOrder` implements `AtomicCreate` (`AtomicSpec`); `EveryRequestEnds` | 440 k |
| `MCConsumerProcesses` | 2 processes, one message; all faults but resend | types; `GuardExclusive`; `DispatchNotStale`; `DriverIffDispatched`; `RetryBudget` | 1.14 M |
| `MCConsumerKeys` | 2 goroutines that share a breaker, 2 copies of an event, 2 trips; faults db, fleet | `KeyMeansHandled`; `NoSilentLoss`; `EveryOrderSettles` | 80 k |
| `MCConsumerLifecycle` | 1 process, one message, 2 drivers; faults redis, resend, slow, db, fleet, park, crash | `Consumer` implements `OrderLifecycle`; `DriverKept` | 7.1 k |
| `MCWorkerPool` | 5 messages, 2 goroutines, 2 panics; connection lost, SIGTERM | types; `ShutdownIsClean`; `IdleIsServed`; `StartReturns`; `QueueDrains` | 36 k |
| `MCOutboxClaims` | 3 rows, 2 relays, batches of 2; faults db, broker, crash | types; `NoDoubleClaim`; `PublishedReachedQueue` | 3.6 k |
| `MCOutboxLive` | 2 rows, 2 relays; faults db, conn, stall, crash; queue bound late | `PublishedIsFinal`; `EventuallyPublished` | 7.7 k |
| `MCRateLimiter` | 2 clients, 2 handlers, 4 limiter objects, a bucket of 2 that fills within the timeout of 3 | types; `VisitorsExpire`; `OneBucketPerClient` | 7.7 k |

`MCGoFleet` has one goroutine because a second one multiplies the graph on which its
liveness is checked beyond reason; what two goroutines do to each other is the subject
of the other runs. It leaves the fault `park` out: a parking publish that fails
every time requeues the message for ever.

- `OnlyAcceptedOrders`, `AcceptedIsInHand` and `EveryOrderSettles` of `GoFleet` follow
  an order through all services: nothing happens before its commit, at every moment
  after it somebody is responsible for it, and in the end it is dispatched, in manual
  dispatch or parked. This holds although the index of drivers may be empty.
- `ServiceSpec`: none of the ways in which a message is lost, doubled or late lets the
  outside see anything but an order that is accepted once, confirmed only if accepted,
  and dispatched or handed over only if accepted.
- `AtomicSpec`: the statements of a request, with whatever fails between them, amount
  to one step in which its order and its event appear; no step takes either back, and
  no request creates two.
- `EveryRequestEnds`: a request ends and its transaction with it. An insert that waits
  for an id waits for a transaction that is ended by its handler or, when the handler
  has left it behind, by the background rollback.
- `OrderHasItsEvent`: a committed order has its committed event and the other way
  round, and the event carries the final price that was rounded into the order's row,
  although all requests share one event object.
- `OneAcceptedPerId` and `AcceptedIsStored`: of the requests for an id at most one is
  answered 200, and it finds its own order in the table. Neither depends on how the
  commit of the others failed.
- `SumWithinACent`: three roundings cost at most one cent. Equality does not hold:
  0.014 + 0.014 is stored as 0.01, 0.01 and 0.03.
- `GuardExclusive`: between its SETNX and its DEL a goroutine is alone with its event
  across all processes, even when calls fail after they were carried out or processes
  die. It does need a Redis client that sends no command twice, and so does
  `DispatchNotStale`, which rests on it: with the fault `resend` TLC breaks both.
- `DriverIffDispatched`: status and driver of a row never contradict each other, although
  the fallback writes a driver column it read before another copy dispatched the order:
  it then takes the driver away together with the status.
- `DriverKept`: no sequence of deliveries, retries, fallbacks and crashes replaces an
  assigned driver or takes it away, commands sent twice included.
- `DispatchNotStale`: when the dispatch use case writes, the row is still in a state
  that may be dispatched. This is not obvious, since the fallback of another copy
  writes the same row outside the guard; it holds because MANUAL_DISPATCH may be
  dispatched too.
- `KeyMeansHandled` and `NoSilentLoss` are two halves of one argument: a duplicate
  may be acknowledged unseen because its key means something. The run allows failing
  statements and fleet calls only; every fault that can leave a key behind breaks the
  argument, as the section on disagreements shows.
- `RetryBudget`: requeues by lost channels and failed parking publishes neither
  consume nor grant trips through the wait queue.
- `LifecycleSpec`: read-modify-write of dispatch and fallback maps to single
  operations of the aggregate, as long as there is one copy of an event.
- `ShutdownIsClean`: what the process had taken and not settled is in the queue again
  when `Start` has returned, deliveries of panicked goroutines included. `StartReturns`:
  the range loops end and the WaitGroup reaches zero in every order of lost connection,
  panics and signal.
- `IdleIsServed` and `QueueDrains`: a goroutine never idles behind a full window, and no
  message waits for ever: deliveries of panicked goroutines are never settled, but with
  a window of twice the pool they do not fill it before the last goroutine is gone.
- `OneBucketPerClient`: forgetting a visitor is invisible to its client, at the very
  tick at which its bucket is full and its timeout over, and with handlers that are still
  using limiters. This needs a timeout that is longer
  than a bucket takes to fill (assumption `TimeoutFillsBucket`; 3 min against 2 s).
- `PublishedIsFinal`: rescues, and the marks of relays that stalled and come back to a
  row another relay has published since, do not take PUBLISHED back, although none of the
  statements has a condition on the status: the row lock holds a mark up while the row is
  being claimed, and a late mark of PUBLISHED does no harm. A late mark of FAILED does,
  so the run leaves refused publishes out (see the disagreements).
- `EveryOrderSettles`, of worker and composition, counts a parked message as settled, for
  an operator has it then. It shows that no message goes round for ever, not that
  operators are told of a PENDING order or of an empty index.

**Fairness.** `MCCreateOrder` assumes that the goroutine of a request goes on whenever
it can do so without a failure of the database, and that `database/sql` gets to roll back
a transaction whose context is done (it has a goroutine for each); nothing is assumed of
clients, and a request that waits for a row is not rescued by a failure. `MCConsumerKeys` assumes that
goroutines run (`WF` of `Handle`), that the queue is first in first out, so a copy that
returns to it again and again is eventually taken (`SF` of `Deliver` per copy), and that
the TTL of the wait queue fires. It assumes nothing of the breaker's timer and does not
force any call to succeed. `MCOutboxLive` assumes that the two tickers fire, that
statements return, and that time passes. `MCGoFleet` assumes of relay and worker the
same as these two, and nothing of clients, of the API's requests, of the start of the
fleet service or of any fault's end. `MCWorkerPool` assumes that the broker delivers,
that the goroutines run and handlers return (their calls end with a context), and
that `Start` and the library go on; nothing is assumed of `main`.

**Each property is falsifiable by a plausible bug.** The mutants in `PROJECT.json`
(SET instead of SETNX, a forgotten DEL, one retry too many, no row locks, a dropped
error, ...) are operators next to the definitions they replace.

## What is proved

TLAPS checks these for every value of the constants that satisfies the assumptions
named in the modules: `CreateAssumption`, `ConsumerAssumption`, `OutboxAssumption`,
`PoolAssumption`, `LimiterAssumption` with `TimeoutFillsBucket`, and for `GoFleet`
`CompositionAssumption`, which contains those of its parts. TLC evaluates them in the
runs. `OrderLifecycleProofs` assumes that no driver is the missing one.

| Theorem | Statement | Argument |
|---|---|---|
| `CreateOrderProofs!TypeCorrect` | `Spec => []TypeOK` | a part of the invariant below: only validated amounts that fit are inserted |
| `CreateOrderProofs!UnitOfWorkIsAtomic` | `Spec => []OrderHasItsEvent` | the inductive invariant `IInv` says which rows a request has written at each step, that unfinished rows belong to open transactions, and that a transaction is lost early, or outlives its handler, only if its client is gone |
| `CreateOrderProofs!AcceptedOrdersAreStored` | `Spec => []AcceptedIsStored` | from `IInv`: 200 is written only when a commit of a live transaction succeeds |
| `CreateOrderProofs!OneAccepted` | `Spec => []OneAcceptedPerId` | from `IInv`: the primary key holds over uncommitted rows too |
| `CreateOrderProofs!RoundingIsBounded` | `Spec => []SumWithinACent` | from `IInv` and the lemma `CentsOfAmount`, for all amounts |
| `CreateOrderProofs!CreationIsAtomic` | `Spec => AtomicSpec` | from `IInv`, step by step (`StepRefines`): only `Commit` changes the committed rows, and by `IInv` it adds one order with its event, of a request and an id that have none yet |
| `ConsumerProofs!TypeCorrect` | `Spec => []TypeOK` | inductive by itself, one case per action |
| `ConsumerProofs!GuardIsLock` | without resend, `Spec => []GuardExclusive` | inductive with `TypeOK`: the key exists while some goroutine is past its SETNX, only that goroutine deletes it, and `GuardSetNX` needs it absent |
| `ConsumerProofs!DispatchIsNotStale` | without resend, `Spec => []DispatchNotStale` | inductive with the two above: the only writers of a row beside the owner of the key are fallbacks, which write a dispatchable status |
| `ConsumerProofs!KeysAreHonest` | without the faults redis, resend, slow, panic, crash and shutdown, `Spec => []KeyMeansHandled` | strengthened by `Calm` (no context is ever done), `DedupHandled` (a key `dedup:` belongs to a guarded or a dead goroutine or a settled order) and `IdemHandled` (a key `idem:` to a goroutine inside the business logic, a dead one or a settled order); settled orders stay settled, and without panics nobody is dead |
| `OutboxProofs!TypeCorrect` | `Spec => []TypeOK` | with cardinalities of batches |
| `OutboxProofs!NoRowClaimedTwice` | without stalls, `Spec => []NoDoubleClaim` | rows in a batch are PROCESSING and not stale, or locked by the claim transaction; only PENDING, unlocked rows are claimed |
| `OutboxProofs!ClaimsAreExclusive` | `Spec => []LockIsExclusive` | what is left of that with stalls: rows of open claim transactions are PENDING and in one of them only; rescues leave PENDING rows alone, marks wait for the lock |
| `OutboxProofs!PublishedStays` | without stalls or without refused publishes, `Spec => PublishedIsFinal` | of the writers only rescues, claims and marks of FAILED could take PUBLISHED back: stale rows are PROCESSING, claimed rows are PENDING (`LockIsExclusive`), and a refused row is, without stalls, still its relay's own; without refusals there is none |
| `OutboxProofs!PublishedIsQueued` | bound from the start and no silent loss, `Spec => []PublishedReachedQueue` | a job `sent` has reached the queue |
| `OutboxProofs!RowsAreHandedOver` | bound from the start, no publish refused or lost, `Spec => []HandedOver` | a committed row is PENDING or PROCESSING, or it has reached the queue; no row becomes FAILED |
| `ConsumerDeliveryProofs!RetriesAreBudgeted` | `Spec => []RetryBudget` | inductive with the types: only `NackToWait` and the expiry of the wait queue count, and both are guarded by the count |
| `ConsumerDeliveryProofs!DriversAgree` | `Spec => []DriverIffDispatched` | strengthened by `Drafts`: a dispatch carries a driver the fleet service answered, and a fallback none, as it was decided on a PENDING row; so the row is consistent even after a stale write |
| `ConsumerDeliveryProofs!NoOrderIsLost` | every copy in the queue at first; without the faults redis, resend, slow, crash, shutdown and conn, `Spec => []NoSilentLoss` | while channels last, whoever handles a copy holds it; a copy is given up only for an order that is settled, has a parked copy, or whose key is held by another goroutine (`DedupHandled`, `IdemHandled`). That one has a copy too, and if it panicked it keeps it for good |
| `ConsumerDeliveryProofs!WorkerImplementsLifecycle` | one copy per event, channels that last, `Spec => LifecycleSpec` | a goroutine with a copy of the event is alone with its row, whatever becomes of the keys, so what it read is still there, and allows its write, when it writes |
| `ConsumerDeliveryProofs!DriversAreKept` | the same, `Spec => DriverKept` | from the refinement: the abstract steps keep drivers |
| `OrderLifecycleProofs!TypeCorrect`, `DriverIsConsistent`, `DriverIsFinal` | types; status and driver agree; an assigned driver is final | by the operations of the aggregate, `Cancel` and `Deliver` included |
| `WorkerPoolProofs!TypeCorrect` | `Spec => []TypeOK` | the WaitGroup counts the goroutines that run, panics included |
| `WorkerPoolProofs!ShutdownLeavesNothing` | `Spec => []ShutdownIsClean` | a closed channel has nothing unacknowledged, and the counter at zero means nobody runs |
| `WorkerPoolProofs!WindowLeavesRoom` | `Spec => []IdleIsServed` | strengthened by `Accounted`: while the channel is open, what is unacknowledged is in the buffer or in the hands of a goroutine, one delivery each; an idle goroutine has none, so there are fewer than goroutines, and the window is twice that |
| `RateLimiterProofs!TypeCorrect` | `Spec => []TypeOK` | with cases for the handlers |
| `RateLimiterProofs!MapIsBounded` | `Spec => []VisitorsExpire` | an entry was younger than the timeout at the last cleanup |
| `RateLimiterProofs!LimiterImplementsBucket` | `Spec => OneBucketPerClient` | a limiter that is `unseen` for n ticks, and was last used at most `MaxStall` ticks after it was fetched, has n - `MaxStall` tokens or is full; so an inactive one is full, nobody holds it, and removing it leaves the abstract bucket as it is |
| `GoFleetProofs!ApiImplemented`, `RelayImplemented` | `Spec => Cust!Spec`, `Spec => Out!Spec` | each step of the composition is a step or a stutter of the part, so that the part's theorems hold of the whole |
| `GoFleetProofs!TypeCorrect` | `Spec => []TypeOK` | from the parts; the worker is given copies by `Publish`, which its own module does not know, and gets a case of its own |
| `GoFleetProofs!NothingBeforeAcceptance` | `Spec => []OnlyAcceptedOrders` | inductive strengthening `AcceptedFirst`: an order that is not accepted is unknown to the relay and untouched by the worker |
| `GoFleetProofs!WorkerStaysSound` | `Spec => []` of `DriverIffDispatched` and `RetryBudget` | the worker's lemmas about single actions, and a case for `Publish`: a copy that arrives is nobody's and has no deaths |
| `GoFleetProofs!WorkerStaysFresh` | without resend among the worker's faults, `Spec => []` of `GuardExclusive` and `DispatchNotStale` | likewise |
| `GoFleetProofs!PipelineIsOrderService` | without resend among the worker's faults, `Spec => ServiceSpec` | step by step (`ServiceStep`): the API's steps by the refinement of `AtomicCreate`; a write of the worker is of an accepted order by `AcceptedFirst`, out of a state that allows it by `WorkerFresh`, and to a driver in range by `FoundInRange` (what a goroutine carries, the fleet service answered) |
| `GoFleetProofs!AcceptedIsHandedOver` | worker faults as in `NoOrderIsLost`, no publish refused or lost, `Spec => []AcceptedIsInHand` | a chain: a committed order has its outbox row; by `RowsAreHandedOver` the row is still to be taken up or has reached the queue; and what has reached the queue is settled or has a copy in RabbitMQ, by the argument of `NoOrderIsLost` carried over to a queue that copies arrive in |

Which faults a theorem leaves out is part of what it says, and each assumes it by name:

| Left out | Theorems |
|---|---|
| nothing | `DriversAgree`, `RetriesAreBudgeted`, `ClaimsAreExclusive`, the theorems of `CreateOrderProofs`, `WorkerPoolProofs` and `RateLimiterProofs`, the type theorems; in `GoFleetProofs` `ApiImplemented`, `RelayImplemented`, `NothingBeforeAcceptance` and `WorkerStaysSound` |
| `resend` of the worker | `GuardIsLock`, `DispatchIsNotStale`, `WorkerStaysFresh`, `PipelineIsOrderService` |
| what can leave a key behind, or take a delivery from its goroutine | `KeysAreHonest`, `NoOrderIsLost`, `AcceptedIsHandedOver` |
| `conn` and `shutdown`, in which a channel goes before its handlers, and a second copy of an event | `WorkerImplementsLifecycle`, `DriversAreKept` |
| stalls of a relay | `NoRowClaimedTwice` |
| stalls together with refused publishes | `PublishedStays` |
| publishes that fail or are lost, and a queue that is not bound | `RowsAreHandedOver`, `AcceptedIsHandedOver`; lost ones and the queue, `PublishedIsQueued` |

The section below says what happens without these assumptions. SIGTERM (`shutdown`) is a
fault like the others: the third and the fourth line exclude it. The composition assumes
that the worker's faults contain `fleet`, as the fleet service may always fail, and has
one relay.

`GoFleet` implements `CreateOrder` and `Outbox`, but not `Consumer` alone, in which no
copy arrives after the start; the worker's lemmas about single actions are used again
and `Publish` is added.

Only model-checked, as liveness under fairness is out of reach of the prover:
`EveryRequestEnds`, `EveryOrderSettles` (of the worker and of the composition),
`EventuallyPublished`, `StartReturns` and `QueueDrains`.

## Where code and documentation disagree

Three runs end in a counterexample that TLC finds in what the code does:

- `MCConsumerCrash` - a worker that dies between SETNX and the database write leaves
  its key; the redelivered message is acknowledged as a duplicate and the order is
  PENDING for ever. `README.md:240` says the new worker processes it normally.
- `MCConsumerStaleFallback` - the fallback's unconditional write overwrites a
  dispatch that happened after its read. `README.md:183` says that every change of
  state happens in an isolated transaction.
- `MCOutboxOutage` - a row whose publish failed once is FAILED and never tried again.
  `README.md:301` says orders are accepted during an outage of RabbitMQ, through the
  outbox; they are, but their events are lost.

More of the same kind, each reproduced by adding a fault to a run:

- fault `slow` and `NoSilentLoss`: the DEL of `idem:` runs on the context whose
  deadline just passed (`consumer.go:243`), so the key survives and the next attempt
  counts as a duplicate. `consumer.go:272` says the key is deleted.
- fault `shutdown` and `NoSilentLoss`: SIGTERM cancels the context of running handlers
  and `main` does not wait for them; their keys survive (against `README.md:385`).
- fault `conn` and `NoSilentLoss`: after a lost connection another process receives
  the message while the first goroutine still holds the key, and acknowledges it; the
  first goroutine then fails and no copy is left.
- fault `redis` and `KeyMeansHandled`: a SETNX whose reply is lost, or a failed DEL,
  leaves a key nobody owns.
- fault `resend` and `NoSilentLoss`: the client library repeats a SETNX whose reply was
  lost, the repetition finds the key and answers false, and the goroutine acknowledges
  its own message as a duplicate (`idempotency_wrapper.go:40`): the order is PENDING and
  no message is left. This takes no other fault.
- fault `resend` and `GuardExclusive`, `DispatchNotStale`: a repeated DEL
  (`redis_adapter.go:22`) removes the key that another goroutine has set in between, and
  one more attempt is admitted while that one is at work. A key that names its owner, and a
  DEL that compares, would prevent both.
- fault `fleet`: below the breaker's threshold of ten requests, or with
  `ErrTooManyRequests`, a message is parked with its order PENDING and the fallback
  never runs (against `README.md:222`).
- `BoundAtStart = FALSE` and `PublishedReachedQueue`: what is published before the
  first worker has declared the queue is dropped and marked PUBLISHED.
- fault `stall` and `NoDoubleClaim`: a relay that needs more than five minutes shares
  its rows with whoever claims them after the rescue (against `README.md:380`);
  duplicates are then up to the consumer.
- faults `stall` and `broker` together and `PublishedIsFinal`: a relay whose publish was
  refused stalls before its mark, the row is rescued, another relay publishes it and marks
  it PUBLISHED, and the late mark of FAILED, which names the row by its id only
  (`outbox.sql.go:120`), takes that back. The event was sent; the table says it was not.

The pool: `README.md:385` says that shutdown waits for the workers; `Start` does, but
`main` returns on the signal without waiting for `Start` (`MainReturns`), and
`StartReturns` holds only because it allows for that. `consumer.go:128` recovers a panic
and says nothing to `Start`: the pool shrinks for good, and when the last goroutine is
gone the process holds a full prefetch window and does nothing (`QueueDrains` allows
for it: leave `Panicked = Workers` out and TLC shows it). The same holds of a
connection that is lost: nothing reopens it and `main` is not told. `README.md:229`
promises ten messages at a time where twenty are prefetched, as `README.md:232` says.

The limiter: `README.md:255` says per IP, but without a forwarding header the key is
`RemoteAddr` with its port, so that a client that opens a new connection has a new
bucket. `OneBucketPerClient` is about keys.

The fleet service keeps no reservation: the nearest driver is found for every order.
The errors of its seed are dropped (`cmd/fleet/main.go:135`), so it may serve an empty
index, on which every search fails and all orders end in manual dispatch or parking.

In `CreateOrder` the converse of `AcceptedIsStored` fails: the handler does not return
after answering 400 (`handler/order.go:29`), so that a body whose `tax` has the wrong
type is refused and its order created all the same with tax 0; and a 500 after a
commit whose reply was lost hides an order. Two plain disagreements need no model:
`README.md:75` promises 201 where the handler answers 200, and `order_test.go:32`
expects `ErrPriceIsRequired` where `Validate` returns `ErrPriceMustBePos`.

## Abstractions, and what is not modelled

- An event is identified with its order (`CreateOrder` emits one event per order, all
  copies carry its `x-event-id`); messages without id and malformed bodies are left out.
- The geo arithmetic of Redis is reduced to a distance per driver.
- Time in `RateLimiter` is discrete, a token per tick, and the cleanup is not late.
- The 24 h lifetime of the Redis keys is taken as endless: no retry takes a day.
- The client-side prefetch buffer is part of the queue `main`.
- The breaker's counts are abstracted: a failure may or may not open it. Its states
  and what each admits are modelled.
- Prices are integers: the float arithmetic before the rounding is taken as exact.
- Ids that PostgreSQL refuses (too long) fail like any other statement.
- The order row is committed with its event, so `FindByID` never misses it.
- A failed write is applied before its error is reported, or never.
- `Deliver` and `Cancel` of the aggregate are called by no service; they appear in
  `OrderLifecycle` only.
- No one reconnects a lost AMQP connection, in the code or in the model; a process
  without a channel is idle until it restarts.
- Not modelled: the request counts and generations of the breaker, which belong to the
  gobreaker library (it is not in the repository, and what `Consumer` allows, a failure
  may or may not trip it, includes whatever it counts); logging, metrics, tracing,
  health endpoints, configuration and generated stubs, which have no state the
  properties speak of; the wiring in the `main` functions beyond start and stop.

## Roadmap

What is left is of less weight than what is there:

1. Larger instances of `GoFleet`: two orders and two goroutines, for safety only.
2. The expiry of the Redis keys, with a clock, for a message that waits for a day.
3. A composition of `WorkerPool` and `Consumer`: the pool abstracts the handler, the
   worker abstracts the window, and no module shows that they fit.
