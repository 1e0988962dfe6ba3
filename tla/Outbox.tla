------------------------------- MODULE Outbox -------------------------------
(***************************************************************************)
(* The transactional outbox of the API service: rows written PENDING with  *)
(* their order, the relay of every API replica, which claims batches of    *)
(* rows, publishes them and marks them, and the rescuer that returns stuck *)
(* rows and removes old ones.  A statement or a transaction is one action; *)
(* a failed write may have been applied.                                   *)
(***************************************************************************)
EXTENDS Naturals, FiniteSets

CONSTANTS Events,        \* ids of the outbox rows
          Relays,        \* relays, one per API replica
          BatchSize,     \* rows claimed at once (100)
          BoundAtStart,  \* the queue exists before the first publish
          Faults,        \* what may go wrong in the environment
          MaxFaults      \* bound: how many times

FaultKinds == {"db",      \* a statement or commit fails, applied or not
               "broker",  \* publish returns an error
               "conn",    \* publish returns nil and the message is lost
               "stall",   \* a relay needs more than five minutes for a row
               "crash"}   \* an API replica stops and is started again

ASSUME OutboxAssumption ==
  /\ IsFiniteSet(Events)
  /\ BatchSize \in Nat \ {0}
  /\ BoundAtStart \in BOOLEAN
  /\ Faults \subseteq FaultKinds
  /\ MaxFaults \in Nat

VARIABLES
  status,    \* outbox table: the status column
  stale,     \* outbox table: PROCESSING rows not updated for five minutes
  claiming,  \* relays inside the claim transaction
  job,       \* job[r][e]: what relay r has yet to do about row e
  queued,    \* events that reached the queue, at least once
  bound,     \* the queue is bound to the exchange
  faults     \* faults so far

vars == <<status, stale, claiming, job, queued, bound, faults>>

RowStatus == {"absent", "PENDING", "PROCESSING", "PUBLISHED", "FAILED", "deleted"}

Batch(r) == {e \in Events : job[r][e] # "none"}

TypeOK ==
  /\ status \in [Events -> RowStatus]
  /\ stale \subseteq {e \in Events : status[e] = "PROCESSING"}
  /\ claiming \subseteq Relays
  /\ job \in [Relays -> [Events -> {"none", "publish", "sent", "refused"}]]
  /\ \A r \in Relays : Cardinality(Batch(r)) <= BatchSize
  /\ queued \subseteq Events
  /\ bound \in BOOLEAN
  /\ faults \in 0..MaxFaults

Init ==
  /\ status = [e \in Events |-> "absent"]
  /\ stale = {}
  /\ claiming = {}
  /\ job = [r \in Relays |-> [e \in Events |-> "none"]]
  /\ queued = {}
  /\ bound = BoundAtStart
  /\ faults = 0

Fault(f) ==
  /\ f \in Faults
  /\ faults < MaxFaults
  /\ faults' = faults + 1

\* UPDATE outbox SET status = s WHERE id IN S: a deleted row is not found.
SetStatus(S, s) ==
  /\ status' = [e \in Events |-> IF e \in S /\ status[e] # "deleted" THEN s ELSE status[e]]
  /\ stale' = stale \ S

\* The same statement, when its result is an error.
MaybeSetStatus(S, s) ==
  \/ SetStatus(S, s)
  \/ UNCHANGED <<status, stale>>

\* The rows locked by a claim transaction.  Mutant: the SELECT takes no lock.
LockedNever == {}
Locked == UNION {Batch(r) : r \in claiming}

Assign(r, S) == job' = [job EXCEPT ![r] = [e \in Events |-> IF e \in S THEN "publish" ELSE "none"]]
Advance(r, e, next) == job' = [job EXCEPT ![r][e] = next]

-----------------------------------------------------------------------------
\* The unit of work inserts the order and its event; here, the event.
Create(e) ==
  /\ status[e] = "absent"
  /\ status' = [status EXCEPT ![e] = "PENDING"]
  /\ UNCHANGED <<stale, claiming, job, queued, bound, faults>>

\* Mutant of Pickable: the SELECT takes no row locks.
PickableUnlocked == {e \in Events : status[e] = "PENDING"}
Pickable == {e \in Events : status[e] = "PENDING"} \ Locked

\* Mutant of FitsBatch: the SELECT has no LIMIT.
AllFit(S) == S = Pickable
FitsBatch(S) ==
  \/ Cardinality(S) = BatchSize
  \/ S = Pickable /\ Cardinality(S) < BatchSize

\* BEGIN and SELECT ... FOR UPDATE SKIP LOCKED LIMIT; which rows are the
\* oldest is left open.
Fetch(r) ==
  /\ r \notin claiming
  /\ Batch(r) = {}
  /\ Pickable # {}
  /\ \E S \in SUBSET Pickable : FitsBatch(S) /\ Assign(r, S)
  /\ claiming' = claiming \cup {r}
  /\ UNCHANGED <<status, stale, queued, bound, faults>>

\* UPDATE ... PROCESSING and COMMIT.
ClaimCommit(r) ==
  /\ r \in claiming
  /\ SetStatus(Batch(r), "PROCESSING")
  /\ claiming' = claiming \ {r}
  /\ UNCHANGED <<job, queued, bound, faults>>

\* An error from either ends processBatch, also when the commit was applied.
ClaimFails(r) ==
  /\ r \in claiming
  /\ Fault("db")
  /\ MaybeSetStatus(Batch(r), "PROCESSING")
  /\ claiming' = claiming \ {r}
  /\ Assign(r, {})
  /\ UNCHANGED <<queued, bound>>

\* Mutant of AfterRefusal: the error of DispatchRaw is dropped.
IgnoreRefusal == "sent"
AfterRefusal == "refused"

\* DispatchRaw: not mandatory and without publisher confirms, so that a
\* message no queue is bound for, or lost on the way, is not an error.
Publish(r, e) ==
  /\ r \notin claiming
  /\ job[r][e] = "publish"
  /\ \/ /\ queued' = IF bound THEN queued \cup {e} ELSE queued
        /\ Advance(r, e, "sent")
        /\ UNCHANGED faults
     \/ /\ Fault("conn")
        /\ Advance(r, e, "sent")
        /\ UNCHANGED queued
     \/ /\ Fault("broker")
        /\ Advance(r, e, AfterRefusal)
        /\ UNCHANGED queued
  /\ UNCHANGED <<status, stale, claiming, bound>>

\* Both updates name the row by its id and nothing else; they wait for a claim
\* transaction that holds the row.
Mark(r, e, s) ==
  /\ e \notin Locked
  /\ \/ SetStatus({e}, s) /\ UNCHANGED faults
     \/ Fault("db") /\ MaybeSetStatus({e}, s)
  /\ Advance(r, e, "none")
  /\ UNCHANGED <<claiming, queued, bound>>

MarkPublished(r, e) == job[r][e] = "sent" /\ Mark(r, e, "PUBLISHED")

MarkFailed(r, e) == job[r][e] = "refused" /\ Mark(r, e, "FAILED")

-----------------------------------------------------------------------------
Busy(e) == \E r \in Relays \ claiming : job[r][e] # "none"

\* Five minutes pass since the row was marked PROCESSING.
Age(e) ==
  /\ status[e] = "PROCESSING"
  /\ e \notin stale
  /\ stale' = stale \cup {e}
  /\ IF Busy(e) THEN Fault("stall") ELSE UNCHANGED faults
  /\ UNCHANGED <<status, claiming, job, queued, bound>>

\* Mutant of Rescued: nothing at all.
RescuedNever == {}
Rescued == stale

Rescue ==
  /\ Rescued # {}
  /\ SetStatus(Rescued, "PENDING")
  /\ UNCHANGED <<claiming, job, queued, bound, faults>>

\* The retention of seven days ends for some rows.
Cleanup ==
  /\ \E S \in SUBSET {e \in Events : status[e] \in {"PUBLISHED", "FAILED"}} :
        S # {} /\ SetStatus(S, "deleted")
  /\ UNCHANGED <<claiming, job, queued, bound, faults>>

\* The replica restarts with no batch; an open transaction is rolled back.
Crash(r) ==
  /\ Fault("crash")
  /\ Assign(r, {})
  /\ claiming' = claiming \ {r}
  /\ UNCHANGED <<status, stale, queued, bound>>

\* The first worker to start declares the queue and its binding.
Bind ==
  /\ ~bound
  /\ bound' = TRUE
  /\ UNCHANGED <<status, stale, claiming, job, queued, faults>>

Work(r, e) == Publish(r, e) \/ MarkPublished(r, e) \/ MarkFailed(r, e)

Next ==
  \/ \E e \in Events : Create(e) \/ Age(e)
  \/ \E r \in Relays : Fetch(r) \/ ClaimCommit(r) \/ ClaimFails(r) \/ Crash(r)
  \/ \E r \in Relays, e \in Events : Work(r, e)
  \/ Rescue \/ Cleanup \/ Bind

Spec == Init /\ [][Next]_vars

\* The tickers of the relay and of the rescuer fire, statements return and
\* time passes.  Nothing is promised about Create, Cleanup, Bind and faults.
Fairness ==
  /\ \A r \in Relays : /\ WF_vars(Fetch(r))
                       /\ WF_vars(ClaimCommit(r) \/ ClaimFails(r))
  /\ \A r \in Relays, e \in Events : WF_vars(Work(r, e))
  /\ \A e \in Events : WF_vars(Age(e))
  /\ WF_vars(Rescue)

FairSpec == Spec /\ Fairness

-----------------------------------------------------------------------------
(***************************************************************************)
(* Every replica gets a batch of its own: no row is in the hands of two    *)
(* relays, in the claim transaction or after it.  A row that is rescued    *)
(* while its relay is still at it breaks this: the fault stall.            *)
(***************************************************************************)
NoDoubleClaim ==
  \A r1, r2 \in Relays : r1 # r2 => Batch(r1) \cap Batch(r2) = {}

(***************************************************************************)
(* A published row is never taken back, also when a relay comes back late  *)
(* to a row that was rescued meanwhile: the claim of another relay holds   *)
(* its mark up, and a mark of PUBLISHED does no harm.  A mark of FAILED    *)
(* does: with the faults stall and broker together, a relay whose publish  *)
(* was refused takes back what another relay has published since.          *)
(***************************************************************************)
PublishedIsFinal ==
  [][\A e \in Events :
        status[e] = "PUBLISHED" => status'[e] \in {"PUBLISHED", "deleted"}]_vars

(***************************************************************************)
(* A row marked PUBLISHED has reached the queue.  The publish is not       *)
(* confirmed, so this needs a queue bound from the start and connections   *)
(* that do not swallow messages.                                           *)
(***************************************************************************)
PublishedReachedQueue ==
  \A e \in Events : status[e] = "PUBLISHED" => e \in queued

(***************************************************************************)
(* A row that was written is eventually published: failed statements,      *)
(* lost commits and restarts of a replica only delay it, by the rescuer.   *)
(***************************************************************************)
EventuallyPublished ==
  \A e \in Events : status[e] = "PENDING" ~> status[e] \in {"PUBLISHED", "deleted"}

(***************************************************************************)
(* Every event of an accepted order eventually reaches the queue.          *)
(***************************************************************************)
EventuallyQueued ==
  \A e \in Events : status[e] = "PENDING" ~> e \in queued
=============================================================================
