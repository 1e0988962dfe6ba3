---------------------------- MODULE OutboxProofs ----------------------------
(***************************************************************************)
(* Proofs about Outbox, for any finite table, any number of replicas, any  *)
(* batch size and any bound on the number of faults.                       *)
(***************************************************************************)
EXTENDS Outbox, FiniteSetTheorems, TLAPS

(***************************************************************************)
(* What the helpers do to the variables they write.                        *)
(***************************************************************************)
LEMMA SetStatusType ==
  ASSUME TypeOK, NEW S \in SUBSET Events, NEW s \in RowStatus, SetStatus(S, s)
  PROVE  /\ status' \in [Events -> RowStatus]
         /\ stale' \subseteq {e \in Events : status'[e] = "PROCESSING"}
BY DEF TypeOK, SetStatus, RowStatus

LEMMA MaybeSetStatusType ==
  ASSUME TypeOK, NEW S \in SUBSET Events, NEW s \in RowStatus, MaybeSetStatus(S, s)
  PROVE  /\ status' \in [Events -> RowStatus]
         /\ stale' \subseteq {e \in Events : status'[e] = "PROCESSING"}
BY SetStatusType DEF MaybeSetStatus, TypeOK

LEMMA FaultType ==
  ASSUME TypeOK, NEW f, Fault(f) \/ UNCHANGED faults
  PROVE  faults' \in 0..MaxFaults
BY OutboxAssumption DEF OutboxAssumption, TypeOK, Fault

LEMMA FiniteBatch ==
  ASSUME NEW r \in Relays
  PROVE  IsFiniteSet(Batch(r)) /\ Cardinality(Batch(r)) \in Nat
BY OutboxAssumption, FS_Subset, FS_CardinalityType DEF OutboxAssumption, Batch

\* The jobs are well typed and no batch is larger than allowed.
JobsOK ==
  /\ job \in [Relays -> [Events -> {"none", "publish", "sent", "refused"}]]
  /\ \A r \in Relays : Cardinality(Batch(r)) <= BatchSize

LEMMA AssignJobs ==
  ASSUME TypeOK, NEW r \in Relays, NEW S \in SUBSET Events,
         Cardinality(S) <= BatchSize, Assign(r, S)
  PROVE  /\ JobsOK'
         /\ Batch(r)' = S
         /\ \A r2 \in Relays \ {r} : Batch(r2)' = Batch(r2)
<1>1. job' \in [Relays -> [Events -> {"none", "publish", "sent", "refused"}]]
  BY DEF TypeOK, Assign
<1>2. Batch(r)' = S
  BY DEF TypeOK, Assign, Batch
<1>3. \A r2 \in Relays \ {r} : Batch(r2)' = Batch(r2)
  BY DEF TypeOK, Assign, Batch
<1> QED
  BY <1>1, <1>2, <1>3 DEF JobsOK, TypeOK

LEMMA AdvanceJobs ==
  ASSUME TypeOK, NEW r \in Relays, NEW e \in Events,
         NEW next \in {"none", "publish", "sent", "refused"},
         job[r][e] # "none", Advance(r, e, next)
  PROVE  /\ JobsOK'
         /\ Batch(r)' = IF next = "none" THEN Batch(r) \ {e} ELSE Batch(r)
         /\ \A r2 \in Relays \ {r} : Batch(r2)' = Batch(r2)
<1>1. job' \in [Relays -> [Events -> {"none", "publish", "sent", "refused"}]]
  BY DEF TypeOK, Advance
<1>2. Batch(r)' = IF next = "none" THEN Batch(r) \ {e} ELSE Batch(r)
  BY DEF TypeOK, Advance, Batch
<1>3. \A r2 \in Relays \ {r} : Batch(r2)' = Batch(r2)
  BY DEF TypeOK, Advance, Batch
<1>4. Cardinality(Batch(r)') <= BatchSize
  <2>1. Batch(r)' \subseteq Batch(r)
    BY <1>2
  <2>2. Cardinality(Batch(r)') <= Cardinality(Batch(r)) /\ Cardinality(Batch(r)') \in Nat
    BY <2>1, FiniteBatch, FS_Subset, FS_CardinalityType
  <2> QED
    BY <2>2, FiniteBatch, OutboxAssumption DEF OutboxAssumption, TypeOK
<1> QED
  BY <1>1, <1>2, <1>3, <1>4 DEF JobsOK, TypeOK

LEMMA EmptyBatchFits == {} \in SUBSET Events /\ Cardinality({}) <= BatchSize
BY FS_EmptySet, OutboxAssumption DEF OutboxAssumption

(***************************************************************************)
(* Types, the batch limit, and that only PROCESSING rows are rescued.      *)
(***************************************************************************)
LEMMA TypeInit == Init => TypeOK
<1> SUFFICES ASSUME Init PROVE TypeOK
  OBVIOUS
<1>1. \A r \in Relays : Batch(r) = {}
  BY DEF Init, Batch
<1>2. \A r \in Relays : Cardinality(Batch(r)) <= BatchSize
  BY <1>1, EmptyBatchFits
<1> QED
  BY <1>2, OutboxAssumption DEF OutboxAssumption, Init, TypeOK, RowStatus

LEMMA TypeStep == TypeOK /\ [Next]_vars => TypeOK'
<1> SUFFICES ASSUME TypeOK, [Next]_vars PROVE TypeOK'
  OBVIOUS
<1>0. JobsOK
  BY DEF TypeOK, JobsOK
<1>1. ASSUME UNCHANGED job PROVE JobsOK'
  BY <1>0, <1>1 DEF JobsOK, Batch
<1>2. CASE \E e \in Events : Create(e)
  BY <1>1, <1>2 DEF TypeOK, JobsOK, Create, RowStatus
<1>3. CASE \E e \in Events : Age(e)
  BY <1>1, <1>3, FaultType DEF TypeOK, JobsOK, Age
<1>4. CASE \E r \in Relays : Fetch(r)
  <2>1. PICK r \in Relays : Fetch(r)
    BY <1>4
  <2>2. PICK S \in SUBSET Pickable : FitsBatch(S) /\ Assign(r, S)
    BY <2>1 DEF Fetch
  <2>3. S \in SUBSET Events /\ Cardinality(S) <= BatchSize
    <3>1. S \in SUBSET Events
      BY DEF Pickable
    <3>2. Cardinality(S) \in Nat
      BY <3>1, OutboxAssumption, FS_Subset, FS_CardinalityType DEF OutboxAssumption
    <3> QED
      BY <2>2, <3>1, <3>2, OutboxAssumption DEF OutboxAssumption, FitsBatch
  <2>4. JobsOK'
    BY <2>2, <2>3, AssignJobs
  <2> QED
    BY <2>1, <2>4 DEF TypeOK, JobsOK, Fetch
<1>5. CASE \E r \in Relays : ClaimCommit(r)
  <2>1. PICK r \in Relays : ClaimCommit(r)
    BY <1>5
  <2>2. Batch(r) \in SUBSET Events /\ "PROCESSING" \in RowStatus
    BY DEF Batch, RowStatus
  <2> QED
    BY <1>1, <2>1, <2>2, SetStatusType DEF TypeOK, JobsOK, ClaimCommit
<1>6. CASE \E r \in Relays : ClaimFails(r)
  <2>1. PICK r \in Relays : ClaimFails(r)
    BY <1>6
  <2>2. Batch(r) \in SUBSET Events /\ "PROCESSING" \in RowStatus
    BY DEF Batch, RowStatus
  <2>3. JobsOK' /\ faults' \in 0..MaxFaults
    BY <2>1, AssignJobs, EmptyBatchFits, FaultType DEF ClaimFails
  <2> QED
    BY <2>1, <2>2, <2>3, MaybeSetStatusType DEF TypeOK, JobsOK, ClaimFails
<1>7. CASE \E r \in Relays : Crash(r)
  <2>1. PICK r \in Relays : Crash(r)
    BY <1>7
  <2>2. JobsOK' /\ faults' \in 0..MaxFaults
    BY <2>1, AssignJobs, EmptyBatchFits, FaultType DEF Crash
  <2> QED
    BY <2>1, <2>2 DEF TypeOK, JobsOK, Crash
<1>8. CASE \E r \in Relays, e \in Events : Publish(r, e)
  <2>1. PICK r \in Relays, e \in Events : Publish(r, e)
    BY <1>8
  <2>2. PICK next \in {"sent", "refused"} : Advance(r, e, next)
    BY <2>1 DEF Publish, AfterRefusal
  <2>3. JobsOK' /\ faults' \in 0..MaxFaults
    BY <2>1, <2>2, AdvanceJobs, FaultType DEF Publish
  <2> QED
    BY <2>1, <2>3 DEF TypeOK, JobsOK, Publish
<1>9. CASE \E r \in Relays, e \in Events : MarkPublished(r, e) \/ MarkFailed(r, e)
  <2>1. PICK r \in Relays, e \in Events, s \in {"PUBLISHED", "FAILED"} :
           job[r][e] # "none" /\ Mark(r, e, s)
    BY <1>9 DEF MarkPublished, MarkFailed
  <2>2. JobsOK' /\ faults' \in 0..MaxFaults
    BY <2>1, AdvanceJobs, FaultType DEF Mark
  <2>3. /\ status' \in [Events -> RowStatus]
        /\ stale' \subseteq {x \in Events : status'[x] = "PROCESSING"}
    BY <2>1, SetStatusType, MaybeSetStatusType DEF Mark, RowStatus
  <2> QED
    BY <2>1, <2>2, <2>3 DEF TypeOK, JobsOK, Mark
<1>10. CASE Rescue
  <2>1. Rescued \in SUBSET Events /\ "PENDING" \in RowStatus
    BY DEF Rescued, TypeOK, RowStatus
  <2> QED
    BY <1>1, <1>10, <2>1, SetStatusType DEF TypeOK, JobsOK, Rescue
<1>11. CASE Cleanup
  <2>1. PICK S \in SUBSET Events : SetStatus(S, "deleted")
    BY <1>11 DEF Cleanup
  <2>2. "deleted" \in RowStatus
    BY DEF RowStatus
  <2> QED
    BY <1>1, <1>11, <2>1, <2>2, SetStatusType DEF TypeOK, JobsOK, Cleanup
<1>12. CASE Bind
  BY <1>1, <1>12 DEF TypeOK, JobsOK, Bind
<1>13. CASE UNCHANGED vars
  BY <1>1, <1>13 DEF TypeOK, JobsOK, vars
<1> QED
  BY <1>2, <1>3, <1>4, <1>5, <1>6, <1>7, <1>8, <1>9, <1>10, <1>11, <1>12, <1>13 DEF Next, Work

THEOREM TypeCorrect == Spec => []TypeOK
BY TypeInit, TypeStep, PTL DEF Spec

-----------------------------------------------------------------------------
(***************************************************************************)
(* Ownership.  A row in a batch is PENDING while the claim transaction has *)
(* it locked and PROCESSING, too young to be rescued, from the commit to   *)
(* its mark.  This is what keeps batches disjoint, as long as no relay     *)
(* takes five minutes for a row.                                           *)
(***************************************************************************)
Owned ==
  \A r \in Relays : \A e \in Batch(r) :
     IF r \in claiming THEN status[e] = "PENDING"
     ELSE status[e] = "PROCESSING" /\ e \notin stale

NeverStalls == "stall" \notin Faults

OwnInv == Owned /\ NoDoubleClaim

LEMMA SetStatusElsewhere ==
  ASSUME TypeOK, NEW S \in SUBSET Events, NEW s, MaybeSetStatus(S, s)
  PROVE  /\ \A e \in Events \ S : status'[e] = status[e] /\ (e \in stale' <=> e \in stale)
         /\ \A e \in Events : status'[e] = status[e] \/ (e \in S /\ status'[e] = s)
BY DEF TypeOK, MaybeSetStatus, SetStatus

\* A step that leaves the batches alone keeps the ownership if it leaves the
\* rows in them alone.
LEMMA OwnKept ==
  ASSUME OwnInv, UNCHANGED <<job, claiming>>,
         \A r \in Relays : \A e \in Batch(r) :
            status'[e] = status[e] /\ (e \in stale' => e \in stale)
  PROVE  OwnInv'
<1>1. \A r \in Relays : Batch(r)' = Batch(r)
  BY DEF Batch
<1> QED
  BY <1>1 DEF OwnInv, Owned, NoDoubleClaim

LEMMA FetchOwn ==
  ASSUME TypeOK, OwnInv, NEW r \in Relays, Fetch(r)
  PROVE  OwnInv'
<1>1. PICK S \in SUBSET Pickable : Assign(r, S)
  BY DEF Fetch
<1>2. /\ Batch(r)' = S
      /\ \A r2 \in Relays \ {r} : Batch(r2)' = Batch(r2)
  BY <1>1 DEF TypeOK, Assign, Batch, Pickable
<1>3. claiming' = claiming \cup {r} /\ UNCHANGED <<status, stale>>
  BY DEF Fetch
<1>4. \A e \in S : status[e] = "PENDING" /\ \A r2 \in claiming : e \notin Batch(r2)
  BY <1>1 DEF Pickable, Locked
<1>5. Owned'
  BY <1>2, <1>3, <1>4 DEF OwnInv, Owned
<1>6. \A r2 \in Relays \ {r} : S \cap Batch(r2) = {}
  BY <1>4 DEF OwnInv, Owned, TypeOK
<1> QED
  BY <1>2, <1>5, <1>6 DEF OwnInv, NoDoubleClaim

LEMMA ClaimCommitOwn ==
  ASSUME TypeOK, OwnInv, NEW r \in Relays, ClaimCommit(r)
  PROVE  OwnInv'
<1>1. \A r2 \in Relays : Batch(r2)' = Batch(r2)
  BY DEF ClaimCommit, Batch
<1>2. /\ claiming' = claiming \ {r} /\ r \in claiming
      /\ SetStatus(Batch(r), "PROCESSING")
  BY DEF ClaimCommit
<1>3. \A e \in Batch(r) : status'[e] = "PROCESSING" /\ e \notin stale'
  BY <1>2 DEF OwnInv, Owned, SetStatus, TypeOK, Batch
<1>4. \A e \in Events \ Batch(r) : status'[e] = status[e] /\ (e \in stale' <=> e \in stale)
  BY <1>2 DEF SetStatus, TypeOK
<1>5. \A r2 \in Relays \ {r} : Batch(r2) \subseteq Events \ Batch(r)
  BY DEF OwnInv, NoDoubleClaim, Batch
<1>6. Owned'
  BY <1>1, <1>2, <1>3, <1>4, <1>5 DEF OwnInv, Owned
<1> QED
  BY <1>1, <1>6 DEF OwnInv, NoDoubleClaim

\* A relay drops its batch, whatever became of the rows.
LEMMA DropOwn ==
  ASSUME TypeOK, OwnInv, NEW r \in Relays, ClaimFails(r) \/ Crash(r)
  PROVE  OwnInv'
<1>1. /\ Batch(r)' = {}
      /\ \A r2 \in Relays \ {r} : Batch(r2)' = Batch(r2)
  BY DEF TypeOK, ClaimFails, Crash, Assign, Batch
<1>2. claiming' = claiming \ {r}
  BY DEF ClaimFails, Crash
<1>3. \A e \in Events \ Batch(r) : status'[e] = status[e] /\ (e \in stale' <=> e \in stale)
  BY SetStatusElsewhere DEF ClaimFails, Crash, Batch
<1>4. \A r2 \in Relays \ {r} : Batch(r2) \subseteq Events \ Batch(r)
  BY DEF OwnInv, NoDoubleClaim, Batch
<1>5. Owned'
  BY <1>1, <1>2, <1>3, <1>4 DEF OwnInv, Owned
<1> QED
  BY <1>1, <1>5 DEF OwnInv, NoDoubleClaim

LEMMA PublishOwn ==
  ASSUME TypeOK, OwnInv, NEW r \in Relays, NEW e \in Events, Publish(r, e)
  PROVE  OwnInv'
<1>1. PICK next \in {"sent", "refused"} : Advance(r, e, next) /\ job[r][e] = "publish"
  BY DEF Publish, AfterRefusal
<1>2. \A r2 \in Relays : Batch(r2)' = Batch(r2)
  BY <1>1 DEF TypeOK, Advance, Batch
<1>3. UNCHANGED <<status, stale, claiming>>
  BY DEF Publish
<1> QED
  BY <1>2, <1>3 DEF OwnInv, Owned, NoDoubleClaim

LEMMA MarkOwn ==
  ASSUME TypeOK, OwnInv, NEW r \in Relays, NEW e \in Events, NEW s,
         job[r][e] # "none", Mark(r, e, s)
  PROVE  OwnInv'
<1>1. /\ Batch(r)' = Batch(r) \ {e}
      /\ \A r2 \in Relays \ {r} : Batch(r2)' = Batch(r2)
  BY DEF TypeOK, Mark, Advance, Batch
<1>2. \A r2 \in Relays \ {r} : e \notin Batch(r2)
  BY DEF OwnInv, NoDoubleClaim, Batch
<1>3. MaybeSetStatus({e}, s) /\ UNCHANGED claiming
  BY DEF Mark, MaybeSetStatus
<1>4. \A x \in Events \ {e} : status'[x] = status[x] /\ (x \in stale' <=> x \in stale)
  BY <1>3, SetStatusElsewhere
<1>5. \A r2 \in Relays : Batch(r2)' \subseteq Batch(r2) /\ Batch(r2)' \subseteq Events \ {e}
  BY <1>1, <1>2 DEF Batch
<1>6. Owned'
  BY <1>3, <1>4, <1>5 DEF OwnInv, Owned
<1> QED
  BY <1>5, <1>6 DEF OwnInv, NoDoubleClaim

\* The rescuer and the cleanup rewrite rows without looking at who has them.
LEMMA RowsOwn ==
  ASSUME NeverStalls, TypeOK, OwnInv,
         (\E e \in Events : Create(e) \/ Age(e)) \/ Rescue \/ Cleanup \/ Bind \/ UNCHANGED vars
  PROVE  OwnInv'
<1>1. UNCHANGED <<job, claiming>>
  BY DEF Create, Age, Rescue, Cleanup, Bind, vars
<1>2. ASSUME NEW r \in Relays, NEW e \in Batch(r)
      PROVE  status'[e] = status[e] /\ (e \in stale' => e \in stale)
  <2>1. e \in Events /\ status[e] \in {"PENDING", "PROCESSING"}
    BY DEF OwnInv, Owned, Batch
  <2>2. e \notin stale
    BY DEF OwnInv, Owned, TypeOK
  <2>3. CASE \E x \in Events : Create(x)
    BY <2>1, <2>3 DEF Create, TypeOK
  <2>4. CASE \E x \in Events : Age(x)
    <3>1. PICK x \in Events : Age(x)
      BY <2>4
    <3>2. ~Busy(x) /\ status[x] = "PROCESSING"
      BY <3>1 DEF Age, Fault, NeverStalls
    <3>3. x # e
      BY <2>1, <3>2 DEF Busy, OwnInv, Owned, Batch
    <3> QED
      BY <3>1, <3>3 DEF Age
  <2>5. CASE Rescue
    BY <2>1, <2>2, <2>5 DEF Rescue, Rescued, SetStatus, TypeOK
  <2>6. CASE Cleanup
    BY <2>1, <2>6 DEF Cleanup, SetStatus, TypeOK
  <2>7. CASE Bind \/ UNCHANGED vars
    BY <2>7 DEF Bind, vars
  <2> QED
    BY <2>3, <2>4, <2>5, <2>6, <2>7
<1> QED
  BY <1>1, <1>2, OwnKept

LEMMA OwnStep ==
  ASSUME NeverStalls, TypeOK, OwnInv, [Next]_vars
  PROVE  OwnInv'
BY FetchOwn, ClaimCommitOwn, DropOwn, PublishOwn, MarkOwn, RowsOwn
   DEF Next, Work, MarkPublished, MarkFailed

LEMMA OwnAlways ==
  ASSUME NeverStalls
  PROVE  Spec => []OwnInv
<1>1. Init => OwnInv
  BY DEF Init, OwnInv, Owned, NoDoubleClaim, Batch
<1>2. TypeOK /\ OwnInv /\ [Next]_vars => OwnInv'
  BY OwnStep
<1> QED
  BY <1>1, <1>2, TypeCorrect, PTL DEF Spec

(***************************************************************************)
(* No row is in two batches, unless a relay stalls for five minutes.       *)
(***************************************************************************)
THEOREM NoRowClaimedTwice ==
  ASSUME NeverStalls
  PROVE  Spec => []NoDoubleClaim
<1>1. OwnInv => NoDoubleClaim
  BY DEF OwnInv
<1> QED
  BY <1>1, OwnAlways, PTL

(***************************************************************************)
(* What the transaction itself guarantees, stalls included: a row is       *)
(* locked by one relay at most, and stays PENDING until that relay commits *)
(* or gives up, although a relay that came back late may want to mark it.  *)
(***************************************************************************)
LockIsExclusive ==
  /\ \A r \in claiming : \A e \in Batch(r) : status[e] = "PENDING"
  /\ \A r1, r2 \in claiming : r1 # r2 => Batch(r1) \cap Batch(r2) = {}

\* Batches that shrink, and rows outside of the transactions that change.
LEMMA LocksKept ==
  ASSUME LockIsExclusive, claiming' \subseteq claiming,
         \A r \in claiming' : /\ Batch(r)' \subseteq Batch(r)
                             /\ \A e \in Batch(r) : status'[e] = status[e]
  PROVE  LockIsExclusive'
BY DEF LockIsExclusive

LEMMA FetchLocks ==
  ASSUME TypeOK, LockIsExclusive, NEW r \in Relays, Fetch(r)
  PROVE  LockIsExclusive'
<1>1. PICK S \in SUBSET Pickable : Assign(r, S)
  BY DEF Fetch
<1>2. /\ Batch(r)' = S
      /\ \A r2 \in Relays \ {r} : Batch(r2)' = Batch(r2)
  BY <1>1 DEF TypeOK, Assign, Batch, Pickable
<1>3. claiming' = claiming \cup {r} /\ UNCHANGED status /\ claiming \subseteq Relays /\ r \notin claiming
  BY DEF Fetch, TypeOK
<1>4. \A e \in S : status[e] = "PENDING" /\ \A r2 \in claiming : e \notin Batch(r2)
  BY <1>1 DEF Pickable, Locked
<1> QED
  BY <1>2, <1>3, <1>4 DEF LockIsExclusive

LEMMA ClaimEndsLocks ==
  ASSUME TypeOK, LockIsExclusive, NEW r \in Relays, ClaimCommit(r) \/ ClaimFails(r) \/ Crash(r)
  PROVE  LockIsExclusive'
<1>1. claiming' = claiming \ {r} /\ claiming \subseteq Relays
  BY DEF ClaimCommit, ClaimFails, Crash, TypeOK
<1>2. \A r2 \in Relays \ {r} : Batch(r2)' = Batch(r2)
  BY DEF ClaimCommit, ClaimFails, Crash, Assign, Batch, TypeOK
<1>3. \A e \in Events : status'[e] = status[e] \/ (r \in claiming /\ e \in Batch(r))
  BY DEF ClaimCommit, ClaimFails, Crash, MaybeSetStatus, SetStatus, TypeOK
<1>4. \A r2 \in claiming' : \A e \in Batch(r2) : e \in Events /\ status'[e] = status[e]
  BY <1>1, <1>3 DEF LockIsExclusive, Batch
<1> QED
  BY <1>1, <1>2, <1>4, LocksKept

LEMMA MarkLocks ==
  ASSUME TypeOK, LockIsExclusive, NEW r \in Relays, NEW e \in Events, NEW s, Mark(r, e, s)
  PROVE  LockIsExclusive'
<1>1. UNCHANGED claiming /\ claiming \subseteq Relays
  BY DEF Mark, TypeOK
<1>2. \A r2 \in Relays : Batch(r2)' \subseteq Batch(r2)
  BY DEF Mark, Advance, Batch, TypeOK
<1>3. \A r2 \in claiming : e \notin Batch(r2)
  BY DEF Mark, Locked
<1>4. \A x \in Events \ {e} : status'[x] = status[x]
  BY DEF Mark, MaybeSetStatus, SetStatus, TypeOK
<1>5. \A r2 \in claiming : \A x \in Batch(r2) : status'[x] = status[x]
  BY <1>3, <1>4 DEF Batch
<1> QED
  BY <1>1, <1>2, <1>5, LocksKept

LEMMA RowsLocks ==
  ASSUME TypeOK, LockIsExclusive,
         \/ \E r \in Relays, e \in Events : Publish(r, e)
         \/ \E e \in Events : Create(e) \/ Age(e)
         \/ Rescue \/ Cleanup \/ Bind \/ UNCHANGED vars
  PROVE  LockIsExclusive'
<1>1. UNCHANGED claiming /\ claiming \subseteq Relays
  BY DEF Publish, Create, Age, Rescue, Cleanup, Bind, vars, TypeOK
<1>2. \A r \in Relays : Batch(r)' = Batch(r)
  <2>1. CASE UNCHANGED job
    BY <2>1 DEF Batch
  <2>2. CASE \E r \in Relays, e \in Events : Publish(r, e)
    BY <2>2 DEF Publish, AfterRefusal, Advance, Batch, TypeOK
  <2> QED
    BY <2>1, <2>2 DEF Create, Age, Rescue, Cleanup, Bind, vars
<1>3. ASSUME NEW e \in Events, status[e] = "PENDING" PROVE status'[e] = "PENDING"
  <2>1. CASE Rescue
    BY <1>3, <2>1 DEF Rescue, SetStatus, TypeOK
  <2>2. CASE Cleanup
    BY <1>3, <2>2 DEF Cleanup, SetStatus, TypeOK
  <2>3. CASE \E x \in Events : Create(x)
    BY <1>3, <2>3 DEF Create, TypeOK
  <2> QED
    BY <1>3, <2>1, <2>2, <2>3 DEF Publish, Age, Bind, vars
<1>4. \A r \in claiming : \A e \in Batch(r) : status'[e] = status[e]
  BY <1>3 DEF LockIsExclusive, Batch
<1> QED
  BY <1>1, <1>2, <1>4, LocksKept

(***************************************************************************)
(* FOR UPDATE SKIP LOCKED and the update in one transaction keep claims    *)
(* apart whatever happens, relays included that stall past the rescuer.    *)
(***************************************************************************)
THEOREM ClaimsAreExclusive == Spec => []LockIsExclusive
<1>1. Init => LockIsExclusive
  BY DEF Init, LockIsExclusive
<1>2. TypeOK /\ LockIsExclusive /\ [Next]_vars => LockIsExclusive'
  BY FetchLocks, ClaimEndsLocks, MarkLocks, RowsLocks
     DEF Next, Work, MarkPublished, MarkFailed
<1> QED
  BY <1>1, <1>2, TypeCorrect, PTL DEF Spec

(***************************************************************************)
(* A PUBLISHED row is left alone by claims, because none holds it, and by  *)
(* marks of FAILED, because no relay has a refused publish of it left.     *)
(* Either the batches are disjoint, or no publish is ever refused and the  *)
(* row locks are enough.                                                   *)
(***************************************************************************)
NeverRefused == "broker" \notin Faults

NoneRefused == \A r \in Relays, e \in Events : job[r][e] # "refused"

FinalInv ==
  \A e \in Events : status[e] = "PUBLISHED" => /\ e \notin Locked
                                              /\ \A r \in Relays : job[r][e] # "refused"

LEMMA FinalWithoutStalls ==
  ASSUME NeverStalls
  PROVE  Spec => []FinalInv
<1>1. TypeOK /\ OwnInv => FinalInv
  BY DEF TypeOK, OwnInv, Owned, FinalInv, Locked, Batch
<1> QED
  BY <1>1, OwnAlways, TypeCorrect, PTL

LEMMA FinalWithoutRefusals ==
  ASSUME NeverRefused
  PROVE  Spec => []FinalInv
<1>1. Init => NoneRefused
  BY DEF Init, NoneRefused
<1>2. TypeOK /\ NoneRefused /\ [Next]_vars => NoneRefused'
  <2> SUFFICES ASSUME TypeOK, NoneRefused, [Next]_vars PROVE NoneRefused'
    OBVIOUS
  <2>1. CASE \E r \in Relays : Fetch(r) \/ ClaimFails(r) \/ Crash(r)
    BY <2>1 DEF Fetch, Pickable, ClaimFails, Crash, Assign, NoneRefused, TypeOK
  <2>2. CASE \E r \in Relays, e \in Events : Publish(r, e)
    BY <2>2 DEF NeverRefused, Publish, Fault, Advance, NoneRefused, TypeOK
  <2>3. CASE \E r \in Relays, e \in Events : MarkPublished(r, e) \/ MarkFailed(r, e)
    BY <2>3 DEF MarkPublished, MarkFailed, Mark, Advance, NoneRefused, TypeOK
  <2>4. CASE UNCHANGED job
    BY <2>4 DEF NoneRefused
  <2> QED
    BY <2>1, <2>2, <2>3, <2>4
       DEF Next, Create, Age, ClaimCommit, Work, Rescue, Cleanup, Bind, vars
<1>3. LockIsExclusive /\ NoneRefused => FinalInv
  BY DEF LockIsExclusive, NoneRefused, FinalInv, Locked
<1> QED
  BY <1>1, <1>2, <1>3, TypeCorrect, ClaimsAreExclusive, PTL DEF Spec

(***************************************************************************)
(* A PUBLISHED row only leaves that status by being deleted, unless relays *)
(* stall past the rescuer and publishes are refused.                       *)
(***************************************************************************)
THEOREM PublishedStays ==
  ASSUME NeverStalls \/ NeverRefused
  PROVE  Spec => PublishedIsFinal
<1> DEFINE Stays == \A e \in Events :
                      status[e] = "PUBLISHED" => status'[e] \in {"PUBLISHED", "deleted"}
<1>1. ASSUME TypeOK, FinalInv, [Next]_vars
      PROVE  Stays
  <2> SUFFICES ASSUME NEW e \in Events, status[e] = "PUBLISHED"
               PROVE  status'[e] \in {"PUBLISHED", "deleted"}
    OBVIOUS
  <2>1. /\ \A r \in claiming : e \notin Batch(r)
        /\ \A r \in Relays : job[r][e] # "refused"
    BY <1>1 DEF FinalInv, Locked
  <2>2. e \notin stale
    BY <1>1 DEF TypeOK
  <2>3. CASE \E r \in Relays : ClaimCommit(r) \/ ClaimFails(r)
    <3>1. PICK r \in claiming : MaybeSetStatus(Batch(r), "PROCESSING")
      BY <2>3 DEF ClaimCommit, ClaimFails, MaybeSetStatus
    <3> QED
      BY <1>1, <2>1, <3>1, SetStatusElsewhere DEF Batch
  <2>4. CASE \E r \in Relays, x \in Events : MarkPublished(r, x)
    BY <1>1, <2>4 DEF MarkPublished, Mark, MaybeSetStatus, SetStatus, TypeOK
  <2>5. CASE \E r \in Relays, x \in Events : MarkFailed(r, x)
    <3>1. PICK r \in Relays, x \in Events : MarkFailed(r, x)
      BY <2>5
    <3>2. x # e
      BY <2>1, <3>1 DEF MarkFailed
    <3> QED
      BY <1>1, <3>1, <3>2 DEF MarkFailed, Mark, MaybeSetStatus, SetStatus, TypeOK
  <2>6. CASE Rescue
    BY <1>1, <2>2, <2>6 DEF Rescue, Rescued, SetStatus, TypeOK
  <2>7. CASE Cleanup
    BY <1>1, <2>7 DEF Cleanup, SetStatus, TypeOK
  <2>8. CASE \E x \in Events : Create(x)
    BY <1>1, <2>8 DEF Create, TypeOK
  <2>9. CASE UNCHANGED status
    BY <2>9
  <2> QED
    BY <1>1, <2>3, <2>4, <2>5, <2>6, <2>7, <2>8, <2>9
       DEF Next, Work, Age, Fetch, Crash, Publish, Bind, vars
<1>2. TypeOK /\ FinalInv /\ [Next]_vars => [Stays]_vars
  BY <1>1
<1>3. Spec => []FinalInv
  BY FinalWithoutStalls, FinalWithoutRefusals
<1> QED
  BY <1>2, <1>3, TypeCorrect, PTL DEF Spec, PublishedIsFinal

-----------------------------------------------------------------------------
(***************************************************************************)
(* PUBLISHED rows are in the queue, when the queue is bound before the API *)
(* starts to publish and no connection swallows a message.  Stalls, double *)
(* claims, crashes and failed statements do not matter.                    *)
(***************************************************************************)
SentIsQueued ==
  /\ bound = TRUE
  /\ \A r \in Relays, e \in Events : job[r][e] = "sent" => e \in queued

THEOREM PublishedIsQueued ==
  ASSUME BoundAtStart, "conn" \notin Faults
  PROVE  Spec => []PublishedReachedQueue
<1> DEFINE QInv == SentIsQueued /\ PublishedReachedQueue
<1>1. Init => QInv
  BY OutboxAssumption DEF OutboxAssumption, Init, SentIsQueued, PublishedReachedQueue
<1>2. ASSUME TypeOK, QInv, [Next]_vars
      PROVE  QInv'
  <2>1. CASE \E r \in Relays, e \in Events : Publish(r, e)
    BY <1>2, <2>1 DEF Publish, Fault, Advance, AfterRefusal, TypeOK, SentIsQueued, PublishedReachedQueue
  <2>2. CASE \E r \in Relays, e \in Events : MarkPublished(r, e) \/ MarkFailed(r, e)
    <3>1. PICK r \in Relays, e \in Events : MarkPublished(r, e) \/ MarkFailed(r, e)
      BY <2>2
    <3>2. Advance(r, e, "none") /\ UNCHANGED <<queued, bound>>
      BY <3>1 DEF MarkPublished, MarkFailed, Mark
    <3>3. \A x \in Events : status'[x] = status[x] \/ status'[x] # "PUBLISHED" \/ x \in queued
      <4>1. CASE MarkPublished(r, e)
        <5>1. e \in queued /\ MaybeSetStatus({e}, "PUBLISHED")
          BY <1>2, <4>1 DEF MarkPublished, Mark, MaybeSetStatus, SentIsQueued
        <5> QED
          BY <1>2, <5>1, SetStatusElsewhere
      <4>2. CASE MarkFailed(r, e)
        <5>1. MaybeSetStatus({e}, "FAILED")
          BY <4>2 DEF MarkFailed, Mark, MaybeSetStatus
        <5> QED
          BY <1>2, <5>1, SetStatusElsewhere
      <4> QED
        BY <3>1, <4>1, <4>2
    <3> QED
      BY <1>2, <3>2, <3>3 DEF Advance, TypeOK, SentIsQueued, PublishedReachedQueue
  <2>3. CASE \E r \in Relays : Fetch(r) \/ ClaimCommit(r) \/ ClaimFails(r) \/ Crash(r)
    <3>1. PICK r \in Relays : Fetch(r) \/ ClaimCommit(r) \/ ClaimFails(r) \/ Crash(r)
      BY <2>3
    <3>2. UNCHANGED <<queued, bound>>
      BY <3>1 DEF Fetch, ClaimCommit, ClaimFails, Crash
    <3>3. \A x \in Events : status'[x] = status[x] \/ status'[x] # "PUBLISHED"
      <4>1. CASE ClaimCommit(r) \/ ClaimFails(r)
        BY <1>2, <4>1 DEF ClaimCommit, ClaimFails, MaybeSetStatus, SetStatus, TypeOK
      <4>2. CASE Fetch(r) \/ Crash(r)
        BY <4>2 DEF Fetch, Crash
      <4> QED
        BY <3>1, <4>1, <4>2
    <3>4. \A q \in Relays, x \in Events : job'[q][x] = "sent" => job[q][x] = "sent"
      BY <1>2, <3>1 DEF Fetch, ClaimCommit, ClaimFails, Crash, Assign, TypeOK
    <3> QED
      BY <1>2, <3>2, <3>3, <3>4 DEF SentIsQueued, PublishedReachedQueue
  <2>4. CASE (\E e \in Events : Create(e) \/ Age(e)) \/ Rescue \/ Cleanup \/ Bind \/ UNCHANGED vars
    <3>1. UNCHANGED <<job, queued>> /\ bound' = TRUE
      BY <1>2, <2>4 DEF Create, Age, Rescue, Cleanup, Bind, vars, SentIsQueued
    <3>2. \A x \in Events : status'[x] = status[x] \/ status'[x] # "PUBLISHED"
      BY <1>2, <2>4 DEF Create, Age, Rescue, Cleanup, Bind, vars, SetStatus, TypeOK
    <3> QED
      BY <1>2, <3>1, <3>2 DEF SentIsQueued, PublishedReachedQueue
  <2> QED
    BY <1>2, <2>1, <2>2, <2>3, <2>4 DEF Next, Work
<1>3. TypeOK /\ QInv /\ [Next]_vars => QInv'
  BY <1>2
<1> QED
  BY <1>1, <1>3, TypeCorrect, PTL DEF Spec

(***************************************************************************)
(* Handed over.  Without refused publishes a relay lets go of a row only   *)
(* when its event is in the queue: until then the row is PENDING or        *)
(* PROCESSING, and a rescue away from being published.                     *)
(***************************************************************************)
HandedOver ==
  \A e \in Events : status[e] \in {"PUBLISHED", "FAILED", "deleted"} => e \in queued

SentHasArrived ==
  /\ bound = TRUE
  /\ \A r \in Relays, e \in Events : /\ job[r][e] # "refused"
                                     /\ job[r][e] = "sent" => e \in queued

LEMMA HandOver ==
  ASSUME Faults \cap {"conn", "broker"} = {}, TypeOK, SentHasArrived, HandedOver, [Next]_vars
  PROVE  SentHasArrived' /\ HandedOver'
<1>1. CASE \E r \in Relays, e \in Events : Publish(r, e)
  <2>1. PICK r \in Relays, e \in Events : Publish(r, e)
    BY <1>1
  <2>2. /\ queued' = queued \cup {e} /\ UNCHANGED <<status, bound>>
        /\ Advance(r, e, "sent")
    BY <2>1 DEF Publish, Fault, SentHasArrived
  <2>3. SentHasArrived'
    BY <2>2 DEF Advance, TypeOK, SentHasArrived
  <2> QED
    BY <2>2, <2>3 DEF HandedOver
<1>2. CASE \E r \in Relays, e \in Events : MarkPublished(r, e) \/ MarkFailed(r, e)
  <2>1. PICK r \in Relays, e \in Events : MarkPublished(r, e) \/ MarkFailed(r, e)
    BY <1>2
  <2>2. e \in queued /\ MaybeSetStatus({e}, "PUBLISHED")
    BY <2>1 DEF MarkPublished, MarkFailed, Mark, MaybeSetStatus, SentHasArrived
  <2>3. Advance(r, e, "none") /\ UNCHANGED <<queued, bound>>
    BY <2>1 DEF MarkPublished, MarkFailed, Mark
  <2>4. \A x \in Events : status'[x] = status[x] \/ x = e
    BY <2>2, SetStatusElsewhere
  <2> QED
    BY <2>2, <2>3, <2>4 DEF Advance, TypeOK, SentHasArrived, HandedOver
<1>3. CASE \E r \in Relays : Fetch(r) \/ ClaimCommit(r) \/ ClaimFails(r) \/ Crash(r)
  <2>1. PICK r \in Relays : Fetch(r) \/ ClaimCommit(r) \/ ClaimFails(r) \/ Crash(r)
    BY <1>3
  <2>2. UNCHANGED <<queued, bound>>
    BY <2>1 DEF Fetch, ClaimCommit, ClaimFails, Crash
  <2>3. \A x \in Events : status'[x] = status[x] \/ status'[x] = "PROCESSING"
    BY <2>1 DEF Fetch, Crash, ClaimCommit, ClaimFails, MaybeSetStatus, SetStatus, TypeOK
  <2>4. \A q \in Relays, x \in Events : job'[q][x] \in {"none", "publish", job[q][x]}
    BY <2>1 DEF Fetch, ClaimCommit, ClaimFails, Crash, Assign, TypeOK
  <2> QED
    BY <2>2, <2>3, <2>4 DEF SentHasArrived, HandedOver
<1>4. CASE \/ \E e \in Events : Create(e) \/ Age(e)
           \/ Rescue \/ Cleanup \/ Bind \/ UNCHANGED vars
  <2>1. UNCHANGED <<job, queued>> /\ bound' = TRUE
    BY <1>4 DEF Create, Age, Rescue, Cleanup, Bind, vars, SentHasArrived
  <2>2. CASE Cleanup
    <3>1. PICK S \in SUBSET {e \in Events : status[e] \in {"PUBLISHED", "FAILED"}} :
             SetStatus(S, "deleted")
      BY <2>2 DEF Cleanup
    <3> QED
      BY <2>1, <3>1 DEF SetStatus, TypeOK, SentHasArrived, HandedOver
  <2>3. CASE ~Cleanup
    <3>1. \A x \in Events : status'[x] \in {status[x], "PENDING"}
      BY <1>4, <2>3 DEF Create, Age, Rescue, Bind, vars, SetStatus, TypeOK
    <3> QED
      BY <2>1, <3>1 DEF SentHasArrived, HandedOver
  <2> QED
    BY <2>2, <2>3
<1> QED
  BY <1>1, <1>2, <1>3, <1>4 DEF Next, Work

(***************************************************************************)
(* A row that was written is waiting for a relay, or its event has reached *)
(* the queue, however often replicas crash, stall and lose commits.        *)
(***************************************************************************)
THEOREM RowsAreHandedOver ==
  ASSUME BoundAtStart, Faults \cap {"conn", "broker"} = {}
  PROVE  Spec => []HandedOver
<1>1. Init => SentHasArrived /\ HandedOver
  BY OutboxAssumption DEF OutboxAssumption, Init, SentHasArrived, HandedOver
<1>2. TypeOK /\ SentHasArrived /\ HandedOver /\ [Next]_vars => SentHasArrived' /\ HandedOver'
  BY HandOver
<1> QED
  BY <1>1, <1>2, TypeCorrect, PTL DEF Spec
=============================================================================
