---------------------- MODULE ProvisioningQueueProofs ----------------------
(***************************************************************************)
(* Invariance proofs for ProvisioningQueue, for every number of jobs,      *)
(* workers and identities and every lease, retry and prune setting.        *)
(*                                                                         *)
(* All operations but Insert and Prune rewrite rows in place, with a       *)
(* timestamp that may be older than the instant they run at.  The          *)
(* lemma RowsRewritten says when such a step preserves the invariant; the  *)
(* other lemmas about rows discharge its hypotheses for each operation.    *)
(***************************************************************************)
EXTENDS QueueRefinement, TLAPS

\* The part of the inductive invariant that speaks of one row of provision_job
\* at the instant t.
RowInv(r, t) ==
  /\ r.attempts <= MaxAttempts
  /\ r.status = "QUEUED" => r.attempts < MaxAttempts
  /\ r.status = "RUNNING" => r.attempts > 0
  /\ r.status = "RUNNING" <=> r.owner # NoWorker
  /\ r.expires <= t + LeaseTime
  /\ r.cancel = 1 => r.status \in {"RUNNING", "CANCELLED"}
  /\ r.status = "CANCELLED" => r.cancel = 1

\* The inductive invariant: all the state invariants of the queue together.
IInv ==
  /\ TypeOK
  /\ OneActiveJobPerIdentity
  /\ \A j \in DOMAIN job : RowInv(job[j], clock)
  /\ NoJobForgotten

\* What an in-place rewrite of row r into s has to keep.
Rewrites(r, s, t) ==
  /\ s \in Row
  /\ RowInv(s, t)
  /\ s.identity = r.identity
  /\ s.status \in Active => r.status \in Active

\* A step that keeps the ids, the tombstones and the clock and rewrites each row
\* as Rewrites allows preserves the invariant.
LEMMA RowsRewritten ==
  ASSUME IInv, UNCHANGED <<clock, now, issued, pruned>>,
         DOMAIN job' = DOMAIN job,
         job' \in [DOMAIN job -> Row],
         \A i \in DOMAIN job : Rewrites(job[i], job'[i], clock)
  PROVE  IInv'
<1>1. TypeOK'
  BY DEF IInv, TypeOK, JobId
<1>2. OneActiveJobPerIdentity'
  BY DEF IInv, OneActiveJobPerIdentity, Rewrites
<1>3. (\A j \in DOMAIN job : RowInv(job[j], clock))'
  BY DEF Rewrites, RowInv
<1>4. NoJobForgotten'
  BY DEF IInv, NoJobForgotten, JobId
<1> QED BY <1>1, <1>2, <1>3, <1>4 DEF IInv

\* Rewriting one row only.
LEMMA OneRowRewritten ==
  ASSUME IInv, UNCHANGED <<clock, now, issued, pruned>>,
         NEW j \in DOMAIN job, NEW r,
         Rewrites(job[j], r, clock),
         job' = [job EXCEPT ![j] = r]
  PROVE  IInv'
<1>1. /\ DOMAIN job' = DOMAIN job
      /\ job' \in [DOMAIN job -> Row]
  BY DEF IInv, TypeOK, Rewrites
<1>2. ASSUME NEW i \in DOMAIN job
      PROVE  Rewrites(job[i], job'[i], clock)
  BY DEF IInv, TypeOK, Rewrites
<1> QED BY <1>1, <1>2, RowsRewritten

\* Writing one column with a value of its type leaves a row of the table.
LEMMA SetStatus == \A r \in Row, v \in Status : [r EXCEPT !.status = v] \in Row
BY DEF Row

\* The same for stage.
LEMMA SetStage == \A r \in Row, v \in Stage : [r EXCEPT !.stage = v] \in Row
BY DEF Row

\* The same for attempts.
LEMMA SetAttempts == \A r \in Row, v \in Nat : [r EXCEPT !.attempts = v] \in Row
BY DEF Row

\* The same for lease_owner.
LEMMA SetOwner == \A r \in Row, v \in Workers \cup {NoWorker} : [r EXCEPT !.owner = v] \in Row
BY DEF Row

\* The same for lease_expires_at_ms.
LEMMA SetExpires == \A r \in Row, v \in Nat : [r EXCEPT !.expires = v] \in Row
BY DEF Row

\* The same for cancellation_requested.
LEMMA SetCancel == \A r \in Row, v \in {0, 1} : [r EXCEPT !.cancel = v] \in Row
BY DEF Row

\* The same for available_at_ms.
LEMMA SetAvailable == \A r \in Row, v \in Nat : [r EXCEPT !.available = v] \in Row
BY DEF Row

\* The same for updated_at_ms.
LEMMA SetUpdated == \A r \in Row, v \in Nat : [r EXCEPT !.updated = v] \in Row
BY DEF Row

\* Joining leaves a row of the table.
LEMMA JoinedRowType ==
  ASSUME clock \in Nat, now \in Nat, now <= clock, NEW r \in Row, NEW p \in 0..1000
  PROVE  JoinedRow(r, p) \in Row
<1> DEFINE m == IF p > r.priority THEN p ELSE r.priority
<1>1. m \in 0..1000
  BY DEF Row
<1> HIDE DEF m
<1>2. [r EXCEPT !.priority = m] \in Row
  BY <1>1 DEF Row
<1> DEFINE q == [r EXCEPT !.priority = m]
<1> HIDE DEF q
<1>3. [q EXCEPT !.updated = now] \in Row
  BY <1>2, SetUpdated DEF q
<1>4. [r EXCEPT !.priority = m, !.updated = now] \in Row
  BY <1>3 DEF q
<1> QED BY <1>4 DEF JoinedRow, m

\* Releasing a lease: the row stays a row, and its other columns are kept.
LEMMA ReleasedRowFacts ==
  ASSUME clock \in Nat, now \in Nat, now <= clock, NEW r \in Row, NEW s \in Status
  PROVE  /\ ReleasedRow(r, s) \in Row
         /\ ReleasedRow(r, s).status = s
         /\ ReleasedRow(r, s).owner = NoWorker
         /\ ReleasedRow(r, s).expires = 0
         /\ ReleasedRow(r, s).attempts = r.attempts
         /\ ReleasedRow(r, s).cancel = r.cancel
         /\ ReleasedRow(r, s).identity = r.identity
<1>1. s \in Stage /\ NoWorker \in Workers \cup {NoWorker}
  BY DEF Stage
<1>2. ReleasedRow(r, s) \in Row
  BY <1>1, SetStatus, SetStage, SetOwner, SetExpires, SetUpdated DEF ReleasedRow
<1>3. /\ ReleasedRow(r, s).status = s
      /\ ReleasedRow(r, s).owner = NoWorker
      /\ ReleasedRow(r, s).expires = 0
      /\ ReleasedRow(r, s).attempts = r.attempts
      /\ ReleasedRow(r, s).cancel = r.cancel
      /\ ReleasedRow(r, s).identity = r.identity
  BY DEF ReleasedRow, Row
<1> QED BY <1>2, <1>3

\* A running row may be released into any status that agrees with its attempts
\* and its cancellation flag.
LEMMA ReleaseRewrites ==
  ASSUME clock \in Nat, now \in Nat, now <= clock, NEW r \in Row, RowInv(r, clock), r.status = "RUNNING",
         NEW s \in Status \ {"RUNNING"},
         s = "QUEUED" => r.attempts < MaxAttempts,
         s = "CANCELLED" <=> r.cancel = 1
  PROVE  Rewrites(r, ReleasedRow(r, s), clock)
<1> DEFINE q == ReleasedRow(r, s)
<1>1. /\ q \in Row /\ q.status = s /\ q.owner = NoWorker /\ q.expires = 0
      /\ q.attempts = r.attempts /\ q.cancel = r.cancel /\ q.identity = r.identity
  BY ReleasedRowFacts
<1> HIDE DEF q
<1>2. RowInv(q, clock)
  BY <1>1, QueueAssumption DEF RowInv
<1> QED BY <1>1, <1>2 DEF Rewrites, Active, q

\* recover_expired keeps every row legal, whatever became of its lease.
LEMMA RecoveredRow ==
  ASSUME clock \in Nat, now \in Nat, now <= clock, NEW r \in Row, RowInv(r, clock)
  PROVE  Rewrites(r, Recovered(r), clock)
<1> DEFINE s == IF r.cancel = 1 THEN "CANCELLED"
                ELSE IF r.attempts >= MaxAttempts THEN "FAILED" ELSE "QUEUED"
<1>1. CASE r.status = "RUNNING" /\ r.expires <= now
  <2>1. /\ s \in Status \ {"RUNNING"}
        /\ s = "QUEUED" => r.attempts < MaxAttempts
        /\ s = "CANCELLED" <=> r.cancel = 1
    BY QueueAssumption DEF Row, Status, Active, Terminal
  <2> HIDE DEF s
  <2>2. Rewrites(r, ReleasedRow(r, s), clock)
    BY <1>1, <2>1, ReleaseRewrites
  <2> QED BY <1>1, <2>2 DEF Recovered, s
<1>2. CASE ~ (r.status = "RUNNING" /\ r.expires <= now)
  BY <1>2 DEF Recovered, Rewrites
<1> QED BY <1>1, <1>2

\* The table after recover_expired.
LEMMA RecoveredTable ==
  ASSUME IInv
  PROVE  /\ DOMAIN RecoverExpired = DOMAIN job
         /\ RecoverExpired \in [DOMAIN job -> Row]
         /\ \A i \in DOMAIN job : Rewrites(job[i], RecoverExpired[i], clock)
<1>1. \A i \in DOMAIN job : Rewrites(job[i], Recovered(job[i]), clock)
  BY RecoveredRow DEF IInv, TypeOK
<1> QED BY <1>1 DEF RecoverExpired, Rewrites

\* Joining raises a priority and nothing else that the invariant reads.
LEMMA JoinInv ==
  ASSUME IInv, NEW d \in Identities, NEW p \in 0..1000, Join(d, p)
  PROVE  IInv'
<1>1. PICK j \in DOMAIN job : /\ JoinTarget(j, d)
                              /\ job' = [job EXCEPT ![j] = JoinedRow(@, p)]
                              /\ UNCHANGED <<clock, now, issued, pruned>>
  BY DEF Join
<1>2. job[j] \in Row /\ RowInv(job[j], clock) /\ clock \in Nat /\ now \in Nat /\ now <= clock
  BY DEF IInv, TypeOK
<1> DEFINE r == JoinedRow(job[j], p)
<1>3. r \in Row
  BY <1>2, JoinedRowType
<1>4. /\ r.identity = job[j].identity /\ r.status = job[j].status
      /\ r.attempts = job[j].attempts /\ r.owner = job[j].owner
      /\ r.expires = job[j].expires /\ r.cancel = job[j].cancel
  BY <1>2 DEF JoinedRow, Row
<1> HIDE DEF r
<1>5. Rewrites(job[j], r, clock)
  BY <1>2, <1>3, <1>4 DEF Rewrites, RowInv
<1> QED BY <1>1, <1>5, OneRowRewritten DEF r

\* A new row gets a fresh id and finds no active row of its identity.
LEMMA InsertInv ==
  ASSUME IInv, NEW d \in Identities, NEW p \in 0..1000, Insert(d, p)
  PROVE  IInv'
<1> DEFINE n == issued + 1
<1>1. /\ NewRow(d, p) \in Row
      /\ RowInv(NewRow(d, p), clock)
      /\ NewRow(d, p).identity = d
  BY QueueAssumption DEF NewRow, Row, RowInv, Status, Stage, Active, Terminal, IInv, TypeOK
<1>2. /\ n \notin DOMAIN job
      /\ n \notin DOMAIN pruned
      /\ 1..n = (1..issued) \cup {n}
  BY DEF IInv, TypeOK, JobId
<1>3. /\ DOMAIN job' = DOMAIN job \cup {n}
      /\ job'[n] = NewRow(d, p)
      /\ \A i \in DOMAIN job : job'[i] = job[i]
      /\ issued' = n /\ clock' = clock /\ now' = now /\ pruned' = pruned
  BY <1>2 DEF Insert
<1>4. job' \in [DOMAIN job' -> Row]
  BY <1>1, <1>2 DEF Insert, IInv, TypeOK
<1>5. TypeOK'
  BY <1>2, <1>3, <1>4 DEF IInv, TypeOK, JobId
<1>6. OneActiveJobPerIdentity'
  BY <1>1, <1>2, <1>3 DEF IInv, OneActiveJobPerIdentity, Insert, JoinTarget
<1>7. (\A j \in DOMAIN job : RowInv(job[j], clock))'
  BY <1>1, <1>3 DEF IInv, RowInv
<1>8. NoJobForgotten'
  BY <1>2, <1>3 DEF IInv, NoJobForgotten, JobId
<1> QED BY <1>5, <1>6, <1>7, <1>8 DEF IInv

\* Submitting, from a caller or from "jobs retry".
LEMMA SubmitInv ==
  ASSUME IInv, NEW d \in Identities, NEW p \in 0..1000, SubmitOrJoin(d, p)
  PROVE  IInv'
<1>1. CASE Join(d, p)
  BY <1>1, JoinInv
<1>2. CASE Insert(d, p)
  BY <1>2, InsertInv
<1> QED BY <1>1, <1>2 DEF SubmitOrJoin

\* The lease given to a queued row.
LEMMA ClaimedRowFacts ==
  ASSUME clock \in Nat, now \in Nat, now <= clock, NEW r \in Row, RowInv(r, clock), r.status = "QUEUED", NEW w \in Workers
  PROVE  /\ ClaimedRow(r, w) \in Row
         /\ RowInv(ClaimedRow(r, w), clock)
         /\ ClaimedRow(r, w).identity = r.identity
<1> DEFINE q == ClaimedRow(r, w)
<1>1. /\ "RUNNING" \in Status /\ "RUNNING" \in Stage /\ w \in Workers \cup {NoWorker}
      /\ r.attempts + 1 \in Nat /\ now + LeaseTime \in Nat
  BY QueueAssumption DEF Row, Stage, Status, Active
<1>2. q \in Row
  BY <1>1, SetStatus, SetStage, SetAttempts, SetOwner, SetExpires, SetUpdated DEF ClaimedRow
<1>3. /\ q.status = "RUNNING" /\ q.attempts = r.attempts + 1 /\ q.owner = w
      /\ q.expires = now + LeaseTime /\ q.cancel = r.cancel /\ q.identity = r.identity
  BY DEF ClaimedRow, Row
<1> HIDE DEF q
<1>4. r.attempts \in Nat /\ r.attempts < MaxAttempts
  BY DEF RowInv, Row
<1>5. RowInv(q, clock)
  BY <1>3, <1>4, QueueAssumption DEF RowInv
<1> QED BY <1>2, <1>3, <1>5 DEF q

\* claim composes the recovery of all rows with the lease of one of them.
LEMMA ClaimInv ==
  ASSUME IInv, NEW w \in Workers, Claim(w)
  PROVE  IInv'
<1> DEFINE T == RecoverExpired
<1>0. UNCHANGED <<clock, now, issued, pruned>>
  BY DEF Claim
<1>1. /\ DOMAIN T = DOMAIN job
      /\ T \in [DOMAIN job -> Row]
      /\ \A i \in DOMAIN job : Rewrites(job[i], T[i], clock)
  BY RecoveredTable
<1>2. CASE job' = T
  BY <1>0, <1>1, <1>2, RowsRewritten
<1>3. ASSUME NEW j \in ClaimCandidates(T), job' = [T EXCEPT ![j] = ClaimedRow(@, w)]
      PROVE  IInv'
  <2>1. j \in DOMAIN job /\ T[j].status = "QUEUED" /\ T[j] \in Row /\ RowInv(T[j], clock)
    BY <1>1 DEF ClaimCandidates, Rewrites
  <2>2. /\ ClaimedRow(T[j], w) \in Row
        /\ RowInv(ClaimedRow(T[j], w), clock)
        /\ ClaimedRow(T[j], w).identity = T[j].identity
    BY <2>1, ClaimedRowFacts DEF IInv, TypeOK
  <2>3. job[j].status \in Active
    BY <1>1, <2>1 DEF Rewrites, Active
  <2>4. Rewrites(job[j], ClaimedRow(T[j], w), clock)
    BY <1>1, <2>1, <2>2, <2>3 DEF Rewrites
  <2>5. /\ DOMAIN job' = DOMAIN job
        /\ job' \in [DOMAIN job -> Row]
        /\ job'[j] = ClaimedRow(T[j], w)
        /\ \A i \in DOMAIN job \ {j} : job'[i] = T[i]
    <3> HIDE DEF T
    <3> QED BY <1>1, <1>3, <2>1, <2>2
  <2>6. \A i \in DOMAIN job : Rewrites(job[i], job'[i], clock)
    BY <1>1, <2>4, <2>5
  <2> QED BY <1>0, <2>5, <2>6, RowsRewritten
<1> QED BY <1>2, <1>3 DEF Claim

\* heartbeat renews the lease of a running row.
LEMMA HeartbeatInv ==
  ASSUME IInv, NEW j, NEW w \in Workers, Heartbeat(j, w)
  PROVE  IInv'
<1> DEFINE r == [job[j] EXCEPT !.expires = now + LeaseTime, !.updated = now]
<1>1. j \in DOMAIN job /\ job' = [job EXCEPT ![j] = r] /\ UNCHANGED <<clock, now, issued, pruned>>
  BY DEF Heartbeat, HoldsLiveLease
<1>2. job[j] \in Row /\ RowInv(job[j], clock) /\ clock \in Nat /\ now \in Nat /\ now <= clock
  BY <1>1 DEF IInv, TypeOK
<1>3. r \in Row
  <2>1. now + LeaseTime \in Nat
    BY <1>2, QueueAssumption
  <2> QED BY <1>2, <2>1, SetExpires, SetUpdated
<1>4. /\ r.identity = job[j].identity /\ r.status = job[j].status
      /\ r.attempts = job[j].attempts /\ r.owner = job[j].owner
      /\ r.expires = now + LeaseTime /\ r.cancel = job[j].cancel
  BY <1>2 DEF Row
<1> HIDE DEF r
<1>5. Rewrites(job[j], r, clock)
  BY <1>2, <1>3, <1>4, QueueAssumption DEF Rewrites, RowInv
<1> QED BY <1>1, <1>5, OneRowRewritten

\* complete, fail and acknowledge_cancellation release the lease.
LEMMA TerminalizeInv ==
  ASSUME IInv, NEW j, NEW w \in Workers, NEW s \in Terminal, Terminalize(j, w, s)
  PROVE  IInv'
<1> DEFINE r == ReleasedRow(job[j], s)
<1>1. j \in DOMAIN job /\ job' = [job EXCEPT ![j] = r] /\ UNCHANGED <<clock, now, issued, pruned>>
  BY DEF Terminalize, HoldsLiveLease
<1>2. job[j].status = "RUNNING" /\ job[j].cancel = (IF s = "CANCELLED" THEN 1 ELSE 0)
  BY DEF Terminalize, HoldsLiveLease, CancelFlagMatches
<1>3. job[j] \in Row /\ RowInv(job[j], clock) /\ clock \in Nat /\ now \in Nat /\ now <= clock
  BY <1>1 DEF IInv, TypeOK
<1>4. Rewrites(job[j], r, clock)
  BY <1>2, <1>3, ReleaseRewrites DEF Status, Active, Terminal
<1> QED BY <1>1, <1>4, OneRowRewritten

\* A retryable failure goes back to the queue with an attempt left.
LEMMA ScheduleRetryInv ==
  ASSUME IInv, NEW j, NEW w \in Workers, ScheduleRetry(j, w), job[j].attempts < MaxAttempts
  PROVE  IInv'
<1> DEFINE r == RetryRow(job[j])
<1>1. j \in DOMAIN job /\ job' = [job EXCEPT ![j] = r] /\ UNCHANGED <<clock, now, issued, pruned>>
  BY DEF ScheduleRetry, HoldsLiveLease
<1>2. job[j].status = "RUNNING" /\ job[j].cancel = 0
  BY <1>1 DEF ScheduleRetry, HoldsLiveLease, CancelFlagMatches, IInv, TypeOK, Row
<1>3. job[j] \in Row /\ RowInv(job[j], clock) /\ clock \in Nat /\ now \in Nat /\ now <= clock
  BY <1>1 DEF IInv, TypeOK
<1> DEFINE q == ReleasedRow(job[j], "QUEUED")
<1>4. q \in Row /\ Rewrites(job[j], q, clock)
  BY <1>2, <1>3, ReleaseRewrites DEF Rewrites, Status, Active
<1>5. r = [q EXCEPT !.stage = "RETRY_SCHEDULED", !.available = now + RetryDelay]
  BY DEF RetryRow
<1> HIDE DEF q, r
<1>6. r \in Row
  <2>1. now + RetryDelay \in Nat /\ "RETRY_SCHEDULED" \in Stage
    BY <1>3, QueueAssumption DEF Stage
  <2> QED BY <1>4, <1>5, <2>1, SetStage, SetAvailable
<1>7. Rewrites(job[j], r, clock)
  BY <1>4, <1>5, <1>6 DEF Rewrites, RowInv, Row
<1> QED BY <1>1, <1>7, OneRowRewritten DEF r

\* cancel ends a queued row and marks a running one.
LEMMA CancelInv ==
  ASSUME IInv, NEW j, Cancel(j)
  PROVE  IInv'
<1> DEFINE r == CancelledRow(job[j])
<1>1. /\ j \in DOMAIN job /\ job' = [job EXCEPT ![j] = r] /\ UNCHANGED <<clock, now, issued, pruned>>
      /\ job[j].status \in Active
  BY DEF Cancel
<1>2. job[j] \in Row /\ RowInv(job[j], clock) /\ clock \in Nat /\ now \in Nat /\ now <= clock
  BY <1>1 DEF IInv, TypeOK
<1>3. r \in Row
  <2>1. "CANCELLED" \in Status /\ "CANCELLED" \in Stage /\ 1 \in {0, 1}
    BY DEF Status, Stage, Terminal
  <2> QED BY <1>2, <2>1, SetStatus, SetStage, SetCancel, SetUpdated DEF CancelledRow
<1>4. /\ r.identity = job[j].identity
      /\ r.status = IF job[j].status = "QUEUED" THEN "CANCELLED" ELSE job[j].status
      /\ r.attempts = job[j].attempts /\ r.owner = job[j].owner
      /\ r.expires = job[j].expires /\ r.cancel = 1
  BY <1>2 DEF CancelledRow, Row
<1> HIDE DEF r
<1>5. Rewrites(job[j], r, clock)
  BY <1>1, <1>2, <1>3, <1>4 DEF Rewrites, RowInv, Active
<1> QED BY <1>1, <1>5, OneRowRewritten

\* prune_terminal moves terminal rows to the tombstones.
LEMMA PruneInv ==
  ASSUME IInv, NEW retained, Prune(retained)
  PROVE  IInv'
<1>1. PICK B \in PruneBatches : Remove(B \ retained)
  BY DEF Prune
<1> DEFINE gone == B \ retained
<1>2. gone \subseteq DOMAIN job /\ \A i \in gone : job[i].status \in Terminal
  BY DEF PruneBatches, PruneCandidates
<1>3. /\ DOMAIN job' = DOMAIN job \ gone
      /\ \A i \in DOMAIN job' : job'[i] = job[i]
      /\ job' = [i \in DOMAIN job \ gone |-> job[i]]
      /\ DOMAIN pruned' = DOMAIN pruned \cup gone
      /\ pruned' = [i \in DOMAIN pruned \cup gone |->
                      IF i \in gone THEN job[i].status ELSE pruned[i]]
      /\ clock' = clock /\ now' = now /\ issued' = issued
  BY <1>1 DEF Remove, Prune
<1> HIDE DEF gone
<1>4. TypeOK'
  BY <1>2, <1>3 DEF IInv, TypeOK, JobId
<1>5. OneActiveJobPerIdentity'
  BY <1>3 DEF IInv, OneActiveJobPerIdentity
<1>6. (\A j \in DOMAIN job : RowInv(job[j], clock))'
  BY <1>3 DEF IInv, RowInv
<1>7. NoJobForgotten'
  BY <1>2, <1>3 DEF IInv, NoJobForgotten, JobId
<1> QED BY <1>4, <1>5, <1>6, <1>7 DEF IInv

\* The clock only makes leases shorter.
LEMMA TickInv ==
  ASSUME IInv, Tick
  PROVE  IInv'
<1>0. clock' \in Nat /\ now' \in Nat /\ now' <= clock'
  BY DEF IInv, TypeOK, Tick, Readings
<1>1. TypeOK' /\ OneActiveJobPerIdentity' /\ NoJobForgotten'
  BY <1>0 DEF IInv, Tick, TypeOK, OneActiveJobPerIdentity, NoJobForgotten, JobId
<1>2. (\A j \in DOMAIN job : RowInv(job[j], clock))'
  <2> SUFFICES ASSUME NEW j \in DOMAIN job PROVE RowInv(job[j], clock + 1)
    BY DEF Tick
  <2>1. RowInv(job[j], clock) /\ job[j] \in Row /\ clock \in Nat
    BY DEF IInv, TypeOK
  <2> QED BY <2>1, QueueAssumption DEF RowInv, Row
<1> QED BY <1>1, <1>2 DEF IInv

\* The rows do not depend on the timestamp of the next transaction.
LEMMA NextReadingInv ==
  ASSUME IInv, NextReading
  PROVE  IInv'
<1>1. now' \in Nat /\ now' <= clock /\ clock' = clock
  BY DEF NextReading, Readings
<1> QED
  BY <1>1 DEF IInv, NextReading, TypeOK, OneActiveJobPerIdentity, RowInv, NoJobForgotten, JobId

----------------------------------------------------------------------------

\* Every step of the queue preserves the inductive invariant.
LEMMA StepInv == IInv /\ [Next]_vars => IInv'
<1> SUFFICES ASSUME IInv, [Next]_vars PROVE IInv'
  OBVIOUS
<1>1. ASSUME NEW d \in Identities, NEW p \in Priorities, SubmitOrJoin(d, p)
      PROVE  IInv'
  BY <1>1, SubmitInv, QueueAssumption
<1>2. ASSUME NEW j \in JobId, Retry(j)
      PROVE  IInv'
  <2>1. job[j].identity \in Identities /\ job[j].priority \in 0..1000
    BY <1>2 DEF Retry, IInv, TypeOK, Row
  <2> QED BY <1>2, <2>1, SubmitInv DEF Retry
<1>3. ASSUME NEW j \in JobId, Cancel(j)
      PROVE  IInv'
  BY <1>3, CancelInv
<1>4. ASSUME NEW w \in Workers, Claim(w)
      PROVE  IInv'
  BY <1>4, ClaimInv
<1>5. ASSUME NEW j \in JobId, NEW w \in Workers, Heartbeat(j, w)
      PROVE  IInv'
  BY <1>5, HeartbeatInv
<1>6. ASSUME NEW j \in JobId, NEW w \in Workers, Complete(j, w)
      PROVE  IInv'
  BY <1>6, TerminalizeInv DEF Complete, Terminal
<1>7. ASSUME NEW j \in JobId, NEW w \in Workers, AcknowledgeCancellation(j, w)
      PROVE  IInv'
  BY <1>7, TerminalizeInv DEF AcknowledgeCancellation, Terminal
<1>8. ASSUME NEW j \in JobId, NEW w \in Workers, NEW retryable \in BOOLEAN, Fail(j, w, retryable)
      PROVE  IInv'
  BY <1>8, TerminalizeInv, ScheduleRetryInv DEF Fail, Terminal
<1>9. CASE RequeueExpired
  BY <1>9, RecoveredTable, RowsRewritten DEF RequeueExpired
<1>10. ASSUME NEW retained \in SUBSET JobId, Prune(retained)
       PROVE  IInv'
  BY <1>10, PruneInv
<1>11. CASE Tick
  BY <1>11, TickInv
<1>12. CASE NextReading
  BY <1>12, NextReadingInv
<1>13. CASE UNCHANGED vars
  BY <1>13 DEF vars, IInv, TypeOK, OneActiveJobPerIdentity, RowInv, NoJobForgotten, JobId
<1> QED
  BY <1>1, <1>2, <1>3, <1>4, <1>5, <1>6, <1>7, <1>8, <1>9, <1>10, <1>11, <1>12, <1>13 DEF Next

\* The empty database satisfies the inductive invariant.
LEMMA InitInv == Init => IInv
BY DEF Init, IInv, TypeOK, OneActiveJobPerIdentity, RowInv, NoJobForgotten, JobId

\* The inductive invariant holds in every reachable state of the queue.
THEOREM QueueInvariant == Spec => []IInv
<1>1. Init => IInv
  BY InitInv
<1>2. IInv /\ [Next]_vars => IInv'
  BY StepInv
<1> QED BY <1>1, <1>2, PTL DEF Spec

\* The tables keep the columns and value ranges of the schema.
THEOREM TypeCorrect == Spec => []TypeOK
<1>1. IInv => TypeOK
  BY DEF IInv
<1> QED BY <1>1, QueueInvariant, PTL

\* submit_or_join keeps one active job per goal identity for any number of
\* callers, workers and crashes.
THEOREM SubmissionIsUnique == Spec => []OneActiveJobPerIdentity
<1>1. IInv => OneActiveJobPerIdentity
  BY DEF IInv
<1> QED BY <1>1, QueueInvariant, PTL

\* No job is leased more than max_attempts times.
THEOREM AttemptLimit == Spec => []AttemptsBounded
<1>1. IInv => AttemptsBounded
  BY DEF IInv, AttemptsBounded, RowInv
<1> QED BY <1>1, QueueInvariant, PTL

\* Exactly the running jobs are leased, for at most lease_seconds.
THEOREM LeaseDiscipline == Spec => []LeaseMatchesStatus
<1>1. IInv => LeaseMatchesStatus
  BY DEF IInv, LeaseMatchesStatus, RowInv
<1> QED BY <1>1, QueueInvariant, PTL

\* A requested cancellation is never overtaken by a success, a failure or a
\* return to the queue.
THEOREM CancellationIsHonoured == Spec => []CancellationWins
<1>1. IInv => CancellationWins
  BY DEF IInv, CancellationWins, RowInv
<1> QED BY <1>1, QueueInvariant, PTL

\* Every issued id stays known as a row or a tombstone.
THEOREM HistoryIsComplete == Spec => []NoJobForgotten
<1>1. IInv => NoJobForgotten
  BY DEF IInv
<1> QED BY <1>1, QueueInvariant, PTL

----------------------------------------------------------------------------
(* Terminal statuses are final *)

\* The next table keeps row j's status, or the next tombstones do.
KeepsStatus(j) ==
  \/ j \in DOMAIN job' /\ job'[j].status = job[j].status
  \/ j \notin DOMAIN job' /\ j \in DOMAIN pruned' /\ pruned'[j] = job[j].status

Final == \A j \in DOMAIN job : job[j].status \in Terminal => KeepsStatus(j)

\* Writing one active row leaves the terminal ones alone.
LEMMA ActiveRowWritten ==
  ASSUME NEW k, NEW r, job[k].status \in Active, job' = [job EXCEPT ![k] = r]
  PROVE  Final
BY DEF Final, KeepsStatus, Active, Terminal

\* recover_expired leaves the terminal rows alone.
LEMMA RecoveryIsFinal ==
  /\ DOMAIN RecoverExpired = DOMAIN job
  /\ \A j \in DOMAIN job : job[j].status \in Terminal => RecoverExpired[j] = job[j]
BY DEF RecoverExpired, Recovered, Terminal

\* Submitting writes an active row or adds one.
LEMMA SubmitIsFinal ==
  ASSUME IInv, NEW d, NEW p, SubmitOrJoin(d, p)
  PROVE  Final
<1>1. CASE Join(d, p)
  <2>1. PICK k \in DOMAIN job : JoinTarget(k, d) /\ job' = [job EXCEPT ![k] = JoinedRow(@, p)]
    BY <1>1 DEF Join
  <2> QED BY <2>1, ActiveRowWritten DEF JoinTarget
<1>2. CASE Insert(d, p)
  <2>1. issued + 1 \notin DOMAIN job
    BY DEF IInv, TypeOK, JobId
  <2> QED BY <1>2, <2>1 DEF Insert, Final, KeepsStatus
<1> QED BY <1>1, <1>2 DEF SubmitOrJoin

\* Claiming touches recovered rows and one queued row.
LEMMA ClaimIsFinal ==
  ASSUME NEW w, Claim(w)
  PROVE  Final
<1> DEFINE T == RecoverExpired
<1>1. CASE job' = T
  BY <1>1, RecoveryIsFinal DEF Final, KeepsStatus
<1>2. ASSUME NEW k \in ClaimCandidates(T), job' = [T EXCEPT ![k] = ClaimedRow(@, w)]
      PROVE  Final
  <2>1. T[k].status = "QUEUED"
    BY DEF ClaimCandidates
  <2>2. DOMAIN job' = DOMAIN job /\ \A j \in DOMAIN job : j # k => job'[j] = T[j]
    BY <1>2, RecoveryIsFinal
  <2>3. \A j \in DOMAIN job : job[j].status \in Terminal => j # k
    BY <2>1, RecoveryIsFinal DEF Terminal
  <2> QED BY <2>2, <2>3, RecoveryIsFinal DEF Final, KeepsStatus
<1> QED BY <1>1, <1>2 DEF Claim

\* Every step of the queue keeps what has ended.
LEMMA StepIsFinal == IInv /\ Next => Final
<1> SUFFICES ASSUME IInv, Next PROVE Final
  OBVIOUS
<1>1. ASSUME NEW d \in Identities, NEW p \in Priorities, SubmitOrJoin(d, p)
      PROVE  Final
  BY <1>1, SubmitIsFinal
<1>2. ASSUME NEW j \in JobId, Retry(j)
      PROVE  Final
  BY <1>2, SubmitIsFinal DEF Retry
<1>3. ASSUME NEW j \in JobId, Cancel(j)
      PROVE  Final
  BY <1>3, ActiveRowWritten DEF Cancel
<1>4. ASSUME NEW w \in Workers, Claim(w)
      PROVE  Final
  BY <1>4, ClaimIsFinal
<1>5. ASSUME NEW j \in JobId, NEW w \in Workers, Heartbeat(j, w)
      PROVE  Final
  <2> DEFINE r == [job[j] EXCEPT !.expires = now + LeaseTime, !.updated = now]
  <2>1. job' = [job EXCEPT ![j] = r] /\ job[j].status \in Active
    BY <1>5 DEF Heartbeat, HoldsLiveLease, Active
  <2> HIDE DEF r
  <2> QED BY <2>1, ActiveRowWritten
<1>6. ASSUME NEW j \in JobId, NEW w \in Workers, NEW s \in Terminal, Terminalize(j, w, s)
      PROVE  Final
  <2> DEFINE r == ReleasedRow(job[j], s)
  <2>1. job' = [job EXCEPT ![j] = r] /\ job[j].status \in Active
    BY <1>6 DEF Terminalize, HoldsLiveLease, Active
  <2> HIDE DEF r
  <2> QED BY <2>1, ActiveRowWritten
<1>7. ASSUME NEW j \in JobId, NEW w \in Workers, ScheduleRetry(j, w)
      PROVE  Final
  <2> DEFINE r == RetryRow(job[j])
  <2>1. job' = [job EXCEPT ![j] = r] /\ job[j].status \in Active
    BY <1>7 DEF ScheduleRetry, HoldsLiveLease, Active
  <2> HIDE DEF r
  <2> QED BY <2>1, ActiveRowWritten
<1>8. CASE RequeueExpired
  BY <1>8, RecoveryIsFinal DEF RequeueExpired, Final, KeepsStatus
<1>9. ASSUME NEW retained \in SUBSET JobId, Prune(retained)
      PROVE  Final
  <2>1. PICK B \in PruneBatches : Remove(B \ retained)
    BY <1>9 DEF Prune
  <2> QED BY <2>1 DEF Remove, Final, KeepsStatus
<1>10. CASE Tick
  BY <1>10 DEF Tick, Final, KeepsStatus
<1>11. ASSUME NEW j \in JobId, NEW w \in Workers, NEW retryable \in BOOLEAN, Fail(j, w, retryable)
       PROVE  Final
  BY <1>6, <1>7, <1>11 DEF Fail, Terminal
<1>12. ASSUME NEW j \in JobId, NEW w \in Workers, Complete(j, w) \/ AcknowledgeCancellation(j, w)
       PROVE  Final
  BY <1>6, <1>12 DEF Complete, AcknowledgeCancellation, Terminal
<1>13. CASE NextReading
  BY <1>13 DEF NextReading, Final, KeepsStatus
<1> QED
  BY <1>1, <1>2, <1>3, <1>4, <1>5, <1>8, <1>9, <1>10, <1>11, <1>12, <1>13 DEF Next

\* A job that ended keeps its end: no late report, expiry, cancel, retry or prune
\* changes it.
THEOREM EndsAreFinal == Spec => TerminalIsFinal
<1>1. IInv /\ [Next]_vars =>
        [\A j \in DOMAIN job :
           job[j].status \in Terminal =>
             \/ j \in DOMAIN job' /\ job'[j].status = job[j].status
             \/ j \notin DOMAIN job' /\ j \in DOMAIN pruned' /\ pruned'[j] = job[j].status]_vars
  BY StepIsFinal DEF Final, KeepsStatus
<1> QED BY <1>1, QueueInvariant, PTL DEF Spec, TerminalIsFinal

----------------------------------------------------------------------------
(* Leases are exclusive *)

\* What LiveLeaseIsExclusive asks of one job in a step.
LeaseRespected(j) ==
  job[j].status = "RUNNING" /\ job[j].expires > clock =>
    /\ j \in DOMAIN job'
    /\ job'[j].owner \in {job[j].owner, NoWorker}
    /\ job'[j].status = "QUEUED" => job'[j].stage = "RETRY_SCHEDULED"
    /\ job'[j].status = "CANCELLED" => job[j].cancel = 1

Respected == \A j \in DOMAIN job : LeaseRespected(j)

\* A row that is not rewritten has its lease respected.
LEMMA KeptIsRespected ==
  ASSUME NEW j \in DOMAIN job, j \in DOMAIN job', job'[j] = job[j], IInv
  PROVE  LeaseRespected(j)
BY DEF LeaseRespected, IInv, RowInv

\* So it is enough to look at the row that a step rewrites.
LEMMA OneRowRespected ==
  ASSUME IInv, NEW k, NEW r, job' = [job EXCEPT ![k] = r],
         k \in DOMAIN job => LeaseRespected(k)
  PROVE  Respected
<1> SUFFICES ASSUME NEW j \in DOMAIN job PROVE LeaseRespected(j)
  BY DEF Respected
<1>1. CASE j = k
  BY <1>1
<1>2. CASE j # k
  <2>1. j \in DOMAIN job' /\ job'[j] = job[j]
    BY <1>2
  <2> QED BY <2>1, KeptIsRespected
<1> QED BY <1>1, <1>2

\* A lease that is live at this instant is live for every timestamp, so that
\* recovery leaves the row as it is.
LEMMA LiveIsNotRecovered ==
  ASSUME IInv, NEW j \in DOMAIN job, job[j].status = "RUNNING", job[j].expires > clock
  PROVE  RecoverExpired[j] = job[j]
<1>1. job[j].expires \in Nat /\ clock \in Nat /\ now \in Nat /\ now <= clock
  BY DEF IInv, TypeOK, Row
<1> QED BY <1>1 DEF RecoverExpired, Recovered

\* claim and requeue_expired.
LEMMA RecoveryRespectsLeases ==
  ASSUME IInv, RequeueExpired \/ \E w \in Workers : Claim(w)
  PROVE  Respected
<1> DEFINE T == RecoverExpired
<1> SUFFICES ASSUME NEW j \in DOMAIN job, job[j].status = "RUNNING", job[j].expires > clock
             PROVE  LeaseRespected(j)
  BY DEF Respected, LeaseRespected
<1>1. DOMAIN T = DOMAIN job /\ T[j] = job[j]
  BY RecoveryIsFinal, LiveIsNotRecovered
<1>2. CASE job' = T
  BY <1>1, <1>2, KeptIsRespected
<1>3. ASSUME NEW w \in Workers, NEW k \in ClaimCandidates(T),
             job' = [T EXCEPT ![k] = ClaimedRow(@, w)]
      PROVE  LeaseRespected(j)
  <2>1. k # j
    BY <1>1 DEF ClaimCandidates
  <2>2. j \in DOMAIN job' /\ job'[j] = job[j]
    <3> HIDE DEF T
    <3> QED BY <1>1, <1>3, <2>1
  <2> QED BY <2>2, KeptIsRespected
<1> QED BY <1>2, <1>3 DEF RequeueExpired, Claim

\* submit_or_join rewrites a running row into itself.
LEMMA SubmitRespectsLeases ==
  ASSUME IInv, NEW d, NEW p, SubmitOrJoin(d, p)
  PROVE  Respected
<1>1. CASE Join(d, p)
  <2>1. PICK k \in DOMAIN job : JoinTarget(k, d) /\ job' = [job EXCEPT ![k] = JoinedRow(@, p)]
    BY <1>1 DEF Join
  <2>2. LeaseRespected(k)
    BY <2>1 DEF LeaseRespected, JoinedRow
  <2> QED BY <2>1, <2>2, OneRowRespected
<1>2. CASE Insert(d, p)
  <2>1. issued + 1 \notin DOMAIN job
    BY DEF IInv, TypeOK, JobId
  <2>2. \A j \in DOMAIN job : j \in DOMAIN job' /\ job'[j] = job[j]
    BY <1>2, <2>1 DEF Insert
  <2> QED BY <2>2, KeptIsRespected DEF Respected
<1> QED BY <1>1, <1>2 DEF SubmitOrJoin

\* The holder's own reports, which alone end its lease.
LEMMA ReportsRespectLeases ==
  ASSUME IInv, NEW j \in JobId, NEW w \in Workers,
         \/ Heartbeat(j, w)
         \/ \E s \in Terminal : Terminalize(j, w, s)
         \/ ScheduleRetry(j, w)
  PROVE  Respected
<1>0. j \in DOMAIN job => job[j] \in Row
  BY DEF IInv, TypeOK
<1>1. CASE Heartbeat(j, w)
  <2> DEFINE r == [job[j] EXCEPT !.expires = now + LeaseTime, !.updated = now]
  <2>1. j \in DOMAIN job /\ job' = [job EXCEPT ![j] = r]
    BY <1>1 DEF Heartbeat, HoldsLiveLease
  <2>2. r.status = job[j].status /\ r.owner = job[j].owner /\ job[j].status = "RUNNING"
    BY <1>0, <1>1, <2>1 DEF Row, Heartbeat, HoldsLiveLease
  <2> HIDE DEF r
  <2> QED BY <2>1, <2>2, OneRowRespected DEF LeaseRespected
<1>2. ASSUME NEW s \in Terminal, Terminalize(j, w, s)
      PROVE  Respected
  <2> DEFINE r == ReleasedRow(job[j], s)
  <2>1. j \in DOMAIN job /\ job' = [job EXCEPT ![j] = r] /\ (s = "CANCELLED" => job[j].cancel = 1)
    BY <1>2 DEF Terminalize, HoldsLiveLease, CancelFlagMatches
  <2>2. r.status = s /\ r.owner = NoWorker
    BY <1>0, <2>1, ReleasedRowFacts DEF IInv, TypeOK, Status
  <2> HIDE DEF r
  <2> QED BY <2>1, <2>2, OneRowRespected DEF LeaseRespected, Terminal
<1>3. CASE ScheduleRetry(j, w)
  <2> DEFINE r == RetryRow(job[j])
  <2>1. j \in DOMAIN job /\ job' = [job EXCEPT ![j] = r]
    BY <1>3 DEF ScheduleRetry, HoldsLiveLease
  <2>2. r.status = "QUEUED" /\ r.stage = "RETRY_SCHEDULED" /\ r.owner = NoWorker
    BY <1>0, <2>1 DEF RetryRow, ReleasedRow, Row
  <2> HIDE DEF r
  <2> QED BY <2>1, <2>2, OneRowRespected DEF LeaseRespected
<1> QED BY <1>1, <1>2, <1>3

\* cancel and prune leave a running row RUNNING, whatever its lease.
LEMMA OthersRespectLeases ==
  ASSUME IInv, (\E j \in JobId : Cancel(j)) \/ (\E B \in SUBSET JobId : Prune(B)) \/ NextReading \/ Tick
  PROVE  Respected
<1>1. ASSUME NEW j \in JobId, Cancel(j)
      PROVE  Respected
  <2> DEFINE r == CancelledRow(job[j])
  <2>1. j \in DOMAIN job /\ job' = [job EXCEPT ![j] = r]
    BY <1>1 DEF Cancel
  <2>2. job[j].status = "RUNNING" => r.status = "RUNNING" /\ r.owner = job[j].owner
    BY <2>1 DEF IInv, TypeOK, CancelledRow, Row
  <2> HIDE DEF r
  <2> QED BY <2>1, <2>2, OneRowRespected DEF LeaseRespected
<1>2. ASSUME NEW retained \in SUBSET JobId, Prune(retained)
      PROVE  Respected
  <2>1. PICK B \in PruneBatches : Remove(B \ retained)
    BY <1>2 DEF Prune
  <2>2. \A j \in DOMAIN job : job[j].status = "RUNNING" => j \in DOMAIN job' /\ job'[j] = job[j]
    BY <2>1 DEF PruneBatches, PruneCandidates, Remove, Terminal
  <2> QED BY <2>2, KeptIsRespected DEF Respected, LeaseRespected
<1>3. CASE NextReading \/ Tick
  BY <1>3, KeptIsRespected DEF NextReading, Tick, Respected
<1> QED BY <1>1, <1>2, <1>3

\* Every step respects the live leases.
LEMMA StepRespectsLeases == IInv /\ Next => Respected
<1> SUFFICES ASSUME IInv, Next PROVE Respected
  OBVIOUS
<1>1. ASSUME NEW j \in JobId, NEW w \in Workers, NEW retryable \in BOOLEAN, Fail(j, w, retryable)
      PROVE  Respected
  BY <1>1, ReportsRespectLeases DEF Fail, Terminal
<1>2. ASSUME NEW j \in JobId, NEW w \in Workers,
             Heartbeat(j, w) \/ Complete(j, w) \/ AcknowledgeCancellation(j, w)
      PROVE  Respected
  BY <1>2, ReportsRespectLeases DEF Complete, AcknowledgeCancellation, Terminal
<1>3. ASSUME NEW j \in JobId, Retry(j)
      PROVE  Respected
  BY <1>3, SubmitRespectsLeases DEF Retry
<1>4. ASSUME NEW d \in Identities, NEW p \in Priorities, SubmitOrJoin(d, p)
      PROVE  Respected
  BY <1>4, SubmitRespectsLeases
<1> QED BY <1>1, <1>2, <1>3, <1>4, RecoveryRespectsLeases, OthersRespectLeases DEF Next

\* While a lease is live no recovery, claim, cancel or prune takes the job away, however
\* old the timestamp of its transaction (_records.timestamp_ms).
THEOREM LeasesAreExclusive == Spec => LiveLeaseIsExclusive
<1>1. IInv /\ [Next]_vars =>
        [\A j \in DOMAIN job :
           job[j].status = "RUNNING" /\ job[j].expires > clock =>
             /\ j \in DOMAIN job'
             /\ job'[j].owner \in {job[j].owner, NoWorker}
             /\ job'[j].status = "QUEUED" => job'[j].stage = "RETRY_SCHEDULED"
             /\ job'[j].status = "CANCELLED" => job[j].cancel = 1]_vars
  BY StepRespectsLeases DEF Respected, LeaseRespected
<1> QED BY <1>1, QueueInvariant, PTL DEF Spec, LiveLeaseIsExclusive

----------------------------------------------------------------------------
(* Claims follow the order of the queue *)

\* What ClaimFollowsPriority asks of one job in a step.
InTurn(j) ==
  job'[j].attempts > job[j].attempts =>
    /\ job[j].stage = "RETRY_SCHEDULED" => job[j].available <= clock
    /\ \A k \in DOMAIN job \cap DOMAIN job' :
         job'[k].status = "QUEUED" /\ job'[k].available <= now =>
           \/ job'[j].priority > job'[k].priority
           \/ job'[j].priority = job'[k].priority /\ job[j].created <= job[k].created

AllInTurn == \A j \in DOMAIN job \cap DOMAIN job' : InTurn(j)

\* Recovery keeps the columns the order is made of.
LEMMA RecoveryKeepsOrder ==
  ASSUME IInv, NEW i \in DOMAIN job
  PROVE  /\ RecoverExpired[i] \in Row
         /\ RecoverExpired[i].priority = job[i].priority
         /\ RecoverExpired[i].created = job[i].created
         /\ RecoverExpired[i].available = job[i].available
         /\ RecoverExpired[i].attempts = job[i].attempts
<1>1. job[i] \in Row /\ RecoverExpired[i] \in Row
  BY RecoveredTable DEF IInv, TypeOK
<1>2. \A s : /\ ReleasedRow(job[i], s).priority = job[i].priority
             /\ ReleasedRow(job[i], s).created = job[i].created
             /\ ReleasedRow(job[i], s).available = job[i].available
             /\ ReleasedRow(job[i], s).attempts = job[i].attempts
  BY <1>1 DEF ReleasedRow, Row
<1> QED BY <1>1, <1>2 DEF RecoverExpired, Recovered

\* The row that claim leases is due, and no candidate comes before it.
LEMMA ClaimIsInTurn ==
  ASSUME IInv, NEW w \in Workers, Claim(w)
  PROVE  AllInTurn
<1> DEFINE T == RecoverExpired
<1>0. /\ DOMAIN T = DOMAIN job
      /\ \A i \in DOMAIN job : /\ T[i] \in Row /\ T[i].priority = job[i].priority
                               /\ T[i].created = job[i].created /\ T[i].available = job[i].available
                               /\ T[i].attempts = job[i].attempts
      /\ clock \in Nat /\ now \in Nat /\ now <= clock
  BY RecoveredTable, RecoveryKeepsOrder DEF IInv, TypeOK
<1>1. CASE job' = T
  <2>1. \A j \in DOMAIN job : ~ (T[j].attempts > job[j].attempts)
    <3> HIDE DEF T
    <3> QED BY <1>0 DEF Row
  <2> QED BY <1>0, <1>1, <2>1 DEF AllInTurn, InTurn
<1>2. ASSUME NEW c \in ClaimCandidates(T), \A k \in ClaimCandidates(T) : ClaimsBefore(T, c, k),
             job' = [T EXCEPT ![c] = ClaimedRow(@, w)]
      PROVE  AllInTurn
  <2>1. c \in DOMAIN job /\ T[c].available <= now
    BY <1>0 DEF ClaimCandidates
  <2>2. /\ ClaimedRow(T[c], w).priority = T[c].priority
        /\ ClaimedRow(T[c], w).status = "RUNNING"
    BY <1>0, <2>1 DEF ClaimedRow, Row
  <2>3. /\ DOMAIN job' = DOMAIN job
        /\ job'[c] = ClaimedRow(T[c], w)
        /\ \A i \in DOMAIN job : i # c => job'[i] = T[i]
    <3> HIDE DEF T
    <3> QED BY <1>0, <1>2, <2>1
  <2>4. \A k \in DOMAIN job : T[k].status = "QUEUED" /\ T[k].available <= now => ClaimsBefore(T, c, k)
    BY <1>0, <1>2 DEF ClaimCandidates
  <2> HIDE DEF T
  <2>5. ASSUME NEW j \in DOMAIN job, job'[j].attempts > job[j].attempts
        PROVE  InTurn(j)
    <3>1. j = c
      <4>1. job[j].attempts \in Nat
        BY <1>0 DEF Row
      <4> QED BY <1>0, <2>3, <2>5, <4>1
    <3>2. job[c].available <= clock
      <4>1. T[c].available \in Nat
        BY <1>0, <2>1 DEF Row
      <4> QED BY <1>0, <2>1, <4>1
    <3>3. ASSUME NEW k \in DOMAIN job, job'[k].status = "QUEUED", job'[k].available <= now
          PROVE  \/ job'[c].priority > job'[k].priority
                 \/ job'[c].priority = job'[k].priority /\ job[c].created <= job[k].created
      <4>1. k # c /\ job'[k] = T[k]
        BY <2>2, <2>3, <3>3
      <4>2. ClaimsBefore(T, c, k)
        BY <2>4, <3>3, <4>1
      <4>3. T[c].created \in Nat /\ T[k].created \in Nat
        BY <1>0, <2>1 DEF Row
      <4> QED BY <1>0, <2>1, <2>2, <2>3, <4>1, <4>2, <4>3 DEF ClaimsBefore
    <3> QED BY <2>3, <3>1, <3>2, <3>3 DEF InTurn
  <2> QED BY <2>5 DEF AllInTurn, InTurn
<1> QED BY <1>1, <1>2 DEF Claim

\* No other step gives a job an attempt.
LEMMA AttemptsComeFromClaims ==
  ASSUME IInv, Next, ~ \E w \in Workers : Claim(w)
  PROVE  \A j \in DOMAIN job \cap DOMAIN job' : job'[j].attempts = job[j].attempts
<1>0. \A j \in DOMAIN job : job[j] \in Row
  BY DEF IInv, TypeOK
<1> DEFINE Same == \A j \in DOMAIN job \cap DOMAIN job' : job'[j].attempts = job[j].attempts
<1>1. ASSUME NEW k, NEW r, job' = [job EXCEPT ![k] = r], k \in DOMAIN job => r.attempts = job[k].attempts
      PROVE  Same
  BY <1>1
<1>2. ASSUME NEW d, NEW p, SubmitOrJoin(d, p)
      PROVE  Same
  <2>1. CASE Join(d, p)
    <3>1. PICK k \in DOMAIN job : job' = [job EXCEPT ![k] = JoinedRow(@, p)]
      BY <2>1 DEF Join
    <3>2. JoinedRow(job[k], p).attempts = job[k].attempts
      BY <1>0 DEF JoinedRow, Row
    <3> QED BY <1>1, <3>1, <3>2
  <2>2. CASE Insert(d, p)
    <3>1. issued + 1 \notin DOMAIN job
      BY DEF IInv, TypeOK, JobId
    <3> QED BY <2>2, <3>1 DEF Insert
  <2> QED BY <1>2, <2>1, <2>2 DEF SubmitOrJoin
<1>3. ASSUME NEW k \in JobId, Retry(k) \/ Cancel(k)
      PROVE  Same
  <2>1. CASE Retry(k)
    BY <1>2, <2>1 DEF Retry
  <2>2. CASE Cancel(k)
    <3>1. k \in DOMAIN job /\ job' = [job EXCEPT ![k] = CancelledRow(@)]
      BY <2>2 DEF Cancel
    <3>2. CancelledRow(job[k]).attempts = job[k].attempts
      BY <1>0, <3>1 DEF CancelledRow, Row
    <3> QED BY <1>1, <3>1, <3>2
  <2> QED BY <1>3, <2>1, <2>2
<1>4. ASSUME NEW k \in JobId, NEW w \in Workers, Heartbeat(k, w)
      PROVE  Same
  <2>1. k \in DOMAIN job /\ job' = [job EXCEPT ![k] = [@ EXCEPT !.expires = now + LeaseTime, !.updated = now]]
    BY <1>4 DEF Heartbeat, HoldsLiveLease
  <2>2. [job[k] EXCEPT !.expires = now + LeaseTime, !.updated = now].attempts = job[k].attempts
    BY <1>0, <2>1 DEF Row
  <2> QED BY <1>1, <2>1, <2>2
<1>5. ASSUME NEW k \in JobId, NEW w \in Workers, NEW s, Terminalize(k, w, s)
      PROVE  Same
  <2>1. k \in DOMAIN job /\ job' = [job EXCEPT ![k] = ReleasedRow(@, s)]
    BY <1>5 DEF Terminalize, HoldsLiveLease
  <2>2. ReleasedRow(job[k], s).attempts = job[k].attempts
    BY <1>0, <2>1 DEF ReleasedRow, Row
  <2> QED BY <1>1, <2>1, <2>2
<1>6. ASSUME NEW k \in JobId, NEW w \in Workers, ScheduleRetry(k, w)
      PROVE  Same
  <2>1. k \in DOMAIN job /\ job' = [job EXCEPT ![k] = RetryRow(@)]
    BY <1>6 DEF ScheduleRetry, HoldsLiveLease
  <2>2. RetryRow(job[k]).attempts = job[k].attempts
    BY <1>0, <2>1 DEF RetryRow, ReleasedRow, Row
  <2> QED BY <1>1, <2>1, <2>2
<1>7. ASSUME NEW k \in JobId, NEW w \in Workers,
             \/ Complete(k, w) \/ AcknowledgeCancellation(k, w)
             \/ \E retryable \in BOOLEAN : Fail(k, w, retryable)
      PROVE  Same
  BY <1>5, <1>6, <1>7 DEF Complete, AcknowledgeCancellation, Fail
<1>8. ASSUME RequeueExpired PROVE Same
  BY <1>8, RecoveryKeepsOrder, RecoveryIsFinal DEF RequeueExpired
<1>9. ASSUME NEW retained, Prune(retained)
      PROVE  Same
  BY <1>9 DEF Prune, Remove
<1>10. ASSUME NextReading \/ Tick PROVE Same
  BY <1>10 DEF NextReading, Tick
<1> HIDE DEF Same
<1>11. Same
  BY <1>2, <1>3, <1>4, <1>7, <1>8, <1>9, <1>10 DEF Next
<1> QED BY <1>11 DEF Same

\* A claim takes the job whose turn it is, whatever joined, expired or was retried
\* before, and whatever timestamps the transactions carry.
THEOREM ClaimsAreInTurn == Spec => ClaimFollowsPriority
<1>1. IInv /\ [Next]_vars =>
        [\A j \in DOMAIN job \cap DOMAIN job' :
           job'[j].attempts > job[j].attempts =>
             /\ job[j].stage = "RETRY_SCHEDULED" => job[j].available <= clock
             /\ \A k \in DOMAIN job \cap DOMAIN job' :
                  job'[k].status = "QUEUED" /\ job'[k].available <= now =>
                    \/ job'[j].priority > job'[k].priority
                    \/ job'[j].priority = job'[k].priority /\ job[j].created <= job[k].created]_vars
  <2> SUFFICES ASSUME IInv, Next PROVE AllInTurn
    BY DEF AllInTurn, InTurn
  <2>1. CASE \E w \in Workers : Claim(w)
    BY <2>1, ClaimIsInTurn
  <2>2. CASE ~ \E w \in Workers : Claim(w)
    <3>1. \A j \in DOMAIN job : job[j].attempts \in Nat
      BY DEF IInv, TypeOK, Row
    <3> QED BY <2>2, <3>1, AttemptsComeFromClaims DEF AllInTurn, InTurn
  <2> QED BY <2>1, <2>2
<1> QED BY <1>1, QueueInvariant, PTL DEF Spec, ClaimFollowsPriority

----------------------------------------------------------------------------
(* The tables implement JobQueue, if no timestamp is old *)

\* Without a wait the next transaction carries the present instant.
Exact == IInv /\ now = clock

\* A clock that moves reads what it shows.
LEMMA ExactStep ==
  ASSUME MaxWait = 0, Exact, [Next]_vars
  PROVE  Exact'
<1>1. IInv'
  BY StepInv DEF Exact
<1>2. clock \in Nat
  BY DEF Exact, IInv, TypeOK
<1>3. \A t \in Nat : Readings(t) = {t}
  BY DEF Readings
<1>4. CASE NextReading \/ Tick
  <2>1. now' \in Readings(clock') /\ clock' \in Nat
    BY <1>2, <1>4 DEF NextReading, Tick
  <2>2. now' = clock'
    BY <1>3, <2>1
  <2> QED BY <1>1, <2>2 DEF Exact
<1>5. CASE UNCHANGED vars
  BY <1>1, <1>5 DEF Exact, vars
<1>6. CASE Next /\ ~ (NextReading \/ Tick)
  <2>1. UNCHANGED <<clock, now>>
    BY <1>6 DEF Next, SubmitOrJoin, Join, Insert, Retry, Cancel, Claim, Heartbeat, Complete,
             AcknowledgeCancellation, Fail, Terminalize, ScheduleRetry, RequeueExpired, Prune
  <2> QED BY <1>1, <2>1 DEF Exact
<1> QED BY <1>4, <1>5, <1>6

\* The abstract table, row by row, before and after a step.
LEMMA TableRows ==
  /\ DOMAIN Table = DOMAIN job
  /\ \A i \in DOMAIN job : Table[i] = Seen(job[i], now)
  /\ Table' = [i \in DOMAIN job' |-> Seen(job'[i], now')]
BY DEF Table

\* The rows of the abstract table.
Views == [identity : Identities, status : Status, attempts : Nat,
          owner : Workers \cup {NoWorker}, live : {0, 1}, ready : {0, 1}, cancel : {0, 1}]

\* What is seen of a row.
LEMMA SeenView ==
  ASSUME NEW r \in Row, NEW t \in Nat
  PROVE  Seen(r, t) \in Views
BY DEF Seen, Views, Row

\* Views that show the same are the same.
LEMMA SameView ==
  ASSUME NEW x \in Views, NEW y \in Views,
         x.identity = y.identity, x.status = y.status, x.attempts = y.attempts, x.owner = y.owner,
         x.live = y.live, x.ready = y.ready, x.cancel = y.cancel
  PROVE  x = y
BY DEF Views

\* One concrete row rewritten is one abstract row rewritten.
LEMMA OneRowSeen ==
  ASSUME NEW k \in DOMAIN job, NEW r, job' = [job EXCEPT ![k] = r], now' = now
  PROVE  Table' = [Table EXCEPT ![k] = Seen(r, now)]
BY DEF Table

\* Giving up a lease looks like it.
LEMMA ReleaseSeen ==
  ASSUME NEW r \in Row, NEW s \in Status, now \in Nat
  PROVE  Seen(ReleasedRow(r, s), now) = Abstract!Release(Seen(r, now), s)
<1> DEFINE q == ReleasedRow(r, s)
           v == Seen(r, now)
           x == Seen(q, now)
           y == Abstract!Release(v, s)
<1>1. /\ q.identity = r.identity /\ q.status = s /\ q.attempts = r.attempts /\ q.owner = NoWorker
      /\ q.expires = 0 /\ q.available = r.available /\ q.cancel = r.cancel
  BY DEF ReleasedRow, Row
<1>2. q \in Row /\ v \in Views
  <2>1. s \in Stage /\ NoWorker \in Workers \cup {NoWorker}
    BY DEF Stage
  <2> QED BY <2>1, SetStatus, SetStage, SetOwner, SetExpires, SetUpdated, SeenView DEF ReleasedRow
<1>3. x \in Views
  BY <1>2, SeenView
<1>4. y \in Views
  <2> HIDE DEF v
  <2> QED BY <1>2 DEF Abstract!Release, Views
<1>5. /\ y.identity = v.identity /\ y.status = s /\ y.attempts = v.attempts /\ y.owner = NoWorker
      /\ y.live = 0 /\ y.ready = v.ready /\ y.cancel = v.cancel
  <2> HIDE DEF v
  <2> QED BY <1>2 DEF Abstract!Release, Views
<1> HIDE DEF q, y
<1>6. /\ x.identity = y.identity /\ x.status = y.status /\ x.attempts = y.attempts /\ x.owner = y.owner
      /\ x.live = y.live /\ x.ready = y.ready /\ x.cancel = y.cancel
  BY <1>1, <1>5 DEF Seen
<1> HIDE DEF x
<1>7. x = y
  BY <1>3, <1>4, <1>6, SameView
<1> QED BY <1>7 DEF x, y, q

\* Recovery looks like recovery.
LEMMA RecoverySeen ==
  ASSUME IInv
  PROVE  [i \in DOMAIN job |-> Seen(RecoverExpired[i], now)] = Abstract!AfterRecovery
<1>1. ASSUME NEW i \in DOMAIN job
      PROVE  Seen(RecoverExpired[i], now) = Abstract!AfterExpiry(Table[i])
  <2> DEFINE r == job[i]
             q == Seen(r, now)
             s == IF r.cancel = 1 THEN "CANCELLED"
                  ELSE IF r.attempts >= MaxAttempts THEN "FAILED" ELSE "QUEUED"
  <2>1. r \in Row /\ now \in Nat /\ r.expires \in Nat
    BY DEF IInv, TypeOK, Row
  <2>2. /\ Table[i] = q /\ q.status = r.status /\ q.cancel = r.cancel /\ q.attempts = r.attempts
        /\ q.live = 0 <=> r.expires <= now
    BY <2>1, TableRows DEF Seen
  <2>3. s \in Status
    BY DEF Status, Active, Terminal
  <2>4. Seen(ReleasedRow(r, s), now) = Abstract!Release(q, s)
    BY <2>1, <2>3, ReleaseSeen
  <2> HIDE DEF q, r
  <2>5. CASE r.status = "RUNNING" /\ r.expires <= now
    BY <2>2, <2>4, <2>5 DEF RecoverExpired, Recovered, Abstract!AfterExpiry, r
  <2>6. CASE ~ (r.status = "RUNNING" /\ r.expires <= now)
    BY <2>2, <2>6 DEF RecoverExpired, Recovered, Abstract!AfterExpiry, r, q
  <2> QED BY <2>5, <2>6
<1> QED BY <1>1, TableRows DEF Abstract!AfterRecovery

\* A step of the abstract queue, or none that its users see.
Implemented == Abstract!QueueNext \/ UNCHANGED Abstract!queueVars

\* A caller who joins sees nothing new; a new row looks like a fresh job.
LEMMA SubmitImplemented ==
  ASSUME IInv, NEW d \in Identities, NEW p, SubmitOrJoin(d, p)
  PROVE  Implemented
<1>0. /\ \A i \in DOMAIN job : job[i] \in Row /\ Table[i] = Seen(job[i], now)
      /\ now \in Nat /\ issued \in Nat /\ DOMAIN job \subseteq 1..issued
  BY TableRows DEF IInv, TypeOK, JobId
<1>1. CASE Join(d, p)
  <2>1. PICK k \in DOMAIN job : job' = [job EXCEPT ![k] = JoinedRow(@, p)]
    BY <1>1 DEF Join
  <2>2. Seen(JoinedRow(job[k], p), now) = Seen(job[k], now)
    BY <1>0 DEF Seen, JoinedRow, Row
  <2>3. Table' = [Table EXCEPT ![k] = Table[k]]
    BY <1>0, <1>1, <2>1, <2>2, OneRowSeen DEF Join
  <2>4. Table' = Table
    BY <2>3 DEF Table
  <2> QED BY <1>1, <2>4 DEF Join, Implemented, Abstract!queueVars
<1>2. CASE Insert(d, p)
  <2> DEFINE n == issued + 1
  <2>1. Seen(NewRow(d, p), now) = Abstract!FreshJob(d)
    BY <1>0 DEF Seen, NewRow, Abstract!FreshJob
  <2>2. n \notin DOMAIN job
    BY <1>0
  <2>3. Table' = [i \in DOMAIN job \cup {n} |-> IF i = n THEN Abstract!FreshJob(d) ELSE Table[i]]
    BY <1>0, <1>2, <2>1, <2>2, TableRows DEF Insert
  <2>4. ~ \E j \in DOMAIN Table : Table[j].identity = d /\ Abstract!IsActive(j)
    BY <1>0, <1>2, TableRows DEF Insert, JoinTarget, Abstract!IsActive, Seen, Active
  <2>5. Abstract!Submit(d)
    BY <1>2, <2>3, <2>4, TableRows DEF Insert, Abstract!Submit
  <2> QED BY <2>5 DEF Implemented, Abstract!QueueNext
<1> QED BY <1>1, <1>2 DEF SubmitOrJoin

\* A claim recovers leases and hands out a job that is ready, or finds none.
LEMMA ClaimImplemented ==
  ASSUME IInv, NEW w \in Workers, Claim(w)
  PROVE  Implemented
<1> DEFINE T == RecoverExpired
           A == Abstract!AfterRecovery
<1>0. /\ DOMAIN T = DOMAIN job
      /\ \A i \in DOMAIN job : /\ T[i] \in Row /\ T[i].available = job[i].available
                               /\ job[i] \in Row /\ Table[i] = Seen(job[i], now)
      /\ now \in Nat /\ DOMAIN job \subseteq 1..issued
      /\ UNCHANGED <<now, issued, pruned>>
  BY RecoveredTable, RecoveryKeepsOrder, TableRows DEF IInv, TypeOK, JobId, Claim
<1>1. A = [i \in DOMAIN job |-> Seen(T[i], now)]
  BY RecoverySeen
<1>2. Abstract!ReadyJobs = ClaimCandidates(T)
  <2>1. \A i \in DOMAIN job : /\ A[i].status = "QUEUED" <=> T[i].status = "QUEUED"
                              /\ Table[i].ready = 1 <=> T[i].available <= now
    <3> SUFFICES ASSUME NEW i \in DOMAIN job
                 PROVE  /\ A[i].status = "QUEUED" <=> T[i].status = "QUEUED"
                        /\ Table[i].ready = 1 <=> T[i].available <= now
      OBVIOUS
    <3>1. A[i] = Seen(T[i], now) /\ Table[i] = Seen(job[i], now) /\ T[i].available = job[i].available
      BY <1>0, <1>1
    <3> HIDE DEF T, A
    <3> QED BY <3>1 DEF Seen
  <2> HIDE DEF T, A
  <2> QED BY <1>0, <2>1, TableRows DEF Abstract!ReadyJobs, ClaimCandidates, A
<1>3. CASE ClaimCandidates(T) = {} /\ job' = T
  <2>1. Table' = A
    BY <1>0, <1>1, <1>3, TableRows
  <2>2. Abstract!ClaimNothing
    BY <1>0, <1>2, <1>3, <2>1 DEF Abstract!ClaimNothing, Abstract!RecoverLeases
  <2> QED BY <2>2 DEF Implemented, Abstract!QueueNext
<1>4. ASSUME NEW c \in ClaimCandidates(T), job' = [T EXCEPT ![c] = ClaimedRow(@, w)]
      PROVE  Implemented
  <2>1. c \in DOMAIN job /\ c \in 1..issued
    BY <1>0 DEF ClaimCandidates
  <2>2. Seen(ClaimedRow(T[c], w), now) = Abstract!Leased(A[c], w)
    <3> DEFINE r == T[c]
               q == ClaimedRow(r, w)
               v == Seen(r, now)
               x == Seen(q, now)
               y == Abstract!Leased(v, w)
    <3>1. /\ q.identity = r.identity /\ q.status = "RUNNING" /\ q.attempts = r.attempts + 1 /\ q.owner = w
          /\ q.expires = now + LeaseTime /\ q.available = r.available /\ q.cancel = r.cancel
      BY <1>0, <2>1 DEF ClaimedRow, Row
    <3>2. now + LeaseTime > now /\ now + LeaseTime \in Nat
      BY <1>0, QueueAssumption
    <3>3. r \in Row /\ A[c] = v
      BY <1>0, <1>1, <2>1
    <3>4. q \in Row
      <4> HIDE DEF r
      <4>1. /\ "RUNNING" \in Status /\ "RUNNING" \in Stage /\ w \in Workers \cup {NoWorker}
            /\ r.attempts + 1 \in Nat
        BY <3>3 DEF Row, Stage, Status, Active
      <4> QED BY <1>0, <3>2, <3>3, <4>1, SetStatus, SetStage, SetAttempts, SetOwner, SetExpires,
                SetUpdated
               DEF ClaimedRow
    <3> HIDE DEF q, r, A
    <3>5. x \in Views /\ v \in Views
      BY <1>0, <3>3, <3>4, SeenView
    <3>6. /\ y \in Views
          /\ y.identity = v.identity /\ y.status = "RUNNING" /\ y.attempts = v.attempts + 1 /\ y.owner = w
          /\ y.live = 1 /\ y.ready = v.ready /\ y.cancel = v.cancel
      <4> HIDE DEF v
      <4> DEFINE n == v.attempts + 1
      <4>1. n \in Nat /\ "RUNNING" \in Status /\ w \in Workers \cup {NoWorker}
        BY <3>5 DEF Views, Status, Active
      <4>2. y = [v EXCEPT !.status = "RUNNING", !.attempts = n, !.owner = w, !.live = 1]
        BY DEF Abstract!Leased
      <4> HIDE DEF n, y
      <4>3. /\ y \in Views
            /\ y.identity = v.identity /\ y.status = "RUNNING" /\ y.attempts = n /\ y.owner = w
            /\ y.live = 1 /\ y.ready = v.ready /\ y.cancel = v.cancel
        BY <3>5, <4>1, <4>2 DEF Views
      <4> QED BY <4>3 DEF n
    <3> HIDE DEF y
    <3>7. /\ x.identity = y.identity /\ x.status = y.status /\ x.attempts = y.attempts /\ x.owner = y.owner
          /\ x.live = y.live /\ x.ready = y.ready /\ x.cancel = y.cancel
      BY <3>1, <3>2, <3>6 DEF Seen
    <3> HIDE DEF x, v
    <3>8. x = y
      BY <3>5, <3>6, <3>7, SameView
    <3> QED BY <3>3, <3>8 DEF x, y, q, r
  <2>3. Table' = [A EXCEPT ![c] = Abstract!Leased(@, w)]
    <3>1. /\ DOMAIN job' = DOMAIN job /\ job'[c] = ClaimedRow(T[c], w)
          /\ \A i \in DOMAIN job : i # c => job'[i] = T[i]
      <4> HIDE DEF T
      <4> QED BY <1>0, <1>4, <2>1
    <3>2. Table' = [i \in DOMAIN job |-> Seen(job'[i], now)]
      BY <1>0, <3>1, TableRows
    <3>3. Table' = [i \in DOMAIN job |-> IF i = c THEN Abstract!Leased(A[c], w) ELSE A[i]]
      <4>1. \A i \in DOMAIN job : Seen(job'[i], now) = IF i = c THEN Abstract!Leased(A[c], w) ELSE A[i]
        BY <1>1, <2>2, <3>1
      <4> HIDE DEF A, T
      <4> QED BY <3>2, <4>1
    <3>4. DOMAIN A = DOMAIN job
      BY <1>1
    <3>5. A = [i \in DOMAIN A |-> A[i]]
      BY <1>1
    <3> HIDE DEF A, T
    <3> QED BY <2>1, <3>3, <3>4, <3>5
  <2>4. Abstract!ClaimJob(w, c)
    BY <1>0, <1>2, <1>4, <2>3 DEF Abstract!ClaimJob
  <2> QED BY <2>1, <2>4 DEF Implemented, Abstract!QueueNext
<1> QED BY <1>3, <1>4 DEF Claim

\* The reports of a lease's holder.
LEMMA ReportsImplemented ==
  ASSUME IInv, NEW j \in JobId, NEW w \in Workers,
         \/ Heartbeat(j, w)
         \/ \E s \in Terminal : Terminalize(j, w, s)
         \/ ScheduleRetry(j, w) /\ job[j].attempts < MaxAttempts
  PROVE  Implemented
<1>1. /\ j \in DOMAIN job /\ job[j] \in Row /\ now \in Nat /\ j \in 1..issued
      /\ Table[j] = Seen(job[j], now) /\ j \in DOMAIN Table
      /\ Abstract!HasLiveLease(j, w)
      /\ UNCHANGED <<now, issued, pruned>>
  <2>1. HoldsLiveLease(j, w) /\ UNCHANGED <<now, issued, pruned>>
    BY DEF Heartbeat, Terminalize, ScheduleRetry
  <2>2. j \in DOMAIN job /\ Table[j] = Seen(job[j], now) /\ j \in DOMAIN Table
    BY <2>1, TableRows DEF HoldsLiveLease
  <2> QED BY <2>1, <2>2 DEF HoldsLiveLease, Abstract!HasLiveLease, Seen, IInv, TypeOK, JobId
<1>2. CASE Heartbeat(j, w)
  <2> DEFINE r == [job[j] EXCEPT !.expires = now + LeaseTime, !.updated = now]
  <2>1. job' = [job EXCEPT ![j] = r] /\ job[j].expires > now
    BY <1>2 DEF Heartbeat, HoldsLiveLease
  <2>2. /\ r.identity = job[j].identity /\ r.status = job[j].status /\ r.attempts = job[j].attempts
        /\ r.owner = job[j].owner /\ r.available = job[j].available /\ r.cancel = job[j].cancel
        /\ r.expires > now
    BY <1>1, QueueAssumption DEF Row
  <2> HIDE DEF r
  <2>3. Seen(r, now) = Seen(job[j], now)
    BY <2>1, <2>2 DEF Seen
  <2>4. Table' = [Table EXCEPT ![j] = Table[j]]
    BY <1>1, <2>1, <2>3, OneRowSeen
  <2>5. Table' = Table
    BY <2>4 DEF Table
  <2> QED BY <1>1, <2>5 DEF Implemented, Abstract!queueVars
<1>3. ASSUME NEW s \in Terminal, Terminalize(j, w, s)
      PROVE  Implemented
  <2> DEFINE r == ReleasedRow(job[j], s)
  <2>1. job' = [job EXCEPT ![j] = r]
    BY <1>3 DEF Terminalize
  <2>2. r = ReleasedRow(job[j], s)
    OBVIOUS
  <2> HIDE DEF r
  <2>3. Table' = [Table EXCEPT ![j] = Abstract!Release(Table[j], s)]
    <3>1. Seen(r, now) = Abstract!Release(Table[j], s)
      BY <1>1, <2>2, ReleaseSeen DEF Status
    <3>2. Table' = [Table EXCEPT ![j] = Seen(r, now)]
      BY <1>1, <2>1, OneRowSeen
    <3> QED BY <3>1, <3>2
  <2>4. Abstract!MayEnd(j, w, s)
    BY <1>1, <1>3 DEF Abstract!MayEnd, Terminalize, CancelFlagMatches, Seen
  <2>5. Abstract!EndJob(j, w, s)
    BY <1>1, <2>3, <2>4 DEF Abstract!EndJob
  <2> QED BY <1>1, <2>5 DEF Implemented, Abstract!QueueNext, Abstract!Ended, Terminal
<1>4. CASE ScheduleRetry(j, w) /\ job[j].attempts < MaxAttempts
  <2> DEFINE q == ReleasedRow(job[j], "QUEUED")
             r == RetryRow(job[j])
             later == IF now + RetryDelay <= now THEN 1 ELSE 0
  <2>1. job' = [job EXCEPT ![j] = r] /\ job[j].cancel = 0
    BY <1>1, <1>4 DEF ScheduleRetry, CancelFlagMatches, Row
  <2>2. q \in Row /\ Seen(q, now) = Abstract!Release(Table[j], "QUEUED")
    BY <1>1, ReleaseSeen, ReleasedRowFacts DEF IInv, TypeOK, Status, Active
  <2>3. /\ r.identity = q.identity /\ r.status = q.status /\ r.attempts = q.attempts
        /\ r.owner = q.owner /\ r.expires = q.expires /\ r.cancel = q.cancel
        /\ r.available = now + RetryDelay
    <3>1. r = [q EXCEPT !.stage = "RETRY_SCHEDULED", !.available = now + RetryDelay]
      BY DEF RetryRow
    <3> HIDE DEF q, r
    <3> QED BY <2>2, <3>1 DEF Row
  <2> HIDE DEF q, r
  <2>4. Seen(r, now) = [Seen(q, now) EXCEPT !.ready = later]
    BY <2>3 DEF Seen
  <2>5. Table' = [Table EXCEPT ![j] = [Abstract!Release(Table[j], "QUEUED") EXCEPT !.ready = later]]
    <3>1. Table' = [Table EXCEPT ![j] = Seen(r, now)]
      BY <1>1, <2>1, OneRowSeen
    <3> QED BY <2>2, <2>4, <3>1
  <2>6. Table[j].cancel = 0 /\ Table[j].attempts < MaxAttempts /\ later \in {0, 1}
    BY <1>1, <1>4, <2>1 DEF Seen
  <2> HIDE DEF later
  <2>7. Abstract!PostponeJob(j, w)
    BY <1>1, <2>5, <2>6 DEF Abstract!PostponeJob
  <2> QED BY <1>1, <2>7 DEF Implemented, Abstract!QueueNext
<1> QED BY <1>2, <1>3, <1>4

\* cancel.
LEMMA CancelImplemented ==
  ASSUME IInv, NEW j \in JobId, Cancel(j)
  PROVE  Implemented
<1> DEFINE r == CancelledRow(job[j])
<1>1. /\ j \in DOMAIN job /\ job[j] \in Row /\ j \in 1..issued
      /\ Table[j] = Seen(job[j], now) /\ j \in DOMAIN Table
      /\ job' = [job EXCEPT ![j] = r] /\ UNCHANGED <<now, issued, pruned>>
      /\ job[j].status \in Active
  BY TableRows DEF Cancel, IInv, TypeOK, JobId
<1>2. /\ r.identity = job[j].identity /\ r.attempts = job[j].attempts /\ r.owner = job[j].owner
      /\ r.expires = job[j].expires /\ r.available = job[j].available /\ r.cancel = 1
      /\ r.status = IF job[j].status = "QUEUED" THEN "CANCELLED" ELSE job[j].status
  BY <1>1 DEF CancelledRow, Row
<1>7. r \in Row
  <2>1. /\ "CANCELLED" \in Status /\ "CANCELLED" \in Stage /\ now \in Nat
    BY DEF Status, Stage, Terminal, IInv, TypeOK
  <2> QED BY <1>1, <2>1, SetStatus, SetStage, SetCancel, SetUpdated DEF CancelledRow
<1> HIDE DEF r
<1>3. Seen(r, now) = IF Table[j].status = "QUEUED" THEN [Table[j] EXCEPT !.status = "CANCELLED", !.cancel = 1]
                     ELSE [Table[j] EXCEPT !.cancel = 1]
  <2> DEFINE v == Table[j]
             x == Seen(r, now)
             y == IF v.status = "QUEUED" THEN [v EXCEPT !.status = "CANCELLED", !.cancel = 1]
                  ELSE [v EXCEPT !.cancel = 1]
  <2>1. r \in Row /\ v \in Views /\ now \in Nat
    BY <1>1, <1>7, SeenView DEF IInv, TypeOK
  <2>2. x \in Views
    BY <2>1, SeenView
  <2>3. /\ x.identity = v.identity /\ x.attempts = v.attempts /\ x.owner = v.owner
        /\ x.live = v.live /\ x.ready = v.ready /\ x.cancel = 1
        /\ x.status = IF v.status = "QUEUED" THEN "CANCELLED" ELSE v.status
    BY <1>1, <1>2 DEF Seen
  <2>4. /\ y \in Views
        /\ y.identity = v.identity /\ y.attempts = v.attempts /\ y.owner = v.owner
        /\ y.live = v.live /\ y.ready = v.ready /\ y.cancel = 1
        /\ y.status = IF v.status = "QUEUED" THEN "CANCELLED" ELSE v.status
    <3> HIDE DEF v
    <3>1. CASE v.status = "QUEUED"
      BY <2>1, <3>1 DEF Views, Status, Terminal
    <3>2. CASE v.status # "QUEUED"
      BY <2>1, <3>2 DEF Views
    <3> QED BY <3>1, <3>2
  <2> HIDE DEF x, y
  <2>5. x = y
    BY <2>2, <2>3, <2>4, SameView
  <2> QED BY <2>5 DEF x, y
<1>4. Table' = [Table EXCEPT ![j] = Seen(r, now)]
  BY <1>1, OneRowSeen
<1>5. Abstract!IsActive(j)
  BY <1>1 DEF Abstract!IsActive, Seen, Active
<1>6. Abstract!CancelJob(j)
  BY <1>1, <1>3, <1>4, <1>5 DEF Abstract!CancelJob
<1> QED BY <1>1, <1>6 DEF Implemented, Abstract!QueueNext

\* prune_terminal forgets jobs that have ended.
LEMMA PruneImplemented ==
  ASSUME IInv, NEW retained, Prune(retained)
  PROVE  Implemented
<1>1. PICK B \in PruneBatches : Remove(B \ retained)
  BY DEF Prune
<1> DEFINE gone == B \ retained
<1>2. gone \subseteq DOMAIN job /\ gone \subseteq 1..issued /\ \A i \in gone : job[i].status \in Terminal
  BY DEF PruneBatches, PruneCandidates, IInv, TypeOK, JobId
<1>3. /\ job' = [i \in DOMAIN job \ gone |-> job[i]]
      /\ pruned' = [i \in DOMAIN pruned \cup gone |-> IF i \in gone THEN job[i].status ELSE pruned[i]]
      /\ UNCHANGED <<now, issued>>
  BY <1>1 DEF Remove, Prune
<1> HIDE DEF gone
<1>4. \A i \in gone : i \in DOMAIN Table /\ Table[i].status = job[i].status
  BY <1>2, TableRows DEF Seen
<1>5. Table' = [i \in DOMAIN Table \ gone |-> Table[i]]
  BY <1>2, <1>3, TableRows
<1>6. pruned' = [i \in DOMAIN pruned \cup gone |-> IF i \in gone THEN Table[i].status ELSE pruned[i]]
  BY <1>3, <1>4
<1>7. Abstract!ForgetJobs(gone)
  BY <1>2, <1>3, <1>4, <1>5, <1>6 DEF Abstract!ForgetJobs, Abstract!Ended, Terminal
<1> QED BY <1>2, <1>7 DEF Implemented, Abstract!QueueNext

\* Time only lets leases lapse and delays end.
LEMMA TimeImplemented ==
  ASSUME Exact, Exact', Tick \/ NextReading
  PROVE  Implemented
<1>1. /\ job' = job /\ issued' = issued /\ pruned' = pruned
      /\ now \in Nat /\ now' \in Nat /\ now <= now'
      /\ DOMAIN job \subseteq 1..issued
      /\ \A i \in DOMAIN job : job[i].expires \in Nat /\ job[i].available \in Nat
  BY DEF Exact, IInv, TypeOK, JobId, Tick, NextReading, Row
<1> DEFINE lapsed == {i \in DOMAIN job : job[i].expires <= now'}
           due == {i \in DOMAIN job : job[i].available <= now'}
<1>2. lapsed \in SUBSET (1..issued) /\ due \in SUBSET (1..issued)
  BY <1>1
<1>3. ASSUME NEW i \in DOMAIN job
      PROVE  Seen(job[i], now') = [Table[i] EXCEPT !.live = IF i \in lapsed THEN 0 ELSE @,
                                                   !.ready = IF i \in due THEN 1 ELSE @]
  <2>1. Table[i] = Seen(job[i], now)
    BY TableRows
  <2>2. /\ i \in lapsed <=> job[i].expires <= now'
        /\ i \in due <=> job[i].available <= now'
    OBVIOUS
  <2> HIDE DEF lapsed, due
  <2> DEFINE v == Table[i]
             x == Seen(job[i], now')
             y == [v EXCEPT !.live = IF i \in lapsed THEN 0 ELSE @, !.ready = IF i \in due THEN 1 ELSE @]
  <2>3. x \in Views /\ v \in Views
    BY <1>1, <2>1, SeenView DEF Exact, IInv, TypeOK
  <2>4. /\ y \in Views
        /\ y.identity = v.identity /\ y.status = v.status /\ y.attempts = v.attempts /\ y.owner = v.owner
        /\ y.cancel = v.cancel
        /\ y.live = IF i \in lapsed THEN 0 ELSE v.live
        /\ y.ready = IF i \in due THEN 1 ELSE v.ready
    <3> HIDE DEF v
    <3> QED BY <2>3 DEF Views
  <2> HIDE DEF y
  <2>5. /\ x.identity = y.identity /\ x.status = y.status /\ x.attempts = y.attempts /\ x.owner = y.owner
        /\ x.live = y.live /\ x.ready = y.ready /\ x.cancel = y.cancel
    BY <1>1, <2>1, <2>2, <2>4 DEF Seen
  <2> HIDE DEF x
  <2>6. x = y
    BY <2>3, <2>4, <2>5, SameView
  <2> QED BY <2>6 DEF x, y
<1> HIDE DEF lapsed, due
<1>4. Abstract!TimePasses(lapsed, due)
  BY <1>1, <1>3, TableRows DEF Abstract!TimePasses
<1> QED BY <1>2, <1>4 DEF Implemented, Abstract!QueueNext

\* Every step of the tables is one of the abstract queue, or invisible.
LEMMA StepImplemented ==
  ASSUME MaxWait = 0, Exact, [Next]_vars
  PROVE  Implemented
<1>0. Exact' /\ IInv
  BY ExactStep DEF Exact
<1>1. ASSUME NEW j \in JobId, NEW w \in Workers, NEW retryable \in BOOLEAN, Fail(j, w, retryable)
      PROVE  Implemented
  BY <1>0, <1>1, ReportsImplemented DEF Fail, Terminal
<1>2. ASSUME NEW j \in JobId, NEW w \in Workers,
             Heartbeat(j, w) \/ Complete(j, w) \/ AcknowledgeCancellation(j, w)
      PROVE  Implemented
  BY <1>0, <1>2, ReportsImplemented DEF Complete, AcknowledgeCancellation, Terminal
<1>3. ASSUME NEW j \in JobId, Retry(j)
      PROVE  Implemented
  <2>1. job[j].identity \in Identities
    BY <1>0, <1>3 DEF Retry, IInv, TypeOK, Row
  <2> QED BY <1>0, <1>3, <2>1, SubmitImplemented DEF Retry
<1>4. ASSUME NEW d \in Identities, NEW p \in Priorities, SubmitOrJoin(d, p)
      PROVE  Implemented
  BY <1>0, <1>4, SubmitImplemented
<1>5. ASSUME NEW w \in Workers, Claim(w)
      PROVE  Implemented
  BY <1>0, <1>5, ClaimImplemented
<1>6. ASSUME RequeueExpired
      PROVE  Implemented
  <2>1. Table' = Abstract!AfterRecovery
    BY <1>0, <1>6, RecoverySeen, RecoveryIsFinal, TableRows DEF RequeueExpired
  <2>2. Abstract!RecoverLeases
    BY <1>6, <2>1 DEF RequeueExpired, Abstract!RecoverLeases
  <2> QED BY <2>2 DEF Implemented, Abstract!QueueNext
<1>7. ASSUME NEW j \in JobId, Cancel(j)
      PROVE  Implemented
  BY <1>0, <1>7, CancelImplemented
<1>8. ASSUME NEW retained, Prune(retained)
      PROVE  Implemented
  BY <1>0, <1>8, PruneImplemented
<1>9. ASSUME NextReading \/ Tick
      PROVE  Implemented
  BY <1>0, <1>9, TimeImplemented
<1>10. ASSUME UNCHANGED vars
       PROVE  Implemented
  BY <1>10 DEF vars, Implemented, Abstract!queueVars, Table
<1> QED BY <1>1, <1>2, <1>3, <1>4, <1>5, <1>6, <1>7, <1>8, <1>9, <1>10 DEF Next

\* Seen through Table, the two SQLite tables are the queue that JobQueue promises,
\* for any number of callers, workers, priorities and jobs, as long as no operation
\* waits for the write lock.
THEOREM QueueImplementsJobQueue == MaxWait = 0 => (Spec => ImplementsJobQueue)
<1> SUFFICES ASSUME MaxWait = 0 PROVE Spec => ImplementsJobQueue
  OBVIOUS
<1>1. Init => Exact /\ Abstract!QueueInit
  BY InitInv, TableRows DEF Init, Exact, Abstract!QueueInit
<1>2. Exact /\ [Next]_vars => Exact' /\ [Abstract!QueueNext]_Abstract!queueVars
  BY ExactStep, StepImplemented DEF Implemented
<1> QED BY <1>1, <1>2, PTL DEF Spec, ImplementsJobQueue, Abstract!QueueSpec

============================================================================
