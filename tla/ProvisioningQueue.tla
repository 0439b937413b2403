------------------------- MODULE ProvisioningQueue -------------------------
(***************************************************************************)
(* The durable job queue of vnalpha.provisioning_queue: the SQLite tables  *)
(* provision_job and pruned_provision_job and the operations of the        *)
(* repository on them.  Every operation runs in one BEGIN IMMEDIATE        *)
(* transaction, so each is one action; an operation that raises changes    *)
(* nothing and is a disabled action.                                       *)
(*                                                                         *)
(* job_id is a uuid; here it is the number of the insertion, which also    *)
(* stands for SQLite's rowid: among the rows present, both grow in         *)
(* insertion order.  One clock serves all processes and never steps back,  *)
(* but an operation reads it before it waits for SQLite's write lock: by   *)
(* the time its transaction runs, its timestamp may be MaxWait old, and    *)
(* older than the timestamps of transactions that ran before.              *)
(* Left out, because no decision of the queue reads them: the payload, the *)
(* result and error texts, the time of the last heartbeat (always          *)
(* lease_expires_at minus the lease) and the maintenance metadata.         *)
(***************************************************************************)
EXTENDS Integers, FiniteSets

CONSTANTS
  Identities,    \* goal identities (goal type, normalised payload and versions)
  Workers,       \* worker ids
  NoWorker,      \* lease_owner IS NULL
  Priorities,    \* priorities callers submit with
  LeaseTime,     \* lease_seconds
  RetryDelay,    \* RETRY_DELAY_SECONDS
  MaxAttempts,   \* max_attempts
  PruneAge,      \* older_than_days
  PruneBatch,    \* MAX_PRUNE_BATCH_SIZE
  MaxWait,       \* the longest wait between timestamp_ms and BEGIN IMMEDIATE
  MaxJobs,       \* bound of the model: rows ever inserted
  MaxTime        \* bound of the model: the last instant of the clock

\* The bounds that _records.positive and validated_priority impose on the
\* configuration and on the callers' priorities.
ASSUME QueueAssumption ==
  /\ NoWorker \notin Workers
  /\ Priorities \subseteq 0..1000
  /\ LeaseTime \in Nat \ {0}
  /\ RetryDelay \in Nat
  /\ MaxAttempts \in Nat \ {0}
  /\ PruneAge \in Nat
  /\ PruneBatch \in Nat \ {0}
  /\ MaxWait \in Nat
  /\ MaxJobs \in Nat
  /\ MaxTime \in Nat

VARIABLES
  clock,    \* the instant
  now,      \* timestamp_ms(None) of the transaction that runs next
  issued,   \* how many jobs were ever inserted: the ids are 1..issued
  job,      \* table provision_job, a function on the ids of its rows
  pruned    \* table pruned_provision_job: id -> final_status

vars == <<clock, now, issued, job, pruned>>

Terminal == {"SUCCEEDED", "FAILED", "CANCELLED"}
Active == {"QUEUED", "RUNNING"}
Status == Active \cup Terminal
Stage == Status \cup {"RETRY_SCHEDULED"}

\* A row of provision_job.  Times are instants of the clock; expires is 0
\* where the column is NULL.
Row == [identity : Identities, status : Status, stage : Stage,
        priority : 0..1000, attempts : Nat,
        owner : Workers \cup {NoWorker}, expires : Nat,
        cancel : {0, 1}, available : Nat, created : Nat, updated : Nat]

JobId == 1..issued

Init ==
  /\ clock = 0
  /\ now = 0
  /\ issued = 0
  /\ job = [i \in {} |-> 0]
  /\ pruned = [i \in {} |-> 0]

----------------------------------------------------------------------------
(* Submission *)

\* The SELECT of submit_or_join: the row another caller of the same identity
\* is joined to.
JoinTarget_QueuedOnly(j, d) == job[j].identity = d /\ job[j].status = "QUEUED"
JoinTarget(j, d) == job[j].identity = d /\ job[j].status \in Active

NewRow(d, p) ==
  [identity |-> d, status |-> "QUEUED", stage |-> "QUEUED", priority |-> p,
   attempts |-> 0, owner |-> NoWorker, expires |-> 0, cancel |-> 0,
   available |-> now, created |-> now, updated |-> now]

\* Only a queued job has its priority raised by a caller that joins it.
JoinedRow(r, p) ==
  IF r.status = "QUEUED"
  THEN [r EXCEPT !.priority = IF p > @ THEN p ELSE @, !.updated = now]
  ELSE r

\* A caller joins the active job of its identity.
Join(d, p) ==
  \E j \in DOMAIN job :
    /\ JoinTarget(j, d)
    /\ job' = [job EXCEPT ![j] = JoinedRow(@, p)]
    /\ UNCHANGED <<clock, now, issued, pruned>>

Insert(d, p) ==
  /\ issued < MaxJobs
  /\ \A j \in DOMAIN job : ~ JoinTarget(j, d)
  /\ issued' = issued + 1
  /\ job' = [i \in DOMAIN job \cup {issued + 1} |->
               IF i = issued + 1 THEN NewRow(d, p) ELSE job[i]]
  /\ UNCHANGED <<clock, now, pruned>>

SubmitOrJoin(d, p) == Join(d, p) \/ Insert(d, p)

\* The command "jobs retry": a failed or cancelled job is submitted again with
\* its own goal and priority.
Retry(j) ==
  /\ j \in DOMAIN job
  /\ job[j].status \in {"FAILED", "CANCELLED"}
  /\ SubmitOrJoin(job[j].identity, job[j].priority)

----------------------------------------------------------------------------
(* Leases *)

ReleasedRow_KeepOwner(r, s) ==
  [r EXCEPT !.status = s, !.stage = s, !.expires = 0, !.updated = now]

\* The columns of a lease that is given up.
ReleasedRow(r, s) ==
  [r EXCEPT !.status = s, !.stage = s, !.owner = NoWorker, !.expires = 0,
            !.updated = now]

Recovered_OneMore(r) ==
  IF r.status = "RUNNING" /\ r.expires <= now
  THEN ReleasedRow(r, IF r.cancel = 1 THEN "CANCELLED"
                      ELSE IF r.attempts > MaxAttempts THEN "FAILED" ELSE "QUEUED")
  ELSE r

Recovered_AnyStatus(r) ==
  IF r.expires <= now
  THEN ReleasedRow(r, IF r.cancel = 1 THEN "CANCELLED"
                      ELSE IF r.attempts >= MaxAttempts THEN "FAILED" ELSE "QUEUED")
  ELSE r

\* What recover_expired makes of a row.
Recovered(r) ==
  IF r.status = "RUNNING" /\ r.expires <= now
  THEN ReleasedRow(r, IF r.cancel = 1 THEN "CANCELLED"
                      ELSE IF r.attempts >= MaxAttempts THEN "FAILED" ELSE "QUEUED")
  ELSE r

RecoverExpired == [i \in DOMAIN job |-> Recovered(job[i])]

RequeueExpired ==
  /\ job' = RecoverExpired
  /\ UNCHANGED <<clock, now, issued, pruned>>

ClaimsBefore_OldestFirst(t, j, k) == j <= k

\* The ORDER BY of claim: priority DESC, created_at ASC, rowid ASC.
ClaimsBefore(t, j, k) ==
  \/ t[j].priority > t[k].priority
  \/ t[j].priority = t[k].priority /\ t[j].created < t[k].created
  \/ t[j].priority = t[k].priority /\ t[j].created = t[k].created /\ j <= k

ClaimCandidates_IgnoreDelay(t) == {j \in DOMAIN t : t[j].status = "QUEUED"}
ClaimCandidates(t) == {j \in DOMAIN t : t[j].status = "QUEUED" /\ t[j].available <= now}

ClaimedRow(r, w) ==
  [r EXCEPT !.status = "RUNNING", !.stage = "RUNNING", !.attempts = @ + 1,
            !.owner = w, !.expires = now + LeaseTime, !.updated = now]

\* claim: expired leases are recovered first, in the same transaction.
Claim(w) ==
  /\ \/ /\ ClaimCandidates(RecoverExpired) = {}
        /\ job' = RecoverExpired
     \/ \E j \in ClaimCandidates(RecoverExpired) :
          /\ \A k \in ClaimCandidates(RecoverExpired) : ClaimsBefore(RecoverExpired, j, k)
          /\ job' = [RecoverExpired EXCEPT ![j] = ClaimedRow(@, w)]
  /\ UNCHANGED <<clock, now, issued, pruned>>

\* The WHERE clause of heartbeat and terminalize.
HoldsLiveLease(j, w) ==
  /\ j \in DOMAIN job
  /\ job[j].status = "RUNNING"
  /\ job[j].owner = w
  /\ job[j].expires > now

Heartbeat(j, w) ==
  /\ HoldsLiveLease(j, w)
  /\ job' = [job EXCEPT ![j] = [@ EXCEPT !.expires = now + LeaseTime, !.updated = now]]
  /\ UNCHANGED <<clock, now, issued, pruned>>

----------------------------------------------------------------------------
(* Terminal transitions: terminalize *)

\* A job asked to be cancelled accepts no other end, and a cancellation is
\* acknowledged only if it was asked for.
CancelFlagMatches_Ignored(j, s) == s # "CANCELLED" \/ job[j].cancel = 1
CancelFlagMatches(j, s) == job[j].cancel = IF s = "CANCELLED" THEN 1 ELSE 0

Terminalize(j, w, s) ==
  /\ HoldsLiveLease(j, w)
  /\ CancelFlagMatches(j, s)
  /\ job' = [job EXCEPT ![j] = ReleasedRow(@, s)]
  /\ UNCHANGED <<clock, now, issued, pruned>>

Complete(j, w) == Terminalize(j, w, "SUCCEEDED")

AcknowledgeCancellation(j, w) == Terminalize(j, w, "CANCELLED")

\* fail(retryable=True) with attempts left: back to the queue, available again
\* after the retry delay.
RetryRow(r) ==
  [ReleasedRow(r, "QUEUED") EXCEPT !.stage = "RETRY_SCHEDULED", !.available = now + RetryDelay]

ScheduleRetry(j, w) ==
  /\ HoldsLiveLease(j, w)
  /\ CancelFlagMatches(j, "FAILED")
  /\ job' = [job EXCEPT ![j] = RetryRow(@)]
  /\ UNCHANGED <<clock, now, issued, pruned>>

Fail(j, w, retryable) ==
  IF retryable /\ j \in DOMAIN job /\ job[j].attempts < MaxAttempts
  THEN ScheduleRetry(j, w)
  ELSE Terminalize(j, w, "FAILED")

\* cancel: a queued job ends at once, a running one is only asked to stop.
CancelledRow_AtOnce(r) == [ReleasedRow(r, "CANCELLED") EXCEPT !.cancel = 1]

CancelledRow(r) ==
  IF r.status = "QUEUED"
  THEN [r EXCEPT !.status = "CANCELLED", !.stage = "CANCELLED", !.cancel = 1, !.updated = now]
  ELSE [r EXCEPT !.cancel = 1, !.updated = now]

Cancel(j) ==
  /\ j \in DOMAIN job
  /\ job[j].status \in Active
  /\ job' = [job EXCEPT ![j] = CancelledRow(@)]
  /\ UNCHANGED <<clock, now, issued, pruned>>

----------------------------------------------------------------------------
(* Retention: prune_terminal *)

PruneCandidates_AnyStatus == {j \in DOMAIN job : job[j].updated < now - PruneAge}
PruneCandidates == {j \in DOMAIN job : job[j].status \in Terminal /\ job[j].updated < now - PruneAge}

\* ORDER BY updated_at_ms LIMIT batch; rows of the same instant come in an
\* order SQLite does not promise.
PruneBatches ==
  {B \in SUBSET PruneCandidates :
     /\ Cardinality(B) <= PruneBatch
     /\ B = PruneCandidates \/ Cardinality(B) = PruneBatch
     /\ \A b \in B, c \in PruneCandidates \ B : job[b].updated <= job[c].updated}

Remove_NoTombstone(gone) ==
  /\ job' = [i \in DOMAIN job \ gone |-> job[i]]
  /\ UNCHANGED pruned

\* The INSERT and the DELETE of every row of the batch that is not retained.
Remove(gone) ==
  /\ pruned' = [i \in DOMAIN pruned \cup gone |->
                  IF i \in gone THEN job[i].status ELSE pruned[i]]
  /\ job' = [i \in DOMAIN job \ gone |-> job[i]]

Prune(retained) ==
  /\ \E B \in PruneBatches : Remove(B \ retained)
  /\ UNCHANGED <<clock, now, issued>>

----------------------------------------------------------------------------

\* The timestamps with which a transaction may run at instant t.
Readings(t) == {r \in 0..t : t <= r + MaxWait}

\* Another caller's operation is the next to get the write lock.
NextReading ==
  /\ now' \in Readings(clock)
  /\ UNCHANGED <<clock, issued, job, pruned>>

Tick ==
  /\ clock < MaxTime
  /\ clock' = clock + 1
  /\ now' \in Readings(clock')
  /\ UNCHANGED <<issued, job, pruned>>

Next ==
  \/ \E d \in Identities, p \in Priorities : SubmitOrJoin(d, p)
  \/ \E j \in JobId : Retry(j) \/ Cancel(j)
  \/ \E w \in Workers : Claim(w)
  \/ \E j \in JobId, w \in Workers :
       \/ Heartbeat(j, w)
       \/ Complete(j, w)
       \/ AcknowledgeCancellation(j, w)
       \/ \E retryable \in BOOLEAN : Fail(j, w, retryable)
  \/ RequeueExpired
  \/ \E retained \in SUBSET JobId : Prune(retained)
  \/ NextReading
  \/ Tick

Spec == Init /\ [][Next]_vars

----------------------------------------------------------------------------
(* Properties *)

\* Every table entry has the columns and value ranges of CREATE_SCHEMA_SQL.
TypeOK ==
  /\ clock \in Nat
  /\ now \in Nat /\ now <= clock
  /\ issued \in Nat
  /\ DOMAIN job \subseteq JobId
  /\ job \in [DOMAIN job -> Row]
  /\ DOMAIN pruned \subseteq JobId
  /\ pruned \in [DOMAIN pruned -> Terminal]

\* Whatever callers, retries, recoveries and prunes do, no two jobs of one goal
\* identity are queued or running together: the unique index
\* active_provision_job_identity never has to reject a statement.
OneActiveJobPerIdentity ==
  \A i, j \in DOMAIN job :
    job[i].status \in Active /\ job[j].status \in Active /\ job[i].identity = job[j].identity
      => i = j

\* claim never hands out more than max_attempts leases of one job, and a job in
\* the queue always has an attempt left, whether its last lease expired, its
\* last failure was retryable or it was never claimed.
AttemptsBounded ==
  \A j \in DOMAIN job :
    /\ job[j].attempts <= MaxAttempts
    /\ job[j].status = "QUEUED" => job[j].attempts < MaxAttempts
    /\ job[j].status = "RUNNING" => job[j].attempts > 0

\* Exactly the running jobs carry a lease, and a lease never lasts longer than
\* lease_seconds from this instant: a dead worker's job is recoverable within one lease.
LeaseMatchesStatus ==
  \A j \in DOMAIN job :
    /\ job[j].status = "RUNNING" <=> job[j].owner # NoWorker
    /\ job[j].expires <= clock + LeaseTime

\* Once cancellation of a job is requested, the job is running or cancelled: it
\* neither succeeds, nor fails, nor goes back to the queue, even when the lease
\* expires or a late worker reports its result; and nothing else cancels a job.
CancellationWins ==
  \A j \in DOMAIN job :
    /\ job[j].cancel = 1 => job[j].status \in {"RUNNING", "CANCELLED"}
    /\ job[j].status = "CANCELLED" => job[j].cancel = 1

\* Every job id ever returned to a caller is answered by "jobs status": it is a
\* row or a tombstone, never both and never lost.
NoJobForgotten ==
  /\ DOMAIN job \cup DOMAIN pruned = JobId
  /\ DOMAIN job \cap DOMAIN pruned = {}

\* A job that reached a terminal status keeps it for ever: a late completion,
\* an expiry, a cancel or a retry never changes it, and pruning keeps it in the
\* tombstone.
TerminalIsFinal ==
  [][\A j \in DOMAIN job :
       job[j].status \in Terminal =>
         \/ j \in DOMAIN job' /\ job'[j].status = job[j].status
         \/ j \notin DOMAIN job' /\ j \in DOMAIN pruned' /\ pruned'[j] = job[j].status]_vars

\* While a lease is live (claim, recover_expired, cancel, prune_terminal), however old
\* the timestamp of a transaction, its job is not given to another worker, does not
\* return to the queue but as a scheduled retry, and is not cancelled unasked. Who
\* renews a lease or reports a result a row does not show.
LiveLeaseIsExclusive ==
  [][\A j \in DOMAIN job :
       job[j].status = "RUNNING" /\ job[j].expires > clock =>
         /\ j \in DOMAIN job'
         /\ job'[j].owner \in {job[j].owner, NoWorker}
         /\ job'[j].status = "QUEUED" => job'[j].stage = "RETRY_SCHEDULED"
         /\ job'[j].status = "CANCELLED" => job[j].cancel = 1]_vars

\* A claim takes the job whose turn it is: not a retry whose delay is not over,
\* whoever joined the job or recovered other leases meanwhile, and no job while
\* one of higher priority, or of the same priority and submitted earlier, is
\* available - including the jobs whose leases the same claim just recovered.
ClaimFollowsPriority ==
  [][\A j \in DOMAIN job \cap DOMAIN job' :
       job'[j].attempts > job[j].attempts =>
         /\ job[j].stage = "RETRY_SCHEDULED" => job[j].available <= clock
         /\ \A k \in DOMAIN job \cap DOMAIN job' :
              job'[k].status = "QUEUED" /\ job'[k].available <= now =>
                \/ job'[j].priority > job'[k].priority
                \/ job'[j].priority = job'[k].priority /\ job[j].created <= job[k].created]_vars

============================================================================
