------------------------------ MODULE JobQueue ------------------------------
(***************************************************************************)
(* What the provisioning queue promises its users, without a clock and     *)
(* without priorities: a lease is live until it is not, a job is ready     *)
(* once its delay is over, and a claim may take any ready job.             *)
(* ProvisioningQueue implements this specification (QueueRefinement); the  *)
(* worker is composed with it instead of with the clocked tables.          *)
(***************************************************************************)
EXTENDS Integers, FiniteSets

CONSTANTS
  Identities,    \* goal identities
  Workers,       \* worker ids
  NoWorker,      \* no lease owner
  MaxAttempts,   \* leases a job may be given
  MaxJobs        \* bound of the model: rows ever inserted

ASSUME JobQueueAssumption ==
  /\ NoWorker \notin Workers
  /\ MaxAttempts \in Nat \ {0}
  /\ MaxJobs \in Nat

VARIABLES
  count,   \* jobs ever inserted: their ids are 1..count
  row,     \* the jobs that still have a row, a function on their ids
  tomb     \* final status of the pruned ones

queueVars == <<count, row, tomb>>

Ended == {"SUCCEEDED", "FAILED", "CANCELLED"}

\* live: the lease has not expired; ready: no retry delay is running.
Rows == [identity : Identities, status : {"QUEUED", "RUNNING"} \cup Ended,
         attempts : 0..MaxAttempts, owner : Workers \cup {NoWorker},
         live : {0, 1}, ready : {0, 1}, cancel : {0, 1}]

QueueInit ==
  /\ count = 0
  /\ row = [i \in {} |-> 0]
  /\ tomb = [i \in {} |-> 0]

IsActive(j) == row[j].status \in {"QUEUED", "RUNNING"}

FreshJob(d) ==
  [identity |-> d, status |-> "QUEUED", attempts |-> 0, owner |-> NoWorker,
   live |-> 0, ready |-> 1, cancel |-> 0]

\* A caller gets the active job of its identity, or a new one.
Submit(d) ==
  IF \E j \in DOMAIN row : row[j].identity = d /\ IsActive(j)
  THEN UNCHANGED queueVars
  ELSE /\ count < MaxJobs
       /\ count' = count + 1
       /\ row' = [i \in DOMAIN row \cup {count + 1} |->
                    IF i = count + 1 THEN FreshJob(d) ELSE row[i]]
       /\ UNCHANGED tomb

\* Giving up a lease.
Release(r, s) == [r EXCEPT !.status = s, !.owner = NoWorker, !.live = 0]

AfterExpiry_OneMore(r) ==
  IF r.status = "RUNNING" /\ r.live = 0
  THEN Release(r, IF r.cancel = 1 THEN "CANCELLED"
                  ELSE IF r.attempts > MaxAttempts THEN "FAILED" ELSE "QUEUED")
  ELSE r

AfterExpiry_SkipCancelled(r) ==
  IF r.status = "RUNNING" /\ r.live = 0 /\ r.cancel = 0
  THEN Release(r, IF r.attempts >= MaxAttempts THEN "FAILED" ELSE "QUEUED")
  ELSE r

\* A lease that is no longer live ends as cancelled, as failed or in the queue.
AfterExpiry(r) ==
  IF r.status = "RUNNING" /\ r.live = 0
  THEN Release(r, IF r.cancel = 1 THEN "CANCELLED"
                  ELSE IF r.attempts >= MaxAttempts THEN "FAILED" ELSE "QUEUED")
  ELSE r

AfterRecovery == [i \in DOMAIN row |-> AfterExpiry(row[i])]

RecoverLeases ==
  /\ row' = AfterRecovery
  /\ UNCHANGED <<count, tomb>>

ReadyJobs == {i \in DOMAIN row : AfterRecovery[i].status = "QUEUED" /\ row[i].ready = 1}

\* A claim recovers expired leases; it returns nothing only if nothing is ready.
ClaimNothing ==
  /\ ReadyJobs = {}
  /\ RecoverLeases

\* A job that is handed to w.
Leased(r, w) ==
  [r EXCEPT !.status = "RUNNING", !.attempts = @ + 1, !.owner = w, !.live = 1]

ClaimJob(w, j) ==
  /\ j \in ReadyJobs
  /\ row' = [AfterRecovery EXCEPT ![j] = Leased(@, w)]
  /\ UNCHANGED <<count, tomb>>

HasLiveLease(j, w) ==
  /\ j \in DOMAIN row
  /\ row[j].status = "RUNNING" /\ row[j].owner = w /\ row[j].live = 1

\* Only the holder of a live lease ends a running job, and only in the way the
\* cancellation flag allows.
MayEnd(j, w, s) ==
  /\ HasLiveLease(j, w)
  /\ row[j].cancel = IF s = "CANCELLED" THEN 1 ELSE 0

EndJob(j, w, s) ==
  /\ MayEnd(j, w, s)
  /\ row' = [row EXCEPT ![j] = Release(@, s)]
  /\ UNCHANGED <<count, tomb>>

\* A failure that is tried again later.
PostponeJob(j, w) ==
  /\ HasLiveLease(j, w)
  /\ row[j].cancel = 0
  /\ row[j].attempts < MaxAttempts
  /\ \E later \in {0, 1} :
       row' = [row EXCEPT ![j] = [Release(@, "QUEUED") EXCEPT !.ready = later]]
  /\ UNCHANGED <<count, tomb>>

CancelJob(j) ==
  /\ j \in DOMAIN row
  /\ IsActive(j)
  /\ row' = [row EXCEPT ![j] = IF row[j].status = "QUEUED"
                               THEN [@ EXCEPT !.status = "CANCELLED", !.cancel = 1]
                               ELSE [@ EXCEPT !.cancel = 1]]
  /\ UNCHANGED <<count, tomb>>

\* Ended jobs may be replaced by their tombstones.
ForgetJobs(gone) ==
  /\ \A j \in gone : j \in DOMAIN row /\ row[j].status \in Ended
  /\ row' = [i \in DOMAIN row \ gone |-> row[i]]
  /\ tomb' = [i \in DOMAIN tomb \cup gone |-> IF i \in gone THEN row[i].status ELSE tomb[i]]
  /\ UNCHANGED count

\* Time passes: any leases lapse and any delays end.
TimePasses(lapsed, due) ==
  /\ row' = [i \in DOMAIN row |->
               [row[i] EXCEPT !.live = IF i \in lapsed THEN 0 ELSE @,
                              !.ready = IF i \in due THEN 1 ELSE @]]
  /\ UNCHANGED <<count, tomb>>

QueueNext ==
  \/ \E d \in Identities : Submit(d)
  \/ RecoverLeases
  \/ ClaimNothing
  \/ \E w \in Workers, j \in 1..count : ClaimJob(w, j) \/ PostponeJob(j, w)
  \/ \E w \in Workers, j \in 1..count, s \in Ended : EndJob(j, w, s)
  \/ \E j \in 1..count : CancelJob(j)
  \/ \E gone \in SUBSET (1..count) : ForgetJobs(gone)
  \/ \E lapsed, due \in SUBSET (1..count) : TimePasses(lapsed, due)

QueueSpec == QueueInit /\ [][QueueNext]_queueVars

============================================================================
