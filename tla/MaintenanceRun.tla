--------------------------- MODULE MaintenanceRun ---------------------------
(***************************************************************************)
(* One market-maintenance run: its ledger in the DuckDB warehouse (tables  *)
(* maintenance_run and maintenance_run_job), its jobs in the SQLite queue, *)
(* and the processes that move it: producers (maintenance/producer.py),    *)
(* the provisioner, a single process because of its flock                  *)
(* (ProvisioningWorker), the operator's "maintain finalize", "jobs         *)
(* cancel", "jobs retry" and "jobs prune", and other callers of the queue. *)
(*                                                                         *)
(* A warehouse transaction holds the writer lock from its first statement  *)
(* to its commit and is one action; a queue operation is one action; they  *)
(* are not atomic together.  Of a job only its goal, its end and whether   *)
(* it carries the run's origin and correlation id matter here; what the    *)
(* stages of the finalization job record is in SessionFinalizer.           *)
(***************************************************************************)
EXTENDS Integers, Sequences, FiniteSets, FiniteSetsExt

CONSTANTS
  Producers,        \* processes that may produce or resume the run
  MaxGoals,         \* bound of the model: acquisition goals of the run
  MaxJobs,          \* bound of the model: jobs others and retries may add up to
  MaxInterruptions  \* bound of the model: crashes

ASSUME MaintenanceAssumption ==
  /\ MaxGoals \in Nat
  /\ MaxJobs \in Nat
  /\ MaxInterruptions \in Nat

VARIABLES
  status,    \* maintenance_run.status, "none" before the run exists
  expected,  \* how many goals are expected_goals_json
  goalJob,   \* maintenance_run_job: the job of each acquisition goal, 0 for NULL
  finJob,    \* maintenance_run_job: the finalization job, 0 without a row
  jobs,      \* the queue's jobs in the order of insertion
  prod,      \* the producers
  worker,    \* the provisioner
  pruning,   \* rows a running "jobs prune" may drop by the mappings it has read
  interruptions

ledger == <<status, expected, goalJob, finJob>>
vars == <<ledger, jobs, prod, worker, pruning, interruptions>>

Fin == 0  \* the goal FINALIZE_MARKET_SESSION

\* No decision here tells FAILED from CANCELLED, nor the results SUCCESS, PARTIAL
\* and FAILED of a run from each other: "FAILED" and "CLOSED" stand for them.
Ended == {"SUCCEEDED", "FAILED"}
RunState == {"ENQUEUING", "ACQUIRING", "FINALIZATION_QUEUED", "FINALIZING", "CLOSED"}

OffProducer == [pc |-> "off", goal |-> 0, job |-> 0, enqueuing |-> FALSE]
IdleWorker == [pc |-> "idle", job |-> 0]

Init ==
  /\ status = "none"
  /\ expected = 0
  /\ goalJob = [g \in 1..MaxGoals |-> 0]
  /\ finJob = 0
  /\ jobs = <<>>
  /\ prod = [p \in Producers |-> OffProducer]
  /\ worker = IdleWorker
  /\ pruning = {}
  /\ interruptions = 0

----------------------------------------------------------------------------
(* The queue, as ProvisioningQueue provides it *)

\* submit_or_join, returning j.
SubmitOrJoin(g, own, j) ==
  LET active == {i \in DOMAIN jobs : jobs[i].goal = g /\ jobs[i].state = "ACTIVE"}
  IN  IF active # {}
      THEN j \in active /\ UNCHANGED jobs
      ELSE /\ j = Len(jobs) + 1
           /\ jobs' = Append(jobs, [goal |-> g, state |-> "ACTIVE", own |-> own])

Returned == 1..(Len(jobs) + 1)

EndAs(j, s) == jobs' = [jobs EXCEPT ![j].state = s]

\* find_by_identity: the newest row with the run's origin and correlation id.
FoundJobs(g) == {i \in DOMAIN jobs : jobs[i].goal = g /\ jobs[i].own /\ jobs[i].state # "PRUNED"}

----------------------------------------------------------------------------
(* MaintenanceProducer.produce *)

At(p, l) == prod[p].pc = l

\* The producer p goes on as r.
Becomes(p, r) == prod' = [prod EXCEPT ![p] = r]

\* _prepare_run: one transaction writes the run and a mapping row per goal that
\* is not ready yet; there may be none.
CreateRun(p) ==
  /\ At(p, "off")
  /\ status = "none"
  /\ status' = "ENQUEUING"
  /\ expected' \in 0..MaxGoals
  /\ Becomes(p, [prod[p] EXCEPT !.pc = "look", !.goal = 1, !.enqueuing = TRUE])
  /\ UNCHANGED <<goalJob, finJob, jobs, worker, pruning, interruptions>>

\* _resumed_scope: the status read here is the one compared at the end.
ResumeRun(p) ==
  /\ At(p, "off")
  /\ status # "none"
  /\ Becomes(p, [prod[p] EXCEPT !.pc = "look", !.goal = 1, !.enqueuing = status = "ENQUEUING"])
  /\ UNCHANGED <<ledger, jobs, worker, pruning, interruptions>>

LookUpMapping_OffByOne(p) ==
  /\ At(p, "look")
  /\ LET g == prod[p].goal
     IN Becomes(p, IF g > expected + 1 THEN [prod[p] EXCEPT !.pc = "finish"]
                   ELSE IF g <= expected /\ goalJob[g] # 0 THEN [prod[p] EXCEPT !.goal = @ + 1]
                   ELSE [prod[p] EXCEPT !.pc = "find"])
  /\ UNCHANGED <<ledger, jobs, worker, pruning, interruptions>>

\* _mapped_job of the next goal.
LookUpMapping(p) ==
  /\ At(p, "look")
  /\ LET g == prod[p].goal
     IN Becomes(p, IF g > expected THEN [prod[p] EXCEPT !.pc = "finish"]
                   ELSE IF goalJob[g] # 0 THEN [prod[p] EXCEPT !.goal = @ + 1]
                   ELSE [prod[p] EXCEPT !.pc = "find"])
  /\ UNCHANGED <<ledger, jobs, worker, pruning, interruptions>>

FindSubmitted_Never(p) ==
  /\ At(p, "find")
  /\ Becomes(p, [prod[p] EXCEPT !.pc = "submit"])
  /\ UNCHANGED <<ledger, jobs, worker, pruning, interruptions>>

\* A job submitted by an earlier pass that did not come to map it is found.
FindSubmitted(p) ==
  /\ At(p, "find")
  /\ LET found == FoundJobs(prod[p].goal)
     IN Becomes(p, IF found # {} THEN [prod[p] EXCEPT !.pc = "map", !.job = Max(found)]
                   ELSE [prod[p] EXCEPT !.pc = "submit"])
  /\ UNCHANGED <<ledger, jobs, worker, pruning, interruptions>>

SubmitGoal(p) ==
  /\ At(p, "submit")
  /\ \E j \in Returned :
       /\ SubmitOrJoin(prod[p].goal, TRUE, j)
       /\ Becomes(p, [prod[p] EXCEPT !.pc = "map", !.job = j])
  /\ UNCHANGED <<ledger, worker, pruning, interruptions>>

NewMapping_Overwrite(g, j) == goalJob' = [goalJob EXCEPT ![g] = j]

\* UPDATE ... WHERE job_id IS NULL.
NewMapping(g, j) == goalJob' = [goalJob EXCEPT ![g] = IF @ = 0 THEN j ELSE @]

MapJob(p) ==
  /\ At(p, "map")
  /\ NewMapping(prod[p].goal, prod[p].job)
  /\ Becomes(p, [prod[p] EXCEPT !.pc = "look", !.goal = @ + 1, !.job = 0])
  /\ UNCHANGED <<status, expected, finJob, jobs, worker, pruning, interruptions>>

\* The end of produce: _set_state does not look at the present status.
FinishProduce(p) ==
  /\ At(p, "finish")
  /\ status' = IF prod[p].enqueuing THEN "ACQUIRING" ELSE status
  /\ Becomes(p, OffProducer)
  /\ UNCHANGED <<expected, goalJob, finJob, jobs, worker, pruning, interruptions>>

CrashProducer(p) ==
  /\ ~ At(p, "off")
  /\ interruptions < MaxInterruptions
  /\ interruptions' = interruptions + 1
  /\ Becomes(p, OffProducer)
  /\ UNCHANGED <<ledger, jobs, worker, pruning>>

----------------------------------------------------------------------------
(* maybe_submit_session_finalization *)

Acquired_AnyEnd ==
  /\ expected = 0 \/ \E g \in 1..expected : goalJob[g] # 0
  /\ \A g \in 1..expected : goalJob[g] # 0 => jobs[goalJob[g]].state \in Ended

Acquired_StillActive == \A g \in 1..expected : goalJob[g] # 0

Acquired_SucceededOnly ==
  \A g \in 1..expected : goalJob[g] # 0 /\ jobs[goalJob[g]].state = "SUCCEEDED"

\* Every expected goal is mapped to a job that still has a row and has ended.
Acquired == \A g \in 1..expected : goalJob[g] # 0 /\ jobs[goalJob[g]].state \in Ended

\* The submission goes to the queue before the transaction commits.
MaybeSubmit ==
  IF Acquired /\ finJob = 0
  THEN /\ \E j \in Returned : SubmitOrJoin(Fin, FALSE, j) /\ finJob' = j
       /\ status' = "FINALIZATION_QUEUED"
       /\ UNCHANGED <<expected, goalJob>>
  ELSE UNCHANGED <<ledger, jobs>>

\* The process dies after the submission: the transaction rolls back.
SubmitWithoutCommit ==
  /\ Acquired /\ finJob = 0
  /\ interruptions < MaxInterruptions
  /\ interruptions' = interruptions + 1
  /\ \E j \in Returned : SubmitOrJoin(Fin, FALSE, j)
  /\ UNCHANGED ledger

\* "maintain finalize", for this run or for all that are ACQUIRING.
RecoverFinalization ==
  /\ status # "none"
  /\ MaybeSubmit
  /\ UNCHANGED <<prod, worker, pruning, interruptions>>

CrashRecovery ==
  /\ status # "none"
  /\ SubmitWithoutCommit
  /\ UNCHANGED <<prod, worker, pruning>>

----------------------------------------------------------------------------
(* The provisioner *)

WorkerAt(l) == worker.pc = l

\* An acquisition job is claimed, run and reported (ProvisioningWorker).
EndAcquisition(j) ==
  /\ WorkerAt("idle")
  /\ jobs[j].state = "ACTIVE" /\ jobs[j].goal # Fin
  /\ \E s \in Ended : EndAs(j, s)
  /\ worker' = [pc |-> "ended", job |-> j]
  /\ UNCHANGED <<ledger, prod, pruning, interruptions>>

\* maybe_submit_finalization_for_terminal_job: first the runs the job belongs
\* to are read, then each is examined in a transaction of its own.
SelectRuns ==
  /\ WorkerAt("ended")
  /\ worker' = IF \E g \in 1..expected : goalJob[g] = worker.job
               THEN [worker EXCEPT !.pc = "submitting"] ELSE IdleWorker
  /\ UNCHANGED <<ledger, jobs, prod, pruning, interruptions>>

TriggerFinalization ==
  /\ WorkerAt("submitting")
  /\ MaybeSubmit
  /\ worker' = IdleWorker
  /\ UNCHANGED <<prod, pruning, interruptions>>

CrashTrigger ==
  /\ WorkerAt("submitting")
  /\ SubmitWithoutCommit
  /\ worker' = IdleWorker
  /\ UNCHANGED <<prod, pruning>>

StartFinalization(j) ==
  /\ WorkerAt("idle")
  /\ jobs[j].state = "ACTIVE" /\ jobs[j].goal = Fin
  /\ worker' = [pc |-> "final", job |-> j]
  /\ UNCHANGED <<ledger, jobs, prod, pruning, interruptions>>

\* A stage of the finalization job; the statuses a stage may write are those of
\* SessionFinalizer, and a stage that reuses its earlier result writes none.
FinalizationStage ==
  /\ WorkerAt("final")
  /\ status' \in {"FINALIZING", "CLOSED"}
  /\ UNCHANGED <<expected, goalJob, finJob, jobs, prod, worker, pruning, interruptions>>

\* complete, fail, or the acknowledgement of a cancellation.  The trigger that
\* follows looks at acquisition mappings only.
EndFinalization ==
  /\ WorkerAt("final")
  /\ \E s \in Ended : EndAs(worker.job, s)
  /\ worker' = IdleWorker
  /\ UNCHANGED <<ledger, prod, pruning, interruptions>>

\* A crash, a stop request or a lost lease: the job goes back to the queue.
CrashWorker ==
  /\ ~ WorkerAt("idle")
  /\ interruptions < MaxInterruptions
  /\ interruptions' = interruptions + 1
  /\ worker' = IdleWorker
  /\ UNCHANGED <<ledger, jobs, prod, pruning>>

----------------------------------------------------------------------------
(* The operator and the other users of queue and warehouse *)

\* A queued job is cancelled, or the recovery of its lease finds the attempt
\* limit reached: it ends and nobody looks at the runs it belongs to.
EndSilently(j) ==
  /\ jobs[j].state = "ACTIVE"
  /\ worker.job # j
  /\ EndAs(j, "FAILED")
  /\ UNCHANGED <<ledger, prod, worker, pruning, interruptions>>

\* "jobs retry" keeps goal, origin and correlation id.
RetryJob(j) ==
  /\ jobs[j].state = "FAILED"
  /\ Len(jobs) < MaxJobs
  /\ \E i \in Returned : SubmitOrJoin(jobs[j].goal, jobs[j].own, i)
  /\ UNCHANGED <<ledger, prod, worker, pruning, interruptions>>

\* An interactive caller wants what one of the run's goals wants.
SubmitElsewhere(g) ==
  /\ Len(jobs) < MaxJobs
  /\ \E i \in Returned : SubmitOrJoin(g, FALSE, i)
  /\ UNCHANGED <<ledger, prod, worker, pruning, interruptions>>

MappedJobs == ({goalJob[g] : g \in 1..MaxGoals} \cup {finJob}) \ {0}

\* "jobs prune": the mapped ids are read from the warehouse, then the queue drops
\* the old rows that are not among them.  The age limit is days and the command
\* takes less: a row it drops had ended before it started.
ReadRetained ==
  /\ pruning = {}
  /\ status # "none"
  /\ pruning' = {j \in DOMAIN jobs : jobs[j].state \in Ended} \ MappedJobs
  /\ UNCHANGED <<ledger, jobs, prod, worker, interruptions>>

PruneJobs ==
  /\ pruning # {}
  /\ \E batch \in SUBSET pruning :
       jobs' = [j \in DOMAIN jobs |->
                  IF j \in batch THEN [jobs[j] EXCEPT !.state = "PRUNED"] ELSE jobs[j]]
  /\ pruning' = {}
  /\ UNCHANGED <<ledger, prod, worker, interruptions>>

----------------------------------------------------------------------------

ProducerStep(p) ==
  \/ CreateRun(p) \/ ResumeRun(p) \/ LookUpMapping(p) \/ FindSubmitted(p)
  \/ SubmitGoal(p) \/ MapJob(p) \/ FinishProduce(p)

WorkerStep ==
  \/ \E j \in DOMAIN jobs : EndAcquisition(j) \/ StartFinalization(j)
  \/ SelectRuns \/ TriggerFinalization \/ EndFinalization

RunNext ==
  \/ \E p \in Producers : ProducerStep(p) \/ CrashProducer(p)
  \/ WorkerStep \/ FinalizationStage \/ CrashWorker \/ CrashTrigger
  \/ RecoverFinalization \/ CrashRecovery
  \/ \E j \in DOMAIN jobs : EndSilently(j) \/ RetryJob(j)
  \/ \E g \in 1..expected : SubmitElsewhere(g)

Next == RunNext \/ ReadRetained \/ PruneJobs

Spec == Init /\ [][Next]_vars

\* Without pruning, with processes that run when they can, a producer that is
\* run again after a crash and an operator who repeats "maintain finalize".
FairSpec ==
  /\ Init /\ [][RunNext]_vars
  /\ \A p \in Producers : WF_vars(ProducerStep(p))
  /\ WF_vars(WorkerStep)
  /\ WF_vars(RecoverFinalization)

----------------------------------------------------------------------------
(* Properties *)

\* Ledger, queue and processes hold values the code can write.
TypeOK ==
  /\ status \in RunState \cup {"none"}
  /\ expected \in 0..MaxGoals
  /\ goalJob \in [1..MaxGoals -> 0..Len(jobs)]
  /\ finJob \in 0..Len(jobs)
  /\ \A j \in DOMAIN jobs : jobs[j] \in [goal : 0..expected, state : Ended \cup {"ACTIVE", "PRUNED"}, own : BOOLEAN]
  /\ prod \in [Producers -> [pc : {"off", "look", "find", "submit", "map", "finish"},
                             goal : 0..(expected + 1), job : 0..Len(jobs), enqueuing : BOOLEAN]]
  /\ worker \in [pc : {"idle", "ended", "submitting", "final"}, job : 0..Len(jobs)]
  /\ pruning \subseteq DOMAIN jobs
  /\ interruptions \in 0..MaxInterruptions

\* A finalization job exists only when every expected goal of the run is mapped
\* to a job that is no longer active: no trigger, recovery, crash or resumed
\* producer lets finalization start over unfinished acquisition.
FinalizationAfterAcquisition ==
  (\E j \in DOMAIN jobs : jobs[j].goal = Fin) =>
    \A g \in 1..expected : goalJob[g] # 0 /\ jobs[goalJob[g]].state # "ACTIVE"

\* What is always true of a run, its jobs and its processes
\* (maybe_submit_session_finalization).
MaintenanceInvariant == FinalizationAfterAcquisition /\ TypeOK

\* A job once recorded for a goal of the run stays its job, whatever a second
\* producer, a retry or a resubmission does: the run's evidence is stable.
MappingsAreStable ==
  [][/\ \A g \in 1..MaxGoals : goalJob[g] # 0 => goalJob'[g] = goalJob[g]
     /\ finJob # 0 => finJob' = finJob]_vars

\* A producer that resumes an interrupted run submits only what is missing: it
\* inserts no job for a goal it has submitted before.
SubmitsOnlyMissing ==
  [][\A p \in Producers :
       At(p, "submit") /\ Len(jobs') > Len(jobs) /\ prod'[p].pc = "map"
         => FoundJobs(prod[p].goal) = {}]_vars

\* Every run gets its finalization job and that job ends, even when the trigger
\* was lost, a job ended silently or the run had nothing to acquire.
RunIsFinalized ==
  (status # "none") ~> (finJob # 0 /\ jobs[finJob].state \in Ended)

\* "ENQUEUING -> ACQUIRING -> FINALIZATION_QUEUED -> FINALIZING": a run whose
\* finalization was queued never goes back to ACQUIRING.
NeverBackToAcquiring ==
  [][status \notin {"none", "ENQUEUING", "ACQUIRING"} => status' # "ACQUIRING"]_vars

\* Pruning retains all maintenance-linked jobs.
MappedJobsAreRetained == \A j \in MappedJobs : jobs[j].state # "PRUNED"

============================================================================
