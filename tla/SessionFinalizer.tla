-------------------------- MODULE SessionFinalizer --------------------------
(***************************************************************************)
(* The stages of the finalization job of a maintenance run                 *)
(* (maintenance/session_finalizer.py): the rows of                         *)
(* maintenance_finalization_stage and the run status they lead to, over    *)
(* interrupted, failed and retried attempts and over the duplicate job a   *)
(* lost mapping leaves behind.  Each stage is one warehouse transaction;   *)
(* between two stages the warehouse is open to every other writer.         *)
(***************************************************************************)
EXTENDS Integers

CONSTANTS Last   \* number of stages: coverage is 1, the result is Last (7 in the code)

ASSUME FinalizerAssumption == Last \in Nat /\ Last > 2

VARIABLES
  status,    \* maintenance_run.status
  stageRow,  \* the row of each stage and the evidence it was built on
  eligible,  \* how much of the frozen universe has canonical evidence
  benchmark, \* the benchmark has it
  attempt,   \* the provisioner at work on a finalization job
  open       \* a finalization job of the run is queued or running

vars == <<status, stageRow, eligible, benchmark, attempt, open>>

Required == 2..(Last - 1)   \* DEFAULT_FINALIZATION_POLICY.required_stages
Outcomes == Last - 1        \* stands for the stages that may be SKIPPED
Closed == {"SUCCESS", "PARTIAL", "FAILED"}
Evidence == {"none", "some", "all"}   \* below the policy's minimum, above it, complete
NoRow == [status |-> "none", covers |-> "none"]
NoAttempt == [pc |-> "off", stage |-> 0]

\* The job is queued by maybe_submit_session_finalization.
Init ==
  /\ status = "FINALIZATION_QUEUED"
  /\ stageRow = [k \in 1..Last |-> NoRow]
  /\ eligible \in Evidence /\ benchmark \in BOOLEAN
  /\ attempt = NoAttempt
  /\ open = TRUE

\* The provisioner claims the job, for the first time or again.
Start ==
  /\ open
  /\ attempt = NoAttempt
  /\ attempt' = [pc |-> "stage", stage |-> 1]
  /\ UNCHANGED <<status, stageRow, eligible, benchmark, open>>

CoverageResult_NoMinimum ==
  IF ~ benchmark THEN "FAILED" ELSE IF eligible = "all" THEN "SUCCESS" ELSE "PARTIAL"

\* _coverage_stage
CoverageResult ==
  IF ~ benchmark \/ eligible = "none" THEN "FAILED"
  ELSE IF eligible = "some" THEN "PARTIAL" ELSE "SUCCESS"

Recorded == {stageRow[k].status : k \in Required}

ResultStatus_IgnorePartial ==
  IF "FAILED" \in Recorded THEN "FAILED" ELSE IF eligible # "all" THEN "PARTIAL" ELSE "SUCCESS"

\* _result_stage: from the rows of the required stages and today's evidence.
ResultStatus ==
  IF "FAILED" \in Recorded THEN "FAILED"
  ELSE IF "PARTIAL" \in Recorded \/ eligible # "all" THEN "PARTIAL" ELSE "SUCCESS"

StageResults(k) ==
  IF k = 1 THEN {CoverageResult}
  ELSE IF k = Last THEN {ResultStatus}
  ELSE IF k = Outcomes THEN Closed \cup {"SKIPPED"} ELSE Closed

\* FINALIZING by the coverage stage, the result by the last one, FAILED by any
\* stage that fails.
StatusAfter(k, r) ==
  IF r = "FAILED" THEN r
  ELSE IF k = 1 THEN "FINALIZING"
  ELSE IF k = Last THEN r ELSE status

\* _coverage_is_sufficient: what the coverage row must say for the other stages to run.
Sufficient == {"SUCCESS", "PARTIAL"}

\* No stage runs without recorded sufficient coverage.
Blocked(k) == k # 1 /\ stageRow[1].status \notin Sufficient

Reused_Never(k) == FALSE

\* A stage recorded as SUCCESS is not run again.
Reused(k) == stageRow[k].status = "SUCCESS"

NextStage == [attempt EXCEPT !.stage = @ + 1]
Failing == [attempt EXCEPT !.pc = "failing"]

RefuseStage ==
  /\ Blocked(attempt.stage)
  /\ attempt' = Failing
  /\ UNCHANGED <<status, stageRow>>

ReuseStage ==
  /\ ~ Blocked(attempt.stage)
  /\ Reused(attempt.stage)
  /\ attempt' = NextStage
  /\ UNCHANGED <<status, stageRow>>

\* The evidence a stage builds on; for the coverage stage alone the benchmark is part of it.
Found(k) == IF k = 1 /\ ~ benchmark THEN "none" ELSE eligible

BuildStage(k) ==
  /\ ~ Blocked(k)
  /\ ~ Reused(k)
  /\ \E r \in StageResults(k) :
       /\ stageRow' = [stageRow EXCEPT ![k] = [status |-> r, covers |-> Found(k)]]
       /\ status' = StatusAfter(k, r)
       /\ attempt' = IF r = "FAILED" THEN Failing ELSE NextStage

\* SessionFinalizer.execute in the transaction of its stage.
Execute ==
  /\ attempt.pc = "stage" /\ attempt.stage <= Last
  /\ RefuseStage \/ ReuseStage \/ BuildStage(attempt.stage)
  /\ UNCHANGED <<eligible, benchmark, open>>

\* The job ends: all stages done, one failed, or cancelled at a boundary.
EndJob ==
  /\ attempt # NoAttempt
  /\ attempt' = NoAttempt
  /\ open' = FALSE
  /\ UNCHANGED <<status, stageRow, eligible, benchmark>>

\* A crash, a stop request or a lost lease: the job is claimed again later.
Interrupt ==
  /\ attempt # NoAttempt
  /\ attempt' = NoAttempt
  /\ UNCHANGED <<status, stageRow, eligible, benchmark, open>>

\* "jobs retry" of a failed or cancelled job, or the submission that follows an
\* unmapped one: the same goal is queued once more, the second with its status.
SubmitAgain ==
  /\ ~ open
  /\ open' = TRUE
  /\ status' \in {status, "FINALIZATION_QUEUED"}
  /\ UNCHANGED <<stageRow, eligible, benchmark, attempt>>

\* A writer of the warehouse builds canonical bars or deletes them: a build drops the bar
\* whose evidence no longer stands (delete_canonical_bar).
EvidenceChanges ==
  /\ eligible' \in Evidence /\ benchmark' \in BOOLEAN
  /\ UNCHANGED <<status, stageRow, attempt, open>>

\* MaintenanceProducer._set_state of a producer that comes late.
LateProducer ==
  /\ status' = "ACQUIRING"
  /\ UNCHANGED <<stageRow, eligible, benchmark, attempt, open>>

Next ==
  \/ Start \/ Execute \/ EndJob \/ Interrupt \/ SubmitAgain \/ EvidenceChanges \/ LateProducer

Spec == Init /\ [][Next]_vars

----------------------------------------------------------------------------
(* Properties *)

\* Rows and statuses hold values of the code's enumerations.
TypeOK ==
  /\ status \in {"ACQUIRING", "FINALIZATION_QUEUED", "FINALIZING"} \cup Closed
  /\ stageRow \in [1..Last -> [status : Closed \cup {"SKIPPED", "none"}, covers : Evidence]]
  /\ eligible \in Evidence /\ benchmark \in BOOLEAN
  /\ attempt \in [pc : {"off", "stage", "failing"}, stage : 0..(Last + 1)]
  /\ open \in BOOLEAN

\* The run turns SUCCESS only when every required stage is recorded as
\* successful, or had nothing to do, over all interrupted, repeated and partly
\* reused attempts; a PARTIAL or FAILED row of an earlier attempt is not passed
\* over.
SuccessIsEarned ==
  [][status' = "SUCCESS" /\ status # "SUCCESS" => Recorded \subseteq {"SUCCESS", "SKIPPED"}]_vars

\* A run that is SUCCESS or PARTIAL, and an attempt beyond the coverage stage, rest on a
\* coverage row that was written when the benchmark was there and the minimum was met,
\* however attempts were interrupted, repeated or resumed and whatever bars came and went:
\* an attempt that finds too little takes an earlier result back. (The evidence may fall
\* below the minimum once the row is written; no later stage asks again.)
ResultsRestOnCoverage ==
  /\ status \in {"SUCCESS", "PARTIAL"} \/ (attempt.pc = "stage" /\ attempt.stage > 1)
       => stageRow[1].status \in Sufficient
  /\ stageRow[1].status \in Sufficient => stageRow[1].covers # "none"

\* A stage that succeeded is never built again or lost: a later attempt resumes
\* after it.
SuccessfulStagesAreKept ==
  [][\A k \in 1..Last : stageRow[k].status = "SUCCESS" => stageRow'[k] = stageRow[k]]_vars

\* "... without representing incomplete work as successful": a run that is
\* SUCCESS had its artifacts built over the whole frozen universe.
SuccessIsComplete ==
  status = "SUCCESS" =>
    \A k \in Required : stageRow[k].status = "SUCCESS" => stageRow[k].covers = "all"

============================================================================
