------------------------- MODULE ProvisioningWorker -------------------------
(***************************************************************************)
(* The sequential provisioning worker (provisioning_queue/worker.py,       *)
(* _worker_execution.py, _worker_runtime.py) composed with the queue it    *)
(* takes jobs from (JobQueue) and with the callers that submit and cancel. *)
(*                                                                         *)
(* One step is one queue operation, one check of an event, one stage       *)
(* boundary or one beat of the heartbeat thread; everything else that can  *)
(* go wrong in between (an exception no handler catches, a kill, a failed  *)
(* health gate of claim) ends the process: Crash.  An open warehouse       *)
(* transaction dies with the process; a committed stage stays.             *)
(***************************************************************************)
EXTENDS JobQueue

CONSTANTS
  Unhandled,         \* identities whose goal type has no registered handler
  Stages,            \* number of stages of a handler
  WriteStages,       \* the stages with requires_warehouse_write
  MaxInterruptions   \* bound of the model: crashes and stop requests

ASSUME WorkerAssumption ==
  /\ Unhandled \subseteq Identities
  /\ Stages \in Nat \ {0}
  /\ WriteStages \subseteq 1..Stages
  /\ MaxInterruptions \in Nat

VARIABLES
  pc,      \* where each worker is
  held,    \* the job it was handed by claim, 0 if none
  stage,   \* the stage it is at
  beat,    \* LeaseHeartbeat: "off", "on" or "failed" (_failure is set)
  verdict, \* the HandlerResult of the job so far
  stop,    \* _stop_requested
  gate,    \* holder of the flock of ExclusiveProvisioner
  done,    \* history: stages that took effect in the last attempt of each job
  late,    \* history: stages begun after the job's cancellation was requested
  interruptions

workerVars == <<pc, held, stage, beat, verdict, stop, gate, done, late, interruptions>>
vars == <<queueVars, workerVars>>

Working == {"claimed", "boundary", "opening", "entering", "executing", "closing", "staged",
            "completed", "reporting", "ending", "denied", "failing", "cancelling"}

Locations == Working \cup {"off", "idle", "gated", "triggering", "leaving"}

Init ==
  /\ QueueInit
  /\ pc = [w \in Workers |-> "idle"]
  /\ held = [w \in Workers |-> 0]
  /\ stage = [w \in Workers |-> 0]
  /\ beat = [w \in Workers |-> "off"]
  /\ verdict = [w \in Workers |-> "none"]
  /\ stop = [w \in Workers |-> FALSE]
  /\ gate = NoWorker
  /\ done = [j \in 1..MaxJobs |-> {}]
  /\ late = [j \in 1..MaxJobs |-> 0]
  /\ interruptions = 0

Goto(w, l) == pc' = [pc EXCEPT ![w] = l]

\* A step of w that moves it and leaves the queue alone.
Move(w, from, to) == pc[w] = from /\ Goto(w, to) /\ UNCHANGED queueVars

Rest == <<held, stage, beat, verdict, stop, gate, done, late, interruptions>>

----------------------------------------------------------------------------
(* process_one *)

\* flock(LOCK_EX) on the queue file: blocks while another worker holds it.
AcquireGate_Shared(w) ==
  /\ Move(w, "idle", "gated")
  /\ ~ stop[w]
  /\ gate' = w
  /\ UNCHANGED <<held, stage, beat, verdict, stop, done, late, interruptions>>

AcquireGate(w) ==
  /\ Move(w, "idle", "gated")
  /\ ~ stop[w]
  /\ gate = NoWorker
  /\ gate' = w
  /\ UNCHANGED <<held, stage, beat, verdict, stop, done, late, interruptions>>

\* Nothing to claim, or a stop request: the gate is given back.
FindNothing(w) ==
  /\ pc[w] = "gated"
  /\ IF stop[w] THEN UNCHANGED queueVars ELSE ClaimNothing
  /\ Goto(w, "leaving")
  /\ UNCHANGED Rest

TakeJob(w) ==
  /\ pc[w] = "gated"
  /\ ~ stop[w]
  /\ \E j \in ReadyJobs :
       /\ ClaimJob(w, j)
       /\ held' = [held EXCEPT ![w] = j]
       /\ done' = [done EXCEPT ![j] = {}]
  /\ stage' = [stage EXCEPT ![w] = 1]
  /\ verdict' = [verdict EXCEPT ![w] = "none"]
  /\ Goto(w, "claimed")
  /\ UNCHANGED <<beat, stop, gate, late, interruptions>>

\* Leaving the with-blocks of process_one.
LeaveGate(w) ==
  /\ Move(w, "leaving", "idle")
  /\ held' = [held EXCEPT ![w] = 0]
  /\ gate' = NoWorker
  /\ UNCHANGED <<stage, beat, verdict, stop, done, late, interruptions>>

\* _cancellation_requested and _safe_boundary read the row again.
CancelSeen(w) == held[w] \in DOMAIN row /\ row[held[w]].cancel = 1

\* _process_claimed up to the first stage.
StartJob(w) ==
  /\ Move(w, "claimed", IF row[held[w]].identity \in Unhandled THEN "failing"
                        ELSE IF CancelSeen(w) THEN "cancelling" ELSE "boundary")
  /\ UNCHANGED Rest

----------------------------------------------------------------------------
(* execute_handler_stages *)

AtBoundary_StopOnly(w) ==
  /\ Move(w, "boundary", IF stop[w] THEN "leaving"
                         ELSE IF stage[w] \in WriteStages THEN "opening" ELSE "entering")
  /\ UNCHANGED Rest

\* _safe_boundary before each stage.
AtBoundary(w) ==
  /\ Move(w, "boundary", IF CancelSeen(w) THEN "cancelling"
                         ELSE IF stop[w] THEN "leaving"
                         ELSE IF stage[w] \in WriteStages THEN "opening" ELSE "entering")
  /\ UNCHANGED Rest

\* coordinator.transaction(): opens, or raises WarehouseOpenError.
OpenWarehouse(w) ==
  /\ \E to \in {"entering", "failing"} : Move(w, "opening", to)
  /\ UNCHANGED Rest

\* LeaseHeartbeat.__enter__ renews the lease, or raises and rolls back.
EnterStage(w) ==
  /\ \/ /\ HasLiveLease(held[w], w)
        /\ Move(w, "entering", "executing")
        /\ beat' = [beat EXCEPT ![w] = "on"]
        /\ late' = [late EXCEPT ![held[w]] = @ + row[held[w]].cancel]
     \/ /\ ~ HasLiveLease(held[w], w)
        /\ Move(w, "entering", "denied")
        /\ UNCHANGED <<beat, late>>
  /\ UNCHANGED <<held, stage, verdict, stop, gate, done, interruptions>>

\* The heartbeat thread finds the lease gone, remembers it and ends.
BeatFails(w) ==
  /\ beat[w] = "on"
  /\ ~ HasLiveLease(held[w], w)
  /\ beat' = [beat EXCEPT ![w] = "failed"]
  /\ UNCHANGED queueVars
  /\ UNCHANGED <<pc, held, stage, verdict, stop, gate, done, late, interruptions>>

\* stage.execute returns; __exit__ joins the thread and raises what it left.
LeaveStage(w) ==
  /\ Move(w, "executing", IF beat[w] = "failed" THEN "denied" ELSE "closing")
  /\ \E v \in {"succeeded", "failed"} : verdict' = [verdict EXCEPT ![w] = v]
  /\ beat' = [beat EXCEPT ![w] = "off"]
  /\ UNCHANGED <<held, stage, stop, gate, done, late, interruptions>>

\* The transaction commits (whatever the result says), then the stage timeout
\* and the result decide; closing the warehouse may raise WarehouseOpenError.
CommitStage(w) ==
  /\ \/ Move(w, "closing", "staged")
     \/ Move(w, "closing", "failing") /\ stage[w] \in WriteStages
  /\ done' = [done EXCEPT ![held[w]] = IF verdict[w] = "succeeded" THEN @ \cup {stage[w]} ELSE @]
  /\ \/ UNCHANGED verdict
     \/ verdict' = [verdict EXCEPT ![w] = "failed"]
  /\ UNCHANGED <<held, stage, beat, stop, gate, late, interruptions>>

NextStage_Unchecked(w) ==
  /\ Move(w, "staged", IF stage[w] < Stages THEN "boundary" ELSE "completed")
  /\ stage' = [stage EXCEPT ![w] = IF stage[w] < Stages THEN @ + 1 ELSE @]
  /\ UNCHANGED <<held, beat, verdict, stop, gate, done, late, interruptions>>

NextStage(w) ==
  /\ IF verdict[w] = "succeeded" /\ stage[w] < Stages
     THEN /\ Move(w, "staged", "boundary")
          /\ stage' = [stage EXCEPT ![w] = @ + 1]
     ELSE /\ Move(w, "staged", "completed")
          /\ UNCHANGED stage
  /\ UNCHANGED <<held, beat, verdict, stop, gate, done, late, interruptions>>

----------------------------------------------------------------------------
(* The end of _process_claimed *)

\* case HandlerCompleted: cancellation, then stop, then the last heartbeat.
CheckCompleted(w) ==
  /\ Move(w, "completed", IF CancelSeen(w) THEN "cancelling"
                          ELSE IF stop[w] THEN "leaving" ELSE "reporting")
  /\ UNCHANGED Rest

LastHeartbeat(w) ==
  /\ Move(w, "reporting", IF HasLiveLease(held[w], w) THEN "ending" ELSE "denied")
  /\ UNCHANGED Rest

\* A queue operation that ends the job as s, or raises ProvisioningJobLeaseError.
EndOrRaise(w, from, s, otherwise) ==
  /\ pc[w] = from
  /\ \/ /\ EndJob(held[w], w, s)
        /\ Goto(w, "triggering")
     \/ /\ ~ MayEnd(held[w], w, s)
        /\ Goto(w, otherwise)
        /\ UNCHANGED queueVars
  /\ UNCHANGED Rest

\* complete or fail; worker results are never retryable.
Report(w) ==
  EndOrRaise(w, "ending", IF verdict[w] = "succeeded" THEN "SUCCEEDED" ELSE "FAILED", "denied")

LeaseDenied_Drop(w) ==
  /\ Move(w, "denied", "idle")
  /\ UNCHANGED Rest

\* except ProvisioningJobLeaseError.
LeaseDenied(w) ==
  /\ Move(w, "denied", IF CancelSeen(w) THEN "cancelling" ELSE "leaving")
  /\ UNCHANGED Rest

\* _fail_or_cancel, also for a missing handler and a warehouse that cannot open.
FailJob(w) == EndOrRaise(w, "failing", "FAILED", "denied")

\* _cancel_at_safe_boundary gives up if the lease is gone.
AcknowledgeCancel(w) == EndOrRaise(w, "cancelling", "CANCELLED", "leaving")

\* _trigger_finalization: the call into the maintenance ledger (MaintenanceRun).
TriggerFinalization(w) ==
  /\ Move(w, "triggering", "leaving")
  /\ UNCHANGED Rest

----------------------------------------------------------------------------
(* The process around the worker, the callers and the clock *)

\* The process dies: the flock and the open transaction go with it.
Crash(w) ==
  /\ interruptions < MaxInterruptions
  /\ pc[w] # "off"
  /\ interruptions' = interruptions + 1
  /\ Goto(w, "off")
  /\ held' = [held EXCEPT ![w] = 0]
  /\ beat' = [beat EXCEPT ![w] = "off"]
  /\ gate' = IF gate = w THEN NoWorker ELSE gate
  /\ UNCHANGED queueVars
  /\ UNCHANGED <<stage, verdict, stop, done, late>>

\* SIGTERM or SIGINT: request_stop.
RequestStop(w) ==
  /\ interruptions < MaxInterruptions
  /\ pc[w] # "off" /\ ~ stop[w]
  /\ interruptions' = interruptions + 1
  /\ stop' = [stop EXCEPT ![w] = TRUE]
  /\ UNCHANGED queueVars
  /\ UNCHANGED <<pc, held, stage, beat, verdict, gate, done, late>>

\* run() returns once the event is set.
ExitLoop(w) ==
  /\ Move(w, "idle", "off")
  /\ stop[w]
  /\ UNCHANGED Rest

\* Restart=on-failure: systemd starts a process again that failed, and none that
\* was asked to stop.
Restart(w) ==
  /\ Move(w, "off", "idle")
  /\ ~ stop[w]
  /\ UNCHANGED Rest

\* An operator starts a stopped worker, if ever.
StartAgain(w) ==
  /\ Move(w, "off", "idle")
  /\ stop[w]
  /\ stop' = [stop EXCEPT ![w] = FALSE]
  /\ UNCHANGED <<held, stage, beat, verdict, gate, done, late, interruptions>>

LeaseLapses(j) ==
  /\ j \in DOMAIN row /\ row[j].live = 1
  /\ TimePasses({j}, {})
  /\ UNCHANGED workerVars

WorkerStep(w) ==
  \/ AcquireGate(w) \/ FindNothing(w) \/ TakeJob(w) \/ LeaveGate(w) \/ StartJob(w)
  \/ AtBoundary(w) \/ OpenWarehouse(w) \/ EnterStage(w) \/ LeaveStage(w) \/ CommitStage(w)
  \/ NextStage(w) \/ CheckCompleted(w) \/ LastHeartbeat(w) \/ Report(w) \/ LeaseDenied(w)
  \/ FailJob(w) \/ AcknowledgeCancel(w) \/ TriggerFinalization(w) \/ ExitLoop(w) \/ Restart(w)

Next ==
  \/ \E w \in Workers : WorkerStep(w) \/ BeatFails(w) \/ Crash(w) \/ RequestStop(w) \/ StartAgain(w)
  \/ \E d \in Identities : Submit(d) /\ UNCHANGED workerVars
  \/ \E j \in 1..count : CancelJob(j) /\ UNCHANGED workerVars
  \/ \E j \in 1..count : LeaseLapses(j)

\* A worker that can move moves, a failed one is restarted, and an abandoned lease runs
\* out; nobody need start a stopped worker again.
Fairness ==
  /\ \A w \in Workers : WF_vars(WorkerStep(w))
  /\ \A j \in 1..MaxJobs : WF_vars(LeaseLapses(j) /\ \A w \in Workers : held[w] # j)

Spec == Init /\ [][Next]_vars /\ Fairness

----------------------------------------------------------------------------
(* Properties *)

\* The state of every worker is one the code can be in.
TypeOK ==
  /\ row \in [DOMAIN row -> Rows] /\ DOMAIN row \subseteq 1..count
  /\ pc \in [Workers -> Locations]
  /\ held \in [Workers -> 0..count]
  /\ stage \in [Workers -> 0..Stages]
  /\ beat \in [Workers -> {"off", "on", "failed"}]
  /\ verdict \in [Workers -> {"none", "succeeded", "failed"}]
  /\ stop \in [Workers -> BOOLEAN]
  /\ gate \in Workers \cup {NoWorker}
  /\ done \in [1..MaxJobs -> SUBSET (1..Stages)]
  /\ late \in [1..MaxJobs -> Nat]
  /\ interruptions \in 0..MaxInterruptions

\* From claim to the report a worker's job stays running under its name, even
\* after the lease has expired: the flock keeps every other worker from
\* recovering it, so no stage commits for a job that was handed to another.
WorkerOwnsItsJob ==
  \A w \in Workers :
    pc[w] \in Working =>
      held[w] \in DOMAIN row /\ row[held[w]].status = "RUNNING" /\ row[held[w]].owner = w

\* A job is reported as succeeded only if every stage of its handler took effect
\* in that attempt; stages take effect in order, none after a failed one.
SuccessMeansAllStages ==
  \A j \in DOMAIN row :
    /\ row[j].status = "SUCCEEDED" => done[j] = 1..Stages
    /\ done[j] = 1..Cardinality(done[j])

\* After cancellation of a job is requested at most one more stage of it begins:
\* the one whose boundary check had already passed.
CancelStopsAtBoundary == \A j \in DOMAIN row : late[j] <= 1

\* What is always true of the workers and their jobs (_process_claimed,
\* execute_handler_stages).
WorkerInvariant == WorkerOwnsItsJob /\ SuccessMeansAllStages /\ CancelStopsAtBoundary /\ TypeOK

\* Asked to stop, and gone.
Stopped(w) == pc[w] = "off" /\ stop[w]

\* Every job in the queue ends, through crashes, lost leases, cancellations and the
\* stops of workers, unless there comes a time when all of them are stopped.
EveryJobEnds ==
  \A j \in 1..MaxJobs :
    (j \in DOMAIN row) ~> \/ j \in DOMAIN row /\ row[j].status \in Ended
                          \/ \A w \in Workers : Stopped(w)

\* The flock is always given back, so a second worker is never locked out for good.
GateIsReleased == \A w \in Workers : gate = w ~> gate # w

============================================================================
