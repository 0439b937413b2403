----------------------- MODULE ProvisioningWorkerProofs -----------------------
(***************************************************************************)
(* Invariance proofs for ProvisioningWorker, for every number of workers,  *)
(* jobs, stages and interruptions, for ProviderRouting, and for the two of *)
(* them together.                                                          *)
(***************************************************************************)
EXTENDS MCProvisioningWorker, TLAPS, FiniteSetTheorems, WellFoundedInduction

\* Where a worker has the flock.
Inside == Working \cup {"gated", "triggering", "leaving"}

\* Where the stage of a worker has not taken effect, and where all have.
Before == {"claimed", "boundary", "opening", "entering", "executing", "closing"}
After == {"completed", "reporting", "ending"}

\* A job in the queue has an attempt left; ids stay within the bound.
Typed ==
  /\ TypeOK
  /\ count \in 0..MaxJobs
  /\ \A j \in DOMAIN row : row[j].status = "QUEUED" => row[j].attempts < MaxAttempts

Guarded == \A w \in Workers : pc[w] \in Inside => gate = w

\* The stages of the job of w that took effect, by where w is.
Progress(w) ==
  /\ stage[w] \in 1..Stages
  /\ pc[w] \in Before => done[held[w]] = 1..(stage[w] - 1)
  /\ pc[w] = "staged" /\ verdict[w] = "succeeded" => done[held[w]] = 1..stage[w]
  /\ pc[w] \in After /\ verdict[w] = "succeeded" => done[held[w]] = 1..Stages

StagesInOrder ==
  /\ \A w \in Workers : pc[w] \in Working => Progress(w)
  /\ \A j \in 1..MaxJobs : \E m \in 0..Stages : done[j] = 1..m
  /\ \A j \in DOMAIN row : row[j].status = "SUCCEEDED" => done[j] = 1..Stages

\* Once a stage of j began too late, no worker is past the check of another.
LateOnce ==
  \A j \in 1..MaxJobs :
    /\ late[j] \in {0, 1}
    /\ late[j] = 1 =>
         /\ j \in DOMAIN row /\ row[j].cancel = 1
         /\ \A w \in Workers : held[w] = j => pc[w] \notin {"opening", "entering"}

IInv == Typed /\ Guarded /\ WorkerOwnsItsJob /\ StagesInOrder /\ LateOnce

----------------------------------------------------------------------------
(* The queue under the workers *)

\* What every operation on the queue leaves of the rows.
QueueAdvances ==
  /\ count' \in 0..MaxJobs /\ count <= count'
  /\ row' \in [DOMAIN row' -> Rows]
  /\ DOMAIN row \subseteq DOMAIN row' /\ DOMAIN row' \subseteq 1..count'
  /\ \A j \in DOMAIN row' : row'[j].status = "QUEUED" => row'[j].attempts < MaxAttempts
  /\ \A j \in DOMAIN row : row[j].cancel = 1 => row'[j].cancel = 1

\* No job succeeds in the step.
NoneSucceeds ==
  \A j \in DOMAIN row' : row'[j].status = "SUCCEEDED" => j \in DOMAIN row /\ row[j].status = "SUCCEEDED"

\* No running job ends or changes hands in the step.
RunningStay ==
  \A j \in DOMAIN row : row[j].status = "RUNNING" =>
    row'[j].status = "RUNNING" /\ row'[j].owner = row[j].owner

\* A caller adds a row or finds one (submit_or_join).
LEMMA SubmitAdvances ==
  ASSUME Typed, NEW d \in Identities, Submit(d)
  PROVE  QueueAdvances /\ NoneSucceeds /\ RunningStay
<1>1. CASE UNCHANGED queueVars
  BY <1>1 DEF queueVars, Typed, TypeOK, QueueAdvances, NoneSucceeds, RunningStay
<1>2. CASE ~ UNCHANGED queueVars
  <2>1. /\ count < MaxJobs /\ count' = count + 1
        /\ row' = [i \in DOMAIN row \cup {count + 1} |->
                     IF i = count + 1 THEN FreshJob(d) ELSE row[i]]
    BY <1>2 DEF Submit
  <2>2. FreshJob(d) \in Rows /\ FreshJob(d).status = "QUEUED" /\ FreshJob(d).attempts < MaxAttempts
    BY JobQueueAssumption DEF FreshJob, Rows
  <2>3. count + 1 \notin DOMAIN row /\ MaxJobs \in Nat /\ count \in Nat
    BY JobQueueAssumption DEF Typed, TypeOK
  <2>4. DOMAIN row' = DOMAIN row \cup {count + 1} /\ row'[count + 1] = FreshJob(d)
    BY <2>1
  <2>5. \A j \in DOMAIN row : row'[j] = row[j]
    BY <2>1, <2>3
  <2>6. row' \in [DOMAIN row' -> Rows]
    BY <2>1, <2>2, <2>4, <2>5 DEF Typed, TypeOK
  <2> QED BY <2>1, <2>2, <2>3, <2>4, <2>5, <2>6
          DEF Typed, TypeOK, QueueAdvances, NoneSucceeds, RunningStay
<1> QED BY <1>1, <1>2

\* An operation that rewrites rows in place advances the queue if it treats each
\* row as it should.
RowAdvances(r, s) ==
  /\ s \in Rows
  /\ s.status = "QUEUED" => s.attempts < MaxAttempts
  /\ r.cancel = 1 => s.cancel = 1

LEMMA RowsRewritten ==
  ASSUME Typed, count' = count, DOMAIN row' = DOMAIN row,
         row' = [i \in DOMAIN row |-> row'[i]],
         \A j \in DOMAIN row : RowAdvances(row[j], row'[j])
  PROVE  QueueAdvances
<1>1. row' \in [DOMAIN row' -> Rows]
  BY DEF RowAdvances
<1> QED BY <1>1 DEF RowAdvances, Typed, TypeOK, QueueAdvances

\* A job that is cancelled stays with its worker or leaves the queue (cancel).
LEMMA CancelAdvances ==
  ASSUME Typed, NEW j \in 1..count, CancelJob(j)
  PROVE  QueueAdvances /\ NoneSucceeds /\ RunningStay
<1>1. /\ j \in DOMAIN row /\ count' = count /\ row[j] \in Rows
      /\ row' = [row EXCEPT ![j] = IF row[j].status = "QUEUED"
                                   THEN [@ EXCEPT !.status = "CANCELLED", !.cancel = 1]
                                   ELSE [@ EXCEPT !.cancel = 1]]
  BY DEF CancelJob, Typed, TypeOK
<1>2. DOMAIN row' = DOMAIN row /\ row' = [i \in DOMAIN row |-> row'[i]]
  BY <1>1 DEF Typed, TypeOK
<1>3. \A i \in DOMAIN row \ {j} : row'[i] = row[i]
  BY <1>1
<1>4. row'[j] \in {[row[j] EXCEPT !.status = "CANCELLED", !.cancel = 1],
                   [row[j] EXCEPT !.cancel = 1]}
      /\ (row[j].status = "RUNNING" => row'[j] = [row[j] EXCEPT !.cancel = 1])
  BY <1>1
<1>5. RowAdvances(row[j], row'[j])
  BY <1>1, <1>4 DEF RowAdvances, Rows, Ended, Typed
<1>6. \A i \in DOMAIN row \ {j} : RowAdvances(row[i], row'[i])
  BY <1>3 DEF RowAdvances, Typed, TypeOK
<1>7. QueueAdvances
  BY <1>1, <1>2, <1>5, <1>6, RowsRewritten
<1>8. /\ row'[j].status = "SUCCEEDED" => row[j].status = "SUCCEEDED"
      /\ row[j].status = "RUNNING" => row'[j].status = "RUNNING" /\ row'[j].owner = row[j].owner
  BY <1>1, <1>4 DEF Rows
<1> QED BY <1>2, <1>3, <1>7, <1>8 DEF NoneSucceeds, RunningStay

\* The passing of time takes no job away.
LEMMA LapseAdvances ==
  ASSUME Typed, NEW lapsed, NEW due, TimePasses(lapsed, due)
  PROVE  QueueAdvances /\ NoneSucceeds /\ RunningStay
<1>1. /\ count' = count
      /\ row' = [i \in DOMAIN row |->
               [row[i] EXCEPT !.live = IF i \in lapsed THEN 0 ELSE @,
                              !.ready = IF i \in due THEN 1 ELSE @]]
  BY DEF TimePasses
<1>2. DOMAIN row' = DOMAIN row /\ row' = [i \in DOMAIN row |-> row'[i]]
  BY <1>1
<1>3. ASSUME NEW i \in DOMAIN row
      PROVE  /\ RowAdvances(row[i], row'[i])
             /\ row'[i].status = row[i].status /\ row'[i].owner = row[i].owner
  <2>1. row[i] \in Rows
    BY DEF Typed, TypeOK
  <2>2. \E l, d \in {0, 1} : row'[i] = [row[i] EXCEPT !.live = l, !.ready = d]
    BY <1>1, <2>1 DEF Rows
  <2> QED BY <2>1, <2>2 DEF RowAdvances, Rows, Typed
<1> QED BY <1>1, <1>2, <1>3, RowsRewritten DEF NoneSucceeds, RunningStay

\* What a recovery makes of a row.
LEMMA ExpiryAdvances ==
  ASSUME Typed, NEW j \in DOMAIN row
  PROVE  /\ RowAdvances(row[j], AfterExpiry(row[j]))
         /\ AfterExpiry(row[j]).status = "SUCCEEDED" => row[j].status = "SUCCEEDED"
<1>1. row[j] \in Rows
  BY DEF Typed, TypeOK
<1>2. CASE row[j].status = "RUNNING" /\ row[j].live = 0
  <2>1. PICK s \in {"CANCELLED", "FAILED", "QUEUED"} :
          /\ AfterExpiry(row[j]) = [row[j] EXCEPT !.status = s, !.owner = NoWorker, !.live = 0]
          /\ s = "QUEUED" => row[j].attempts < MaxAttempts
    <3> DEFINE s == IF row[j].cancel = 1 THEN "CANCELLED"
                    ELSE IF row[j].attempts >= MaxAttempts THEN "FAILED" ELSE "QUEUED"
    <3>1. AfterExpiry(row[j]) = [row[j] EXCEPT !.status = s, !.owner = NoWorker, !.live = 0]
      BY <1>2 DEF AfterExpiry, Release
    <3>2. row[j].attempts \in Nat /\ MaxAttempts \in Nat
      BY <1>1, JobQueueAssumption DEF Rows
    <3>3. s \in {"CANCELLED", "FAILED", "QUEUED"} /\ (s = "QUEUED" => row[j].attempts < MaxAttempts)
      BY <3>2
    <3> QED BY <3>1, <3>3
  <2> QED BY <1>1, <2>1 DEF RowAdvances, Rows, Ended
<1>3. CASE ~(row[j].status = "RUNNING" /\ row[j].live = 0)
  BY <1>1, <1>3 DEF AfterExpiry, RowAdvances, Typed
<1> QED BY <1>2, <1>3

LEMMA RecoveryAdvances ==
  ASSUME Typed, RecoverLeases
  PROVE  QueueAdvances /\ NoneSucceeds
<1>1. count' = count /\ row' = [i \in DOMAIN row |-> AfterExpiry(row[i])]
  BY DEF RecoverLeases, AfterRecovery
<1>2. DOMAIN row' = DOMAIN row /\ row' = [i \in DOMAIN row |-> row'[i]]
  BY <1>1
<1>3. \A i \in DOMAIN row : row'[i] = AfterExpiry(row[i])
  BY <1>1
<1> QED BY <1>1, <1>2, <1>3, ExpiryAdvances, RowsRewritten DEF NoneSucceeds

\* A claim recovers the others and leases one job (claim).
LEMMA ClaimAdvances ==
  ASSUME Typed, NEW w \in Workers, NEW j, ClaimJob(w, j)
  PROVE  /\ QueueAdvances /\ NoneSucceeds
         /\ j \in DOMAIN row /\ row'[j].status = "RUNNING" /\ row'[j].owner = w
         /\ row[j].status # "SUCCEEDED"
<1> DEFINE q == AfterExpiry(row[j])
<1>1. j \in DOMAIN row /\ q.status = "QUEUED"
  BY DEF ClaimJob, ReadyJobs, AfterRecovery
<1>2. /\ count' = count /\ DOMAIN row' = DOMAIN row
      /\ row'[j] = Leased(q, w)
      /\ \A i \in DOMAIN row \ {j} : row'[i] = AfterExpiry(row[i])
      /\ row' = [i \in DOMAIN row |-> row'[i]]
  <2>1. count' = count /\ row' = [AfterRecovery EXCEPT ![j] = Leased(AfterRecovery[j], w)]
    BY DEF ClaimJob
  <2> QED BY <1>1, <2>1 DEF AfterRecovery
<1>3. q \in Rows /\ q.attempts < MaxAttempts /\ (row[j].cancel = 1 => q.cancel = 1)
  BY <1>1, ExpiryAdvances DEF RowAdvances
<1>4. row[j].status # "SUCCEEDED"
  BY <1>1 DEF AfterExpiry
<1> HIDE DEF q
<1>5. RowAdvances(row[j], row'[j]) /\ row'[j].status = "RUNNING" /\ row'[j].owner = w
  <2>1. q.attempts + 1 \in 0..MaxAttempts
    BY <1>3, JobQueueAssumption DEF Rows
  <2> QED BY <1>2, <1>3, <2>1 DEF RowAdvances, Rows, Leased
<1>6. QueueAdvances
  BY <1>2, <1>5, ExpiryAdvances, RowsRewritten
<1> QED BY <1>1, <1>2, <1>4, <1>5, <1>6, ExpiryAdvances DEF NoneSucceeds

\* The holder of a lease ends its job (complete, fail, acknowledge_cancellation).
LEMMA EndAdvances ==
  ASSUME Typed, NEW w, NEW j, NEW s \in Ended, EndJob(j, w, s)
  PROVE  /\ QueueAdvances
         /\ j \in DOMAIN row
         /\ \A i \in DOMAIN row' : row'[i].status = "SUCCEEDED" =>
              \/ i \in DOMAIN row /\ row[i].status = "SUCCEEDED"
              \/ i = j /\ s = "SUCCEEDED"
<1>1. j \in DOMAIN row /\ count' = count /\ row' = [row EXCEPT ![j] = Release(row[j], s)]
  BY DEF EndJob, MayEnd, HasLiveLease
<1>2. row[j] \in Rows
  BY <1>1 DEF Typed, TypeOK
<1>3. /\ DOMAIN row' = DOMAIN row /\ row' = [i \in DOMAIN row |-> row'[i]]
      /\ \A i \in DOMAIN row \ {j} : row'[i] = row[i]
      /\ row'[j] = [row[j] EXCEPT !.status = s, !.owner = NoWorker, !.live = 0]
  BY <1>1 DEF Typed, TypeOK, Release
<1>4. RowAdvances(row[j], row'[j]) /\ row'[j].status = s
  BY <1>2, <1>3 DEF RowAdvances, Rows, Ended
<1>5. \A i \in DOMAIN row \ {j} : RowAdvances(row[i], row'[i])
  BY <1>3 DEF RowAdvances, Typed, TypeOK
<1> QED BY <1>1, <1>3, <1>4, <1>5, RowsRewritten

----------------------------------------------------------------------------
(* Types *)

\* TypeOK of the variables of the workers.
WorkersTyped ==
  /\ pc \in [Workers -> Locations]
  /\ held \in [Workers -> 0..count]
  /\ stage \in [Workers -> 0..Stages]
  /\ beat \in [Workers -> {"off", "on", "failed"}]
  /\ verdict \in [Workers -> {"none", "succeeded", "failed"}]
  /\ stop \in [Workers -> BOOLEAN]
  /\ gate \in Workers \cup {NoWorker}
  /\ done \in [1..MaxJobs -> SUBSET (1..Stages)]
  /\ late \in [1..MaxJobs -> Nat]
  /\ interruptions \in 0..MaxInterruptions

LEMMA TypedSplit == Typed => WorkersTyped
BY DEF Typed, TypeOK, WorkersTyped

LEMMA TypedJoined ==
  ASSUME Typed, WorkersTyped', QueueAdvances \/ UNCHANGED queueVars
  PROVE  Typed'
BY DEF Typed, TypeOK, WorkersTyped, QueueAdvances, queueVars

\* The row a working worker holds.
LEMMA HeldRow ==
  ASSUME Typed, WorkerOwnsItsJob, NEW w \in Workers, pc[w] \in Working
  PROVE  /\ held[w] \in DOMAIN row /\ held[w] \in 1..MaxJobs
         /\ row[held[w]] \in Rows
BY JobQueueAssumption DEF Typed, TypeOK, WorkerOwnsItsJob

\* The steps of a worker that leave the queue alone are well typed.
LEMMA MovesAreTyped ==
  ASSUME Typed, WorkerOwnsItsJob, StagesInOrder, NEW w \in Workers,
         \/ AcquireGate(w) \/ LeaveGate(w) \/ StartJob(w) \/ AtBoundary(w) \/ OpenWarehouse(w)
         \/ EnterStage(w) \/ BeatFails(w) \/ LeaveStage(w) \/ CommitStage(w) \/ NextStage(w)
         \/ CheckCompleted(w) \/ LastHeartbeat(w) \/ LeaseDenied(w) \/ TriggerFinalization(w)
         \/ Crash(w) \/ RequestStop(w) \/ ExitLoop(w) \/ Restart(w) \/ StartAgain(w)
  PROVE  Typed'
<1>1. WorkersTyped
  BY TypedSplit
<1>2. count \in Nat /\ MaxJobs \in Nat /\ Stages \in Nat /\ MaxInterruptions \in Nat
  BY JobQueueAssumption, WorkerAssumption DEF Typed
<1>3. SUFFICES WorkersTyped' /\ UNCHANGED queueVars
  BY TypedJoined
<1>4. UNCHANGED queueVars
  BY DEF AcquireGate, LeaveGate, StartJob, AtBoundary, OpenWarehouse, EnterStage, BeatFails,
     LeaveStage, CommitStage, NextStage, CheckCompleted, LastHeartbeat, LeaseDenied,
     TriggerFinalization, Crash, RequestStop, ExitLoop, Restart, StartAgain, Move
<1>5. count' = count
  BY <1>4 DEF queueVars
<1> USE DEF Move, Goto, Locations, Working
<1>6. CASE \/ StartJob(w) \/ AtBoundary(w) \/ OpenWarehouse(w) \/ CheckCompleted(w)
           \/ LastHeartbeat(w) \/ LeaseDenied(w) \/ TriggerFinalization(w) \/ ExitLoop(w)
           \/ Restart(w)
  <2>1. PICK l \in Locations : pc' = [pc EXCEPT ![w] = l]
    BY <1>6 DEF StartJob, AtBoundary, OpenWarehouse, CheckCompleted, LastHeartbeat, LeaseDenied,
       TriggerFinalization, ExitLoop, Restart
  <2>2. UNCHANGED Rest
    BY <1>6 DEF StartJob, AtBoundary, OpenWarehouse, CheckCompleted, LastHeartbeat, LeaseDenied,
       TriggerFinalization, ExitLoop, Restart
  <2> QED BY <1>1, <1>4, <1>5, <2>1, <2>2 DEF WorkersTyped, Rest
<1>7. CASE AcquireGate(w)
  BY <1>1, <1>4, <1>5, <1>7 DEF AcquireGate, WorkersTyped
<1>8. CASE LeaveGate(w)
  BY <1>1, <1>2, <1>4, <1>5, <1>8 DEF LeaveGate, WorkersTyped
<1>9. CASE StartAgain(w)
  BY <1>1, <1>4, <1>5, <1>9 DEF StartAgain, WorkersTyped
<1>10. CASE EnterStage(w)
  <2>1. pc[w] = "entering" /\ held[w] \in 1..MaxJobs /\ row[held[w]].cancel \in {0, 1}
    BY <1>10, HeldRow DEF EnterStage, Rows
  <2>2. late[held[w]] + row[held[w]].cancel \in Nat
    BY <1>1, <2>1 DEF WorkersTyped
  <2>3. late' \in [1..MaxJobs -> Nat]
    BY <1>1, <1>10, <2>2 DEF EnterStage, WorkersTyped
  <2> QED BY <1>1, <1>4, <1>5, <1>10, <2>3 DEF EnterStage, WorkersTyped
<1>11. CASE BeatFails(w)
  BY <1>1, <1>4, <1>5, <1>11 DEF BeatFails, WorkersTyped
<1>12. CASE LeaveStage(w)
  BY <1>1, <1>4, <1>5, <1>12 DEF LeaveStage, WorkersTyped
<1>13. CASE RequestStop(w)
  BY <1>1, <1>2, <1>4, <1>5, <1>13 DEF RequestStop, WorkersTyped
<1>14. CASE Crash(w)
  BY <1>1, <1>2, <1>4, <1>5, <1>14 DEF Crash, WorkersTyped
<1>15. CASE CommitStage(w)
  <2> DEFINE d == IF verdict[w] = "succeeded" THEN done[held[w]] \cup {stage[w]} ELSE done[held[w]]
  <2>1. pc[w] = "closing" /\ stage[w] \in 1..Stages
    BY <1>15 DEF CommitStage, StagesInOrder, Progress
  <2>2. held[w] \in 1..MaxJobs /\ done[held[w]] \subseteq 1..Stages
    BY <1>1, <2>1, HeldRow DEF WorkersTyped
  <2>3. done' \in [1..MaxJobs -> SUBSET (1..Stages)]
    <3>1. d \in SUBSET (1..Stages)
      BY <2>1, <2>2
    <3>2. done' = [done EXCEPT ![held[w]] = d]
      BY <1>15 DEF CommitStage
    <3> HIDE DEF d
    <3> QED BY <1>1, <3>1, <3>2 DEF WorkersTyped
  <2> QED BY <1>1, <1>4, <1>5, <1>15, <2>3 DEF CommitStage, WorkersTyped
<1>16. CASE NextStage(w)
  <2>1. \E l \in {"boundary", "completed"} : pc' = [pc EXCEPT ![w] = l]
    BY <1>16 DEF NextStage
  <2>2. \/ stage[w] < Stages /\ stage' = [stage EXCEPT ![w] = stage[w] + 1]
        \/ stage' = stage
    BY <1>16 DEF NextStage
  <2>3. stage' \in [Workers -> 0..Stages]
    <3>1. stage[w] \in 0..Stages
      BY <1>1 DEF WorkersTyped
    <3>2. stage[w] < Stages => stage[w] + 1 \in 0..Stages
      BY <1>2, <3>1
    <3> QED BY <1>1, <2>2, <3>2 DEF WorkersTyped
  <2>4. UNCHANGED <<held, beat, verdict, stop, gate, done, late, interruptions>>
    BY <1>16 DEF NextStage
  <2> QED BY <1>1, <1>4, <1>5, <2>1, <2>3, <2>4 DEF WorkersTyped
<1> QED BY <1>6, <1>7, <1>8, <1>9, <1>10, <1>11, <1>12, <1>13, <1>14, <1>15, <1>16
\* So are the steps of a worker that use the queue.
LEMMA OperationsAreTyped ==
  ASSUME Typed, NEW w \in Workers,
         FindNothing(w) \/ TakeJob(w) \/ Report(w) \/ FailJob(w) \/ AcknowledgeCancel(w)
  PROVE  Typed'
<1>1. WorkersTyped
  BY TypedSplit
<1>2. Stages \in Nat \ {0} /\ MaxJobs \in Nat
  BY JobQueueAssumption, WorkerAssumption
<1>3. ASSUME QueueAdvances \/ UNCHANGED queueVars
      PROVE  count' \in 0..MaxJobs /\ count <= count' /\ count \in 0..MaxJobs
  BY <1>2, <1>3 DEF QueueAdvances, queueVars, Typed
<1>4. CASE FindNothing(w)
  <2>1. QueueAdvances \/ UNCHANGED queueVars
    BY <1>4, RecoveryAdvances DEF FindNothing, ClaimNothing
  <2>2. WorkersTyped'
    BY <1>1, <1>3, <1>4, <2>1 DEF FindNothing, Goto, Rest, WorkersTyped, Locations
  <2> QED BY <2>1, <2>2, TypedJoined
<1>5. CASE TakeJob(w)
  <2>1. PICK j \in ReadyJobs :
          ClaimJob(w, j) /\ held' = [held EXCEPT ![w] = j] /\ done' = [done EXCEPT ![j] = {}]
    BY <1>5 DEF TakeJob
  <2>2. QueueAdvances /\ j \in DOMAIN row
    BY <2>1, ClaimAdvances
  <2>3. j \in 1..count
    BY <2>2 DEF Typed, TypeOK
  <2>4. held' \in [Workers -> 0..count']
    BY <1>1, <1>3, <2>1, <2>2, <2>3 DEF WorkersTyped
  <2>5. done' \in [1..MaxJobs -> SUBSET (1..Stages)]
    BY <1>1, <2>1 DEF WorkersTyped
  <2>6. /\ pc' = [pc EXCEPT ![w] = "claimed"] /\ stage' = [stage EXCEPT ![w] = 1]
        /\ verdict' = [verdict EXCEPT ![w] = "none"]
        /\ UNCHANGED <<beat, stop, gate, late, interruptions>>
    BY <1>5 DEF TakeJob, Goto
  <2>7. WorkersTyped'
    BY <1>1, <1>2, <2>4, <2>5, <2>6 DEF WorkersTyped, Locations, Working
  <2> QED BY <2>2, <2>7, TypedJoined
<1>6. ASSUME NEW l, NEW s \in Ended, NEW otherwise \in {"denied", "leaving"},
             EndOrRaise(w, l, s, otherwise)
      PROVE  Typed'
  <2>1. QueueAdvances \/ UNCHANGED queueVars
    BY <1>6, EndAdvances DEF EndOrRaise
  <2>2. \E to \in {"triggering", "denied", "leaving"} : pc' = [pc EXCEPT ![w] = to]
    BY <1>6 DEF EndOrRaise, Goto
  <2>3. WorkersTyped'
    BY <1>1, <1>3, <1>6, <2>1, <2>2 DEF EndOrRaise, Rest, WorkersTyped, Locations, Working
  <2> QED BY <2>1, <2>3, TypedJoined
<1>7. CASE Report(w)
  BY <1>6, <1>7 DEF Report, Ended
<1>8. CASE FailJob(w)
  BY <1>6, <1>8 DEF FailJob, Ended
<1>9. CASE AcknowledgeCancel(w)
  BY <1>6, <1>9 DEF AcknowledgeCancel, Ended
<1> QED BY <1>4, <1>5, <1>7, <1>8, <1>9

\* And so are those of the callers and of time.
LEMMA OthersAreTyped ==
  ASSUME Typed, QueueAdvances, UNCHANGED workerVars
  PROVE  Typed'
<1>1. WorkersTyped /\ count' \in Nat /\ count \in Nat /\ count <= count'
  BY TypedSplit DEF Typed, QueueAdvances
<1>2. WorkersTyped'
  BY <1>1 DEF WorkersTyped, workerVars
<1> QED BY <1>2, TypedJoined

----------------------------------------------------------------------------
(* Steps and the invariant *)

\* While one worker has the flock no other has.
LEMMA OneInside ==
  ASSUME Guarded, NEW w \in Workers, pc[w] \in Inside, NEW v \in Workers \ {w}
  PROVE  pc[v] \notin Inside
BY DEF Guarded

\* Callers, cancellations and time leave what the workers rely on.
LEMMA OthersKeep ==
  ASSUME IInv, QueueAdvances, NoneSucceeds, RunningStay, UNCHANGED workerVars
  PROVE  IInv'
<1>1. Typed'
  BY OthersAreTyped DEF IInv
<1>2. Guarded'
  BY DEF IInv, Guarded, workerVars
<1>3. WorkerOwnsItsJob'
  BY DEF IInv, WorkerOwnsItsJob, RunningStay, QueueAdvances, workerVars
<1>4. StagesInOrder'
  <2>1. \A w \in Workers : Progress(w)' <=> Progress(w)
    BY DEF Progress, workerVars
  <2> QED BY <2>1 DEF IInv, StagesInOrder, NoneSucceeds, workerVars
<1>5. LateOnce'
  BY DEF IInv, LateOnce, QueueAdvances, workerVars
<1> QED BY <1>1, <1>2, <1>3, <1>4, <1>5 DEF IInv

\* A worker with the flock moves on: to no place where more is known of its job.
LEMMA QuietMoveKeeps ==
  ASSUME IInv, Typed', NEW w \in Workers, NEW l \in Inside,
         pc[w] \in Inside, pc' = [pc EXCEPT ![w] = l],
         UNCHANGED <<queueVars, held, gate, done, late, stage, verdict>>,
         l \in Working => pc[w] \in Working,
         l \in Before => pc[w] \in Before,
         l \in After => pc[w] \in After,
         l # "staged",
         l \in {"opening", "entering"} => pc[w] \in {"opening", "entering"} \/ ~ CancelSeen(w)
  PROVE  IInv'
<1>1. pc'[w] = l /\ \A v \in Workers \ {w} : pc'[v] = pc[v]
  BY DEF IInv, Typed, TypeOK
<1>2. Guarded'
  BY <1>1 DEF IInv, Guarded
<1>3. WorkerOwnsItsJob'
  BY <1>1 DEF IInv, WorkerOwnsItsJob, queueVars
<1>4. StagesInOrder'
  <2>1. ASSUME NEW v \in Workers, pc'[v] \in Working
        PROVE  Progress(v)'
    <3>1. Progress(v)
      BY <1>1, <2>1 DEF IInv, StagesInOrder
    <3> QED BY <1>1, <3>1 DEF Progress
  <2> QED BY <2>1 DEF IInv, StagesInOrder, queueVars
<1>5. LateOnce'
  BY <1>1 DEF IInv, LateOnce, CancelSeen, queueVars
<1> QED BY <1>2, <1>3, <1>4, <1>5 DEF IInv

\* A worker without a job moves where it needs none, and the flock stays guarded.
LEMMA IdleMoveKeeps ==
  ASSUME IInv, Typed', Guarded', NEW w \in Workers, NEW l \in {"off", "idle", "gated"},
         pc' = [pc EXCEPT ![w] = l],
         \A v \in Workers \ {w} : held'[v] = held[v],
         UNCHANGED <<queueVars, done, late, stage, verdict>>
  PROVE  IInv'
<1>1. pc'[w] = l /\ (\A v \in Workers \ {w} : pc'[v] = pc[v]) /\ l \notin Working
  BY DEF IInv, Typed, TypeOK, Working
<1>2. WorkerOwnsItsJob'
  BY <1>1 DEF IInv, WorkerOwnsItsJob, queueVars
<1>3. StagesInOrder'
  <2>1. ASSUME NEW v \in Workers, pc'[v] \in Working
        PROVE  Progress(v)'
    <3>1. v # w /\ Progress(v)
      BY <1>1, <2>1 DEF IInv, StagesInOrder
    <3> QED BY <1>1, <3>1 DEF Progress
  <2> QED BY <2>1 DEF IInv, StagesInOrder, queueVars
<1>4. LateOnce'
  BY <1>1 DEF IInv, LateOnce, queueVars
<1> QED BY <1>2, <1>3, <1>4 DEF IInv

\* What is to show of a step of a worker that has the flock and keeps its job.
LEMMA StageStepKeeps ==
  ASSUME IInv, Typed', NEW w \in Workers, NEW l \in Working,
         pc[w] \in Working, pc' = [pc EXCEPT ![w] = l],
         UNCHANGED <<queueVars, held, gate>>,
         Progress(w)',
         \A j \in 1..MaxJobs : \E m \in 0..Stages : done'[j] = 1..m,
         \A j \in (1..MaxJobs) \ {held[w]} : done'[j] = done[j],
         LateOnce'
  PROVE  IInv'
<1>1. pc'[w] = l /\ \A v \in Workers \ {w} : pc'[v] = pc[v]
  BY DEF IInv, Typed, TypeOK
<1>2. pc[w] \in Inside /\ l \in Inside
  BY DEF Inside
<1>3. \A v \in Workers \ {w} : pc'[v] \notin Working
  BY <1>1, <1>2, OneInside DEF IInv, Inside
<1>4. Guarded'
  BY <1>1, <1>2 DEF IInv, Guarded
<1>5. WorkerOwnsItsJob'
  BY <1>1, <1>3 DEF IInv, WorkerOwnsItsJob, queueVars
<1>6. StagesInOrder'
  <2>1. row[held[w]].status = "RUNNING"
    BY DEF IInv, WorkerOwnsItsJob
  <2>2. \A j \in DOMAIN row : j \in 1..MaxJobs
    BY JobQueueAssumption DEF IInv, Typed, TypeOK
  <2>3. \A j \in DOMAIN row' : row'[j].status = "SUCCEEDED" => done'[j] = 1..Stages
    BY <2>1, <2>2 DEF IInv, StagesInOrder, queueVars
  <2> QED BY <1>3, <2>3 DEF StagesInOrder
<1> QED BY <1>4, <1>5, <1>6 DEF IInv
\* The checks, the ends without report and the way out (worker.py).
LEMMA ChecksKeep ==
  ASSUME IInv, NEW w \in Workers,
         \/ StartJob(w) \/ AtBoundary(w) \/ OpenWarehouse(w) \/ CheckCompleted(w)
         \/ LastHeartbeat(w) \/ LeaseDenied(w) \/ TriggerFinalization(w)
  PROVE  IInv'
<1>1. Typed'
  BY MovesAreTyped DEF IInv
<1>2. UNCHANGED <<queueVars, held, gate, done, late, stage, verdict>>
  BY DEF StartJob, AtBoundary, OpenWarehouse, CheckCompleted, LastHeartbeat, LeaseDenied,
     TriggerFinalization, Move, Rest
<1> USE DEF Inside, Working, Before, After, Move, Goto
<1>3. CASE StartJob(w)
  <2>1. PICK l \in {"failing", "cancelling", "boundary"} : pc' = [pc EXCEPT ![w] = l]
    BY <1>3 DEF StartJob
  <2>2. pc[w] = "claimed"
    BY <1>3 DEF StartJob
  <2> QED BY <1>1, <1>2, <2>1, <2>2, QuietMoveKeeps
<1>4. CASE AtBoundary(w)
  <2>1. PICK l \in {"cancelling", "leaving", "opening", "entering"} :
          pc' = [pc EXCEPT ![w] = l] /\ (l \in {"opening", "entering"} => ~ CancelSeen(w))
    BY <1>4 DEF AtBoundary
  <2>2. pc[w] = "boundary"
    BY <1>4 DEF AtBoundary
  <2> QED BY <1>1, <1>2, <2>1, <2>2, QuietMoveKeeps
<1>5. CASE OpenWarehouse(w)
  <2>1. PICK l \in {"entering", "failing"} : pc' = [pc EXCEPT ![w] = l] /\ pc[w] = "opening"
    BY <1>5 DEF OpenWarehouse
  <2> QED BY <1>1, <1>2, <2>1, QuietMoveKeeps
<1>6. CASE CheckCompleted(w)
  <2>1. PICK l \in {"cancelling", "leaving", "reporting"} : pc' = [pc EXCEPT ![w] = l]
    BY <1>6 DEF CheckCompleted
  <2>2. pc[w] = "completed"
    BY <1>6 DEF CheckCompleted
  <2> QED BY <1>1, <1>2, <2>1, <2>2, QuietMoveKeeps
<1>7. CASE LastHeartbeat(w)
  <2>1. PICK l \in {"ending", "denied"} : pc' = [pc EXCEPT ![w] = l]
    BY <1>7 DEF LastHeartbeat
  <2>2. pc[w] = "reporting"
    BY <1>7 DEF LastHeartbeat
  <2> QED BY <1>1, <1>2, <2>1, <2>2, QuietMoveKeeps
<1>8. CASE LeaseDenied(w)
  <2>1. PICK l \in {"cancelling", "leaving"} : pc' = [pc EXCEPT ![w] = l]
    BY <1>8 DEF LeaseDenied
  <2>2. pc[w] = "denied"
    BY <1>8 DEF LeaseDenied
  <2> QED BY <1>1, <1>2, <2>1, <2>2, QuietMoveKeeps
<1>9. CASE TriggerFinalization(w)
  <2>1. pc' = [pc EXCEPT ![w] = "leaving"] /\ pc[w] = "triggering"
    BY <1>9 DEF TriggerFinalization
  <2> QED BY <1>1, <1>2, <2>1, QuietMoveKeeps
<1> QED BY <1>3, <1>4, <1>5, <1>6, <1>7, <1>8, <1>9

\* Taking and giving back the flock, dying, ending and starting again.
LEMMA IdleStepsKeep ==
  ASSUME IInv, NEW w \in Workers,
         AcquireGate(w) \/ LeaveGate(w) \/ Crash(w) \/ ExitLoop(w) \/ Restart(w) \/ StartAgain(w)
  PROVE  IInv'
<1>1. Typed'
  BY MovesAreTyped DEF IInv
<1>2. /\ UNCHANGED <<queueVars, done, late, stage, verdict>>
      /\ \E h \in {held[w], 0} : held' = [held EXCEPT ![w] = h]
  BY DEF AcquireGate, LeaveGate, Crash, ExitLoop, Restart, StartAgain, Move, Rest, IInv, Typed, TypeOK
<1>3. \A v \in Workers \ {w} : held'[v] = held[v]
  BY <1>2 DEF IInv, Typed, TypeOK
<1>4. PICK l \in {"off", "idle", "gated"} : pc' = [pc EXCEPT ![w] = l]
  BY DEF AcquireGate, LeaveGate, Crash, ExitLoop, Restart, StartAgain, Move, Goto
<1>5. pc'[w] = l /\ \A v \in Workers \ {w} : pc'[v] = pc[v]
  BY <1>4 DEF IInv, Typed, TypeOK
<1>6. Guarded'
  <2>1. CASE AcquireGate(w)
    <3>1. gate = NoWorker /\ gate' = w
      BY <2>1 DEF AcquireGate
    <3>2. \A v \in Workers : pc[v] \notin Inside
      BY <3>1, JobQueueAssumption DEF IInv, Guarded
    <3> QED BY <1>5, <3>1, <3>2 DEF Guarded
  <2>2. CASE LeaveGate(w)
    <3>1. pc[w] \in Inside /\ pc'[w] \notin Inside
      BY <1>5, <2>2 DEF LeaveGate, Move, Goto, Inside, Working
    <3>2. \A v \in Workers \ {w} : pc[v] \notin Inside
      BY <3>1, OneInside DEF IInv
    <3> QED BY <1>5, <3>1, <3>2 DEF Guarded
  <2>3. CASE Crash(w) \/ ExitLoop(w) \/ Restart(w) \/ StartAgain(w)
    <3>1. l \notin Inside
      BY <1>5, <2>3 DEF Crash, ExitLoop, Restart, StartAgain, Move, Goto, Inside, Working, IInv, Typed, TypeOK
    <3>2. \A v \in Workers \ {w} : gate = v => gate' = v
      BY <2>3 DEF Crash, ExitLoop, Restart, StartAgain, Rest
    <3> QED BY <1>5, <3>1, <3>2 DEF IInv, Guarded
  <2> QED BY <2>1, <2>2, <2>3
<1> QED BY <1>1, <1>2, <1>3, <1>4, <1>6, IdleMoveKeeps

\* Signals and the heartbeat thread touch nothing the invariant reads.
LEMMA SignalsKeep ==
  ASSUME IInv, NEW w \in Workers, BeatFails(w) \/ RequestStop(w)
  PROVE  IInv'
<1>1. Typed'
  BY MovesAreTyped DEF IInv
<1>2. UNCHANGED <<queueVars, pc, held, gate, done, late, stage, verdict>>
  BY DEF BeatFails, RequestStop
<1>3. Guarded' /\ WorkerOwnsItsJob' /\ LateOnce'
  BY <1>2 DEF IInv, Guarded, WorkerOwnsItsJob, LateOnce, queueVars
<1>4. \A v \in Workers : Progress(v)' <=> Progress(v)
  BY <1>2 DEF Progress
<1>5. StagesInOrder'
  BY <1>2, <1>4 DEF IInv, StagesInOrder, queueVars
<1> QED BY <1>1, <1>3, <1>5 DEF IInv
\* A stage begins (LeaseHeartbeat.__enter__).
LEMMA EnterStageKeeps ==
  ASSUME IInv, NEW w \in Workers, EnterStage(w)
  PROVE  IInv'
<1>1. Typed' /\ pc[w] = "entering" /\ UNCHANGED <<queueVars, held, gate, done, stage, verdict>>
  BY MovesAreTyped DEF IInv, EnterStage, Move
<1>2. CASE pc' = [pc EXCEPT ![w] = "denied"] /\ UNCHANGED late
  BY <1>1, <1>2, QuietMoveKeeps DEF Inside, Working, Before, After
<1>3. CASE /\ pc' = [pc EXCEPT ![w] = "executing"]
           /\ late' = [late EXCEPT ![held[w]] = @ + row[held[w]].cancel]
  <2> DEFINE j == held[w]
  <2>1. /\ j \in DOMAIN row /\ j \in 1..MaxJobs /\ row[j].cancel \in {0, 1}
        /\ pc[w] \in Working /\ Progress(w)
    BY <1>1, HeldRow DEF IInv, Rows, Working, StagesInOrder
  <2>2. late[j] = 0
    BY <1>1, <2>1 DEF IInv, LateOnce
  <2>3. late'[j] = row[j].cancel /\ \A i \in (1..MaxJobs) \ {j} : late'[i] = late[i]
    <3>1. late \in [1..MaxJobs -> Nat]
      BY DEF IInv, Typed, TypeOK
    <3> QED BY <1>3, <2>1, <2>2, <3>1
  <2>4. pc'[w] = "executing" /\ \A v \in Workers \ {w} : pc'[v] = pc[v]
    BY <1>3 DEF IInv, Typed, TypeOK
  <2>5. \A v \in Workers \ {w} : pc'[v] \notin {"opening", "entering"}
    BY <1>1, <2>4, OneInside DEF IInv, Inside, Working
  <2>6. LateOnce'
    BY <1>1, <2>1, <2>3, <2>4, <2>5 DEF IInv, LateOnce, queueVars
  <2>7. Progress(w)'
    BY <1>1, <2>1, <2>4 DEF Progress, Before, After
  <2>8. "executing" \in Working
    BY DEF Working
  <2> QED BY <1>1, <1>3, <2>1, <2>6, <2>7, <2>8, StageStepKeeps DEF IInv, StagesInOrder
<1> QED BY <1>2, <1>3 DEF EnterStage, Move, Goto

\* A stage returns (LeaseHeartbeat.__exit__).
LEMMA LeaveStageKeeps ==
  ASSUME IInv, NEW w \in Workers, LeaveStage(w)
  PROVE  IInv'
<1>1. /\ Typed' /\ pc[w] = "executing"
      /\ UNCHANGED <<queueVars, held, gate, done, late, stage>>
  BY MovesAreTyped DEF IInv, LeaveStage, Move
<1>2. PICK l \in {"denied", "closing"} : pc' = [pc EXCEPT ![w] = l]
  BY DEF LeaveStage, Move, Goto
<1>3. pc'[w] = l /\ (\A v \in Workers \ {w} : pc'[v] = pc[v]) /\ pc[w] \in Working /\ l \in Working
  BY <1>1, <1>2 DEF IInv, Typed, TypeOK, Working
<1>4. Progress(w)
  BY <1>3 DEF IInv, StagesInOrder
<1>5. Progress(w)'
  BY <1>1, <1>3, <1>4 DEF Progress, Before, After
<1>6. LateOnce'
  BY <1>1, <1>3 DEF IInv, LateOnce, queueVars
<1> QED BY <1>1, <1>2, <1>3, <1>5, <1>6, StageStepKeeps DEF IInv, StagesInOrder

\* A stage takes effect: it is the one after those that did.
LEMMA CommitStageKeeps ==
  ASSUME IInv, NEW w \in Workers, CommitStage(w)
  PROVE  IInv'
<1> DEFINE j == held[w]
<1>1. Typed' /\ pc[w] = "closing" /\ UNCHANGED <<queueVars, held, gate, late, stage>>
  BY MovesAreTyped DEF IInv, CommitStage, Move
<1>2. PICK l \in {"staged", "failing"} : pc' = [pc EXCEPT ![w] = l]
  BY DEF CommitStage, Move, Goto
<1>3. pc'[w] = l /\ (\A v \in Workers \ {w} : pc'[v] = pc[v]) /\ pc[w] \in Working /\ l \in Working
  BY <1>1, <1>2 DEF IInv, Typed, TypeOK, Working
<1>4. stage[w] \in 1..Stages /\ done[j] = 1..(stage[w] - 1) /\ j \in 1..MaxJobs
  BY <1>1, <1>3, HeldRow DEF IInv, StagesInOrder, Progress, Before
<1>5. verdict'[w] = "succeeded" => verdict[w] = "succeeded"
  BY DEF CommitStage, IInv, Typed, TypeOK
<1>6. /\ done'[j] = IF verdict[w] = "succeeded" THEN done[j] \cup {stage[w]} ELSE done[j]
      /\ \A i \in (1..MaxJobs) \ {j} : done'[i] = done[i]
  BY <1>4 DEF CommitStage, IInv, Typed, TypeOK
<1>7. done'[j] = IF verdict[w] = "succeeded" THEN 1..stage[w] ELSE 1..(stage[w] - 1)
  <2>1. Stages \in Nat
    BY WorkerAssumption
  <2>2. (1..(stage[w] - 1)) \cup {stage[w]} = 1..stage[w]
    BY <1>4, <2>1
  <2> QED BY <1>4, <1>6, <2>2
<1>8. Progress(w)'
  BY <1>1, <1>3, <1>4, <1>5, <1>7 DEF Progress, Before, After
<1>9. \A i \in 1..MaxJobs : \E m \in 0..Stages : done'[i] = 1..m
  <2>1. stage[w] \in 0..Stages /\ stage[w] - 1 \in 0..Stages
    BY <1>4, WorkerAssumption
  <2>2. \E m \in 0..Stages : done'[j] = 1..m
    BY <1>7, <2>1
  <2> QED BY <1>6, <2>2 DEF IInv, StagesInOrder
<1>10. LateOnce'
  BY <1>1, <1>3 DEF IInv, LateOnce, queueVars
<1> QED BY <1>1, <1>2, <1>3, <1>6, <1>8, <1>9, <1>10, StageStepKeeps

\* The next stage, or the end of the stages.
LEMMA NextStageKeeps ==
  ASSUME IInv, NEW w \in Workers, NextStage(w)
  PROVE  IInv'
<1>1. /\ Typed' /\ pc[w] = "staged"
      /\ UNCHANGED <<queueVars, held, gate, done, late, verdict>>
  BY MovesAreTyped DEF IInv, NextStage, Move
<1>2. pc[w] \in Working /\ Progress(w)
  BY <1>1 DEF Working, IInv, StagesInOrder
<1>3. stage[w] \in 1..Stages /\ Stages \in Nat
  BY <1>2, WorkerAssumption DEF Progress
<1>4. LateOnce' /\ Progress(w)' /\ \E l \in Working : pc' = [pc EXCEPT ![w] = l]
  <2>1. CASE verdict[w] = "succeeded" /\ stage[w] < Stages
    <3>1. pc' = [pc EXCEPT ![w] = "boundary"] /\ stage' = [stage EXCEPT ![w] = stage[w] + 1]
      BY <2>1 DEF NextStage, Move, Goto
    <3>2. /\ pc'[w] = "boundary" /\ stage'[w] = stage[w] + 1
          /\ \A v \in Workers \ {w} : pc'[v] = pc[v]
      BY <3>1 DEF IInv, Typed, TypeOK
    <3>3. stage'[w] \in 1..Stages /\ stage'[w] - 1 = stage[w]
      BY <1>3, <2>1, <3>2
    <3>4. Progress(w)'
      BY <1>1, <1>2, <2>1, <3>2, <3>3 DEF Progress, Before, After
    <3>5. LateOnce'
      BY <1>1, <3>2 DEF IInv, LateOnce, queueVars
    <3> QED BY <3>1, <3>4, <3>5 DEF Working
  <2>2. CASE ~(verdict[w] = "succeeded" /\ stage[w] < Stages)
    <3>1. pc' = [pc EXCEPT ![w] = "completed"] /\ stage' = stage
      BY <2>2 DEF NextStage, Move, Goto
    <3>2. pc'[w] = "completed" /\ \A v \in Workers \ {w} : pc'[v] = pc[v]
      BY <3>1 DEF IInv, Typed, TypeOK
    <3>3. verdict[w] = "succeeded" => stage[w] = Stages
      BY <1>3, <2>2
    <3>4. Progress(w)'
      BY <1>1, <1>2, <3>1, <3>2, <3>3 DEF Progress, Before, After
    <3>5. LateOnce'
      BY <1>1, <3>2 DEF IInv, LateOnce, queueVars
    <3> QED BY <3>1, <3>4, <3>5 DEF Working
  <2> QED BY <2>1, <2>2
<1> QED BY <1>1, <1>2, <1>4, StageStepKeeps DEF IInv, StagesInOrder
\* A worker with the flock leaves its job, or finds none; the queue may advance.
LEMMA LastStepKeeps ==
  ASSUME IInv, Typed', NEW w \in Workers, NEW l \in {"leaving", "triggering"},
         pc[w] \in Inside, pc' = [pc EXCEPT ![w] = l],
         UNCHANGED <<held, gate, done, late, stage, verdict>>, QueueAdvances,
         \A j \in DOMAIN row' : row'[j].status = "SUCCEEDED" =>
           \/ j \in DOMAIN row /\ row[j].status = "SUCCEEDED"
           \/ done[j] = 1..Stages
  PROVE  IInv'
<1>1. /\ pc'[w] = l /\ (\A v \in Workers \ {w} : pc'[v] = pc[v])
      /\ l \notin Working /\ l \notin {"opening", "entering"}
  BY DEF IInv, Typed, TypeOK, Working
<1>2. Guarded'
  BY <1>1 DEF IInv, Guarded
<1>3. \A v \in Workers : pc'[v] \notin Working
  BY <1>1, OneInside DEF IInv, Inside
<1>4. WorkerOwnsItsJob'
  BY <1>3 DEF WorkerOwnsItsJob
<1>5. StagesInOrder'
  BY <1>3 DEF IInv, StagesInOrder
<1>6. LateOnce'
  BY <1>1 DEF IInv, LateOnce, QueueAdvances
<1> QED BY <1>2, <1>4, <1>5, <1>6 DEF IInv

\* Nothing to claim, or told to stop.
LEMMA FindNothingKeeps ==
  ASSUME IInv, NEW w \in Workers, FindNothing(w)
  PROVE  IInv'
<1>1. /\ Typed' /\ pc[w] \in Inside /\ pc' = [pc EXCEPT ![w] = "leaving"]
      /\ UNCHANGED <<held, gate, done, late, stage, verdict>>
  BY OperationsAreTyped DEF IInv, FindNothing, Goto, Rest, Inside
<1>2. CASE UNCHANGED queueVars
  BY <1>1, <1>2, QuietMoveKeeps DEF Inside, Working, Before, After
<1>3. CASE ClaimNothing
  <2>1. QueueAdvances /\ NoneSucceeds
    BY <1>3, RecoveryAdvances DEF ClaimNothing, IInv
  <2> QED BY <1>1, <2>1, LastStepKeeps DEF NoneSucceeds
<1> QED BY <1>2, <1>3 DEF FindNothing

\* The end of a job: a success is reported only of one whose stages all took
\* effect (complete, fail, acknowledge_cancellation).
LEMMA EndKeeps ==
  ASSUME IInv, Typed', NEW w \in Workers, NEW from \in Working, NEW s \in Ended,
         NEW otherwise \in {"denied", "leaving"}, EndOrRaise(w, from, s, otherwise),
         s = "SUCCEEDED" => done[held[w]] = 1..Stages
  PROVE  IInv'
<1>1. /\ pc[w] = from /\ pc[w] \in Working /\ pc[w] \in Inside
      /\ UNCHANGED <<held, gate, done, late, stage, verdict>>
  BY DEF EndOrRaise, Rest, Inside
<1>2. CASE EndJob(held[w], w, s) /\ pc' = [pc EXCEPT ![w] = "triggering"]
  BY <1>1, <1>2, EndAdvances, LastStepKeeps DEF IInv
<1>3. CASE UNCHANGED queueVars /\ pc' = [pc EXCEPT ![w] = otherwise]
  BY <1>1, <1>3, QuietMoveKeeps DEF Inside, Working, Before, After
<1> QED BY <1>2, <1>3 DEF EndOrRaise, Goto

LEMMA EndsKeep ==
  ASSUME IInv, NEW w \in Workers, Report(w) \/ FailJob(w) \/ AcknowledgeCancel(w)
  PROVE  IInv'
<1>1. Typed'
  BY OperationsAreTyped DEF IInv
<1>2. CASE Report(w)
  <2> DEFINE s == IF verdict[w] = "succeeded" THEN "SUCCEEDED" ELSE "FAILED"
  <2>1. EndOrRaise(w, "ending", s, "denied")
    BY <1>2 DEF Report
  <2>2. pc[w] = "ending" /\ s \in Ended
    BY <2>1 DEF EndOrRaise, Ended
  <2>3. s = "SUCCEEDED" => done[held[w]] = 1..Stages
    BY <2>2 DEF IInv, StagesInOrder, Progress, Working, After
  <2>4. "ending" \in Working
    BY DEF Working
  <2> HIDE DEF s
  <2> QED BY <1>1, <2>1, <2>2, <2>3, <2>4, EndKeeps
<1>3. CASE FailJob(w)
  <2>1. "failing" \in Working /\ "FAILED" \in Ended
    BY DEF Working, Ended
  <2> QED BY <1>1, <1>3, <2>1, EndKeeps DEF FailJob
<1>4. CASE AcknowledgeCancel(w)
  <2>1. "cancelling" \in Working /\ "CANCELLED" \in Ended
    BY DEF Working, Ended
  <2> QED BY <1>1, <1>4, <2>1, EndKeeps DEF AcknowledgeCancel
<1> QED BY <1>2, <1>3, <1>4

\* A claimed job starts from nothing (claim, _process_claimed).
LEMMA TakeJobKeeps ==
  ASSUME IInv, NEW w \in Workers, TakeJob(w)
  PROVE  IInv'
<1>1. /\ Typed' /\ pc[w] \in Inside /\ pc' = [pc EXCEPT ![w] = "claimed"]
      /\ stage' = [stage EXCEPT ![w] = 1] /\ UNCHANGED <<gate, late>>
  BY OperationsAreTyped DEF IInv, TakeJob, Goto, Inside
<1>2. PICK j \in ReadyJobs :
        ClaimJob(w, j) /\ held' = [held EXCEPT ![w] = j] /\ done' = [done EXCEPT ![j] = {}]
  BY DEF TakeJob
<1>3. /\ QueueAdvances /\ NoneSucceeds
      /\ j \in DOMAIN row /\ row'[j].status = "RUNNING" /\ row'[j].owner = w
      /\ row[j].status # "SUCCEEDED" /\ j \in DOMAIN row'
  BY <1>2, ClaimAdvances DEF IInv, QueueAdvances
<1>4. j \in 1..MaxJobs
  BY <1>3, JobQueueAssumption DEF IInv, Typed, TypeOK
<1>5. /\ pc'[w] = "claimed" /\ held'[w] = j /\ stage'[w] = 1
      /\ \A v \in Workers \ {w} : pc'[v] = pc[v] /\ held'[v] = held[v]
  BY <1>1, <1>2 DEF IInv, Typed, TypeOK
<1>6. done'[j] = 1..0 /\ \A i \in (1..MaxJobs) \ {j} : done'[i] = done[i]
  BY <1>2, <1>4 DEF IInv, Typed, TypeOK
<1>7. Guarded'
  BY <1>1, <1>5 DEF IInv, Guarded
<1>8. \A v \in Workers \ {w} : pc'[v] \notin Working
  BY <1>1, <1>5, OneInside DEF IInv, Inside
<1>9. WorkerOwnsItsJob'
  BY <1>3, <1>5, <1>8 DEF WorkerOwnsItsJob
<1>10. StagesInOrder'
  <2>1. Progress(w)'
    BY <1>5, <1>6, WorkerAssumption DEF Progress, Before, After
  <2>2. \A i \in 1..MaxJobs : \E m \in 0..Stages : done'[i] = 1..m
    <3>1. 0 \in 0..Stages
      BY WorkerAssumption
    <3>2. \E m \in 0..Stages : done'[j] = 1..m
      BY <1>6, <3>1
    <3> QED BY <1>6, <3>2 DEF IInv, StagesInOrder
  <2>3. \A i \in DOMAIN row' : i \in 1..MaxJobs
    BY JobQueueAssumption, <1>1 DEF Typed, TypeOK
  <2>4. \A i \in DOMAIN row' : row'[i].status = "SUCCEEDED" => done'[i] = 1..Stages
    BY <1>3, <1>6, <2>3 DEF IInv, StagesInOrder, NoneSucceeds
  <2> QED BY <1>8, <2>1, <2>2, <2>4 DEF StagesInOrder
<1>11. LateOnce'
  BY <1>1, <1>3, <1>5 DEF IInv, LateOnce, QueueAdvances
<1> QED BY <1>1, <1>7, <1>9, <1>10, <1>11 DEF IInv

----------------------------------------------------------------------------
(* The theorems *)

LEMMA InitInvariant == Init => IInv
<1> SUFFICES ASSUME Init PROVE IInv
  OBVIOUS
<1>1. count = 0 /\ DOMAIN row = {}
  BY DEF Init, QueueInit
<1>2. Stages \in Nat \ {0} /\ MaxJobs \in Nat /\ MaxInterruptions \in Nat
  BY JobQueueAssumption, WorkerAssumption
<1>3. TypeOK
  <2>1. row \in [DOMAIN row -> Rows]
    BY DEF Init, QueueInit
  <2> QED BY <1>1, <1>2, <2>1 DEF Init, TypeOK, Locations
<1>4. Typed
  BY <1>1, <1>2, <1>3 DEF Typed
<1>5. \A w \in Workers : pc[w] = "idle"
  BY DEF Init
<1>6. Guarded /\ WorkerOwnsItsJob
  BY <1>5 DEF Guarded, WorkerOwnsItsJob, Inside, Working
<1>7. StagesInOrder
  <2>1. \A j \in 1..MaxJobs : done[j] = 1..0
    BY DEF Init
  <2>2. 0 \in 0..Stages
    BY <1>2
  <2>3. \A j \in 1..MaxJobs : \E m \in 0..Stages : done[j] = 1..m
    BY <2>1, <2>2
  <2> QED BY <1>1, <1>5, <2>3 DEF StagesInOrder, Working
<1>8. LateOnce
  BY DEF Init, LateOnce
<1> QED BY <1>4, <1>6, <1>7, <1>8 DEF IInv

LEMMA StepInvariant == IInv /\ [Next]_vars => IInv'
<1> SUFFICES ASSUME IInv, [Next]_vars PROVE IInv'
  OBVIOUS
<1>1. ASSUME NEW w \in Workers, WorkerStep(w)
      PROVE  IInv'
  BY <1>1, ChecksKeep, IdleStepsKeep, EnterStageKeeps, LeaveStageKeeps, CommitStageKeeps,
     NextStageKeeps, FindNothingKeeps, EndsKeep, TakeJobKeeps DEF WorkerStep
<1>2. ASSUME NEW w \in Workers, BeatFails(w) \/ RequestStop(w)
      PROVE  IInv'
  BY <1>2, SignalsKeep
<1>3. ASSUME NEW w \in Workers, Crash(w) \/ StartAgain(w)
      PROVE  IInv'
  BY <1>3, IdleStepsKeep
<1>4. ASSUME NEW d \in Identities, Submit(d) /\ UNCHANGED workerVars
      PROVE  IInv'
  BY <1>4, SubmitAdvances, OthersKeep DEF IInv
<1>5. ASSUME NEW j \in 1..count, CancelJob(j) /\ UNCHANGED workerVars
      PROVE  IInv'
  BY <1>5, CancelAdvances, OthersKeep DEF IInv
<1>6. ASSUME NEW j \in 1..count, LeaseLapses(j)
      PROVE  IInv'
  BY <1>6, LapseAdvances, OthersKeep DEF IInv, LeaseLapses
<1>7. CASE UNCHANGED vars
  <2>1. UNCHANGED queueVars /\ UNCHANGED workerVars
    BY <1>7 DEF vars
  <2>2. QueueAdvances /\ NoneSucceeds /\ RunningStay
    BY <2>1 DEF QueueAdvances, NoneSucceeds, RunningStay, IInv, Typed, TypeOK, queueVars
  <2> QED BY <2>1, <2>2, OthersKeep
<1> QED BY <1>1, <1>2, <1>3, <1>4, <1>5, <1>6, <1>7 DEF Next

\* The inductive invariant: the flock keeps one worker inside, its job is its own,
\* its stages take effect in order, and a cancellation is overlooked once at most.
THEOREM WorkerInduction == Spec => []IInv
<1>1. Init => IInv
  BY InitInvariant
<1>2. IInv /\ [Next]_vars => IInv'
  BY StepInvariant
<1> QED BY <1>1, <1>2, PTL DEF Spec

\* What the inductive invariant says of success and of cancellation.
LEMMA InvMeansSafe == IInv => WorkerInvariant
<1> SUFFICES ASSUME IInv PROVE WorkerInvariant
  OBVIOUS
<1>1. \A j \in DOMAIN row : j \in 1..MaxJobs
  BY JobQueueAssumption DEF IInv, Typed, TypeOK
<1>2. ASSUME NEW j \in DOMAIN row
      PROVE  done[j] = 1..Cardinality(done[j])
  <2>1. PICK m \in 0..Stages : done[j] = 1..m
    BY <1>1 DEF IInv, StagesInOrder
  <2>2. m \in Nat
    BY <2>1
  <2>3. Cardinality(1..m) = m
    BY <2>2, FS_Interval
  <2> QED BY <2>1, <2>3
<1>3. SuccessMeansAllStages
  BY <1>2 DEF SuccessMeansAllStages, IInv, StagesInOrder
<1>4. CancelStopsAtBoundary
  BY <1>1 DEF CancelStopsAtBoundary, IInv, LateOnce
<1> QED BY <1>3, <1>4 DEF IInv, Typed, WorkerInvariant

\* For every number of workers, jobs, stages, crashes and stop requests a worker's
\* job stays its own, success means that all stages took effect in order, and at
\* most one stage begins after a cancellation (_process_claimed,
\* execute_handler_stages).
THEOREM WorkersAreSafe == Spec => []WorkerInvariant
BY InvMeansSafe, WorkerInduction, PTL

----------------------------------------------------------------------------
(* ProviderRouting, the other part, for every list of providers, any number *)
(* of explicit ones and any number of callers                              *)

\* The inductive invariant: each record is consistent, and its status alone
\* tells whether the last recorded outcome was a failure.
StatusTells == \A p \in Routing!Providers : p \in faulted <=> health[p].status \in {"DEGRADED", "FAILING"}
RoutingInv == Routing!TypeOK /\ Routing!HealthIsConsistent /\ StatusTells

\* The type of a record of the store.
HealthRecord == [status : {"UNKNOWN", "HEALTHY", "DEGRADED", "FAILING"},
                failures : 0..Routing!Threshold, cooling : BOOLEAN]

\* HealthIsConsistent of one record.
Consistent(h) ==
  /\ h.failures >= Routing!Threshold \/ h.cooling => h.status = "FAILING"
  /\ h.status = "DEGRADED" => h.failures \in 1..(Routing!Threshold - 1)
  /\ h.status \in {"HEALTHY", "UNKNOWN"} => h.failures = 0

\* The name of no provider is a word of the router, in the instance either.
LEMMA RouterAssumption == Routing!RoutingAssumption
BY RoutingAssumption DEF AutoProviders, Providers, Routing!AutoProviders, Routing!Providers

\* A record stays consistent when a failure is added with either threshold
\* (record_failure), and then shows it.
LEMMA FailureKeepsRecord ==
  ASSUME NEW h \in HealthRecord, Consistent(h), NEW t \in {1, Routing!Threshold}
  PROVE  /\ Routing!Failed(h, t) \in HealthRecord
         /\ Consistent(Routing!Failed(h, t))
         /\ Routing!Failed(h, t).status \in {"DEGRADED", "FAILING"}
<1> DEFINE n == IF h.failures < Routing!Threshold THEN h.failures + 1 ELSE Routing!Threshold
<1>1. n \in 1..Routing!Threshold
  BY DEF Routing!Threshold, HealthRecord
<1>2. CASE n >= t
  BY <1>1, <1>2 DEF Routing!Failed, HealthRecord, Consistent, Routing!Threshold
<1>3. CASE ~(n >= t)
  <2>1. n < Routing!Threshold /\ n = h.failures + 1
    BY <1>1, <1>3 DEF Routing!Threshold, HealthRecord
  <2>2. h.cooling = FALSE \/ h.status = "FAILING"
    BY DEF Consistent, HealthRecord
  <2> QED BY <1>1, <1>3, <2>1, <2>2 DEF Routing!Failed, HealthRecord, Consistent, Routing!Threshold
<1> QED BY <1>2, <1>3

\* A step that replaces the record of one provider by a consistent one whose
\* status agrees with the history keeps the invariant.
LEMMA OneRecordReplaced ==
  ASSUME RoutingInv, Routing!TypeOK', NEW p \in Routing!Providers, NEW h \in HealthRecord, Consistent(h),
         health' = [health EXCEPT ![p] = h],
         \A q \in Routing!Providers \ {p} : q \in faulted' <=> q \in faulted,
         p \in faulted' <=> h.status \in {"DEGRADED", "FAILING"}
  PROVE  RoutingInv'
<1>1. /\ health'[p] = h
      /\ \A q \in Routing!Providers \ {p} : health'[q] = health[q]
  BY DEF RoutingInv, Routing!TypeOK
<1>2. Routing!HealthIsConsistent'
  BY <1>1 DEF RoutingInv, Routing!HealthIsConsistent, Consistent
<1>3. StatusTells'
  BY <1>1 DEF RoutingInv, StatusTells
<1> QED BY <1>2, <1>3 DEF RoutingInv

\* What a caller may become, whatever its request was answered.
LEMMA RequestType ==
  ASSUME Routing!TypeOK, NEW c \in Callers, NEW b \in BOOLEAN
  PROVE  /\ [Routing!Quiet EXCEPT !.answer = "ok"]
              \in [source : Routing!Sources \cup {"none"}, attempt : 0..Routing!ClientAttempts,
                   answer : {"none", "ok", "failed"}]
         /\ Routing!TryAgain(caller[c], b)
              \in [source : Routing!Sources \cup {"none"}, attempt : 0..Routing!ClientAttempts,
                   answer : {"none", "ok", "failed"}]
BY DEF Routing!TypeOK, Routing!TryAgain, Routing!Quiet, Routing!ClientAttempts

\* First is a member of a tier that is not empty.
LEMMA FirstIsMember ==
  ASSUME NEW S \in SUBSET DOMAIN Ranking, S # {}
  PROVE  \E i \in S : Routing!First(S) = Ranking[i]
<1>0. PICK n \in Nat : DOMAIN Ranking = 1..n
  BY RouterAssumption
<1>1. S \subseteq Nat
  BY <1>0
<1>2. PICK i \in S : \A j \in S : <<j, i>> \notin OpToRel(<, Nat)
  BY <1>1, NatLessThanWellFounded, WFMin, Zenon
<1>3. \A j \in S : <<j, i>> \in OpToRel(<, Nat) <=> j < i
  BY <1>1 DEF OpToRel
<1>4. ASSUME NEW j \in S
      PROVE  i <= j
  <2>1. i \in Nat /\ j \in Nat
    BY <1>1
  <2>2. ~(j < i)
    BY <1>2, <1>3
  <2> QED BY <2>1, <2>2
<1>5. (CHOOSE k \in S : \A j \in S : k <= j) \in S
  BY <1>4
<1> QED BY <1>5 DEF Routing!First

\* Resolve names a provider, or none; automatic routing names one of Ranking.
LEMMA ResolveType ==
  ASSUME NEW source \in Routing!Sources
  PROVE  /\ Routing!Resolve(source) \in Routing!Providers \cup {"none"}
         /\ Routing!Resolve("auto") \in Routing!AutoProviders \cup {"none"}
<1>1. \A statuses : Routing!Tier(statuses) \subseteq DOMAIN Ranking
  BY DEF Routing!Tier
<1>2. \A statuses : Routing!Tier(statuses) # {} => Routing!First(Routing!Tier(statuses)) \in Routing!AutoProviders
  BY <1>1, FirstIsMember DEF Routing!AutoProviders
<1> QED BY <1>2 DEF Routing!Resolve, Routing!Sources, Routing!Providers

\* Initially nothing is known of any provider.
LEMMA RoutingInit == Routing!Init => RoutingInv
<1> SUFFICES ASSUME Routing!Init PROVE RoutingInv
  OBVIOUS
<1>1. \A p \in Routing!Providers : health[p] = Routing!Unknown
  BY DEF Routing!Init
<1>2. Routing!Unknown \in HealthRecord
  BY DEF Routing!Unknown, HealthRecord, Routing!Threshold
<1>3. Routing!TypeOK
  <2>1. health \in [Routing!Providers -> HealthRecord]
    BY <1>2 DEF Routing!Init
  <2>2. Routing!Quiet \in [source : Routing!Sources \cup {"none"}, attempt : 0..Routing!ClientAttempts,
                   answer : {"none", "ok", "failed"}]
    BY DEF Routing!Quiet, Routing!ClientAttempts
  <2> QED BY <2>1, <2>2 DEF Routing!Init, Routing!TypeOK, HealthRecord
<1>4. Routing!HealthIsConsistent
  BY <1>1 DEF Routing!HealthIsConsistent, Routing!Unknown, Routing!Threshold
<1>5. StatusTells
  BY <1>1 DEF Routing!Init, StatusTells, Routing!Unknown
<1> QED BY <1>3, <1>4, <1>5 DEF RoutingInv

\* The types are preserved by every step.
LEMMA RoutingTypes == RoutingInv /\ [Routing!Next]_Routing!vars => Routing!TypeOK'
<1> SUFFICES ASSUME RoutingInv, [Routing!Next]_Routing!vars PROVE Routing!TypeOK'
  OBVIOUS
<1> USE DEF RoutingInv
<1>1. ASSUME NEW c \in Callers, NEW source \in Routing!Sources, Routing!Ask(c, source)
      PROVE  Routing!TypeOK'
  BY <1>1 DEF Routing!Ask, Routing!TypeOK, Routing!ClientAttempts
<1>2. ASSUME NEW c \in Callers, Routing!Refuse(c)
      PROVE  Routing!TypeOK'
  BY <1>2, RequestType DEF Routing!Refuse, Routing!TypeOK
<1>3. ASSUME NEW c \in Callers, Routing!Serve(c)
      PROVE  Routing!TypeOK'
  <2> DEFINE p == Routing!Resolve(caller[c].source)
  <2>1. p \in Routing!Providers
    BY <1>3, ResolveType DEF Routing!Serve, Routing!TypeOK
  <2> HIDE DEF p
  <2>2. PICK outcome \in Routing!Outcomes(p), slow \in BOOLEAN :
          /\ health' = [health EXCEPT ![p] = Routing!Record(p, outcome)]
          /\ caller' = [caller EXCEPT ![c] =
               IF outcome = "ok" /\ ~slow THEN [Routing!Quiet EXCEPT !.answer = "ok"]
               ELSE Routing!TryAgain(@, slow \/ Routing!Retryable(outcome))]
          /\ faulted' \in {faulted \ {p}, faulted \cup {p}, faulted}
          /\ UNCHANGED calm
    BY <1>3 DEF Routing!Serve, p
  <2>3. Routing!Record(p, outcome) \in HealthRecord
    BY <2>1, FailureKeepsRecord DEF Routing!Record, HealthRecord, Routing!HealthIsConsistent,
       Consistent, Routing!TypeOK,
       Routing!Healthy, Routing!Threshold
  <2>4. health' \in [Routing!Providers -> HealthRecord]
    BY <2>2, <2>3 DEF Routing!TypeOK, HealthRecord
  <2>5. (slow \/ Routing!Retryable(outcome)) \in BOOLEAN
    OBVIOUS
  <2>6. caller'[c] \in [source : Routing!Sources \cup {"none"}, attempt : 0..Routing!ClientAttempts,
                        answer : {"none", "ok", "failed"}]
    BY <2>2, <2>5, RequestType DEF Routing!TypeOK
  <2>7. caller' \in [Callers -> [source : Routing!Sources \cup {"none"}, attempt : 0..Routing!ClientAttempts,
                                 answer : {"none", "ok", "failed"}]]
    BY <2>2, <2>6 DEF Routing!TypeOK
  <2>8. faulted' \subseteq Routing!Providers
    BY <2>1, <2>2 DEF Routing!TypeOK
  <2> QED BY <2>2, <2>4, <2>7, <2>8 DEF Routing!TypeOK, HealthRecord
<1>4. ASSUME NEW p \in Routing!Providers, Routing!CooldownExpires(p)
      PROVE  Routing!TypeOK'
  BY <1>4 DEF Routing!CooldownExpires, Routing!TypeOK
<1>5. CASE Routing!Restart
  <2>1. Routing!Unknown \in HealthRecord
    BY DEF Routing!Unknown, HealthRecord, Routing!Threshold
  <2>2. health' \in [Routing!Providers -> HealthRecord]
    BY <1>5, <2>1 DEF Routing!Restart
  <2>3. caller' \in [Callers -> [source : Routing!Sources \cup {"none"}, attempt : 0..Routing!ClientAttempts,
                                 answer : {"none", "ok", "failed"}]]
    BY <1>5, RequestType DEF Routing!Restart, Routing!TypeOK
  <2> QED BY <1>5, <2>2, <2>3 DEF Routing!Restart, Routing!TypeOK, HealthRecord
<1>6. CASE Routing!TroubleEnds
  BY <1>6 DEF Routing!TroubleEnds, Routing!TypeOK
<1>7. CASE UNCHANGED Routing!vars
  BY <1>7 DEF Routing!vars, Routing!TypeOK
<1> QED BY <1>1, <1>2, <1>3, <1>4, <1>5, <1>6, <1>7 DEF Routing!Next

\* Every step preserves the invariant; the steps that write a record do it by
\* way of record_failure or record_success.
LEMMA RoutingStep == RoutingInv /\ [Routing!Next]_Routing!vars => RoutingInv'
<1> SUFFICES ASSUME RoutingInv, [Routing!Next]_Routing!vars PROVE RoutingInv'
  OBVIOUS
<1>t. Routing!TypeOK'
  BY RoutingTypes
<1>1. ASSUME UNCHANGED <<health, faulted>>
      PROVE  RoutingInv'
  BY <1>1, <1>t DEF RoutingInv, Routing!HealthIsConsistent, StatusTells
<1>2. ASSUME NEW c \in Callers, Routing!Serve(c)
      PROVE  RoutingInv'
  <2> DEFINE p == Routing!Resolve(caller[c].source)
  <2>1. p \in Routing!Providers
    BY <1>2, ResolveType DEF Routing!Serve, RoutingInv, Routing!TypeOK
  <2> HIDE DEF p
  <2>2. PICK outcome \in Routing!Outcomes(p) :
          /\ health' = [health EXCEPT ![p] = Routing!Record(p, outcome)]
          /\ faulted' = CASE outcome = "ok" -> faulted \ {p}
                          [] Routing!IsFault(outcome) -> faulted \cup {p}
                          [] OTHER -> faulted
    BY <1>2 DEF Routing!Serve, p
  <2>3. health[p] \in HealthRecord /\ Consistent(health[p])
    BY <2>1 DEF RoutingInv, Routing!TypeOK, HealthRecord, Routing!HealthIsConsistent, Consistent
  <2>4. CASE outcome = "ok"
    <3>1. Routing!Healthy \in HealthRecord /\ Consistent(Routing!Healthy) /\ Routing!Healthy.status = "HEALTHY"
      BY DEF Routing!Healthy, HealthRecord, Consistent, Routing!Threshold
    <3>2. Routing!Record(p, outcome) = Routing!Healthy /\ ~Routing!IsFault(outcome)
      BY <2>4 DEF Routing!Record, Routing!IsFault
    <3>3. health' = [health EXCEPT ![p] = Routing!Healthy] /\ faulted' = faulted \ {p}
      BY <2>2, <2>4, <3>2
    <3> QED BY <1>t, <2>1, <3>1, <3>3, OneRecordReplaced
  <2>5. CASE Routing!IsFault(outcome)
    <3>1. PICK t \in {1, Routing!Threshold} : Routing!Record(p, outcome) = Routing!Failed(health[p], t)
      BY <2>5 DEF Routing!Record, Routing!IsFault
    <3>2. faulted' = faulted \cup {p} /\ health' = [health EXCEPT ![p] = Routing!Failed(health[p], t)]
      BY <2>2, <2>5, <3>1 DEF Routing!IsFault
    <3>3. /\ Routing!Failed(health[p], t) \in HealthRecord
          /\ Consistent(Routing!Failed(health[p], t))
          /\ Routing!Failed(health[p], t).status \in {"DEGRADED", "FAILING"}
      BY <2>3, FailureKeepsRecord
    <3> QED BY <1>t, <2>1, <3>2, <3>3, OneRecordReplaced
  <2>6. CASE outcome # "ok" /\ ~Routing!IsFault(outcome)
    <3>1. faulted' = faulted /\ health' = [health EXCEPT ![p] = health[p]]
      BY <2>2, <2>6 DEF Routing!Record, Routing!IsFault
    <3>2. health' = health
      BY <3>1 DEF RoutingInv, Routing!TypeOK
    <3> QED BY <1>1, <3>1, <3>2
  <2> QED BY <2>4, <2>5, <2>6
<1>3. ASSUME NEW p \in Routing!Providers, Routing!CooldownExpires(p)
      PROVE  RoutingInv'
  <2> DEFINE h == [health[p] EXCEPT !.cooling = FALSE]
  <2>1. h \in HealthRecord /\ Consistent(h) /\ h.status = health[p].status
    BY DEF RoutingInv, Routing!TypeOK, HealthRecord, Routing!HealthIsConsistent, Consistent
  <2>2. health' = [health EXCEPT ![p] = h] /\ faulted' = faulted
    BY <1>3 DEF Routing!CooldownExpires, RoutingInv, Routing!TypeOK
  <2>3. p \in faulted' <=> h.status \in {"DEGRADED", "FAILING"}
    BY <2>1, <2>2 DEF RoutingInv, StatusTells
  <2> HIDE DEF h
  <2> QED BY <1>t, <2>1, <2>2, <2>3, OneRecordReplaced
<1>4. CASE Routing!Restart
  BY <1>4, <1>t DEF Routing!Restart, RoutingInv, Routing!HealthIsConsistent, StatusTells,
     Routing!Unknown, Routing!Threshold
<1>5. ASSUME NEW c \in Callers, NEW source \in Routing!Sources, Routing!Ask(c, source)
      PROVE  RoutingInv'
  BY <1>1, <1>5 DEF Routing!Ask
<1>6. ASSUME NEW c \in Callers, Routing!Refuse(c)
      PROVE  RoutingInv'
  BY <1>1, <1>6 DEF Routing!Refuse
<1>7. CASE Routing!TroubleEnds
  BY <1>1, <1>7 DEF Routing!TroubleEnds
<1>8. CASE UNCHANGED Routing!vars
  BY <1>1, <1>8 DEF Routing!vars
<1> QED BY <1>2, <1>3, <1>4, <1>5, <1>6, <1>7, <1>8 DEF Routing!Next

\* In a state of the invariant automatic routing asks a provider that failed
\* last only if all that it may choose failed last (_resolve_auto).
LEMMA LastResort == RoutingInv => Routing!FailedProviderIsLastResort
<1> SUFFICES ASSUME RoutingInv, Routing!Resolve("auto") \in faulted, NEW p \in Routing!AutoProviders
             PROVE  p \in faulted
  BY DEF Routing!FailedProviderIsLastResort
<1> DEFINE Best == Routing!Tier({"HEALTHY", "UNKNOWN"})
<1>1. \A i \in DOMAIN Ranking : Ranking[i] \in Routing!Providers
  BY DEF Routing!Providers, Routing!AutoProviders
<1>2. CASE Best # {}
  <2>1. Best \in SUBSET DOMAIN Ranking
    BY DEF Routing!Tier
  <2>2. PICK i \in Best : Routing!First(Best) = Ranking[i]
    BY <1>2, <2>1, FirstIsMember
  <2>3. Routing!Resolve("auto") = Ranking[i]
    BY <1>2, <2>2 DEF Routing!Resolve
  <2>4. health[Ranking[i]].status \in {"HEALTHY", "UNKNOWN"}
    BY <2>2 DEF Routing!Tier
  <2> QED BY <1>1, <2>1, <2>2, <2>3, <2>4 DEF RoutingInv, StatusTells
<1>3. CASE Best = {}
  <2>1. PICK i \in DOMAIN Ranking : p = Ranking[i]
    BY DEF Routing!AutoProviders
  <2>2. health[p].cooling \/ health[p].status \notin {"HEALTHY", "UNKNOWN"}
    BY <1>3, <2>1 DEF Routing!Tier, Routing!Cooled
  <2>3. health[p].status \in {"DEGRADED", "FAILING"}
    BY <1>1, <2>1, <2>2 DEF RoutingInv, Routing!TypeOK, Routing!HealthIsConsistent
  <2> QED BY <1>1, <2>1, <2>3 DEF RoutingInv, StatusTells
<1> QED BY <1>2, <1>3

\* Whatever the order of successes, failures with either threshold, cooldowns and
\* restarts, the store's records stay consistent and their status tells whether
\* the last outcome was a failure (record_success, record_failure).
THEOREM HealthInvariant == Routing!Spec => []RoutingInv
<1>1. Routing!Init => RoutingInv
  BY RoutingInit
<1>2. RoutingInv /\ [Routing!Next]_Routing!vars => RoutingInv'
  BY RoutingStep
<1> QED BY <1>1, <1>2, PTL DEF Routing!Spec

\* Only a FAILING provider is in its cooldown, one at the threshold is FAILING,
\* and a provider that failed last is a last resort, for every list of providers
\* (RoutingInvariant).
THEOREM RoutingIsSound == Routing!Spec => []Routing!RoutingInvariant
<1>1. RoutingInv => Routing!RoutingInvariant
  BY LastResort DEF RoutingInv, Routing!RoutingInvariant
<1> QED BY <1>1, HealthInvariant, PTL

----------------------------------------------------------------------------
(* The composition: each part keeps its invariant, the other stands still *)

PartsInv == IInv /\ RoutingInv

\* The two inductive invariants hold together.
LEMMA PartsInduction == PartsSpec => []PartsInv
<1>1. PartsInit => PartsInv
  BY InitInvariant, RoutingInit DEF PartsInit, PartsInv
<1>2. PartsInv /\ [PartsNext]_<<part, vars, routingVars>> => PartsInv'
  <2> SUFFICES ASSUME PartsInv, [PartsNext]_<<part, vars, routingVars>> PROVE PartsInv'
    OBVIOUS
  <2>1. Next \/ UNCHANGED vars
    BY DEF PartsNext, WorkerMoves, RoutingMoves
  <2>2. [Routing!Next]_Routing!vars
    BY DEF PartsNext, WorkerMoves, RoutingMoves, routingVars, Routing!vars
  <2> QED BY <2>1, <2>2, StepInvariant, RoutingStep DEF PartsInv
<1> QED BY <1>1, <1>2, PTL DEF PartsSpec

\* Beside a router that works at the same time the workers are as safe.
THEOREM WorkersAreSafeTogether == PartsSpec => []WorkerInvariant
<1>1. PartsInv => WorkerInvariant
  BY InvMeansSafe DEF PartsInv
<1> QED BY <1>1, PartsInduction, PTL

\* For every list of providers and any number of callers the store's records are
\* consistent, and automatic routing asks a provider that failed last only if all
\* that it may choose failed last (record_success, record_failure, _resolve_auto).
THEOREM ChoicesAreSound == PartsSpec => []RoutingInvariant
<1>1. PartsInv => RoutingInvariant
  BY LastResort DEF RoutingInv, PartsInv, RoutingInvariant, Routing!RoutingInvariant
<1> QED BY <1>1, PartsInduction, PTL

=============================================================================
