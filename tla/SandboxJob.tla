----------------------------- MODULE SandboxJob -----------------------------
(***************************************************************************)
(* One job of the offline compute sandbox: a preview stores its code, a     *)
(* user approves the prepared turn, and executing the turn claims the job,  *)
(* guards the code, runs it in a container, validates what it left behind   *)
(* and seals the files of the job directory in a manifest.                  *)
(*                                                                         *)
(* The preview and each execution are one transaction of the warehouse's    *)
(* write coordinator, whose lock they hold from their first statement to    *)
(* the COMMIT: what they do to the row is seen by nobody before, and is      *)
(* undone when they die or raise.  The files are not, and the container is   *)
(* Docker's and outlives everybody.                                         *)
(*                                                                         *)
(* A file is a number: 0 when absent, the count of events for the lifecycle *)
(* file, and Good or Bad where the content is a verdict or is judged.       *)
(***************************************************************************)
EXTENDS Naturals, FiniteSets

CONSTANTS
  Executors,   \* callers of execute_prepared_sandbox_turn
  Turns,       \* prepared turns of the job; a changed plan is another turn
  Preparer     \* the caller of prepare_job

VARIABLES
  status,      \* of the row in sandbox_job, as committed
  code,        \* what the static guard says of the code: Good or Bad
  host,        \* files the host writes
  output,      \* what the container wrote
  manifest,    \* digests of host files and output, as listed
  container,
  runners,     \* the callers that have started a container
  approved,    \* the turns with a stored approval
  caller

vars == <<status, code, host, output, manifest, container, runners, approved, caller>>
artifacts == <<host, output, manifest>>

Absent == 0
Good == 1
Bad == 2

Files == {"request", "guard", "execution", "lifecycle", "validation"}
NoFiles == [f \in Files |-> Absent]
NoManifest == [entries |-> NoFiles, output |-> Absent]

Active == {"queued", "validating", "running"}
Terminal == {"succeeded", "failed", "rejected"}

\* The places where a caller writes, and the file it writes there.
FileAt ==
  [newRequest |-> "request", created |-> "lifecycle",
   request |-> "request", guard |-> "guard", started |-> "lifecycle", evidence |-> "execution",
   validation |-> "validation", finalValidation |-> "validation",
   denied |-> "lifecycle", succeeded |-> "lifecycle", failed |-> "lifecycle"]
Writing == DOMAIN FileAt

Outside == {"create", "prepared", "idle", "answered", "lost"}   \* of the transaction
Steps == Writing \cup Outside \cup {"loaded", "bound", "reject", "run", "wait", "validate", "manifest",
                                    "mark", "revalidate", "finalManifest", "commit"}

Callers == Executors \cup {Preparer}

TypeOK ==
  /\ status \in {"none"} \cup Active \cup Terminal
  /\ code \in {Good, Bad} /\ output \in {Absent, Good, Bad}
  /\ host \in [Files -> Nat]
  /\ manifest \in [entries : [Files -> Nat], output : {Absent, Good, Bad}]
  /\ container \in {"none", "running", "exited", "stray", "lost"}
  /\ runners \subseteq Executors /\ approved \subseteq Turns
  /\ caller \in [Callers -> [pc : Steps, turn : Turns, row : {"none"} \cup Active \cup Terminal,
                             mid : BOOLEAN, entries : [Files -> Nat], seen : {Absent, Good, Bad},
                             result : {"none"} \cup Terminal]]

\* row is the job's status as the caller's own transaction sees it.
Idle(pc) == [pc |-> pc, turn |-> CHOOSE t \in Turns : TRUE, row |-> "none", mid |-> FALSE,
             entries |-> NoFiles, seen |-> Absent, result |-> "none"]

Init ==
  /\ status = "none"
  /\ code \in {Good, Bad}
  /\ host = NoFiles /\ output = Absent /\ manifest = NoManifest
  /\ container = "none" /\ runners = {}
  /\ approved = {}
  /\ caller = [c \in Callers |-> Idle(IF c = Preparer THEN "create" ELSE "idle")]

At(c, pc) == caller[c].pc = pc

Goto(c, pc) == caller' = [caller EXCEPT ![c].pc = pc]

\* Between BEGIN and the end of the caller's transaction.
InTransaction(c) == caller[c].pc \notin Outside

WarehouseFree == \A c \in Callers : ~ InTransaction(c)

----------------------------------------------------------------------------
(* SandboxArtifactWriter: every method removes the manifest, writes its files *)
(* and then remembers their digests.  Several files of a method count as one. *)

InvalidateManifest_Keep(c) ==
  /\ caller[c].pc \in Writing /\ ~ caller[c].mid
  /\ LET restart == FileAt[caller[c].pc] = "request" IN
       /\ host' = IF restart THEN [host EXCEPT !.guard = Absent] ELSE host
       /\ caller' = [caller EXCEPT ![c].mid = TRUE, ![c].entries = IF restart THEN NoFiles ELSE @]
  /\ UNCHANGED <<status, code, output, manifest, container, runners, approved>>

\* persist_request also starts the evidence over and removes the old decision.
InvalidateManifest(c) ==
  /\ caller[c].pc \in Writing /\ ~ caller[c].mid
  /\ manifest' = NoManifest
  /\ LET restart == FileAt[caller[c].pc] = "request" IN
       /\ host' = IF restart THEN [host EXCEPT !.guard = Absent] ELSE host
       /\ caller' = [caller EXCEPT ![c].mid = TRUE, ![c].entries = IF restart THEN NoFiles ELSE @]
  /\ UNCHANGED <<status, code, output, container, runners, approved>>

Content(c) ==
  CASE FileAt[caller[c].pc] = "guard" -> code
    [] FileAt[caller[c].pc] = "lifecycle" -> host.lifecycle + 1
    [] FileAt[caller[c].pc] = "validation" -> caller[c].seen
    [] OTHER -> Good

Written(c) == [host EXCEPT ![FileAt[caller[c].pc]] = Content(c)]

\* Where the caller goes on after it has written.
After(c) ==
  CASE At(c, "newRequest") -> "created"
    [] At(c, "created") -> "commit"
    [] At(c, "request") -> "guard"
    [] At(c, "guard") -> IF code = Good THEN "started" ELSE "reject"
    [] At(c, "started") -> "run"
    [] At(c, "evidence") -> IF caller[c].result = "succeeded" THEN "validate" ELSE "mark"
    [] At(c, "validation") -> "manifest"
    [] At(c, "finalValidation") -> "finalManifest"
    [] OTHER -> "revalidate"

\* The entry of the validation file is kept only with the manifest.
WriteFile(c) ==
  /\ caller[c].mid
  /\ host' = Written(c)
  /\ LET file == FileAt[caller[c].pc] IN
       caller' = [caller EXCEPT ![c].pc = After(c), ![c].mid = FALSE,
                                ![c].entries[file] = IF file = "validation" THEN @ ELSE Content(c)]
  /\ UNCHANGED <<status, code, output, manifest, container, runners, approved>>

\* Of the manifest's digests those of the output are taken from what is there
\* now; outputs that fail validation may be listed in part.
SealManifest(c) ==
  /\ caller[c].pc \in {"manifest", "finalManifest"}
  /\ \E o \in IF caller[c].seen = Good THEN {output} ELSE {Absent, output} :
       LET entries == [caller[c].entries EXCEPT !.validation = caller[c].seen] IN
         /\ manifest' = [entries |-> entries, output |-> o]
         /\ caller' = [caller EXCEPT ![c] =
              IF @.pc = "finalManifest" THEN [@ EXCEPT !.pc = "commit", !.entries = entries]
              ELSE [@ EXCEPT !.pc = "mark", !.entries = entries,
                             !.result = IF caller[c].seen = Good THEN "succeeded" ELSE "failed"]]
  /\ UNCHANGED <<status, code, host, output, container, runners, approved>>

----------------------------------------------------------------------------
(* The preview and the approval *)

\* prepare_job: the row comes first; then persist_request and the first event.
CreateJob ==
  /\ At(Preparer, "create") /\ WarehouseFree
  /\ caller' = [caller EXCEPT ![Preparer].pc = "newRequest", ![Preparer].row = "queued"]
  /\ UNCHANGED <<status, code, artifacts, container, runners, approved>>

\* The turn the user is shown, approved in a transaction of its own; a job no
\* longer queued is refused.
Approve(t) ==
  /\ At(Preparer, "prepared") /\ WarehouseFree
  /\ status = "queued"
  /\ approved' = approved \cup {t}
  /\ UNCHANGED <<status, code, artifacts, container, runners, caller>>

----------------------------------------------------------------------------
(* execute_prepared_sandbox_turn, inside the coordinator's transaction *)

LoadJob_Unlocked(c) ==
  /\ At(c, "idle") /\ status = "queued"
  /\ \E t \in Turns : caller' = [caller EXCEPT ![c] = [Idle("loaded") EXCEPT !.turn = t, !.row = status]]
  /\ UNCHANGED <<status, code, artifacts, container, runners, approved>>

\* The coordinator's lock, BEGIN, and the retained row and files.
LoadJob(c) ==
  /\ At(c, "idle") /\ WarehouseFree
  /\ status = "queued"
  /\ \E t \in Turns : caller' = [caller EXCEPT ![c] = [Idle("loaded") EXCEPT !.turn = t, !.row = status]]
  /\ UNCHANGED <<status, code, artifacts, container, runners, approved>>

RequireApproval_AnyTurn(c) ==
  /\ At(c, "loaded")
  /\ caller' = [caller EXCEPT ![c] = IF approved # {} THEN [@ EXCEPT !.pc = "bound"] ELSE Idle("idle")]
  /\ UNCHANGED <<status, code, artifacts, container, runners, approved>>

\* Without an approval of this turn the transaction ends with nothing done.
RequireApproval(c) ==
  /\ At(c, "loaded")
  /\ caller' = [caller EXCEPT ![c] = IF @.turn \in approved THEN [@ EXCEPT !.pc = "bound"] ELSE Idle("idle")]
  /\ UNCHANGED <<status, code, artifacts, container, runners, approved>>

\* UPDATE ... WHERE status = 'queued'.
ClaimForValidation(c) ==
  /\ At(c, "bound")
  /\ caller' = [caller EXCEPT ![c] =
       IF @.row = "queued" THEN [@ EXCEPT !.pc = "request", !.row = "validating"] ELSE Idle("idle")]
  /\ UNCHANGED <<status, code, artifacts, container, runners, approved>>

RejectCode(c) ==
  /\ At(c, "reject")
  /\ caller[c].row \in Active
  /\ caller' = [caller EXCEPT ![c].pc = "denied", ![c].row = "rejected", ![c].result = "rejected"]
  /\ UNCHANGED <<status, code, artifacts, container, runners, approved>>

\* require_persisted_guard, and the decision itself.
Guarded(c) == code = Good /\ caller[c].entries.guard = code

\* The container's name is the job directory's: while one of an earlier
\* execution is there docker refuses another.
StartContainer(c) ==
  /\ At(c, "run") /\ Guarded(c) /\ container # "stray"
  /\ container' = "running"
  /\ runners' = runners \cup {c}
  /\ Goto(c, "wait")
  /\ UNCHANGED <<status, code, artifacts, approved>>

NameIsTaken(c) ==
  /\ At(c, "run") /\ Guarded(c) /\ container = "stray"
  /\ caller' = [caller EXCEPT ![c].pc = "evidence", ![c].result = "failed"]
  /\ UNCHANGED <<status, code, artifacts, container, runners, approved>>

\* The preflight or the launch fails, which leaves evidence; or the guard's
\* decision is not there, which leaves none.
RefuseRun(c) ==
  /\ At(c, "run")
  /\ caller' = [caller EXCEPT ![c].pc = IF Guarded(c) THEN "evidence" ELSE "mark", ![c].result = "rejected"]
  /\ UNCHANGED <<status, code, artifacts, container, runners, approved>>

RunReturns(c) ==
  /\ At(c, "wait") /\ container = "exited"
  /\ \E r \in {"succeeded", "failed"} : caller' = [caller EXCEPT ![c].pc = "evidence", ![c].result = r]
  /\ UNCHANGED <<status, code, artifacts, container, runners, approved>>

RunTimesOut_NoTimeout(c) ==
  /\ At(c, "wait") /\ container = "exited"
  /\ caller' = [caller EXCEPT ![c].pc = "evidence", ![c].result = "failed"]
  /\ UNCHANGED <<status, code, artifacts, container, runners, approved>>

\* docker kill may fail: the container is left to itself.
RunTimesOut(c) ==
  /\ At(c, "wait") /\ container = "running"
  /\ container' \in {"exited", "stray"}
  /\ caller' = [caller EXCEPT ![c].pc = "evidence", ![c].result = "failed"]
  /\ UNCHANGED <<status, code, artifacts, runners, approved>>

Validate_Trust(c) ==
  /\ caller[c].pc \in {"validate", "revalidate"}
  /\ caller' = [caller EXCEPT ![c].seen = IF output = Absent THEN Bad ELSE Good,
                              ![c].pc = IF @ = "validate" THEN "validation" ELSE "finalValidation"]
  /\ UNCHANGED <<status, code, artifacts, container, runners, approved>>

\* Before the job is concluded, and once more after the last event.
Validate(c) ==
  /\ caller[c].pc \in {"validate", "revalidate"}
  /\ caller' = [caller EXCEPT ![c].seen = IF output = Good THEN Good ELSE Bad,
                              ![c].pc = IF @ = "validate" THEN "validation" ELSE "finalValidation"]
  /\ UNCHANGED <<status, code, artifacts, container, runners, approved>>

\* Evidence or finalization cannot be stored: a failure with a status.
PersistenceFails(c) ==
  /\ caller[c].pc \in {"evidence", "validation", "manifest"}
  /\ host' \in {host} \cup (IF caller[c].mid THEN {Written(c)} ELSE {})
  /\ caller' = [caller EXCEPT ![c].pc = "mark", ![c].mid = FALSE, ![c].result = "failed"]
  /\ UNCHANGED <<status, code, output, manifest, container, runners, approved>>

\* mark_succeeded, mark_failed or mark_rejected of a job that is still active.
MarkTerminal(c) ==
  /\ At(c, "mark")
  /\ LET me == caller[c] won == me.result = "succeeded" /\ me.row \in Active IN
       caller' = [caller EXCEPT ![c].pc = IF won THEN "succeeded" ELSE "failed",
                                ![c].row = IF @ \in Active THEN me.result ELSE @,
                                ![c].result = IF won \/ @ = "rejected" THEN @ ELSE "failed"]
  /\ UNCHANGED <<status, code, artifacts, container, runners, approved>>

\* The answer is made and the coordinator commits.
Commit(c) ==
  /\ At(c, "commit")
  /\ status' = caller[c].row
  /\ Goto(c, IF c = Preparer THEN "prepared" ELSE "answered")
  /\ UNCHANGED <<code, artifacts, container, runners, approved>>

----------------------------------------------------------------------------
(* The container, and the loss of a transaction *)

ContainerWrites ==
  /\ container \in {"running", "stray"}
  /\ output' \in {Good, Bad}
  /\ UNCHANGED <<status, code, host, manifest, container, runners, approved, caller>>

ContainerExits ==
  /\ container' = [running |-> "exited", stray |-> "lost"][container]
  /\ UNCHANGED <<status, code, artifacts, runners, approved, caller>>

\* A kill, an exception that nothing in the transaction catches, or a COMMIT
\* that fails: the row is as it was, whatever was being written may be there
\* or not, and this caller does not come back.
RollBack(c) ==
  /\ InTransaction(c)
  /\ caller' = [caller EXCEPT ![c] = Idle("lost")]
  /\ host' \in {host} \cup (IF caller[c].mid THEN {Written(c)} ELSE {})
  /\ container' = IF At(c, "wait") /\ container = "running" THEN "stray" ELSE container
  /\ UNCHANGED <<status, code, output, manifest, runners, approved>>

\* Everything a transaction does by itself.
Proceed(c) ==
  \/ RequireApproval(c) \/ ClaimForValidation(c)
  \/ InvalidateManifest(c) \/ WriteFile(c) \/ SealManifest(c)
  \/ RejectCode(c) \/ StartContainer(c) \/ NameIsTaken(c) \/ RefuseRun(c) \/ RunReturns(c) \/ RunTimesOut(c)
  \/ Validate(c) \/ PersistenceFails(c) \/ MarkTerminal(c) \/ Commit(c)

Next ==
  \/ CreateJob
  \/ \E t \in Turns : Approve(t)
  \/ \E c \in Callers : LoadJob(c) \/ Proceed(c) \/ RollBack(c)
  \/ ContainerWrites
  \/ container \in {"running", "stray"} /\ ContainerExits

Spec == Init /\ [][Next]_vars

\* A transaction goes on unless it is lost; its wait for the container has a
\* timeout.
FairSpec == Spec /\ \A c \in Callers : WF_vars(Proceed(c))

----------------------------------------------------------------------------

\* A second container is started only when the execution of the first was lost
\* and its claim rolled back, whatever turns are replayed by whom; and once an
\* execution has committed nobody works on the job any more.
OneRunStands ==
  /\ \A c, d \in runners : c = d \/ At(c, "lost") \/ At(d, "lost")
  /\ status \in Terminal => \A c \in Callers : ~ InTransaction(c)

\* Only code the guard allows, with the decision on disk, is ever run, and only
\* for a caller whose own turn was approved.
NothingRunsUnchecked ==
  /\ container # "none" => code = Good
  /\ container = "running" =>
       host.guard = Good /\ \E c \in Executors : At(c, "wait") /\ caller[c].turn \in approved

\* Whenever a manifest can be read, its digests are those of the files: writers
\* remove it first and restore it last.  Outputs are exempt while the last
\* container was left to itself.
ManifestDescribesFiles ==
  manifest # NoManifest =>
    /\ \A f \in Files : manifest.entries[f] # Absent => manifest.entries[f] = host[f]
    /\ manifest.output # Absent /\ container \in {"none", "running", "exited"} => manifest.output = output

\* Readers of the warehouse never meet a run that is under way: a job is queued
\* or over.  One that is over is sealed, and one that succeeded has its run's
\* evidence, a valid output of a container that is gone, and a manifest with both.
SuccessIsBacked ==
  /\ status \in {"none", "queued"} \cup Terminal
  /\ status \in Terminal => manifest # NoManifest
  /\ status = "succeeded" =>
       /\ output = Good /\ container = "exited"
       /\ host.execution = Good /\ manifest.output = Good
       /\ {manifest.entries[f] : f \in {"guard", "execution", "validation"}} = {Good}

\* Every failure of the guard, of Docker, of the output or of a write becomes a
\* committed terminal status and a sealed directory, unless the transaction is
\* lost as a whole.
EveryRunConcludes ==
  \A c \in Executors :
    At(c, "request") ~> (At(c, "answered") /\ status \in Terminal /\ manifest # NoManifest) \/ At(c, "lost")
============================================================================
