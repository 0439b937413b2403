-------------------------- MODULE MCMaintenanceRun --------------------------
(***************************************************************************)
(* Model-checking instance of MaintenanceRun, of DailyMaintenance, and of  *)
(* WorkspaceContext under three choices of processes, operations and       *)
(* bounds: what a process leaves behind for the next one, in the tables of *)
(* the queue or the warehouse or in the files of a workspace.  A behaviour *)
(* belongs to one of them, its part.                                       *)
(***************************************************************************)
EXTENDS MaintenanceRun, FiniteSets, TLC

CONSTANTS c1, c2, s1, s2

\* No process has the name of "nobody".
ASSUME RecordsAssumption == 0 \notin {c1, c2}

VARIABLES
  part,
  dirs, state, archived, latest, index, broken, lock, proc, inputs, acked, stops,   \* WorkspaceContext
  saved, here, spoiled, run, reply, runs                                    \* DailyMaintenance

workspaceVars == <<dirs, state, archived, latest, index, broken, lock, proc, inputs, acked, stops>>
dailyVars == <<saved, here, spoiled, run, reply, runs>>

\* The files of the workspaces under the processes, operations and bounds of m.
Files(m) == INSTANCE WorkspaceContext WITH
  Procs <- m.procs, Operations <- m.operations, MaxWorkspaces <- m.workspaces,
  MaxInputs <- m.inputs, Limit <- m.limit, MaxInterruptions <- m.interruptions,
  interruptions <- stops

\* Everything that writes the state file of a workspace, for two processes.
StatesModel ==
  [procs |-> {c1, c2}, operations |-> {"record", "compact", "archive", "reactivate", "resume", "new"},
   workspaces |-> 1, inputs |-> 2, limit |-> 1, interruptions |-> 1]

\* What may run beside the recording of inputs without losing one.
InputsModel ==
  [procs |-> {c1, c2}, operations |-> {"record", "compact", "resume", "create"},
   workspaces |-> 2, inputs |-> 2, limit |-> 1, interruptions |-> 1]

\* One process after another, with crashes and damage, and recovery at the start.
StartupModel ==
  [procs |-> {c1},
   operations |-> {"record", "compact", "archive", "reactivate", "resume", "create", "new", "recover"},
   workspaces |-> 3, inputs |-> 1, limit |-> 1, interruptions |-> 2]

\* The daily command for the symbols of d, at most d.runs times: once for two
\* symbols, or twice, one after the other, for one.
Commands(d) == INSTANCE DailyMaintenance WITH Symbols <- d.symbols, MaxRuns <- d.runs

DailyModel == [symbols |-> {s1, s2}, runs |-> 1]
AgainModel == [symbols |-> {s1}, runs |-> 2]

PartsInit ==
  /\ part \in {"maintenance", "states", "inputs", "startup", "daily", "again"}
  /\ Init
  /\ CASE part = "inputs" -> Files(InputsModel)!Init
       [] part = "startup" -> Files(StartupModel)!Init
       [] OTHER -> Files(StatesModel)!Init /\ (part # "states" => dirs = {})
  /\ IF part = "again" THEN Commands(AgainModel)!Init ELSE Commands(DailyModel)!Init

MaintenanceMoves == part = "maintenance" /\ Next /\ UNCHANGED <<part, workspaceVars, dailyVars>>
StatesMove == part = "states" /\ Files(StatesModel)!Next /\ UNCHANGED <<part, vars, dailyVars>>
InputsMove == part = "inputs" /\ Files(InputsModel)!Next /\ UNCHANGED <<part, vars, dailyVars>>
StartupMoves == part = "startup" /\ Files(StartupModel)!Next /\ UNCHANGED <<part, vars, dailyVars>>
DailyMoves == part = "daily" /\ Commands(DailyModel)!Next /\ UNCHANGED <<part, vars, workspaceVars>>
AgainMoves == part = "again" /\ Commands(AgainModel)!Next /\ UNCHANGED <<part, vars, workspaceVars>>

PartsNext ==
  \/ MaintenanceMoves \/ StatesMove \/ InputsMove \/ StartupMoves
  \/ DailyMoves \/ AgainMoves

PartsSpec == PartsInit /\ [][PartsNext]_<<part, vars, workspaceVars, dailyVars>>

\* No operator distinguishes two producers.
ProducerSymmetry == Permutations(Producers)

\* Bound of the model: at most two of a crash, the producers at work and a
\* pruning pass come together.
FewCombined ==
  interruptions + Cardinality({p \in Producers : prod[p].pc # "off"})
    + (IF pruning = {} THEN 0 ELSE 1) <= 2

\* Inputs a workspace acknowledged are in its state, and its pointers name what was
\* saved; what a daily command did is there with its ledger row, and its exit code
\* tells of that row (persistence.py, maintenance/daily.py).
RecordsInvariant ==
  /\ part = "states" => Files(StatesModel)!TypeOK
  /\ part = "inputs" =>
       Files(InputsModel)!TypeOK /\ Files(InputsModel)!AcknowledgedInputsAreKept /\ Files(InputsModel)!LatestWasSaved
  /\ part = "startup" => Files(StartupModel)!TypeOK /\ Files(StartupModel)!IndexIsComplete
  /\ part = "daily" => Commands(DailyModel)!TypeOK /\ Commands(DailyModel)!WorkIsRecorded /\ Commands(DailyModel)!ExitTellsTheLedger
  /\ part = "again" => Commands(AgainModel)!TypeOK /\ Commands(AgainModel)!WorkIsRecorded /\ Commands(AgainModel)!ExitTellsTheLedger

\* An archived workspace stays archived until it is reactivated, and recovery
\* ends with an active workspace, which the pointer names unless the index does not
\* parse; a daily command is recorded as a success only if every symbol is current.
RecordsStep ==
  [][/\ part = "states" => \A w \in Files(StatesModel)!Workspaces : Files(StatesModel)!ArchiveKept(w)
     /\ part = "startup" => Files(StartupModel)!EndsActive(c1)
     /\ part = "daily" => Commands(DailyModel)!SuccessIsCurrent
     /\ part = "again" => Commands(AgainModel)!SuccessIsCurrent]_<<part, workspaceVars, dailyVars>>
============================================================================
