------------------------------ MODULE MCLocks ------------------------------
(***************************************************************************)
(* Model-checking instance of EnsureLock, and of the other components that *)
(* keep processes apart or survive their death: WorkspaceLock,             *)
(* WarehouseTransaction, MemoryArchive and SandboxJob.  They share no      *)
(* state, so a behaviour belongs to one of them, its part, and the others  *)
(* stand still.                                                            *)
(***************************************************************************)
EXTENDS EnsureLock, FiniteSets

CONSTANTS
  Procs, MaxInterruptions,                \* WorkspaceLock
  Writers, Paths, MaxUnits, MaxDepth,     \* WarehouseTransaction
  MaxEvents, Page, MaxCrashes,            \* MemoryArchive
  Executors, Turns, Preparer              \* SandboxJob

VARIABLES
  part,                                                        \* the component that moves
  lockFile, proc, interruptions,                               \* WorkspaceLock
  lock, conn, phase, active, txn, frames, raising, pending,    \* WarehouseTransaction
  db, wanted, failed, started, outcome,
  events, files, manifest, batch, step, crashes,               \* MemoryArchive
  status, code, host, output, jobManifest, container,          \* SandboxJob
  runners, approved, caller

workspaceVars == <<lockFile, proc, interruptions>>
warehouseVars == <<lock, conn, phase, active, txn, frames, raising, pending, db,
                   wanted, failed, started, outcome>>
archiveVars == <<events, files, manifest, batch, step, crashes>>
sandboxVars == <<status, code, host, output, jobManifest, container, runners, approved, caller>>

Workspace == INSTANCE WorkspaceLock WITH file <- lockFile
Warehouse == INSTANCE WarehouseTransaction WITH Procs <- Writers
Archive == INSTANCE MemoryArchive WITH MaxTime <- MaxEvents
Sandbox == INSTANCE SandboxJob WITH manifest <- jobManifest

ASSUME LocksAssumption ==
  /\ IsFiniteSet(Procs) /\ MaxInterruptions \in Nat
  /\ Warehouse!None \notin Writers \cup Paths
  /\ MaxUnits \in Nat /\ MaxDepth \in Nat \ {0}
  /\ Preparer \notin Executors /\ Turns # {}

PartsInit ==
  /\ part \in {"ensure", "workspace", "warehouse", "archive", "sandbox"}
  /\ Init /\ Workspace!Init /\ Warehouse!Init /\ Archive!Init /\ Sandbox!Init
  /\ part # "sandbox" => code = Sandbox!Good

Stay(others) == UNCHANGED <<part, others>>

EnsureMoves == part = "ensure" /\ Next /\ Stay(<<workspaceVars, warehouseVars, archiveVars, sandboxVars>>)
WorkspaceMoves == part = "workspace" /\ Workspace!Next /\ Stay(<<vars, warehouseVars, archiveVars, sandboxVars>>)
WarehouseMoves == part = "warehouse" /\ Warehouse!Next /\ Stay(<<vars, workspaceVars, archiveVars, sandboxVars>>)
ArchiveMoves == part = "archive" /\ Archive!Next /\ Stay(<<vars, workspaceVars, warehouseVars, sandboxVars>>)
SandboxMoves == part = "sandbox" /\ Sandbox!Next /\ Stay(<<vars, workspaceVars, warehouseVars, archiveVars>>)

PartsNext == EnsureMoves \/ WorkspaceMoves \/ WarehouseMoves \/ ArchiveMoves \/ SandboxMoves

allVars == <<part, vars, workspaceVars, warehouseVars, archiveVars, sandboxVars>>

\* Each component's own fairness; see FairSpec in its module.
PartsSpec ==
  /\ PartsInit
  /\ [][PartsNext]_allVars
  /\ WF_workspaceVars(part = "workspace" /\ Workspace!Age)
  /\ \A p \in Procs : WF_workspaceVars(part = "workspace" /\ Workspace!Transaction(p))
  /\ \A p \in Writers :
       /\ WF_warehouseVars(part = "warehouse" /\ Warehouse!EndNested(p))
       /\ WF_warehouseVars(part = "warehouse" /\ Warehouse!EndOutermost(p))
       /\ WF_warehouseVars(part = "warehouse" /\ Warehouse!CloseConnection(p))
       /\ WF_warehouseVars(part = "warehouse" /\ Warehouse!Unlock(p))
       /\ SF_warehouseVars(part = "warehouse" /\ (Warehouse!Acquire(p) \/ Warehouse!OpenFails(p)))
  /\ WF_archiveVars(part = "archive" /\ Archive!WriteNext)
  /\ \A c \in Executors \cup {Preparer} : WF_sandboxVars(part = "sandbox" /\ Sandbox!Proceed(c))

LocksInvariant ==
  /\ Workspace!OneOwner /\ Workspace!LockHasOwner /\ Workspace!TypeOK
  /\ Warehouse!FailedUnitsLeaveNoTrace
  /\ Warehouse!OneWriterPerWarehouse
  /\ Warehouse!NothingLeftBehind
  /\ Warehouse!TypeOK

FilesInvariant ==
  /\ Archive!ManifestIsBacked /\ Archive!ArchivedOnce
  /\ Sandbox!OneRunStands
  /\ Sandbox!NothingRunsUnchecked
  /\ Sandbox!ManifestDescribesFiles
  /\ Sandbox!SuccessIsBacked
  /\ Sandbox!TypeOK

DeadLockIsRemoved == Workspace!DeadLockIsRemoved
OkMeansCommitted == Warehouse!OkMeansCommitted
EveryWaiterIsServed == Warehouse!EveryWaiterIsServed
EveryEventIsArchived == Archive!EveryEventIsArchived
EveryRunConcludes == Sandbox!EveryRunConcludes
=============================================================================
