--------------------------- MODULE WorkspaceLock ---------------------------
(***************************************************************************)
(* The lock file of one workspace (workspace_context/locking.py): created  *)
(* with O_EXCL, polled until a deadline, removed by its owner's token, and *)
(* taken away by other processes once its modification time is too old.    *)
(* Every system call on the path is an action of its own.                  *)
(***************************************************************************)
EXTENDS Integers, FiniteSets

CONSTANTS
  Procs,             \* processes that run workspace transactions
  MaxInterruptions   \* bound of the model: crashes, failed writes and slow bodies

VARIABLES
  file,    \* what the path of the lock names
  proc,    \* where each process is, its token, and the file it found stale
  interruptions

vars == <<file, proc, interruptions>>

\* One file (inode and modification time) and the token in it have one identity;
\* the identities in use are never more than two per process.
Ids == 1..(2 * Cardinality(Procs) + 1)
None == 0

NoLock == [id |-> None, written |-> FALSE, stale |-> FALSE]
Off == [pc |-> "off", token |-> None, seen |-> None]

Exists == file # NoLock
At(p, l) == proc[p].pc = l
Go(p, l) == proc' = [proc EXCEPT ![p].pc = l]

Owning == {"write", "body", "release", "unlock"}

\* p has the lock by what acquire_lock returned to it.
Holds(p) == proc[p].pc \in {"body", "release", "unlock"}

FreshIds == Ids \ ({file.id} \cup {proc[p].token : p \in Procs} \cup {proc[p].seen : p \in Procs})

Init ==
  /\ file = NoLock
  /\ proc = [p \in Procs |-> Off]
  /\ interruptions = 0

\* workspace_transaction: the deadline starts.
Enter(p) ==
  /\ At(p, "off")
  /\ Go(p, "create")
  /\ UNCHANGED <<file, interruptions>>

Creatable_NotExclusive == TRUE

\* O_CREAT | O_EXCL
Creatable == ~ Exists

CreateLock(p) ==
  /\ At(p, "create")
  /\ IF Creatable
     THEN LET i == CHOOSE j \in FreshIds : TRUE
          IN  /\ file' = [id |-> i, written |-> FALSE, stale |-> FALSE]
              /\ proc' = [proc EXCEPT ![p] = [pc |-> "write", token |-> i, seen |-> None]]
     ELSE Go(p, "stat") /\ UNCHANGED file
  /\ UNCHANGED interruptions

\* The owner's metadata, written to the file that was opened: nobody finds it if
\* the path names another file by now.
WriteMetadata(p) ==
  /\ At(p, "write")
  /\ file' = IF file.id = proc[p].token THEN [file EXCEPT !.written = TRUE, !.stale = FALSE] ELSE file
  /\ Go(p, "body")
  /\ UNCHANGED interruptions

\* _remove_stale_lock: stat and the age of the file.
StatLock(p) ==
  /\ At(p, "stat")
  /\ IF file.stale
     THEN proc' = [proc EXCEPT ![p].pc = "restat", ![p].seen = file.id]
     ELSE Go(p, "poll")
  /\ UNCHANGED <<file, interruptions>>

\* The second stat: the same inode and the same modification time.
StatAgain(p) ==
  /\ At(p, "restat")
  /\ Go(p, IF file.id = proc[p].seen /\ file.stale THEN "remove" ELSE "poll")
  /\ UNCHANGED <<file, interruptions>>

RemovedBy_Ignored(p) == file

\* path.unlink() removes whatever the path names now.
RemovedBy(p) == NoLock

RemoveStale(p) ==
  /\ At(p, "remove")
  /\ file' = RemovedBy(p)
  /\ proc' = [proc EXCEPT ![p] = [@ EXCEPT !.pc = "poll", !.seen = None]]
  /\ UNCHANGED interruptions

\* The deadline has passed, or the loop goes round once more.
Poll(p) ==
  /\ At(p, "poll")
  /\ \/ proc' = [proc EXCEPT ![p] = Off]
     \/ proc' = [proc EXCEPT ![p] = [@ EXCEPT !.pc = "create", !.seen = None]]
  /\ UNCHANGED <<file, interruptions>>

AfterBody_NoFinally == {"release", "off"}

\* However the body ends, the lock is released (finally).
AfterBody == {"release"}

EndBody(p) ==
  /\ At(p, "body")
  /\ \E l \in AfterBody : Go(p, l)
  /\ UNCHANGED <<file, interruptions>>

\* release_lock reads the token in the file ...
ReadToken(p) ==
  /\ At(p, "release")
  /\ proc' = IF file.written /\ file.id = proc[p].token
             THEN [proc EXCEPT ![p].pc = "unlock"] ELSE [proc EXCEPT ![p] = Off]
  /\ UNCHANGED <<file, interruptions>>

\* ... and removes it.
Unlock(p) ==
  /\ At(p, "unlock")
  /\ file' = NoLock
  /\ proc' = [proc EXCEPT ![p] = Off]
  /\ UNCHANGED interruptions

Interrupted(p) ==
  /\ interruptions < MaxInterruptions
  /\ interruptions' = interruptions + 1
  /\ proc' = [proc EXCEPT ![p] = Off]
  /\ UNCHANGED file

\* Writing the metadata fails: acquire_lock raises and its file stays.
WriteFails(p) == At(p, "write") /\ Interrupted(p)

Crash(p) == ~ At(p, "off") /\ Interrupted(p)

OwnedBy(p) == proc[p].pc \in Owning /\ proc[p].token = file.id
Orphan == Exists /\ ~ \E p \in Procs : OwnedBy(p)

\* stale_seconds go by: for a file nobody will release, or while its owner is
\* still at work.
Age ==
  /\ Exists /\ ~ file.stale
  /\ Orphan
  /\ file' = [file EXCEPT !.stale = TRUE]
  /\ UNCHANGED <<proc, interruptions>>

AgeInUse ==
  /\ Exists /\ ~ file.stale
  /\ ~ Orphan
  /\ interruptions < MaxInterruptions
  /\ interruptions' = interruptions + 1
  /\ file' = [file EXCEPT !.stale = TRUE]
  /\ UNCHANGED proc

Transaction(p) ==
  \/ CreateLock(p) \/ WriteMetadata(p) \/ StatLock(p) \/ StatAgain(p) \/ RemoveStale(p)
  \/ Poll(p) \/ EndBody(p) \/ ReadToken(p) \/ Unlock(p)

Next ==
  \/ \E p \in Procs : Enter(p) \/ Transaction(p) \/ WriteFails(p) \/ Crash(p)
  \/ Age \/ AgeInUse

Spec == Init /\ [][Next]_vars

\* A process that runs goes on, and time passes.
FairSpec == Spec /\ WF_vars(Age) /\ \A p \in Procs : WF_vars(Transaction(p))

----------------------------------------------------------------------------
(* Properties *)

\* Files, tokens and program counters hold values of their kind; a process has a
\* token exactly from the creation of its lock file to the end of the release.
TypeOK ==
  /\ file \in [id : Ids \cup {None}, written : BOOLEAN, stale : BOOLEAN]
  /\ proc \in [Procs -> [pc : {"off", "create", "stat", "restat", "remove", "poll"} \cup Owning,
                         token : Ids \cup {None}, seen : Ids \cup {None}]]
  /\ interruptions \in 0..MaxInterruptions
  /\ \A p \in Procs : proc[p].pc \in Owning <=> proc[p].token # None

\* "Exactly one process SHALL own the lock at a time": as long as no owner died
\* or overstayed, no two processes are between acquire_lock and release_lock.
\* (Beyond that it is not true: RemoveStale takes away whatever is there.)
OneOwner ==
  interruptions = 0 => \A p, q \in Procs : Holds(p) /\ Holds(q) => p = q

\* Contention, time-outs and exceptions leave no lock file behind that nobody
\* will release; only a crash or a failed write of the metadata does.
LockHasOwner == interruptions = 0 => ~ Orphan

\* The lock file of a process that died does not block the workspace for ever:
\* while callers keep trying to lock it, it is removed.
DeadLockIsRemoved == []<>(\E p \in Procs : At(p, "create")) => (Orphan ~> ~ Orphan)

============================================================================
