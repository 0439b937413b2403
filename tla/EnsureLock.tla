----------------------------- MODULE EnsureLock -----------------------------
(***************************************************************************)
(* The lock file that keeps two data-ensure flows of one symbol and date   *)
(* apart (data_availability/lock.py).  acquire and release run under the   *)
(* flock of the guard file, so each is one action; a process may die while *)
(* it holds the lock and also in the middle of acquire, where the kernel   *)
(* drops the flock and the file stays as it is.  A lock file is taken over *)
(* once its mtime is stale_seconds old, whether its owner lives or not.    *)
(***************************************************************************)
EXTENDS Integers

CONSTANTS
  Flows,         \* EnsureLock instances; the owner token is unique to each
  Nobody,        \* metadata that read_lock_metadata cannot read
  StaleTime,     \* stale_seconds
  MaxTime        \* bound of the model: the last instant of the clock

ASSUME LockAssumption ==
  /\ Nobody \notin Flows
  /\ StaleTime \in Nat
  /\ MaxTime \in Nat

VARIABLES
  now,     \* time.time()
  file,    \* the lock file: whether it exists, its owner token and its mtime
  state,   \* per instance: "idle", "holding" (_acquired) or "dead"
  since    \* history: when each instance last acquired

vars == <<now, file, state, since>>

NoFile == [exists |-> 0, owner |-> Nobody, mtime |-> 0]
FileOf(o) == [exists |-> 1, owner |-> o, mtime |-> now]

Init ==
  /\ now = 0
  /\ file = NoFile
  /\ state = [p \in Flows |-> "idle"]
  /\ since = [p \in Flows |-> 0]

\* O_EXCL creation succeeds, or _is_stale lets the file be replaced.
Obtainable_OffByOne == file.exists = 0 \/ now - file.mtime >= StaleTime - 1
Obtainable == file.exists = 0 \/ now - file.mtime >= StaleTime

Acquire(p) ==
  /\ state[p] = "idle"
  /\ Obtainable
  /\ file' = FileOf(p)
  /\ state' = [state EXCEPT ![p] = "holding"]
  /\ since' = [since EXCEPT ![p] = now]
  /\ UNCHANGED now

FileAfterRelease_Unchecked(p) == NoFile

\* The file is removed only if it still carries the instance's token.
FileAfterRelease(p) == IF file.exists = 1 /\ file.owner = p THEN NoFile ELSE file

Release(p) ==
  /\ state[p] = "holding"
  /\ file' = FileAfterRelease(p)
  /\ state' = [state EXCEPT ![p] = "idle"]
  /\ UNCHANGED <<now, since>>

\* Death with or without the lock.
Crash(p) ==
  /\ state[p] # "dead"
  /\ state' = [state EXCEPT ![p] = "dead"]
  /\ UNCHANGED <<now, file, since>>

\* Death inside acquire: after the stale file was moved away, after the new one
\* was created and before its metadata was written, or after that.
CrashInAcquire(p) ==
  /\ state[p] = "idle"
  /\ Obtainable
  /\ file' \in {NoFile, FileOf(Nobody), FileOf(p)}
  /\ state' = [state EXCEPT ![p] = "dead"]
  /\ UNCHANGED <<now, since>>

Tick ==
  /\ now < MaxTime
  /\ now' = now + 1
  /\ UNCHANGED <<file, state, since>>

Next ==
  \/ \E p \in Flows : Acquire(p) \/ Release(p) \/ Crash(p) \/ CrashInAcquire(p)
  \/ Tick

Spec == Init /\ [][Next]_vars

----------------------------------------------------------------------------
(* Properties *)

\* Clock, file and instances hold values the code can produce.
TypeOK ==
  /\ now \in Nat
  /\ file \in [exists : {0, 1}, owner : Flows \cup {Nobody}, mtime : Nat]
  /\ state \in [Flows -> {"idle", "holding", "dead"}]
  /\ since \in [Flows -> Nat]

Fresh(p) == state[p] = "holding" /\ now - since[p] < StaleTime

\* For stale_seconds after it acquired, an instance is the owner of the file:
\* no other flow takes the lock, and no flow that was displaced earlier removes
\* it on its way out.
FreshHolderOwnsTheFile ==
  \A p \in Flows : Fresh(p) => file.exists = 1 /\ file.owner = p /\ file.mtime = since[p]

\* No two flows that are both within their stale_seconds believe to hold it.
FreshHolderIsAlone == \A p, q \in Flows : Fresh(p) /\ Fresh(q) => p = q

============================================================================
