---------------------------- MODULE LocksProofs ----------------------------
(***************************************************************************)
(* For all values of the constants: the data-ensure lock is exclusive for  *)
(* stale_seconds after each acquisition; and the components that MCLocks   *)
(* puts next to it, the workspace lock, the warehouse transaction, the     *)
(* archive of events and the sandbox, keep their safety properties.        *)
(***************************************************************************)
EXTENDS MCLocks, Sequences, FiniteSetTheorems, TLAPS

\* Typing and the ownership of the file are inductive together.
LockInv == TypeOK /\ FreshHolderOwnsTheFile

\* The lock starts free.
LEMMA LockInit == Init => LockInv
BY LockAssumption DEF Init, LockInv, TypeOK, FreshHolderOwnsTheFile, Fresh, NoFile

\* acquire succeeds only when no fresh holder exists, because a fresh holder's
\* file is neither missing nor stale.
LEMMA ObtainableMeansNoFresh ==
  ASSUME LockInv, Obtainable, NEW p \in Flows
  PROVE  ~ Fresh(p)
BY LockAssumption DEF LockInv, TypeOK, FreshHolderOwnsTheFile, Obtainable, Fresh

\* acquire preserves the invariant.
LEMMA AcquireInv ==
  ASSUME LockInv, NEW p \in Flows, Acquire(p)
  PROVE  LockInv'
<1>1. \A q \in Flows : ~ Fresh(q)
  BY ObtainableMeansNoFresh DEF Acquire
<1>2. TypeOK'
  BY DEF LockInv, TypeOK, Acquire, FileOf
<1>3. ASSUME NEW q \in Flows, Fresh(q)'
      PROVE  file'.exists = 1 /\ file'.owner = q /\ file'.mtime = since'[q]
  <2>1. CASE q = p
    BY <2>1 DEF LockInv, TypeOK, Acquire, FileOf
  <2>2. CASE q # p
    BY <1>1, <1>3, <2>2 DEF LockInv, TypeOK, Acquire, Fresh
  <2> QED BY <2>1, <2>2
<1> QED BY <1>2, <1>3 DEF LockInv, FreshHolderOwnsTheFile

\* release removes no fresh holder's file but its own.
LEMMA ReleaseInv ==
  ASSUME LockInv, NEW p \in Flows, Release(p)
  PROVE  LockInv'
<1>1. TypeOK'
  BY DEF LockInv, TypeOK, Release, FileAfterRelease, NoFile
<1>2. ASSUME NEW q \in Flows, Fresh(q)'
      PROVE  file'.exists = 1 /\ file'.owner = q /\ file'.mtime = since'[q]
  <2>1. q # p /\ Fresh(q)
    BY <1>2 DEF LockInv, TypeOK, Release, Fresh
  <2>2. file.owner = q /\ file.exists = 1 /\ file.mtime = since[q]
    BY <2>1 DEF LockInv, FreshHolderOwnsTheFile
  <2>3. file' = file
    BY <2>1, <2>2 DEF Release, FileAfterRelease
  <2> QED BY <2>2, <2>3 DEF Release
<1> QED BY <1>1, <1>2 DEF LockInv, FreshHolderOwnsTheFile

\* A death, also inside acquire, leaves no fresh holder without its file.
LEMMA CrashInv ==
  ASSUME LockInv, NEW p \in Flows, Crash(p) \/ CrashInAcquire(p)
  PROVE  LockInv'
<1>1. TypeOK'
  BY DEF LockInv, TypeOK, Crash, CrashInAcquire, NoFile, FileOf
<1>2. ASSUME NEW q \in Flows, Fresh(q)'
      PROVE  file'.exists = 1 /\ file'.owner = q /\ file'.mtime = since'[q]
  <2>1. Fresh(q)
    BY <1>2 DEF LockInv, TypeOK, Crash, CrashInAcquire, Fresh
  <2>2. ~ CrashInAcquire(p)
    BY <2>1, ObtainableMeansNoFresh DEF CrashInAcquire
  <2> QED BY <2>1, <2>2 DEF LockInv, FreshHolderOwnsTheFile, Crash
<1> QED BY <1>1, <1>2 DEF LockInv, FreshHolderOwnsTheFile

\* Time only makes holders less fresh.
LEMMA LockTickInv ==
  ASSUME LockInv, Tick
  PROVE  LockInv'
<1>1. TypeOK'
  BY DEF LockInv, TypeOK, Tick
<1>2. \A q \in Flows : Fresh(q)' => Fresh(q)
  BY LockAssumption DEF LockInv, TypeOK, Tick, Fresh
<1> QED BY <1>1, <1>2 DEF LockInv, FreshHolderOwnsTheFile, Tick

\* Every step of the lock preserves the invariant.
LEMMA LockStep == LockInv /\ [Next]_vars => LockInv'
<1> SUFFICES ASSUME LockInv, [Next]_vars PROVE LockInv'
  OBVIOUS
<1>1. ASSUME NEW p \in Flows, Acquire(p) PROVE LockInv'
  BY <1>1, AcquireInv
<1>2. ASSUME NEW p \in Flows, Release(p) PROVE LockInv'
  BY <1>2, ReleaseInv
<1>3. ASSUME NEW p \in Flows, Crash(p) \/ CrashInAcquire(p) PROVE LockInv'
  BY <1>3, CrashInv
<1>4. CASE Tick
  BY <1>4, LockTickInv
<1>5. CASE UNCHANGED vars
  BY <1>5 DEF vars, LockInv, TypeOK, FreshHolderOwnsTheFile, Fresh
<1> QED BY <1>1, <1>2, <1>3, <1>4, <1>5 DEF Next

\* The inductive invariant holds in every reachable state.
THEOREM LockInvariant == Spec => []LockInv
BY LockInit, LockStep, PTL DEF Spec

\* An instance owns the lock file for stale_seconds after it acquired it.
THEOREM LockOwnership == Spec => []FreshHolderOwnsTheFile
<1>1. LockInv => FreshHolderOwnsTheFile
  BY DEF LockInv
<1> QED BY <1>1, LockInvariant, PTL

\* Two flows never believe to hold the lock within their stale_seconds.
THEOREM LockExclusion == Spec => []FreshHolderIsAlone
<1>1. LockInv => FreshHolderIsAlone
  BY DEF LockInv, FreshHolderOwnsTheFile, FreshHolderIsAlone
<1> QED BY <1>1, LockInvariant, PTL

-----------------------------------------------------------------------------
(* The workspace lock.                                                      *)

\* The processes are finitely many, and so are the interruptions.
Finite == IsFiniteSet(Procs) /\ MaxInterruptions \in Nat

\* The states of one process.
ProcState == [pc : {"off", "create", "stat", "restat", "remove", "poll"} \cup Workspace!Owning,
              token : Workspace!Ids \cup {Workspace!None}, seen : Workspace!Ids \cup {Workspace!None}]

\* Before the first interruption nobody finds a stale file, whoever has created a
\* file owns it until he removes it, and a file that is there has its owner.
Undisturbed ==
  /\ ~ lockFile.stale
  /\ \A p \in Procs : /\ proc[p].pc \notin {"restat", "remove"}
                      /\ proc[p].pc \in Workspace!Owning => proc[p].token = lockFile.id
                      /\ Workspace!Holds(p) => lockFile.written
  /\ \A p, q \in Procs : proc[p].pc \in Workspace!Owning /\ proc[q].pc \in Workspace!Owning => p = q
  /\ ~ Workspace!Orphan

\* The inductive invariant of the workspace lock.
FileInv == Workspace!TypeOK /\ (interruptions = 0 => Undisturbed)

\* A process outside the transaction.
LEMMA OffType == Workspace!Off \in ProcState /\ Workspace!Off.pc = "off" /\ Workspace!Off.token = Workspace!None
BY DEF Workspace!Off, ProcState, Workspace!Owning, Workspace!None

\* An image is no larger than what it is the image of.
LEMMA ImageBound ==
  ASSUME NEW f, NEW S, IsFiniteSet(S)
  PROVE  /\ IsFiniteSet({f[x] : x \in S}) /\ Cardinality({f[x] : x \in S}) \in Nat
         /\ Cardinality({f[x] : x \in S}) <= Cardinality(S)
<1> DEFINE T == {f[x] : x \in S}
           g == [x \in S |-> f[x]]
<1>1. g \in Surjection(S, T)
  BY DEF Surjection
<1>2. IsFiniteSet(T) /\ Cardinality(T) <= Cardinality(S)
  BY <1>1, FS_Surjection
<1> QED BY <1>2, FS_CardinalityType

\* There are more identities than processes can remember: a creator finds a new one.
LEMMA SomeIdIsFresh ==
  ASSUME Finite, Workspace!TypeOK, lockFile = Workspace!NoLock
  PROVE  Workspace!FreshIds # {}
<1> DEFINE n == Cardinality(Procs)
           tok == [p \in Procs |-> proc[p].token]
           see == [p \in Procs |-> proc[p].seen]
           T == {tok[p] : p \in Procs}
           S == {see[p] : p \in Procs}
           U == {lockFile.id} \cup (T \cup S)
<1>0. n \in Nat
  BY FS_CardinalityType DEF Finite
<1>1. /\ IsFiniteSet(T) /\ Cardinality(T) \in Nat /\ Cardinality(T) <= n
      /\ IsFiniteSet(S) /\ Cardinality(S) \in Nat /\ Cardinality(S) <= n
  <2> HIDE DEF tok, see
  <2> QED BY ImageBound DEF Finite
<1>2. T = {proc[p].token : p \in Procs} /\ S = {proc[p].seen : p \in Procs}
  OBVIOUS
<1> HIDE DEF T, S
<1>3. IsFiniteSet(T \cup S) /\ Cardinality(T \cup S) \in Nat /\ Cardinality(T \cup S) <= n + n
  <2>1. T \cap S \in SUBSET T
    OBVIOUS
  <2>2. Cardinality(T \cap S) \in Nat
    BY <1>1, <2>1, FS_Subset, FS_CardinalityType
  <2>3. IsFiniteSet(T \cup S) /\ Cardinality(T \cup S) = Cardinality(T) + Cardinality(S) - Cardinality(T \cap S)
    BY <1>1, FS_Union
  <2>4. Cardinality(T \cup S) \in Nat
    BY <2>3, FS_CardinalityType
  <2> HIDE DEF n
  <2> QED BY <1>0, <1>1, <2>2, <2>3, <2>4
<1>4. IsFiniteSet(Workspace!Ids) /\ Cardinality(Workspace!Ids) = 2 * n + 1
  <2>1. 2 * n + 1 \in Int /\ ~ (1 > 2 * n + 1)
    <3> HIDE DEF n
    <3> QED BY <1>0
  <2>2. Cardinality(1..(2 * n + 1)) = (2 * n + 1) - 1 + 1 /\ IsFiniteSet(1..(2 * n + 1))
    BY <2>1, FS_Interval
  <2>3. (2 * n + 1) - 1 + 1 = 2 * n + 1
    <3> HIDE DEF n
    <3> QED BY <1>0
  <2>4. Workspace!Cardinality(Procs) = n
    BY DEF Workspace!Cardinality, Cardinality
  <2> QED BY <2>2, <2>3, <2>4 DEF Workspace!Ids
<1>5. lockFile.id \notin Workspace!Ids
  BY <1>0 DEF Workspace!NoLock, Workspace!None, Workspace!Ids
<1>6. ASSUME Workspace!FreshIds = {} PROVE FALSE
  <2>1. Workspace!Ids \in SUBSET (T \cup S)
    BY <1>2, <1>5, <1>6 DEF Workspace!FreshIds
  <2>2. Cardinality(Workspace!Ids) <= Cardinality(T \cup S)
    BY <1>3, <2>1, FS_Subset
  <2> HIDE DEF n
  <2> QED BY <1>0, <1>3, <1>4, <2>2
<1> QED BY <1>6

\* Nobody is in the transaction and there is no file.
LEMMA WorkspaceInit == Finite /\ Workspace!Init => FileInv
BY DEF Finite, Workspace!Init, FileInv, Workspace!TypeOK, Undisturbed, Workspace!Holds,
   Workspace!Orphan, Workspace!Exists, Workspace!NoLock, Workspace!Off, Workspace!None,
   Workspace!Owning

\* A step of one process, which does not disturb the others.
LEMMA ProcType ==
  ASSUME Workspace!TypeOK, NEW p \in Procs, NEW r \in ProcState, r.pc \in Workspace!Owning <=> r.token # Workspace!None,
         proc' = [proc EXCEPT ![p] = r],
         lockFile' \in [id : Workspace!Ids \cup {Workspace!None}, written : BOOLEAN, stale : BOOLEAN],
         interruptions' \in 0..MaxInterruptions
  PROVE  Workspace!TypeOK' /\ proc'[p] = r /\ \A q \in Procs \ {p} : proc'[q] = proc[q]
BY DEF Workspace!TypeOK, ProcState

\* The places of a process whose file has its metadata.
Has == {"body", "release", "unlock"}

\* A step of p that leaves the file as it is, and its own hold on it.
LEMMA MovesOn ==
  ASSUME Finite, FileInv, NEW p \in Procs, NEW r \in ProcState,
         proc' = [proc EXCEPT ![p] = r], UNCHANGED <<lockFile, interruptions>>,
         r.token = proc[p].token, r.pc \in Workspace!Owning <=> proc[p].pc \in Workspace!Owning,
         r.pc \in Has => proc[p].pc \in Has,
         Undisturbed => r.pc \notin {"restat", "remove"}
  PROVE  FileInv'
<1>1. Workspace!TypeOK' /\ proc'[p] = r /\ \A q \in Procs \ {p} : proc'[q] = proc[q]
  BY ProcType DEF FileInv, Workspace!TypeOK
<1>2. ASSUME Undisturbed PROVE Undisturbed'
  <2>1. \A q \in Procs : /\ proc'[q].pc \in Workspace!Owning <=> proc[q].pc \in Workspace!Owning
                         /\ proc'[q].token = proc[q].token
                         /\ proc'[q].pc \in Has => proc[q].pc \in Has
                         /\ proc'[q].pc \notin {"restat", "remove"}
    BY <1>1, <1>2 DEF Undisturbed
  <2>2. ~ Workspace!Orphan'
    BY <1>2, <2>1 DEF Undisturbed, Workspace!Orphan, Workspace!OwnedBy, Workspace!Exists
  <2>3. \A q \in Procs : Workspace!Holds(q)' => Workspace!Holds(q)
    BY <2>1 DEF Workspace!Holds, Has
  <2> QED BY <1>2, <2>1, <2>2, <2>3 DEF Undisturbed
<1> QED BY <1>1, <1>2 DEF FileInv

\* After an interruption only the types are claimed.
LEMMA Disturbed ==
  ASSUME Finite, FileInv, NEW p \in Procs, Workspace!Interrupted(p)
  PROVE  FileInv'
<1>1. Workspace!Off \in ProcState /\ (Workspace!Off.pc \in Workspace!Owning <=> Workspace!Off.token # Workspace!None)
  BY DEF Workspace!Off, ProcState, Workspace!Owning, Workspace!None
<1>2. interruptions' \in 0..MaxInterruptions /\ interruptions' # 0
  BY DEF Finite, FileInv, Workspace!TypeOK, Workspace!Interrupted
<1>3. Workspace!TypeOK'
  BY <1>1, <1>2, ProcType DEF Workspace!Interrupted, FileInv, Workspace!TypeOK
<1> QED BY <1>2, <1>3 DEF FileInv

\* os.open with O_EXCL creates the file, or its owner is looked at.
LEMMA CreateKeeps ==
  ASSUME Finite, FileInv, NEW p \in Procs, Workspace!CreateLock(p)
  PROVE  FileInv'
<1> USE DEF FileInv
<1>1. CASE ~ Workspace!Exists
  <2> DEFINE i == CHOOSE j \in Workspace!FreshIds : TRUE
             r == [pc |-> "write", token |-> i, seen |-> Workspace!None]
  <2>1. lockFile = Workspace!NoLock
    BY <1>1 DEF Workspace!Exists
  <2>2. i \in Workspace!Ids /\ i # Workspace!None
    BY <2>1, SomeIdIsFresh DEF Workspace!FreshIds, Workspace!Ids, Workspace!None
  <2>3. proc' = [proc EXCEPT ![p] = r] /\ lockFile' = [id |-> i, written |-> FALSE, stale |-> FALSE]
        /\ interruptions' = interruptions
    BY <1>1 DEF Workspace!CreateLock, Workspace!Creatable
  <2> HIDE DEF i
  <2>4. r \in ProcState /\ r.pc = "write" /\ r.token = i
    BY <2>2 DEF ProcState, Workspace!Owning
  <2>5. lockFile' \in [id : Workspace!Ids \cup {Workspace!None}, written : BOOLEAN, stale : BOOLEAN]
        /\ lockFile'.id = i /\ ~ lockFile'.stale
    BY <2>2, <2>3
  <2> HIDE DEF r
  <2>6. Workspace!TypeOK' /\ proc'[p] = r /\ \A q \in Procs \ {p} : proc'[q] = proc[q]
    BY <2>2, <2>3, <2>4, <2>5, ProcType DEF Workspace!TypeOK, Workspace!Owning
  <2>7. ASSUME Undisturbed PROVE Undisturbed'
    <3>1. \A q \in Procs : proc[q].pc \notin Workspace!Owning
      BY <2>1, <2>7 DEF Undisturbed, Workspace!TypeOK, Workspace!NoLock
    <3>2. \A q \in Procs \ {p} : proc'[q].pc \notin Workspace!Owning
      BY <2>6, <3>1
    <3>3. Workspace!OwnedBy(p)'
      BY <2>4, <2>5, <2>6 DEF Workspace!OwnedBy, Workspace!Owning
    <3>4. \A q \in Procs : ~ Workspace!Holds(q)'
      BY <2>4, <2>6, <3>2 DEF Workspace!Holds, Workspace!Owning
    <3> QED BY <2>4, <2>5, <2>6, <2>7, <3>2, <3>3, <3>4 DEF Undisturbed, Workspace!Orphan
  <2> QED BY <2>3, <2>6, <2>7
<1>2. CASE Workspace!Exists
  <2> DEFINE r == [proc[p] EXCEPT !.pc = "stat"]
  <2>1. r \in ProcState /\ r.pc = "stat" /\ r.token = proc[p].token /\ proc[p].pc = "create"
    BY DEF Workspace!CreateLock, Workspace!At, Workspace!TypeOK, ProcState
  <2>2. proc' = [proc EXCEPT ![p] = r] /\ UNCHANGED <<lockFile, interruptions>>
    BY <1>2 DEF Workspace!CreateLock, Workspace!Creatable, Workspace!Go
  <2> HIDE DEF r
  <2> QED BY <2>1, <2>2, MovesOn DEF Has, Workspace!Owning
<1> QED BY <1>1, <1>2

\* The creator writes his metadata into his file.
LEMMA WriteKeeps ==
  ASSUME Finite, FileInv, NEW p \in Procs, Workspace!WriteMetadata(p)
  PROVE  FileInv'
<1> USE DEF FileInv
<1> DEFINE r == [proc[p] EXCEPT !.pc = "body"]
<1>1. r \in ProcState /\ r.pc = "body" /\ r.token = proc[p].token /\ proc[p].pc = "write" /\ r.token # Workspace!None
  BY DEF Workspace!WriteMetadata, Workspace!At, Workspace!TypeOK, ProcState, Workspace!Owning
<1>2. proc' = [proc EXCEPT ![p] = r] /\ interruptions' = interruptions
      /\ lockFile' = IF lockFile.id = proc[p].token THEN [lockFile EXCEPT !.written = TRUE, !.stale = FALSE] ELSE lockFile
  BY DEF Workspace!WriteMetadata, Workspace!Go
<1> HIDE DEF r
<1>3. /\ lockFile' \in [id : Workspace!Ids \cup {Workspace!None}, written : BOOLEAN, stale : BOOLEAN]
      /\ lockFile'.id = lockFile.id
      /\ lockFile.id = proc[p].token => lockFile'.written /\ ~ lockFile'.stale
  <2>1. CASE lockFile.id = proc[p].token
    BY <1>2, <2>1 DEF Workspace!TypeOK
  <2>2. CASE lockFile.id # proc[p].token
    BY <1>2, <2>2 DEF Workspace!TypeOK
  <2> QED BY <2>1, <2>2
<1>4. Workspace!TypeOK' /\ proc'[p] = r /\ \A q \in Procs \ {p} : proc'[q] = proc[q]
  BY <1>1, <1>2, <1>3, ProcType DEF Workspace!TypeOK, Workspace!Owning
<1>5. ASSUME Undisturbed PROVE Undisturbed'
  <2>1. lockFile.id = proc[p].token /\ \A q \in Procs \ {p} : proc[q].pc \notin Workspace!Owning
    BY <1>1, <1>5 DEF Undisturbed, Workspace!Owning
  <2>2. \A q \in Procs \ {p} : proc'[q].pc \notin Workspace!Owning /\ ~ Workspace!Holds(q)'
    BY <1>4, <2>1 DEF Workspace!Holds, Workspace!Owning
  <2>3. Workspace!OwnedBy(p)'
    BY <1>1, <1>3, <1>4, <2>1 DEF Workspace!OwnedBy, Workspace!Owning
  <2> QED BY <1>1, <1>3, <1>4, <1>5, <2>1, <2>2, <2>3 DEF Undisturbed, Workspace!Orphan
<1> QED BY <1>2, <1>4, <1>5

\* The file is removed by its owner, or as stale.
LEMMA UnlockKeeps ==
  ASSUME Finite, FileInv, NEW p \in Procs, Workspace!RemoveStale(p) \/ Workspace!Unlock(p)
  PROVE  FileInv'
<1> USE DEF FileInv
<1>1. PICK r \in ProcState : /\ proc' = [proc EXCEPT ![p] = r]
                             /\ r.pc \in {"poll", "off"} /\ r.token = Workspace!None
  <2>1. CASE Workspace!Unlock(p)
    <3>1. proc' = [proc EXCEPT ![p] = Workspace!Off]
      BY <2>1 DEF Workspace!Unlock
    <3> QED BY <3>1, OffType
  <2>2. CASE Workspace!RemoveStale(p)
    <3> DEFINE r == [proc[p] EXCEPT !.pc = "poll", !.seen = Workspace!None]
    <3>1. r \in ProcState /\ r.pc = "poll" /\ r.token = Workspace!None /\ proc' = [proc EXCEPT ![p] = r]
      BY <2>2 DEF Workspace!RemoveStale, Workspace!At, Workspace!TypeOK, ProcState, Workspace!Owning
    <3> QED BY <3>1
  <2> QED BY <2>1, <2>2
<1>2. lockFile' = Workspace!NoLock /\ interruptions' = interruptions
  BY DEF Workspace!RemoveStale, Workspace!Unlock, Workspace!RemovedBy
<1>3. lockFile' \in [id : Workspace!Ids \cup {Workspace!None}, written : BOOLEAN, stale : BOOLEAN] /\ ~ lockFile'.stale
  BY <1>2 DEF Workspace!NoLock
<1>4. Workspace!TypeOK' /\ proc'[p] = r /\ \A q \in Procs \ {p} : proc'[q] = proc[q]
  BY <1>1, <1>2, <1>3, ProcType DEF Workspace!TypeOK, Workspace!Owning
<1>5. ASSUME Undisturbed PROVE Undisturbed'
  <2>1. Workspace!Unlock(p)
    BY <1>5 DEF Undisturbed, Workspace!RemoveStale, Workspace!At
  <2>2. \A q \in Procs \ {p} : proc[q].pc \notin Workspace!Owning
    BY <1>5, <2>1 DEF Undisturbed, Workspace!Unlock, Workspace!At, Workspace!Owning
  <2>3. \A q \in Procs : proc'[q].pc \notin Workspace!Owning
    BY <1>1, <1>4, <2>2 DEF Workspace!Owning
  <2>4. \A q \in Procs : ~ Workspace!Holds(q)' /\ proc'[q].pc \notin {"restat", "remove"}
    BY <1>1, <1>4, <1>5, <2>3 DEF Workspace!Holds, Workspace!Owning, Undisturbed
  <2> QED BY <1>2, <1>3, <2>3, <2>4 DEF Undisturbed, Workspace!Orphan, Workspace!Exists
<1> QED BY <1>2, <1>4, <1>5

\* Every step of the workspace lock keeps the invariant.
LEMMA WorkspaceStep ==
  ASSUME Finite, FileInv, [Workspace!Next]_Workspace!vars
  PROVE  FileInv'
<1> USE DEF FileInv
<1>1. ASSUME NEW p \in Procs, NEW l \in {"create", "stat", "restat", "remove", "poll"} \cup Workspace!Owning,
             Workspace!Go(p, l), UNCHANGED <<lockFile, interruptions>>,
             l \in Workspace!Owning <=> proc[p].pc \in Workspace!Owning, l \in Has => proc[p].pc \in Has,
             Undisturbed => l \notin {"restat", "remove"}
      PROVE  FileInv'
  <2> DEFINE r == [proc[p] EXCEPT !.pc = l]
  <2>1. r \in ProcState /\ r.pc = l /\ r.token = proc[p].token
    BY DEF Workspace!TypeOK, ProcState
  <2>2. proc' = [proc EXCEPT ![p] = r]
    BY <1>1 DEF Workspace!Go
  <2> HIDE DEF r
  <2> QED BY <1>1, <2>1, <2>2, MovesOn
<1>2. ASSUME NEW p \in Procs, Workspace!Enter(p) \/ Workspace!EndBody(p) \/ Workspace!StatAgain(p) PROVE FileInv'
  <2>1. proc[p].pc \in {"off", "body", "restat"} /\ UNCHANGED <<lockFile, interruptions>>
    BY <1>2 DEF Workspace!Enter, Workspace!EndBody, Workspace!StatAgain, Workspace!At
  <2>2. PICK l \in {"create", "stat", "restat", "remove", "poll"} \cup Workspace!Owning :
           /\ Workspace!Go(p, l)
           /\ proc[p].pc = "off" => l = "create"
           /\ proc[p].pc = "body" => l = "release"
           /\ proc[p].pc = "restat" => l \in {"remove", "poll"}
    BY <1>2 DEF Workspace!Enter, Workspace!EndBody, Workspace!StatAgain, Workspace!AfterBody,
       Workspace!At, Workspace!Owning
  <2>3. Undisturbed => proc[p].pc # "restat"
    BY DEF Undisturbed
  <2> QED BY <1>1, <2>1, <2>2, <2>3 DEF Workspace!Owning, Has
<1>3. ASSUME NEW p \in Procs, Workspace!StatLock(p) PROVE FileInv'
  <2>1. CASE ~ lockFile.stale
    BY <1>1, <1>3, <2>1 DEF Workspace!StatLock, Workspace!At, Workspace!Owning, Has
  <2>2. CASE lockFile.stale
    <3> DEFINE r == [proc[p] EXCEPT !.pc = "restat", !.seen = lockFile.id]
    <3>1. /\ r \in ProcState /\ r.pc = "restat" /\ r.token = proc[p].token /\ proc[p].pc = "stat"
          /\ UNCHANGED <<lockFile, interruptions>>
      BY <1>3 DEF Workspace!StatLock, Workspace!At, Workspace!TypeOK, ProcState
    <3>2. proc' = [proc EXCEPT ![p] = r]
      BY <1>3, <2>2 DEF Workspace!StatLock
    <3> HIDE DEF r
    <3> QED BY <2>2, <3>1, <3>2, MovesOn DEF Workspace!Owning, Has, Undisturbed
  <2> QED BY <2>1, <2>2
<1>4. ASSUME NEW p \in Procs, Workspace!Poll(p) PROVE FileInv'
  <2>1. PICK r \in ProcState : /\ proc' = [proc EXCEPT ![p] = r]
                               /\ r.pc \in {"off", "create"} /\ r.token = Workspace!None
    <3>1. CASE proc' = [proc EXCEPT ![p] = Workspace!Off]
      BY <3>1, OffType
    <3>2. CASE proc' = [proc EXCEPT ![p] = [@ EXCEPT !.pc = "create", !.seen = Workspace!None]]
      <4> DEFINE r == [proc[p] EXCEPT !.pc = "create", !.seen = Workspace!None]
      <4>1. r \in ProcState /\ r.pc = "create" /\ r.token = Workspace!None /\ proc' = [proc EXCEPT ![p] = r]
        BY <1>4, <3>2 DEF Workspace!Poll, Workspace!At, Workspace!TypeOK, ProcState,
           Workspace!Owning
      <4> QED BY <4>1
    <3> QED BY <1>4, <3>1, <3>2 DEF Workspace!Poll
  <2>2. proc[p].pc = "poll" /\ proc[p].token = Workspace!None /\ UNCHANGED <<lockFile, interruptions>>
    BY <1>4 DEF Workspace!Poll, Workspace!At, Workspace!TypeOK, Workspace!Owning
  <2> QED BY <2>1, <2>2, MovesOn DEF Workspace!Owning, Has
<1>5. ASSUME NEW p \in Procs, Workspace!ReadToken(p) PROVE FileInv'
  <2>1. CASE lockFile.written /\ lockFile.id = proc[p].token
    <3>1. Workspace!Go(p, "unlock") /\ proc[p].pc = "release" /\ UNCHANGED <<lockFile, interruptions>>
      BY <1>5, <2>1 DEF Workspace!ReadToken, Workspace!At, Workspace!Go
    <3> QED BY <1>1, <3>1 DEF Workspace!Owning, Has
  <2>2. CASE ~ (lockFile.written /\ lockFile.id = proc[p].token)
    <3>1. proc[p].pc = "release" /\ proc' = [proc EXCEPT ![p] = Workspace!Off] /\ UNCHANGED <<lockFile, interruptions>>
      BY <1>5, <2>2 DEF Workspace!ReadToken, Workspace!At
    <3>2. Workspace!Off \in ProcState /\ (Workspace!Off.pc \in Workspace!Owning <=> Workspace!Off.token # Workspace!None)
      BY DEF Workspace!Off, ProcState, Workspace!Owning, Workspace!None
    <3>3. Workspace!TypeOK'
      BY <3>1, <3>2, ProcType DEF Workspace!TypeOK
    <3>4. ~ Undisturbed
      BY <2>2, <3>1 DEF Undisturbed, Workspace!Holds, Workspace!Owning
    <3> QED BY <3>1, <3>3, <3>4
  <2> QED BY <2>1, <2>2
<1>6. ASSUME Workspace!Age \/ Workspace!AgeInUse PROVE FileInv'
  <2>1. proc' = proc /\ lockFile' = [lockFile EXCEPT !.stale = TRUE]
    BY <1>6 DEF Workspace!Age, Workspace!AgeInUse
  <2>2. interruptions' \in 0..MaxInterruptions /\ (interruptions' = 0 => interruptions = 0 /\ Workspace!Orphan)
    BY <1>6 DEF Workspace!Age, Workspace!AgeInUse, Finite, Workspace!TypeOK
  <2>3. Workspace!TypeOK'
    BY <2>1, <2>2 DEF Workspace!TypeOK
  <2> QED BY <2>2, <2>3 DEF Undisturbed
<1>7. ASSUME NEW p \in Procs, Workspace!Transaction(p) PROVE FileInv'
  BY <1>2, <1>3, <1>4, <1>5, <1>7, CreateKeeps, WriteKeeps, UnlockKeeps DEF Workspace!Transaction
<1>8. ASSUME NEW p \in Procs, Workspace!WriteFails(p) \/ Workspace!Crash(p) PROVE FileInv'
  BY <1>8, Disturbed DEF Workspace!WriteFails, Workspace!Crash
<1>9. CASE UNCHANGED Workspace!vars
  BY <1>9 DEF Workspace!vars, Workspace!TypeOK, Undisturbed, Workspace!Holds, Workspace!Orphan,
     Workspace!OwnedBy, Workspace!Exists
<1> HIDE DEF FileInv
<1> QED BY <1>2, <1>6, <1>7, <1>8, <1>9 DEF Workspace!Next

\* The invariant says what the properties ask for.
LEMMA WorkspaceSafe == FileInv => Workspace!OneOwner /\ Workspace!LockHasOwner /\ Workspace!TypeOK
BY DEF FileInv, Workspace!OneOwner, Workspace!LockHasOwner, Undisturbed, Workspace!Holds,
   Workspace!Owning

-----------------------------------------------------------------------------
(* The archive of symbol-memory events.                                     *)

\* A rotation has done none of its steps or the first; after the first its batch is in
\* a file.  Until a rotation is interrupted the files hold what the manifest lists and
\* that batch, each event once.
ArchiveInv ==
  /\ step \in {0, 1} /\ (batch = {} => step = 0) /\ (step = 1 => batch \in files)
  /\ manifest \subseteq UNION files
  /\ crashes \in Nat
  /\ crashes = 0 =>
       /\ Archive!ArchivedOnce
       /\ batch \cap manifest = {}
       /\ UNION files \subseteq manifest \cup (IF step = 1 THEN batch ELSE {})

\* Nothing is archived and no rotation has begun.
LEMMA ArchiveInit == Archive!Init => ArchiveInv
BY DEF Archive!Init, ArchiveInv, Archive!ArchivedOnce

\* Every step of the archive keeps the invariant.
LEMMA ArchiveStep ==
  ASSUME ArchiveInv, [Archive!Next]_Archive!vars
  PROVE  ArchiveInv'
<1> USE DEF ArchiveInv
<1>1. ASSUME NEW t \in Archive!Times, Archive!AppendEvent(t) PROVE ArchiveInv'
  BY <1>1 DEF Archive!AppendEvent, Archive!ArchivedOnce
<1>2. CASE Archive!StartRotation
  <2>1. Archive!Pending \cap manifest = {}
    BY DEF Archive!Pending
  <2> QED BY <1>2, <2>1 DEF Archive!StartRotation, Archive!ArchivedOnce
<1>3. CASE Archive!WriteNext
  <2>1. Archive!Steps[1] = "file" /\ Archive!Steps[2] = "manifest" /\ Len(Archive!Steps) = 2
    BY DEF Archive!Steps
  <2>2. CASE step = 0
    <3>1. files' = files \cup {batch} /\ step' = 1 /\ UNCHANGED <<manifest, batch, crashes>>
      BY <1>3, <2>1, <2>2 DEF Archive!WriteNext
    <3>2. ASSUME crashes = 0 PROVE batch \cap UNION files = {}
      BY <2>2, <3>2
    <3>3. Archive!ArchivedOnce'
      BY <3>1, <3>2 DEF Archive!ArchivedOnce
    <3> QED BY <2>2, <3>1, <3>3, <1>3 DEF Archive!WriteNext
  <2>3. CASE step = 1
    <3>1. manifest' = manifest \cup batch /\ step' = 0 /\ batch' = {} /\ UNCHANGED <<files, crashes>>
      BY <1>3, <2>1, <2>3 DEF Archive!WriteNext
    <3> QED BY <2>3, <3>1 DEF Archive!ArchivedOnce
  <2> QED BY <2>2, <2>3
<1>4. CASE Archive!Interrupt
  BY <1>4 DEF Archive!Interrupt, Archive!ArchivedOnce
<1>5. CASE UNCHANGED Archive!vars
  BY <1>5 DEF Archive!vars, Archive!ArchivedOnce
<1> QED BY <1>1, <1>2, <1>3, <1>4, <1>5 DEF Archive!Next

\* The invariant says what the properties ask for.
LEMMA ArchiveSafe == ArchiveInv => Archive!ManifestIsBacked /\ Archive!ArchivedOnce
BY DEF ArchiveInv, Archive!ManifestIsBacked, Archive!ArchivedOnce

-----------------------------------------------------------------------------
(* The warehouse transaction: one writer per file, nothing left behind, all *)
(* or nothing, for every number of processes, files, units and levels.      *)

\* Neither a process nor a file is the value that stands for none.
Named == Warehouse!None \notin Writers \cup Paths

WarehouseTyped ==
  /\ lock \in [Paths -> Writers \cup {Warehouse!None}]
  /\ conn \in [Writers -> Paths \cup {Warehouse!None}]
  /\ phase \in [Writers -> {"idle", "waiting", "body", "closing", "unlocking"}]
  /\ active \in [Writers -> Paths \cup {Warehouse!None}]
  /\ txn \in [Writers -> {Warehouse!None, "clean", "rollback_only"}]
  /\ frames \in [Writers -> Seq(Nat)]
  /\ raising \in [Writers -> BOOLEAN]
  /\ pending \in [Writers -> SUBSET Nat]
  /\ db \in [Paths -> SUBSET Nat]
  /\ wanted \in [Writers -> Paths \cup {Warehouse!None}]
  /\ failed \subseteq Nat
  /\ started \in Nat
  /\ outcome \in [Writers -> {Warehouse!None, "ok", "error"}]

\* What p holds, by where it is.
Placed(p) ==
  /\ phase[p] = "idle" <=> wanted[p] = Warehouse!None
  /\ \A d \in Paths : lock[d] = p <=> phase[p] \in {"body", "closing", "unlocking"} /\ d = wanted[p]
  /\ conn[p] = IF phase[p] \in {"body", "closing"} THEN wanted[p] ELSE Warehouse!None
  /\ active[p] = IF phase[p] = "body" THEN wanted[p] ELSE Warehouse!None
  /\ phase[p] = "body" <=> txn[p] # Warehouse!None
  /\ phase[p] = "body" <=> frames[p] # <<>>

ProcessInv == WarehouseTyped /\ \A p \in Writers : Placed(p)

\* What a sequence holds, and that it holds nothing twice.
Elems(f) == {f[i] : i \in 1..Len(f)}
Distinct(f) == \A i, j \in 1..Len(f) : f[i] = f[j] => i = j

\* The units of p's open transaction.
Open(p) == Elems(frames[p])
Mine(p) == pending[p] \cup Open(p)

\* No unit of p is committed before its transaction; one that failed spoils it.
Undecided(p) ==
  /\ \A u \in Mine(p) : u \in 1..started /\ \A d \in Paths : u \notin db[d]
  /\ Open(p) \cap failed = {}
  /\ Distinct(frames[p])
  /\ pending[p] \cap failed # {} => txn[p] = "rollback_only"
  /\ phase[p] # "body" => pending[p] = {}

UnitsInv ==
  /\ \A p \in Writers : Undecided(p)
  /\ \A p, q \in Writers : p # q => Mine(p) \cap Mine(q) = {}
  /\ \A d \in Paths : db[d] \subseteq 1..started /\ db[d] \cap failed = {}
  /\ failed \subseteq 1..started

WarehouseInv == ProcessInv /\ UnitsInv


\* What a writer holds by its place, at first.
LEMMA ControlInit ==
  ASSUME Named, Warehouse!Init
  PROVE  ProcessInv
<1>1. WarehouseTyped
  BY DEF Warehouse!Init, WarehouseTyped
<1>2. \A p \in Writers : Placed(p)
  BY DEF Warehouse!Init, Placed, Named, Warehouse!None
<1> QED BY <1>1, <1>2 DEF ProcessInv

\* A step of p that leaves the other processes where they are.
LEMMA OneMoves ==
  ASSUME ProcessInv, WarehouseTyped', NEW p \in Writers, Placed(p)',
         \A q \in Writers \ {p} :
           /\ phase'[q] = phase[q] /\ wanted'[q] = wanted[q] /\ conn'[q] = conn[q]
           /\ active'[q] = active[q] /\ txn'[q] = txn[q] /\ frames'[q] = frames[q],
         \A d \in Paths : lock'[d] = lock[d] \/ (lock[d] \in {p, Warehouse!None} /\ lock'[d] \in {p, Warehouse!None}),
         Named
  PROVE  ProcessInv'
<1>1. ASSUME NEW q \in Writers, q # p
      PROVE  Placed(q)'
  <2>1. \A d \in Paths : lock'[d] = q <=> lock[d] = q
    BY <1>1 DEF Named
  <2>2. Placed(q)
    BY DEF ProcessInv
  <2> QED BY <1>1, <2>1, <2>2 DEF Placed
<1> QED BY <1>1 DEF ProcessInv

\* A writer inside a unit has an innermost unit, and it is open.
LEMMA InnermostIsOpen ==
  ASSUME ProcessInv, NEW p \in Writers, phase[p] = "body"
  PROVE  /\ frames[p] \in Seq(Nat) /\ Warehouse!Depth(p) \in Nat /\ Warehouse!Depth(p) > 0
         /\ Warehouse!Innermost(p) \in Nat /\ Warehouse!Innermost(p) \in Open(p)
<1>1. frames[p] \in Seq(Nat) /\ frames[p] # <<>>
  BY DEF ProcessInv, WarehouseTyped, Placed
<1>2. Len(frames[p]) \in Nat /\ Len(frames[p]) > 0
  BY <1>1
<1> QED BY <1>1, <1>2 DEF Warehouse!Depth, Warehouse!Innermost, Open, Elems

\* What a writer holds by its place is inductive.
LEMMA ControlStep ==
  ASSUME Named, ProcessInv, [Warehouse!Next]_Warehouse!vars
  PROVE  ProcessInv'
<1> USE DEF Named
<1>1. ASSUME NEW p \in Writers, NEW d \in Paths, Warehouse!Call(p, d)
      PROVE  ProcessInv'
  <2>1. WarehouseTyped' BY <1>1 DEF Warehouse!Call, ProcessInv, WarehouseTyped
  <2>2. Placed(p)' BY <1>1 DEF Warehouse!Call, ProcessInv, Placed, WarehouseTyped, Warehouse!None
  <2> QED BY <1>1, <2>1, <2>2, OneMoves DEF Warehouse!Call, ProcessInv, WarehouseTyped
<1>2. ASSUME NEW p \in Writers, Warehouse!Acquire(p)
      PROVE  ProcessInv'
  <2>0. wanted[p] \in Paths
    BY <1>2 DEF Warehouse!Acquire, ProcessInv, Placed, WarehouseTyped
  <2>1. WarehouseTyped' BY <1>2, <2>0 DEF Warehouse!Acquire, ProcessInv, WarehouseTyped
  <2>2. Placed(p)' BY <1>2, <2>0 DEF Warehouse!Acquire, ProcessInv, Placed, WarehouseTyped,
                      Warehouse!None
  <2> QED BY <1>2, <2>0, <2>1, <2>2, OneMoves DEF Warehouse!Acquire, ProcessInv, WarehouseTyped
<1>3. ASSUME NEW p \in Writers, Warehouse!OpenFails(p)
      PROVE  ProcessInv'
  <2>1. WarehouseTyped' BY <1>3 DEF Warehouse!OpenFails, ProcessInv, WarehouseTyped
  <2>2. Placed(p)' BY <1>3 DEF Warehouse!OpenFails, ProcessInv, Placed, WarehouseTyped, Warehouse!None
  <2> QED BY <1>3, <2>1, <2>2, OneMoves DEF Warehouse!OpenFails, ProcessInv, WarehouseTyped
<1>4. ASSUME NEW p \in Writers, NEW d \in Paths, Warehouse!CallNested(p, d)
      PROVE  ProcessInv'
  <2>1. /\ frames[p] \in Seq(Nat) /\ started' \in Nat
        /\ frames' = [frames EXCEPT ![p] = Append(frames[p], started')]
    BY <1>4 DEF Warehouse!CallNested, ProcessInv, WarehouseTyped
  <2>2. Append(frames[p], started') \in Seq(Nat) /\ Append(frames[p], started') # <<>>
    BY <2>1
  <2>3. frames' \in [Writers -> Seq(Nat)] /\ frames'[p] # <<>>
        /\ \A q \in Writers \ {p} : frames'[q] = frames[q]
    BY <2>1, <2>2 DEF ProcessInv, WarehouseTyped
  <2>4. WarehouseTyped' BY <1>4, <2>1, <2>3 DEF Warehouse!CallNested, ProcessInv, WarehouseTyped
  <2>5. Placed(p)' BY <1>4, <2>3 DEF Warehouse!CallNested, Warehouse!Running, ProcessInv, Placed
  <2>6. \A q \in Writers \ {p} :
           /\ phase'[q] = phase[q] /\ wanted'[q] = wanted[q] /\ conn'[q] = conn[q]
           /\ active'[q] = active[q] /\ txn'[q] = txn[q] /\ frames'[q] = frames[q]
    BY <1>4, <2>3 DEF Warehouse!CallNested
  <2> QED BY <1>4, <2>4, <2>5, <2>6, OneMoves DEF Warehouse!CallNested
<1>5. ASSUME NEW p \in Writers, NEW d \in Paths, Warehouse!CallElsewhere(p, d)
      PROVE  ProcessInv'
  <2>1. WarehouseTyped' BY <1>5 DEF Warehouse!CallElsewhere, ProcessInv, WarehouseTyped
  <2> QED BY <1>5, <2>1 DEF Warehouse!CallElsewhere, ProcessInv, Placed
<1>6. ASSUME NEW p \in Writers, Warehouse!Write(p)
      PROVE  ProcessInv'
  <2>1. Warehouse!Innermost(p) \in Nat
    BY <1>6, InnermostIsOpen DEF Warehouse!Write, Warehouse!Running
  <2>2. WarehouseTyped' BY <1>6, <2>1 DEF Warehouse!Write, ProcessInv, WarehouseTyped
  <2> QED BY <1>6, <2>2 DEF Warehouse!Write, ProcessInv, Placed
<1>7. ASSUME NEW p \in Writers, Warehouse!Raise(p) \/ Warehouse!Catch(p)
      PROVE  ProcessInv'
  <2>1. WarehouseTyped' BY <1>7 DEF Warehouse!Raise, Warehouse!Catch, ProcessInv, WarehouseTyped
  <2> QED BY <1>7, <2>1 DEF Warehouse!Raise, Warehouse!Catch, ProcessInv, Placed
<1>8. ASSUME NEW p \in Writers, Warehouse!EndNested(p)
      PROVE  ProcessInv'
  <2> DEFINE f == SubSeq(frames[p], 1, Len(frames[p]) - 1)
  <2>1. /\ frames[p] \in Seq(Nat) /\ Len(frames[p]) \in Nat /\ Len(frames[p]) > 1
        /\ Warehouse!Innermost(p) \in Nat
    BY <1>8, InnermostIsOpen DEF Warehouse!EndNested, Warehouse!Depth
  <2>2. f \in Seq(Nat) /\ f # <<>>
    <3>1. 1 \in Nat /\ Len(frames[p]) - 1 \in Nat /\ Len(frames[p]) - 1 > 0
      BY <2>1
    <3>2. f \in Seq(Nat) /\ Len(f) = Len(frames[p]) - 1
      BY <2>1, <3>1
    <3> HIDE DEF f
    <3>3. f # <<>>
      BY <3>1, <3>2, Len(<<>>) = 0
    <3> QED BY <3>2, <3>3
  <2>3. Warehouse!TxnAfterNested(p) \in {"clean", "rollback_only"}
    BY <1>8 DEF Warehouse!EndNested, Warehouse!TxnAfterNested, ProcessInv, Placed, WarehouseTyped
  <2>4. frames' = [frames EXCEPT ![p] = f]
    BY <1>8 DEF Warehouse!EndNested, Warehouse!Depth
  <2>5. frames' \in [Writers -> Seq(Nat)] /\ frames'[p] # <<>>
        /\ \A q \in Writers \ {p} : frames'[q] = frames[q]
    <3> HIDE DEF f
    <3> QED BY <2>4, <2>2 DEF ProcessInv, WarehouseTyped
  <2>6. txn' \in [Writers -> {Warehouse!None, "clean", "rollback_only"}] /\ txn'[p] # Warehouse!None
        /\ \A q \in Writers \ {p} : txn'[q] = txn[q]
    BY <1>8, <2>3 DEF Warehouse!EndNested, ProcessInv, WarehouseTyped, Warehouse!None
  <2>7. failed' \subseteq Nat
    BY <1>8, <2>1 DEF Warehouse!EndNested, ProcessInv, WarehouseTyped
  <2>8. WarehouseTyped' BY <1>8, <2>5, <2>6, <2>7 DEF Warehouse!EndNested, ProcessInv, WarehouseTyped
  <2>9. Placed(p)' BY <1>8, <2>5, <2>6 DEF Warehouse!EndNested, ProcessInv, Placed
  <2>10. \A q \in Writers \ {p} :
           /\ phase'[q] = phase[q] /\ wanted'[q] = wanted[q] /\ conn'[q] = conn[q]
           /\ active'[q] = active[q] /\ txn'[q] = txn[q] /\ frames'[q] = frames[q]
    BY <1>8, <2>5, <2>6 DEF Warehouse!EndNested
  <2> QED BY <1>8, <2>8, <2>9, <2>10, OneMoves DEF Warehouse!EndNested
<1>9. ASSUME NEW p \in Writers, Warehouse!EndOutermost(p)
      PROVE  ProcessInv'
  <2>1. Warehouse!Innermost(p) \in Nat
    BY <1>9, InnermostIsOpen DEF Warehouse!EndOutermost
  <2>2. db' \in [Paths -> SUBSET Nat]
    <3>1. db \in [Paths -> SUBSET Nat] /\ pending[p] \subseteq Nat
      BY DEF ProcessInv, WarehouseTyped
    <3>2. CASE db' = [db EXCEPT ![conn[p]] = @ \cup pending[p]]
      BY <3>1, <3>2
    <3>3. CASE db' = db
      BY <3>1, <3>3
    <3> QED BY <1>9, <3>2, <3>3 DEF Warehouse!EndOutermost
  <2>3. frames' \in [Writers -> Seq(Nat)] /\ frames'[p] = <<>>
        /\ \A q \in Writers \ {p} : frames'[q] = frames[q]
    <3>1. <<>> \in Seq(Nat) OBVIOUS
    <3> QED BY <1>9, <3>1 DEF Warehouse!EndOutermost, ProcessInv, WarehouseTyped
  <2>4. failed' \subseteq Nat /\ outcome' \in [Writers -> {Warehouse!None, "ok", "error"}]
    BY <1>9, <2>1 DEF Warehouse!EndOutermost, Warehouse!RolledBackOutcome, ProcessInv,
       WarehouseTyped
  <2>5. WarehouseTyped'
    BY <1>9, <2>2, <2>3, <2>4 DEF Warehouse!EndOutermost, Warehouse!ContextAfter, ProcessInv,
       WarehouseTyped
  <2>6. Placed(p)'
    BY <1>9, <2>3 DEF Warehouse!EndOutermost, Warehouse!ContextAfter, ProcessInv, Placed,
       WarehouseTyped
  <2>7. \A q \in Writers \ {p} :
           /\ phase'[q] = phase[q] /\ wanted'[q] = wanted[q] /\ conn'[q] = conn[q]
           /\ active'[q] = active[q] /\ txn'[q] = txn[q] /\ frames'[q] = frames[q]
    BY <1>9, <2>3 DEF Warehouse!EndOutermost, ProcessInv, WarehouseTyped
  <2> QED BY <1>9, <2>5, <2>6, <2>7, OneMoves DEF Warehouse!EndOutermost
<1>10. ASSUME NEW p \in Writers, Warehouse!CloseConnection(p)
       PROVE  ProcessInv'
  <2>1. WarehouseTyped' BY <1>10 DEF Warehouse!CloseConnection, ProcessInv, WarehouseTyped
  <2>2. Placed(p)' BY <1>10 DEF Warehouse!CloseConnection, ProcessInv, Placed, WarehouseTyped
  <2> QED BY <1>10, <2>1, <2>2, OneMoves DEF Warehouse!CloseConnection, ProcessInv, WarehouseTyped
<1>11. ASSUME NEW p \in Writers, Warehouse!Unlock(p)
       PROVE  ProcessInv'
  <2>0. wanted[p] \in Paths /\ lock[wanted[p]] = p
    BY <1>11 DEF Warehouse!Unlock, ProcessInv, Placed, WarehouseTyped
  <2>1. WarehouseTyped' BY <1>11 DEF Warehouse!Unlock, ProcessInv, WarehouseTyped
  <2>2. Placed(p)' BY <1>11, <2>0 DEF Warehouse!Unlock, ProcessInv, Placed, WarehouseTyped,
                      Warehouse!None
  <2> QED BY <1>11, <2>0, <2>1, <2>2, OneMoves DEF Warehouse!Unlock, ProcessInv, WarehouseTyped
<1>12. ASSUME NEW p \in Writers, Warehouse!Crash(p)
       PROVE  ProcessInv'
  <2>1. WarehouseTyped' BY <1>12 DEF Warehouse!Crash, ProcessInv, WarehouseTyped
  <2>2. Placed(p)' BY <1>12 DEF Warehouse!Crash, ProcessInv, Placed, WarehouseTyped, Warehouse!None
  <2> QED BY <1>12, <2>1, <2>2, OneMoves DEF Warehouse!Crash, ProcessInv, WarehouseTyped
<1>13. CASE Warehouse!Spent \/ UNCHANGED Warehouse!vars
  <2>1. UNCHANGED Warehouse!vars
    BY <1>13 DEF Warehouse!Spent
  <2>2. WarehouseTyped' BY <2>1 DEF Warehouse!vars, ProcessInv, WarehouseTyped
  <2> QED BY <2>1, <2>2 DEF Warehouse!vars, ProcessInv, Placed
<1>14. ASSUME NEW p \in Writers, Warehouse!Body(p)
       PROVE  ProcessInv'
  BY <1>4, <1>5, <1>6, <1>7, <1>8, <1>9, <1>14 DEF Warehouse!Body
<1>15. CASE \E p \in Writers :
       \/ \E d \in Paths : Warehouse!Call(p, d)
       \/ Warehouse!Acquire(p) \/ Warehouse!OpenFails(p)
       \/ Warehouse!Body(p) \/ Warehouse!CloseConnection(p) \/ Warehouse!Unlock(p)
       \/ Warehouse!Crash(p)
  BY <1>1, <1>2, <1>3, <1>10, <1>11, <1>12, <1>14, <1>15
<1> QED BY <1>13, <1>15 DEF Warehouse!Next


\* A stack with one unit more.
LEMMA AppendElems ==
  ASSUME NEW f \in Seq(Nat), NEW u \in Nat
  PROVE  /\ Elems(Append(f, u)) = Elems(f) \cup {u}
         /\ Distinct(f) /\ u \notin Elems(f) => Distinct(Append(f, u))
<1>1. /\ Len(f) \in Nat /\ Len(Append(f, u)) = Len(f) + 1
      /\ \A i \in 1..Len(f) : Append(f, u)[i] = f[i]
      /\ Append(f, u)[Len(f) + 1] = u
  OBVIOUS
<1>2. \A i : i \in 1..(Len(f) + 1) <=> i \in 1..Len(f) \/ i = Len(f) + 1
  BY <1>1
<1>3. Elems(Append(f, u)) = Elems(f) \cup {u}
  BY <1>1, <1>2 DEF Elems
<1>4. Distinct(f) /\ u \notin Elems(f) => Distinct(Append(f, u))
  BY <1>1, <1>2 DEF Elems, Distinct
<1> QED BY <1>3, <1>4

\* A stack with one unit less.
LEMMA FrontElems ==
  ASSUME NEW f \in Seq(Nat), Len(f) > 1, Distinct(f)
  PROVE  /\ Elems(SubSeq(f, 1, Len(f) - 1)) \subseteq Elems(f) \ {f[Len(f)]}
         /\ Distinct(SubSeq(f, 1, Len(f) - 1))
<1> DEFINE g == SubSeq(f, 1, Len(f) - 1)
<1>1. /\ Len(f) \in Nat /\ Len(g) = Len(f) - 1
      /\ \A i \in 1..(Len(f) - 1) : g[i] = f[i]
  OBVIOUS
<1>2. \A i \in 1..(Len(f) - 1) : i \in 1..Len(f) /\ i # Len(f)
  BY <1>1
<1>3. Len(f) \in 1..Len(f)
  BY <1>1
<1> HIDE DEF g
<1>4. Elems(g) \subseteq Elems(f) \ {f[Len(f)]}
  BY <1>1, <1>2, <1>3 DEF Elems, Distinct
<1>5. Distinct(g)
  BY <1>1, <1>2 DEF Distinct
<1> QED BY <1>4, <1>5 DEF g

\* No unit is open at first.
LEMMA DataInit ==
  ASSUME Warehouse!Init
  PROVE  UnitsInv
<1>1. \A p \in Writers : frames[p] = <<>> /\ pending[p] = {} /\ phase[p] = "idle"
  BY DEF Warehouse!Init
<1>2. Elems(<<>>) = {} /\ Distinct(<<>>)
  BY DEF Elems, Distinct
<1>3. \A p \in Writers : Mine(p) = {} /\ Open(p) = {}
  BY <1>1, <1>2 DEF Mine, Open
<1> QED BY <1>1, <1>2, <1>3 DEF Warehouse!Init, UnitsInv, Undecided

\* A step that touches no unit.
LEMMA UnitsKept ==
  ASSUME UnitsInv, UNCHANGED <<txn, frames, pending, db, failed, started>>,
         \A p \in Writers : phase'[p] # "body" => phase[p] # "body"
  PROVE  UnitsInv'
BY DEF UnitsInv, Undecided, Mine, Open

\* A step of p decides about units of p only, and the units it adds are new.
LEMMA OwnUnitsOnly ==
  ASSUME ProcessInv, UnitsInv, NEW p \in Writers, Undecided(p)',
         started' \in Nat, started' >= started,
         \A q \in Writers \ {p} :
           /\ frames'[q] = frames[q] /\ pending'[q] = pending[q]
           /\ txn'[q] = txn[q] /\ phase'[q] = phase[q],
         \A u \in Mine(p)' : u \in Mine(p) \/ u > started,
         \A d \in Paths : db'[d] \subseteq db[d] \cup Mine(p),
         failed' \subseteq failed \cup Mine(p),
         \A d \in Paths : db'[d] \cap failed' = {}
  PROVE  UnitsInv'
<1>0. started \in Nat /\ \A u \in 1..started : u \in 1..started' /\ ~(u > started)
  BY DEF ProcessInv, WarehouseTyped
<1>1. ASSUME NEW q \in Writers, q # p
      PROVE  Undecided(q)' /\ Mine(q)' = Mine(q) /\ Mine(p)' \cap Mine(q)' = {}
  <2>1. Mine(q)' = Mine(q) /\ Open(q)' = Open(q)
    BY <1>1 DEF Mine, Open
  <2>2. Mine(p) \cap Mine(q) = {} /\ Undecided(q)
    BY <1>1 DEF UnitsInv
  <2>3. \A u \in Mine(q) : u \in 1..started /\ \A d \in Paths : u \notin db[d]
    BY <2>2 DEF Undecided
  <2>4. \A u \in Mine(q)' : u \in 1..started' /\ \A d \in Paths : u \notin db'[d]
    BY <1>0, <2>1, <2>2, <2>3
  <2>5. Open(q)' \cap failed' = {}
    BY <2>1, <2>2 DEF Undecided, Mine
  <2>6. pending'[q] \cap failed' # {} => txn'[q] = "rollback_only"
    BY <1>1, <2>2 DEF Undecided, Mine
  <2>7. Undecided(q)'
    BY <1>1, <2>2, <2>4, <2>5, <2>6 DEF Undecided
  <2>8. Mine(p)' \cap Mine(q)' = {}
    BY <1>0, <2>1, <2>2, <2>3
  <2> QED BY <2>1, <2>7, <2>8
<1>2. \A q, r \in Writers : q # r => Mine(q)' \cap Mine(r)' = {}
  BY <1>1 DEF UnitsInv
<1>3. \A u \in Mine(p) : u \in 1..started
  BY DEF UnitsInv, Undecided
<1>4. \A d \in Paths : db'[d] \subseteq 1..started'
  BY <1>0, <1>3 DEF UnitsInv
<1>5. failed' \subseteq 1..started'
  BY <1>0, <1>3 DEF UnitsInv
<1> QED BY <1>1, <1>2, <1>4, <1>5 DEF UnitsInv

\* A step of p after which it has no unit open.
LEMMA NothingOpen ==
  ASSUME NEW p \in Writers, frames'[p] = <<>>, pending'[p] = {}
  PROVE  Undecided(p)' /\ Mine(p)' = {}
<1>1. Elems(<<>>) = {} /\ Distinct(<<>>)
  BY DEF Elems, Distinct
<1>2. Open(p)' = {} /\ Mine(p)' = {}
  BY <1>1 DEF Open, Mine
<1> QED BY <1>1, <1>2 DEF Undecided

\* Opening the outermost unit takes a new one.
LEMMA AcquireUnits ==
  ASSUME Named, WarehouseInv, ProcessInv', NEW p \in Writers, Warehouse!Acquire(p)
  PROVE  UnitsInv'
<1>1. started \in Nat /\ started' = started + 1
  BY DEF Warehouse!Acquire, WarehouseInv, ProcessInv, WarehouseTyped
<1>2. frames'[p] = <<started'>> /\ pending'[p] = {} /\ phase'[p] = "body"
  <2>1. phase[p] = "waiting" /\ pending[p] = {} /\ pending' = pending
    BY DEF Warehouse!Acquire, WarehouseInv, UnitsInv, Undecided
  <2> QED BY <2>1 DEF Warehouse!Acquire, WarehouseInv, ProcessInv, WarehouseTyped
<1>3. Elems(<<started'>>) = {started'} /\ Distinct(<<started'>>)
  BY <1>1 DEF Elems, Distinct
<1>4. Mine(p)' = {started'} /\ Open(p)' = {started'}
  BY <1>2, <1>3 DEF Mine, Open
<1>5. /\ \A d \in Paths : started' \notin db'[d]
      /\ started' \notin failed' /\ started' \in 1..started'
  BY <1>1 DEF Warehouse!Acquire, WarehouseInv, UnitsInv
<1>6. Undecided(p)'
  BY <1>2, <1>3, <1>4, <1>5 DEF Undecided
<1>7. \A q \in Writers \ {p} : /\ frames'[q] = frames[q] /\ pending'[q] = pending[q]
                            /\ txn'[q] = txn[q] /\ phase'[q] = phase[q]
  BY DEF Warehouse!Acquire, WarehouseInv, ProcessInv, WarehouseTyped
<1>8. db' = db /\ failed' = failed /\ \A d \in Paths : db'[d] \cap failed' = {}
  BY DEF Warehouse!Acquire, WarehouseInv, UnitsInv
<1> QED BY <1>1, <1>4, <1>6, <1>7, <1>8, OwnUnitsOnly DEF WarehouseInv

\* Opening a nested unit takes a new one.
LEMMA CallNestedUnits ==
  ASSUME Named, WarehouseInv, ProcessInv', NEW p \in Writers, NEW d \in Paths, Warehouse!CallNested(p, d)
  PROVE  UnitsInv'
<1>1. started \in Nat /\ started' = started + 1 /\ frames[p] \in Seq(Nat)
  BY DEF Warehouse!CallNested, WarehouseInv, ProcessInv, WarehouseTyped
<1>2. frames'[p] = Append(frames[p], started') /\ pending'[p] = pending[p]
      /\ txn'[p] = txn[p] /\ phase'[p] = phase[p]
  BY DEF Warehouse!CallNested, WarehouseInv, ProcessInv, WarehouseTyped
<1>3. Undecided(p)
  BY DEF WarehouseInv, UnitsInv
<1>4. started' \notin Mine(p)
  BY <1>1, <1>3 DEF Undecided
<1>5. Open(p)' = Open(p) \cup {started'} /\ Distinct(frames[p])'
  BY <1>1, <1>2, <1>3, <1>4, AppendElems DEF Open, Mine, Undecided
<1>6. Mine(p)' = Mine(p) \cup {started'}
  BY <1>2, <1>5 DEF Mine
<1>7. /\ \A e \in Paths : started' \notin db[e]
      /\ started' \notin failed /\ started' \in 1..started'
      /\ \A u \in 1..started : u \in 1..started'
  BY <1>1 DEF WarehouseInv, UnitsInv
<1>8. db' = db /\ failed' = failed /\ \A e \in Paths : db'[e] \cap failed' = {}
  BY DEF Warehouse!CallNested, WarehouseInv, UnitsInv
<1>9. Undecided(p)'
  <2>1. \A u \in Mine(p)' : u \in 1..started' /\ \A e \in Paths : u \notin db'[e]
    BY <1>3, <1>6, <1>7, <1>8 DEF Undecided
  <2>2. Open(p)' \cap failed' = {}
    BY <1>3, <1>5, <1>7, <1>8 DEF Undecided
  <2>3. pending'[p] \cap failed' # {} => txn'[p] = "rollback_only"
    BY <1>2, <1>3, <1>8 DEF Undecided
  <2>4. phase'[p] # "body" => pending'[p] = {}
    BY <1>2, <1>3 DEF Undecided
  <2> QED BY <1>5, <2>1, <2>2, <2>3, <2>4 DEF Undecided
<1>10. \A q \in Writers \ {p} : /\ frames'[q] = frames[q] /\ pending'[q] = pending[q]
                            /\ txn'[q] = txn[q] /\ phase'[q] = phase[q]
  BY DEF Warehouse!CallNested, WarehouseInv, ProcessInv, WarehouseTyped
<1> QED BY <1>1, <1>6, <1>8, <1>9, <1>10, OwnUnitsOnly DEF WarehouseInv

\* Writing in a unit makes it pending in its own transaction.
LEMMA WriteUnits ==
  ASSUME Named, WarehouseInv, NEW p \in Writers, Warehouse!Write(p)
  PROVE  UnitsInv'
<1>1. Warehouse!Innermost(p) \in Open(p)
  BY InnermostIsOpen DEF WarehouseInv, Warehouse!Write, Warehouse!Running
<1>2. /\ pending'[p] = pending[p] \cup {Warehouse!Innermost(p)}
      /\ UNCHANGED <<frames, txn, phase, db, failed, started>>
      /\ \A q \in Writers \ {p} : pending'[q] = pending[q]
      /\ phase[p] = "body"
  BY DEF Warehouse!Write, Warehouse!Running, WarehouseInv, ProcessInv, WarehouseTyped
<1>3. Undecided(p) /\ started \in Nat
  BY DEF WarehouseInv, UnitsInv, ProcessInv, WarehouseTyped
<1>4. Open(p)' = Open(p) /\ Mine(p)' = Mine(p)
  BY <1>1, <1>2 DEF Open, Mine
<1>5. Warehouse!Innermost(p) \notin failed
  BY <1>1, <1>3 DEF Undecided
<1>6. Undecided(p)'
  BY <1>2, <1>3, <1>4, <1>5 DEF Undecided
<1>7. \A d \in Paths : db'[d] \cap failed' = {}
  BY <1>2 DEF WarehouseInv, UnitsInv
<1> QED BY <1>2, <1>3, <1>4, <1>6, <1>7, OwnUnitsOnly DEF WarehouseInv

\* The end of a nested unit leaves it undecided, and spoils the outermost if it failed.
LEMMA EndNestedUnits ==
  ASSUME Named, WarehouseInv, NEW p \in Writers, Warehouse!EndNested(p)
  PROVE  UnitsInv'
<1>1. /\ frames[p] \in Seq(Nat) /\ Len(frames[p]) > 1
      /\ Warehouse!Innermost(p) = frames[p][Len(frames[p])] /\ Warehouse!Innermost(p) \in Open(p)
  BY InnermostIsOpen DEF WarehouseInv, Warehouse!EndNested, Warehouse!Depth, Warehouse!Innermost
<1>2. Undecided(p) /\ started \in Nat
  BY DEF WarehouseInv, UnitsInv, ProcessInv, WarehouseTyped
<1>3. /\ frames'[p] = SubSeq(frames[p], 1, Len(frames[p]) - 1)
      /\ UNCHANGED <<pending, phase, db, started>>
      /\ phase[p] = "body" /\ txn'[p] = Warehouse!TxnAfterNested(p)
      /\ failed' = IF raising[p] THEN failed \cup {Warehouse!Innermost(p)} ELSE failed
      /\ \A q \in Writers \ {p} : frames'[q] = frames[q] /\ txn'[q] = txn[q]
  BY DEF Warehouse!EndNested, Warehouse!Depth, WarehouseInv, ProcessInv, WarehouseTyped
<1>4. Open(p)' \subseteq Open(p) \ {Warehouse!Innermost(p)} /\ Distinct(frames[p])'
  BY <1>1, <1>2, <1>3, FrontElems DEF Open, Undecided
<1>5. Mine(p)' \subseteq Mine(p)
  BY <1>3, <1>4 DEF Mine
<1>6. failed' \subseteq failed \cup {Warehouse!Innermost(p)} /\ Warehouse!Innermost(p) \in Mine(p)
  BY <1>1, <1>3 DEF Mine
<1>7. pending'[p] \cap failed' # {} => txn'[p] = "rollback_only"
  BY <1>2, <1>3 DEF Warehouse!TxnAfterNested, Undecided
<1>8. Undecided(p)'
  BY <1>2, <1>3, <1>4, <1>5, <1>6, <1>7 DEF Undecided
<1>9. \A d \in Paths : db'[d] \cap failed' = {}
  BY <1>2, <1>3, <1>6 DEF WarehouseInv, UnitsInv, Undecided
<1> QED BY <1>2, <1>3, <1>5, <1>6, <1>8, <1>9, OwnUnitsOnly DEF WarehouseInv

\* The end of the outermost unit decides all of its units alike.
LEMMA EndOutermostUnits ==
  ASSUME Named, WarehouseInv, NEW p \in Writers, Warehouse!EndOutermost(p)
  PROVE  UnitsInv'
<1>1. Warehouse!Innermost(p) \in Mine(p)
  BY InnermostIsOpen DEF WarehouseInv, Warehouse!EndOutermost, Mine
<1>2. Undecided(p) /\ started \in Nat
  BY DEF WarehouseInv, UnitsInv, ProcessInv, WarehouseTyped
<1>3. /\ frames'[p] = <<>> /\ pending'[p] = {} /\ started' = started
      /\ \A q \in Writers \ {p} : /\ frames'[q] = frames[q] /\ pending'[q] = pending[q]
                               /\ txn'[q] = txn[q] /\ phase'[q] = phase[q]
  BY DEF Warehouse!EndOutermost, WarehouseInv, ProcessInv, WarehouseTyped
<1>4. Undecided(p)' /\ Mine(p)' = {}
  BY <1>3, NothingOpen
<1>5. /\ \A d \in Paths : db'[d] \subseteq db[d] \cup Mine(p)
      /\ failed' \subseteq failed \cup Mine(p)
      /\ \A d \in Paths : db'[d] \cap failed' = {}
  <2>1. CASE Warehouse!MayCommit(p) /\ db' = [db EXCEPT ![conn[p]] = @ \cup pending[p]] /\ failed' = failed
    <3>1. pending[p] \cap failed = {}
      BY <1>2, <2>1 DEF Warehouse!MayCommit, Undecided
    <3>2. \A d \in Paths : db'[d] \subseteq db[d] \cup pending[p]
      BY <2>1 DEF WarehouseInv, ProcessInv, WarehouseTyped
    <3> QED BY <2>1, <3>1, <3>2 DEF Mine, WarehouseInv, UnitsInv
  <2>2. CASE db' = db /\ failed' = failed \cup {Warehouse!Innermost(p)}
    BY <1>1, <1>2, <2>2 DEF Undecided, WarehouseInv, UnitsInv
  <2> QED BY <2>1, <2>2 DEF Warehouse!EndOutermost
<1> QED BY <1>2, <1>3, <1>4, <1>5, OwnUnitsOnly DEF WarehouseInv

\* The death of a writer drops its units.
LEMMA CrashUnits ==
  ASSUME Named, WarehouseInv, NEW p \in Writers, Warehouse!Crash(p)
  PROVE  UnitsInv'
<1>1. /\ frames'[p] = <<>> /\ pending'[p] = {} /\ UNCHANGED <<db, failed, started>>
      /\ \A q \in Writers \ {p} : /\ frames'[q] = frames[q] /\ pending'[q] = pending[q]
                               /\ txn'[q] = txn[q] /\ phase'[q] = phase[q]
  BY DEF Warehouse!Crash, WarehouseInv, ProcessInv, WarehouseTyped
<1>2. Undecided(p)' /\ Mine(p)' = {}
  BY <1>1, NothingOpen
<1>3. started \in Nat /\ \A d \in Paths : db[d] \cap failed = {}
  BY DEF WarehouseInv, ProcessInv, WarehouseTyped, UnitsInv
<1> QED BY <1>1, <1>2, <1>3, OwnUnitsOnly DEF WarehouseInv

\* The units of open transactions stay disjoint and undecided.
LEMMA DataStep ==
  ASSUME Named, WarehouseInv, ProcessInv', [Warehouse!Next]_Warehouse!vars
  PROVE  UnitsInv'
<1>0. ProcessInv /\ UnitsInv
  BY DEF WarehouseInv
<1>1. ASSUME NEW p \in Writers, NEW d \in Paths, Warehouse!Call(p, d)
      PROVE  UnitsInv'
  <2>1. \A q \in Writers : phase'[q] # "body" => phase[q] # "body"
    BY <1>0, <1>1 DEF Warehouse!Call, ProcessInv, WarehouseTyped
  <2> QED BY <1>0, <1>1, <2>1, UnitsKept DEF Warehouse!Call
<1>2. ASSUME NEW p \in Writers, Warehouse!OpenFails(p) \/ Warehouse!CloseConnection(p) \/ Warehouse!Unlock(p)
      PROVE  UnitsInv'
  <2>1. \A q \in Writers : phase'[q] # "body" => phase[q] # "body"
    BY <1>0, <1>2 DEF Warehouse!OpenFails, Warehouse!CloseConnection, Warehouse!Unlock,
       ProcessInv, WarehouseTyped
  <2> QED BY <1>0, <1>2, <2>1, UnitsKept DEF Warehouse!OpenFails, Warehouse!CloseConnection,
            Warehouse!Unlock
<1>3. ASSUME NEW p \in Writers, NEW d \in Paths, Warehouse!CallElsewhere(p, d)
      PROVE  UnitsInv'
  BY <1>0, <1>3, UnitsKept DEF Warehouse!CallElsewhere
<1>4. ASSUME NEW p \in Writers, Warehouse!Raise(p) \/ Warehouse!Catch(p)
      PROVE  UnitsInv'
  BY <1>0, <1>4, UnitsKept DEF Warehouse!Raise, Warehouse!Catch
<1>5. ASSUME NEW p \in Writers, Warehouse!Body(p)
      PROVE  UnitsInv'
  <2>1. \A d \in Paths : Warehouse!CallNested(p, d) => UnitsInv'
    BY CallNestedUnits
  <2>2. Warehouse!Write(p) => UnitsInv'
    BY WriteUnits
  <2>3. Warehouse!EndNested(p) => UnitsInv'
    BY EndNestedUnits
  <2>4. Warehouse!EndOutermost(p) => UnitsInv'
    BY EndOutermostUnits
  <2> QED BY <1>3, <1>4, <1>5, <2>1, <2>2, <2>3, <2>4 DEF Warehouse!Body
<1>6. ASSUME NEW p \in Writers, Warehouse!Acquire(p) \/ Warehouse!Crash(p)
      PROVE  UnitsInv'
  BY <1>6, AcquireUnits, CrashUnits
<1>7. CASE Warehouse!Spent \/ UNCHANGED Warehouse!vars
  BY <1>0, <1>7, UnitsKept DEF Warehouse!Spent, Warehouse!vars
<1>8. CASE \E p \in Writers :
       \/ \E d \in Paths : Warehouse!Call(p, d)
       \/ Warehouse!Acquire(p) \/ Warehouse!OpenFails(p)
       \/ Warehouse!Body(p) \/ Warehouse!CloseConnection(p) \/ Warehouse!Unlock(p)
       \/ Warehouse!Crash(p)
  BY <1>1, <1>2, <1>5, <1>6, <1>8
<1> QED BY <1>7, <1>8 DEF Warehouse!Next


Bounded == MaxUnits \in Nat /\ MaxDepth \in Nat \ {0}

\* Units are counted, and a process opens no more of them than it may.
Counted == started <= MaxUnits /\ \A p \in Writers : Len(frames[p]) <= MaxDepth

\* The bounds hold at the start, with nothing open.
LEMMA CountedInit ==
  ASSUME Bounded, Warehouse!Init
  PROVE  Counted
BY DEF Bounded, Warehouse!Init, Counted

\* Only Acquire and CallNested open a unit, and both look at the bounds first.
LEMMA CountedStep ==
  ASSUME Bounded, ProcessInv, Counted, [Warehouse!Next]_Warehouse!vars
  PROVE  Counted'
<1> USE DEF Bounded
<1>1. started \in Nat /\ \A p \in Writers : frames[p] \in Seq(Nat) /\ Len(frames[p]) \in Nat
  BY DEF ProcessInv, WarehouseTyped
<1>2. ASSUME NEW p \in Writers, NEW f \in Seq(Nat), Len(f) <= MaxDepth,
             frames' = [frames EXCEPT ![p] = f], started' <= MaxUnits
      PROVE  Counted'
  <2>1. \A q \in Writers : frames'[q] = (IF q = p THEN f ELSE frames[q])
    BY <1>2 DEF ProcessInv, WarehouseTyped
  <2> QED BY <1>2, <2>1 DEF Counted
<1>3. <<>> \in Seq(Nat) /\ Len(<<>>) = 0
  OBVIOUS
<1>4. ASSUME NEW p \in Writers, Warehouse!Acquire(p)
      PROVE  Counted'
  <2>1. started' = started + 1 /\ started < MaxUnits /\ frames' = [frames EXCEPT ![p] = <<started'>>]
    BY <1>4 DEF Warehouse!Acquire
  <2>2. started' \in Nat /\ started' <= MaxUnits
    BY <1>1, <2>1
  <2> DEFINE f == <<started'>>
  <2>3. f \in Seq(Nat) /\ Len(f) = 1
    BY <2>2
  <2>4. frames' = [frames EXCEPT ![p] = f]
    BY <2>1
  <2> HIDE DEF f
  <2>5. Len(f) <= MaxDepth
    BY <2>3
  <2> QED BY <1>2, <2>2, <2>3, <2>4, <2>5
<1>5. ASSUME NEW p \in Writers, NEW d \in Paths, Warehouse!CallNested(p, d)
      PROVE  Counted'
  <2>1. /\ started' = started + 1 /\ started < MaxUnits /\ Len(frames[p]) < MaxDepth
        /\ frames' = [frames EXCEPT ![p] = Append(frames[p], started')]
    BY <1>5 DEF Warehouse!CallNested, Warehouse!Depth
  <2>2. started' \in Nat /\ started' <= MaxUnits
    BY <1>1, <2>1
  <2>3. Append(frames[p], started') \in Seq(Nat) /\ Len(Append(frames[p], started')) = Len(frames[p]) + 1
    BY <1>1, <2>2
  <2>4. Len(Append(frames[p], started')) <= MaxDepth
    BY <1>1, <2>1, <2>3
  <2> QED BY <1>2, <2>1, <2>2, <2>3, <2>4
<1>6. ASSUME NEW p \in Writers, Warehouse!EndNested(p)
      PROVE  Counted'
  <2>1. /\ started' = started /\ Len(frames[p]) > 1
        /\ frames' = [frames EXCEPT ![p] = SubSeq(frames[p], 1, Len(frames[p]) - 1)]
    BY <1>6 DEF Warehouse!EndNested, Warehouse!Depth
  <2>2. /\ SubSeq(frames[p], 1, Len(frames[p]) - 1) \in Seq(Nat)
        /\ Len(SubSeq(frames[p], 1, Len(frames[p]) - 1)) = Len(frames[p]) - 1
    BY <1>1, <2>1
  <2>3. Len(frames[p]) - 1 <= MaxDepth
    BY <1>1 DEF Counted
  <2> QED BY <1>2, <2>1, <2>2, <2>3 DEF Counted
<1>7. ASSUME NEW p \in Writers, Warehouse!EndOutermost(p) \/ Warehouse!Crash(p)
      PROVE  Counted'
  <2> DEFINE f == <<>>
  <2>1. frames' = [frames EXCEPT ![p] = f] /\ started' = started
    BY <1>7 DEF Warehouse!EndOutermost, Warehouse!Crash
  <2>2. f \in Seq(Nat) /\ Len(f) <= MaxDepth
    BY <1>3
  <2> HIDE DEF f
  <2> QED BY <1>2, <2>1, <2>2 DEF Counted
<1>8. ASSUME UNCHANGED <<frames, started>>
      PROVE  Counted'
  BY <1>8 DEF Counted
<1>9. ASSUME NEW p \in Writers, Warehouse!Body(p)
      PROVE  Counted'
  BY <1>5, <1>6, <1>7, <1>8, <1>9 DEF Warehouse!Body, Warehouse!Write, Warehouse!Raise,
     Warehouse!Catch, Warehouse!CallElsewhere
<1>10. ASSUME NEW p \in Writers,
              (\E d \in Paths : Warehouse!Call(p, d)) \/ Warehouse!OpenFails(p) \/ Warehouse!CloseConnection(p) \/ Warehouse!Unlock(p)
       PROVE  Counted'
  BY <1>8, <1>10 DEF Warehouse!Call, Warehouse!OpenFails, Warehouse!CloseConnection,
     Warehouse!Unlock
<1>11. CASE Warehouse!Spent \/ UNCHANGED Warehouse!vars
  BY <1>8, <1>11 DEF Warehouse!Spent, Warehouse!vars
<1> QED BY <1>4, <1>7, <1>9, <1>10, <1>11 DEF Warehouse!Next

\* Where every process stands is within the bounds: what its type says.
LEMMA CountedIsTyped ==
  ASSUME Bounded, WarehouseInv, Counted
  PROVE  Warehouse!TypeOK
<1> USE DEF Bounded
<1>1. 1..started \subseteq Warehouse!Units
  BY DEF Counted, Warehouse!Units, WarehouseInv, ProcessInv, WarehouseTyped
<1>2. ASSUME NEW p \in Writers
      PROVE  /\ frames[p] \in UNION {[1..n -> Warehouse!Units] : n \in 0..MaxDepth}
             /\ pending[p] \in SUBSET Warehouse!Units
  <2>1. frames[p] \in Seq(Nat) /\ Len(frames[p]) \in 0..MaxDepth /\ Undecided(p)
    BY DEF WarehouseInv, ProcessInv, UnitsInv, WarehouseTyped, Counted
  <2>2. \A i \in 1..Len(frames[p]) : frames[p][i] \in Warehouse!Units
    BY <1>1, <2>1 DEF Undecided, Mine, Open, Elems
  <2>3. frames[p] \in [1..Len(frames[p]) -> Warehouse!Units]
    BY <2>1, <2>2
  <2>4. pending[p] \subseteq Warehouse!Units
    BY <1>1, <2>1 DEF Undecided, Mine
  <2> QED BY <2>1, <2>3, <2>4
<1>3. frames \in [Writers -> UNION {[1..n -> Warehouse!Units] : n \in 0..MaxDepth}] /\ pending \in [Writers -> SUBSET Warehouse!Units]
  BY <1>2 DEF WarehouseInv, ProcessInv, WarehouseTyped
<1>4. db \in [Paths -> SUBSET Warehouse!Units] /\ failed \subseteq Warehouse!Units /\ started \in 0..MaxUnits
  BY <1>1 DEF WarehouseInv, ProcessInv, UnitsInv, WarehouseTyped, Counted
<1>5. \A p \in Writers : phase[p] = "body" => frames[p] # <<>> /\ txn[p] # Warehouse!None /\ active[p] = conn[p]
  BY DEF WarehouseInv, ProcessInv, Placed
<1> QED BY <1>3, <1>4, <1>5 DEF Warehouse!TypeOK, WarehouseInv, ProcessInv, WarehouseTyped


\* Both hold throughout.
LEMMA WarehouseInduction == Named => (Warehouse!Spec => []WarehouseInv)
<1> SUFFICES ASSUME Named
             PROVE  Warehouse!Spec => []WarehouseInv
  OBVIOUS
<1>1. Warehouse!Init => WarehouseInv
  BY ControlInit, DataInit DEF WarehouseInv
<1>2. WarehouseInv /\ [Warehouse!Next]_Warehouse!vars => WarehouseInv'
  <2> SUFFICES ASSUME WarehouseInv, [Warehouse!Next]_Warehouse!vars
               PROVE  WarehouseInv'
    OBVIOUS
  <2>1. ProcessInv'
    BY ControlStep DEF WarehouseInv
  <2> QED BY <2>1, DataStep DEF WarehouseInv
<1> QED BY <1>1, <1>2, PTL DEF Warehouse!Spec

\* Whatever a failed unit wrote is not in a warehouse file, although the unit
\* around it may have caught the error and ended normally (transaction.py's
\* rollback_only).
THEOREM AllOrNothing == Named => (Warehouse!Spec => []Warehouse!FailedUnitsLeaveNoTrace)
<1>1. WarehouseInv => Warehouse!FailedUnitsLeaveNoTrace
  BY DEF WarehouseInv, UnitsInv, Warehouse!FailedUnitsLeaveNoTrace
<1> QED BY <1>1, WarehouseInduction, PTL

\* At most one writable connection per warehouse file: the coordinator closes
\* its connection before it lets the flock go.
THEOREM SingleWriter == Named => (Warehouse!Spec => []Warehouse!OneWriterPerWarehouse)
<1> SUFFICES ASSUME Named
             PROVE  Warehouse!Spec => []Warehouse!OneWriterPerWarehouse
  OBVIOUS
<1>1. WarehouseInv => Warehouse!OneWriterPerWarehouse
  <2> SUFFICES ASSUME ProcessInv, NEW p \in Writers, NEW q \in Writers,
                      conn[p] # Warehouse!None, conn[p] = conn[q]
               PROVE  p = q
    BY DEF WarehouseInv, Warehouse!OneWriterPerWarehouse
  <2>1. Placed(p) /\ Placed(q) /\ wanted \in [Writers -> Paths \cup {Warehouse!None}]
    BY DEF ProcessInv, WarehouseTyped
  <2>2. /\ phase[p] \in {"body", "closing"} /\ phase[q] \in {"body", "closing"}
        /\ conn[p] = wanted[p] /\ conn[q] = wanted[q]
    BY <2>1 DEF Placed
  <2>3. wanted[p] \in Paths
    BY <2>1, <2>2
  <2>4. lock[wanted[p]] = p /\ lock[wanted[p]] = q
    BY <2>1, <2>2, <2>3 DEF Placed
  <2> QED BY <2>4
<1> QED BY <1>1, WarehouseInduction, PTL

\* However an outermost call ended, it leaves neither a context variable set
\* nor a flock held (the finally clauses of transaction).
THEOREM CallsEndClean == Named => (Warehouse!Spec => []Warehouse!NothingLeftBehind)
<1>1. WarehouseInv => Warehouse!NothingLeftBehind
  BY DEF WarehouseInv, ProcessInv, Placed, Warehouse!NothingLeftBehind
<1> QED BY <1>1, WarehouseInduction, PTL

\* A caller is told of success only in the step that commits what its
\* transaction wrote.
THEOREM SuccessIsDurable == Named => (Warehouse!Spec => Warehouse!OkMeansCommitted)
<1> DEFINE Told == \A p \in Writers :
                     outcome[p] # "ok" /\ outcome'[p] = "ok"
                       => pending[p] \subseteq db'[conn[p]]
<1> SUFFICES ASSUME Named
             PROVE  Warehouse!Spec => Warehouse!OkMeansCommitted
  OBVIOUS
<1>1. WarehouseInv /\ [Warehouse!Next]_Warehouse!vars => [Told]_Warehouse!vars
  <2> SUFFICES ASSUME ProcessInv, [Warehouse!Next]_Warehouse!vars, NEW p \in Writers,
                      outcome[p] # "ok", outcome'[p] = "ok"
               PROVE  pending[p] \subseteq db'[conn[p]]
    BY DEF WarehouseInv
  <2>1. outcome \in [Writers -> {Warehouse!None, "ok", "error"}] /\ db \in [Paths -> SUBSET Nat]
    BY DEF ProcessInv, WarehouseTyped
  <2>2. ASSUME NEW q \in Writers, Warehouse!EndOutermost(q)
        PROVE  pending[p] \subseteq db'[conn[p]]
    <3>1. p = q /\ db' = [db EXCEPT ![conn[p]] = @ \cup pending[p]]
      BY <2>1, <2>2 DEF Warehouse!EndOutermost, Warehouse!RolledBackOutcome
    <3>2. conn[p] \in Paths
      BY <2>2, <3>1 DEF Warehouse!EndOutermost, ProcessInv, Placed, WarehouseTyped
    <3> QED BY <2>1, <3>1, <3>2
  <2>3. ASSUME NEW q \in Writers, Warehouse!Body(q), ~Warehouse!EndOutermost(q)
        PROVE  FALSE
    BY <2>3 DEF Warehouse!Body, Warehouse!Write, Warehouse!Raise, Warehouse!Catch,
       Warehouse!EndNested, Warehouse!CallNested, Warehouse!CallElsewhere
  <2>4. ASSUME NEW q \in Writers,
               \/ \E d \in Paths : Warehouse!Call(q, d)
               \/ Warehouse!Acquire(q) \/ Warehouse!OpenFails(q) \/ Warehouse!CloseConnection(q) \/ Warehouse!Unlock(q) \/ Warehouse!Crash(q)
        PROVE  FALSE
    BY <2>1, <2>4 DEF Warehouse!Call, Warehouse!Acquire, Warehouse!OpenFails,
       Warehouse!CloseConnection, Warehouse!Unlock, Warehouse!Crash, Warehouse!None
  <2>5. ~ UNCHANGED outcome
    OBVIOUS
  <2> QED BY <2>2, <2>3, <2>4, <2>5 DEF Warehouse!Next, Warehouse!Spent, Warehouse!vars
<1> QED BY <1>1, WarehouseInduction, PTL DEF Warehouse!Spec, Warehouse!OkMeansCommitted

\* Every variable keeps its kind, and a body that runs has its frame, its
\* transaction and its context variable.
THEOREM WarehouseTypes == Named /\ Bounded => (Warehouse!Spec => []Warehouse!TypeOK)
<1> SUFFICES ASSUME Named, Bounded
             PROVE  Warehouse!Spec => []Warehouse!TypeOK
  OBVIOUS
<1>1. Warehouse!Init => Counted
  BY CountedInit
<1>2. WarehouseInv /\ Counted /\ [Warehouse!Next]_Warehouse!vars => Counted'
  BY CountedStep DEF WarehouseInv
<1>3. WarehouseInv /\ Counted => Warehouse!TypeOK
  BY CountedIsTyped
<1> QED BY <1>1, <1>2, <1>3, WarehouseInduction, PTL DEF Warehouse!Spec

-----------------------------------------------------------------------------
(* The sandbox.                                                             *)

\* Places of an executor in its transaction: before its claim, before the
\* container, after the job is concluded.
Unclaimed == {"loaded", "bound"}
Unrun == {"request", "guard", "started", "run", "reject"}
Claimed == Unrun \cup {"wait", "evidence", "validate", "validation", "manifest", "mark"}
Concluded == {"denied", "succeeded", "failed", "revalidate", "finalValidation", "finalManifest", "commit"}

\* What a run that has succeeded so far can count on, by where its caller is.
Succeeding(c) ==
  /\ Sandbox!Guarded(c) /\ container = "exited"
  /\ caller[c].pc # "denied"
  /\ caller[c].pc # "evidence" => caller[c].entries.execution = Sandbox!Good
  /\ caller[c].pc \in {"validation", "manifest"} /\ caller[c].seen = Sandbox!Good => output = Sandbox!Good
  /\ caller[c].pc \in Concluded \cup {"mark"} => output = Sandbox!Good
  /\ caller[c].pc \in {"finalValidation", "finalManifest"} => caller[c].seen = Sandbox!Good
  /\ caller[c].pc = "commit" =>
       /\ jobManifest.output = Sandbox!Good
       /\ \A f \in {"guard", "execution", "validation"} : jobManifest.entries[f] = Sandbox!Good

\* What holds of an executor that has claimed the job.
Working(c) ==
  /\ caller[c].turn \in approved
  /\ caller[c].row = IF caller[c].pc \in Claimed THEN "validating" ELSE caller[c].result
  /\ \A f \in Sandbox!Files \ {"validation"} : caller[c].entries[f] # Sandbox!Absent => caller[c].entries[f] = host[f]
  /\ caller[c].entries.execution \in {Sandbox!Absent, Sandbox!Good}
  /\ caller[c].pc \in Unrun \cup {"wait"} => caller[c].result = "none"
  /\ caller[c].pc \in {"started", "run", "wait"} => Sandbox!Guarded(c)
  /\ caller[c].pc \in Claimed \ {"request", "mark"} => jobManifest = Sandbox!NoManifest
  /\ caller[c].pc \in {"evidence", "mark"} \cup Concluded => caller[c].result # "none"
  /\ caller[c].pc \in {"validate", "validation", "manifest"} => caller[c].result = "succeeded"
  /\ caller[c].pc \in {"validation", "manifest", "finalValidation", "finalManifest"} => caller[c].seen # Sandbox!Absent
  /\ caller[c].pc \in {"manifest", "finalManifest"} => caller[c].seen = host.validation
  /\ caller[c].pc = "commit" => jobManifest # Sandbox!NoManifest
  /\ caller[c].result = "succeeded" => Succeeding(c)

\* Where an executor can be, and what it can count on there.
ExecutorPlaced(c) ==
  /\ caller[c].pc \in {"idle", "answered", "lost"} \cup Unclaimed \cup Claimed \cup Concluded
  /\ caller[c].pc # "idle" => Sandbox!At(Preparer, "prepared")
  /\ caller[c].pc = "answered" => status \in Sandbox!Terminal
  /\ Sandbox!InTransaction(c) => status = "queued"
  /\ caller[c].pc \in Unclaimed =>
       caller[c].entries = Sandbox!NoFiles /\ caller[c].result = "none" /\ caller[c].row = "queued"
  /\ caller[c].pc = "bound" => caller[c].turn \in approved
  /\ caller[c].pc \in {"idle"} \cup Unclaimed \cup Unrun => c \notin runners
  /\ caller[c].pc \in Claimed \cup Concluded => Working(c)

\* The preview: the row, the request, the first event, the COMMIT.
Preparing ==
  /\ caller[Preparer].pc \in {"create", "newRequest", "created", "commit", "prepared", "lost"}
  /\ Sandbox!InTransaction(Preparer) => caller[Preparer].row = "queued"
  /\ Sandbox!At(Preparer, "prepared") => status # "none"
  /\ ~ Sandbox!At(Preparer, "prepared") => status = "none" /\ container = "none" /\ jobManifest = Sandbox!NoManifest

\* The coordinator's lock: one transaction at a time; and one that counts.
OneAtWork == \A c, d \in Sandbox!Callers : Sandbox!InTransaction(c) /\ Sandbox!InTransaction(d) => c = d
OneAnswered == \A c, d \in Executors : Sandbox!At(c, "answered") /\ Sandbox!At(d, "answered") => c = d

\* Who is in the middle of a write has removed the manifest.
WritersHide == \A c \in Sandbox!Callers : caller[c].mid => caller[c].pc \in Sandbox!Writing /\ jobManifest = Sandbox!NoManifest

\* A container has checked code; while it runs its caller waits for it.
Contained ==
  /\ container # "none" => code = Sandbox!Good
  /\ container = "running" => host.guard = Sandbox!Good /\ \E c \in Executors : Sandbox!At(c, "wait")

\* The inductive invariant.
SandboxInv ==
  /\ Sandbox!TypeOK
  /\ Preparing /\ OneAtWork /\ OneAnswered /\ WritersHide /\ Contained
  /\ \A c \in Executors : ExecutorPlaced(c)
  /\ Sandbox!ManifestDescribesFiles
  /\ Sandbox!SuccessIsBacked

\* The assistant that prepares a job is no executor, and there is a turn.
Sets == Preparer \notin Executors /\ Turns # {}

\* The states of one caller.
CallerState == [pc : Sandbox!Steps, turn : Turns, row : {"none"} \cup Sandbox!Active \cup Sandbox!Terminal, mid : BOOLEAN,
                entries : [Sandbox!Files -> Nat], seen : {Sandbox!Absent, Sandbox!Good, Sandbox!Bad}, result : {"none"} \cup Sandbox!Terminal]

\* The places where a file is written, spelled out.
LEMMA WritesAt ==
  /\ Sandbox!Writing = {"newRequest", "created", "request", "guard", "started", "evidence", "validation",
               "finalValidation", "denied", "succeeded", "failed"}
  /\ Sandbox!FileAt["newRequest"] = "request" /\ Sandbox!FileAt["created"] = "lifecycle"
  /\ Sandbox!FileAt["request"] = "request" /\ Sandbox!FileAt["guard"] = "guard" /\ Sandbox!FileAt["started"] = "lifecycle"
  /\ Sandbox!FileAt["evidence"] = "execution"
  /\ Sandbox!FileAt["validation"] = "validation" /\ Sandbox!FileAt["finalValidation"] = "validation"
  /\ Sandbox!FileAt["denied"] = "lifecycle" /\ Sandbox!FileAt["succeeded"] = "lifecycle" /\ Sandbox!FileAt["failed"] = "lifecycle"
BY DEF Sandbox!Writing, Sandbox!FileAt

\* The invariant says all that the properties ask for.
LEMMA SandboxSafe ==
  SandboxInv => Sandbox!OneRunStands /\ Sandbox!NothingRunsUnchecked /\ Sandbox!ManifestDescribesFiles /\ Sandbox!SuccessIsBacked /\ Sandbox!TypeOK
<1> SUFFICES ASSUME SandboxInv PROVE Sandbox!OneRunStands /\ Sandbox!NothingRunsUnchecked
  BY DEF SandboxInv
<1>1. runners \subseteq Executors /\ Executors \subseteq Sandbox!Callers
  BY DEF SandboxInv, Sandbox!TypeOK, Sandbox!Callers
<1>2. \A e \in Executors : (Sandbox!InTransaction(e) => status = "queued") /\ (Sandbox!At(e, "answered") => status \in Sandbox!Terminal)
  BY DEF SandboxInv, ExecutorPlaced, Sandbox!At
<1>3. \A c \in runners : Sandbox!At(c, "lost") \/ Sandbox!At(c, "answered") \/ Sandbox!InTransaction(c)
  <2>1. \A c \in runners : /\ caller[c].pc \in {"idle", "answered", "lost"} \cup Unclaimed \cup Claimed \cup Concluded
                            /\ caller[c].pc # "idle"
    BY <1>1 DEF SandboxInv, ExecutorPlaced
  <2> QED BY <2>1 DEF Sandbox!InTransaction, Sandbox!Outside, Sandbox!At, Unclaimed, Claimed, Unrun, Concluded
<1>4. "queued" \notin Sandbox!Terminal /\ "none" \notin Sandbox!Terminal
  BY DEF Sandbox!Terminal
<1>5. ASSUME NEW c \in runners, NEW d \in runners PROVE c = d \/ Sandbox!At(c, "lost") \/ Sandbox!At(d, "lost")
  <2>1. c \in Executors /\ d \in Executors /\ c \in Sandbox!Callers /\ d \in Sandbox!Callers
    BY <1>1
  <2>2. ~ (Sandbox!At(c, "answered") /\ Sandbox!InTransaction(d)) /\ ~ (Sandbox!At(d, "answered") /\ Sandbox!InTransaction(c))
    BY <1>2, <1>4, <2>1 DEF Sandbox!At, Sandbox!InTransaction
  <2> QED BY <1>3, <2>1, <2>2 DEF SandboxInv, OneAtWork, OneAnswered
<1>6. ASSUME status \in Sandbox!Terminal, NEW c \in Sandbox!Callers PROVE ~ Sandbox!InTransaction(c)
  <2>1. CASE c \in Executors
    <3>1. status # "queued"
      BY <1>4, <1>6
    <3> QED BY <1>2, <2>1, <3>1 DEF Sandbox!InTransaction, Sandbox!At
  <2>2. CASE c = Preparer
    BY <1>4, <1>6, <2>2 DEF SandboxInv, Preparing, Sandbox!InTransaction, Sandbox!Outside, Sandbox!At
  <2> QED BY <2>1, <2>2 DEF Sandbox!Callers
<1>7. ASSUME NEW c \in Executors, Sandbox!At(c, "wait") PROVE caller[c].turn \in approved
  BY <1>7 DEF SandboxInv, ExecutorPlaced, Working, Claimed, Sandbox!At
<1> QED BY <1>5, <1>6, <1>7 DEF Sandbox!OneRunStands, Sandbox!NothingRunsUnchecked, SandboxInv, Contained

\* A caller that moves leaves the others where they are.
LEMMA CallerType ==
  ASSUME Sandbox!TypeOK, NEW c \in Sandbox!Callers, NEW r \in CallerState, caller' = [caller EXCEPT ![c] = r]
  PROVE  /\ caller' \in [Sandbox!Callers -> CallerState]
         /\ caller'[c] = r /\ \A d \in Sandbox!Callers \ {c} : caller'[d] = caller[d]
BY DEF Sandbox!TypeOK, CallerState

\* A caller that is outside of every transaction.
LEMMA IdleState ==
  ASSUME Sets, NEW pc \in Sandbox!Steps
  PROVE  /\ Sandbox!Idle(pc) \in CallerState /\ Sandbox!Idle(pc).pc = pc /\ ~ Sandbox!Idle(pc).mid
         /\ Sandbox!Idle(pc).entries = Sandbox!NoFiles /\ Sandbox!Idle(pc).result = "none"
<1> DEFINE t == CHOOSE x \in Turns : TRUE
<1>1. t \in Turns
  BY DEF Sets
<1> HIDE DEF t
<1>2. Sandbox!NoFiles \in [Sandbox!Files -> Nat]
  BY DEF Sandbox!NoFiles, Sandbox!Absent
<1>3. Sandbox!Idle(pc) = [pc |-> pc, turn |-> t, row |-> "none", mid |-> FALSE, entries |-> Sandbox!NoFiles, seen |-> Sandbox!Absent, result |-> "none"]
  BY DEF Sandbox!Idle, t
<1> QED BY <1>1, <1>2, <1>3 DEF CallerState

\* Nothing is stored and nobody has begun.
LEMMA SandboxInit == Sets /\ Sandbox!Init => SandboxInv
<1> SUFFICES ASSUME Sets, Sandbox!Init PROVE SandboxInv
  OBVIOUS
<1>1. Sandbox!NoFiles \in [Sandbox!Files -> Nat]
  BY DEF Sandbox!NoFiles, Sandbox!Absent
<1>2. ASSUME NEW c \in Sandbox!Callers
      PROVE  caller[c] \in CallerState /\ ~ caller[c].mid /\ caller[c].pc = (IF c = Preparer THEN "create" ELSE "idle")
  <2> DEFINE pc == IF c = Preparer THEN "create" ELSE "idle"
  <2>1. caller[c] = Sandbox!Idle(pc) /\ pc \in Sandbox!Steps
    BY DEF Sandbox!Init, Sandbox!Steps, Sandbox!Outside
  <2> QED BY <2>1, IdleState
<1>3. Sandbox!TypeOK
  BY <1>1, <1>2 DEF Sandbox!Init, Sandbox!TypeOK, CallerState, Sandbox!NoManifest, Sandbox!Absent,
     Sandbox!Good, Sandbox!Bad, Sandbox!Active, Sandbox!Terminal
<1>4. \A c \in Sandbox!Callers : ~ Sandbox!InTransaction(c)
  BY <1>2 DEF Sandbox!InTransaction, Sandbox!Outside
<1>5. Preparing
  BY <1>2, <1>4 DEF Sandbox!Init, Preparing, Sandbox!At, Sandbox!Callers
<1>6. \A c \in Executors : ExecutorPlaced(c) /\ ~ Sandbox!At(c, "answered")
  BY <1>2, <1>4 DEF Sandbox!Init, ExecutorPlaced, Sandbox!Callers, Sets, Sandbox!At, Unclaimed, Claimed,
     Unrun, Concluded
<1> QED BY <1>2, <1>3, <1>4, <1>5, <1>6 DEF Sandbox!Init, SandboxInv, OneAtWork, OneAnswered, WritersHide,
           Contained, Sandbox!ManifestDescribesFiles, Sandbox!SuccessIsBacked, Sandbox!Terminal

\* An executor in its transaction is alone, over a queued job.
LEMMA Alone ==
  ASSUME Sets, SandboxInv, NEW c \in Executors, Sandbox!InTransaction(c)
  PROVE  /\ c \in Sandbox!Callers /\ c # Preparer /\ caller[c] \in CallerState /\ ExecutorPlaced(c)
         /\ Sandbox!At(Preparer, "prepared") /\ status = "queued"
         /\ \A d \in Sandbox!Callers \ {c} : ~ Sandbox!InTransaction(d)
         /\ \A d \in Executors : ~ Sandbox!At(d, "answered")
         /\ ~ Sandbox!At(c, "wait") => container # "running"
<1>1. c \in Sandbox!Callers /\ c # Preparer /\ caller[c] \in CallerState /\ ExecutorPlaced(c)
  BY DEF SandboxInv, Sandbox!TypeOK, CallerState, Sandbox!Callers, Sets
<1>2. Sandbox!At(Preparer, "prepared") /\ status = "queued"
  BY <1>1 DEF ExecutorPlaced, Sandbox!InTransaction, Sandbox!Outside
<1>3. \A d \in Sandbox!Callers \ {c} : ~ Sandbox!InTransaction(d)
  BY <1>1 DEF SandboxInv, OneAtWork
<1>4. \A d \in Executors : ~ Sandbox!At(d, "answered")
  BY <1>2 DEF SandboxInv, ExecutorPlaced, Sandbox!At, Sandbox!Terminal
<1>5. ~ Sandbox!At(c, "wait") => container # "running"
  BY <1>1, <1>3 DEF SandboxInv, Contained, Sandbox!At, Sandbox!Callers, Sandbox!InTransaction, Sandbox!Outside
<1> QED BY <1>1, <1>2, <1>3, <1>4, <1>5

\* A lone executor keeps the invariant when it keeps its own part of it.
LEMMA ExecutorMoves ==
  ASSUME Sets, SandboxInv, NEW c \in Executors, Sandbox!At(Preparer, "prepared"), status = "queued",
         \A d \in Sandbox!Callers \ {c} : ~ Sandbox!InTransaction(d) /\ caller'[d] = caller[d],
         Sandbox!TypeOK', status' = status, approved' = approved, runners' \subseteq runners \cup {c},
         caller'[c].pc # "answered", ExecutorPlaced(c)',
         caller'[c].mid => caller'[c].pc \in Sandbox!Writing /\ jobManifest' = Sandbox!NoManifest,
         Contained', Sandbox!ManifestDescribesFiles'
  PROVE  SandboxInv'
<1>1. c \in Sandbox!Callers /\ Preparer \in Sandbox!Callers \ {c}
  BY DEF Sandbox!Callers, Sets
<1>2. Sandbox!At(Preparer, "prepared")' /\ Preparing'
  BY <1>1 DEF Preparing, Sandbox!At, Sandbox!InTransaction, Sandbox!Outside, SandboxInv
<1>3. \A d \in Sandbox!Callers \ {c} : ~ Sandbox!InTransaction(d)'
  BY DEF Sandbox!InTransaction
<1>4. OneAtWork'
  BY <1>3 DEF OneAtWork
<1>5. \A d \in Executors : ~ Sandbox!At(d, "answered")'
  BY DEF SandboxInv, ExecutorPlaced, Sandbox!At, Sandbox!Terminal, Sandbox!Callers
<1>6. WritersHide'
  <2>1. ASSUME NEW d \in Sandbox!Callers \ {c} PROVE ~ caller'[d].mid
    BY WritesAt DEF SandboxInv, WritersHide, Sandbox!InTransaction, Sandbox!Outside
  <2> QED BY <2>1 DEF WritersHide
<1>7. ASSUME NEW d \in Executors PROVE ExecutorPlaced(d)'
  <2>1. CASE d = c
    BY <2>1
  <2>2. CASE d # c
    <3>1. caller'[d] = caller[d] /\ ~ Sandbox!InTransaction(d) /\ ~ Sandbox!InTransaction(d)' /\ ExecutorPlaced(d) /\ d \in Sandbox!Callers
      BY <1>3, <2>2 DEF SandboxInv, Sandbox!Callers
    <3>2. caller[d].pc \notin Unclaimed \cup Claimed \cup Concluded
      BY <3>1 DEF Sandbox!InTransaction, Sandbox!Outside, Unclaimed, Claimed, Unrun, Concluded
    <3>3. caller[d].pc \notin Unrun /\ caller[d].pc # "bound" /\ (d \in runners' => d \in runners)
      BY <2>2, <3>2 DEF Claimed, Unclaimed
    <3> QED BY <1>2, <3>1, <3>2, <3>3 DEF ExecutorPlaced
  <2> QED BY <2>1, <2>2
<1>8. Sandbox!SuccessIsBacked'
  BY DEF Sandbox!SuccessIsBacked, Sandbox!Terminal
<1> QED BY <1>2, <1>4, <1>5, <1>6, <1>7, <1>8 DEF SandboxInv, OneAnswered

\* Steps that write nothing: only the caller's own record changes.
LEMMA Quiet ==
  ASSUME Sets, SandboxInv, NEW c \in Executors, Sandbox!InTransaction(c),
         NEW r \in CallerState, caller' = [caller EXCEPT ![c] = r],
         UNCHANGED <<status, code, host, output, jobManifest, container, runners, approved>>,
         ~ r.mid, ~ Sandbox!At(c, "wait") \/ container # "running",
         r.pc \in Claimed \cup Concluded, r.pc \notin Unrun, Working(c)'
  PROVE  SandboxInv'
<1>1. /\ caller' \in [Sandbox!Callers -> CallerState] /\ caller'[c] = r
      /\ \A d \in Sandbox!Callers \ {c} : caller'[d] = caller[d]
  BY Alone, CallerType DEF SandboxInv
<1>2. Sandbox!TypeOK'
  BY <1>1 DEF SandboxInv, Sandbox!TypeOK, CallerState
<1>3. Contained'
  <2>1. container # "running"
    BY Alone
  <2> QED BY <2>1 DEF SandboxInv, Contained
<1>4. Sandbox!ManifestDescribesFiles'
  BY DEF SandboxInv, Sandbox!ManifestDescribesFiles
<1>5. r.pc \notin {"idle", "answered", "lost", "bound"} \cup Unclaimed
  BY DEF Claimed, Unrun, Concluded, Unclaimed
<1>6. Sandbox!At(Preparer, "prepared")' /\ Preparer \in Sandbox!Callers
  BY <1>1, Alone DEF Sandbox!At, Sandbox!Callers
<1>7. ExecutorPlaced(c)'
  BY <1>1, <1>5, <1>6, Alone DEF ExecutorPlaced
<1> QED BY <1>1, <1>2, <1>3, <1>4, <1>5, <1>7, Alone, ExecutorMoves

\* What a claimed executor brings along.
LEMMA AtWork ==
  ASSUME Sets, SandboxInv, NEW c \in Executors, caller[c].pc \in Claimed \cup Concluded
  PROVE  Sandbox!InTransaction(c) /\ Working(c) /\ caller[c] \in CallerState /\ c \in Sandbox!Callers
         /\ (caller[c].mid => caller[c].pc \in Sandbox!Writing /\ jobManifest = Sandbox!NoManifest)
<1>1. Sandbox!InTransaction(c)
  BY DEF Sandbox!InTransaction, Sandbox!Outside, Claimed, Unrun, Concluded
<1> QED BY <1>1, Alone DEF ExecutorPlaced, SandboxInv, WritersHide

\* The guard rejects the code: the job is rejected without a container.
LEMMA RejectCodeKeeps ==
  ASSUME Sets, SandboxInv, NEW c \in Executors, Sandbox!RejectCode(c)
  PROVE  SandboxInv'
<1>1. caller[c].pc = "reject" /\ caller[c].pc \in Claimed
  BY DEF Sandbox!RejectCode, Sandbox!At, Claimed, Unrun
<1>2. Working(c) /\ caller[c] \in CallerState /\ ~ caller[c].mid /\ Sandbox!InTransaction(c)
  BY <1>1, AtWork, WritesAt
<1> DEFINE r == [caller[c] EXCEPT !.pc = "denied", !.row = "rejected", !.result = "rejected"]
<1>3. caller' = [caller EXCEPT ![c] = r]
      /\ UNCHANGED <<status, code, host, output, jobManifest, container, runners, approved>>
  BY DEF Sandbox!RejectCode, Sandbox!artifacts
<1>4. r \in CallerState /\ r.pc = "denied" /\ r.result = "rejected" /\ ~ r.mid /\ r.row = "rejected"
      /\ r.turn = caller[c].turn /\ r.entries = caller[c].entries
  BY <1>2, WritesAt DEF CallerState, Sandbox!Steps, Sandbox!Terminal
<1> HIDE DEF r
<1>5. caller'[c] = r
  BY <1>1, <1>2, <1>3, <1>4, AtWork, CallerType DEF SandboxInv
<1>6. Working(c)'
  BY <1>1, <1>2, <1>3, <1>4, <1>5 DEF Working, Unrun, Claimed, Concluded
<1>7. r.pc \in Claimed \cup Concluded /\ r.pc \notin Unrun
  BY <1>4 DEF Concluded, Unrun
<1> QED BY <1>1, <1>2, <1>3, <1>4, <1>6, <1>7, Quiet DEF Sandbox!At

\* The container is refused before it starts, or its name is taken.
LEMMA RefuseRunKeeps ==
  ASSUME Sets, SandboxInv, NEW c \in Executors, Sandbox!RefuseRun(c) \/ Sandbox!NameIsTaken(c)
  PROVE  SandboxInv'
<1>1. caller[c].pc = "run" /\ caller[c].pc \in Claimed
  BY DEF Sandbox!RefuseRun, Sandbox!NameIsTaken, Sandbox!At, Claimed, Unrun
<1>2. Working(c) /\ caller[c] \in CallerState /\ ~ caller[c].mid /\ Sandbox!InTransaction(c) /\ Sandbox!Guarded(c)
  BY <1>1, AtWork, WritesAt DEF Working
<1>3. PICK res \in {"rejected", "failed"} :
        caller' = [caller EXCEPT ![c] = [@ EXCEPT !.pc = "evidence", !.result = res]]
  BY <1>2 DEF Sandbox!RefuseRun, Sandbox!NameIsTaken
<1> DEFINE r == [caller[c] EXCEPT !.pc = "evidence", !.result = res]
<1>4. caller' = [caller EXCEPT ![c] = r]
      /\ UNCHANGED <<status, code, host, output, jobManifest, container, runners, approved>>
  BY <1>3 DEF Sandbox!RefuseRun, Sandbox!NameIsTaken, Sandbox!artifacts
<1>5. r \in CallerState /\ r.pc = "evidence" /\ r.result = res /\ ~ r.mid /\ r.row = caller[c].row
      /\ r.turn = caller[c].turn /\ r.entries = caller[c].entries
  BY <1>2, WritesAt DEF CallerState, Sandbox!Steps, Sandbox!Terminal
<1> HIDE DEF r
<1>6. caller'[c] = r
  BY <1>1, <1>4, <1>5, AtWork, CallerType DEF SandboxInv
<1>7. Working(c)'
  BY <1>1, <1>2, <1>4, <1>5, <1>6 DEF Working, Unrun, Claimed, Concluded
<1>8. r.pc \in Claimed \cup Concluded /\ r.pc \notin Unrun
  BY <1>5 DEF Claimed, Unrun
<1> QED BY <1>1, <1>2, <1>4, <1>5, <1>7, <1>8, Quiet DEF Sandbox!At

\* The container has exited; its result is known.
LEMMA RunReturnsKeeps ==
  ASSUME Sets, SandboxInv, NEW c \in Executors, Sandbox!RunReturns(c)
  PROVE  SandboxInv'
<1>1. caller[c].pc = "wait" /\ caller[c].pc \in Claimed /\ container = "exited"
  BY DEF Sandbox!RunReturns, Sandbox!At, Claimed
<1>2. Working(c) /\ caller[c] \in CallerState /\ ~ caller[c].mid /\ Sandbox!InTransaction(c) /\ Sandbox!Guarded(c)
  BY <1>1, AtWork, WritesAt DEF Working
<1>3. PICK res \in {"succeeded", "failed"} : caller' = [caller EXCEPT ![c].pc = "evidence", ![c].result = res]
  BY DEF Sandbox!RunReturns
<1> DEFINE r == [caller[c] EXCEPT !.pc = "evidence", !.result = res]
<1>4. caller' = [caller EXCEPT ![c] = r]
      /\ UNCHANGED <<status, code, host, output, jobManifest, container, runners, approved>>
  BY <1>3 DEF Sandbox!RunReturns, Sandbox!artifacts
<1>5. r \in CallerState /\ r.pc = "evidence" /\ r.result \in {"succeeded", "failed"} /\ ~ r.mid
      /\ r.row = caller[c].row /\ r.turn = caller[c].turn /\ r.entries = caller[c].entries
  BY <1>2, WritesAt DEF CallerState, Sandbox!Steps, Sandbox!Terminal
<1> HIDE DEF r
<1>6. caller'[c] = r
  BY <1>1, <1>4, <1>5, AtWork, CallerType DEF SandboxInv
<1>7. Succeeding(c)'
  BY <1>1, <1>2, <1>4, <1>5, <1>6 DEF Succeeding, Sandbox!Guarded, Concluded
<1>8. Working(c)'
  BY <1>1, <1>2, <1>4, <1>5, <1>6, <1>7 DEF Working, Unrun, Claimed, Concluded
<1>9. r.pc \in Claimed \cup Concluded /\ r.pc \notin Unrun
  BY <1>5 DEF Claimed, Unrun
<1> QED BY <1>1, <1>2, <1>4, <1>5, <1>8, <1>9, Quiet DEF Sandbox!At

\* The output is validated, before or after the terminal status.
LEMMA ValidateKeeps ==
  ASSUME Sets, SandboxInv, NEW c \in Executors, Sandbox!Validate(c)
  PROVE  SandboxInv'
<1>1. caller[c].pc \in {"validate", "revalidate"} /\ caller[c].pc \in Claimed \cup Concluded
  BY DEF Sandbox!Validate, Claimed, Concluded
<1>2. Working(c) /\ caller[c] \in CallerState /\ ~ caller[c].mid /\ Sandbox!InTransaction(c)
  BY <1>1, AtWork, WritesAt
<1> DEFINE r == [caller[c] EXCEPT !.seen = IF output = Sandbox!Good THEN Sandbox!Good ELSE Sandbox!Bad,
                                  !.pc = IF @ = "validate" THEN "validation" ELSE "finalValidation"]
<1>3. caller' = [caller EXCEPT ![c] = r]
      /\ UNCHANGED <<status, code, host, output, jobManifest, container, runners, approved>>
  BY DEF Sandbox!Validate, Sandbox!artifacts
<1>4. r \in CallerState /\ r.pc = (IF caller[c].pc = "validate" THEN "validation" ELSE "finalValidation")
      /\ r.result = caller[c].result /\ ~ r.mid /\ r.row = caller[c].row
      /\ r.turn = caller[c].turn /\ r.entries = caller[c].entries
      /\ r.seen = (IF output = Sandbox!Good THEN Sandbox!Good ELSE Sandbox!Bad)
  BY <1>1, <1>2, WritesAt DEF CallerState, Sandbox!Steps
<1> HIDE DEF r
<1>5. caller'[c] = r
  BY <1>1, <1>3, <1>4, AtWork, CallerType DEF SandboxInv
<1>6. r.result = "succeeded" => Succeeding(c)'
  BY <1>1, <1>2, <1>3, <1>4, <1>5 DEF Working, Succeeding, Sandbox!Guarded, Concluded, Sandbox!Good,
     Sandbox!Bad
<1>7. Working(c)'
  BY <1>1, <1>2, <1>3, <1>4, <1>5, <1>6 DEF Working, Unrun, Claimed, Concluded, Sandbox!Good, Sandbox!Bad,
     Sandbox!Absent
<1>8. r.pc \in Claimed \cup Concluded /\ r.pc \notin Unrun
  BY <1>4 DEF Claimed, Concluded, Unrun
<1> QED BY <1>1, <1>2, <1>3, <1>4, <1>7, <1>8, Quiet DEF Sandbox!At

\* The job, which its transaction sees VALIDATING, gets its terminal status.
LEMMA MarkTerminalKeeps ==
  ASSUME Sets, SandboxInv, NEW c \in Executors, Sandbox!MarkTerminal(c)
  PROVE  SandboxInv'
<1>1. caller[c].pc = "mark" /\ caller[c].pc \in Claimed
  BY DEF Sandbox!MarkTerminal, Sandbox!At, Claimed
<1>2. Working(c) /\ caller[c] \in CallerState /\ ~ caller[c].mid /\ Sandbox!InTransaction(c)
  BY <1>1, AtWork, WritesAt
<1>3. caller[c].row = "validating" /\ "validating" \in Sandbox!Active /\ caller[c].result \in Sandbox!Terminal
  BY <1>1, <1>2 DEF Working, Sandbox!Active, CallerState
<1> DEFINE pc == IF caller[c].result = "succeeded" THEN "succeeded" ELSE "failed"
           r == [caller[c] EXCEPT !.pc = pc, !.row = caller[c].result]
<1>4. /\ \A q \in Sandbox!Terminal : q = (IF q = "succeeded" \/ q = "rejected" THEN q ELSE "failed")
      /\ pc \in {"succeeded", "failed"}
  BY DEF Sandbox!Terminal
<1>5. caller' = [caller EXCEPT ![c] = r]
      /\ UNCHANGED <<status, code, host, output, jobManifest, container, runners, approved>>
  <2>1. caller' = [caller EXCEPT ![c] = [caller[c] EXCEPT !.pc = pc, !.row = caller[c].result,
                     !.result = IF caller[c].result = "succeeded" \/ caller[c].result = "rejected" THEN caller[c].result ELSE "failed"]]
    BY <1>3 DEF Sandbox!MarkTerminal
  <2>2. [caller[c] EXCEPT !.pc = pc, !.row = caller[c].result,
           !.result = IF caller[c].result = "succeeded" \/ caller[c].result = "rejected" THEN caller[c].result ELSE "failed"] = r
    BY <1>2, <1>3, <1>4 DEF CallerState
  <2> QED BY <2>1, <2>2 DEF Sandbox!MarkTerminal, Sandbox!artifacts
<1> HIDE DEF pc
<1>6. r \in CallerState /\ r.pc = pc /\ r.result = caller[c].result /\ r.row = caller[c].result /\ ~ r.mid
      /\ r.turn = caller[c].turn /\ r.entries = caller[c].entries
  BY <1>2, <1>3, <1>4, WritesAt DEF CallerState, Sandbox!Steps
<1> HIDE DEF r
<1>7. caller'[c] = r
  BY <1>1, <1>5, <1>6, AtWork, CallerType DEF SandboxInv
<1>8. r.result = "succeeded" => Succeeding(c)'
  BY <1>1, <1>2, <1>4, <1>5, <1>6, <1>7 DEF Working, Succeeding, Sandbox!Guarded, Concluded
<1>9. r.result # "none"
  BY <1>3, <1>6 DEF Sandbox!Terminal
<1>10. Working(c)'
  BY <1>1, <1>2, <1>4, <1>5, <1>6, <1>7, <1>8, <1>9 DEF Working, Unrun, Claimed, Concluded
<1>11. r.pc \in Claimed \cup Concluded /\ r.pc \notin Unrun
  BY <1>4, <1>6 DEF Concluded, Unrun
<1> QED BY <1>1, <1>2, <1>5, <1>6, <1>10, <1>11, Quiet DEF Sandbox!At

\* The coordinator commits what the run has come to.
LEMMA CommitKeeps ==
  ASSUME Sets, SandboxInv, NEW c \in Executors, Sandbox!Commit(c)
  PROVE  SandboxInv'
<1>1. caller[c].pc = "commit" /\ caller[c].pc \in Concluded
  BY DEF Sandbox!Commit, Sandbox!At, Concluded
<1>2. Working(c) /\ caller[c] \in CallerState /\ c \in Sandbox!Callers /\ c # Preparer /\ Sandbox!InTransaction(c)
  BY <1>1, AtWork, Alone
<1> DEFINE r == [caller[c] EXCEPT !.pc = "answered"]
<1>3. caller' = [caller EXCEPT ![c] = r] /\ status' = caller[c].row
      /\ UNCHANGED <<code, host, output, jobManifest, container, runners, approved>>
  BY <1>2 DEF Sandbox!Commit, Sandbox!Goto, Sandbox!artifacts
<1>4. r \in CallerState /\ r.pc = "answered" /\ r.mid = caller[c].mid
  BY <1>2 DEF CallerState, Sandbox!Steps, Sandbox!Outside
<1> HIDE DEF r
<1>5. /\ caller' \in [Sandbox!Callers -> CallerState] /\ caller'[c] = r
      /\ \A d \in Sandbox!Callers \ {c} : caller'[d] = caller[d]
  BY <1>2, <1>3, <1>4, CallerType DEF SandboxInv
<1>6. caller[c].row = caller[c].result /\ caller[c].result \in Sandbox!Terminal
  BY <1>1, <1>2 DEF Working, Claimed, Unrun, Concluded, CallerState
<1>7. status' \in Sandbox!Terminal /\ "none" \notin Sandbox!Terminal /\ "queued" \notin Sandbox!Terminal
  BY <1>3, <1>6 DEF Sandbox!Terminal
<1>8. Sandbox!TypeOK'
  BY <1>3, <1>5, <1>7 DEF SandboxInv, Sandbox!TypeOK, CallerState
<1>9. ~ caller[c].mid
  BY <1>1, <1>2, AtWork, WritesAt
<1>10. \A d \in Sandbox!Callers : ~ Sandbox!InTransaction(d)'
  BY <1>2, <1>4, <1>5, Alone DEF Sandbox!InTransaction, Sandbox!Outside
<1>11. Sandbox!At(Preparer, "prepared") /\ caller'[Preparer] = caller[Preparer] /\ Preparer \in Sandbox!Callers
  BY <1>2, <1>5, Alone DEF Sandbox!Callers
<1>12. Preparing'
  BY <1>7, <1>10, <1>11 DEF Preparing, Sandbox!At, Sandbox!Terminal
<1>13. OneAtWork' /\ WritersHide'
  <2>1. \A d \in Sandbox!Callers : ~ caller'[d].mid
    BY <1>2, <1>4, <1>5, <1>9, Alone, WritesAt DEF SandboxInv, WritersHide, Sandbox!InTransaction,
       Sandbox!Outside
  <2> QED BY <1>10, <2>1 DEF OneAtWork, WritersHide
<1>14. OneAnswered'
  BY <1>2, <1>5, Alone DEF OneAnswered, Sandbox!At, Sandbox!Callers
<1>15. Contained'
  <2>1. container # "running"
    BY <1>1, <1>2, Alone DEF Sandbox!At
  <2> QED BY <1>3, <2>1 DEF SandboxInv, Contained
<1>16. Sandbox!ManifestDescribesFiles'
  BY <1>3 DEF SandboxInv, Sandbox!ManifestDescribesFiles
<1>17. ASSUME NEW d \in Executors PROVE ExecutorPlaced(d)'
  <2>1. CASE d = c
    BY <1>4, <1>5, <1>7, <1>10, <1>11, <2>1 DEF ExecutorPlaced, Sandbox!At, Sandbox!Callers, Unclaimed, Unrun,
       Claimed, Concluded
  <2>2. CASE d # c
    <3>1. d \in Sandbox!Callers /\ caller'[d] = caller[d] /\ ExecutorPlaced(d) /\ ~ Sandbox!InTransaction(d) /\ ~ Sandbox!InTransaction(d)'
      BY <1>2, <1>5, <1>10, <2>2, Alone DEF SandboxInv, Sandbox!Callers
    <3>2. caller[d].pc \notin Unclaimed \cup Claimed \cup Concluded /\ caller[d].pc # "bound"
      BY <3>1 DEF Sandbox!InTransaction, Sandbox!Outside, Unclaimed, Claimed, Unrun, Concluded
    <3> QED BY <1>3, <1>7, <1>11, <3>1, <3>2 DEF ExecutorPlaced, Sandbox!At
  <2> QED BY <2>1, <2>2
<1>18. jobManifest # Sandbox!NoManifest
  BY <1>1, <1>2 DEF Working
<1>19. ASSUME caller[c].result = "succeeded"
       PROVE  /\ output = Sandbox!Good /\ container = "exited" /\ host.execution = Sandbox!Good /\ jobManifest.output = Sandbox!Good
              /\ \A f \in {"guard", "execution", "validation"} : jobManifest.entries[f] = Sandbox!Good
  <2>1. Succeeding(c) /\ caller[c].entries.execution = Sandbox!Good
    BY <1>1, <1>2, <1>19 DEF Working, Succeeding
  <2>2. host.execution = Sandbox!Good
    BY <1>2, <2>1 DEF Working, Sandbox!Files, Sandbox!Good, Sandbox!Absent
  <2> QED BY <1>1, <2>1, <2>2 DEF Succeeding, Concluded
<1>20. Sandbox!SuccessIsBacked'
  BY <1>3, <1>6, <1>7, <1>18, <1>19 DEF Sandbox!SuccessIsBacked
<1> QED BY <1>8, <1>12, <1>13, <1>14, <1>15, <1>16, <1>17, <1>20 DEF SandboxInv

\* A container starts after the guard, where none of the job's is running.
LEMMA StartContainerKeeps ==
  ASSUME Sets, SandboxInv, NEW c \in Executors, Sandbox!StartContainer(c)
  PROVE  SandboxInv'
<1>1. caller[c].pc = "run" /\ caller[c].pc \in Claimed /\ Sandbox!Guarded(c)
  BY DEF Sandbox!StartContainer, Sandbox!At, Claimed, Unrun
<1>2. Working(c) /\ caller[c] \in CallerState /\ ~ caller[c].mid /\ Sandbox!InTransaction(c) /\ c \in Sandbox!Callers
  BY <1>1, AtWork, WritesAt
<1> DEFINE r == [caller[c] EXCEPT !.pc = "wait"]
<1>3. caller' = [caller EXCEPT ![c] = r] /\ container' = "running" /\ runners' = runners \cup {c}
      /\ UNCHANGED <<status, code, host, output, jobManifest, approved>>
  BY DEF Sandbox!StartContainer, Sandbox!Goto, Sandbox!artifacts
<1>4. r \in CallerState /\ r.pc = "wait" /\ r.result = caller[c].result /\ ~ r.mid /\ r.row = caller[c].row
      /\ r.turn = caller[c].turn /\ r.entries = caller[c].entries
  BY <1>2, WritesAt DEF CallerState, Sandbox!Steps
<1> HIDE DEF r
<1>5. /\ caller' \in [Sandbox!Callers -> CallerState] /\ caller'[c] = r
      /\ \A d \in Sandbox!Callers \ {c} : caller'[d] = caller[d]
  BY <1>2, <1>3, <1>4, CallerType DEF SandboxInv
<1>6. Sandbox!TypeOK'
  BY <1>3, <1>5 DEF SandboxInv, Sandbox!TypeOK, CallerState
<1>7. jobManifest = Sandbox!NoManifest /\ caller[c].result = "none"
  BY <1>1, <1>2 DEF Working, Unrun, Claimed
<1>8. host.guard = Sandbox!Good /\ code = Sandbox!Good
  BY <1>1, <1>2 DEF Working, Sandbox!Guarded, Sandbox!Files, Sandbox!Good, Sandbox!Absent
<1>9. Contained'
  BY <1>3, <1>4, <1>5, <1>8 DEF Contained, Sandbox!At
<1>10. Working(c)'
  BY <1>1, <1>2, <1>3, <1>4, <1>5, <1>7 DEF Working, Unrun, Claimed, Concluded, Sandbox!Guarded
<1>11. Sandbox!ManifestDescribesFiles'
  BY <1>3, <1>7 DEF Sandbox!ManifestDescribesFiles
<1>12. Sandbox!At(Preparer, "prepared")' /\ r.pc \notin {"idle", "answered", "lost", "bound"} \cup Unclaimed \cup Unrun
       /\ r.pc \in Claimed
  BY <1>2, <1>4, <1>5, Alone DEF Sandbox!At, Sandbox!Callers, Unclaimed, Unrun, Claimed
<1>13. ExecutorPlaced(c)'
  BY <1>2, <1>3, <1>5, <1>10, <1>12, Alone DEF ExecutorPlaced
<1> QED BY <1>2, <1>3, <1>4, <1>5, <1>6, <1>9, <1>11, <1>13, Alone, ExecutorMoves

\* The run takes too long: the container is removed or left.
LEMMA RunTimesOutKeeps ==
  ASSUME Sets, SandboxInv, NEW c \in Executors, Sandbox!RunTimesOut(c)
  PROVE  SandboxInv'
<1>1. caller[c].pc = "wait" /\ caller[c].pc \in Claimed /\ container = "running"
  BY DEF Sandbox!RunTimesOut, Sandbox!At, Claimed
<1>2. Working(c) /\ caller[c] \in CallerState /\ ~ caller[c].mid /\ Sandbox!InTransaction(c) /\ c \in Sandbox!Callers
  BY <1>1, AtWork, WritesAt
<1> DEFINE r == [caller[c] EXCEPT !.pc = "evidence", !.result = "failed"]
<1>3. caller' = [caller EXCEPT ![c] = r] /\ container' \in {"exited", "stray"}
      /\ UNCHANGED <<status, code, host, output, jobManifest, runners, approved>>
  BY DEF Sandbox!RunTimesOut, Sandbox!artifacts
<1>4. r \in CallerState /\ r.pc = "evidence" /\ r.result = "failed" /\ ~ r.mid /\ r.row = caller[c].row
      /\ r.turn = caller[c].turn /\ r.entries = caller[c].entries
  BY <1>2, WritesAt DEF CallerState, Sandbox!Steps, Sandbox!Terminal
<1> HIDE DEF r
<1>5. /\ caller' \in [Sandbox!Callers -> CallerState] /\ caller'[c] = r
      /\ \A d \in Sandbox!Callers \ {c} : caller'[d] = caller[d]
  BY <1>2, <1>3, <1>4, CallerType DEF SandboxInv
<1>6. Sandbox!TypeOK'
  BY <1>3, <1>5 DEF SandboxInv, Sandbox!TypeOK, CallerState
<1>7. jobManifest = Sandbox!NoManifest
  BY <1>1, <1>2 DEF Working
<1>8. Contained'
  BY <1>1, <1>3 DEF SandboxInv, Contained
<1>9. Working(c)'
  BY <1>1, <1>2, <1>3, <1>4, <1>5, <1>7 DEF Working, Unrun, Claimed, Concluded
<1>10. Sandbox!ManifestDescribesFiles'
  BY <1>3, <1>7 DEF Sandbox!ManifestDescribesFiles
<1>11. Sandbox!At(Preparer, "prepared")' /\ r.pc \notin {"idle", "answered", "lost", "bound"} \cup Unclaimed \cup Unrun
       /\ r.pc \in Claimed
  BY <1>2, <1>4, <1>5, Alone DEF Sandbox!At, Sandbox!Callers, Unclaimed, Unrun, Claimed
<1>12. ExecutorPlaced(c)'
  BY <1>2, <1>3, <1>5, <1>9, <1>11, Alone DEF ExecutorPlaced
<1> QED BY <1>2, <1>3, <1>4, <1>5, <1>6, <1>8, <1>10, <1>12, Alone, ExecutorMoves

\* Between the removal of the manifest and its return a write puts one file.
LEMMA WrittenIs ==
  ASSUME SandboxInv, NEW c \in Sandbox!Callers, caller[c].mid
  PROVE  /\ caller[c].pc \in Sandbox!Writing /\ jobManifest = Sandbox!NoManifest /\ Sandbox!InTransaction(c)
         /\ Sandbox!Content(c) \in Nat
         /\ Sandbox!FileAt[caller[c].pc] \in Sandbox!Files
         /\ Sandbox!Written(c) \in [Sandbox!Files -> Nat]
         /\ Sandbox!Written(c)[Sandbox!FileAt[caller[c].pc]] = Sandbox!Content(c)
         /\ \A f \in Sandbox!Files \ {Sandbox!FileAt[caller[c].pc]} : Sandbox!Written(c)[f] = host[f]
<1>1. caller[c].pc \in Sandbox!Writing /\ jobManifest = Sandbox!NoManifest /\ caller[c] \in CallerState
  BY DEF SandboxInv, WritersHide, Sandbox!TypeOK, CallerState
<1>2. Sandbox!InTransaction(c)
  BY <1>1, WritesAt DEF Sandbox!InTransaction, Sandbox!Outside
<1> DEFINE f == Sandbox!FileAt[caller[c].pc]
<1>3. f \in Sandbox!Files
  BY <1>1, WritesAt DEF Sandbox!Files
<1>4. host \in [Sandbox!Files -> Nat] /\ host.lifecycle \in Nat /\ code \in Nat /\ caller[c].seen \in Nat
  BY <1>1 DEF SandboxInv, Sandbox!TypeOK, Sandbox!Files, CallerState, Sandbox!Good, Sandbox!Bad,
     Sandbox!Absent
<1>5. Sandbox!Content(c) \in Nat
  BY <1>4 DEF Sandbox!Content, Sandbox!Good
<1>6. Sandbox!Written(c) = [host EXCEPT ![f] = Sandbox!Content(c)]
  BY DEF Sandbox!Written
<1> HIDE DEF f
<1>7. Sandbox!Written(c) \in [Sandbox!Files -> Nat] /\ Sandbox!Written(c)[f] = Sandbox!Content(c) /\ \A g \in Sandbox!Files \ {f} : Sandbox!Written(c)[g] = host[g]
  BY <1>3, <1>4, <1>5, <1>6
<1> QED BY <1>1, <1>2, <1>3, <1>5, <1>7 DEF f

\* A write of the evidence or of the finalization fails.
LEMMA PersistenceFailsKeeps ==
  ASSUME Sets, SandboxInv, NEW c \in Executors, Sandbox!PersistenceFails(c)
  PROVE  SandboxInv'
<1>1. caller[c].pc \in {"evidence", "validation", "manifest"} /\ caller[c].pc \in Claimed
  BY DEF Sandbox!PersistenceFails, Claimed
<1>2. Working(c) /\ caller[c] \in CallerState /\ Sandbox!InTransaction(c) /\ c \in Sandbox!Callers /\ container # "running"
  BY <1>1, AtWork, Alone DEF Sandbox!At
<1> DEFINE r == [caller[c] EXCEPT !.pc = "mark", !.mid = FALSE, !.result = "failed"]
<1>3. caller' = [caller EXCEPT ![c] = r] /\ host' \in {host} \cup (IF caller[c].mid THEN {Sandbox!Written(c)} ELSE {})
      /\ UNCHANGED <<status, code, output, jobManifest, container, runners, approved>>
  BY DEF Sandbox!PersistenceFails
<1>4. r \in CallerState /\ r.pc = "mark" /\ r.result = "failed" /\ ~ r.mid /\ r.row = caller[c].row
      /\ r.turn = caller[c].turn /\ r.entries = caller[c].entries
  BY <1>2 DEF CallerState, Sandbox!Steps, Sandbox!Terminal
<1> HIDE DEF r
<1>5. /\ caller' \in [Sandbox!Callers -> CallerState] /\ caller'[c] = r
      /\ \A d \in Sandbox!Callers \ {c} : caller'[d] = caller[d]
  BY <1>2, <1>3, <1>4, CallerType DEF SandboxInv
<1>6. jobManifest = Sandbox!NoManifest
  BY <1>1, <1>2 DEF Working
<1>7. /\ host' \in [Sandbox!Files -> Nat]
      /\ \A f \in Sandbox!Files \ {"validation"} : host'[f] = host[f] \/ (f = "execution" /\ host'[f] = Sandbox!Good)
  <2>1. CASE host' = host
    BY <2>1 DEF SandboxInv, Sandbox!TypeOK
  <2>2. CASE caller[c].mid /\ host' = Sandbox!Written(c)
    <3>1. Sandbox!FileAt[caller[c].pc] \in {"execution", "validation"}
      BY <1>1, <1>2, <2>2, WrittenIs, WritesAt
    <3>2. Sandbox!FileAt[caller[c].pc] = "execution" => Sandbox!Content(c) = Sandbox!Good
      BY DEF Sandbox!Content
    <3> QED BY <1>2, <2>2, <3>1, <3>2, WrittenIs
  <2> QED BY <1>3, <2>1, <2>2
<1>8. Sandbox!TypeOK'
  BY <1>3, <1>5, <1>7 DEF SandboxInv, Sandbox!TypeOK, CallerState
<1>9. Contained'
  BY <1>2, <1>3 DEF SandboxInv, Contained
<1>10. Working(c)'
  <2>1. \A f \in Sandbox!Files \ {"validation"} : r.entries[f] # Sandbox!Absent => r.entries[f] = host'[f]
    BY <1>2, <1>4, <1>7 DEF Working, Sandbox!Files
  <2> QED BY <1>1, <1>2, <1>3, <1>4, <1>5, <2>1 DEF Working, Unrun, Claimed, Concluded
<1>11. Sandbox!ManifestDescribesFiles'
  BY <1>3, <1>6 DEF Sandbox!ManifestDescribesFiles
<1>12. Sandbox!At(Preparer, "prepared")' /\ r.pc \notin {"idle", "answered", "lost", "bound"} \cup Unclaimed \cup Unrun
       /\ r.pc \in Claimed
  BY <1>2, <1>4, <1>5, Alone DEF Sandbox!At, Sandbox!Callers, Unclaimed, Unrun, Claimed
<1>13. ExecutorPlaced(c)'
  BY <1>2, <1>3, <1>5, <1>10, <1>12, Alone DEF ExecutorPlaced
<1> QED BY <1>2, <1>3, <1>4, <1>5, <1>8, <1>9, <1>11, <1>13, Alone, ExecutorMoves

\* An executor's transaction is lost: the job is queued as before, and the
\* container may live on.
LEMMA RollBackKeeps ==
  ASSUME Sets, SandboxInv, NEW c \in Executors, Sandbox!RollBack(c)
  PROVE  SandboxInv'
<1>1. Sandbox!InTransaction(c) /\ c \in Sandbox!Callers /\ (~ Sandbox!At(c, "wait") => container # "running")
  BY Alone DEF Sandbox!RollBack
<1> DEFINE r == Sandbox!Idle("lost")
<1>2. caller' = [caller EXCEPT ![c] = r] /\ host' \in {host} \cup (IF caller[c].mid THEN {Sandbox!Written(c)} ELSE {})
      /\ container' = (IF Sandbox!At(c, "wait") /\ container = "running" THEN "stray" ELSE container)
      /\ UNCHANGED <<status, code, output, jobManifest, runners, approved>>
  BY DEF Sandbox!RollBack
<1>3. r \in CallerState /\ r.pc = "lost" /\ ~ r.mid
  BY IdleState DEF Sandbox!Steps, Sandbox!Outside
<1> HIDE DEF r
<1>4. /\ caller' \in [Sandbox!Callers -> CallerState] /\ caller'[c] = r
      /\ \A d \in Sandbox!Callers \ {c} : caller'[d] = caller[d]
  BY <1>1, <1>2, <1>3, CallerType DEF SandboxInv
<1>5. host' \in [Sandbox!Files -> Nat] /\ (host' = host \/ jobManifest = Sandbox!NoManifest)
  BY <1>1, <1>2, WrittenIs DEF SandboxInv, Sandbox!TypeOK
<1>6. Sandbox!TypeOK'
  BY <1>2, <1>4, <1>5 DEF SandboxInv, Sandbox!TypeOK, CallerState
<1>7. container' # "running" /\ (container' = "none" <=> container = "none")
      /\ (container' \in {"none", "running", "exited"} => container \in {"none", "running", "exited"})
  BY <1>1, <1>2
<1>8. Contained'
  BY <1>2, <1>7 DEF SandboxInv, Contained
<1>9. Sandbox!ManifestDescribesFiles'
  BY <1>2, <1>5, <1>7 DEF SandboxInv, Sandbox!ManifestDescribesFiles
<1>10. Sandbox!At(Preparer, "prepared")'
  BY <1>1, <1>4, Alone DEF Sandbox!At, Sandbox!Callers
<1>11. ExecutorPlaced(c)'
  BY <1>3, <1>4, <1>10 DEF ExecutorPlaced, Sandbox!InTransaction, Sandbox!Outside, Unclaimed, Unrun, Claimed,
     Concluded
<1> QED BY <1>1, <1>2, <1>3, <1>4, <1>6, <1>8, <1>9, <1>11, Alone, ExecutorMoves

\* The manifest is removed before a file is written.
LEMMA InvalidateKeeps ==
  ASSUME Sets, SandboxInv, NEW c \in Executors, Sandbox!InvalidateManifest(c)
  PROVE  SandboxInv'
<1> DEFINE restart == Sandbox!FileAt[caller[c].pc] = "request"
           es == IF restart THEN Sandbox!NoFiles ELSE caller[c].entries
           r == [caller[c] EXCEPT !.mid = TRUE, !.entries = es]
<1>1. Sandbox!InTransaction(c) /\ caller[c].pc \in Sandbox!Writing /\ caller[c].pc \in Claimed \cup Concluded
  <2>1. Sandbox!InTransaction(c) /\ caller[c].pc \in Sandbox!Writing
    BY WritesAt DEF Sandbox!InvalidateManifest, Sandbox!InTransaction, Sandbox!Outside
  <2> QED BY <2>1, Alone, WritesAt DEF ExecutorPlaced, Unclaimed, Claimed, Unrun, Concluded
<1>2. Working(c) /\ caller[c] \in CallerState /\ c \in Sandbox!Callers /\ container # "running" /\ caller[c].pc # "wait"
  BY <1>1, AtWork, Alone, WritesAt DEF Sandbox!At
<1>3. /\ caller' = [caller EXCEPT ![c] = r] /\ jobManifest' = Sandbox!NoManifest
      /\ host' = IF restart THEN [host EXCEPT !.guard = Sandbox!Absent] ELSE host
      /\ UNCHANGED <<status, code, output, container, runners, approved>>
  BY DEF Sandbox!InvalidateManifest
<1>4. restart <=> caller[c].pc = "request"
  BY <1>1, WritesAt DEF Claimed, Unrun, Concluded
<1> HIDE DEF restart
<1>5. Sandbox!NoFiles \in [Sandbox!Files -> Nat] /\ \A f \in Sandbox!Files : Sandbox!NoFiles[f] = Sandbox!Absent
  BY DEF Sandbox!NoFiles, Sandbox!Absent
<1>6. es \in [Sandbox!Files -> Nat] /\ (~ restart => es = caller[c].entries) /\ (restart => \A f \in Sandbox!Files : es[f] = Sandbox!Absent)
  BY <1>2, <1>5 DEF CallerState
<1> HIDE DEF es
<1>7. r \in CallerState /\ r.pc = caller[c].pc /\ r.mid /\ r.result = caller[c].result /\ r.row = caller[c].row
      /\ r.turn = caller[c].turn /\ r.entries = es /\ r.seen = caller[c].seen
  BY <1>2, <1>6 DEF CallerState
<1> HIDE DEF r
<1>8. /\ caller' \in [Sandbox!Callers -> CallerState] /\ caller'[c] = r
      /\ \A d \in Sandbox!Callers \ {c} : caller'[d] = caller[d]
  BY <1>2, <1>3, <1>7, CallerType DEF SandboxInv
<1>9. /\ host' \in [Sandbox!Files -> Nat] /\ \A f \in Sandbox!Files \ {"guard"} : host'[f] = host[f]
      /\ (~ restart => host' = host)
  BY <1>3 DEF SandboxInv, Sandbox!TypeOK, Sandbox!Absent
<1>10. jobManifest' \in [entries : [Sandbox!Files -> Nat], output : {Sandbox!Absent, Sandbox!Good, Sandbox!Bad}]
  BY <1>3, <1>5 DEF Sandbox!NoManifest
<1>11. Sandbox!TypeOK'
  BY <1>3, <1>8, <1>9, <1>10 DEF SandboxInv, Sandbox!TypeOK, CallerState
<1>12. Contained'
  BY <1>2, <1>3 DEF SandboxInv, Contained
<1>13. caller[c].result = "succeeded" => Succeeding(c)'
  BY <1>1, <1>2, <1>3, <1>4, <1>6, <1>7, <1>8, WritesAt DEF Working, Succeeding, Sandbox!Guarded, Unrun,
     Concluded
<1>14. \A f \in Sandbox!Files \ {"validation"} : es[f] # Sandbox!Absent => es[f] = host'[f]
  BY <1>2, <1>6, <1>9 DEF Working
<1>15. host'.validation = host.validation /\ es.execution \in {Sandbox!Absent, Sandbox!Good}
  BY <1>2, <1>6, <1>9 DEF Sandbox!Files, Working
<1>16. caller[c].pc \in {"started", "run", "wait"} => es = caller[c].entries
  BY <1>4, <1>6
<1>17. caller[c].pc # "commit"
  BY <1>1, WritesAt
<1>18. Working(c)'
  BY <1>2, <1>3, <1>7, <1>8, <1>13, <1>14, <1>15, <1>16, <1>17 DEF Working, Sandbox!Guarded
<1>19. Sandbox!ManifestDescribesFiles'
  BY <1>3 DEF Sandbox!ManifestDescribesFiles
<1>20. Sandbox!At(Preparer, "prepared")' /\ r.pc \notin {"idle", "answered", "lost", "bound"} \cup Unclaimed
       /\ r.pc \in Claimed \cup Concluded
  BY <1>1, <1>2, <1>7, <1>8, Alone DEF Sandbox!At, Sandbox!Callers, Unclaimed, Unrun, Claimed, Concluded
<1>21. ExecutorPlaced(c)'
  BY <1>1, <1>2, <1>3, <1>7, <1>8, <1>18, <1>20, Alone DEF ExecutorPlaced
<1> QED BY <1>1, <1>2, <1>3, <1>7, <1>8, <1>11, <1>12, <1>19, <1>20, <1>21, Alone, ExecutorMoves

\* A file is written and its digest noted.
LEMMA WriteFileKeeps ==
  ASSUME Sets, SandboxInv, NEW c \in Executors, Sandbox!WriteFile(c)
  PROVE  SandboxInv'
<1> DEFINE f == Sandbox!FileAt[caller[c].pc]
           es == [caller[c].entries EXCEPT ![f] = IF f = "validation" THEN @ ELSE Sandbox!Content(c)]
           pc == Sandbox!After(c)
           r == [caller[c] EXCEPT !.pc = pc, !.mid = FALSE, !.entries = es]
<1>1. c \in Sandbox!Callers /\ caller[c].mid /\ Sandbox!InTransaction(c) /\ caller[c].pc \in Sandbox!Writing
  BY WrittenIs DEF Sandbox!WriteFile, Sandbox!Callers
<1>2. /\ caller[c].pc \in {"request", "guard", "started", "evidence", "validation", "finalValidation",
                           "denied", "succeeded", "failed"}
      /\ caller[c].pc \in Claimed \cup Concluded
  BY <1>1, Alone, WritesAt DEF ExecutorPlaced, Unclaimed, Claimed, Unrun, Concluded
<1>3. Working(c) /\ caller[c] \in CallerState /\ container # "running"
  BY <1>1, <1>2, AtWork, Alone DEF Sandbox!At
<1>4. /\ caller' = [caller EXCEPT ![c] = r] /\ host' = Sandbox!Written(c)
      /\ UNCHANGED <<status, code, output, jobManifest, container, runners, approved>>
  BY DEF Sandbox!WriteFile
<1>5. /\ caller[c].pc = "request" => pc = "guard" /\ f = "request"
      /\ caller[c].pc = "guard" => pc = (IF code = Sandbox!Good THEN "started" ELSE "reject") /\ f = "guard"
      /\ caller[c].pc = "started" => pc = "run" /\ f = "lifecycle"
      /\ caller[c].pc = "evidence" => pc = (IF caller[c].result = "succeeded" THEN "validate" ELSE "mark") /\ f = "execution"
      /\ caller[c].pc = "validation" => pc = "manifest" /\ f = "validation"
      /\ caller[c].pc = "finalValidation" => pc = "finalManifest" /\ f = "validation"
      /\ caller[c].pc \in {"denied", "succeeded", "failed"} => pc = "revalidate" /\ f = "lifecycle"
  BY WritesAt DEF Sandbox!After, Sandbox!At
<1>6. /\ f = "guard" => Sandbox!Content(c) = code
      /\ f = "execution" => Sandbox!Content(c) = Sandbox!Good
      /\ f = "validation" => Sandbox!Content(c) = caller[c].seen
  BY DEF Sandbox!Content
<1>7. /\ f \in Sandbox!Files /\ Sandbox!Content(c) \in Nat /\ jobManifest = Sandbox!NoManifest
      /\ host' \in [Sandbox!Files -> Nat]
      /\ host'[f] = Sandbox!Content(c) /\ \A g \in Sandbox!Files \ {f} : host'[g] = host[g]
  BY <1>1, <1>4, WrittenIs
<1> HIDE DEF f, pc
<1>8. /\ es \in [Sandbox!Files -> Nat]
      /\ \A g \in Sandbox!Files \ {f} : es[g] = caller[c].entries[g]
      /\ f # "validation" => es[f] = Sandbox!Content(c)
  BY <1>3, <1>7 DEF CallerState
<1> HIDE DEF es
<1>9. pc \in Sandbox!Steps
  BY <1>2, <1>5, WritesAt DEF Sandbox!Steps
<1>10. r \in CallerState /\ r.pc = pc /\ ~ r.mid /\ r.result = caller[c].result /\ r.row = caller[c].row
       /\ r.turn = caller[c].turn /\ r.entries = es /\ r.seen = caller[c].seen
  BY <1>3, <1>8, <1>9 DEF CallerState
<1> HIDE DEF r
<1>11. /\ caller' \in [Sandbox!Callers -> CallerState] /\ caller'[c] = r
       /\ \A d \in Sandbox!Callers \ {c} : caller'[d] = caller[d]
  BY <1>1, <1>4, <1>10, CallerType DEF SandboxInv
<1>12. Sandbox!TypeOK'
  BY <1>4, <1>7, <1>11 DEF SandboxInv, Sandbox!TypeOK, CallerState
<1>13. Contained'
  BY <1>3, <1>4 DEF SandboxInv, Contained
<1>14. \A g \in Sandbox!Files \ {"validation"} : es[g] # Sandbox!Absent => es[g] = host'[g]
  BY <1>3, <1>7, <1>8 DEF Working
<1>15. es.execution \in {Sandbox!Absent, Sandbox!Good} /\ (f = "execution" => es.execution = Sandbox!Good)
       /\ (f # "execution" => es.execution = caller[c].entries.execution)
       /\ (f # "guard" => es.guard = caller[c].entries.guard) /\ (f = "guard" => es.guard = code)
       /\ (f = "validation" => host'.validation = caller[c].seen)
  BY <1>3, <1>6, <1>7, <1>8 DEF Working, Sandbox!Files
<1>16. ASSUME caller[c].result = "succeeded" PROVE Succeeding(c)'
  <2>1. Succeeding(c) /\ caller[c].pc \in {"evidence", "validation", "finalValidation", "succeeded", "failed"}
    BY <1>2, <1>3, <1>16 DEF Working, Unrun, Succeeding
  <2>2. Sandbox!Guarded(c)' /\ container' = "exited"
    BY <1>4, <1>5, <1>10, <1>11, <1>15, <2>1 DEF Succeeding, Sandbox!Guarded
  <2>3. es.execution = Sandbox!Good
    BY <1>5, <1>15, <2>1 DEF Succeeding
  <2>4. /\ pc = "manifest" /\ caller[c].seen = Sandbox!Good => output = Sandbox!Good
        /\ pc \in {"revalidate", "finalManifest"} => output = Sandbox!Good
        /\ pc = "finalManifest" => caller[c].seen = Sandbox!Good
    BY <1>5, <2>1 DEF Succeeding, Concluded
  <2>5. pc \in {"validate", "manifest", "revalidate", "finalManifest"}
    BY <1>5, <1>16, <2>1
  <2> QED BY <1>4, <1>10, <1>11, <2>2, <2>3, <2>4, <2>5 DEF Succeeding, Concluded
<1>17. Working(c)'
  <2>1. pc \in Unrun \cup {"wait"} => caller[c].result = "none"
    BY <1>2, <1>3, <1>5 DEF Working, Unrun
  <2>2. pc \in {"started", "run", "wait"} => code = Sandbox!Good /\ es.guard = code
    BY <1>2, <1>3, <1>5, <1>15 DEF Working, Sandbox!Guarded
  <2>3. pc \in {"evidence", "mark"} \cup Concluded => caller[c].result # "none"
    BY <1>2, <1>3, <1>5 DEF Working, Concluded
  <2>4. pc \in {"validate", "validation", "manifest"} => caller[c].result = "succeeded"
    BY <1>2, <1>3, <1>5 DEF Working
  <2>5. pc \in {"manifest", "finalManifest"} => caller[c].seen = host'.validation /\ caller[c].seen # Sandbox!Absent
    BY <1>2, <1>3, <1>5, <1>15 DEF Working
  <2>6. pc \notin {"wait", "validation", "finalValidation", "commit"}
    BY <1>2, <1>5
  <2>7. caller[c].row = IF pc \in Claimed THEN "validating" ELSE caller[c].result
    BY <1>2, <1>3, <1>5 DEF Working, Claimed, Unrun, Concluded
  <2> QED BY <1>3, <1>4, <1>7, <1>10, <1>11, <1>14, <1>15, <1>16, <2>1, <2>2, <2>3, <2>4, <2>5, <2>6, <2>7
             DEF Working, Sandbox!Guarded
<1>18. Sandbox!ManifestDescribesFiles'
  BY <1>4, <1>7 DEF Sandbox!ManifestDescribesFiles
<1>19. Sandbox!At(Preparer, "prepared")' /\ r.pc \notin {"idle", "answered", "lost", "bound"} \cup Unclaimed
       /\ r.pc \in Claimed \cup Concluded /\ (r.pc \in Unrun => caller[c].pc \in Unrun)
  BY <1>1, <1>2, <1>5, <1>10, <1>11, Alone DEF Sandbox!At, Sandbox!Callers, Unclaimed, Unrun, Claimed,
     Concluded
<1>20. ExecutorPlaced(c)'
  BY <1>1, <1>4, <1>10, <1>11, <1>17, <1>19, Alone DEF ExecutorPlaced
<1> QED BY <1>1, <1>4, <1>10, <1>11, <1>12, <1>13, <1>18, <1>19, <1>20, Alone, ExecutorMoves

\* The manifest is written from digests that are those of the files.
LEMMA SealManifestKeeps ==
  ASSUME Sets, SandboxInv, NEW c \in Executors, Sandbox!SealManifest(c)
  PROVE  SandboxInv'
<1>1. caller[c].pc \in {"manifest", "finalManifest"} /\ caller[c].pc \in Claimed \cup Concluded
  BY DEF Sandbox!SealManifest, Claimed, Concluded
<1>2. Working(c) /\ caller[c] \in CallerState /\ c \in Sandbox!Callers /\ container # "running" /\ ~ caller[c].mid
      /\ Sandbox!InTransaction(c)
  BY <1>1, AtWork, Alone, WritesAt DEF Sandbox!At
<1> DEFINE es == [caller[c].entries EXCEPT !.validation = caller[c].seen]
           pc == IF caller[c].pc = "finalManifest" THEN "commit" ELSE "mark"
           res == IF caller[c].pc = "finalManifest" THEN caller[c].result
                  ELSE IF caller[c].seen = Sandbox!Good THEN "succeeded" ELSE "failed"
           r == IF caller[c].pc = "finalManifest" THEN [caller[c] EXCEPT !.pc = "commit", !.entries = es]
                ELSE [caller[c] EXCEPT !.pc = "mark", !.entries = es,
                                       !.result = IF caller[c].seen = Sandbox!Good THEN "succeeded" ELSE "failed"]
<1>3. PICK o \in IF caller[c].seen = Sandbox!Good THEN {output} ELSE {Sandbox!Absent, output} :
        /\ jobManifest' = [entries |-> es, output |-> o]
        /\ caller' = [caller EXCEPT ![c] = r]
  BY DEF Sandbox!SealManifest
<1>4. UNCHANGED <<status, code, host, output, container, runners, approved>>
  BY DEF Sandbox!SealManifest
<1>5. /\ es \in [Sandbox!Files -> Nat] /\ es.validation = caller[c].seen
      /\ \A f \in Sandbox!Files \ {"validation"} : es[f] = caller[c].entries[f]
  BY <1>2 DEF CallerState, Sandbox!Files, Sandbox!Absent, Sandbox!Good, Sandbox!Bad
<1>6. pc \in {"commit", "mark"} /\ (pc = "commit" <=> caller[c].pc = "finalManifest") /\ res \in {"none"} \cup Sandbox!Terminal
      /\ (pc = "mark" => res # "none") /\ (pc = "commit" => res = caller[c].result)
  BY <1>1, <1>2 DEF CallerState, Sandbox!Terminal
<1>7. r \in CallerState /\ r.pc = pc /\ ~ r.mid /\ r.result = res /\ r.row = caller[c].row
      /\ r.turn = caller[c].turn /\ r.entries = es /\ r.seen = caller[c].seen
  <2> HIDE DEF es
  <2> QED BY <1>2, <1>5 DEF CallerState, Sandbox!Steps, Sandbox!Terminal
<1> HIDE DEF r, es, pc
<1>8. /\ caller' \in [Sandbox!Callers -> CallerState] /\ caller'[c] = r
      /\ \A d \in Sandbox!Callers \ {c} : caller'[d] = caller[d]
  BY <1>2, <1>3, <1>7, CallerType DEF SandboxInv
<1>9. o \in {Sandbox!Absent, output} /\ (caller[c].seen = Sandbox!Good => o = output)
  OBVIOUS
<1>10. jobManifest'.entries = es /\ jobManifest'.output = o
       /\ jobManifest' \in [entries : [Sandbox!Files -> Nat], output : {Sandbox!Absent, Sandbox!Good, Sandbox!Bad}]
  BY <1>3, <1>5, <1>9 DEF SandboxInv, Sandbox!TypeOK
<1>11. Sandbox!TypeOK'
  BY <1>4, <1>8, <1>10 DEF SandboxInv, Sandbox!TypeOK, CallerState
<1>12. Contained'
  BY <1>2, <1>4 DEF SandboxInv, Contained
<1>13. \A f \in Sandbox!Files : es[f] # Sandbox!Absent => es[f] = host[f]
  BY <1>1, <1>2, <1>5 DEF Working
<1>14. Sandbox!ManifestDescribesFiles'
  BY <1>4, <1>9, <1>10, <1>13 DEF Sandbox!ManifestDescribesFiles
<1>15. es.execution = caller[c].entries.execution /\ es.guard = caller[c].entries.guard
  BY <1>5 DEF Sandbox!Files
<1>16. ASSUME res = "succeeded" PROVE Succeeding(c)'
  <2>1. Succeeding(c) /\ caller[c].seen = Sandbox!Good /\ output = Sandbox!Good
    BY <1>1, <1>2, <1>16 DEF Working, Succeeding, Concluded
  <2>2. o = Sandbox!Good /\ jobManifest'.entries.guard = Sandbox!Good /\ jobManifest'.entries.execution = Sandbox!Good
        /\ jobManifest'.entries.validation = Sandbox!Good
    BY <1>1, <1>5, <1>9, <1>10, <1>15, <2>1 DEF Succeeding, Sandbox!Guarded
  <2> QED BY <1>1, <1>4, <1>6, <1>7, <1>8, <1>10, <1>15, <2>1, <2>2 DEF Succeeding, Sandbox!Guarded, Concluded
<1>17. jobManifest' # Sandbox!NoManifest
  <2>1. es.validation # Sandbox!Absent /\ Sandbox!NoFiles.validation = Sandbox!Absent
    BY <1>1, <1>2, <1>5 DEF Working, Sandbox!NoFiles, Sandbox!Files
  <2> QED BY <1>10, <2>1 DEF Sandbox!NoManifest
<1>18. Working(c)'
  <2>1. caller[c].row = IF pc \in Claimed THEN "validating" ELSE res
    BY <1>1, <1>2, <1>6 DEF Working, Claimed, Unrun, Concluded
  <2> HIDE DEF res
  <2> QED BY <1>2, <1>4, <1>6, <1>7, <1>8, <1>13, <1>15, <1>16, <1>17, <2>1 DEF Working, Unrun, Claimed,
             Concluded
<1>19. Sandbox!At(Preparer, "prepared")' /\ r.pc \notin {"idle", "answered", "lost", "bound"} \cup Unclaimed \cup Unrun
       /\ r.pc \in Claimed \cup Concluded
  BY <1>2, <1>6, <1>7, <1>8, Alone DEF Sandbox!At, Sandbox!Callers, Unclaimed, Unrun, Claimed, Concluded
<1>20. ExecutorPlaced(c)'
  BY <1>2, <1>4, <1>8, <1>18, <1>19, Alone DEF ExecutorPlaced
<1> QED BY <1>2, <1>4, <1>7, <1>8, <1>11, <1>12, <1>14, <1>19, <1>20, Alone, ExecutorMoves

\* A step of an executor that has not claimed the job, up to the claim.
LEMMA TurnMoves ==
  ASSUME Sets, SandboxInv, NEW c \in Executors, caller[c].pc \in {"idle"} \cup Unclaimed,
         status = "queued", \A d \in Sandbox!Callers \ {c} : ~ Sandbox!InTransaction(d),
         NEW r \in CallerState, caller' = [caller EXCEPT ![c] = r],
         UNCHANGED <<status, code, host, output, jobManifest, container, runners, approved>>,
         r.pc \in {"idle", "loaded", "bound", "request"}, ~ r.mid,
         r.entries = Sandbox!NoFiles, r.result = "none",
         r.pc \in Unclaimed => r.row = "queued",
         r.pc = "request" => r.row = "validating",
         r.pc \in {"bound", "request"} => r.turn \in approved
  PROVE  SandboxInv'
<1>1. c \in Sandbox!Callers /\ c # Preparer /\ ExecutorPlaced(c) /\ c \notin runners
  BY DEF SandboxInv, Sandbox!Callers, Sets, ExecutorPlaced, Unclaimed
<1>2. /\ caller' \in [Sandbox!Callers -> CallerState] /\ caller'[c] = r
      /\ \A d \in Sandbox!Callers \ {c} : caller'[d] = caller[d]
  BY <1>1, CallerType DEF SandboxInv
<1>3. Sandbox!At(Preparer, "prepared") /\ Sandbox!At(Preparer, "prepared")'
  BY <1>1, <1>2 DEF SandboxInv, Preparing, Sandbox!At, Sandbox!Callers
<1>4. Sandbox!TypeOK'
  BY <1>2 DEF SandboxInv, Sandbox!TypeOK, CallerState
<1>5. Contained'
  <2>1. container # "running"
    <3>1. \A d \in Executors : ~ Sandbox!At(d, "wait")
      BY DEF Sandbox!At, Sandbox!InTransaction, Sandbox!Outside, Sandbox!Callers, Unclaimed
    <3> QED BY <3>1 DEF SandboxInv, Contained
  <2> QED BY <2>1 DEF SandboxInv, Contained
<1>6. Sandbox!ManifestDescribesFiles'
  BY DEF SandboxInv, Sandbox!ManifestDescribesFiles
<1>7. r.pc \in {"idle", "loaded", "bound"} \/ r.pc \in Claimed
  BY DEF Claimed, Unrun
<1>8. Sandbox!NoFiles.execution = Sandbox!Absent /\ \A f \in Sandbox!Files : Sandbox!NoFiles[f] = Sandbox!Absent
  BY DEF Sandbox!NoFiles, Sandbox!Files
<1>9. ASSUME r.pc = "request" PROVE Working(c)'
  BY <1>2, <1>8, <1>9 DEF Working, Claimed, Unrun, Concluded
<1>10. ASSUME r.pc # "request"
       PROVE  r.pc \notin {"answered", "lost"} \cup Claimed \cup Concluded /\ r.pc \in {"idle"} \cup Unclaimed
  BY <1>10 DEF Unclaimed, Claimed, Unrun, Concluded
<1>11. ExecutorPlaced(c)'
  <2>1. CASE r.pc = "request"
    BY <1>1, <1>2, <1>3, <1>7, <1>9, <2>1 DEF ExecutorPlaced, Unclaimed, Claimed, Unrun, Concluded
  <2>2. CASE r.pc # "request"
    BY <1>1, <1>2, <1>3, <1>10, <2>2 DEF ExecutorPlaced, Unclaimed
  <2> QED BY <2>1, <2>2
<1> QED BY <1>2, <1>3, <1>4, <1>5, <1>6, <1>11, ExecutorMoves

\* A turn is loaded under the coordinator's lock.
LEMMA LoadJobKeeps ==
  ASSUME Sets, SandboxInv, NEW c \in Executors, Sandbox!LoadJob(c)
  PROVE  SandboxInv'
<1>1. PICK t \in Turns : caller' = [caller EXCEPT ![c] = [Sandbox!Idle("loaded") EXCEPT !.turn = t, !.row = status]]
  BY DEF Sandbox!LoadJob
<1> DEFINE r == [Sandbox!Idle("loaded") EXCEPT !.turn = t, !.row = status]
<1>2. caller[c].pc = "idle" /\ status = "queued"
      /\ (\A d \in Sandbox!Callers \ {c} : ~ Sandbox!InTransaction(d))
      /\ UNCHANGED <<status, code, host, output, jobManifest, container, runners, approved>>
  BY DEF Sandbox!LoadJob, Sandbox!At, Sandbox!WarehouseFree, Sandbox!artifacts
<1>3. Sandbox!Idle("loaded") \in CallerState /\ Sandbox!Idle("loaded").pc = "loaded" /\ ~ Sandbox!Idle("loaded").mid
      /\ Sandbox!Idle("loaded").entries = Sandbox!NoFiles /\ Sandbox!Idle("loaded").result = "none"
  BY IdleState DEF Sandbox!Steps
<1>4. r \in CallerState /\ r.pc = "loaded" /\ ~ r.mid /\ r.row = "queued" /\ r.entries = Sandbox!NoFiles /\ r.result = "none"
  BY <1>2, <1>3 DEF CallerState, Sandbox!Active
<1>5. caller' = [caller EXCEPT ![c] = r]
  BY <1>1
<1> HIDE DEF r
<1>6. /\ r.pc \in {"idle", "loaded", "bound", "request"}
      /\ r.pc \in Unclaimed => r.row = "queued"
      /\ r.pc = "request" => r.row = "validating"
      /\ r.pc \in {"bound", "request"} => r.turn \in approved
  BY <1>4
<1>7. caller[c].pc \in {"idle"} \cup Unclaimed
  BY <1>2
<1> QED BY <1>2, <1>4, <1>5, <1>6, <1>7, TurnMoves

\* The approval of the turn is required, and the job is claimed while queued.
LEMMA ClaimKeeps ==
  ASSUME Sets, SandboxInv, NEW c \in Executors, Sandbox!RequireApproval(c) \/ Sandbox!ClaimForValidation(c)
  PROVE  SandboxInv'
<1>1. caller[c].pc \in Unclaimed /\ Sandbox!InTransaction(c)
  BY DEF Sandbox!RequireApproval, Sandbox!ClaimForValidation, Sandbox!At, Unclaimed, Sandbox!InTransaction,
     Sandbox!Outside
<1>2. /\ caller[c] \in CallerState /\ ~ caller[c].mid /\ caller[c].entries = Sandbox!NoFiles /\ caller[c].result = "none"
      /\ caller[c].row = "queued" /\ status = "queued" /\ c \in Sandbox!Callers
      /\ \A d \in Sandbox!Callers \ {c} : ~ Sandbox!InTransaction(d)
      /\ (caller[c].pc = "bound" => caller[c].turn \in approved)
  BY <1>1, Alone, WritesAt DEF ExecutorPlaced, SandboxInv, WritersHide, Unclaimed
<1>3. UNCHANGED <<status, code, host, output, jobManifest, container, runners, approved>>
  BY DEF Sandbox!RequireApproval, Sandbox!ClaimForValidation, Sandbox!artifacts
<1>4. CASE caller' = [caller EXCEPT ![c] = Sandbox!Idle("idle")]
  <2> DEFINE r == Sandbox!Idle("idle")
  <2>1. r \in CallerState /\ r.pc = "idle" /\ ~ r.mid /\ r.entries = Sandbox!NoFiles /\ r.result = "none"
    BY IdleState DEF Sandbox!Steps, Sandbox!Outside
  <2> HIDE DEF r
  <2> QED BY <1>1, <1>2, <1>3, <1>4, <2>1, TurnMoves DEF r, Unclaimed
<1>5. CASE Sandbox!RequireApproval(c) /\ caller[c].turn \in approved
  <2> DEFINE r == [caller[c] EXCEPT !.pc = "bound"]
  <2>1. r \in CallerState /\ r.pc = "bound" /\ ~ r.mid /\ r.entries = Sandbox!NoFiles /\ r.result = "none"
        /\ r.row = "queued" /\ r.turn = caller[c].turn
    BY <1>2 DEF CallerState, Sandbox!Steps
  <2>2. caller' = [caller EXCEPT ![c] = r]
    BY <1>5 DEF Sandbox!RequireApproval
  <2> HIDE DEF r
  <2> QED BY <1>1, <1>2, <1>3, <1>5, <2>1, <2>2, TurnMoves
<1>6. CASE Sandbox!ClaimForValidation(c)
  <2> DEFINE r == [caller[c] EXCEPT !.pc = "request", !.row = "validating"]
  <2>1. r \in CallerState /\ r.pc = "request" /\ ~ r.mid /\ r.entries = Sandbox!NoFiles /\ r.result = "none"
        /\ r.row = "validating" /\ r.turn = caller[c].turn /\ caller[c].pc = "bound"
    BY <1>2, <1>6, WritesAt DEF CallerState, Sandbox!Steps, Sandbox!Active, Sandbox!ClaimForValidation,
       Sandbox!At
  <2>2. caller' = [caller EXCEPT ![c] = r]
    BY <1>2, <1>6 DEF Sandbox!ClaimForValidation
  <2> HIDE DEF r
  <2> QED BY <1>1, <1>2, <1>3, <2>1, <2>2, TurnMoves DEF Unclaimed
<1> QED BY <1>4, <1>5, <1>6 DEF Sandbox!RequireApproval, Sandbox!ClaimForValidation

\* Before the preview is committed no executor has begun.
LEMMA Unprepared ==
  ASSUME Sets, SandboxInv, ~ Sandbox!At(Preparer, "prepared")
  PROVE  /\ \A c \in Executors : Sandbox!At(c, "idle") /\ ~ Sandbox!InTransaction(c) /\ ~ caller[c].mid /\ ExecutorPlaced(c) /\ c \in Sandbox!Callers
         /\ status = "none" /\ container = "none" /\ jobManifest = Sandbox!NoManifest
         /\ Preparer \in Sandbox!Callers /\ caller[Preparer] \in CallerState
<1>1. \A c \in Executors : Sandbox!At(c, "idle") /\ ExecutorPlaced(c) /\ c \in Sandbox!Callers
  BY DEF SandboxInv, ExecutorPlaced, Sandbox!At, Sandbox!Callers
<1>2. \A c \in Executors : ~ Sandbox!InTransaction(c) /\ ~ caller[c].mid
  BY <1>1, WritesAt DEF Sandbox!InTransaction, Sandbox!Outside, Sandbox!At, SandboxInv, WritersHide
<1> QED BY <1>1, <1>2 DEF SandboxInv, Preparing, Sandbox!Callers, Sandbox!TypeOK, CallerState

\* The preview's step: it keeps the invariant when it keeps its own part of it.
LEMMA PreviewMoves ==
  ASSUME Sets, SandboxInv, ~ Sandbox!At(Preparer, "prepared"),
         NEW r \in CallerState, caller' = [caller EXCEPT ![Preparer] = r],
         UNCHANGED <<code, output, container, runners, approved>>,
         host' \in [Sandbox!Files -> Nat], jobManifest' = Sandbox!NoManifest,
         r.pc \in {"create", "newRequest", "created", "commit", "prepared", "lost"},
         r.mid => r.pc \in Sandbox!Writing,
         r.pc \in {"newRequest", "created", "commit"} => r.row = "queued",
         status' = IF r.pc = "prepared" THEN "queued" ELSE "none"
  PROVE  SandboxInv'
<1>1. /\ caller' \in [Sandbox!Callers -> CallerState] /\ caller'[Preparer] = r
      /\ \A d \in Sandbox!Callers \ {Preparer} : caller'[d] = caller[d]
  BY Unprepared, CallerType DEF SandboxInv
<1>2. Sandbox!NoManifest \in [entries : [Sandbox!Files -> Nat], output : {Sandbox!Absent, Sandbox!Good, Sandbox!Bad}]
  BY DEF Sandbox!NoManifest, Sandbox!NoFiles, Sandbox!Absent
<1>3. Sandbox!TypeOK'
  BY <1>1, <1>2 DEF SandboxInv, Sandbox!TypeOK, CallerState, Sandbox!Active
<1>4. ASSUME NEW c \in Executors
      PROVE  c \in Sandbox!Callers \ {Preparer} /\ caller'[c] = caller[c] /\ Sandbox!At(c, "idle") /\ Sandbox!At(c, "idle")' /\ ~ Sandbox!InTransaction(c)'
             /\ ~ caller'[c].mid
  BY <1>1, Unprepared DEF Sandbox!At, Sandbox!InTransaction, Sets
<1>5. Preparing'
  <2>1. Sandbox!InTransaction(Preparer)' => r.pc \in {"newRequest", "created", "commit"}
    BY <1>1 DEF Sandbox!InTransaction, Sandbox!Outside
  <2> QED BY <1>1, <2>1, Unprepared DEF Preparing, Sandbox!At
<1>6. OneAtWork' /\ WritersHide' /\ OneAnswered'
  <2>1. OneAtWork'
    BY <1>4 DEF OneAtWork, Sandbox!Callers
  <2>2. WritersHide'
    BY <1>1, <1>4 DEF WritersHide, Sandbox!Callers
  <2>3. OneAnswered'
    BY <1>4 DEF OneAnswered, Sandbox!At
  <2> QED BY <2>1, <2>2, <2>3
<1>7. Contained' /\ Sandbox!ManifestDescribesFiles' /\ Sandbox!SuccessIsBacked'
  BY Unprepared DEF Contained, Sandbox!ManifestDescribesFiles, Sandbox!SuccessIsBacked, Sandbox!Terminal
<1>8. ASSUME NEW c \in Executors PROVE ExecutorPlaced(c)'
  BY <1>4, Unprepared DEF ExecutorPlaced, Sandbox!At, Unclaimed, Unrun, Claimed, Concluded
<1> QED BY <1>3, <1>5, <1>6, <1>7, <1>8 DEF SandboxInv

\* The preview: its row, its files, its COMMIT or its loss.
LEMMA PreviewKeeps ==
  ASSUME Sets, SandboxInv,
         Sandbox!CreateJob \/ Sandbox!InvalidateManifest(Preparer) \/ Sandbox!WriteFile(Preparer) \/ Sandbox!Commit(Preparer) \/ Sandbox!RollBack(Preparer)
  PROVE  SandboxInv'
<1> DEFINE p == Preparer
<1>1. /\ ~ Sandbox!At(p, "prepared") /\ p \in Sandbox!Callers
      /\ caller[p].pc \in {"create", "newRequest", "created", "commit", "lost"}
  BY WrittenIs, WritesAt DEF Sandbox!CreateJob, Sandbox!InvalidateManifest, Sandbox!WriteFile, Sandbox!Commit,
     Sandbox!RollBack, Sandbox!InTransaction, Sandbox!Outside, Sandbox!At, SandboxInv, Preparing,
     Sandbox!Callers
<1>2. /\ caller[p] \in CallerState /\ status = "none" /\ jobManifest = Sandbox!NoManifest /\ host \in [Sandbox!Files -> Nat]
      /\ caller[p].mid => caller[p].pc \in Sandbox!Writing
      /\ Sandbox!InTransaction(p) => caller[p].row = "queued"
  BY <1>1, Unprepared DEF SandboxInv, Sandbox!TypeOK, Preparing, WritersHide
<1>3. "none" \in {"none"} \cup Sandbox!Active \cup Sandbox!Terminal /\ "queued" \in {"none"} \cup Sandbox!Active \cup Sandbox!Terminal
  BY DEF Sandbox!Active
<1>4. Sandbox!NoFiles \in [Sandbox!Files -> Nat]
  BY DEF Sandbox!NoFiles, Sandbox!Absent
<1>5. CASE Sandbox!CreateJob
  <2> DEFINE r == [caller[p] EXCEPT !.pc = "newRequest", !.row = "queued"]
  <2>1. r \in CallerState /\ r.pc = "newRequest" /\ r.row = "queued" /\ r.mid = caller[p].mid /\ "newRequest" \in Sandbox!Writing
    BY <1>2, <1>3, WritesAt DEF CallerState, Sandbox!Steps
  <2>2. caller' = [caller EXCEPT ![p] = r] /\ UNCHANGED <<status, code, host, output, jobManifest, container, runners, approved>>
    BY <1>5 DEF Sandbox!CreateJob, Sandbox!artifacts
  <2> HIDE DEF r
  <2> QED BY <1>1, <1>2, <2>1, <2>2, PreviewMoves
<1>6. CASE Sandbox!InvalidateManifest(p)
  <2>1. caller[p].pc \in {"newRequest", "created"} /\ caller[p].pc \in Sandbox!Writing /\ caller[p].row = "queued"
    BY <1>1, <1>2, <1>6, WritesAt DEF Sandbox!InvalidateManifest, Sandbox!InTransaction, Sandbox!Outside
  <2> DEFINE es == IF Sandbox!FileAt[caller[p].pc] = "request" THEN Sandbox!NoFiles ELSE caller[p].entries
             r == [caller[p] EXCEPT !.mid = TRUE, !.entries = es]
  <2>2. es \in [Sandbox!Files -> Nat]
    BY <1>2, <1>4 DEF CallerState
  <2>3. caller' = [caller EXCEPT ![p] = r] /\ jobManifest' = Sandbox!NoManifest
        /\ UNCHANGED <<status, code, output, container, runners, approved>>
    BY <1>6 DEF Sandbox!InvalidateManifest
  <2> HIDE DEF es
  <2>4. r \in CallerState /\ r.pc = caller[p].pc /\ r.row = caller[p].row
    BY <1>2, <2>2 DEF CallerState
  <2>5. host' \in [Sandbox!Files -> Nat]
    BY <1>2, <1>6 DEF Sandbox!InvalidateManifest, Sandbox!Absent
  <2> HIDE DEF r
  <2> QED BY <1>1, <1>2, <2>1, <2>3, <2>4, <2>5, PreviewMoves
<1>7. CASE Sandbox!WriteFile(p)
  <2>1. caller[p].mid /\ caller[p].pc \in {"newRequest", "created"} /\ caller[p].row = "queued"
    BY <1>1, <1>2, <1>7, WritesAt DEF Sandbox!WriteFile, Sandbox!InTransaction, Sandbox!Outside
  <2> DEFINE f == Sandbox!FileAt[caller[p].pc]
             es == [caller[p].entries EXCEPT ![f] = IF f = "validation" THEN @ ELSE Sandbox!Content(p)]
             pc == Sandbox!After(p)
             r == [caller[p] EXCEPT !.pc = pc, !.mid = FALSE, !.entries = es]
  <2>2. Sandbox!Content(p) \in Nat /\ Sandbox!Written(p) \in [Sandbox!Files -> Nat]
    BY <1>1, <2>1, WrittenIs
  <2>3. es \in [Sandbox!Files -> Nat]
    BY <1>2, <2>2 DEF CallerState
  <2>4. pc \in {"created", "commit"} /\ pc \in Sandbox!Steps
    BY <2>1, WritesAt DEF Sandbox!After, Sandbox!At, Sandbox!Steps
  <2>5. caller' = [caller EXCEPT ![p] = r] /\ host' = Sandbox!Written(p)
        /\ UNCHANGED <<status, code, output, jobManifest, container, runners, approved>>
    BY <1>7 DEF Sandbox!WriteFile
  <2> HIDE DEF es, pc
  <2>6. r \in CallerState /\ r.pc = pc /\ r.row = caller[p].row /\ ~ r.mid
    BY <1>2, <2>3, <2>4 DEF CallerState
  <2> HIDE DEF r
  <2> QED BY <1>1, <1>2, <2>1, <2>2, <2>4, <2>5, <2>6, PreviewMoves
<1>8. CASE Sandbox!Commit(p)
  <2> DEFINE r == [caller[p] EXCEPT !.pc = "prepared"]
  <2>1. caller[p].pc = "commit" /\ caller[p].row = "queued" /\ ~ caller[p].mid
    BY <1>2, <1>8, WritesAt DEF Sandbox!Commit, Sandbox!At, Sandbox!InTransaction, Sandbox!Outside
  <2>2. r \in CallerState /\ r.pc = "prepared" /\ r.mid = caller[p].mid
    BY <1>2 DEF CallerState, Sandbox!Steps, Sandbox!Outside
  <2>3. caller' = [caller EXCEPT ![p] = r] /\ status' = "queued"
        /\ UNCHANGED <<code, host, output, jobManifest, container, runners, approved>>
    BY <1>8, <2>1 DEF Sandbox!Commit, Sandbox!Goto, Sandbox!artifacts
  <2> HIDE DEF r
  <2> QED BY <1>1, <1>2, <2>1, <2>2, <2>3, PreviewMoves
<1>9. CASE Sandbox!RollBack(p)
  <2> DEFINE r == Sandbox!Idle("lost")
  <2>1. r \in CallerState /\ r.pc = "lost" /\ ~ r.mid
    BY IdleState DEF Sandbox!Steps, Sandbox!Outside
  <2>2. caller' = [caller EXCEPT ![p] = r] /\ UNCHANGED <<status, code, output, jobManifest, container, runners, approved>>
    BY <1>1, <1>9 DEF Sandbox!RollBack, Sandbox!At
  <2>3. host' \in [Sandbox!Files -> Nat]
    BY <1>1, <1>2, <1>9, WrittenIs DEF Sandbox!RollBack
  <2> HIDE DEF r
  <2> QED BY <1>1, <1>2, <2>1, <2>2, <2>3, PreviewMoves
<1> QED BY <1>5, <1>6, <1>7, <1>8, <1>9

\* An approval is added; what has been approved stays approved.
LEMMA ApproveKeeps ==
  ASSUME Sets, SandboxInv, NEW t \in Turns, Sandbox!Approve(t)
  PROVE  SandboxInv'
<1>1. approved \subseteq approved' /\ approved' \subseteq Turns
      /\ UNCHANGED <<status, code, host, output, jobManifest, container, runners, caller>>
  BY DEF Sandbox!Approve, Sandbox!artifacts, SandboxInv, Sandbox!TypeOK
<1>2. Sandbox!TypeOK'
  BY <1>1 DEF SandboxInv, Sandbox!TypeOK
<1>3. Preparing' /\ OneAtWork' /\ OneAnswered' /\ WritersHide' /\ Contained' /\ Sandbox!ManifestDescribesFiles' /\ Sandbox!SuccessIsBacked'
  BY <1>1 DEF SandboxInv, Preparing, OneAtWork, OneAnswered, WritersHide, Contained,
     Sandbox!ManifestDescribesFiles, Sandbox!SuccessIsBacked, Sandbox!At, Sandbox!InTransaction
<1>4. ASSUME NEW c \in Executors PROVE ExecutorPlaced(c)'
  <2>1. ExecutorPlaced(c)
    BY DEF SandboxInv
  <2>2. Succeeding(c) => Succeeding(c)'
    BY <1>1 DEF Succeeding, Sandbox!Guarded
  <2>3. Working(c) => Working(c)'
    BY <1>1, <2>2 DEF Working, Sandbox!Guarded
  <2> QED BY <1>1, <2>1, <2>3 DEF ExecutorPlaced, Sandbox!At, Sandbox!InTransaction
<1> QED BY <1>2, <1>3, <1>4 DEF SandboxInv

\* The container writes, or ends; a run that has succeeded is over before.
LEMMA ContainerKeeps ==
  ASSUME Sets, SandboxInv, container \in {"running", "stray"}, Sandbox!ContainerWrites \/ Sandbox!ContainerExits
  PROVE  SandboxInv'
<1>1. UNCHANGED <<status, code, host, jobManifest, runners, approved, caller>>
  BY DEF Sandbox!ContainerWrites, Sandbox!ContainerExits, Sandbox!artifacts
<1>2. /\ output' \in {Sandbox!Absent, Sandbox!Good, Sandbox!Bad}
      /\ container' \in {"running", "stray", "exited", "lost"}
      /\ container = "stray" => container' \in {"stray", "lost"}
      /\ container' = "running" => container = "running"
  BY DEF Sandbox!ContainerWrites, Sandbox!ContainerExits, Sandbox!artifacts, SandboxInv, Sandbox!TypeOK
<1>3. Sandbox!TypeOK'
  BY <1>1, <1>2 DEF SandboxInv, Sandbox!TypeOK
<1>4. container = "running" => jobManifest = Sandbox!NoManifest
  <2>1. ASSUME NEW c \in Executors, Sandbox!At(c, "wait") PROVE jobManifest = Sandbox!NoManifest
    BY <2>1 DEF SandboxInv, ExecutorPlaced, Working, Claimed, Sandbox!At
  <2> QED BY <2>1 DEF SandboxInv, Contained
<1>5. Preparing'
  <2>1. container # "none"
    OBVIOUS
  <2> QED BY <1>1, <2>1 DEF SandboxInv, Preparing, Sandbox!At, Sandbox!InTransaction
<1>6. OneAtWork' /\ OneAnswered' /\ WritersHide'
  BY <1>1 DEF SandboxInv, OneAtWork, OneAnswered, WritersHide, Sandbox!At, Sandbox!InTransaction
<1>7. Contained'
  BY <1>1, <1>2 DEF SandboxInv, Contained, Sandbox!At
<1>8. Sandbox!ManifestDescribesFiles'
  BY <1>1, <1>2, <1>4 DEF SandboxInv, Sandbox!ManifestDescribesFiles
<1>9. Sandbox!SuccessIsBacked'
  BY <1>1 DEF SandboxInv, Sandbox!SuccessIsBacked
<1>10. ASSUME NEW c \in Executors PROVE ExecutorPlaced(c)'
  <2>1. ExecutorPlaced(c) /\ ~ Succeeding(c)
    BY DEF SandboxInv, Succeeding
  <2>2. Working(c) => Working(c)'
    BY <1>1, <2>1 DEF Working, Sandbox!Guarded
  <2> QED BY <1>1, <2>1, <2>2 DEF ExecutorPlaced, Sandbox!At, Sandbox!InTransaction
<1> QED BY <1>3, <1>5, <1>6, <1>7, <1>8, <1>9, <1>10 DEF SandboxInv

\* Every step keeps the invariant.
LEMMA SandboxStep == Sets /\ SandboxInv /\ [Sandbox!Next]_Sandbox!vars => SandboxInv'
<1> SUFFICES ASSUME Sets, SandboxInv, [Sandbox!Next]_Sandbox!vars PROVE SandboxInv'
  OBVIOUS
<1>1. CASE Sandbox!CreateJob
  BY <1>1, PreviewKeeps
<1>2. CASE \E t \in Turns : Sandbox!Approve(t)
  BY <1>2, ApproveKeeps
<1>3. ASSUME NEW c \in Executors, Sandbox!LoadJob(c) PROVE SandboxInv'
  BY <1>3, LoadJobKeeps
<1>4. ASSUME NEW c \in Executors, Sandbox!RollBack(c) PROVE SandboxInv'
  BY <1>4, RollBackKeeps
<1>5. ASSUME NEW c \in Executors, Sandbox!Proceed(c) PROVE SandboxInv'
  <2>1. CASE Sandbox!RequireApproval(c) \/ Sandbox!ClaimForValidation(c)
    BY <2>1, ClaimKeeps
  <2>2. CASE Sandbox!InvalidateManifest(c)
    BY <2>2, InvalidateKeeps
  <2>3. CASE Sandbox!WriteFile(c)
    BY <2>3, WriteFileKeeps
  <2>4. CASE Sandbox!SealManifest(c)
    BY <2>4, SealManifestKeeps
  <2>5. CASE Sandbox!RejectCode(c)
    BY <2>5, RejectCodeKeeps
  <2>6. CASE Sandbox!StartContainer(c)
    BY <2>6, StartContainerKeeps
  <2>7. CASE Sandbox!NameIsTaken(c) \/ Sandbox!RefuseRun(c)
    BY <2>7, RefuseRunKeeps
  <2>8. CASE Sandbox!RunReturns(c)
    BY <2>8, RunReturnsKeeps
  <2>9. CASE Sandbox!RunTimesOut(c)
    BY <2>9, RunTimesOutKeeps
  <2>10. CASE Sandbox!Validate(c)
    BY <2>10, ValidateKeeps
  <2>11. CASE Sandbox!PersistenceFails(c)
    BY <2>11, PersistenceFailsKeeps
  <2>12. CASE Sandbox!MarkTerminal(c)
    BY <2>12, MarkTerminalKeeps
  <2>13. CASE Sandbox!Commit(c)
    BY <2>13, CommitKeeps
  <2> QED BY <1>5, <2>1, <2>2, <2>3, <2>4, <2>5, <2>6, <2>7, <2>8, <2>9, <2>10, <2>11, <2>12, <2>13
             DEF Sandbox!Proceed
<1>6. CASE Sandbox!LoadJob(Preparer) \/ Sandbox!Proceed(Preparer) \/ Sandbox!RollBack(Preparer)
  <2>1. caller[Preparer].pc \in {"create", "newRequest", "created", "commit", "prepared", "lost"}
    BY DEF SandboxInv, Preparing
  <2>2. ~ Sandbox!LoadJob(Preparer) /\ ~ Sandbox!RequireApproval(Preparer) /\ ~ Sandbox!ClaimForValidation(Preparer)
        /\ ~ Sandbox!SealManifest(Preparer) /\ ~ Sandbox!RejectCode(Preparer) /\ ~ Sandbox!StartContainer(Preparer)
        /\ ~ Sandbox!NameIsTaken(Preparer) /\ ~ Sandbox!RefuseRun(Preparer) /\ ~ Sandbox!RunReturns(Preparer) /\ ~ Sandbox!RunTimesOut(Preparer)
        /\ ~ Sandbox!Validate(Preparer) /\ ~ Sandbox!PersistenceFails(Preparer) /\ ~ Sandbox!MarkTerminal(Preparer)
    BY <2>1 DEF Sandbox!LoadJob, Sandbox!RequireApproval, Sandbox!ClaimForValidation, Sandbox!SealManifest,
       Sandbox!RejectCode, Sandbox!StartContainer, Sandbox!NameIsTaken, Sandbox!RefuseRun, Sandbox!RunReturns,
       Sandbox!RunTimesOut, Sandbox!Validate, Sandbox!PersistenceFails, Sandbox!MarkTerminal, Sandbox!At
  <2>3. Sandbox!RollBack(Preparer) \/ Sandbox!InvalidateManifest(Preparer) \/ Sandbox!WriteFile(Preparer) \/ Sandbox!Commit(Preparer)
    BY <1>6, <2>2 DEF Sandbox!Proceed
  <2> QED BY <2>3, PreviewKeeps
<1>7. CASE Sandbox!ContainerWrites \/ (container \in {"running", "stray"} /\ Sandbox!ContainerExits)
  <2>1. container \in {"running", "stray"}
    BY <1>7 DEF Sandbox!ContainerWrites
  <2> QED BY <1>7, <2>1, ContainerKeeps
<1>8. CASE UNCHANGED Sandbox!vars
  <2>1. UNCHANGED <<status, code, host, output, jobManifest, container, runners, approved, caller>>
    BY <1>8 DEF Sandbox!vars
  <2>2. ASSUME NEW c \in Executors PROVE ExecutorPlaced(c)'
    <3>1. ExecutorPlaced(c)
      BY DEF SandboxInv
    <3>2. (Succeeding(c) => Succeeding(c)')
      BY <2>1 DEF Succeeding, Sandbox!Guarded
    <3>3. Working(c) => Working(c)'
      BY <2>1, <3>2 DEF Working, Sandbox!Guarded
    <3> QED BY <2>1, <3>1, <3>3 DEF ExecutorPlaced, Sandbox!At, Sandbox!InTransaction
  <2>3. Sandbox!TypeOK'
    BY <2>1 DEF SandboxInv, Sandbox!TypeOK
  <2>4. Preparing' /\ OneAtWork' /\ OneAnswered' /\ WritersHide'
    BY <2>1 DEF SandboxInv, Preparing, OneAtWork, OneAnswered, WritersHide, Sandbox!At, Sandbox!InTransaction
  <2>5. Contained' /\ Sandbox!ManifestDescribesFiles' /\ Sandbox!SuccessIsBacked'
    BY <2>1 DEF SandboxInv, Contained, Sandbox!ManifestDescribesFiles, Sandbox!SuccessIsBacked, Sandbox!At
  <2> QED BY <2>2, <2>3, <2>4, <2>5 DEF SandboxInv
<1> QED BY <1>1, <1>2, <1>3, <1>4, <1>5, <1>6, <1>7, <1>8 DEF Sandbox!Next, Sandbox!Callers

\* The sandbox is in its invariant for ever.
LEMMA SandboxInduction == Sets => (Sandbox!Spec => []SandboxInv)
<1> SUFFICES ASSUME Sets PROVE Sandbox!Spec => []SandboxInv
  OBVIOUS
<1>1. Sandbox!Init => SandboxInv
  BY SandboxInit
<1>2. SandboxInv /\ [Sandbox!Next]_Sandbox!vars => SandboxInv'
  BY SandboxStep
<1> QED BY <1>1, <1>2, PTL DEF Sandbox!Spec

-----------------------------------------------------------------------------
\* Two executions of a job start a container each only when the transaction of one
\* of them was lost, and an execution that has committed is the last: whatever
\* turns are replayed, and whoever dies or raises.
THEOREM OneRunPerJob == Sets => (Sandbox!Spec => []Sandbox!OneRunStands)
<1>1. SandboxInv => Sandbox!OneRunStands
  BY SandboxSafe
<1> QED BY <1>1, SandboxInduction, PTL

\* A container holds code the static guard allows, with its decision on disk, and
\* was asked for in an approved turn.
THEOREM OnlyCheckedCodeRuns == Sets => (Sandbox!Spec => []Sandbox!NothingRunsUnchecked)
<1>1. SandboxInv => Sandbox!NothingRunsUnchecked
  BY SandboxSafe
<1> QED BY <1>1, SandboxInduction, PTL

\* A manifest that can be read has the digests of the files, whoever was lost while
\* he was writing one and whatever a container he left behind goes on to do.
THEOREM ManifestIsTrue == Sets => (Sandbox!Spec => []Sandbox!ManifestDescribesFiles)
<1>1. SandboxInv => Sandbox!ManifestDescribesFiles
  BY SandboxSafe
<1> QED BY <1>1, SandboxInduction, PTL

\* "succeeded" is committed only with evidence, a valid output and a manifest that
\* lists both; the stages of a run are never seen from outside.
THEOREM SuccessHasEvidence == Sets => (Sandbox!Spec => []Sandbox!SuccessIsBacked)
<1>1. SandboxInv => Sandbox!SuccessIsBacked
  BY SandboxSafe
<1> QED BY <1>1, SandboxInduction, PTL

-----------------------------------------------------------------------------
(* All of them together.                                                    *)

\* Whichever part moves, each component takes one of its steps or stands still.
LEMMA PartsStep ==
  [PartsNext]_allVars =>
    /\ [Next]_vars
    /\ [Workspace!Next]_Workspace!vars
    /\ [Warehouse!Next]_Warehouse!vars
    /\ [Archive!Next]_Archive!vars
    /\ [Sandbox!Next]_Sandbox!vars
BY DEF PartsNext, allVars, EnsureMoves, WorkspaceMoves, WarehouseMoves, ArchiveMoves, SandboxMoves,
       Stay, workspaceVars, warehouseVars, archiveVars, sandboxVars,
       Workspace!vars, Warehouse!vars, Archive!vars, Sandbox!vars

\* Seen from one component, a behaviour of the parts is one of its own.
LEMMA PartsBehave ==
  PartsSpec => /\ Spec
               /\ Workspace!Init /\ [][Workspace!Next]_Workspace!vars
               /\ Archive!Init /\ [][Archive!Next]_Archive!vars
               /\ Warehouse!Init /\ [][Warehouse!Next]_Warehouse!vars
               /\ Sandbox!Spec
<1>1. PartsInit => Init /\ Workspace!Init /\ Warehouse!Init /\ Archive!Init /\ Sandbox!Init
  BY DEF PartsInit
<1> QED BY <1>1, PartsStep, PTL DEF PartsSpec, Spec, Sandbox!Spec

\* What the constants must satisfy for the proofs to apply.
LEMMA PartsBounded == Finite /\ Named /\ Bounded /\ Sets
BY LocksAssumption DEF Finite, Named, Bounded, Sets

\* The fresh holder of the data-ensure lock owns its file, whatever the other
\* components do.
THEOREM EnsureLockHolds == PartsSpec => []FreshHolderOwnsTheFile
BY PartsBehave, LockOwnership, PTL

\* The workspace lock: without an interruption it has one owner, and the file is
\* his.  The warehouse: nothing of a failed unit is committed, one writer at a
\* time, and a call leaves no context variable and no lock behind.
THEOREM LocksAreSafe == PartsSpec => []LocksInvariant
<1>1. PartsSpec => []FileInv
  <2>1. Workspace!Init => FileInv
    BY PartsBounded, WorkspaceInit
  <2>2. FileInv /\ [Workspace!Next]_Workspace!vars => FileInv'
    BY PartsBounded, WorkspaceStep
  <2> QED BY <2>1, <2>2, PartsBehave, PTL
<1>2. PartsSpec => [](/\ Warehouse!FailedUnitsLeaveNoTrace /\ Warehouse!OneWriterPerWarehouse
                      /\ Warehouse!NothingLeftBehind /\ Warehouse!TypeOK)
  BY PartsBounded, PartsBehave, AllOrNothing, SingleWriter, CallsEndClean, WarehouseTypes, PTL
     DEF Warehouse!Spec
<1>3. FileInv /\ Warehouse!FailedUnitsLeaveNoTrace /\ Warehouse!OneWriterPerWarehouse
      /\ Warehouse!NothingLeftBehind /\ Warehouse!TypeOK => LocksInvariant
  BY WorkspaceSafe DEF LocksInvariant
<1> QED BY <1>1, <1>2, <1>3, PTL

\* Archived events are in a file, each in one only, until a rotation is
\* interrupted; of the executions of a sandbox job one counts, its code is
\* checked, and the manifest and the committed status tell what the files say.
THEOREM FilesAreTrue == PartsSpec => []FilesInvariant
<1>1. PartsSpec => []ArchiveInv
  BY ArchiveInit, ArchiveStep, PartsBehave, PTL
<1>2. PartsSpec => []SandboxInv
  BY PartsBounded, PartsBehave, SandboxInduction, PTL
<1>3. ArchiveInv /\ SandboxInv => FilesInvariant
  BY ArchiveSafe, SandboxSafe DEF FilesInvariant
<1> QED BY <1>1, <1>2, <1>3, PTL

\* The caller of an outermost unit is told "ok" only when its writes are durable.
THEOREM OkIsDurable == PartsSpec => OkMeansCommitted
BY PartsBehave, PartsBounded, SuccessIsDurable, PTL DEF OkMeansCommitted, Warehouse!Spec
=============================================================================
