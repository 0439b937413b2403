-------------------------- MODULE WorkspaceContext --------------------------
(***************************************************************************)
(* The workspaces of one root directory (workspace_context/): the state    *)
(* file and the archive of each, and the files they share: latest.json and *)
(* index.json.  The terminal interface and the command line are processes  *)
(* that call the operations; each file read or written is a step, and an   *)
(* operation is the sequence of steps that are left to do.                 *)
(*                                                                         *)
(* The lock of a workspace is taken as exclusive (WorkspaceLock tells when *)
(* it is not), and the lock of a process that died as removed.             *)
(***************************************************************************)
EXTENDS Integers, Sequences

CONSTANTS
  Procs,             \* terminal sessions and command lines
  Operations,        \* the operations they call in a run
  MaxWorkspaces,     \* bound of the model: workspaces of the root
  MaxInputs,         \* bound of the model: inputs recorded in all
  Limit,             \* WorkspaceLimits.max_inputs
  MaxInterruptions   \* bound of the model: crashes, damaged files and failing recoveries

VARIABLES
  dirs,         \* workspace directories
  state,        \* workspace.json of each
  archived,     \* the inputs in archive/inputs.jsonl of each
  latest,       \* latest.json
  index,        \* index.json
  broken,       \* those of the two shared files that do not parse
  lock,         \* the process that holds the lock of each workspace
  proc,         \* the operation each process runs
  inputs,       \* inputs given so far
  acked,        \* inputs whose recording was reported as done
  interruptions

files == <<dirs, state, archived, latest, index, broken>>
vars == <<files, lock, proc, inputs, acked, interruptions>>

Workspaces == 1..MaxWorkspaces
None == 0
NoFile == [status |-> "none", inputs |-> <<>>]
Malformed == [status |-> "malformed", inputs |-> <<>>]
Statuses == {"active", "archived", "temporary"}
Loads(w) == state[w].status \in Statuses
Idle == [op |-> "none", todo |-> <<>>, w |-> None, st |-> NoFile, idx |-> {}, item |-> None, left |-> {}]

Init ==
  /\ dirs \in {{}, {1}}
  /\ state = [w \in Workspaces |-> IF w \in dirs THEN [status |-> "active", inputs |-> <<>>] ELSE NoFile]
  /\ archived = [w \in Workspaces |-> {}]
  /\ latest = IF dirs = {} THEN None ELSE 1
  /\ index = dirs
  /\ broken = {}
  /\ lock = [w \in Workspaces |-> None]
  /\ proc = [p \in Procs |-> Idle]
  /\ inputs = 0
  /\ acked = {}
  /\ interruptions = 0

----------------------------------------------------------------------------
(* The operations as sequences of steps *)

SaveSteps_IndexFirst == <<"readIndex", "index", "state">>

SaveSteps == <<"state", "readIndex", "index">>   \* save_workspace_state

RecordSteps_LoadFirst == <<"loadInput", "lock", "retain">> \o SaveSteps \o <<"latest", "unlock">>

\* record_input; record_artifact, record_warning and the tasks have its form.
RecordSteps == <<"lock", "loadInput", "retain">> \o SaveSteps \o <<"latest", "unlock">>

CompactSteps == <<"lock", "loadCompact", "retain">> \o SaveSteps \o <<"unlock">>

\* archive_workspace, reactivate_workspace and resume_workspace load the state
\* before they take the lock.
ArchiveSteps == <<"loadArchive", "lock">> \o SaveSteps \o <<"clearOwn", "unlock">>
ReactivateSteps == <<"loadReactivate", "lock">> \o SaveSteps \o <<"latest", "unlock">>
ResumeSteps == <<"loadResume", "lock", "latest", "unlock">>

CreateSteps_LatestFirst == <<"layout", "lock", "latest">> \o SaveSteps \o <<"unlock">>

CreateSteps == <<"layout", "lock">> \o SaveSteps \o <<"latest", "unlock">>

Steps(o) ==
  CASE o = "record" -> RecordSteps
    [] o = "compact" -> CompactSteps
    [] o = "archive" -> ArchiveSteps
    [] o = "reactivate" -> ReactivateSteps
    [] o = "resume" -> ResumeSteps
    [] o = "create" -> CreateSteps
    [] o = "new" -> <<"readPrevious">>
    [] o = "recover" -> <<"mendLatest", "list">>

----------------------------------------------------------------------------
(* The steps *)

At(p, l) == proc[p].todo # <<>> /\ Head(proc[p].todo) = l

\* p goes on with its operation, or with the steps t in its place.
Done(p) == IF Len(proc[p].todo) = 1 THEN Idle ELSE [proc[p] EXCEPT !.todo = Tail(@)]
Continue(p) == proc' = [proc EXCEPT ![p] = Done(p)]
GoTo(p, t) == proc' = [proc EXCEPT ![p].todo = t]

Locking(p) == \E w \in Workspaces : lock[w] = p

Abort_KeepsLock(p) == proc' = [proc EXCEPT ![p] = Idle]

\* What follows an exception: recover_workspace goes on with a temporary workspace.
Rescue(p) == IF proc[p].op = "recover" THEN <<"temporary">> ELSE <<>>

\* An exception: the lock is released and nothing is reported as done.
Abort(p) ==
  proc' = [proc EXCEPT ![p] =
    LET t == (IF Locking(p) THEN <<"unlock">> ELSE <<>>) \o Rescue(p)
    IN  IF t = <<>> THEN Idle
        ELSE [@ EXCEPT !.op = IF proc[p].op = "recover" THEN "fallback" ELSE proc[p].op,
                       !.todo = t, !.item = None]]

\* The operation, on a workspace the caller knows: a session goes on using the
\* state it was given whatever became of the workspace since.
Call(p, o, w) ==
  /\ proc[p] = Idle
  /\ o = "record" => inputs < MaxInputs
  /\ inputs' = IF o = "record" THEN inputs + 1 ELSE inputs
  /\ proc' = [proc EXCEPT ![p] =
       [Idle EXCEPT !.op = o, !.todo = Steps(o), !.w = w, !.item = IF o = "record" THEN inputs' ELSE None]]
  /\ UNCHANGED <<files, lock, acked, interruptions>>

\* workspace_transaction, or contention until the deadline.
TakeLock(p) ==
  /\ At(p, "lock")
  /\ IF lock[proc[p].w] = None
     THEN Continue(p) /\ lock' = [lock EXCEPT ![proc[p].w] = p]
     ELSE Abort(p) /\ UNCHANGED lock
  /\ UNCHANGED <<files, inputs, acked, interruptions>>

Loaded(p, st) == proc' = [proc EXCEPT ![p] = [Done(p) EXCEPT !.st = st]]

\* load_workspace_state, and what the operation makes of the state.
Load(p, l, required, st) ==
  /\ At(p, l)
  /\ IF state[proc[p].w].status \in required THEN Loaded(p, st) ELSE Abort(p)
  /\ UNCHANGED <<files, lock, inputs, acked, interruptions>>

Current(p) == state[proc[p].w]

LoadForInput(p) ==
  Load(p, "loadInput", Statuses,
       [Current(p) EXCEPT !.inputs = Append(@, proc[p].item)])
LoadForCompaction(p) == Load(p, "loadCompact", Statuses, Current(p))
LoadToArchive(p) == Load(p, "loadArchive", {"active"}, [Current(p) EXCEPT !.status = "archived"])
LoadToReactivate(p) == Load(p, "loadReactivate", {"archived"}, [Current(p) EXCEPT !.status = "active"])
LoadToResume(p) == Load(p, "loadResume", {"active"}, Current(p))

Elements(s) == {s[i] : i \in DOMAIN s}

\* The last Limit inputs stay, the others go to the archive.
Excess(s) == IF Len(s) > Limit THEN Len(s) - Limit ELSE 0

\* _trim_recent_inputs
Retain(p) ==
  /\ At(p, "retain")
  /\ LET s == proc[p].st.inputs  n == Excess(s)
     IN  /\ archived' = [archived EXCEPT ![proc[p].w] = @ \cup Elements(SubSeq(s, 1, n))]
         /\ proc' = [proc EXCEPT ![p] = [Done(p) EXCEPT !.st.inputs = SubSeq(s, n + 1, Len(s))]]
  /\ UNCHANGED <<dirs, state, latest, index, broken, lock, inputs, acked, interruptions>>

SaveState(p) ==
  /\ At(p, "state")
  /\ state' = [state EXCEPT ![proc[p].w] = proc[p].st]
  /\ proc' = [proc EXCEPT ![p] = [Done(p) EXCEPT !.st = NoFile]]
  /\ UNCHANGED <<dirs, archived, latest, index, broken, lock, inputs, acked, interruptions>>

Indexed_Own(p) == {proc[p].w}

Indexed(p) == index \cup {proc[p].w}

\* An index that does not parse raises, after the state was saved.
ReadIndex(p) ==
  /\ At(p, "readIndex")
  /\ IF "index" \in broken THEN Abort(p)
     ELSE proc' = [proc EXCEPT ![p] = [Done(p) EXCEPT !.idx = Indexed(p)]]
  /\ UNCHANGED <<files, lock, inputs, acked, interruptions>>

WriteIndex(p) ==
  /\ At(p, "index")
  /\ index' = proc[p].idx
  /\ broken' = broken \ {"index"}
  /\ proc' = [proc EXCEPT ![p] = [Done(p) EXCEPT !.idx = {}]]
  /\ UNCHANGED <<dirs, state, archived, latest, lock, inputs, acked, interruptions>>

SaveLatest(p) ==
  /\ At(p, "latest")
  /\ latest' = proc[p].w
  /\ broken' = broken \ {"latest"}
  /\ Continue(p)
  /\ UNCHANGED <<dirs, state, archived, index, lock, inputs, acked, interruptions>>

\* archive_workspace and recover_workspace clear the pointer to their workspace; only the
\* former may find one that does not parse, and raises.
ClearOwn(p) ==
  /\ At(p, "clearOwn")
  /\ IF "latest" \in broken THEN Abort(p) ELSE Continue(p)
  /\ latest' = IF latest = proc[p].w THEN None ELSE latest
  /\ UNCHANGED <<dirs, state, archived, index, broken, lock, inputs, acked, interruptions>>

\* The end of the transaction; what was recorded is reported as done.
Unlock(p) ==
  /\ At(p, "unlock")
  /\ lock' = [lock EXCEPT ![proc[p].w] = None]
  /\ acked' = IF proc[p].item = None THEN acked ELSE acked \cup {<<proc[p].w, proc[p].item>>}
  /\ proc' = [proc EXCEPT ![p] = [Done(p) EXCEPT !.item = None]]
  /\ UNCHANGED <<files, inputs, interruptions>>

\* create_workspace: a new identifier and its directories.
Layout(p) ==
  /\ At(p, "layout")
  /\ \E w \in Workspaces \ dirs :
       /\ dirs' = dirs \cup {w}
       /\ proc' = [proc EXCEPT ![p] = [Done(p) EXCEPT !.w = w, !.st = [status |-> "active", inputs |-> <<>>]]]
  /\ UNCHANGED <<state, archived, latest, index, broken, lock, inputs, acked, interruptions>>

\* new_workspace, with or without compaction of the one before; latest.json must parse.
ReadPrevious(p) ==
  /\ At(p, "readPrevious")
  /\ \/ "latest" \in broken /\ Abort(p)
     \/ /\ "latest" \notin broken
        /\ \E c \in {<<>>, CompactSteps} :
             proc' = [proc EXCEPT ![p] = [@ EXCEPT !.w = latest,
                        !.todo = IF latest = None THEN CreateSteps ELSE c \o ArchiveSteps \o CreateSteps]]
  /\ UNCHANGED <<files, lock, inputs, acked, interruptions>>

\* get_or_create_latest_workspace; a pointer that does not parse is quarantined here, too.
ReadLatest(p) ==
  /\ At(p, "readLatest")
  /\ broken' = broken \ {"latest"}
  /\ proc' = [proc EXCEPT ![p] = [@ EXCEPT !.w = latest,
                !.todo = IF latest = None THEN <<"select">> ELSE <<"loadLatest">>]]
  /\ UNCHANGED <<dirs, state, archived, latest, index, lock, inputs, acked, interruptions>>

Usable_AnyStatus(w) == Loads(w)

\* The pointer is followed to an active workspace only.
Usable(w) == state[w].status = "active"

LoadLatest(p) ==
  /\ At(p, "loadLatest")
  /\ IF Usable(proc[p].w) THEN proc' = [proc EXCEPT ![p] = Idle]
                                     ELSE GoTo(p, <<"clear", "select">>)
  /\ UNCHANGED <<files, lock, inputs, acked, interruptions>>

ClearLatest(p) ==
  /\ At(p, "clear")
  /\ latest' = None
  /\ broken' = broken \ {"latest"}
  /\ Continue(p)
  /\ UNCHANGED <<dirs, state, archived, index, lock, inputs, acked, interruptions>>

\* Any active workspace stands for the one updated last.
Select(p) ==
  /\ At(p, "select")
  /\ LET active == {w \in Workspaces : state[w].status = "active"}
     IN  IF active = {} THEN GoTo(p, CreateSteps)
         ELSE \E w \in active : proc' = [proc EXCEPT ![p] = [@ EXCEPT !.w = w, !.todo = <<"latest">>]]
  /\ UNCHANGED <<files, lock, inputs, acked, interruptions>>

\* _quarantine_invalid_latest
MendLatest(p) ==
  /\ At(p, "mendLatest")
  /\ broken' = broken \ {"latest"}
  /\ Continue(p)
  /\ UNCHANGED <<dirs, state, archived, latest, index, lock, inputs, acked, interruptions>>

\* recover_workspace: the directories, then each of them in order.
ListDirectories(p) ==
  /\ At(p, "list")
  /\ proc' = [proc EXCEPT ![p] = [@ EXCEPT !.left = dirs, !.todo = <<"probe">>]]
  /\ UNCHANGED <<files, lock, inputs, acked, interruptions>>

Probe(p) ==
  /\ At(p, "probe")
  /\ \/ proc[p].left = {} /\ GoTo(p, <<"readLatest">>)
     \/ \E w \in proc[p].left :
          /\ \A v \in proc[p].left : w <= v
          /\ proc' = [proc EXCEPT ![p] = [@ EXCEPT !.w = w, !.left = proc[p].left \ {w},
                       !.todo = IF Loads(w) THEN proc[p].todo ELSE <<"quarantine", "clearOwn", "probe">>]]
  /\ UNCHANGED <<files, lock, inputs, acked, interruptions>>

\* _quarantine_file moves what is there now.
Quarantine(p) ==
  /\ At(p, "quarantine")
  /\ state' = [state EXCEPT ![proc[p].w] = NoFile]
  /\ Continue(p)
  /\ UNCHANGED <<dirs, archived, latest, index, broken, lock, inputs, acked, interruptions>>

\* _temporary_workspace: in the same root; what it raises but an OSError escapes.
Temporary(p) ==
  /\ At(p, "temporary")
  /\ \E w \in Workspaces \ dirs :
       /\ dirs' = dirs \cup {w}
       /\ proc' = [proc EXCEPT ![p] = [@ EXCEPT !.w = w, !.st = [status |-> "temporary", inputs |-> <<>>],
                                                !.todo = SaveSteps]]
  /\ UNCHANGED <<state, archived, latest, index, broken, lock, inputs, acked, interruptions>>

----------------------------------------------------------------------------

Crash(p) ==
  /\ proc[p] # Idle
  /\ interruptions < MaxInterruptions
  /\ interruptions' = interruptions + 1
  /\ proc' = [proc EXCEPT ![p] = Idle]
  /\ lock' = [w \in Workspaces |-> IF lock[w] = p THEN None ELSE lock[w]]
  /\ UNCHANGED <<files, inputs, acked>>

\* The steps of recover_workspace whose failure makes it go on with a temporary workspace.
Sheltered == {"readLatest", "loadLatest", "clear", "select", "layout", "lock", "state", "readIndex", "index",
              "latest", "unlock"}

\* A file that cannot be read or written ends the search for a workspace, and a temporary
\* one is then made in the root or, when that fails too, outside of it.
RecoveryFails(p) ==
  /\ interruptions < MaxInterruptions
  /\ interruptions' = interruptions + 1
  /\ \/ proc[p].op = "recover" /\ proc[p].todo # <<>> /\ Head(proc[p].todo) \in Sheltered
     \/ proc[p].op = "fallback" /\ ~ Locking(p)
  /\ Abort(p)
  /\ UNCHANGED <<files, lock, inputs, acked>>

\* A workspace.json, latest.json or index.json damaged from outside, while no operation
\* is under way.
Damage ==
  /\ "recover" \in Operations
  /\ \A p \in Procs : proc[p] = Idle
  /\ interruptions < MaxInterruptions
  /\ interruptions' = interruptions + 1
  /\ \/ /\ \E w \in Workspaces : Loads(w) /\ state' = [state EXCEPT ![w] = Malformed]
        /\ UNCHANGED <<latest, index, broken>>
     \/ /\ latest # None
        /\ latest' = None /\ broken' = broken \cup {"latest"}
        /\ UNCHANGED <<state, index>>
     \/ /\ index # {}
        /\ index' = {} /\ broken' = broken \cup {"index"}
        /\ UNCHANGED <<state, latest>>
  /\ UNCHANGED <<dirs, archived, lock, proc, inputs, acked>>

\* The bound of the model: no identifier is left, the call is not made.
NoWorkspaceLeft(p) ==
  /\ At(p, "layout") \/ At(p, "temporary")
  /\ dirs = Workspaces
  /\ proc' = [proc EXCEPT ![p] = Idle]
  /\ UNCHANGED <<files, lock, inputs, acked, interruptions>>

Step(p) ==
  \/ TakeLock(p) \/ Retain(p) \/ SaveState(p) \/ ReadIndex(p) \/ WriteIndex(p)
  \/ SaveLatest(p) \/ ClearOwn(p) \/ Unlock(p)
  \/ LoadForInput(p) \/ LoadForCompaction(p) \/ LoadToArchive(p)
  \/ LoadToReactivate(p) \/ LoadToResume(p)
  \/ Layout(p) \/ ReadPrevious(p) \/ ReadLatest(p) \/ LoadLatest(p) \/ ClearLatest(p)
  \/ Select(p) \/ MendLatest(p) \/ ListDirectories(p) \/ Probe(p) \/ Quarantine(p) \/ Temporary(p)
  \/ NoWorkspaceLeft(p)

Next ==
  \/ \E p \in Procs, o \in Operations, w \in dirs : Call(p, o, w)
  \/ \E p \in Procs, o \in Operations \cap {"create", "new", "recover"} : Call(p, o, None)
  \/ \E p \in Procs : Step(p) \/ Crash(p) \/ RecoveryFails(p)
  \/ Damage

Spec == Init /\ [][Next]_vars

----------------------------------------------------------------------------
(* Properties *)

Kept(w) == Elements(state[w].inputs) \cup archived[w]

\* Files hold values of their kind; a workspace is locked by a process that works
\* on it, and a workspace.json is found in a directory only.
TypeOK ==
  /\ dirs \subseteq Workspaces /\ index \subseteq Workspaces
  /\ latest \in Workspaces \cup {None} /\ broken \subseteq {"latest", "index"}
  /\ \A w \in Workspaces :
       /\ state[w].status \in {"none", "malformed"} \cup Statuses
       /\ state[w] # NoFile => w \in dirs
       /\ lock[w] # None => lock[w] \in Procs /\ proc[lock[w]].w = w
       /\ archived[w] \subseteq 1..inputs

\* "Every successful mutation SHALL be present in final state": an input whose
\* recording was reported is in the workspace or in its archive, over concurrent
\* recordings, compactions and crashes between any two writes.
AcknowledgedInputsAreKept == \A a \in acked : a[2] \in Kept(a[1])

\* Only reactivate_workspace makes an archived workspace active: no operation
\* that read an older state writes it back.
ArchiveKept(w) ==
  state[w].status = "archived" /\ state'[w].status = "active" =>
    \E p \in Procs : proc[p].op = "reactivate" /\ proc[p].w = w /\ At(p, "state")

\* A start of the terminal interface ends with an active workspace that latest.json names,
\* whatever crashed operations and damage left of workspace.json and latest.json. It gives
\* up its search only for an index that does not parse, and then leaves an active workspace
\* for the next start. (For one process: a session that works on may archive or damage it
\* again.)
EndsActive(p) ==
  proc[p].op = "recover" /\ proc'[p].op # "recover" /\ ~ NoWorkspaceLeft(p) /\ interruptions' = interruptions =>
    \/ proc'[p] = Idle /\ latest' # None /\ state'[latest'].status = "active"
    \/ /\ proc'[p].op = "fallback" /\ "index" \in broken
       /\ \E w \in Workspaces : state'[w].status = "active"

\* latest.json names a workspace whose state was saved, although processes die
\* between the two writes.
LatestWasSaved == latest # None => state[latest] # NoFile

\* "index.json lists known workspace ids": all of them, when no operation is
\* under way and none was interrupted (for one process: the index is written
\* under the lock of a single workspace).
IndexIsComplete ==
  (\A p \in Procs : proc[p] = Idle) /\ interruptions = 0 =>
    \A w \in Workspaces : state[w] # NoFile => w \in index

============================================================================
