------------------------ MODULE WarehouseTransaction ------------------------
(***************************************************************************)
(* Writing the DuckDB warehouse: WarehouseWriteCoordinator.transaction      *)
(* (vnalpha/warehouse/write_coordinator.py) around warehouse_transaction    *)
(* (vnalpha/warehouse/transaction.py).                                      *)
(*                                                                         *)
(* Every mutation of a warehouse file goes through the coordinator: the     *)
(* outermost call of a thread waits for the flock of the file, opens the    *)
(* only writable connection and begins a transaction; a call made while     *)
(* one is open joins it.  Two context variables say which of the two a      *)
(* call is.  A unit is one such call with the writes of its body; a unit    *)
(* may fail, and the unit around it may catch the error and go on.          *)
(***************************************************************************)
EXTENDS Naturals, Sequences, FiniteSets

CONSTANTS Procs,      \* threads and processes that write a warehouse
          Paths,      \* the warehouse files
          MaxUnits,   \* bound: units ever started
          MaxDepth    \* bound: units open at once in one process

None == "none"
Units == 1..MaxUnits

VARIABLES
  lock,      \* lock[d]: the process that holds the flock of d
  conn,      \* conn[p]: the warehouse p has a writable connection to
  phase,     \* phase[p]: idle, waiting, body, closing, unlocking
  active,    \* active[p]: _ACTIVE_WRITE in p's context
  txn,       \* txn[p]: _ACTIVE_TRANSACTION: none, clean, rollback_only
  frames,    \* frames[p]: the open units, outermost first
  raising,   \* raising[p]: an exception is travelling outwards
  pending,   \* pending[p]: units whose writes are in p's open transaction
  db,        \* db[d]: units whose writes are committed
  wanted,    \* wanted[p]: the warehouse of p's outermost call
  failed,    \* history: units left by an exception
  started,   \* history: units ever started
  outcome    \* outcome[p]: what p's last outermost call told its caller

vars == <<lock, conn, phase, active, txn, frames, raising, pending, db,
          wanted, failed, started, outcome>>

TypeOK ==
  /\ lock \in [Paths -> Procs \cup {None}]
  /\ conn \in [Procs -> Paths \cup {None}]
  /\ phase \in [Procs -> {"idle", "waiting", "body", "closing", "unlocking"}]
  /\ active \in [Procs -> Paths \cup {None}]
  /\ txn \in [Procs -> {None, "clean", "rollback_only"}]
  /\ frames \in [Procs -> UNION {[1..n -> Units] : n \in 0..MaxDepth}]
  /\ raising \in [Procs -> BOOLEAN]
  /\ pending \in [Procs -> SUBSET Units]
  /\ db \in [Paths -> SUBSET Units]
  /\ wanted \in [Procs -> Paths \cup {None}]
  /\ failed \subseteq Units
  /\ started \in 0..MaxUnits
  /\ outcome \in [Procs -> {None, "ok", "error"}]
  /\ \A p \in Procs : phase[p] = "body" => /\ frames[p] # <<>>
                                           /\ txn[p] # None
                                           /\ active[p] = conn[p]

Init ==
  /\ lock = [d \in Paths |-> None]
  /\ conn = [p \in Procs |-> None]
  /\ phase = [p \in Procs |-> "idle"]
  /\ active = [p \in Procs |-> None]
  /\ txn = [p \in Procs |-> None]
  /\ frames = [p \in Procs |-> <<>>]
  /\ raising = [p \in Procs |-> FALSE]
  /\ pending = [p \in Procs |-> {}]
  /\ db = [d \in Paths |-> {}]
  /\ wanted = [p \in Procs |-> None]
  /\ failed = {}
  /\ started = 0
  /\ outcome = [p \in Procs |-> None]

-----------------------------------------------------------------------------
Depth(p) == Len(frames[p])
Innermost(p) == frames[p][Depth(p)]
Running(p) == phase[p] = "body" /\ ~raising[p]

\* The call of an outermost unit: no write is active in this context, so it
\* goes to wait for the flock of its own warehouse.
Call(p, d) ==
  /\ phase[p] = "idle"
  /\ active[p] = None
  /\ started < MaxUnits
  /\ phase' = [phase EXCEPT ![p] = "waiting"]
  /\ wanted' = [wanted EXCEPT ![p] = d]
  /\ outcome' = [outcome EXCEPT ![p] = None]
  /\ UNCHANGED <<lock, conn, active, txn, frames, raising, pending, db,
                 failed, started>>

\* The flock is granted and the file opened; BEGIN TRANSACTION; both context
\* variables are set and the body of the unit starts.
Acquire(p) ==
  LET d == wanted[p] IN
  /\ phase[p] = "waiting"
  /\ lock[d] = None
  /\ started < MaxUnits
  /\ lock' = [lock EXCEPT ![d] = p]
  /\ conn' = [conn EXCEPT ![p] = d]
  /\ active' = [active EXCEPT ![p] = d]
  /\ txn' = [txn EXCEPT ![p] = "clean"]
  /\ started' = started + 1
  /\ frames' = [frames EXCEPT ![p] = <<started'>>]
  /\ phase' = [phase EXCEPT ![p] = "body"]
  /\ UNCHANGED <<raising, pending, db, wanted, failed, outcome>>

\* The flock is granted but the file cannot be opened: the error goes to the
\* caller and the finally clause lets the lock go.
OpenFails(p) ==
  /\ phase[p] = "waiting"
  /\ lock[wanted[p]] = None
  /\ phase' = [phase EXCEPT ![p] = "idle"]
  /\ wanted' = [wanted EXCEPT ![p] = None]
  /\ outcome' = [outcome EXCEPT ![p] = "error"]
  /\ UNCHANGED <<lock, conn, active, txn, frames, raising, pending, db,
                 failed, started>>

\* A unit inside a unit, on the same warehouse: it joins the connection and
\* the transaction.
CallNested(p, d) ==
  /\ Running(p)
  /\ d = active[p]
  /\ started < MaxUnits
  /\ Depth(p) < MaxDepth
  /\ started' = started + 1
  /\ frames' = [frames EXCEPT ![p] = Append(@, started')]
  /\ UNCHANGED <<lock, conn, phase, active, txn, raising, pending, db,
                 wanted, failed, outcome>>

\* Mutant: the call waits for the other warehouse while it holds its own.
CallElsewhere_Waits(p, d) ==
  /\ Running(p)
  /\ d # active[p]
  /\ phase' = [phase EXCEPT ![p] = "waiting"]
  /\ wanted' = [wanted EXCEPT ![p] = d]
  /\ UNCHANGED <<lock, conn, active, txn, frames, raising, pending, db,
                 failed, started, outcome>>

\* A unit inside a unit, on another warehouse or with another connection, is
\* refused before it does anything: the error appears in the caller's body.
CallElsewhere(p, d) ==
  /\ Running(p)
  /\ d # active[p]
  /\ raising' = [raising EXCEPT ![p] = TRUE]
  /\ UNCHANGED <<lock, conn, phase, active, txn, frames, pending, db,
                 wanted, failed, started, outcome>>

\* The body of the innermost unit writes rows.
Write(p) ==
  /\ Running(p)
  /\ Innermost(p) \notin pending[p]
  /\ pending' = [pending EXCEPT ![p] = @ \cup {Innermost(p)}]
  /\ UNCHANGED <<lock, conn, phase, active, txn, frames, raising, db,
                 wanted, failed, started, outcome>>

\* The body of the innermost unit raises.
Raise(p) ==
  /\ Running(p)
  /\ raising' = [raising EXCEPT ![p] = TRUE]
  /\ UNCHANGED <<lock, conn, phase, active, txn, frames, pending, db,
                 wanted, failed, started, outcome>>

\* The body of the innermost unit catches what was raised in it and goes on.
Catch(p) ==
  /\ phase[p] = "body"
  /\ raising[p]
  /\ raising' = [raising EXCEPT ![p] = FALSE]
  /\ UNCHANGED <<lock, conn, phase, active, txn, frames, pending, db,
                 wanted, failed, started, outcome>>

\* Mutant: the nested unit clears the variable it did not set.
TxnAfterNested_Clears(p) == IF raising[p] THEN "rollback_only" ELSE None

\* What a nested unit leaves in _ACTIVE_TRANSACTION when its body ends.
TxnAfterNested(p) == IF raising[p] THEN "rollback_only" ELSE txn[p]

\* A nested unit ends; when an exception left it, the transaction can only be
\* rolled back from now on, and the exception goes on in the unit around it.
EndNested(p) ==
  /\ phase[p] = "body"
  /\ Depth(p) > 1
  /\ frames' = [frames EXCEPT ![p] = SubSeq(@, 1, Depth(p) - 1)]
  /\ txn' = [txn EXCEPT ![p] = TxnAfterNested(p)]
  /\ failed' = IF raising[p] THEN failed \cup {Innermost(p)} ELSE failed
  /\ UNCHANGED <<lock, conn, phase, active, raising, pending, db, wanted,
                 started, outcome>>

\* Mutant: the outermost unit looks at its own body only.
MayCommit_OwnBody(p) == ~raising[p]

\* The transaction may be committed: nothing raised, no nested unit failed.
MayCommit(p) == ~raising[p] /\ txn[p] # "rollback_only"

\* Mutant: a rollback-only transaction is rolled back without an error.
RolledBackOutcome_Swallowed(p) ==
  IF txn[p] = "rollback_only" THEN "ok" ELSE "error"

\* What the outermost call will tell its caller after a rollback.
RolledBackOutcome(p) == "error"

\* Mutant: _ACTIVE_WRITE is reset on the way of success only.
ContextAfter_OnlyOnSuccess(p) == IF MayCommit(p) THEN None ELSE active[p]

\* What _ACTIVE_WRITE holds after the outermost unit, however it ended.
ContextAfter(p) == None

\* The outermost unit ends.  COMMIT makes the pending writes durable; a
\* rollback-only transaction, an exception of the body or a COMMIT that
\* fails ends in ROLLBACK and an exception.  Both context variables are
\* reset; the connection is still open and the lock still held.
EndOutermost(p) ==
  /\ phase[p] = "body"
  /\ Depth(p) = 1
  /\ \/ /\ MayCommit(p)
        /\ db' = [db EXCEPT ![conn[p]] = @ \cup pending[p]]
        /\ outcome' = [outcome EXCEPT ![p] = "ok"]
        /\ UNCHANGED failed
     \/ /\ outcome' = [outcome EXCEPT ![p] = RolledBackOutcome(p)]
        /\ failed' = failed \cup {Innermost(p)}
        /\ UNCHANGED db
  /\ frames' = [frames EXCEPT ![p] = <<>>]
  /\ pending' = [pending EXCEPT ![p] = {}]
  /\ raising' = [raising EXCEPT ![p] = FALSE]
  /\ txn' = [txn EXCEPT ![p] = None]
  /\ active' = [active EXCEPT ![p] = ContextAfter(p)]
  /\ phase' = [phase EXCEPT ![p] = "closing"]
  /\ UNCHANGED <<lock, conn, wanted, started>>

\* connection.close(): an error here reaches the caller only when nothing
\* else failed, and reaches it although the writes are committed.
CloseConnection(p) ==
  /\ phase[p] = "closing"
  /\ conn' = [conn EXCEPT ![p] = None]
  /\ phase' = [phase EXCEPT ![p] = "unlocking"]
  /\ outcome' \in {outcome, [outcome EXCEPT ![p] = "error"]}
  /\ UNCHANGED <<lock, active, txn, frames, raising, pending, db, wanted,
                 failed, started>>

\* Mutant: the lock is let go whether or not the connection is closed.
Unlock_StillOpen(p) ==
  /\ phase[p] \in {"closing", "unlocking"}
  /\ lock' = [lock EXCEPT ![wanted[p]] = None]
  /\ phase' = [phase EXCEPT ![p] = "idle"]
  /\ wanted' = [wanted EXCEPT ![p] = None]
  /\ UNCHANGED <<conn, active, txn, frames, raising, pending, db, failed,
                 started, outcome>>

\* LOCK_UN and os.close in the outer finally clause; the caller has its
\* answer.
Unlock(p) ==
  /\ phase[p] = "unlocking"
  /\ lock' = [lock EXCEPT ![wanted[p]] = None]
  /\ phase' = [phase EXCEPT ![p] = "idle"]
  /\ wanted' = [wanted EXCEPT ![p] = None]
  /\ UNCHANGED <<conn, active, txn, frames, raising, pending, db, failed,
                 started, outcome>>

\* The process dies: the kernel drops its flock, DuckDB discards what was
\* not committed, and its context is gone.
Crash(p) ==
  /\ phase[p] # "idle"
  /\ lock' = [d \in Paths |-> IF lock[d] = p THEN None ELSE lock[d]]
  /\ conn' = [conn EXCEPT ![p] = None]
  /\ phase' = [phase EXCEPT ![p] = "idle"]
  /\ active' = [active EXCEPT ![p] = None]
  /\ txn' = [txn EXCEPT ![p] = None]
  /\ frames' = [frames EXCEPT ![p] = <<>>]
  /\ raising' = [raising EXCEPT ![p] = FALSE]
  /\ pending' = [pending EXCEPT ![p] = {}]
  /\ wanted' = [wanted EXCEPT ![p] = None]
  /\ outcome' = [outcome EXCEPT ![p] = None]
  /\ UNCHANGED <<db, failed, started>>

Body(p) ==
  \/ Write(p) \/ Raise(p) \/ Catch(p)
  \/ EndNested(p) \/ EndOutermost(p)
  \/ \E d \in Paths : CallNested(p, d) \/ CallElsewhere(p, d)

\* The state in which every unit of the bound is used up.
Spent ==
  /\ started = MaxUnits
  /\ \A p \in Procs : phase[p] \in {"idle", "waiting"}
  /\ UNCHANGED vars

Next ==
  \/ \E p \in Procs :
       \/ \E d \in Paths : Call(p, d)
       \/ Acquire(p) \/ OpenFails(p)
       \/ Body(p) \/ CloseConnection(p) \/ Unlock(p)
       \/ Crash(p)
  \/ Spent

Spec == Init /\ [][Next]_vars

-----------------------------------------------------------------------------
(* The bodies of the units end and the kernel does not starve a waiter; a   *)
(* body is free to write, raise and catch as it likes, so only its end is   *)
(* asked for.                                                               *)
Fairness ==
  \A p \in Procs :
    /\ WF_vars(EndNested(p))
    /\ WF_vars(EndOutermost(p))
    /\ WF_vars(CloseConnection(p))
    /\ WF_vars(Unlock(p))
    /\ SF_vars(Acquire(p) \/ OpenFails(p))

FairSpec == Spec /\ Fairness

-----------------------------------------------------------------------------
\* Nothing a failed unit wrote is ever committed, although the unit around it
\* may have caught the error and ended normally (rollback_only).
FailedUnitsLeaveNoTrace == \A d \in Paths : db[d] \cap failed = {}

\* DuckDB lets one process write a file: whoever gets the flock never finds
\* the connection of another writer still open.
OneWriterPerWarehouse ==
  \A p, q \in Procs : conn[p] # None /\ conn[p] = conn[q] => p = q

\* A call made with nothing open starts a transaction of its own: no earlier
\* call, however it ended, leaves a context variable set or a lock held.
NothingLeftBehind ==
  \A p \in Procs :
    phase[p] = "idle" => /\ active[p] = None
                         /\ txn[p] = None
                         /\ \A d \in Paths : lock[d] # p

\* The caller of an outermost unit is told "ok" only in the step that makes
\* everything its transaction wrote durable.
OkMeansCommitted ==
  [][\A p \in Procs :
       outcome[p] # "ok" /\ outcome'[p] = "ok"
         => pending[p] \subseteq db'[conn[p]]]_vars

\* Nobody waits for a warehouse for ever: a unit that holds one file and
\* asks for another is refused, so two writers cannot wait for each other.
EveryWaiterIsServed ==
  \A p \in Procs : phase[p] = "waiting" ~> phase[p] # "waiting"
=============================================================================
