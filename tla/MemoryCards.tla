---------------------------- MODULE MemoryCards -----------------------------
(***************************************************************************)
(* The Markdown card of a symbol beside the claims it renders              *)
(* (symbol_memory/compaction.py, maintenance.py, markdown.py, recovery.py, *)
(* locking.py). Claims and the record of the card are in the warehouse;    *)
(* the card and the symbol's lock are files, which no rollback reaches.    *)
(* A command updates or compacts one symbol, or maintains many, in the     *)
(* transaction that the coordinated executor opened around it, and the     *)
(* finalizer's memory stage (selective_projection.py) updates many in the  *)
(* transaction of the stage. The warehouse lock admits one unit at a time. *)
(***************************************************************************)
EXTENDS Integers, FiniteSets

CONSTANTS
  Symbols,
  Batches,       \* whether memory stages run
  MaxUpdates,    \* bounds of the model: versions of the claims of a symbol,
  MaxCards,      \* cards written,
  MaxLosses,     \* crashes and failures that come too late to be handled,
  MaxEdits       \* and external edits

VARIABLES
  committed,  \* what the warehouse holds of each symbol: claims, and the card it recorded
  working,    \* the same as the open transaction sees it
  card,       \* the file of each symbol
  lock,       \* the lock file of each symbol
  work,       \* the unit that runs, and the step it is at
  written, losses, edits

vars == <<committed, working, card, lock, work, written, losses, edits>>

NoCard == [id |-> 0, managed |-> 0, text |-> "none"]

\* document_hash identifies a written card; managed_hash identifies the claims it renders.
Cards == [id : 1..MaxCards, managed : 0..MaxUpdates, text : {"sound", "edited", "malformed"}] \cup {NoCard}

\* prev is the card found at the symbol, todo the symbols left, failed those the maintenance reports.
Idle == [unit |-> "none", symbol |-> "none", at |-> "idle", prev |-> NoCard, todo |-> {}, doomed |-> FALSE,
         failed |-> {}]

Init ==
  /\ committed = [s \in Symbols |-> [claims |-> 0, doc |-> NoCard]]
  /\ working = committed
  /\ card = [s \in Symbols |-> NoCard]
  /\ lock = [s \in Symbols |-> "free"]
  /\ work = Idle
  /\ written = 0 /\ losses = 0 /\ edits = 0

At(l) == work.at = l
Current == work.symbol

Commit == committed' = working /\ UNCHANGED working

\* A rollback leaves the files alone.
Rollback == working' = committed /\ UNCHANGED committed

\* The outer transaction begins. (The maintenance also takes a root lock, which keeps out
\* what the warehouse lock keeps out already.)
Begin(unit, todo) ==
  /\ work = Idle
  /\ work' = [Idle EXCEPT !.unit = unit, !.at = "next", !.todo = todo]
  /\ UNCHANGED <<committed, working, card, lock, written, losses, edits>>

\* The maintenance expires the due claims of a symbol before it compacts its card.
Pick(s) ==
  /\ At("next") /\ s \in work.todo
  /\ work' = [work EXCEPT !.at = "lock", !.symbol = s, !.todo = @ \ {s}]
  /\ \/ /\ work.unit = "maintain"
        /\ working[s].claims < MaxUpdates
        /\ working' = [working EXCEPT ![s].claims = @ + 1]
     \/ UNCHANGED working
  /\ UNCHANGED <<committed, card, lock, written, losses, edits>>

\* _acquire_lock, and the card that a failure will put back
TakeLock ==
  /\ At("lock")
  /\ lock[Current] # "left"
  /\ lock' = [lock EXCEPT ![Current] = "held"]
  /\ work' = [work EXCEPT !.at = "locked", !.prev = card[Current]]
  /\ UNCHANGED <<committed, working, card, written, losses, edits>>

\* MemoryLockContentionError is a RuntimeError: it ends the stage with its transaction. A
\* command that fails, the maintenance too, still commits what it did before.
Contention ==
  /\ At("lock")
  /\ lock[Current] = "left"
  /\ IF work.unit = "batch"
     THEN work' = Idle /\ Rollback
     ELSE /\ work' = [work EXCEPT !.at = "next", !.symbol = "none", !.todo = {},
                                  !.failed = @ \cup {Current} \cup work.todo]
          /\ UNCHANGED <<committed, working>>
  /\ UNCHANGED <<card, lock, written, losses, edits>>

\* The mutation; a projection may find nothing new, a compaction has none.
Mutate ==
  /\ At("locked")
  /\ \/ /\ work.unit \in {"update", "batch"}
        /\ working[Current].claims < MaxUpdates
        /\ working' = [working EXCEPT ![Current].claims = @ + 1]
     \/ work.unit # "update" /\ UNCHANGED working
  /\ work' = [work EXCEPT !.at = "compact"]
  /\ UNCHANGED <<committed, card, lock, written, losses, edits>>

\* preview.changed
Changed == \/ working[Current].doc = NoCard
           \/ working[Current].doc.managed # working[Current].claims

Readable_Unvalidated == TRUE

\* parse_symbol_card validates the hashes of the card it is about to replace.
Readable == card[Current].text \in {"none", "sound"}

\* _compact_unlocked, write_symbol_card
WriteCard ==
  /\ At("compact")
  /\ Readable
  /\ IF card[Current] = NoCard \/ Changed
     THEN /\ written < MaxCards
          /\ written' = written + 1
          /\ card' = [card EXCEPT ![Current] = [id |-> written + 1, managed |-> working[Current].claims,
                                                text |-> "sound"]]
          /\ work' = [work EXCEPT !.at = "record"]
     ELSE /\ work' = [work EXCEPT !.at = "return"]
          /\ UNCHANGED <<card, written>>
  /\ UNCHANGED <<committed, working, lock, losses, edits>>

\* upsert_document, of the card as it was written
Record ==
  /\ At("record")
  /\ working' = [working EXCEPT ![Current].doc = [card[Current] EXCEPT !.text = "sound"]]
  /\ work' = [work EXCEPT !.at = "return"]
  /\ UNCHANGED <<committed, card, lock, written, losses, edits>>

LockAfter_NoFinally == "held"

\* The lock is removed whatever happens.
LockAfter == "free"

\* The unit goes on after the symbol at hand.
Onward == [work EXCEPT !.at = "next", !.symbol = "none", !.prev = NoCard]

\* The end of mutate_and_compact, or of compact.
Return ==
  /\ At("return")
  /\ lock' = [lock EXCEPT ![Current] = LockAfter]
  /\ work' = Onward
  /\ UNCHANGED <<committed, working, card, written, losses, edits>>

Restored_OnlyExisting == IF work.prev = NoCard THEN card[Current] ELSE work.prev

\* The card that the exception handler puts back.
Restored == work.prev

\* mutate_and_compact has a transaction of its own, nested in the unit's.
Nested == work.unit \in {"update", "batch"} /\ ~At("lock")

\* A compaction without a mutation handles only what fails once it began to write.
Restores == Nested \/ At("record") \/ At("return")

Doomed_NestedOnly == work.doomed

\* A nested transaction that fails makes the outer one rollback-only.
Doomed == TRUE

Reported_Never == work.failed

\* run catches what fails for a symbol, and reports the symbol.
Reported == IF work.unit = "maintain" THEN work.failed \cup {Current} ELSE work.failed

\* An exception that a handler sees: an unusable card, an I/O error, an error of the database.
\* A compaction on its own puts the record of the card back too, and dooms nothing.
Fail ==
  /\ work.at \in {"lock", "locked", "compact", "record", "return"}
  /\ card' = IF Restores THEN [card EXCEPT ![Current] = Restored] ELSE card
  /\ lock' = IF At("lock") THEN lock ELSE [lock EXCEPT ![Current] = LockAfter]
  /\ work' = [Onward EXCEPT !.doomed = IF Nested THEN Doomed ELSE @, !.failed = Reported]
  /\ working' = IF Nested THEN working ELSE [working EXCEPT ![Current].doc = committed[Current].doc]
  /\ UNCHANGED <<committed, written, losses, edits>>

\* The outer transaction ends, whether the command completed or failed.
EndUnit ==
  /\ At("next") /\ work.todo = {}
  /\ work' = Idle
  /\ IF work.doomed THEN Rollback ELSE Commit
  /\ UNCHANGED <<card, lock, written, losses, edits>>

\* What fails after the handlers of the cards (the row of the session, the COMMIT, or a
\* statement in a transaction that an earlier error aborted) rolls back, and no card.
LateFail ==
  /\ losses < MaxLosses
  /\ At("next")
  /\ losses' = losses + 1
  /\ work' = Idle
  /\ Rollback
  /\ UNCHANGED <<card, lock, written, edits>>

Crash ==
  /\ losses < MaxLosses
  /\ work # Idle
  /\ losses' = losses + 1
  /\ lock' = [s \in Symbols |-> IF lock[s] = "held" THEN "left" ELSE lock[s]]
  /\ work' = Idle
  /\ Rollback
  /\ UNCHANGED <<card, written, edits>>

\* _STALE_LOCK_SECONDS pass: the next caller removes the lock of the dead process, and takes it.
Age(s) ==
  /\ lock[s] = "left"
  /\ lock' = [lock EXCEPT ![s] = "free"]
  /\ UNCHANGED <<committed, working, card, work, written, losses, edits>>

\* A user saves the card from an editor.
Edit(s, t) ==
  /\ edits < MaxEdits
  /\ card[s] # NoCard
  /\ card' = [card EXCEPT ![s].text = t]
  /\ edits' = edits + 1
  /\ UNCHANGED <<committed, working, lock, work, written, losses>>

\* inspect_symbol_card: a card that cannot be parsed, or whose hashes are wrong and that
\* the warehouse does not know.
Quarantinable(s) ==
  \/ card[s].text = "malformed"
  \/ card[s].text = "edited" /\ committed[s].doc = NoCard

\* repair_symbol_card: another hash than the recorded one is reported, and left.
Repair(s) ==
  /\ work = Idle
  /\ \/ /\ Quarantinable(s)
        /\ card' = [card EXCEPT ![s] = NoCard]
        /\ UNCHANGED <<committed, working>>
     \/ /\ card[s].text = "sound"
        /\ committed[s].doc = NoCard
        /\ committed' = [committed EXCEPT ![s].doc = card[s]]
        /\ working' = committed'
        /\ UNCHANGED card
  /\ UNCHANGED <<lock, work, written, losses, edits>>

Next ==
  \/ \E u \in {"update", "compact"}, s \in Symbols : Begin(u, {s})
  \/ Begin("maintain", Symbols)
  \/ Batches /\ Begin("batch", Symbols)
  \/ \E s \in Symbols : Pick(s)
  \/ TakeLock
  \/ Contention
  \/ Mutate
  \/ WriteCard
  \/ Record
  \/ Return
  \/ Fail
  \/ EndUnit
  \/ LateFail
  \/ Crash
  \/ \E s \in Symbols : Age(s)
  \/ \E s \in Symbols, t \in {"edited", "malformed"} : Edit(s, t)
  \/ \E s \in Symbols : Repair(s)

Spec == Init /\ [][Next]_vars

-----------------------------------------------------------------------------
\* A card is in the hands of at most one unit, and only that one has a lock in use.
TypeOK ==
  /\ committed \in [Symbols -> [claims : 0..MaxUpdates, doc : Cards]]
  /\ working \in [Symbols -> [claims : 0..MaxUpdates, doc : Cards]]
  /\ card \in [Symbols -> Cards]
  /\ \A s \in Symbols : lock[s] = "held" <=> work.at \in {"locked", "compact", "record", "return"} /\ s = Current
  /\ work = Idle => working = committed

\* Claims and the recorded card are committed together: whatever fails, is restored or
\* dies, the warehouse never records a card of other claims than those it holds, except
\* one that repair adopted from the directory, and except for the claims a maintenance
\* expired of a symbol whose card it then failed to compact, and reports (or answers FAILED).
CommitsDocument(s) ==
  committed'[s].claims # committed[s].claims =>
    \/ committed'[s].doc.managed = committed'[s].claims
    \/ work.unit = "maintain" /\ s \in work.failed

DocumentIsCommitted == [][\A s \in Symbols : CommitsDocument(s)]_vars

\* The restored card, the restored record and the rolled back one belong together: failures
\* that their handlers see, at any step of any command, never leave a card that the
\* warehouse does not know. (A crash or a late failure may.)
FailureRestoresCard ==
  work = Idle => \A s \in Symbols : card[s].id = committed[s].doc.id

\* "does not silently overwrite user content": what a user saved before an update took up
\* the card leaves the directory only for the quarantine. (What is saved while the update
\* runs is lost if the update fails: its handler writes back the card that it had found.)
KeepsEdit(s) ==
  /\ card[s].text \in {"edited", "malformed"}
  /\ lock[s] = "held" => card[s] = work.prev
  => card'[s] \in {card[s], NoCard} \/ edits' # edits

EditIsKept == [][\A s \in Symbols : KeepsEdit(s)]_vars
=============================================================================
