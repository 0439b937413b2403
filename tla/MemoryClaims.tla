---------------------------- MODULE MemoryClaims ----------------------------
(***************************************************************************)
(* The claims of one entity, claim type and predicate of the symbol memory *)
(* (symbol_memory/lifecycle.py, ingestion.py). A claim's identity is its   *)
(* evidence (claim_id is a hash of it), so the table is a function from    *)
(* evidence to status. Each operation is one warehouse transaction.        *)
(***************************************************************************)
EXTENDS Integers, FiniteSets

CONSTANTS
  Sources,          \* sources of evidence
  Values,           \* values the sources give
  Dates,            \* effective dates (as_of_date)
  Authority,        \* claim_authority of a source, for this claim type
  UserNotes,        \* whether the claims are notes of the user, which nothing validates
  ExpiryDays,       \* days of validity of the claim type
  AsOfDates,        \* the dates that maintenance asks for; empty for a type that never expires
  Reasons,          \* reasons a user gives for a correction
  MaxEvents,        \* bounds of the model: evidence observed,
  MaxPublications   \* and changes of the persisted evidence

Evidence == [source : Sources, date : Dates, value : Values]

\* A source reference names the source and the date.
Refs == Sources \X Dates
Ref(e) == <<e.source, e.date>>

Absent == "absent"
Statuses == {"ACTIVE", "CONFLICTED", "SUPERSEDED", "EXPIRED", "REJECTED"}

VARIABLES
  persisted,     \* the evidence the warehouse holds for each reference
  publications,  \* times it was changed
  events,        \* evidence whose EVIDENCE_OBSERVED event is recorded
  status,        \* status of the claim of each evidence
  corrections    \* the recorded corrections: claim and reason

vars == <<persisted, publications, events, status, corrections>>

Init ==
  /\ persisted = [r \in Refs |-> Absent]
  /\ publications = 0
  /\ events = {}
  /\ status = [e \in Evidence |-> Absent]
  /\ corrections = {}

Active(st) == {e \in Evidence : st[e] = "ACTIVE"}

Auth(e) == Authority[e.source]

Outranked_Tie(x, e) ==
  /\ x.date <= e.date
  /\ Auth(e) >= Auth(x)

Outranked_AnyNewer(x, e) ==
  \/ x.date = e.date /\ Auth(e) > Auth(x)
  \/ x.date < e.date

\* x gives way to the new claim e ...
Outranked(x, e) ==
  \/ x.date = e.date /\ Auth(e) > Auth(x)
  \/ x.date < e.date /\ Auth(e) >= Auth(x)

\* ... or neither does ...
Disputed(x, e) == x.date = e.date /\ Auth(x) = Auth(e)

\* ... or e is not accepted as current. A claim that is older and has no more
\* authority than x is none of the three.
Outranks(x, e) == Auth(x) > Auth(e)

\* accept: the matches decide one after the other, and the last one that has a
\* verdict on e stands; they come in the order of their observation times.
Accepted(st, e) ==
  LET disputed == {x \in Active(st) : Disputed(x, e)}
      verdicts == (IF disputed # {} THEN {"CONFLICTED"} ELSE {})
                  \cup (IF \E x \in Active(st) : Outranks(x, e) THEN {"SUPERSEDED"} ELSE {})
  IN  {[x \in Evidence |->
          IF x = e THEN s
          ELSE IF x \in Active(st) /\ Outranked(x, e) THEN "SUPERSEDED"
          ELSE IF x \in disputed THEN "CONFLICTED"
          ELSE st[x]] : s \in IF verdicts = {} THEN {"ACTIVE"} ELSE verdicts}

\* _equivalent
HasEquivalent(st, e) == \E x \in Active(st) : x.date = e.date /\ x.value = e.value

New_Always(e) == TRUE

\* append_event returns False for an event that is there already.
New(e) == e \notin events /\ Cardinality(events \cup {e}) <= MaxEvents

\* ingest_evidence and remember, once e is validated; st is the table they find.
Take(st, e) ==
  /\ New(e)
  /\ events' = events \cup {e}
  /\ status' \in IF HasEquivalent(st, e) THEN {st} ELSE Accepted(st, e)

\* has_persisted_evidence
Validated(e) == UserNotes \/ persisted[Ref(e)] = e.value

Ingest(e) ==
  /\ Validated(e)
  /\ Take(status, e)
  /\ UNCHANGED <<persisted, publications, corrections>>

Unresolved_IncludesCorrected(e) ==
  {x \in Evidence : status[x] = "CONFLICTED" /\ x.date = e.date}

\* The other claims that still dispute the date of the corrected one.
Unresolved(e) ==
  {x \in Evidence : x # e /\ status[x] = "CONFLICTED" /\ x.date = e.date}

Known_Unchecked(e) == TRUE

\* get_claim
Known(e) == status[e] # Absent

\* correct: a second correction for the same reason raises, and nothing is kept.
Correct(e, r) ==
  /\ Known(e)
  /\ <<e, r>> \notin corrections
  /\ corrections' = corrections \cup {<<e, r>>}
  /\ status' = [x \in Evidence |->
                  IF x = e THEN "REJECTED"
                  ELSE IF Unresolved(e) = {x} THEN "ACTIVE"
                  ELSE status[x]]
  /\ UNCHANGED <<persisted, publications, events>>

\* expire_due_entity_claims
Expired(st, asOf) ==
  [e \in Evidence |-> IF e \in Active(st) /\ asOf \in AsOfDates /\ e.date + ExpiryDays < asOf
                      THEN "EXPIRED" ELSE st[e]]

\* invalidate_sources
Invalidated(st, refs) ==
  [e \in Evidence |-> IF e \in Active(st) /\ Ref(e) \in refs THEN "REJECTED" ELSE st[e]]

\* _invalid_source_refs
InvalidRefs == {Ref(e) : e \in {x \in Active(status) : persisted[Ref(x)] # x.value}}

\* Maintenance of the card.
Expire(asOf) ==
  /\ status' = Expired(status, asOf)
  /\ UNCHANGED <<persisted, publications, events, corrections>>

Swept(asOf) == Expired(Invalidated(status, InvalidRefs), asOf)

\* The evidence a projection finds, unless _semantically_current.
Offered(s, asOf, st) ==
  {e \in Evidence : /\ e.source = s /\ e.date = asOf /\ Validated(e)
                    /\ \A x \in Active(st) : x.value # e.value}

\* SelectiveSymbolMemoryProjector._project_symbol; a projection finds at most one
\* evidence for a predicate.
Project(s, asOf) ==
  /\ ~ UserNotes
  /\ LET st == Swept(asOf)
     IN  \/ \E e \in Offered(s, asOf, st) : Take(st, e)
         \/ /\ \A e \in Offered(s, asOf, st) : e \in events
            /\ status' = st
            /\ UNCHANGED events
  /\ UNCHANGED <<persisted, publications, corrections>>

\* The warehouse gets evidence, or replaces or loses what it had.
Publish(ref, v) ==
  /\ ~ UserNotes
  /\ publications < MaxPublications
  /\ v # persisted[ref]
  /\ persisted' = [persisted EXCEPT ![ref] = v]
  /\ publications' = publications + 1
  /\ UNCHANGED <<events, status, corrections>>

Next ==
  \/ \E e \in Evidence : Ingest(e)
  \/ \E e \in Evidence, r \in Reasons : Correct(e, r)
  \/ \E asOf \in AsOfDates : Expire(asOf)
  \/ \E s \in Sources, asOf \in Dates : Project(s, asOf)
  \/ \E ref \in Refs, v \in Values \cup {Absent} : Publish(ref, v)

Spec == Init /\ [][Next]_vars

-----------------------------------------------------------------------------
\* A claim exists only for recorded evidence, and only an existing one is corrected.
TypeOK ==
  /\ persisted \in [Refs -> Values \cup {Absent}]
  /\ publications \in Nat
  /\ events \subseteq Evidence
  /\ status \in [Evidence -> Statuses \cup {Absent}]
  /\ corrections \subseteq Evidence \X Reasons
  /\ \A e \in Evidence : status[e] # Absent => e \in events

\* Only evidence that is more authoritative, or newer and at least as
\* authoritative, takes a claim's place; it was accepted and is kept.
Better(b, e) == Auth(b) > Auth(e) \/ (b.date > e.date /\ Auth(b) >= Auth(e))

SupersededByBetter ==
  \A e \in Evidence : status[e] = "SUPERSEDED" =>
    \E b \in Evidence : status[b] # Absent /\ Better(b, e)

\* All sources of the claim type have one authority, as those that ingest_evidence
\* accepts for one claim type and predicate do.
OneAuthority == \A s, t \in Sources : Authority[s] = Authority[t]

\* accept marks both sides of a dispute and correct releases the last one: no claim
\* waits in a conflict that has no other side.
NoLoneConflict ==
  \A e \in Evidence : status[e] = "CONFLICTED" =>
    \E x \in Evidence : x # e /\ status[x] = "CONFLICTED" /\ x.date = e.date

\* "retain the original event and claim history": what left the active view for good
\* does not come back by the same claim, whatever is ingested or corrected later.
Final == {"SUPERSEDED", "EXPIRED", "REJECTED"}

HistoryStays ==
  /\ events \subseteq events'
  /\ \A e \in Evidence : status[e] \in Final => status'[e] \in Final
  /\ \A e \in Evidence : status[e] = "REJECTED" => status'[e] = "REJECTED"

HistoryIsFinal == [][HistoryStays]_vars
=============================================================================
