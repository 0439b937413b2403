-------------------------- MODULE MemoryRetrieval ---------------------------
(***************************************************************************)
(* What a card and a prompt are made of: the claims of an entity that      *)
(* symbol_memory/retrieval.py selects, as of a date, by priority and       *)
(* within token budgets. The table is filled by accept (MemoryClaims) with *)
(* facts of one predicate and authority, and with the user's notes. A      *)
(* retrieval loads its rows in one query and considers one after the       *)
(* other; what is written meanwhile does not reach it.                     *)
(***************************************************************************)
EXTENDS Integers, FiniteSets, Sequences

CONSTANTS
  Limit,        \* rows of list_entity_claims
  Budget,       \* tokens in all
  NoteBudget,   \* tokens of the section of the user's notes
  Sizes,        \* tokens of a claim
  MaxDay,       \* bounds of the model
  MaxClaims

Days == 1..MaxDay

VARIABLES
  claims,  \* in the order of created_at, which is that of observed_at
  today,
  answer   \* of one retrieval: as of which day, the rows left, those selected, tokens used

vars == <<claims, today, answer>>

Current == {i \in DOMAIN claims : claims[i].status \in {"ACTIVE", "CONFLICTED"}}

Nothing == [asOf |-> 0, left |-> {}, selected |-> {}, used |-> 0, notes |-> 0]

Init ==
  /\ claims = <<>>
  /\ today = 1
  /\ answer = Nothing

\* No retrieval is at work; the answer of the last one is history once the claims change.
Idle == answer.left = {}
Forget == Idle /\ answer' = Nothing

\* accept, for a value that no claim has: newer evidence supersedes, evidence for the
\* same date disputes.
Observe(note, date, size) ==
  LET Matching == {i \in DOMAIN claims : claims[i].status = "ACTIVE" /\ claims[i].note = note}
      Same == {i \in Matching : claims[i].date = date}
      Older == {i \in Matching : claims[i].date < date}
  IN  /\ date <= today
      /\ note => date = today
      /\ Len(claims) < MaxClaims
      /\ claims' = [i \in DOMAIN claims |->
                      IF i \in Older THEN [claims[i] EXCEPT !.status = "SUPERSEDED"]
                      ELSE IF i \in Same THEN [claims[i] EXCEPT !.status = "CONFLICTED"]
                      ELSE claims[i]]
                   \o <<[date |-> date, seen |-> today, size |-> size, note |-> note, pinned |-> FALSE,
                         status |-> IF Same = {} THEN "ACTIVE" ELSE "CONFLICTED"]>>
      /\ Forget
      /\ UNCHANGED today

\* set_claim_pinned
Pin(i) ==
  /\ claims' = [claims EXCEPT ![i].pinned = ~ @]
  /\ Forget
  /\ UNCHANGED today

NewDay ==
  /\ today < MaxDay
  /\ today' = today + 1
  /\ Forget
  /\ UNCHANGED claims

\* list_entity_claims: the first rows in the order of creation, of any status.
Rows == {i \in DOMAIN claims : i <= Limit}

\* retrieve_entity
Retrieve(asOf) ==
  /\ Idle
  /\ answer' = [Nothing EXCEPT !.asOf = asOf, !.left = Rows]
  /\ UNCHANGED <<claims, today>>

\* _priority: pinned, in conflict, of more authority, recent. The last key is an
\* identity: the order of creation stands for any.
Rank(i) == <<IF claims[i].pinned THEN 0 ELSE 1,
             IF claims[i].status = "CONFLICTED" THEN 0 ELSE 1,
             IF claims[i].note THEN 1 ELSE 0,
             MaxDay - claims[i].date,
             i>>

Before(i, j) ==
  \E n \in 1..5 : /\ Rank(i)[n] < Rank(j)[n]
                  /\ \A m \in 1..(n - 1) : Rank(i)[m] = Rank(j)[m]

IsNext(i) == i \in answer.left /\ \A j \in answer.left \ {i} : Before(i, j)

Eligible_ByDateOnly(i, asOf) == i \in Current /\ claims[i].date <= asOf

\* _ineligible_reason
Eligible(i, asOf) ==
  /\ i \in Current
  /\ claims[i].date <= asOf
  /\ claims[i].seen <= asOf

Fits_AllAsNotes(i) ==
  /\ answer.used + claims[i].size <= Budget
  /\ answer.used + claims[i].size <= NoteBudget

\* A claim that does not fit is omitted, and smaller ones after it are not.
Fits(i) ==
  /\ answer.used + claims[i].size <= Budget
  /\ claims[i].note => answer.notes + claims[i].size <= NoteBudget

Charge_OthersOnly(i) == IF claims[i].note THEN 0 ELSE claims[i].size

\* What a claim uses of the total.
Charge(i) == claims[i].size

Select(i) ==
  /\ IsNext(i)
  /\ Eligible(i, answer.asOf) /\ Fits(i)
  /\ answer' = [answer EXCEPT !.left = @ \ {i},
                              !.selected = @ \cup {i},
                              !.used = @ + Charge(i),
                              !.notes = @ + IF claims[i].note THEN claims[i].size ELSE 0]
  /\ UNCHANGED <<claims, today>>

Omit(i) ==
  /\ IsNext(i)
  /\ ~ (Eligible(i, answer.asOf) /\ Fits(i))
  /\ answer' = [answer EXCEPT !.left = @ \ {i}]
  /\ UNCHANGED <<claims, today>>

Next ==
  \/ \E note \in BOOLEAN, d \in Days, s \in Sizes : Observe(note, d, s)
  \/ \E i \in DOMAIN claims : Pin(i)
  \/ NewDay
  \/ \E asOf \in Days : Retrieve(asOf)
  \/ \E i \in answer.left : Select(i) \/ Omit(i)

Spec == Init /\ [][Next]_vars

-----------------------------------------------------------------------------
\* A claim is one of a type, and a retrieval considers rows it was given.
TypeOK ==
  /\ claims \in Seq([date : Days, seen : Days, size : Sizes, note : BOOLEAN, pinned : BOOLEAN,
                     status : {"ACTIVE", "CONFLICTED", "SUPERSEDED"}])
  /\ today \in Days
  /\ answer \in [asOf : 0..MaxDay, left : SUBSET Rows, selected : SUBSET Rows, used : Nat, notes : Nat]

\* The tokens of all claims of I, each claim with its own.
TokensOf(I) == UNION {{i} \X (1..claims[i].size) : i \in I}
Tokens(I) == Cardinality(TokensOf(I))

Notes(I) == {i \in I : claims[i].note}

\* "excludes later candidate scores, reports, corrections, and market context": what is
\* selected as of a day was known, about that day or an earlier one, by its end.
NoLookahead ==
  \A i \in answer.selected : claims[i].date <= answer.asOf /\ claims[i].seen <= answer.asOf

\* "default prompt construction remains within the configured token budget": however
\* claims of different sizes, sections and pins compete for it.
BudgetIsKept ==
  /\ Tokens(answer.selected) <= Budget
  /\ Tokens(Notes(answer.selected)) <= NoteBudget

\* "retrieve complete claims by priority": what is omitted does not fit beside the
\* selected claims that come before it.
OmittedDoNotFit ==
  \A i \in Rows \ (answer.left \cup answer.selected) :
    LET first == {j \in answer.selected : Before(j, i)}
    IN  Eligible(i, answer.asOf) =>
          \/ Tokens(first) + claims[i].size > Budget
          \/ claims[i].note /\ Tokens(Notes(first)) + claims[i].size > NoteBudget
=============================================================================
