------------------------------ MODULE MCMemory ------------------------------
(***************************************************************************)
(* Model-checking instance of the symbol memory: the claims of sources of  *)
(* one authority, of ranked sources and of the user's notes, the cards,    *)
(* and retrieval.  A behaviour belongs to one of them, its part.           *)
(***************************************************************************)
EXTENDS Integers, TLC

CONSTANTS s1, s2, user, a, b, c, fpt, hpg

VARIABLES
  part,
  persisted, publications, events, status, corrections,              \* MemoryClaims
  committed, working, card, lock, work, written, losses, edits,     \* MemoryCards
  claims, today, answer                                              \* MemoryRetrieval

claimVars == <<persisted, publications, events, status, corrections>>
cardVars == <<committed, working, card, lock, work, written, losses, edits>>
retrievalVars == <<claims, today, answer>>

\* Only a claim's part has values, and only a card's part has symbols.
Symmetry == Permutations({a, b, c}) \cup Permutations({fpt, hpg})

\* The claims of the sources, values and dates of m.
Claims(m) == INSTANCE MemoryClaims WITH
  Sources <- DOMAIN m.authority, Values <- m.values, Dates <- m.dates, Authority <- m.authority,
  UserNotes <- m.notes, ExpiryDays <- m.expiryDays, AsOfDates <- m.asOfDates, Reasons <- m.reasons,
  MaxEvents <- m.events, MaxPublications <- m.publications

\* Two sources that ingest_evidence accepts for one claim type and predicate.
EqualModel ==
  [authority |-> [s \in {s1, s2} |-> 70], values |-> {a, b, c}, dates |-> {1, 2}, notes |-> FALSE,
   expiryDays |-> 1, asOfDates |-> {2, 3}, reasons |-> {"wrong"}, events |-> 4, publications |-> 3]

RankedModel ==
  [authority |-> [s \in {s1, s2} |-> IF s = s1 THEN 70 ELSE 90],
   values |-> {a, b, c}, dates |-> {1, 2}, notes |-> FALSE,
   expiryDays |-> 1, asOfDates |-> {3}, reasons |-> {}, events |-> 4, publications |-> 4]

\* Notes never expire, and only a correction ends them.
NotesModel ==
  [authority |-> [s \in {user} |-> 90], values |-> {a, b, c}, dates |-> {1, 2}, notes |-> TRUE,
   expiryDays |-> 1, asOfDates |-> {}, reasons |-> {"wrong"}, events |-> 5, publications |-> 0]

\* The cards of the symbols of m.
Files(m) == INSTANCE MemoryCards WITH
  Symbols <- m.symbols, Batches <- m.batches, MaxUpdates <- m.updates, MaxCards <- m.cards,
  MaxLosses <- m.losses, MaxEdits <- m.edits

\* All that may happen to the cards of two symbols.
CardsModel ==
  [symbols |-> {fpt, hpg}, batches |-> TRUE, updates |-> 2, cards |-> 2, losses |-> 1, edits |-> 1]

\* The failures that the handlers see, alone.
FailuresModel ==
  [symbols |-> {fpt, hpg}, batches |-> FALSE, updates |-> 2, cards |-> 4, losses |-> 0, edits |-> 0]

\* Retrieval of the first rows within the budgets of m.
Retrieval(m) == INSTANCE MemoryRetrieval WITH
  Limit <- m.limit, Budget <- m.budget, NoteBudget <- m.noteBudget, Sizes <- m.sizes,
  MaxDay <- m.days, MaxClaims <- m.claims

RetrievalModel ==
  [limit |-> 3, budget |-> 3, noteBudget |-> 2, sizes |-> {1, 2}, days |-> 2, claims |-> 4]

PartsInit ==
  /\ part \in {"claims", "ranked", "notes", "cards", "failures", "retrieval"}
  /\ CASE part = "ranked" -> Claims(RankedModel)!Init
       [] part = "notes" -> Claims(NotesModel)!Init
       [] OTHER -> Claims(EqualModel)!Init
  /\ Files(CardsModel)!Init
  /\ Retrieval(RetrievalModel)!Init

Stay(others) == UNCHANGED <<part, others>>

ClaimsMove == part = "claims" /\ Claims(EqualModel)!Next /\ Stay(<<cardVars, retrievalVars>>)
RankedMove == part = "ranked" /\ Claims(RankedModel)!Next /\ Stay(<<cardVars, retrievalVars>>)
NotesMove == part = "notes" /\ Claims(NotesModel)!Next /\ Stay(<<cardVars, retrievalVars>>)
CardsMove == part = "cards" /\ Files(CardsModel)!Next /\ Stay(<<claimVars, retrievalVars>>)
FailuresMove == part = "failures" /\ Files(FailuresModel)!Next /\ Stay(<<claimVars, retrievalVars>>)
RetrievalMoves == part = "retrieval" /\ Retrieval(RetrievalModel)!Next /\ Stay(<<claimVars, cardVars>>)

PartsNext == ClaimsMove \/ RankedMove \/ NotesMove \/ CardsMove \/ FailuresMove \/ RetrievalMoves

PartsSpec == PartsInit /\ [][PartsNext]_<<part, claimVars, cardVars, retrievalVars>>

\* Only better evidence, accepted and kept, takes a claim's place (accept).
SupersededByBetter ==
  /\ part = "claims" => Claims(EqualModel)!SupersededByBetter
  /\ part = "ranked" => Claims(RankedModel)!SupersededByBetter

\* No claim waits in a conflict without another side, of one authority or of one user
\* (accept, correct).
NoLoneConflict ==
  /\ part = "claims" => Claims(EqualModel)!NoLoneConflict
  /\ part = "notes" => Claims(NotesModel)!NoLoneConflict

\* Events stay, and what left the active view for good does not come back.
HistoryIsFinal ==
  [][ /\ part = "claims" => Claims(EqualModel)!HistoryStays
      /\ part = "ranked" => Claims(RankedModel)!HistoryStays
      /\ part = "notes" => Claims(NotesModel)!HistoryStays ]_claimVars

\* The tables, the cards after failures, and what is retrieved (symbol_memory/).
MemoryInvariant ==
  /\ part = "claims" => Claims(EqualModel)!TypeOK
  /\ part = "ranked" => Claims(RankedModel)!TypeOK
  /\ part = "notes" => Claims(NotesModel)!TypeOK
  /\ part = "cards" => Files(CardsModel)!TypeOK
  /\ part = "failures" => Files(FailuresModel)!FailureRestoresCard
  /\ part = "retrieval" =>
       /\ Retrieval(RetrievalModel)!NoLookahead
       /\ Retrieval(RetrievalModel)!BudgetIsKept
       /\ Retrieval(RetrievalModel)!OmittedDoNotFit

\* Claims and the record of their card are committed together, whatever fails.
DocumentIsCommitted == [][\A s \in CardsModel.symbols : Files(CardsModel)!CommitsDocument(s)]_cardVars

\* What a user saved before an update took up the card is kept.
EditIsKept == [][\A s \in CardsModel.symbols : Files(CardsModel)!KeepsEdit(s)]_cardVars
=============================================================================
