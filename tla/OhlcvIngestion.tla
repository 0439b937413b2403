--------------------------- MODULE OhlcvIngestion ---------------------------
(***************************************************************************)
(* The daily bars of one symbol, from the provider's answers to the        *)
(* canonical table: downloads, the daily sync from its watermark, the      *)
(* promotion of raw rows to canonical bars or to quarantine, the scan for  *)
(* missing sessions and their repair.                                      *)
(*                                                                         *)
(* A session is a number, a row's prices one of Values or Bad, prices that *)
(* break a validation rule.  A process that writes the warehouse excludes  *)
(* the others for a whole command, so one operation runs at a time, but    *)
(* each of its steps commits on its own and Stop may end it after any one. *)
(***************************************************************************)
EXTENDS Integers, Sequences, FiniteSetsExt

CONSTANTS
  Last,          \* the last session the model knows
  Providers,
  Precedence,    \* providers in the order of the index policy; <<>> for equities
  Values,        \* prices and volumes that pass the validation rules
  MaxRuns,       \* how many requests may store rows
  Commands       \* the commands given, of AllCommands

Sessions == 1..Last
AllCommands == {"download", "daily", "build", "scan", "repair"}
Bad == "bad"
MissingKinds == {"TRUE_GAP", "PROVIDER_EMPTY", "SUSPENDED_OR_INACTIVE"}

VARIABLES
  raw,         \* the rows of market_ohlcv_raw
  runs,        \* how many ingestion runs stored rows; the later run was fetched later
  canonical,   \* the rows promoted to canonical_ohlcv, at most one for a session
  quarantine,  \* the runs with an unresolved ohlcv_quarantine record, for each session
  gap,         \* the ohlcv_gap_observation of each session
  listed,      \* whether symbol_master has the symbol ACTIVE
  built,       \* history: how many runs the last build of a session had read
  op           \* the operation in progress

vars == <<raw, runs, canonical, quarantine, gap, listed, built, op>>

Rows == [session : Sessions, run : 1..MaxRuns, provider : Providers,
         value : Values \cup {Bad}, passed : BOOLEAN]

\* sessions: the range asked for; todo: what the step has left to do; missing:
\* the true gaps the repair found; empty: those its provider had no rows for.
Idle == [kind |-> "idle", step |-> "none", sessions |-> {}, todo |-> {}, missing |-> {}, empty |-> {}]

TypeOK ==
  /\ raw \subseteq Rows
  /\ runs \in 0..MaxRuns
  /\ canonical \subseteq raw
  /\ \A r, q \in canonical : r.session = q.session => r = q
  /\ quarantine \in [Sessions -> SUBSET (1..MaxRuns)]
  /\ gap \in [Sessions -> MissingKinds \cup {"none", "resolved"}]
  /\ listed \in BOOLEAN
  /\ built \in [Sessions -> 0..MaxRuns]
  /\ op \in [kind : AllCommands \cup {"idle"},
             step : {"none", "observe", "fetch", "build", "reobserve", "resolve"},
             sessions : SUBSET Sessions, todo : SUBSET Sessions,
             missing : SUBSET Sessions, empty : SUBSET Sessions]

Init ==
  /\ raw = {} /\ runs = 0
  /\ canonical = {}
  /\ quarantine = [s \in Sessions |-> {}]
  /\ gap = [s \in Sessions |-> "none"]
  /\ listed = TRUE
  /\ built = [s \in Sessions |-> 0]
  /\ op = Idle

-----------------------------------------------------------------------------
(* What the stored evidence says *)

Candidates(s) == {r \in raw : r.session = s}

RankedBefore_NewestFirst(r, q) == r.run > q.run

\* Provider quality first, then the newest run.
RankedBefore(r, q) == IF r.passed = q.passed THEN r.run > q.run ELSE r.passed
TopOf(rows) == CHOOSE r \in rows : \A q \in rows \ {r} : RankedBefore(r, q)

\* The rows of the provider the index policy prefers among those that have any.
Preferred(rows) ==
  LET known == {i \in DOMAIN Precedence : \E r \in rows : r.provider = Precedence[i]}
  IN IF known = {} THEN rows ELSE {r \in rows : r.provider = Precedence[Min(known)]}

Selected(s) == TopOf(Preferred(Candidates(s)))

Valid(r) == r.passed /\ r.value # Bad
HasPolicy(r) == \E i \in DOMAIN Precedence : Precedence[i] = r.provider

Contested_NewerOnly(r) ==
  /\ ~HasPolicy(r)
  /\ \E q \in Candidates(r.session) :
       Valid(q) /\ q.run > r.run /\ q.provider # r.provider /\ q.value # r.value

\* PROVIDER_CONSISTENCY: a valid row of another provider says otherwise, however old.
Contested(r) ==
  /\ ~HasPolicy(r)
  /\ \E q \in Candidates(r.session) :
       Valid(q) /\ q.provider # r.provider /\ q.value # r.value

Promoted(s) == Valid(Selected(s)) /\ ~Contested(Selected(s))

\* The last session with a passing row, raw or canonical; 0 without any.
Watermark == Max({0} \cup {r.session : r \in {q \in raw : q.passed} \cup canonical})

OverlapSessions == 2
NextStart == IF Watermark = 0 THEN 1 ELSE Max({1, Watermark - OverlapSessions + 1})

Present == {r.session : r \in canonical}
MissingIn(sessions) == sessions \ Present
Kind(s, empty) ==
  IF ~listed THEN "SUSPENDED_OR_INACTIVE"
  ELSE IF s \in empty THEN "PROVIDER_EMPTY" ELSE "TRUE_GAP"

-----------------------------------------------------------------------------
(* The operations *)

Begin(kind, step, sessions, todo) ==
  /\ op = Idle /\ kind \in Commands
  /\ op' = [Idle EXCEPT !.kind = kind, !.step = step, !.sessions = sessions, !.todo = todo]
  /\ UNCHANGED <<raw, runs, canonical, quarantine, gap, listed, built>>

Download == \E a, b \in Sessions : a <= b /\ Begin("download", "fetch", a..b, {})

\* The watermark may lie beyond the date of the request: nothing is asked for then.
SyncDaily == \E date \in Sessions : Begin("daily", "fetch", NextStart..date, {})

BuildCanonical == \E a, b \in Sessions : a <= b /\ Begin("build", "build", a..b, {})

ScanGaps ==
  \E a, b \in Sessions : a <= b /\ Begin("scan", "observe", a..b, MissingIn(a..b))

RepairGaps ==
  \E a, b \in Sessions : a <= b /\ Begin("repair", "observe", a..b, MissingIn(a..b))

\* One gap after the other, each INSERT a transaction.
Observe ==
  /\ op.step \in {"observe", "reobserve"} /\ op.todo # {}
  /\ LET s == Min(op.todo)
     IN /\ gap' = [gap EXCEPT ![s] = Kind(s, op.empty)]
        /\ op' = [op EXCEPT !.todo = @ \ {s}]
  /\ UNCHANGED <<raw, runs, canonical, quarantine, listed, built>>

\* Only true gaps are fetched, and without any nothing is built either.
ObservedBefore ==
  /\ op.step = "observe" /\ op.todo = {}
  /\ LET missing == {s \in MissingIn(op.sessions) : Kind(s, {}) = "TRUE_GAP"}
     IN op' = IF op.kind = "scan" THEN Idle
              ELSE IF missing = {}
                   THEN [op EXCEPT !.step = "reobserve", !.todo = MissingIn(op.sessions)]
                   ELSE [op EXCEPT !.step = "fetch", !.todo = missing, !.missing = missing]
  /\ UNCHANGED <<raw, runs, canonical, quarantine, gap, listed, built>>

\* The sessions of the next request: a repair asks for one gap at a time.
Asked == IF op.kind = "repair" THEN {Min(op.todo)} ELSE op.sessions

\* A daily sync builds after a batch that is not FAILED: one whose only symbol
\* is SUCCESS or SKIPPED.  A repair goes on whatever came, a download ends.
AfterFetch(completed, empty) ==
  op' = CASE op.kind = "download" -> Idle
          [] op.kind = "daily" -> IF completed THEN [op EXCEPT !.step = "build"] ELSE Idle
          [] op.kind = "repair" ->
               LET left == op.todo \ Asked
               IN [op EXCEPT !.todo = left, !.empty = IF empty THEN @ \cup Asked ELSE @,
                             !.step = IF left = {} THEN "build" ELSE "fetch"]

\* FAILED, INVALID without rows, SKIPPED and EMPTY answers store nothing.
FetchNothing ==
  /\ op.step = "fetch"
  /\ \E answer \in {"failed", "skipped", "empty"} : AfterFetch(answer = "skipped", answer = "empty")
  /\ UNCHANGED <<raw, runs, canonical, quarantine, gap, listed, built>>

\* Rows whose response failed the provider's quality checks are stored too, as an INVALID result.
FetchRows ==
  /\ op.step = "fetch" /\ runs < MaxRuns
  /\ \E provider \in Providers, passed \in BOOLEAN, answered \in SUBSET Asked \ {{}} :
     \E value \in [answered -> IF passed THEN Values \cup {Bad} ELSE {Bad}] :
       /\ raw' = raw \cup {[session |-> s, run |-> runs + 1, provider |-> provider,
                            value |-> value[s], passed |-> passed] : s \in answered}
       /\ runs' = runs + 1
       /\ AfterFetch(passed, FALSE)
  /\ UNCHANGED <<canonical, quarantine, gap, listed, built>>

Build_BarStays(sessions) ==
  LET read == {s \in sessions : Candidates(s) # {}}
      good == {s \in read : Promoted(s)}
  IN /\ canonical' = {r \in canonical : r.session \notin good} \cup {Selected(s) : s \in good}
     /\ quarantine' = [s \in Sessions |->
          IF s \notin read THEN quarantine[s]
          ELSE IF Promoted(s) THEN {} ELSE quarantine[s] \cup {Selected(s).run}]
     /\ built' = [s \in Sessions |-> IF s \in sessions THEN runs ELSE built[s]]

\* One transaction: the selected row of each session becomes its bar and
\* resolves its quarantine records, or gets a record and costs the session its bar.
Build(sessions) ==
  LET read == {s \in sessions : Candidates(s) # {}}
  IN /\ canonical' = {r \in canonical : r.session \notin read}
                        \cup {Selected(s) : s \in {x \in read : Promoted(x)}}
     /\ quarantine' = [s \in Sessions |->
          IF s \notin read THEN quarantine[s]
          ELSE IF Promoted(s) THEN {} ELSE quarantine[s] \cup {Selected(s).run}]
     /\ built' = [s \in Sessions |-> IF s \in sessions THEN runs ELSE built[s]]

Promote_NotReinspected ==
  /\ op.step = "build"
  /\ Build(IF op.kind = "build" THEN op.sessions ELSE Sessions)
  /\ op' = IF op.kind = "repair"
           THEN [op EXCEPT !.step = "resolve", !.todo = Present' \cap op.sessions] ELSE Idle
  /\ UNCHANGED <<raw, runs, gap, listed>>

Promote ==
  /\ op.step = "build"
  /\ Build(IF op.kind = "build" THEN op.sessions ELSE Sessions)
  /\ op' = IF op.kind = "repair"
           THEN [op EXCEPT !.step = "reobserve",
                           !.todo = op.sessions \ Present']
           ELSE Idle
  /\ UNCHANGED <<raw, runs, gap, listed>>

ObservedAfter ==
  /\ op.step = "reobserve" /\ op.todo = {}
  /\ op' = [op EXCEPT !.step = "resolve", !.todo = Present \cap op.sessions]
  /\ UNCHANGED <<raw, runs, canonical, quarantine, gap, listed, built>>

Resolve ==
  /\ op.step = "resolve" /\ op.todo # {}
  /\ \E s \in op.todo :
       /\ gap' = [gap EXCEPT ![s] = IF @ \in MissingKinds THEN "resolved" ELSE @]
       /\ op' = [op EXCEPT !.todo = @ \ {s}]
  /\ UNCHANGED <<raw, runs, canonical, quarantine, listed, built>>

RepairEnds ==
  /\ op.step = "resolve" /\ op.todo = {}
  /\ op' = Idle
  /\ UNCHANGED <<raw, runs, canonical, quarantine, gap, listed, built>>

\* An exception or the end of the process.
Stop ==
  /\ op # Idle
  /\ op' = Idle
  /\ UNCHANGED <<raw, runs, canonical, quarantine, gap, listed, built>>

\* The symbol is suspended, or active again.
ChangeLifecycle ==
  /\ op = Idle
  /\ listed' = ~listed
  /\ UNCHANGED <<raw, runs, canonical, quarantine, gap, built, op>>

Next ==
  \/ Download \/ SyncDaily \/ BuildCanonical \/ ScanGaps \/ RepairGaps
  \/ Observe \/ ObservedBefore \/ FetchNothing \/ FetchRows \/ Promote
  \/ ObservedAfter \/ Resolve \/ RepairEnds
  \/ Stop \/ ChangeLifecycle

Spec == Init /\ [][Next]_vars

-----------------------------------------------------------------------------
(* Properties *)

\* A bar never stands beside valid evidence of another provider that denies it,
\* once a build has read that evidence (validate_candidate, PROVIDER_CONSISTENCY).
BarsAreUncontested ==
  \A r \in canonical : \A q \in Candidates(r.session) :
    Valid(q) /\ q.run <= built[r.session] /\ ~HasPolicy(r)
      => q.value = r.value \/ q.provider = r.provider

\* What a build has read is never dropped silently: it became a bar, or is open
\* in quarantine; and no session has both (persist_quarantine, resolve_quarantines).
EvidenceIsAccounted ==
  \A s \in Sessions :
    /\ quarantine[s] # {} => s \notin Present
    /\ (\E r \in Candidates(s) : r.run <= built[s]) => s \in Present \/ quarantine[s] # {}

\* The bar of an equity changes or goes only for passing evidence newer than it:
\* a failed request, or rows that fail the quality checks, never cost a good bar
\* (load_ranked_candidates ranks by quality before it ranks by age).
OnlyNewerEvidenceReplaces ==
  \A r \in canonical \ canonical' : \E q \in Candidates(r.session) : q.passed /\ q.run > r.run
BarsYieldToEvidence == [][OnlyNewerEvidenceReplaces]_vars

\* When a repair ends, exactly the sessions of its range without a bar have an
\* open observation, whatever stopped earlier repairs, and it says PROVIDER_EMPTY
\* only where this repair asked and got no rows (OHLCVRepairService.repair).
RepairTells(s) ==
  /\ (gap[s] \in MissingKinds) <=> (s \notin Present)
  /\ gap[s] = "PROVIDER_EMPTY" => s \in op.missing /\ \A r \in Candidates(s) : r.run <= built[s]
RepairTold == \A s \in op.sessions : RepairTells(s)
RepairTellsTheTruth == [][RepairEnds => RepairTold]_vars
=============================================================================
