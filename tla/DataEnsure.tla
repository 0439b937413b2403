----------------------------- MODULE DataEnsure -----------------------------
(***************************************************************************)
(* One symbol made ready for analysis at a target date: the flow that      *)
(* looks at the stored evidence, plans, acts, looks again and answers      *)
(* READY, PARTIAL or FAILED (data_availability/service.py).  Flows of one  *)
(* symbol and date exclude each other by EnsureLock; a process that writes *)
(* the warehouse excludes the others, so what else happens to the data     *)
(* happens between two flows, and a flow may die after any of its actions, *)
(* or between the two tables a build of features writes.                   *)
(*                                                                         *)
(* The bars of a series are two blocks, the history of min_required_bars   *)
(* and the session of the target date; a version stands for their values.  *)
(***************************************************************************)
EXTENDS Integers, Sequences

CONSTANT MaxVersions  \* bound of the model: syncs that bring other values

Series == {"symbol", "benchmark"}
Block == {"history", "target"}
CoreActions == {"OHLCV_SYNCED", "CANONICAL_BUILT", "BENCHMARK_SYNCED", "BENCHMARK_CANONICAL_BUILT"}

VARIABLES
  known,     \* the symbol is in symbol_master
  raw,       \* passing blocks of each series in market_ohlcv_raw
  fetched,   \* the version of the raw rows
  canonical, \* promoted blocks of each series
  built,     \* the version of the raw rows the canonical bars were built from
  gapOpen,   \* an unresolved TRUE_GAP of the symbol lies in the window
  features,  \* feature_snapshot of the date, or None
  strength,  \* relative_strength_snapshot of the date, or None
  score,     \* candidate_score of the date, or None
  flow

vars == <<known, raw, fetched, canonical, built, gapOpen, features, strength, score, flow>>
data == <<known, raw, fetched, canonical, built, gapOpen, features, strength, score>>

None == [is |-> "none"]
Versions == [Series -> 0..MaxVersions]

\* exact: EXACT_DATE, complete, with lineage; relative strength: SUCCESS.
Features == [is : {"row"}, exact : BOOLEAN, of : Versions]

\* fresh: recent and with all lineage fields; current: of the present policy.
Scores == [is : {"row"}, fresh : BOOLEAN, current : BOOLEAN, of : Versions]

\* did: kinds of actions that succeeded; failed: one did not; troubled: history, the
\* outside gave less than all it was asked for.
Idle == [at |-> "idle", todo |-> <<>>, force |-> FALSE, auto |-> TRUE,
         did |-> {}, failed |-> FALSE, troubled |-> FALSE, answer |-> "none"]

TypeOK ==
  /\ known \in BOOLEAN /\ gapOpen \in BOOLEAN
  /\ raw \in [Series -> SUBSET Block] /\ canonical \in [Series -> SUBSET Block]
  /\ \A s \in Series : canonical[s] \subseteq raw[s] /\ built[s] <= fetched[s]
  /\ fetched \in Versions /\ built \in Versions
  /\ features \in Features \cup {None} /\ strength \in Features \cup {None}
  /\ score \in Scores \cup {None}
  /\ flow.at \in {"idle", "symbols", "provision", "features", "score", "finish"}
  /\ flow.answer \in {"none", "READY", "PARTIAL", "FAILED"}

\* An empty warehouse, or one of an earlier version: a score without the lineage
\* asked for today, of a policy that may have been replaced.
Init ==
  /\ known \in BOOLEAN
  /\ raw = [s \in Series |-> {}] /\ canonical = raw
  /\ fetched = [s \in Series |-> 0] /\ built = fetched
  /\ gapOpen = FALSE
  /\ features = None /\ strength = None
  /\ score \in {None} \cup [is : {"row"}, fresh : {FALSE}, current : BOOLEAN, of : {built}]
  /\ flow = Idle

-----------------------------------------------------------------------------
(* What a snapshot of the evidence says *)

Exact == features # None /\ features.exact /\ strength # None /\ strength.exact
Scored == score # None /\ score.fresh
Enough(s) == "history" \in canonical[s]
Behind(s) == canonical[s] = {"history"}
CanonicalIssues == gapOpen \/ ~Enough("symbol")

\* evaluate_cache_eligibility: canonical quality is that of a promoted bar.
Eligible == Scored /\ Exact /\ ~CanonicalIssues /\ Enough("benchmark")

SymbolPlan_NeverStale ==
  IF ~CanonicalIssues THEN <<>>
  ELSE (IF gapOpen \/ raw["symbol"] # Block THEN <<"OHLCV_SYNCED">> ELSE <<>>) \o <<"CANONICAL_BUILT">>

SymbolPlan ==
  IF ~CanonicalIssues /\ ~Behind("symbol") THEN <<>>
  ELSE (IF gapOpen \/ raw["symbol"] # Block THEN <<"OHLCV_SYNCED">> ELSE <<>>) \o <<"CANONICAL_BUILT">>

BenchmarkPlan ==
  IF Enough("benchmark") /\ ~Behind("benchmark") THEN <<>>
  ELSE <<"BENCHMARK_SYNCED", "BENCHMARK_CANONICAL_BUILT">>

\* plan_data_availability; a plan that provisions goes no further.
CorePlan == IF Eligible \/ ~flow.auto THEN <<>> ELSE SymbolPlan \o BenchmarkPlan
FeaturePlan == IF Eligible \/ ~flow.auto \/ CorePlan # <<>> \/ Exact THEN <<>> ELSE <<"FEATURES_BUILT">>
ScorePlan ==
  IF Eligible \/ ~flow.auto \/ CorePlan # <<>> \/ ~Exact \/ Scored THEN <<>> ELSE <<"SCORED">>

\* A forced refresh also syncs and builds what is there already.
RefreshPlan ==
  IF ~flow.force \/ ~flow.auto THEN CorePlan
  ELSE (IF Enough("symbol") THEN <<"OHLCV_SYNCED", "CANONICAL_BUILT">> ELSE SymbolPlan)
       \o (IF Enough("benchmark") THEN <<"BENCHMARK_SYNCED", "BENCHMARK_CANONICAL_BUILT">>
           ELSE BenchmarkPlan)

-----------------------------------------------------------------------------
(* The flow *)

At(step) == flow.at = step
Conclude(status) == flow' = [Idle EXCEPT !.answer = status]

Begin(force, auto) ==
  /\ At("idle")
  /\ flow' = IF Eligible /\ ~force THEN [Idle EXCEPT !.answer = "READY"]
             ELSE [Idle EXCEPT !.at = "symbols", !.force = force, !.auto = auto]
  /\ UNCHANGED data

\* Symbols are synced first; an unknown symbol ends the flow.
SyncSymbols ==
  /\ At("symbols")
  /\ known' \in IF ~known /\ flow.auto /\ ~Eligible THEN BOOLEAN ELSE {known}
  /\ \E raised \in IF known' /\ ~known THEN BOOLEAN ELSE {FALSE} :
       IF known' THEN flow' = [flow EXCEPT !.at = "provision", !.todo = RefreshPlan,
                                           !.failed = raised, !.troubled = raised]
       ELSE Conclude("FAILED")
  /\ UNCHANGED <<raw, fetched, canonical, built, gapOpen, features, strength, score>>

Doing(step, action) == At(step) /\ flow.todo # <<>> /\ Head(flow.todo) = action

Kind(action) == IF action \in CoreActions THEN "core" ELSE action

\* execute_planned_actions goes on after a failure; an action succeeds when its
\* postcondition holds after it.
Outcome(ok, trouble) ==
  flow' = [flow EXCEPT !.todo = Tail(flow.todo),
                       !.did = IF ok THEN flow.did \cup {Kind(Head(flow.todo))} ELSE flow.did,
                       !.failed = flow.failed \/ ~ok,
                       !.troubled = flow.troubled \/ trouble]

\* The provider has all the bars, some or none; an earlier row may be corrected.
SyncBars(s, action) ==
  /\ Doing("provision", action)
  /\ \E got \in SUBSET Block :
       /\ raw' = [raw EXCEPT ![s] = raw[s] \cup got]
       /\ \/ UNCHANGED fetched
          \/ got # {} /\ fetched[s] < MaxVersions /\ fetched' = [fetched EXCEPT ![s] = fetched[s] + 1]
       /\ Outcome(raw'[s] = Block, got # Block)
  /\ UNCHANGED <<known, canonical, built, gapOpen, features, strength, score>>

\* Rows that fail a rule or are contested are not promoted (OhlcvIngestion).
BuildCanonical(s, action) ==
  /\ Doing("provision", action)
  /\ \E bars \in SUBSET raw[s] :
       /\ canonical' = [canonical EXCEPT ![s] = bars]
       /\ built' = [built EXCEPT ![s] = fetched[s]]
       /\ Outcome(bars = Block /\ (s = "symbol" => ~gapOpen), bars # raw[s])
  /\ UNCHANGED <<known, raw, fetched, gapOpen, features, strength, score>>

FeaturesDue_PlannedOnly == FeaturePlan

FeaturesDue ==
  IF flow.auto /\ (flow.force \/ "core" \in flow.did) /\ CorePlan = <<>>
  THEN <<"FEATURES_BUILT">> ELSE FeaturePlan

PlanFeatures ==
  /\ At("provision") /\ flow.todo = <<>>
  /\ flow' = [flow EXCEPT !.at = "features", !.todo = FeaturesDue]
  /\ UNCHANGED data

\* build_features skips a symbol without history; relative strength needs the
\* benchmark's bars of the same dates.
Built(row) ==
  IF Enough("symbol") THEN [is |-> "row", exact |-> canonical = [s \in Series |-> Block], of |-> built]
  ELSE row

BuildFeatures ==
  /\ Doing("features", "FEATURES_BUILT")
  /\ features' = Built(features) /\ strength' = Built(strength)
  /\ Outcome(Exact', FALSE)
  /\ UNCHANGED <<known, raw, fetched, canonical, built, gapOpen, score>>

ScoresDue_PlannedOnly == ScorePlan

ScoresDue ==
  IF flow.force /\ "FEATURES_BUILT" \in flow.did THEN <<"SCORED">> ELSE ScorePlan

PlanScore ==
  /\ At("features") /\ flow.todo = <<>>
  /\ flow' = [flow EXCEPT !.at = "score", !.todo = ScoresDue]
  /\ UNCHANGED data

\* score_universe takes exact features only, and refuses to replace a score of
\* another policy.
Score ==
  /\ Doing("score", "SCORED")
  /\ LET scores == features # None /\ features.exact /\ (score # None => score.current)
     IN /\ score' = IF scores THEN [is |-> "row", fresh |-> TRUE, current |-> TRUE, of |-> features.of]
                    ELSE score
        /\ Outcome(scores, FALSE)
  /\ UNCHANGED <<known, raw, fetched, canonical, built, gapOpen, features, strength>>

\* finalise_result.
Finish ==
  /\ At("score") /\ flow.todo = <<>>
  /\ Conclude(IF Eligible /\ ~flow.failed THEN "READY" ELSE "PARTIAL")
  /\ UNCHANGED data

\* A step that writes nothing, or one of the two tables.
CutShort ==
  /\ features' \in {features} \cup (IF Doing("features", "FEATURES_BUILT") THEN {Built(features)} ELSE {})
  /\ UNCHANGED <<known, raw, fetched, canonical, built, gapOpen, strength, score>>

\* An action raises, and the flow goes on.
Raise ==
  /\ flow.todo # <<>>
  /\ Outcome(FALSE, TRUE)
  /\ CutShort

\* The process dies, or an error outside the actions leaves the flow.
Die ==
  /\ ~At("idle")
  /\ flow' = Idle
  /\ CutShort

-----------------------------------------------------------------------------
(* Between two flows *)

\* The daily commands sync and promote the bars of a series on their own.
SyncElsewhere(s) ==
  /\ At("idle")
  /\ \E got \in SUBSET Block, bars \in SUBSET Block :
       /\ got # {} /\ fetched[s] < MaxVersions
       /\ bars \subseteq raw[s] \cup got
       /\ raw' = [raw EXCEPT ![s] = raw[s] \cup got]
       /\ fetched' = [fetched EXCEPT ![s] = fetched[s] + 1]
       /\ canonical' = [canonical EXCEPT ![s] = bars]
       /\ built' = [built EXCEPT ![s] = fetched[s] + 1]
  /\ flow' = Idle
  /\ UNCHANGED <<known, gapOpen, features, strength, score>>

\* A gap scan finds or resolves a true gap.
ScanGaps ==
  /\ At("idle")
  /\ gapOpen' = ~gapOpen
  /\ flow' = Idle
  /\ UNCHANGED <<known, raw, fetched, canonical, built, features, strength, score>>

\* Another scoring policy comes into force.
ReplacePolicy ==
  /\ At("idle") /\ score # None
  /\ score' = [score EXCEPT !.current = FALSE]
  /\ flow' = Idle
  /\ UNCHANGED <<known, raw, fetched, canonical, built, gapOpen, features, strength>>

FlowStep ==
  \/ \E force, auto \in BOOLEAN : Begin(force, auto)
  \/ SyncSymbols
  \/ SyncBars("symbol", "OHLCV_SYNCED") \/ BuildCanonical("symbol", "CANONICAL_BUILT")
  \/ SyncBars("benchmark", "BENCHMARK_SYNCED") \/ BuildCanonical("benchmark", "BENCHMARK_CANONICAL_BUILT")
  \/ PlanFeatures \/ BuildFeatures \/ PlanScore \/ Score \/ Raise \/ Finish

Next ==
  \/ FlowStep \/ Die
  \/ \E s \in Series : SyncElsewhere(s)
  \/ ScanGaps \/ ReplacePolicy

Spec == Init /\ [][Next]_vars

-----------------------------------------------------------------------------
(* Properties *)

\* A flow that renewed the bars and answers READY has computed the features from
\* the renewed bars, and after a forced refresh the score from those features: no
\* READY answer mixes what the flow fetched with what it found.
ReadyIsOfOnePiece ==
  Finish /\ flow'.answer = "READY" =>
    /\ "core" \in flow.did => features.of = built /\ strength.of = built
    /\ flow.force /\ "FEATURES_BUILT" \in flow.did => score.of = features.of

\* Whatever is missing, stale or half done, by daily commands, failures and deaths
\* of earlier flows, one flow repairs it when it gets all it asks for; only an open
\* gap and a score of another policy are beyond it.
OnePassSuffices ==
  Finish /\ flow.auto /\ ~flow.troubled /\ ~gapOpen /\ (score # None => score.current)
    => flow'.answer = "READY"
=============================================================================
