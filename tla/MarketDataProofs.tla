-------------------------- MODULE MarketDataProofs --------------------------
(***************************************************************************)
(* For all values of the constants: what the finalization of a session     *)
(* records, what a flow that makes a symbol ready answers, and what the    *)
(* parts of MCMarketData show of the bars and of the run.  OhlcvIngestion  *)
(* and MaintenanceRun have modules of their own for their proofs, used     *)
(* here through an instance for each part.                                 *)
(***************************************************************************)
EXTENDS MCMarketData, SequenceTheorems, TLAPS

-----------------------------------------------------------------------------
(* The finalization of a session: results rest on a coverage row that was    *)
(* sufficient when it was written, and the run turns SUCCESS only over a     *)
(* complete list of successful or skipped stages.                            *)

\* An attempt counts its stages from 1, and has a row of every stage it has passed.
StagesInv ==
  /\ attempt.pc = "stage" => attempt.stage >= 1
  /\ attempt.pc = "stage" =>
       \A j \in 1..Last : j < attempt.stage => stageRow[j].status # "none"

FinalizerInv == TypeOK /\ ResultsRestOnCoverage /\ StagesInv

\* Finalization starts with no stage recorded.
LEMMA FinalizerInit == Init => FinalizerInv
BY FinalizerAssumption
DEF Init, FinalizerInv, TypeOK, ResultsRestOnCoverage, StagesInv, NoRow, NoAttempt, Evidence, Closed,
    Sufficient

\* A stage writes one of the statuses of MaintenanceStageStatus.
LEMMA StageResultsType ==
  ASSUME TypeOK, NEW k \in 1..Last, NEW r \in StageResults(k)
  PROVE  r \in Closed \cup {"SKIPPED"} /\ StatusAfter(k, r) \in {"ACQUIRING", "FINALIZATION_QUEUED", "FINALIZING"} \cup Closed
<1>1. k = 1 \/ k = Last \/ k \in Required
  BY FinalizerAssumption DEF Required
<1>2. CASE k = 1
  BY <1>2, FinalizerAssumption DEF StageResults, CoverageResult, StatusAfter, TypeOK, Evidence,
     Closed
<1>3. CASE k # 1 /\ k = Last
  <2>1. r = ResultStatus /\ r \in Closed
    BY <1>3 DEF StageResults, ResultStatus, Closed
  <2> QED BY <1>3, <2>1 DEF StatusAfter, Closed
<1>4. CASE k # 1 /\ k # Last /\ k \in Required
  <2>1. r \in Closed \cup {"SKIPPED"}
    BY <1>4 DEF StageResults
  <2>2. StatusAfter(k, r) = "FAILED" \/ StatusAfter(k, r) = status
    BY <1>4 DEF StatusAfter
  <2> QED BY <2>1, <2>2 DEF TypeOK, Closed
<1> QED BY <1>1, <1>2, <1>3, <1>4

\* Building a stage preserves the invariant: a coverage stage that finds too little records
\* FAILED, for itself and for the run, and ends the attempt.
LEMMA BuildInv ==
  ASSUME FinalizerInv, NEW k \in 1..Last, k = attempt.stage, attempt.pc = "stage",
         BuildStage(k), UNCHANGED <<eligible, benchmark, open>>
  PROVE  FinalizerInv'
<1>1. PICK r \in StageResults(k) :
        /\ stageRow' = [stageRow EXCEPT ![k] = [status |-> r, covers |-> Found(k)]]
        /\ status' = StatusAfter(k, r)
        /\ attempt' = IF r = "FAILED" THEN Failing ELSE NextStage
  BY DEF BuildStage
<1>2. r \in Closed \cup {"SKIPPED"} /\ status' \in {"ACQUIRING", "FINALIZATION_QUEUED", "FINALIZING"} \cup Closed
  BY <1>1, StageResultsType DEF FinalizerInv
<1>3. TypeOK'
  <2>0. Found(k) \in Evidence
    BY DEF FinalizerInv, TypeOK, Found, Evidence
  <2>1. stageRow' \in [1..Last -> [status : Closed \cup {"SKIPPED", "none"}, covers : Evidence]]
    BY <1>1, <1>2, <2>0 DEF FinalizerInv, TypeOK
  <2>2. attempt' \in [pc : {"off", "stage", "failing"}, stage : 0..(Last + 1)]
    BY <1>1, FinalizerAssumption DEF FinalizerInv, TypeOK, Failing, NextStage
  <2> QED BY <1>2, <2>1, <2>2 DEF FinalizerInv, TypeOK
<1>4. Found(k) \in Evidence /\ (k = 1 /\ Found(k) = "none" => r = "FAILED")
  BY <1>1 DEF FinalizerInv, TypeOK, Found, Evidence, StageResults, CoverageResult
<1>5. ResultsRestOnCoverage'
  <2>1. CASE k = 1
    <3>1. stageRow'[1] = [status |-> r, covers |-> Found(k)]
      BY <1>1, <2>1 DEF FinalizerInv, TypeOK
    <3>2. CASE r = "FAILED"
      <4>1. status' = "FAILED" /\ attempt'.pc = "failing" /\ stageRow'[1].status = "FAILED"
        BY <1>1, <3>1, <3>2 DEF StatusAfter, Failing, FinalizerInv, TypeOK
      <4> QED BY <4>1 DEF ResultsRestOnCoverage, Sufficient
    <3>3. CASE r # "FAILED"
      <4>1. status' = "FINALIZING" /\ r \in Sufficient
        <5>1. r = CoverageResult
          BY <1>1, <2>1 DEF StageResults
        <5>2. r \in Sufficient
          BY <3>3, <5>1 DEF CoverageResult, Sufficient
        <5> QED BY <1>1, <2>1, <3>3, <5>2 DEF StatusAfter
      <4> QED BY <1>4, <2>1, <3>1, <3>3, <4>1 DEF ResultsRestOnCoverage
    <3> QED BY <3>2, <3>3
  <2>2. CASE k # 1
    <3>1. stageRow'[1] = stageRow[1] /\ stageRow[1].status \in Sufficient
      BY <1>1, <2>2, FinalizerAssumption DEF FinalizerInv, TypeOK, BuildStage, Blocked
    <3> QED BY <3>1 DEF FinalizerInv, ResultsRestOnCoverage
  <2> QED BY <2>1, <2>2
<1>6. StagesInv'
  <2>1. \A j \in 1..Last : j # k => stageRow'[j] = stageRow[j]
    BY <1>1 DEF FinalizerInv, TypeOK
  <2>2. stageRow'[k].status = r /\ r # "none"
    BY <1>1, <1>2 DEF FinalizerInv, TypeOK, Closed
  <2>4. attempt'.pc = "stage" => attempt'.stage = k + 1
    BY <1>1 DEF FinalizerInv, TypeOK, Failing, NextStage
  <2> QED BY <2>1, <2>2, <2>4 DEF FinalizerInv, StagesInv
<1> QED BY <1>3, <1>5, <1>6 DEF FinalizerInv

\* Executing a stage preserves the invariant.
LEMMA ExecuteInv ==
  ASSUME FinalizerInv, Execute
  PROVE  FinalizerInv'
<1>1. attempt.pc = "stage" /\ attempt.stage \in 1..Last
  BY FinalizerAssumption DEF FinalizerInv, TypeOK, StagesInv, Execute
<1>2. CASE RefuseStage
  BY <1>1, <1>2, FinalizerAssumption
  DEF RefuseStage, Execute, FinalizerInv, TypeOK, ResultsRestOnCoverage, StagesInv, Failing
<1>3. CASE ReuseStage
  <2>1. UNCHANGED <<status, stageRow, eligible, benchmark, open>>
    BY <1>3 DEF ReuseStage, Execute
  <2>2. /\ attempt' \in [pc : {"off", "stage", "failing"}, stage : 0..(Last + 1)]
        /\ attempt'.stage = attempt.stage + 1
    BY <1>1, <1>3, FinalizerAssumption DEF ReuseStage, FinalizerInv, TypeOK, NextStage
  <2>3. stageRow[attempt.stage].status # "none"
    BY <1>3 DEF ReuseStage, Reused
  <2>4. TypeOK'
    BY <2>1, <2>2 DEF FinalizerInv, TypeOK
  <2>6. ResultsRestOnCoverage'
    <3>1. attempt.stage > 1 \/ stageRow[1].status \in Sufficient
      BY <1>1, <1>3 DEF ReuseStage, Reused, Sufficient
    <3> QED BY <1>1, <2>1, <3>1 DEF FinalizerInv, ResultsRestOnCoverage
  <2>5. StagesInv'
    BY <1>1, <2>1, <2>2, <2>3, FinalizerAssumption DEF FinalizerInv, TypeOK, StagesInv
  <2> QED BY <2>4, <2>5, <2>6 DEF FinalizerInv
<1>4. CASE BuildStage(attempt.stage)
  BY <1>1, <1>4, BuildInv DEF Execute
<1> QED BY <1>2, <1>3, <1>4 DEF Execute

\* The other steps touch no stage row, and none makes an attempt advance or the run a
\* success.
LEMMA OtherStepsInv ==
  ASSUME FinalizerInv, Start \/ EndJob \/ Interrupt \/ SubmitAgain \/ EvidenceChanges \/ LateProducer
  PROVE  FinalizerInv'
<1> USE FinalizerAssumption DEF FinalizerInv, TypeOK, ResultsRestOnCoverage, StagesInv, NoAttempt
<1>1. CASE Start
  BY <1>1 DEF Start
<1>2. CASE EndJob \/ Interrupt
  <2>1. open' \in BOOLEAN
    BY <1>2, Zenon DEF EndJob, Interrupt
  <2>2. attempt' = NoAttempt /\ UNCHANGED <<status, stageRow, eligible, benchmark>>
    BY <1>2, Zenon DEF EndJob, Interrupt
  <2> QED BY <2>1, <2>2
<1>3. CASE SubmitAgain
  BY <1>3 DEF SubmitAgain
<1>4. CASE EvidenceChanges
  BY <1>4 DEF EvidenceChanges, Evidence
<1>5. CASE LateProducer
  BY <1>5 DEF LateProducer
<1> QED BY <1>1, <1>2, <1>3, <1>4, <1>5

\* The inductive invariant holds in every reachable state.
THEOREM FinalizerInvariant == Spec => []FinalizerInv
<1>1. FinalizerInv /\ [Next]_vars => FinalizerInv'
  <2> SUFFICES ASSUME FinalizerInv, [Next]_vars PROVE FinalizerInv'
    OBVIOUS
  <2>1. CASE UNCHANGED vars
    BY <2>1 DEF vars, FinalizerInv, TypeOK, ResultsRestOnCoverage, StagesInv
  <2> QED BY <2>1, ExecuteInv, OtherStepsInv DEF Next
<1> QED BY <1>1, FinalizerInit, PTL DEF Spec

\* Statuses and rows are those of the code's enumerations.
THEOREM FinalizerTypes == Spec => []TypeOK
<1>1. FinalizerInv => TypeOK
  BY DEF FinalizerInv
<1> QED BY <1>1, FinalizerInvariant, PTL

\* Every result, and every attempt beyond the coverage stage, rests on a coverage row that
\* was sufficient when it was written (_coverage_is_sufficient).
THEOREM CoverageIsRequired == Spec => []ResultsRestOnCoverage
<1>1. FinalizerInv => ResultsRestOnCoverage
  BY DEF FinalizerInv
<1> QED BY <1>1, FinalizerInvariant, PTL

\* The run turns SUCCESS only over successful or skipped required stages.
THEOREM SuccessRequiresStages == Spec => SuccessIsEarned
<1>1. FinalizerInv /\ [Next]_vars =>
        [status' = "SUCCESS" /\ status # "SUCCESS" => Recorded \subseteq {"SUCCESS", "SKIPPED"}]_vars
  <2> SUFFICES ASSUME FinalizerInv, Next, status' = "SUCCESS", status # "SUCCESS"
               PROVE  Recorded \subseteq {"SUCCESS", "SKIPPED"}
    BY DEF vars
  <2>1. Execute
    BY DEF Next, Start, EndJob, Interrupt, SubmitAgain, EvidenceChanges, LateProducer
  <2>2. BuildStage(attempt.stage) /\ attempt.stage <= Last
    BY <2>1 DEF Execute, RefuseStage, ReuseStage
  <2>3. PICK r \in StageResults(attempt.stage) : status' = StatusAfter(attempt.stage, r)
    BY <2>2 DEF BuildStage
  <2>4. attempt.stage = Last /\ attempt.stage # 1 /\ r = "SUCCESS"
    BY <2>3, FinalizerAssumption DEF StatusAfter
  <2>5. ResultStatus = "SUCCESS"
    BY <2>3, <2>4 DEF StageResults
  <2>6. "FAILED" \notin Recorded /\ "PARTIAL" \notin Recorded
    BY <2>5 DEF ResultStatus
  <2>7. "none" \notin Recorded
    BY <2>1, <2>4, FinalizerAssumption DEF Execute, FinalizerInv, StagesInv, Recorded, Required
  <2>8. Recorded \subseteq Closed \cup {"SKIPPED", "none"}
    BY FinalizerAssumption DEF FinalizerInv, TypeOK, Recorded, Required
  <2> QED BY <2>6, <2>7, <2>8 DEF Closed
<1> QED BY <1>1, FinalizerInvariant, PTL DEF Spec, SuccessIsEarned

\* A stage recorded as SUCCESS is reused: no attempt builds it again, and nothing
\* else writes rows (_reusable_stage).
THEOREM StagesAreKept == Spec => SuccessfulStagesAreKept
<1> DEFINE Kept == \A k \in 1..Last : stageRow[k].status = "SUCCESS" => stageRow'[k] = stageRow[k]
<1>1. FinalizerInv /\ [Next]_vars => Kept
  <2> SUFFICES ASSUME FinalizerInv, [Next]_vars PROVE Kept
    OBVIOUS
  <2>1. CASE UNCHANGED stageRow
    BY <2>1
  <2>2. CASE ~UNCHANGED stageRow
    <3>1. Execute
      BY <2>2 DEF Next, vars, Start, EndJob, Interrupt, SubmitAgain, EvidenceChanges, LateProducer
    <3>2. BuildStage(attempt.stage)
      BY <2>2, <3>1 DEF Execute, RefuseStage, ReuseStage
    <3>3. PICK r : stageRow' = [stageRow EXCEPT ![attempt.stage] = [status |-> r, covers |-> Found(attempt.stage)]]
      BY <3>2 DEF BuildStage
    <3>4. stageRow[attempt.stage].status # "SUCCESS"
      BY <3>2 DEF BuildStage, Reused
    <3> QED BY <3>3, <3>4 DEF FinalizerInv, TypeOK
  <2> QED BY <2>1, <2>2
<1> QED BY <1>1, FinalizerInvariant, PTL DEF Spec, SuccessfulStagesAreKept

-----------------------------------------------------------------------------
(* The flow that makes a symbol ready.                                       *)

\* The actions a flow may have left before it plans features.
SymbolPlans == {<<>>, <<"CANONICAL_BUILT">>, <<"OHLCV_SYNCED", "CANONICAL_BUILT">>}
BenchmarkPlans ==
  {<<>>, <<"BENCHMARK_CANONICAL_BUILT">>, <<"BENCHMARK_SYNCED", "BENCHMARK_CANONICAL_BUILT">>}
WithBenchmark ==
  {<<"CANONICAL_BUILT", "BENCHMARK_SYNCED", "BENCHMARK_CANONICAL_BUILT">>,
   <<"OHLCV_SYNCED", "CANONICAL_BUILT", "BENCHMARK_SYNCED", "BENCHMARK_CANONICAL_BUILT">>}

\* The types of a flow.
FlowType ==
  flow \in [at : {"idle", "symbols", "provision", "features", "score", "finish"},
            todo : SymbolPlans \cup BenchmarkPlans \cup WithBenchmark \cup {<<"FEATURES_BUILT">>, <<"SCORED">>},
            force : BOOLEAN, auto : BOOLEAN,
            did : SUBSET {"core", "FEATURES_BUILT", "SCORED"},
            failed : BOOLEAN, troubled : BOOLEAN, answer : {"none", "READY", "PARTIAL", "FAILED"}]

\* The flow may act, got all it asked for so far, and no gap is open.
Clear == flow.auto /\ ~flow.troubled /\ ~gapOpen
Complete(s) == promoted[s] = Ensure!Block
FeaturesAreOfBars == features.of = promotedFrom /\ strength.of = promotedFrom
SamePolicy == score # Ensure!None => score.current

\* A flow that has begun had something to do.
SymbolsInv ==
  Ensure!At("symbols") =>
    /\ flow.todo = <<>> /\ flow.did = {} /\ ~flow.failed
    /\ flow.force \/ ~Ensure!Eligible

\* Of each series the actions left are enough to make it complete.
SymbolInv ==
  /\ flow.todo \in BenchmarkPlans => Complete("symbol")
  /\ flow.todo \in {<<"CANONICAL_BUILT">>,
                    <<"CANONICAL_BUILT", "BENCHMARK_SYNCED", "BENCHMARK_CANONICAL_BUILT">>}
       => stored["symbol"] = Ensure!Block
BenchmarkInv ==
  /\ flow.todo \in SymbolPlans => Complete("benchmark")
  /\ flow.todo = <<"BENCHMARK_CANONICAL_BUILT">> => stored["benchmark"] = Ensure!Block

\* While a flow fetches and promotes, it is on its way to complete bars.
ProvisionInv ==
  Ensure!At("provision") =>
    /\ flow.todo \in SymbolPlans \cup BenchmarkPlans \cup WithBenchmark
    /\ flow.did \subseteq {"core"}
    /\ flow.todo # <<>> \/ "core" \in flow.did => flow.auto
    /\ Clear => ~flow.failed /\ SymbolInv /\ BenchmarkInv

\* A flow that renewed the bars builds features of them, unless it failed or the
\* bars are not enough to go on.
FeaturesInv ==
  Ensure!At("features") =>
    /\ flow.todo \in {<<>>, <<"FEATURES_BUILT">>}
    /\ "core" \in flow.did /\ ~flow.failed =>
         \/ flow.todo = <<"FEATURES_BUILT">> /\ Ensure!Enough("symbol")
         \/ flow.todo = <<>> /\ FeaturesAreOfBars
         \/ flow.todo = <<>> /\ Ensure!CorePlan # <<>> /\ "FEATURES_BUILT" \notin flow.did
    /\ "FEATURES_BUILT" \in flow.did => flow.todo = <<>>
    /\ Clear => ~flow.failed /\ Complete("symbol") /\ Complete("benchmark")
                /\ (flow.todo = <<"FEATURES_BUILT">> \/ Ensure!Exact)

\* What a flow that is about to finish has made sure of.
ScoreInv ==
  Ensure!At("score") =>
    /\ flow.todo \in {<<>>, <<"SCORED">>}
    /\ "core" \in flow.did /\ ~flow.failed => FeaturesAreOfBars \/ (flow.todo = <<>> /\ Ensure!CorePlan # <<>>)
    /\ flow.force /\ "FEATURES_BUILT" \in flow.did /\ ~flow.failed =>
         flow.todo = <<"SCORED">> \/ score.of = features.of
    /\ Clear /\ SamePolicy =>
         ~flow.failed /\ Complete("symbol") /\ Complete("benchmark") /\ Ensure!Exact
         /\ (flow.todo = <<"SCORED">> \/ Ensure!Scored)

FlowInv == Ensure!TypeOK /\ FlowType /\ SymbolsInv /\ ProvisionInv /\ FeaturesInv /\ ScoreInv

-----------------------------------------------------------------------------
(* Plans *)

\* What is left of a plan when its first action is done.
LEMMA Tails ==
  ASSUME NEW x, NEW y, NEW z, NEW w
  PROVE  /\ Head(<<x>>) = x /\ Tail(<<x>>) = <<>> /\ <<x>> # <<>>
         /\ Head(<<x, y>>) = x /\ Tail(<<x, y>>) = <<y>> /\ <<x, y>> # <<>>
         /\ Head(<<x, y, z>>) = x /\ Tail(<<x, y, z>>) = <<y, z>> /\ <<x, y, z>> # <<>>
         /\ Head(<<x, y, z, w>>) = x /\ Tail(<<x, y, z, w>>) = <<y, z, w>> /\ <<x, y, z, w>> # <<>>
OBVIOUS

\* Plans of one action each, joined.
LEMMA JoinOneOne ==
  ASSUME NEW x, NEW y
  PROVE  <<x>> \o <<y>> = <<x, y>>
<1> DEFINE S == {x, y}
<1> DEFINE s == <<x>> \o <<y>>
           t == <<x, y>>
<1>1. s \in Seq(S) /\ t \in Seq(S)
  OBVIOUS
<1>2. Len(s) = 2 /\ Len(t) = 2
  OBVIOUS
<1>3. Len(s) = Len(t) /\ \A i \in 1 .. Len(s) : s[i] = t[i]
  OBVIOUS
<1> HIDE DEF s, t, S
<1>4. s = t
  BY <1>1, <1>2, <1>3, SeqEqual
<1> QED BY <1>4 DEF s, t

\* A plan of one action joined with one of two.
LEMMA JoinOneTwo ==
  ASSUME NEW x, NEW z, NEW w
  PROVE  <<x>> \o <<z, w>> = <<x, z, w>>
<1> DEFINE S == {x, z, w}
<1> DEFINE s == <<x>> \o <<z, w>>
           t == <<x, z, w>>
<1>1. s \in Seq(S) /\ t \in Seq(S)
  OBVIOUS
<1>2. Len(s) = 3 /\ Len(t) = 3
  OBVIOUS
<1>3. Len(s) = Len(t) /\ \A i \in 1 .. Len(s) : s[i] = t[i]
  OBVIOUS
<1> HIDE DEF s, t, S
<1>4. s = t
  BY <1>1, <1>2, <1>3, SeqEqual
<1> QED BY <1>4 DEF s, t

\* Two plans of two actions joined.
LEMMA JoinTwoTwo ==
  ASSUME NEW x, NEW y, NEW z, NEW w
  PROVE  <<x, y>> \o <<z, w>> = <<x, y, z, w>>
<1> DEFINE S == {x, y, z, w}
<1> DEFINE s == <<x, y>> \o <<z, w>>
           t == <<x, y, z, w>>
<1>1. s \in Seq(S) /\ t \in Seq(S)
  OBVIOUS
<1>2. Len(s) = 4 /\ Len(t) = 4
  OBVIOUS
<1>3. Len(s) = Len(t) /\ \A i \in 1 .. Len(s) : s[i] = t[i]
  OBVIOUS
<1> HIDE DEF s, t, S
<1>4. s = t
  BY <1>1, <1>2, <1>3, SeqEqual
<1> QED BY <1>4 DEF s, t

\* A plan joined with an empty one.
LEMMA JoinNone ==
  ASSUME NEW x, NEW y
  PROVE  /\ <<>> \o <<>> = <<>> /\ <<>> \o <<x>> = <<x>> /\ <<>> \o <<x, y>> = <<x, y>>
         /\ <<x>> \o <<>> = <<x>> /\ <<x, y>> \o <<>> = <<x, y>>
OBVIOUS

\* A plan without actions for the symbol means complete bars; one that only builds,
\* complete raw rows.
LEMMA SymbolPlanIs ==
  ASSUME Ensure!TypeOK
  PROVE  /\ Ensure!SymbolPlan \in SymbolPlans
         /\ Ensure!SymbolPlan = <<>> <=> ~Ensure!CanonicalIssues /\ ~Ensure!Behind("symbol")
         /\ Ensure!SymbolPlan = <<>> => Complete("symbol")
         /\ Ensure!SymbolPlan = <<"CANONICAL_BUILT">> => stored["symbol"] = Ensure!Block
<1>1. promoted["symbol"] \in SUBSET Ensure!Block
  BY DEF Ensure!TypeOK, Ensure!Series
<1>2. CASE ~Ensure!CanonicalIssues /\ ~Ensure!Behind("symbol")
  <2>1. Ensure!SymbolPlan = <<>>
    BY <1>2 DEF Ensure!SymbolPlan
  <2>2. Complete("symbol")
    BY <1>1, <1>2 DEF Ensure!CanonicalIssues, Ensure!Enough, Ensure!Behind, Complete, Ensure!Block
  <2> QED BY <1>2, <2>1, <2>2 DEF SymbolPlans
<1>3. CASE ~(~Ensure!CanonicalIssues /\ ~Ensure!Behind("symbol"))
  <2>1. CASE gapOpen \/ stored["symbol"] # Ensure!Block
    <3>1. Ensure!SymbolPlan = <<"OHLCV_SYNCED">> \o <<"CANONICAL_BUILT">>
      BY <1>3, <2>1 DEF Ensure!SymbolPlan
    <3>2. Ensure!SymbolPlan = <<"OHLCV_SYNCED", "CANONICAL_BUILT">>
      BY <3>1, JoinOneOne
    <3> QED BY <1>3, <3>2 DEF SymbolPlans
  <2>2. CASE ~(gapOpen \/ stored["symbol"] # Ensure!Block)
    <3>1. Ensure!SymbolPlan = <<>> \o <<"CANONICAL_BUILT">>
      BY <1>3, <2>2 DEF Ensure!SymbolPlan
    <3>2. Ensure!SymbolPlan = <<"CANONICAL_BUILT">>
      BY <3>1, JoinNone
    <3> QED BY <1>3, <2>2, <3>2 DEF SymbolPlans
  <2> QED BY <2>1, <2>2
<1> QED BY <1>2, <1>3

\* The benchmark is planned for unless its bars are complete.
LEMMA BenchmarkPlanIs ==
  ASSUME Ensure!TypeOK
  PROVE  /\ Ensure!BenchmarkPlan = <<>> \/ Ensure!BenchmarkPlan = <<"BENCHMARK_SYNCED", "BENCHMARK_CANONICAL_BUILT">>
         /\ Ensure!BenchmarkPlan = <<>> => Complete("benchmark")
         /\ Complete("benchmark") => Ensure!BenchmarkPlan = <<>>
<1>1. promoted["benchmark"] \in SUBSET Ensure!Block
  BY DEF Ensure!TypeOK, Ensure!Series
<1> QED BY <1>1 DEF Ensure!BenchmarkPlan, Ensure!Enough, Ensure!Behind, Complete, Ensure!Block

\* Two plans joined.
LEMMA JoinedIs ==
  ASSUME NEW p \in SymbolPlans, NEW q, q = <<>> \/ q = <<"BENCHMARK_SYNCED", "BENCHMARK_CANONICAL_BUILT">>
  PROVE  /\ p \o q \in SymbolPlans \cup BenchmarkPlans \cup WithBenchmark
         /\ p \o q = <<>> <=> p = <<>> /\ q = <<>>
         /\ p \o q \in BenchmarkPlans => p = <<>>
         /\ p \o q \in SymbolPlans => q = <<>>
         /\ p \o q # <<"BENCHMARK_CANONICAL_BUILT">>
         /\ p \o q \in {<<"CANONICAL_BUILT">>,
                       <<"CANONICAL_BUILT", "BENCHMARK_SYNCED", "BENCHMARK_CANONICAL_BUILT">>}
              => p = <<"CANONICAL_BUILT">>
<1>1. CASE q = <<>>
  <2>1. p \o q = p
    BY <1>1, JoinNone DEF SymbolPlans
  <2> QED BY <1>1, <2>1, Tails DEF SymbolPlans, BenchmarkPlans
<1>2. CASE q # <<>>
  <2>1. CASE p = <<>>
    <3>1. p \o q = <<"BENCHMARK_SYNCED", "BENCHMARK_CANONICAL_BUILT">>
      BY <1>2, <2>1, JoinNone
    <3> QED BY <1>2, <2>1, <3>1 DEF SymbolPlans, BenchmarkPlans
  <2>2. CASE p = <<"CANONICAL_BUILT">>
    <3>1. <<"CANONICAL_BUILT">> \o <<"BENCHMARK_SYNCED", "BENCHMARK_CANONICAL_BUILT">> = <<"CANONICAL_BUILT", "BENCHMARK_SYNCED", "BENCHMARK_CANONICAL_BUILT">>
      BY JoinOneTwo
    <3>2. p \o q = <<"CANONICAL_BUILT", "BENCHMARK_SYNCED", "BENCHMARK_CANONICAL_BUILT">>
      BY <1>2, <2>2, <3>1
    <3> QED BY <1>2, <2>2, <3>2 DEF SymbolPlans, BenchmarkPlans, WithBenchmark
  <2>3. CASE p = <<"OHLCV_SYNCED", "CANONICAL_BUILT">>
    <3>1. <<"OHLCV_SYNCED", "CANONICAL_BUILT">> \o <<"BENCHMARK_SYNCED", "BENCHMARK_CANONICAL_BUILT">> = <<"OHLCV_SYNCED", "CANONICAL_BUILT", "BENCHMARK_SYNCED", "BENCHMARK_CANONICAL_BUILT">>
      BY JoinTwoTwo
    <3>2. p \o q = <<"OHLCV_SYNCED", "CANONICAL_BUILT", "BENCHMARK_SYNCED", "BENCHMARK_CANONICAL_BUILT">>
      BY <1>2, <2>3, <3>1
    <3> QED BY <1>2, <2>3, <3>2 DEF SymbolPlans, BenchmarkPlans, WithBenchmark
  <2> QED BY <2>1, <2>2, <2>3 DEF SymbolPlans
<1> QED BY <1>1, <1>2

\* A flow that may act and plans nothing for the bars has enough of them.
LEMMA CorePlanIs ==
  ASSUME Ensure!TypeOK
  PROVE  /\ Ensure!CorePlan = <<>> /\ flow.auto => Ensure!Enough("symbol")
         /\ ~gapOpen /\ Complete("symbol") /\ Complete("benchmark") => Ensure!CorePlan = <<>>
<1>1. Ensure!SymbolPlan \in SymbolPlans /\ (Ensure!BenchmarkPlan = <<>> \/ Ensure!BenchmarkPlan = <<"BENCHMARK_SYNCED", "BENCHMARK_CANONICAL_BUILT">>)
  BY SymbolPlanIs, BenchmarkPlanIs
<1>2. Ensure!SymbolPlan \o Ensure!BenchmarkPlan = <<>> <=> Ensure!SymbolPlan = <<>> /\ Ensure!BenchmarkPlan = <<>>
  BY <1>1, JoinedIs
<1>3. ASSUME Ensure!CorePlan = <<>>, flow.auto PROVE Ensure!Enough("symbol")
  <2>1. CASE Ensure!Eligible
    BY <2>1 DEF Ensure!Eligible, Ensure!CanonicalIssues
  <2>2. CASE ~Ensure!Eligible
    <3>1. Ensure!SymbolPlan = <<>>
      BY <1>2, <1>3, <2>2 DEF Ensure!CorePlan
    <3> QED BY <3>1, SymbolPlanIs DEF Ensure!CanonicalIssues
  <2> QED BY <2>1, <2>2
<1>4. ASSUME ~gapOpen, Complete("symbol"), Complete("benchmark") PROVE Ensure!CorePlan = <<>>
  <2>1. ~Ensure!CanonicalIssues /\ ~Ensure!Behind("symbol")
    BY <1>4 DEF Ensure!CanonicalIssues, Ensure!Enough, Ensure!Behind, Complete, Ensure!Block
  <2>2. Ensure!SymbolPlan = <<>> /\ Ensure!BenchmarkPlan = <<>>
    BY <1>4, <2>1, SymbolPlanIs, BenchmarkPlanIs
  <2> QED BY <1>2, <2>2 DEF Ensure!CorePlan
<1> QED BY <1>3, <1>4

\* What a flow does first is enough for both series, when no gap is open.
LEMMA RefreshPlanIs ==
  ASSUME Ensure!TypeOK, flow.force \/ ~Ensure!Eligible
  PROVE  /\ Ensure!RefreshPlan \in SymbolPlans \cup BenchmarkPlans \cup WithBenchmark
         /\ ~flow.auto => Ensure!RefreshPlan = <<>>
         /\ flow.auto =>
              /\ Ensure!RefreshPlan \in BenchmarkPlans => Complete("symbol")
              /\ Ensure!RefreshPlan \in SymbolPlans => Complete("benchmark")
              /\ Ensure!RefreshPlan # <<"BENCHMARK_CANONICAL_BUILT">>
              /\ Ensure!RefreshPlan \in {<<"CANONICAL_BUILT">>,
                                  <<"CANONICAL_BUILT", "BENCHMARK_SYNCED", "BENCHMARK_CANONICAL_BUILT">>}
                   => stored["symbol"] = Ensure!Block
<1>1. CASE ~flow.auto
  <2>1. Ensure!RefreshPlan = <<>>
    BY <1>1 DEF Ensure!RefreshPlan, Ensure!CorePlan
  <2> QED BY <1>1, <2>1 DEF SymbolPlans
<1>2. CASE flow.auto
  <2> DEFINE p == IF flow.force /\ Ensure!Enough("symbol") THEN <<"OHLCV_SYNCED", "CANONICAL_BUILT">> ELSE Ensure!SymbolPlan
             q == IF flow.force /\ Ensure!Enough("benchmark") THEN <<"BENCHMARK_SYNCED", "BENCHMARK_CANONICAL_BUILT">>
                  ELSE Ensure!BenchmarkPlan
  <2>1. Ensure!RefreshPlan = p \o q
    BY <1>2 DEF Ensure!RefreshPlan, Ensure!CorePlan
  <2>2. p \in SymbolPlans /\ (p = <<>> => Complete("symbol")) /\ (p = <<"CANONICAL_BUILT">> => stored["symbol"] = Ensure!Block)
    BY SymbolPlanIs, Tails DEF SymbolPlans
  <2>3. (q = <<>> \/ q = <<"BENCHMARK_SYNCED", "BENCHMARK_CANONICAL_BUILT">>) /\ (q = <<>> => Complete("benchmark"))
    BY BenchmarkPlanIs, Tails
  <2> HIDE DEF p, q
  <2> QED BY <1>2, <2>1, <2>2, <2>3, JoinedIs
<1> QED BY <1>1, <1>2

-----------------------------------------------------------------------------
(* The steps *)

\* No flow is under way at first.
LEMMA FlowInit == MaxVersions \in Nat /\ Ensure!Init => FlowInv
<1> SUFFICES ASSUME MaxVersions \in Nat, Ensure!Init PROVE FlowInv
  OBVIOUS
<1>1. fetched \in Ensure!Versions /\ promotedFrom \in Ensure!Versions /\ \A s \in Ensure!Series : promotedFrom[s] <= fetched[s]
  BY DEF Ensure!Init, Ensure!Versions
<1>2. score \in Ensure!Scores \cup {Ensure!None}
  BY <1>1 DEF Ensure!Init, Ensure!Scores
<1>3. flow = [at |-> "idle", todo |-> <<>>, force |-> FALSE, auto |-> TRUE,
              did |-> {}, failed |-> FALSE, troubled |-> FALSE, answer |-> "none"]
  BY DEF Ensure!Init, Ensure!Idle
<1>4. Ensure!TypeOK
  <2>1. stored \in [Ensure!Series -> SUBSET Ensure!Block] /\ promoted \in [Ensure!Series -> SUBSET Ensure!Block] /\ \A s \in Ensure!Series : promoted[s] \subseteq stored[s]
    BY DEF Ensure!Init
  <2>2. known \in BOOLEAN /\ gapOpen \in BOOLEAN /\ features \in Ensure!Features \cup {Ensure!None} /\ strength \in Ensure!Features \cup {Ensure!None}
    BY DEF Ensure!Init
  <2> QED BY <2>1, <2>2, <1>1, <1>2, <1>3 DEF Ensure!TypeOK
<1>5. FlowType
  BY <1>3 DEF FlowType, SymbolPlans
<1>6. SymbolsInv /\ ProvisionInv /\ FeaturesInv /\ ScoreInv
  BY <1>3 DEF SymbolsInv, ProvisionInv, FeaturesInv, ScoreInv, Ensure!At
<1> QED BY <1>4, <1>5, <1>6 DEF FlowInv

\* An idle flow has nothing to keep.
LEMMA IdleKeeps ==
  ASSUME Ensure!TypeOK', FlowType', flow'.at = "idle"
  PROVE  FlowInv'
BY DEF FlowInv, SymbolsInv, ProvisionInv, FeaturesInv, ScoreInv, Ensure!At

\* A flow that concludes is idle again.
LEMMA ConcludeIs ==
  ASSUME NEW word \in {"none", "READY", "PARTIAL", "FAILED"}, flow' = [Ensure!Idle EXCEPT !.answer = word]
  PROVE  /\ FlowType' /\ flow'.at = "idle" /\ flow'.answer = word
         /\ flow'.at \in {"idle", "symbols", "provision", "features", "score", "finish"}
BY DEF FlowType, Ensure!Idle, SymbolPlans

\* A step of the flow that writes nothing keeps the types.
LEMMA DataTypeKept ==
  ASSUME Ensure!TypeOK, UNCHANGED Ensure!data, FlowType'
  PROVE  Ensure!TypeOK'
BY DEF Ensure!TypeOK, Ensure!data, FlowType

\* A flow begins, unless all is there already.
LEMMA BeginStep ==
  ASSUME FlowInv, NEW force \in BOOLEAN, NEW auto \in BOOLEAN, Ensure!Begin(force, auto)
  PROVE  FlowInv'
<1>0. Ensure!TypeOK /\ UNCHANGED Ensure!data
  BY DEF FlowInv, Ensure!Begin
<1>1. CASE Ensure!Eligible /\ ~force
  <2>1. flow' = [Ensure!Idle EXCEPT !.answer = "READY"]
    BY <1>1 DEF Ensure!Begin
  <2> QED BY <1>0, <2>1, ConcludeIs, DataTypeKept, IdleKeeps
<1>2. CASE ~(Ensure!Eligible /\ ~force)
  <2>1. flow' = [at |-> "symbols", todo |-> <<>>, force |-> force, auto |-> auto,
                 did |-> {}, failed |-> FALSE, troubled |-> FALSE, answer |-> "none"]
    BY <1>2 DEF Ensure!Begin, Ensure!Idle
  <2>2. FlowType'
    BY <2>1 DEF FlowType, SymbolPlans
  <2>3. Ensure!Eligible' = Ensure!Eligible
    BY <1>0 DEF Ensure!data, Ensure!Eligible, Ensure!Scored, Ensure!Exact,
       Ensure!CanonicalIssues, Ensure!Enough
  <2>4. SymbolsInv' /\ ProvisionInv' /\ FeaturesInv' /\ ScoreInv'
    BY <1>2, <2>1, <2>3 DEF SymbolsInv, ProvisionInv, FeaturesInv, ScoreInv, Ensure!At
  <2> QED BY <1>0, <2>2, <2>4, DataTypeKept DEF FlowInv
<1> QED BY <1>1, <1>2

\* A flow syncs the symbols and plans.
LEMMA SyncSymbolsStep ==
  ASSUME FlowInv, Ensure!SyncSymbols
  PROVE  FlowInv'
<1>0. Ensure!TypeOK /\ FlowType /\ SymbolsInv /\ flow.at = "symbols"
      /\ UNCHANGED <<stored, fetched, promoted, promotedFrom, gapOpen, features, strength, score>>
  BY DEF FlowInv, Ensure!SyncSymbols, Ensure!At
<1>1. known' \in BOOLEAN
  BY <1>0 DEF Ensure!SyncSymbols, Ensure!TypeOK
<1>2. CASE known'
  <2>1. PICK raised \in BOOLEAN :
          flow' = [flow EXCEPT !.at = "provision", !.todo = Ensure!RefreshPlan, !.failed = raised, !.troubled = raised]
    BY <1>2 DEF Ensure!SyncSymbols
  <2>2. flow.force \/ ~Ensure!Eligible
    BY <1>0 DEF SymbolsInv, Ensure!At
  <2>3. Ensure!RefreshPlan \in SymbolPlans \cup BenchmarkPlans \cup WithBenchmark /\ (~flow.auto => Ensure!RefreshPlan = <<>>)
    BY <1>0, <2>2, RefreshPlanIs
  <2>4. flow.auto =>
          /\ Ensure!RefreshPlan \in BenchmarkPlans => Complete("symbol")
          /\ Ensure!RefreshPlan \in SymbolPlans => Complete("benchmark")
          /\ Ensure!RefreshPlan # <<"BENCHMARK_CANONICAL_BUILT">>
          /\ Ensure!RefreshPlan \in {<<"CANONICAL_BUILT">>,
                              <<"CANONICAL_BUILT", "BENCHMARK_SYNCED", "BENCHMARK_CANONICAL_BUILT">>}
               => stored["symbol"] = Ensure!Block
    BY <1>0, <2>2, RefreshPlanIs
  <2> DEFINE plan == Ensure!RefreshPlan
  <2> HIDE DEF plan
  <2>5. /\ flow'.at = "provision" /\ flow'.todo = plan /\ flow'.did = {} /\ flow'.auto = flow.auto
        /\ flow'.failed = raised /\ flow'.troubled = raised /\ flow'.answer = flow.answer
    BY <1>0, <2>1 DEF FlowType, SymbolsInv, Ensure!At, plan
  <2>6. FlowType'
    BY <1>0, <2>1, <2>3 DEF FlowType
  <2>7. Ensure!TypeOK'
    BY <1>0, <1>1, <2>5, <2>6 DEF Ensure!TypeOK, FlowType
  <2>8. Clear' => ~flow'.failed /\ flow.auto
    BY <2>5 DEF Clear
  <2>9. flow.auto => SymbolInv' /\ BenchmarkInv'
    BY <1>0, <2>4, <2>5 DEF SymbolInv, BenchmarkInv, Complete, plan
  <2>10. ProvisionInv'
    BY <2>3, <2>5, <2>8, <2>9 DEF ProvisionInv, plan
  <2>11. SymbolsInv' /\ FeaturesInv' /\ ScoreInv'
    BY <2>5 DEF SymbolsInv, FeaturesInv, ScoreInv, Ensure!At
  <2> QED BY <2>6, <2>7, <2>10, <2>11 DEF FlowInv
<1>3. CASE ~known'
  <2>1. flow' = [Ensure!Idle EXCEPT !.answer = "FAILED"]
    BY <1>3 DEF Ensure!SyncSymbols, Ensure!Conclude
  <2>2. FlowType' /\ flow'.at = "idle"
    BY <2>1, ConcludeIs
  <2>3. Ensure!TypeOK'
    BY <1>0, <1>1, <2>2 DEF Ensure!TypeOK, FlowType
  <2> QED BY <2>2, <2>3, IdleKeeps
<1> QED BY <1>1, <1>2, <1>3

\* The plans a core action may head, and what it leaves of them.
LEMMA HeadsOfPlans ==
  ASSUME NEW p \in SymbolPlans \cup BenchmarkPlans \cup WithBenchmark, p # <<>>
  PROVE  /\ Tail(p) \in SymbolPlans \cup BenchmarkPlans \cup WithBenchmark
         /\ Ensure!Kind(Head(p)) = "core"
         /\ Head(p) = "OHLCV_SYNCED" =>
              /\ p \notin BenchmarkPlans /\ Tail(p) \notin BenchmarkPlans
              /\ Tail(p) \in SymbolPlans => p \in SymbolPlans
         /\ Head(p) = "CANONICAL_BUILT" =>
              /\ p \in {<<"CANONICAL_BUILT">>,
                        <<"CANONICAL_BUILT", "BENCHMARK_SYNCED", "BENCHMARK_CANONICAL_BUILT">>}
              /\ Tail(p) \in BenchmarkPlans /\ Tail(p) # <<"BENCHMARK_CANONICAL_BUILT">>
              /\ Tail(p) \in SymbolPlans => p \in SymbolPlans
         /\ Head(p) = "BENCHMARK_SYNCED" =>
              /\ p \in BenchmarkPlans /\ Tail(p) = <<"BENCHMARK_CANONICAL_BUILT">>
              /\ Tail(p) \notin SymbolPlans
         /\ Head(p) = "BENCHMARK_CANONICAL_BUILT" =>
              /\ p = <<"BENCHMARK_CANONICAL_BUILT">> /\ p \in BenchmarkPlans /\ Tail(p) = <<>>
<1>1. p \in {<<"CANONICAL_BUILT">>, <<"OHLCV_SYNCED", "CANONICAL_BUILT">>, <<"BENCHMARK_CANONICAL_BUILT">>,
             <<"BENCHMARK_SYNCED", "BENCHMARK_CANONICAL_BUILT">>,
             <<"CANONICAL_BUILT", "BENCHMARK_SYNCED", "BENCHMARK_CANONICAL_BUILT">>,
             <<"OHLCV_SYNCED", "CANONICAL_BUILT", "BENCHMARK_SYNCED", "BENCHMARK_CANONICAL_BUILT">>}
  BY DEF SymbolPlans, BenchmarkPlans, WithBenchmark
<1>2. CASE p = <<"CANONICAL_BUILT">>
  BY <1>2, Tails DEF SymbolPlans, BenchmarkPlans, WithBenchmark, Ensure!Kind, Ensure!CoreActions
<1>3. CASE p = <<"OHLCV_SYNCED", "CANONICAL_BUILT">>
  BY <1>3, Tails DEF SymbolPlans, BenchmarkPlans, WithBenchmark, Ensure!Kind, Ensure!CoreActions
<1>4. CASE p = <<"BENCHMARK_CANONICAL_BUILT">>
  BY <1>4, Tails DEF SymbolPlans, BenchmarkPlans, WithBenchmark, Ensure!Kind, Ensure!CoreActions
<1>5. CASE p = <<"BENCHMARK_SYNCED", "BENCHMARK_CANONICAL_BUILT">>
  BY <1>5, Tails DEF SymbolPlans, BenchmarkPlans, WithBenchmark, Ensure!Kind, Ensure!CoreActions
<1>6. CASE p = <<"CANONICAL_BUILT", "BENCHMARK_SYNCED", "BENCHMARK_CANONICAL_BUILT">>
  BY <1>6, Tails DEF SymbolPlans, BenchmarkPlans, WithBenchmark, Ensure!Kind, Ensure!CoreActions
<1>7. CASE p = <<"OHLCV_SYNCED", "CANONICAL_BUILT", "BENCHMARK_SYNCED", "BENCHMARK_CANONICAL_BUILT">>
  BY <1>7, Tails DEF SymbolPlans, BenchmarkPlans, WithBenchmark, Ensure!Kind, Ensure!CoreActions
<1> QED BY <1>1, <1>2, <1>3, <1>4, <1>5, <1>6, <1>7

\* What is left after an action of a stage.
LEMMA OutcomeIs ==
  ASSUME FlowType, flow.todo # <<>>, NEW ok \in BOOLEAN, NEW trouble \in BOOLEAN, Ensure!Outcome(ok, trouble)
  PROVE  /\ FlowType'
         /\ flow'.at = flow.at /\ flow'.force = flow.force /\ flow'.auto = flow.auto
         /\ flow'.todo = Tail(flow.todo)
         /\ flow'.did = IF ok THEN flow.did \cup {Ensure!Kind(Head(flow.todo))} ELSE flow.did
         /\ flow'.failed = (flow.failed \/ ~ok)
         /\ flow'.troubled = (flow.troubled \/ trouble)
<1>1. flow' = [flow EXCEPT !.todo = Tail(flow.todo),
                       !.did = IF ok THEN flow.did \cup {Ensure!Kind(Head(flow.todo))} ELSE flow.did,
                       !.failed = flow.failed \/ ~ok,
                       !.troubled = flow.troubled \/ trouble]
  BY DEF Ensure!Outcome
<1>2. flow.todo \in {<<"CANONICAL_BUILT">>, <<"OHLCV_SYNCED", "CANONICAL_BUILT">>, <<"BENCHMARK_CANONICAL_BUILT">>,
                     <<"BENCHMARK_SYNCED", "BENCHMARK_CANONICAL_BUILT">>,
                     <<"CANONICAL_BUILT", "BENCHMARK_SYNCED", "BENCHMARK_CANONICAL_BUILT">>,
                     <<"OHLCV_SYNCED", "CANONICAL_BUILT", "BENCHMARK_SYNCED", "BENCHMARK_CANONICAL_BUILT">>,
                     <<"FEATURES_BUILT">>, <<"SCORED">>}
  BY DEF FlowType, SymbolPlans, BenchmarkPlans, WithBenchmark
<1>3. Tail(flow.todo) \in SymbolPlans \cup BenchmarkPlans \cup WithBenchmark
  <2>1. CASE flow.todo \in {<<"FEATURES_BUILT">>, <<"SCORED">>}
    <3>1. CASE flow.todo = <<"FEATURES_BUILT">>
      BY <3>1, Tails DEF SymbolPlans
    <3>2. CASE flow.todo = <<"SCORED">>
      BY <3>2, Tails DEF SymbolPlans
    <3> QED BY <2>1, <3>1, <3>2
  <2>2. CASE flow.todo \notin {<<"FEATURES_BUILT">>, <<"SCORED">>}
    BY <2>2, HeadsOfPlans DEF FlowType
  <2> QED BY <2>1, <2>2
<1>4. Ensure!Kind(Head(flow.todo)) \in {"core", "FEATURES_BUILT", "SCORED"}
  BY <1>2, Tails DEF Ensure!Kind, Ensure!CoreActions
<1>5. /\ (flow.failed \/ ~ok) \in BOOLEAN /\ (flow.troubled \/ trouble) \in BOOLEAN
      /\ (IF ok THEN flow.did \cup {Ensure!Kind(Head(flow.todo))} ELSE flow.did) \in SUBSET {"core", "FEATURES_BUILT", "SCORED"}
  BY <1>4 DEF FlowType
<1>6. FlowType'
  BY <1>1, <1>3, <1>5 DEF FlowType
<1> QED BY <1>1, <1>6 DEF FlowType

\* A provider gives what it has of a series.
LEMMA SyncBarsStep ==
  ASSUME MaxVersions \in Nat, FlowInv, NEW s \in Ensure!Series, NEW action,
         \/ s = "symbol" /\ action = "OHLCV_SYNCED"
         \/ s = "benchmark" /\ action = "BENCHMARK_SYNCED",
         Ensure!SyncBars(s, action)
  PROVE  FlowInv'
<1> DEFINE todo == flow.todo
<1>0. /\ Ensure!TypeOK /\ FlowType /\ ProvisionInv /\ flow.at = "provision"
      /\ todo # <<>> /\ Head(todo) = action
      /\ UNCHANGED <<known, promoted, promotedFrom, gapOpen, features, strength, score>>
  BY DEF FlowInv, Ensure!SyncBars, Ensure!Doing, Ensure!At
<1>1. PICK got \in SUBSET Ensure!Block :
        /\ stored' = [stored EXCEPT ![s] = stored[s] \cup got]
        /\ \/ UNCHANGED fetched
           \/ got # {} /\ fetched[s] < MaxVersions /\ fetched' = [fetched EXCEPT ![s] = fetched[s] + 1]
        /\ Ensure!Outcome(stored'[s] = Ensure!Block, got # Ensure!Block)
  BY DEF Ensure!SyncBars
<1>2. todo \in SymbolPlans \cup BenchmarkPlans \cup WithBenchmark /\ flow.did \subseteq {"core"} /\ flow.auto
  BY <1>0 DEF ProvisionInv, Ensure!At
<1>3. /\ FlowType'
      /\ flow'.at = flow.at /\ flow'.force = flow.force /\ flow'.auto = flow.auto
      /\ flow'.todo = Tail(todo)
      /\ flow'.did = IF stored'[s] = Ensure!Block THEN flow.did \cup {Ensure!Kind(Head(todo))} ELSE flow.did
      /\ flow'.failed = (flow.failed \/ ~(stored'[s] = Ensure!Block))
      /\ flow'.troubled = (flow.troubled \/ got # Ensure!Block)
  BY <1>0, <1>1, OutcomeIs
<1>4. /\ stored' \in [Ensure!Series -> SUBSET Ensure!Block] /\ stored'[s] = stored[s] \cup got
      /\ \A x \in Ensure!Series : stored[x] \subseteq stored'[x]
  BY <1>0, <1>1 DEF Ensure!TypeOK
<1>5. fetched' \in Ensure!Versions /\ \A x \in Ensure!Series : promotedFrom[x] <= fetched'[x]
  <2>1. \A x \in Ensure!Series : fetched[x] \in 0..MaxVersions /\ promotedFrom[x] \in 0..MaxVersions /\ promotedFrom[x] <= fetched[x]
    BY <1>0 DEF Ensure!TypeOK, Ensure!Versions
  <2>2. CASE UNCHANGED fetched
    BY <1>0, <2>1, <2>2 DEF Ensure!TypeOK
  <2>3. CASE fetched[s] < MaxVersions /\ fetched' = [fetched EXCEPT ![s] = fetched[s] + 1]
    <3>1. fetched[s] + 1 \in 0..MaxVersions /\ fetched[s] <= fetched[s] + 1
      BY <2>1, <2>3
    <3>2. \A x \in Ensure!Series : fetched'[x] = IF x = s THEN fetched[s] + 1 ELSE fetched[x]
      BY <1>0, <2>3 DEF Ensure!TypeOK, Ensure!Versions
    <3>3. fetched' \in Ensure!Versions
      BY <1>0, <2>3, <3>1 DEF Ensure!TypeOK, Ensure!Versions
    <3>4. ASSUME NEW x \in Ensure!Series PROVE promotedFrom[x] <= fetched'[x]
      BY <2>1, <3>1, <3>2
    <3> QED BY <3>3, <3>4
  <2> QED BY <1>1, <2>2, <2>3
<1>6. Ensure!TypeOK'
  BY <1>0, <1>3, <1>4, <1>5 DEF Ensure!TypeOK, FlowType
<1>7. flow'.todo \in SymbolPlans \cup BenchmarkPlans \cup WithBenchmark /\ flow'.did \subseteq {"core"}
  BY <1>0, <1>2, <1>3, HeadsOfPlans
<1>8. ASSUME Clear' PROVE ~flow'.failed /\ SymbolInv' /\ BenchmarkInv'
  <2>1. Clear /\ got = Ensure!Block
    BY <1>0, <1>3, <1>8 DEF Clear, FlowType
  <2>2. stored'[s] = Ensure!Block
    BY <1>4, <2>1, <1>0 DEF Ensure!TypeOK
  <2>3. ~flow.failed /\ SymbolInv /\ BenchmarkInv
    BY <1>0, <2>1 DEF ProvisionInv, Ensure!At
  <2>4. CASE s = "symbol"
    <3>1. stored'["benchmark"] = stored["benchmark"] /\ stored'["symbol"] = Ensure!Block /\ Head(todo) = "OHLCV_SYNCED"
      BY <1>0, <1>1, <2>2, <2>4 DEF Ensure!TypeOK, Ensure!Series
    <3>2. /\ Tail(todo) \notin BenchmarkPlans /\ (Tail(todo) \in SymbolPlans => todo \in SymbolPlans)
          /\ <<"BENCHMARK_CANONICAL_BUILT">> \in BenchmarkPlans
      BY <1>0, <1>2, <3>1, HeadsOfPlans DEF BenchmarkPlans
    <3> QED BY <1>0, <1>3, <2>2, <2>3, <3>1, <3>2 DEF SymbolInv, BenchmarkInv, Complete
  <2>5. CASE s = "benchmark"
    <3>1. stored'["symbol"] = stored["symbol"] /\ stored'["benchmark"] = Ensure!Block /\ Head(todo) = "BENCHMARK_SYNCED"
      BY <1>0, <1>1, <2>2, <2>5 DEF Ensure!TypeOK, Ensure!Series
    <3>2. todo \in BenchmarkPlans /\ Tail(todo) = <<"BENCHMARK_CANONICAL_BUILT">> /\ Tail(todo) \notin SymbolPlans
      BY <1>0, <1>2, <3>1, HeadsOfPlans
    <3>3. Tail(todo) # <<"CANONICAL_BUILT">>
          /\ Tail(todo) # <<"CANONICAL_BUILT", "BENCHMARK_SYNCED", "BENCHMARK_CANONICAL_BUILT">>
      BY <3>2
    <3> QED BY <1>0, <1>3, <2>2, <2>3, <3>1, <3>2, <3>3 DEF SymbolInv, BenchmarkInv, Complete
  <2> QED BY <2>4, <2>5 DEF Ensure!Series
<1>9. ProvisionInv'
  BY <1>2, <1>3, <1>7, <1>8 DEF ProvisionInv
<1>10. SymbolsInv' /\ FeaturesInv' /\ ScoreInv'
  BY <1>0, <1>3 DEF SymbolsInv, FeaturesInv, ScoreInv, Ensure!At
<1> QED BY <1>3, <1>6, <1>9, <1>10 DEF FlowInv

\* A series is promoted from what is stored of it.
LEMMA BuildCanonicalStep ==
  ASSUME FlowInv, NEW s \in Ensure!Series, NEW action,
         \/ s = "symbol" /\ action = "CANONICAL_BUILT"
         \/ s = "benchmark" /\ action = "BENCHMARK_CANONICAL_BUILT",
         Ensure!BuildCanonical(s, action)
  PROVE  FlowInv'
<1> DEFINE todo == flow.todo
<1>0. /\ Ensure!TypeOK /\ FlowType /\ ProvisionInv /\ flow.at = "provision"
      /\ todo # <<>> /\ Head(todo) = action
      /\ UNCHANGED <<known, stored, fetched, gapOpen, features, strength, score>>
  BY DEF FlowInv, Ensure!BuildCanonical, Ensure!Doing, Ensure!At
<1>1. PICK bars \in SUBSET stored[s] :
        /\ promoted' = [promoted EXCEPT ![s] = bars]
        /\ promotedFrom' = [promotedFrom EXCEPT ![s] = fetched[s]]
        /\ Ensure!Outcome(bars = Ensure!Block /\ (s = "symbol" => ~gapOpen), bars # stored[s])
  BY DEF Ensure!BuildCanonical
<1>2. todo \in SymbolPlans \cup BenchmarkPlans \cup WithBenchmark /\ flow.did \subseteq {"core"} /\ flow.auto
  BY <1>0 DEF ProvisionInv, Ensure!At
<1> DEFINE ok == bars = Ensure!Block /\ (s = "symbol" => ~gapOpen)
<1>3. /\ FlowType'
      /\ flow'.at = flow.at /\ flow'.force = flow.force /\ flow'.auto = flow.auto
      /\ flow'.todo = Tail(todo)
      /\ flow'.did = IF ok THEN flow.did \cup {Ensure!Kind(Head(todo))} ELSE flow.did
      /\ flow'.failed = (flow.failed \/ ~ok)
      /\ flow'.troubled = (flow.troubled \/ bars # stored[s])
  <2>1. ok \in BOOLEAN /\ (bars # stored[s]) \in BOOLEAN
    OBVIOUS
  <2>2. Ensure!Outcome(ok, bars # stored[s])
    BY <1>1
  <2> HIDE DEF ok
  <2> QED BY <1>0, <2>1, <2>2, OutcomeIs
<1>4. /\ promoted' \in [Ensure!Series -> SUBSET Ensure!Block] /\ promoted'[s] = bars
      /\ \A x \in Ensure!Series : promoted'[x] \subseteq stored[x]
  BY <1>0, <1>1 DEF Ensure!TypeOK
<1>5. promotedFrom' \in Ensure!Versions /\ \A x \in Ensure!Series : promotedFrom'[x] <= fetched[x]
  <2>1. \A x \in Ensure!Series : fetched[x] \in 0..MaxVersions /\ promotedFrom[x] \in 0..MaxVersions /\ promotedFrom[x] <= fetched[x]
    BY <1>0 DEF Ensure!TypeOK, Ensure!Versions
  <2>2. \A x \in Ensure!Series : promotedFrom'[x] = IF x = s THEN fetched[s] ELSE promotedFrom[x]
    BY <1>0, <1>1 DEF Ensure!TypeOK, Ensure!Versions
  <2>3. promotedFrom' \in Ensure!Versions
    BY <1>0, <1>1, <2>1 DEF Ensure!TypeOK, Ensure!Versions
  <2> QED BY <2>1, <2>2, <2>3
<1>6. Ensure!TypeOK'
  BY <1>0, <1>3, <1>4, <1>5 DEF Ensure!TypeOK, FlowType
<1>7. flow'.todo \in SymbolPlans \cup BenchmarkPlans \cup WithBenchmark /\ flow'.did \subseteq {"core"}
  BY <1>0, <1>2, <1>3, HeadsOfPlans
<1>8. ASSUME Clear' PROVE ~flow'.failed /\ SymbolInv' /\ BenchmarkInv'
  <2>1. Clear /\ bars = stored[s] /\ ~gapOpen
    BY <1>0, <1>3, <1>8 DEF Clear, FlowType
  <2>2. ~flow.failed /\ SymbolInv /\ BenchmarkInv
    BY <1>0, <2>1 DEF ProvisionInv, Ensure!At
  <2>3. CASE s = "symbol"
    <3>1. Head(todo) = "CANONICAL_BUILT"
      BY <1>0, <2>3
    <3>2. /\ todo \in {<<"CANONICAL_BUILT">>,
                       <<"CANONICAL_BUILT", "BENCHMARK_SYNCED", "BENCHMARK_CANONICAL_BUILT">>}
          /\ Tail(todo) \in BenchmarkPlans /\ Tail(todo) # <<"BENCHMARK_CANONICAL_BUILT">>
          /\ Tail(todo) \in SymbolPlans => todo \in SymbolPlans
      BY <1>0, <1>2, <3>1, HeadsOfPlans
    <3>3. promoted'["symbol"] = Ensure!Block /\ promoted'["benchmark"] = promoted["benchmark"] /\ ok
      BY <1>0, <1>1, <1>4, <2>1, <2>2, <2>3, <3>2 DEF SymbolInv, Ensure!TypeOK, Ensure!Series
    <3>4. Tail(todo) = <<>> \/ Tail(todo) = <<"BENCHMARK_SYNCED", "BENCHMARK_CANONICAL_BUILT">>
      BY <3>2 DEF BenchmarkPlans
    <3>5. Tail(todo) # <<"CANONICAL_BUILT">>
          /\ Tail(todo) # <<"CANONICAL_BUILT", "BENCHMARK_SYNCED", "BENCHMARK_CANONICAL_BUILT">>
      BY <3>4
    <3> HIDE DEF ok
    <3> QED BY <1>0, <1>3, <2>2, <3>2, <3>3, <3>5 DEF SymbolInv, BenchmarkInv, Complete
  <2>4. CASE s = "benchmark"
    <3>1. Head(todo) = "BENCHMARK_CANONICAL_BUILT"
      BY <1>0, <2>4
    <3>2. todo = <<"BENCHMARK_CANONICAL_BUILT">> /\ todo \in BenchmarkPlans /\ Tail(todo) = <<>>
      BY <1>0, <1>2, <3>1, HeadsOfPlans
    <3>3. promoted'["benchmark"] = Ensure!Block /\ promoted'["symbol"] = promoted["symbol"] /\ ok
      BY <1>0, <1>1, <1>4, <2>1, <2>2, <2>4, <3>2 DEF BenchmarkInv, Ensure!TypeOK, Ensure!Series
    <3>4. Tail(todo) # <<"CANONICAL_BUILT">> /\ Tail(todo) # <<"BENCHMARK_CANONICAL_BUILT">>
          /\ Tail(todo) # <<"CANONICAL_BUILT", "BENCHMARK_SYNCED", "BENCHMARK_CANONICAL_BUILT">>
      BY <3>2
    <3> HIDE DEF ok
    <3> QED BY <1>0, <1>3, <2>2, <3>2, <3>3, <3>4 DEF SymbolInv, BenchmarkInv, Complete
  <2> QED BY <2>3, <2>4 DEF Ensure!Series
<1>9. ProvisionInv'
  BY <1>2, <1>3, <1>7, <1>8 DEF ProvisionInv
<1>10. SymbolsInv' /\ FeaturesInv' /\ ScoreInv'
  BY <1>0, <1>3 DEF SymbolsInv, FeaturesInv, ScoreInv, Ensure!At
<1> QED BY <1>3, <1>6, <1>9, <1>10 DEF FlowInv

\* The plans depend on the data and on what the flow may do.
LEMMA PlansKept ==
  ASSUME UNCHANGED Ensure!data, flow'.auto = flow.auto
  PROVE  /\ Ensure!CorePlan' = Ensure!CorePlan /\ Ensure!Exact' = Ensure!Exact /\ Ensure!Scored' = Ensure!Scored /\ Ensure!Eligible' = Ensure!Eligible
         /\ \A s \in Ensure!Series : (Ensure!Enough(s)' <=> Ensure!Enough(s)) /\ (Complete(s)' <=> Complete(s))
<1>1. /\ Ensure!Exact' = Ensure!Exact /\ Ensure!Scored' = Ensure!Scored /\ Ensure!Eligible' = Ensure!Eligible /\ Ensure!SymbolPlan' = Ensure!SymbolPlan
      /\ Ensure!BenchmarkPlan' = Ensure!BenchmarkPlan
  BY DEF Ensure!data, Ensure!Exact, Ensure!Scored, Ensure!Eligible, Ensure!CanonicalIssues,
     Ensure!Enough, Ensure!Behind, Ensure!SymbolPlan, Ensure!BenchmarkPlan
<1> QED BY <1>1 DEF Ensure!CorePlan, Ensure!Enough, Complete, Ensure!data

\* What the flow renewed makes it build the features again.
LEMMA PlanFeaturesStep ==
  ASSUME FlowInv, Ensure!PlanFeatures
  PROVE  FlowInv'
<1> DEFINE due == Ensure!FeaturesDue
<1>0. Ensure!TypeOK /\ FlowType /\ ProvisionInv /\ flow.at = "provision" /\ flow.todo = <<>> /\ UNCHANGED Ensure!data
  BY DEF FlowInv, Ensure!PlanFeatures, Ensure!At
<1>1. flow' = [flow EXCEPT !.at = "features", !.todo = due]
  BY DEF Ensure!PlanFeatures
<1>2. due \in {<<>>, <<"FEATURES_BUILT">>}
  BY DEF Ensure!FeaturesDue, Ensure!FeaturePlan
<1>3. flow.auto /\ (flow.force \/ "core" \in flow.did) /\ Ensure!CorePlan = <<>> => due = <<"FEATURES_BUILT">>
  BY DEF Ensure!FeaturesDue
<1>4. flow.auto /\ Ensure!CorePlan = <<>> => due = <<"FEATURES_BUILT">> \/ Ensure!Exact
  BY DEF Ensure!FeaturesDue, Ensure!FeaturePlan, Ensure!Eligible
<1>5. Ensure!CorePlan # <<>> => due = <<>>
  BY DEF Ensure!FeaturesDue, Ensure!FeaturePlan
<1> HIDE DEF due
<1>6. /\ flow'.at = "features" /\ flow'.todo = due /\ flow'.did = flow.did /\ flow'.auto = flow.auto
      /\ flow'.failed = flow.failed /\ flow'.troubled = flow.troubled /\ flow'.force = flow.force
  BY <1>0, <1>1 DEF FlowType
<1>7. FlowType'
  BY <1>0, <1>1, <1>2 DEF FlowType, SymbolPlans
<1>8. Ensure!TypeOK'
  BY <1>0, <1>7, DataTypeKept
<1>9. /\ Ensure!CorePlan' = Ensure!CorePlan /\ Ensure!Exact' = Ensure!Exact
      /\ \A s \in Ensure!Series : (Ensure!Enough(s)' <=> Ensure!Enough(s)) /\ (Complete(s)' <=> Complete(s))
  BY <1>0, <1>6, PlansKept
<1>10. flow.did \subseteq {"core"} /\ ("core" \in flow.did => flow.auto)
  BY <1>0 DEF ProvisionInv, Ensure!At
<1>11. ASSUME "core" \in flow.did
       PROVE  \/ due = <<"FEATURES_BUILT">> /\ Ensure!Enough("symbol")
              \/ due = <<>> /\ Ensure!CorePlan # <<>>
  <2>1. CASE Ensure!CorePlan = <<>>
    <3>1. flow.auto /\ Ensure!Enough("symbol")
      BY <1>0, <1>10, <1>11, <2>1, CorePlanIs
    <3>2. due = <<"FEATURES_BUILT">>
      BY <1>3, <1>11, <2>1, <3>1
    <3> QED BY <3>1, <3>2
  <2>2. CASE Ensure!CorePlan # <<>>
    BY <1>5, <2>2
  <2> QED BY <2>1, <2>2
<1>12. ASSUME Clear' PROVE ~flow.failed /\ Complete("symbol") /\ Complete("benchmark")
                          /\ (due = <<"FEATURES_BUILT">> \/ Ensure!Exact)
  <2>1. Clear
    BY <1>0, <1>6, <1>12 DEF Clear, Ensure!data
  <2>2. ~flow.failed /\ SymbolInv /\ BenchmarkInv
    BY <1>0, <2>1 DEF ProvisionInv, Ensure!At
  <2>3. Complete("symbol") /\ Complete("benchmark")
    BY <1>0, <2>2 DEF SymbolInv, BenchmarkInv, SymbolPlans, BenchmarkPlans
  <2>4. Ensure!CorePlan = <<>>
    BY <1>0, <2>1, <2>3, CorePlanIs DEF Clear
  <2> QED BY <1>4, <2>1, <2>2, <2>3, <2>4 DEF Clear
<1>13. FeaturesInv'
  BY <1>2, <1>6, <1>9, <1>10, <1>11, <1>12 DEF FeaturesInv, Ensure!Series
<1>14. SymbolsInv' /\ ProvisionInv' /\ ScoreInv'
  BY <1>6 DEF SymbolsInv, ProvisionInv, ScoreInv, Ensure!At
<1> QED BY <1>7, <1>8, <1>13, <1>14 DEF FlowInv

\* Features are built of the promoted bars, and exact when these are complete.
LEMMA BuiltIs ==
  ASSUME Ensure!TypeOK, NEW row \in Ensure!Features \cup {Ensure!None}
  PROVE  /\ Ensure!Built(row) \in Ensure!Features \cup {Ensure!None}
         /\ Ensure!Enough("symbol") => Ensure!Built(row) # Ensure!None /\ Ensure!Built(row).of = promotedFrom
         /\ Complete("symbol") /\ Complete("benchmark") => Ensure!Built(row).exact
<1>1. CASE Ensure!Enough("symbol")
  <2> DEFINE complete == promoted = [s \in Ensure!Series |-> Ensure!Block]
  <2>1. Ensure!Built(row) = [is |-> "row", exact |-> complete, of |-> promotedFrom]
    BY <1>1 DEF Ensure!Built
  <2>2. Complete("symbol") /\ Complete("benchmark") => complete
    BY DEF Ensure!TypeOK, Complete, Ensure!Series
  <2>3. complete \in BOOLEAN /\ promotedFrom \in Ensure!Versions
    BY DEF Ensure!TypeOK
  <2> HIDE DEF complete
  <2>4. [is |-> "row", exact |-> complete, of |-> promotedFrom] # Ensure!None
    BY DEF Ensure!None
  <2> QED BY <2>1, <2>2, <2>3, <2>4 DEF Ensure!Features
<1>2. CASE ~Ensure!Enough("symbol")
  BY <1>2 DEF Ensure!Built, Complete, Ensure!Enough, Ensure!Block
<1> QED BY <1>1, <1>2

\* Features are built.
LEMMA BuildFeaturesStep ==
  ASSUME FlowInv, Ensure!BuildFeatures
  PROVE  FlowInv'
<1>0. /\ Ensure!TypeOK /\ FlowType /\ FeaturesInv /\ flow.at = "features"
      /\ flow.todo # <<>> /\ Head(flow.todo) = "FEATURES_BUILT"
      /\ UNCHANGED <<known, stored, fetched, promoted, promotedFrom, gapOpen, score>>
      /\ features' = Ensure!Built(features) /\ strength' = Ensure!Built(strength)
  BY DEF FlowInv, Ensure!BuildFeatures, Ensure!Doing, Ensure!At
<1>1. flow.todo = <<"FEATURES_BUILT">> /\ "FEATURES_BUILT" \notin flow.did
  BY <1>0, Tails DEF FeaturesInv, Ensure!At
<1> DEFINE ok == Ensure!Exact'
<1>2. ok \in BOOLEAN /\ Ensure!Outcome(ok, FALSE)
  BY DEF Ensure!BuildFeatures, Ensure!Exact
<1>3. ok => features'.exact /\ strength'.exact /\ features' # Ensure!None /\ strength' # Ensure!None
  BY DEF Ensure!Exact
<1>4. Ensure!Exact' <=> ok
  OBVIOUS
<1> HIDE DEF ok
<1>5. Tail(flow.todo) = <<>> /\ Ensure!Kind(Head(flow.todo)) = "FEATURES_BUILT"
  BY <1>0, <1>1, Tails DEF Ensure!Kind, Ensure!CoreActions
<1>6. /\ FlowType'
      /\ flow'.at = flow.at /\ flow'.force = flow.force /\ flow'.auto = flow.auto
      /\ flow'.todo = <<>>
      /\ flow'.did = IF ok THEN flow.did \cup {"FEATURES_BUILT"} ELSE flow.did
      /\ flow'.failed = (flow.failed \/ ~ok)
      /\ flow'.troubled = (flow.troubled \/ FALSE)
  BY <1>0, <1>2, <1>5, OutcomeIs
<1>7. /\ Ensure!Built(features) \in Ensure!Features \cup {Ensure!None} /\ Ensure!Built(strength) \in Ensure!Features \cup {Ensure!None}
      /\ Ensure!Enough("symbol") =>
           /\ Ensure!Built(features) # Ensure!None /\ Ensure!Built(features).of = promotedFrom
           /\ Ensure!Built(strength) # Ensure!None /\ Ensure!Built(strength).of = promotedFrom
      /\ Complete("symbol") /\ Complete("benchmark") => Ensure!Built(features).exact /\ Ensure!Built(strength).exact
  <2>1. features \in Ensure!Features \cup {Ensure!None} /\ strength \in Ensure!Features \cup {Ensure!None}
    BY <1>0 DEF Ensure!TypeOK
  <2> QED BY <1>0, <2>1, BuiltIs
<1>8. Ensure!TypeOK'
  BY <1>0, <1>6, <1>7 DEF Ensure!TypeOK, FlowType
<1>9. ASSUME "core" \in flow'.did, ~flow'.failed PROVE FeaturesAreOfBars'
  <2>3. ok /\ ~flow.failed
    BY <1>6, <1>9, Zenon
  <2>1. "core" \in flow.did /\ ~flow.failed
    BY <1>6, <1>9, <2>3
  <2>2. Ensure!Enough("symbol")
    BY <1>0, <1>1, <2>1, Tails DEF FeaturesInv, Ensure!At
  <2> QED BY <1>0, <1>7, <2>2 DEF FeaturesAreOfBars
<1>10. ASSUME Clear' PROVE ~flow'.failed /\ Complete("symbol")' /\ Complete("benchmark")' /\ Ensure!Exact'
  <2>1. Clear
    BY <1>0, <1>6, <1>10 DEF Clear
  <2>2. ~flow.failed /\ Complete("symbol") /\ Complete("benchmark")
    BY <1>0, <2>1 DEF FeaturesInv, Ensure!At
  <2>3. Ensure!Enough("symbol")
    BY <2>2 DEF Complete, Ensure!Enough, Ensure!Block
  <2>4. Ensure!Exact'
    BY <1>0, <1>7, <2>2, <2>3 DEF Ensure!Exact
  <2> QED BY <1>0, <1>4, <1>6, <2>2, <2>4 DEF Complete
<1>12. FeaturesInv'
  BY <1>6, <1>9, <1>10 DEF FeaturesInv
<1>13. SymbolsInv' /\ ProvisionInv' /\ ScoreInv'
  BY <1>0, <1>6 DEF SymbolsInv, ProvisionInv, ScoreInv, Ensure!At
<1> QED BY <1>6, <1>8, <1>12, <1>13 DEF FlowInv

\* A forced refresh scores the features it built.
LEMMA PlanScoreStep ==
  ASSUME FlowInv, Ensure!PlanScore
  PROVE  FlowInv'
<1> DEFINE due == Ensure!ScoresDue
<1>0. Ensure!TypeOK /\ FlowType /\ FeaturesInv /\ flow.at = "features" /\ flow.todo = <<>> /\ UNCHANGED Ensure!data
  BY DEF FlowInv, Ensure!PlanScore, Ensure!At
<1>1. flow' = [flow EXCEPT !.at = "score", !.todo = due]
  BY DEF Ensure!PlanScore
<1>2. due \in {<<>>, <<"SCORED">>}
  BY DEF Ensure!ScoresDue, Ensure!ScorePlan
<1>3. flow.force /\ "FEATURES_BUILT" \in flow.did => due = <<"SCORED">>
  BY DEF Ensure!ScoresDue
<1>4. flow.auto /\ Ensure!CorePlan = <<>> /\ Ensure!Exact => due = <<"SCORED">> \/ Ensure!Scored
  BY DEF Ensure!ScoresDue, Ensure!ScorePlan, Ensure!Eligible
<1>5. Ensure!CorePlan # <<>> /\ "FEATURES_BUILT" \notin flow.did => due = <<>>
  BY DEF Ensure!ScoresDue, Ensure!ScorePlan
<1> HIDE DEF due
<1>6. /\ flow'.at = "score" /\ flow'.todo = due /\ flow'.did = flow.did /\ flow'.auto = flow.auto
      /\ flow'.failed = flow.failed /\ flow'.troubled = flow.troubled /\ flow'.force = flow.force
  BY <1>0, <1>1 DEF FlowType
<1>7. FlowType'
  BY <1>0, <1>1, <1>2 DEF FlowType, SymbolPlans
<1>8. Ensure!TypeOK'
  BY <1>0, <1>7, DataTypeKept
<1>9. /\ Ensure!CorePlan' = Ensure!CorePlan /\ Ensure!Exact' = Ensure!Exact /\ Ensure!Scored' = Ensure!Scored
      /\ \A s \in Ensure!Series : (Ensure!Enough(s)' <=> Ensure!Enough(s)) /\ (Complete(s)' <=> Complete(s))
  BY <1>0, <1>6, PlansKept
<1>10. ASSUME "core" \in flow.did, ~flow.failed
       PROVE  \/ FeaturesAreOfBars
              \/ due = <<>> /\ Ensure!CorePlan # <<>>
  <2>1. \/ FeaturesAreOfBars
        \/ Ensure!CorePlan # <<>> /\ "FEATURES_BUILT" \notin flow.did
    BY <1>0, <1>10, Tails DEF FeaturesInv, Ensure!At
  <2> QED BY <1>5, <2>1
<1>11. FeaturesAreOfBars' <=> FeaturesAreOfBars
  BY <1>0 DEF FeaturesAreOfBars, Ensure!data
<1>12. ASSUME Clear' PROVE ~flow.failed /\ Complete("symbol") /\ Complete("benchmark") /\ Ensure!Exact
                          /\ (due = <<"SCORED">> \/ Ensure!Scored)
  <2>1. Clear /\ flow.auto /\ ~gapOpen
    BY <1>0, <1>6, <1>12 DEF Clear, Ensure!data
  <2>2. ~flow.failed /\ Complete("symbol") /\ Complete("benchmark") /\ Ensure!Exact
    BY <1>0, <2>1, Tails DEF FeaturesInv, Ensure!At
  <2>3. Ensure!CorePlan = <<>>
    BY <1>0, <2>1, <2>2, CorePlanIs
  <2> QED BY <1>4, <2>1, <2>2, <2>3
<1>13. ScoreInv'
  BY <1>2, <1>3, <1>6, <1>9, <1>10, <1>11, <1>12 DEF ScoreInv, Ensure!Series
<1>14. SymbolsInv' /\ ProvisionInv' /\ FeaturesInv'
  BY <1>6 DEF SymbolsInv, ProvisionInv, FeaturesInv, Ensure!At
<1> QED BY <1>7, <1>8, <1>13, <1>14 DEF FlowInv

\* The candidate is scored.
LEMMA ScoreStep ==
  ASSUME FlowInv, Ensure!Score
  PROVE  FlowInv'
<1>0. /\ Ensure!TypeOK /\ FlowType /\ ScoreInv /\ flow.at = "score"
      /\ flow.todo # <<>> /\ Head(flow.todo) = "SCORED"
      /\ UNCHANGED <<known, stored, fetched, promoted, promotedFrom, gapOpen, features, strength>>
  BY DEF FlowInv, Ensure!Score, Ensure!Doing, Ensure!At
<1>1. flow.todo = <<"SCORED">>
  BY <1>0 DEF ScoreInv, Ensure!At
<1> DEFINE ok == features # Ensure!None /\ features.exact /\ (score # Ensure!None => score.current)
<1>2. ok \in BOOLEAN
  BY <1>0 DEF Ensure!TypeOK, Ensure!Features, Ensure!Scores
<1>3. /\ score' = IF ok THEN [is |-> "row", fresh |-> TRUE, current |-> TRUE, of |-> features.of] ELSE score
      /\ Ensure!Outcome(ok, FALSE)
  BY DEF Ensure!Score
<1>4. ok => features \in Ensure!Features
  BY <1>0 DEF Ensure!TypeOK
<1>5. Ensure!Exact /\ SamePolicy => ok
  BY DEF Ensure!Exact, SamePolicy
<1>6. SamePolicy' => ok \/ score' = score
  BY <1>3
<1>7. SamePolicy' => ok \/ SamePolicy
  BY <1>6 DEF SamePolicy
<1> HIDE DEF ok
<1>8. Tail(flow.todo) = <<>> /\ Ensure!Kind(Head(flow.todo)) \in {"core", "FEATURES_BUILT", "SCORED"}
      /\ Ensure!Kind(Head(flow.todo)) = "SCORED"
  BY <1>0, <1>1, Tails DEF Ensure!Kind, Ensure!CoreActions
<1>9. /\ FlowType'
      /\ flow'.at = flow.at /\ flow'.force = flow.force /\ flow'.auto = flow.auto
      /\ flow'.todo = <<>>
      /\ flow'.did = IF ok THEN flow.did \cup {"SCORED"} ELSE flow.did
      /\ flow'.failed = (flow.failed \/ ~ok)
      /\ flow'.troubled = (flow.troubled \/ FALSE)
  BY <1>0, <1>2, <1>3, <1>8, OutcomeIs
<1>10. score' \in Ensure!Scores \cup {Ensure!None}
  <2>1. CASE ok
    <3>1. features.of \in Ensure!Versions
      BY <1>4, <2>1 DEF Ensure!Features
    <3> QED BY <1>3, <2>1, <3>1 DEF Ensure!Scores
  <2>2. CASE ~ok
    BY <1>0, <1>3, <2>2 DEF Ensure!TypeOK
  <2> QED BY <2>1, <2>2
<1>11. Ensure!TypeOK'
  BY <1>0, <1>9, <1>10 DEF Ensure!TypeOK, FlowType
<1>12. ok => Ensure!Scored' /\ score'.of = features.of
  <2>1. [is |-> "row", fresh |-> TRUE, current |-> TRUE, of |-> features.of] # Ensure!None
    BY DEF Ensure!None
  <2> QED BY <1>3, <2>1 DEF Ensure!Scored
<1>13. ASSUME "core" \in flow'.did, ~flow'.failed PROVE FeaturesAreOfBars'
  <2>3. ok /\ ~flow.failed
    BY <1>9, <1>13, Zenon
  <2>1. "core" \in flow.did /\ ~flow.failed
    BY <1>9, <1>13, <2>3
  <2>2. FeaturesAreOfBars
    BY <1>0, <1>1, <2>1, Tails DEF ScoreInv, Ensure!At
  <2> QED BY <1>0, <2>2 DEF FeaturesAreOfBars
<1>14. ASSUME ~flow'.failed PROVE score'.of = features'.of
  BY <1>0, <1>9, <1>12, <1>14
<1>15. ASSUME Clear', SamePolicy'
       PROVE  ~flow'.failed /\ Complete("symbol")' /\ Complete("benchmark")' /\ Ensure!Exact' /\ Ensure!Scored'
  <2>1. Clear
    BY <1>0, <1>9, <1>15 DEF Clear
  <2>2. CASE SamePolicy
    <3>1. ~flow.failed /\ Complete("symbol") /\ Complete("benchmark") /\ Ensure!Exact
      BY <1>0, <2>1, <2>2 DEF ScoreInv, Ensure!At
    <3> QED BY <1>0, <1>5, <1>9, <1>12, <2>2, <3>1 DEF Complete, Ensure!Exact
  <2>3. CASE ok /\ ~SamePolicy
    BY <2>3 DEF ok, SamePolicy
  <2> QED BY <1>7, <1>15, <2>2, <2>3
<1>16. ScoreInv'
  BY <1>9, <1>13, <1>14, <1>15 DEF ScoreInv
<1>17. SymbolsInv' /\ ProvisionInv' /\ FeaturesInv'
  BY <1>0, <1>9 DEF SymbolsInv, ProvisionInv, FeaturesInv, Ensure!At
<1> QED BY <1>9, <1>11, <1>16, <1>17 DEF FlowInv

\* A step that was cut short wrote nothing or the features only.
LEMMA CutShortIs ==
  ASSUME Ensure!TypeOK, Ensure!CutShort
  PROVE  /\ features' \in Ensure!Features \cup {Ensure!None}
         /\ UNCHANGED <<known, stored, fetched, promoted, promotedFrom, gapOpen, strength, score>>
<1>1. features' = features \/ features' = Ensure!Built(features)
  BY DEF Ensure!CutShort
<1>2. features \in Ensure!Features \cup {Ensure!None}
  BY DEF Ensure!TypeOK
<1>3. Ensure!Built(features) \in Ensure!Features \cup {Ensure!None}
  BY <1>2, BuiltIs
<1> QED BY <1>1, <1>2, <1>3 DEF Ensure!CutShort

\* An action that raises fails the flow.
LEMMA RaiseStep ==
  ASSUME FlowInv, Ensure!Raise
  PROVE  FlowInv'
<1>0. Ensure!TypeOK /\ FlowType /\ flow.todo # <<>> /\ Ensure!Outcome(FALSE, TRUE) /\ Ensure!CutShort
  BY DEF FlowInv, Ensure!Raise
<1>1. /\ features' \in Ensure!Features \cup {Ensure!None}
      /\ UNCHANGED <<known, stored, fetched, promoted, promotedFrom, gapOpen, strength, score>>
  BY <1>0, CutShortIs
<1>2. /\ FlowType'
      /\ flow'.at = flow.at /\ flow'.force = flow.force /\ flow'.auto = flow.auto
      /\ flow'.todo = Tail(flow.todo)
      /\ flow'.did = flow.did
      /\ flow'.failed = TRUE /\ flow'.troubled = TRUE
  BY <1>0, OutcomeIs
<1>3. Ensure!TypeOK'
  BY <1>0, <1>1, <1>2 DEF Ensure!TypeOK, FlowType
<1>4. ~Clear'
  BY <1>2 DEF Clear
<1>5. SymbolsInv'
  BY <1>0, <1>2 DEF FlowInv, SymbolsInv, Ensure!At
<1>6. ProvisionInv'
  <2> SUFFICES ASSUME flow.at = "provision" PROVE ProvisionInv'
    BY <1>2 DEF ProvisionInv, Ensure!At
  <2>1. flow.todo \in SymbolPlans \cup BenchmarkPlans \cup WithBenchmark /\ flow.did \subseteq {"core"} /\ flow.auto
    BY <1>0 DEF FlowInv, ProvisionInv, Ensure!At
  <2>2. Tail(flow.todo) \in SymbolPlans \cup BenchmarkPlans \cup WithBenchmark
    BY <1>0, <2>1, HeadsOfPlans
  <2> QED BY <1>2, <1>4, <2>1, <2>2 DEF ProvisionInv
<1>7. FeaturesInv'
  <2> SUFFICES ASSUME flow.at = "features" PROVE FeaturesInv'
    BY <1>2 DEF FeaturesInv, Ensure!At
  <2>1. flow.todo = <<"FEATURES_BUILT">> /\ "FEATURES_BUILT" \notin flow.did
    BY <1>0 DEF FlowInv, FeaturesInv, Ensure!At
  <2>2. Tail(flow.todo) = <<>>
    BY <2>1, Tails
  <2> QED BY <1>2, <1>4, <2>1, <2>2 DEF FeaturesInv
<1>8. ScoreInv'
  <2> SUFFICES ASSUME flow.at = "score" PROVE ScoreInv'
    BY <1>2 DEF ScoreInv, Ensure!At
  <2>1. flow.todo = <<"SCORED">>
    BY <1>0 DEF FlowInv, ScoreInv, Ensure!At
  <2>2. Tail(flow.todo) = <<>>
    BY <2>1, Tails
  <2> QED BY <1>2, <1>4, <2>2 DEF ScoreInv
<1> QED BY <1>2, <1>3, <1>5, <1>6, <1>7, <1>8 DEF FlowInv

\* A flow that dies leaves its data behind.
LEMMA DieStep ==
  ASSUME FlowInv, Ensure!Die
  PROVE  FlowInv'
<1>0. Ensure!TypeOK /\ flow' = [Ensure!Idle EXCEPT !.answer = "none"] /\ Ensure!CutShort
  BY DEF FlowInv, Ensure!Die, Ensure!Idle
<1>1. /\ features' \in Ensure!Features \cup {Ensure!None}
      /\ UNCHANGED <<known, stored, fetched, promoted, promotedFrom, gapOpen, strength, score>>
  BY <1>0, CutShortIs
<1>2. FlowType' /\ flow'.at = "idle"
  BY <1>0, ConcludeIs
<1>3. Ensure!TypeOK'
  BY <1>0, <1>1, <1>2 DEF Ensure!TypeOK, FlowType
<1> QED BY <1>2, <1>3, IdleKeeps

\* A flow that finishes is idle again.
LEMMA FinishStep ==
  ASSUME FlowInv, Ensure!Finish
  PROVE  FlowInv'
<1>0. Ensure!TypeOK /\ UNCHANGED Ensure!data
  BY DEF FlowInv, Ensure!Finish
<1>1. PICK word \in {"READY", "PARTIAL"} : flow' = [Ensure!Idle EXCEPT !.answer = word]
  BY DEF Ensure!Finish, Ensure!Conclude
<1>2. FlowType' /\ flow'.at = "idle"
  BY <1>1, ConcludeIs
<1> QED BY <1>0, <1>2, DataTypeKept, IdleKeeps

\* What happens between two flows finds none under way.
LEMMA ElsewhereStep ==
  ASSUME MaxVersions \in Nat, FlowInv, (\E s \in Ensure!Series : Ensure!SyncElsewhere(s)) \/ Ensure!ScanGaps \/ Ensure!ReplacePolicy
  PROVE  FlowInv'
<1>0. Ensure!TypeOK /\ flow' = [Ensure!Idle EXCEPT !.answer = "none"]
  <2>1. flow' = Ensure!Idle
    BY DEF Ensure!SyncElsewhere, Ensure!ScanGaps, Ensure!ReplacePolicy
  <2>2. Ensure!Idle = [Ensure!Idle EXCEPT !.answer = "none"]
    BY DEF Ensure!Idle
  <2> QED BY <2>1, <2>2 DEF FlowInv
<1>1. FlowType' /\ flow'.at = "idle"
  BY <1>0, ConcludeIs
<1>2. CASE \E s \in Ensure!Series : Ensure!SyncElsewhere(s)
  <2>1. PICK s \in Ensure!Series : Ensure!SyncElsewhere(s)
    BY <1>2
  <2>2. PICK got \in SUBSET Ensure!Block, bars \in SUBSET Ensure!Block :
          /\ got # {} /\ fetched[s] < MaxVersions
          /\ bars \subseteq stored[s] \cup got
          /\ stored' = [stored EXCEPT ![s] = stored[s] \cup got]
          /\ fetched' = [fetched EXCEPT ![s] = fetched[s] + 1]
          /\ promoted' = [promoted EXCEPT ![s] = bars]
          /\ promotedFrom' = [promotedFrom EXCEPT ![s] = fetched[s] + 1]
    BY <2>1 DEF Ensure!SyncElsewhere
  <2>3. \A x \in Ensure!Series : fetched[x] \in 0..MaxVersions /\ promotedFrom[x] \in 0..MaxVersions /\ promotedFrom[x] <= fetched[x]
    BY <1>0 DEF Ensure!TypeOK, Ensure!Versions
  <2>4. fetched[s] + 1 \in 0..MaxVersions
    BY <2>2, <2>3
  <2>5. fetched' \in Ensure!Versions /\ promotedFrom' \in Ensure!Versions
    BY <1>0, <2>2, <2>4 DEF Ensure!TypeOK, Ensure!Versions
  <2>6. \A x \in Ensure!Series : promotedFrom'[x] <= fetched'[x]
    <3>1. \A x \in Ensure!Series :
            /\ fetched'[x] = IF x = s THEN fetched[s] + 1 ELSE fetched[x]
            /\ promotedFrom'[x] = IF x = s THEN fetched[s] + 1 ELSE promotedFrom[x]
      BY <1>0, <2>2 DEF Ensure!TypeOK, Ensure!Versions
    <3> QED BY <2>3, <2>4, <3>1
  <2>7. /\ stored' \in [Ensure!Series -> SUBSET Ensure!Block] /\ promoted' \in [Ensure!Series -> SUBSET Ensure!Block]
        /\ \A x \in Ensure!Series : promoted'[x] \subseteq stored'[x]
    BY <1>0, <2>2 DEF Ensure!TypeOK
  <2>8. UNCHANGED <<known, gapOpen, features, strength, score>>
    BY <2>1 DEF Ensure!SyncElsewhere
  <2>9. Ensure!TypeOK'
    BY <1>0, <1>1, <2>5, <2>6, <2>7, <2>8 DEF Ensure!TypeOK, FlowType
  <2> QED BY <1>1, <2>9, IdleKeeps
<1>3. CASE Ensure!ScanGaps
  <2>1. Ensure!TypeOK'
    BY <1>0, <1>1, <1>3 DEF Ensure!TypeOK, FlowType, Ensure!ScanGaps
  <2> QED BY <1>1, <2>1, IdleKeeps
<1>4. CASE Ensure!ReplacePolicy
  <2>1. score' \in Ensure!Scores
    BY <1>0, <1>4 DEF Ensure!ReplacePolicy, Ensure!TypeOK, Ensure!Scores
  <2>2. Ensure!TypeOK'
    BY <1>0, <1>1, <1>4, <2>1 DEF Ensure!TypeOK, FlowType, Ensure!ReplacePolicy
  <2> QED BY <1>1, <2>2, IdleKeeps
<1> QED BY <1>2, <1>3, <1>4

\* FlowInv is inductive.
LEMMA FlowStepKeeps ==
  ASSUME MaxVersions \in Nat, FlowInv, [Ensure!Next]_Ensure!vars
  PROVE  FlowInv'
<1>1. CASE UNCHANGED Ensure!vars
  <2>0. UNCHANGED Ensure!data /\ flow' = flow
    BY <1>1 DEF Ensure!vars, Ensure!data
  <2>1. Ensure!TypeOK' /\ FlowType'
    BY <2>0, DataTypeKept DEF FlowInv, FlowType
  <2>2. /\ Ensure!CorePlan' = Ensure!CorePlan /\ Ensure!Exact' = Ensure!Exact /\ Ensure!Scored' = Ensure!Scored /\ Ensure!Eligible' = Ensure!Eligible
        /\ \A s \in Ensure!Series : (Ensure!Enough(s)' <=> Ensure!Enough(s)) /\ (Complete(s)' <=> Complete(s))
    BY <2>0, PlansKept
  <2>3. SymbolsInv' /\ ProvisionInv'
    BY <2>0, <2>2 DEF Ensure!data, FlowInv, SymbolsInv, ProvisionInv, SymbolInv, BenchmarkInv,
       Clear, Complete, Ensure!At
  <2>4. FeaturesInv' /\ ScoreInv'
    BY <2>0, <2>2 DEF Ensure!data, FlowInv, FeaturesInv, ScoreInv, FeaturesAreOfBars,
       SamePolicy, Clear, Ensure!At, Ensure!Series
  <2> QED BY <2>1, <2>3, <2>4 DEF FlowInv
<1>2. CASE \E force, auto \in BOOLEAN : Ensure!Begin(force, auto)
  BY <1>2, BeginStep
<1>3. CASE Ensure!SyncBars("symbol", "OHLCV_SYNCED") \/ Ensure!SyncBars("benchmark", "BENCHMARK_SYNCED")
  BY <1>3, SyncBarsStep DEF Ensure!Series
<1>4. CASE \/ Ensure!BuildCanonical("symbol", "CANONICAL_BUILT")
           \/ Ensure!BuildCanonical("benchmark", "BENCHMARK_CANONICAL_BUILT")
  BY <1>4, BuildCanonicalStep DEF Ensure!Series
<1>5. CASE Ensure!SyncSymbols \/ Ensure!PlanFeatures \/ Ensure!BuildFeatures \/ Ensure!PlanScore \/ Ensure!Score \/ Ensure!Raise \/ Ensure!Finish \/ Ensure!Die
  BY <1>5, SyncSymbolsStep, PlanFeaturesStep, BuildFeaturesStep, PlanScoreStep, ScoreStep,
     RaiseStep, FinishStep, DieStep
<1>6. CASE (\E s \in Ensure!Series : Ensure!SyncElsewhere(s)) \/ Ensure!ScanGaps \/ Ensure!ReplacePolicy
  BY <1>6, ElsewhereStep
<1> QED BY <1>1, <1>2, <1>3, <1>4, <1>5, <1>6 DEF Ensure!Next, Ensure!FlowStep

\* What a flow that finishes may say.
LEMMA FinishIs ==
  ASSUME FlowInv
  PROVE  Ensure!ReadyIsOfOnePiece /\ Ensure!OnePassSuffices
<1>0. Ensure!TypeOK /\ FlowType /\ ScoreInv
  BY DEF FlowInv
<1> SUFFICES ASSUME Ensure!Finish PROVE Ensure!ReadyIsOfOnePiece /\ Ensure!OnePassSuffices
  BY DEF Ensure!ReadyIsOfOnePiece, Ensure!OnePassSuffices
<1>1. flow.at = "score" /\ flow.todo = <<>> /\ flow.todo # <<"SCORED">>
  BY Tails DEF Ensure!Finish, Ensure!At
<1>2. flow'.answer = IF Ensure!Eligible /\ ~flow.failed THEN "READY" ELSE "PARTIAL"
  BY DEF Ensure!Finish, Ensure!Conclude, Ensure!Idle
<1>3. ASSUME flow'.answer = "READY"
      PROVE  /\ "core" \in flow.did => features.of = promotedFrom /\ strength.of = promotedFrom
             /\ flow.force /\ "FEATURES_BUILT" \in flow.did => score.of = features.of
  <2>1. Ensure!Eligible /\ ~flow.failed
    BY <1>2, <1>3
  <2>2. Ensure!CorePlan = <<>>
    BY <2>1 DEF Ensure!CorePlan
  <2>3. "core" \in flow.did => FeaturesAreOfBars
    BY <1>0, <1>1, <2>1, <2>2 DEF ScoreInv, Ensure!At
  <2>4. flow.force /\ "FEATURES_BUILT" \in flow.did => score.of = features.of
    BY <1>0, <1>1, <2>1 DEF ScoreInv, Ensure!At
  <2> QED BY <2>3, <2>4 DEF FeaturesAreOfBars
<1>4. ASSUME flow.auto, ~flow.troubled, ~gapOpen, score # Ensure!None => score.current
      PROVE  flow'.answer = "READY"
  <2>1. Clear /\ SamePolicy
    BY <1>4 DEF Clear, SamePolicy
  <2>2. ~flow.failed /\ Complete("symbol") /\ Complete("benchmark") /\ Ensure!Exact /\ Ensure!Scored
    BY <1>0, <1>1, <2>1 DEF ScoreInv, Ensure!At
  <2>3. Ensure!Eligible
    BY <1>4, <2>2 DEF Ensure!Eligible, Ensure!CanonicalIssues, Ensure!Enough, Complete, Ensure!Block
  <2> QED BY <1>2, <2>2, <2>3
<1> QED BY <1>3, <1>4 DEF Ensure!ReadyIsOfOnePiece, Ensure!OnePassSuffices

-----------------------------------------------------------------------------
(* The bars.                                                                 *)

EquityProofs == INSTANCE OhlcvIngestionProofs WITH
  Last <- BarSessions, Providers <- {kbs, vci}, Precedence <- <<>>, Values <- Prices, MaxRuns <- BarRuns,
  Commands <- {"download", "daily", "build"}
IndexProofs == INSTANCE OhlcvIngestionProofs WITH
  Last <- BarSessions, Providers <- {kbs, vci}, Precedence <- <<vci>>, Values <- Prices, MaxRuns <- BarRuns,
  Commands <- {"download", "build"}
GapsProofs == INSTANCE OhlcvIngestionProofs WITH
  Last <- GapSessions, Providers <- {kbs}, Precedence <- <<>>, Values <- GapPrices, MaxRuns <- GapRuns,
  Commands <- {"download", "daily", "scan", "repair"}

\* The bars of the equity are those proved about.
LEMMA EquityIsProved ==
  /\ EquityProofs!Configured
  /\ Equity!Init => EquityProofs!Init
  /\ [Equity!Next]_Equity!vars => [EquityProofs!Next]_EquityProofs!vars
  /\ EquityProofs!TypeOK /\ EquityProofs!BarsAreUncontested /\ EquityProofs!EvidenceIsAccounted
       => Equity!TypeOK /\ Equity!BarsAreUncontested /\ Equity!EvidenceIsAccounted
  /\ EquityProofs!OnlyNewerEvidenceReplaces => Equity!OnlyNewerEvidenceReplaces
<1>1. EquityProofs!Configured
  BY MarketAssumption DEF EquityProofs!Configured, EquityProofs!AllCommands
<1>2. Equity!Init => EquityProofs!Init
  BY Zenon DEF Equity!Sessions, EquityProofs!Sessions, Equity!Idle, EquityProofs!Idle,
           Equity!Init, EquityProofs!Init
<1>3. [Equity!Next]_Equity!vars => [EquityProofs!Next]_EquityProofs!vars
  BY Zenon DEF Equity!Min, EquityProofs!Min, Equity!Max, EquityProofs!Max, Equity!Sessions,
           EquityProofs!Sessions, Equity!Bad, EquityProofs!Bad, Equity!MissingKinds,
           EquityProofs!MissingKinds, Equity!vars, EquityProofs!vars, Equity!Idle,
           EquityProofs!Idle, Equity!Candidates, EquityProofs!Candidates, Equity!RankedBefore,
           EquityProofs!RankedBefore, Equity!TopOf, EquityProofs!TopOf, Equity!Preferred,
           EquityProofs!Preferred, Equity!Selected, EquityProofs!Selected, Equity!Valid,
           EquityProofs!Valid, Equity!HasPolicy, EquityProofs!HasPolicy, Equity!Contested,
           EquityProofs!Contested, Equity!Promoted, EquityProofs!Promoted, Equity!Watermark,
           EquityProofs!Watermark, Equity!OverlapSessions, EquityProofs!OverlapSessions,
           Equity!NextStart, EquityProofs!NextStart, Equity!Present, EquityProofs!Present,
           Equity!MissingIn, EquityProofs!MissingIn, Equity!Kind, EquityProofs!Kind,
           Equity!Begin, EquityProofs!Begin, Equity!Download, EquityProofs!Download,
           Equity!SyncDaily, EquityProofs!SyncDaily, Equity!BuildCanonical,
           EquityProofs!BuildCanonical, Equity!ScanGaps, EquityProofs!ScanGaps,
           Equity!RepairGaps, EquityProofs!RepairGaps, Equity!Observe, EquityProofs!Observe,
           Equity!ObservedBefore, EquityProofs!ObservedBefore, Equity!Asked,
           EquityProofs!Asked, Equity!AfterFetch, EquityProofs!AfterFetch, Equity!FetchNothing,
           EquityProofs!FetchNothing, Equity!FetchRows, EquityProofs!FetchRows, Equity!Build,
           EquityProofs!Build, Equity!Promote, EquityProofs!Promote, Equity!ObservedAfter,
           EquityProofs!ObservedAfter, Equity!Resolve, EquityProofs!Resolve, Equity!RepairEnds,
           EquityProofs!RepairEnds, Equity!Stop, EquityProofs!Stop, Equity!ChangeLifecycle,
           EquityProofs!ChangeLifecycle, Equity!Next, EquityProofs!Next
<1>4. EquityProofs!TypeOK /\ EquityProofs!BarsAreUncontested /\ EquityProofs!EvidenceIsAccounted
        => Equity!TypeOK /\ Equity!BarsAreUncontested /\ Equity!EvidenceIsAccounted
  BY Zenon DEF Equity!Sessions, EquityProofs!Sessions, Equity!AllCommands,
           EquityProofs!AllCommands, Equity!Bad, EquityProofs!Bad, Equity!MissingKinds,
           EquityProofs!MissingKinds, Equity!Rows, EquityProofs!Rows, Equity!TypeOK,
           EquityProofs!TypeOK, Equity!Candidates, EquityProofs!Candidates, Equity!Valid,
           EquityProofs!Valid, Equity!HasPolicy, EquityProofs!HasPolicy, Equity!Present,
           EquityProofs!Present, Equity!BarsAreUncontested, EquityProofs!BarsAreUncontested,
           Equity!EvidenceIsAccounted, EquityProofs!EvidenceIsAccounted
<1>5. EquityProofs!OnlyNewerEvidenceReplaces => Equity!OnlyNewerEvidenceReplaces
  BY Zenon DEF Equity!Candidates, EquityProofs!Candidates, Equity!OnlyNewerEvidenceReplaces,
           EquityProofs!OnlyNewerEvidenceReplaces
<1> QED BY <1>1, <1>2, <1>3, <1>4, <1>5

\* So are those of the index.
LEMMA IndexIsProved ==
  /\ IndexProofs!Configured
  /\ Equity!Init => IndexProofs!Init
  /\ [Index!Next]_Index!vars => [IndexProofs!Next]_IndexProofs!vars
  /\ IndexProofs!TypeOK /\ IndexProofs!BarsAreUncontested /\ IndexProofs!EvidenceIsAccounted
       => Index!TypeOK /\ Index!BarsAreUncontested /\ Index!EvidenceIsAccounted
<1>1. IndexProofs!Configured
  BY MarketAssumption DEF IndexProofs!Configured, IndexProofs!AllCommands
<1>2. Equity!Init => IndexProofs!Init
  BY Zenon DEF Equity!Sessions, IndexProofs!Sessions, Equity!Idle, IndexProofs!Idle,
           Equity!Init, IndexProofs!Init
<1>3. [Index!Next]_Index!vars => [IndexProofs!Next]_IndexProofs!vars
  BY Zenon DEF Index!Min, IndexProofs!Min, Index!Max, IndexProofs!Max, Index!Sessions,
           IndexProofs!Sessions, Index!Bad, IndexProofs!Bad, Index!MissingKinds,
           IndexProofs!MissingKinds, Index!vars, IndexProofs!vars, Index!Idle,
           IndexProofs!Idle, Index!Candidates, IndexProofs!Candidates, Index!RankedBefore,
           IndexProofs!RankedBefore, Index!TopOf, IndexProofs!TopOf, Index!Preferred,
           IndexProofs!Preferred, Index!Selected, IndexProofs!Selected, Index!Valid,
           IndexProofs!Valid, Index!HasPolicy, IndexProofs!HasPolicy, Index!Contested,
           IndexProofs!Contested, Index!Promoted, IndexProofs!Promoted, Index!Watermark,
           IndexProofs!Watermark, Index!OverlapSessions, IndexProofs!OverlapSessions,
           Index!NextStart, IndexProofs!NextStart, Index!Present, IndexProofs!Present,
           Index!MissingIn, IndexProofs!MissingIn, Index!Kind, IndexProofs!Kind, Index!Begin,
           IndexProofs!Begin, Index!Download, IndexProofs!Download, Index!SyncDaily,
           IndexProofs!SyncDaily, Index!BuildCanonical, IndexProofs!BuildCanonical,
           Index!ScanGaps, IndexProofs!ScanGaps, Index!RepairGaps, IndexProofs!RepairGaps,
           Index!Observe, IndexProofs!Observe, Index!ObservedBefore,
           IndexProofs!ObservedBefore, Index!Asked, IndexProofs!Asked, Index!AfterFetch,
           IndexProofs!AfterFetch, Index!FetchNothing, IndexProofs!FetchNothing,
           Index!FetchRows, IndexProofs!FetchRows, Index!Build, IndexProofs!Build,
           Index!Promote, IndexProofs!Promote, Index!ObservedAfter, IndexProofs!ObservedAfter,
           Index!Resolve, IndexProofs!Resolve, Index!RepairEnds, IndexProofs!RepairEnds,
           Index!Stop, IndexProofs!Stop, Index!ChangeLifecycle, IndexProofs!ChangeLifecycle,
           Index!Next, IndexProofs!Next
<1>4. IndexProofs!TypeOK /\ IndexProofs!BarsAreUncontested /\ IndexProofs!EvidenceIsAccounted
        => Index!TypeOK /\ Index!BarsAreUncontested /\ Index!EvidenceIsAccounted
  BY Zenon DEF Index!Sessions, IndexProofs!Sessions, Index!AllCommands,
           IndexProofs!AllCommands, Index!Bad, IndexProofs!Bad, Index!MissingKinds,
           IndexProofs!MissingKinds, Index!Rows, IndexProofs!Rows, Index!TypeOK,
           IndexProofs!TypeOK, Index!Candidates, IndexProofs!Candidates, Index!Valid,
           IndexProofs!Valid, Index!HasPolicy, IndexProofs!HasPolicy, Index!Present,
           IndexProofs!Present, Index!BarsAreUncontested, IndexProofs!BarsAreUncontested,
           Index!EvidenceIsAccounted, IndexProofs!EvidenceIsAccounted
<1> QED BY <1>1, <1>2, <1>3, <1>4

\* So are those of the repaired symbol.
LEMMA GapsIsProved ==
  /\ GapsProofs!Configured
  /\ Gaps!Init => GapsProofs!Init
  /\ [Gaps!Next]_Gaps!vars => [GapsProofs!Next]_GapsProofs!vars
  /\ GapsProofs!TypeOK /\ GapsProofs!BarsAreUncontested /\ GapsProofs!EvidenceIsAccounted
       => Gaps!TypeOK /\ Gaps!BarsAreUncontested /\ Gaps!EvidenceIsAccounted
  /\ (GapsProofs!RepairEnds => GapsProofs!RepairTold) => (Gaps!RepairEnds => Gaps!RepairTold)
<1>1. GapsProofs!Configured
  BY MarketAssumption DEF GapsProofs!Configured, GapsProofs!AllCommands
<1>2. Gaps!Init => GapsProofs!Init
  BY Zenon DEF Gaps!Sessions, GapsProofs!Sessions, Gaps!Idle, GapsProofs!Idle, Gaps!Init,
           GapsProofs!Init
<1>3. [Gaps!Next]_Gaps!vars => [GapsProofs!Next]_GapsProofs!vars
  BY Zenon DEF Gaps!Min, GapsProofs!Min, Gaps!Max, GapsProofs!Max, Gaps!Sessions,
           GapsProofs!Sessions, Gaps!Bad, GapsProofs!Bad, Gaps!MissingKinds,
           GapsProofs!MissingKinds, Gaps!vars, GapsProofs!vars, Gaps!Idle, GapsProofs!Idle,
           Gaps!Candidates, GapsProofs!Candidates, Gaps!RankedBefore, GapsProofs!RankedBefore,
           Gaps!TopOf, GapsProofs!TopOf, Gaps!Preferred, GapsProofs!Preferred, Gaps!Selected,
           GapsProofs!Selected, Gaps!Valid, GapsProofs!Valid, Gaps!HasPolicy,
           GapsProofs!HasPolicy, Gaps!Contested, GapsProofs!Contested, Gaps!Promoted,
           GapsProofs!Promoted, Gaps!Watermark, GapsProofs!Watermark, Gaps!OverlapSessions,
           GapsProofs!OverlapSessions, Gaps!NextStart, GapsProofs!NextStart, Gaps!Present,
           GapsProofs!Present, Gaps!MissingIn, GapsProofs!MissingIn, Gaps!Kind,
           GapsProofs!Kind, Gaps!Begin, GapsProofs!Begin, Gaps!Download, GapsProofs!Download,
           Gaps!SyncDaily, GapsProofs!SyncDaily, Gaps!BuildCanonical,
           GapsProofs!BuildCanonical, Gaps!ScanGaps, GapsProofs!ScanGaps, Gaps!RepairGaps,
           GapsProofs!RepairGaps, Gaps!Observe, GapsProofs!Observe, Gaps!ObservedBefore,
           GapsProofs!ObservedBefore, Gaps!Asked, GapsProofs!Asked, Gaps!AfterFetch,
           GapsProofs!AfterFetch, Gaps!FetchNothing, GapsProofs!FetchNothing, Gaps!FetchRows,
           GapsProofs!FetchRows, Gaps!Build, GapsProofs!Build, Gaps!Promote,
           GapsProofs!Promote, Gaps!ObservedAfter, GapsProofs!ObservedAfter, Gaps!Resolve,
           GapsProofs!Resolve, Gaps!RepairEnds, GapsProofs!RepairEnds, Gaps!Stop,
           GapsProofs!Stop, Gaps!ChangeLifecycle, GapsProofs!ChangeLifecycle, Gaps!Next,
           GapsProofs!Next
<1>4. GapsProofs!TypeOK /\ GapsProofs!BarsAreUncontested /\ GapsProofs!EvidenceIsAccounted
        => Gaps!TypeOK /\ Gaps!BarsAreUncontested /\ Gaps!EvidenceIsAccounted
  BY Zenon DEF Gaps!Sessions, GapsProofs!Sessions, Gaps!AllCommands, GapsProofs!AllCommands,
           Gaps!Bad, GapsProofs!Bad, Gaps!MissingKinds, GapsProofs!MissingKinds, Gaps!Rows,
           GapsProofs!Rows, Gaps!TypeOK, GapsProofs!TypeOK, Gaps!Candidates,
           GapsProofs!Candidates, Gaps!Valid, GapsProofs!Valid, Gaps!HasPolicy,
           GapsProofs!HasPolicy, Gaps!Present, GapsProofs!Present, Gaps!BarsAreUncontested,
           GapsProofs!BarsAreUncontested, Gaps!EvidenceIsAccounted,
           GapsProofs!EvidenceIsAccounted
<1>5. (GapsProofs!RepairEnds => GapsProofs!RepairTold) => (Gaps!RepairEnds => Gaps!RepairTold)
  BY Zenon DEF Gaps!MissingKinds, GapsProofs!MissingKinds, Gaps!Idle, GapsProofs!Idle,
           Gaps!Candidates, GapsProofs!Candidates, Gaps!Present, GapsProofs!Present,
           Gaps!RepairEnds, GapsProofs!RepairEnds, Gaps!RepairTells, GapsProofs!RepairTells,
           Gaps!RepairTold, GapsProofs!RepairTold
<1> QED BY <1>1, <1>2, <1>3, <1>4, <1>5

-----------------------------------------------------------------------------
(* All of them together.                                                     *)

\* The part that moves keeps its invariant.
PartsInv ==
  /\ part = "equity" => EquityProofs!BarsInv
  /\ part = "index" => IndexProofs!BarsInv
  /\ part = "gaps" => GapsProofs!BarsInv
  /\ part = "ensure" => FlowInv

allVars == <<part, vars, barVars, ensureVars, runVars>>

\* Only the part that moves takes steps.
LEMMA PartsStep ==
  ASSUME [PartsNext]_allVars
  PROVE  /\ part' = part
         /\ part = "equity" => [Equity!Next]_Equity!vars
         /\ part = "index" => [Index!Next]_Index!vars
         /\ part = "gaps" => [Gaps!Next]_Gaps!vars
         /\ part = "ensure" => [Ensure!Next]_Ensure!vars
         /\ part \notin {"equity", "index", "gaps"} => UNCHANGED barVars
BY DEF PartsNext, allVars, StagesMove, EquityMoves, IndexMoves, GapsMove, EnsureMoves, RunMoves,
   Stay,
       barVars, ensureVars, Equity!vars, Index!vars, Gaps!vars, Ensure!vars

\* PartsInv is inductive.
LEMMA PartsInduction == PartsSpec => []PartsInv
<1>1. PartsInit => PartsInv
  <2> SUFFICES ASSUME PartsInit PROVE PartsInv
    OBVIOUS
  <2>1. IF part = "gaps" THEN Gaps!Init ELSE Equity!Init
    BY DEF PartsInit
  <2>2. part = "equity" => EquityProofs!BarsInv
    BY <2>1, EquityIsProved, EquityProofs!BarsInit
  <2>3. part = "index" => IndexProofs!BarsInv
    BY <2>1, IndexIsProved, IndexProofs!BarsInit
  <2>4. part = "gaps" => GapsProofs!BarsInv
    BY <2>1, GapsIsProved, GapsProofs!BarsInit
  <2>5. FlowInv
    BY FlowInit, MarketAssumption DEF PartsInit
  <2> QED BY <2>2, <2>3, <2>4, <2>5 DEF PartsInv
<1>2. PartsInv /\ [PartsNext]_allVars => PartsInv'
  <2> SUFFICES ASSUME PartsInv, [PartsNext]_allVars PROVE PartsInv'
    OBVIOUS
  <2>1. CASE part = "equity"
    BY <2>1, PartsStep, EquityIsProved, EquityProofs!BarsStep DEF PartsInv
  <2>2. CASE part = "index"
    BY <2>2, PartsStep, IndexIsProved, IndexProofs!BarsStep DEF PartsInv
  <2>3. CASE part = "gaps"
    BY <2>3, PartsStep, GapsIsProved, GapsProofs!BarsStep DEF PartsInv
  <2>4. CASE part = "ensure"
    BY <2>4, PartsStep, FlowStepKeeps, MarketAssumption DEF PartsInv
  <2>5. CASE part \notin {"equity", "index", "gaps", "ensure"}
    BY <2>5, PartsStep DEF PartsInv
  <2> QED BY <2>1, <2>2, <2>3, <2>4, <2>5
<1> QED BY <1>1, <1>2, PTL DEF PartsSpec, allVars

\* The bars of an equity and of an index never stand against valid evidence that a
\* build has read, and none of it is lost; so it is while gaps are repaired.
THEOREM DataIsSound == PartsSpec => []DataInvariant
<1>1. PartsInv => DataInvariant
  <2> SUFFICES ASSUME PartsInv PROVE DataInvariant
    OBVIOUS
  <2>1. part = "equity" => Equity!TypeOK /\ Equity!BarsAreUncontested /\ Equity!EvidenceIsAccounted
    BY EquityIsProved DEF PartsInv, EquityProofs!BarsInv
  <2>2. part = "index" => Index!TypeOK /\ Index!BarsAreUncontested /\ Index!EvidenceIsAccounted
    BY IndexIsProved DEF PartsInv, IndexProofs!BarsInv
  <2>3. part = "gaps" => Gaps!TypeOK /\ Gaps!EvidenceIsAccounted
    BY GapsIsProved DEF PartsInv, GapsProofs!BarsInv
  <2>4. part = "ensure" => Ensure!TypeOK
    BY DEF PartsInv, FlowInv
  <2> QED BY <2>1, <2>2, <2>3, <2>4 DEF DataInvariant
<1> QED BY <1>1, PartsInduction, PTL

\* The bar of an equity changes or goes only for passing evidence newer than it.
THEOREM BarsYield == PartsSpec => BarsYieldToEvidence
<1>1. PartsInv /\ [PartsNext]_allVars => (part = "equity" => Equity!OnlyNewerEvidenceReplaces)
  BY PartsStep, EquityIsProved, EquityProofs!YieldStep DEF PartsInv
<1> QED BY <1>1, PartsInduction, PTL DEF PartsSpec, allVars, BarsYieldToEvidence

\* When a repair ends, it has told of every session in its range; a flow that
\* finishes says READY of one piece, and does so when it got all it asked for.
THEOREM AnswersHold == PartsSpec => AnswersAreTrue
<1>1. PartsInv => /\ part = "gaps" /\ Gaps!RepairEnds => Gaps!RepairTold
                  /\ part = "ensure" => Ensure!ReadyIsOfOnePiece /\ Ensure!OnePassSuffices
  BY GapsIsProved, GapsProofs!RepairStep, FinishIs DEF PartsInv
<1> QED BY <1>1, PartsInduction, PTL DEF AnswersAreTrue

-----------------------------------------------------------------------------
(* The run.                                                                  *)

RunProofs == INSTANCE MaintenanceRunProofs WITH
  Producers <- {p1}, MaxGoals <- 2, MaxJobs <- 2, MaxInterruptions <- 1, status <- runStatus

\* The run is the one proved about, with one producer and no pruning.
LEMMA RunIsProved ==
  /\ RunProofs!Alone /\ RunProofs!MaintenanceAssumption
  /\ Run!Init => RunProofs!Init
  /\ [Run!RunNext]_Run!vars => [RunProofs!Next]_RunProofs!vars
<1>1. RunProofs!Alone /\ RunProofs!MaintenanceAssumption
  BY DEF RunProofs!Alone, RunProofs!MaintenanceAssumption
<1>2. Run!Init => RunProofs!Init
  BY Zenon DEF Run!OffProducer, RunProofs!OffProducer, Run!IdleWorker, RunProofs!IdleWorker,
           Run!Init, RunProofs!Init
<1>3. [Run!RunNext]_Run!vars => [RunProofs!RunNext]_RunProofs!vars
  BY Zenon DEF Run!Max, RunProofs!Max, Run!ledger, RunProofs!ledger, Run!vars, RunProofs!vars,
           Run!Fin, RunProofs!Fin, Run!Ended, RunProofs!Ended, Run!OffProducer,
           RunProofs!OffProducer, Run!IdleWorker, RunProofs!IdleWorker, Run!SubmitOrJoin,
           RunProofs!SubmitOrJoin, Run!Returned, RunProofs!Returned, Run!EndAs,
           RunProofs!EndAs, Run!FoundJobs, RunProofs!FoundJobs, Run!At, RunProofs!At,
           Run!Becomes, RunProofs!Becomes, Run!CreateRun, RunProofs!CreateRun, Run!ResumeRun,
           RunProofs!ResumeRun, Run!LookUpMapping, RunProofs!LookUpMapping, Run!FindSubmitted,
           RunProofs!FindSubmitted, Run!SubmitGoal, RunProofs!SubmitGoal, Run!NewMapping,
           RunProofs!NewMapping, Run!MapJob, RunProofs!MapJob, Run!FinishProduce,
           RunProofs!FinishProduce, Run!CrashProducer, RunProofs!CrashProducer, Run!Acquired,
           RunProofs!Acquired, Run!MaybeSubmit, RunProofs!MaybeSubmit, Run!SubmitWithoutCommit,
           RunProofs!SubmitWithoutCommit, Run!RecoverFinalization,
           RunProofs!RecoverFinalization, Run!CrashRecovery, RunProofs!CrashRecovery,
           Run!WorkerAt, RunProofs!WorkerAt, Run!EndAcquisition, RunProofs!EndAcquisition,
           Run!SelectRuns, RunProofs!SelectRuns, Run!TriggerFinalization,
           RunProofs!TriggerFinalization, Run!CrashTrigger, RunProofs!CrashTrigger,
           Run!StartFinalization, RunProofs!StartFinalization, Run!FinalizationStage,
           RunProofs!FinalizationStage, Run!EndFinalization, RunProofs!EndFinalization,
           Run!CrashWorker, RunProofs!CrashWorker, Run!EndSilently, RunProofs!EndSilently,
           Run!RetryJob, RunProofs!RetryJob, Run!SubmitElsewhere, RunProofs!SubmitElsewhere,
           Run!ProducerStep, RunProofs!ProducerStep, Run!WorkerStep, RunProofs!WorkerStep,
           Run!RunNext, RunProofs!RunNext
<1>4. RunProofs!RunNext => RunProofs!Next
  BY DEF RunProofs!Next
<1> QED BY <1>1, <1>2, <1>3, <1>4

\* The one producer of the run inserts no job for a goal that has one of the run,
\* whatever the other parts do.
THEOREM MissingOnly == PartsSpec => SubmitsOnlyMissing
<1>1. PartsInit => RunProofs!Init
  BY RunIsProved DEF PartsInit
<1>2. [PartsNext]_allVars => [RunProofs!Next]_RunProofs!vars
  <2>1. [PartsNext]_allVars => [Run!RunNext]_Run!vars
    BY DEF PartsNext, allVars, StagesMove, EquityMoves, IndexMoves, GapsMove, EnsureMoves, RunMoves,
       Stay, runVars, Run!vars, Run!ledger
  <2> QED BY <2>1, RunIsProved
<1>3. PartsSpec => []RunProofs!MissingInv
  BY <1>1, <1>2, RunIsProved, RunProofs!LoneInduction, PTL DEF PartsSpec, allVars, RunProofs!Spec
<1>4. RunProofs!MissingInv =>
        \A p \in {p1} :
          Run!At(p, "submit") /\ Len(jobs') > Len(jobs) /\ prod'[p].pc = "map"
            => Run!FoundJobs(prod[p].goal) = {}
  BY Zenon DEF RunProofs!MissingInv, Run!At, RunProofs!At, Run!FoundJobs, RunProofs!FoundJobs
<1> QED BY <1>3, <1>4, PTL DEF SubmitsOnlyMissing, Run!SubmitsOnlyMissing
=============================================================================
