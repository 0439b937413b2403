-------------------------- MODULE DailyMaintenance --------------------------
(***************************************************************************)
(* "vnalpha maintain daily" (cli_app/maintain.py, maintenance/daily.py,    *)
(* ledger.py), run again and again for one market session.                 *)
(*                                                                         *)
(* The whole command is one outermost warehouse transaction: its stages,   *)
(* which catch what goes wrong inside them, and its ledger row take effect *)
(* together or not at all (WarehouseTransaction), and nobody else writes   *)
(* the warehouse meanwhile.  What bars are made of is in OhlcvIngestion,   *)
(* the files of the memory stages are in MemoryCards.  "--dry-run" works   *)
(* on an empty database in memory and is left out.                         *)
(***************************************************************************)
EXTENDS Naturals

CONSTANTS
  Symbols,
  MaxRuns    \* bound of the model: invocations of the command

VARIABLES
  saved,    \* the committed warehouse
  here,     \* the warehouse as the running command's transaction sees it
  spoiled,  \* rollback_only: an operation failed in a nested transaction
  run,      \* the running command
  reply,    \* what the last command printed, and its exit code
  runs      \* number of commands so far

vars == <<saved, here, spoiled, run, reply, runs>>

\* The canonical bars of a symbol: none of the session, one but a true gap in the
\* ten sessions up to it, or all there is to be had.
Behind == 0
Gap == 1
Whole == 2
Bars == Behind..Whole

\* snapshot: symbol_source_snapshot has a SUCCESS row of the day; bench: the
\* benchmark's canonical bars reach the session; scored: the run that scored a
\* symbol, 0 for another command or none; ledger: the rows of maintenance_run.
Bare == [snapshot |-> FALSE, bench |-> FALSE, bars |-> [s \in Symbols |-> Behind],
         scored |-> [s \in Symbols |-> 0], ledger |-> {}]

\* todo: the symbols still to be scanned; failed, eligible, ready (benchmark_ready)
\* and grouped (group_context is there) as in _execute; gaps, builds: results of
\* stages under way; problems: the statuses PARTIAL and FAILED among the stages.
Idle == [pc |-> "idle", scope |-> {}, todo |-> {}, failed |-> {}, eligible |-> {},
         ready |-> FALSE, grouped |-> FALSE, gaps |-> {}, builds |-> {}, problems |-> {},
         status |-> "none"]

NoExit == 255
Silent == [told |-> "none", exit |-> NoExit]

Init ==
  /\ saved = Bare /\ here = Bare
  /\ spoiled = FALSE
  /\ run = Idle
  /\ reply = Silent
  /\ runs = 0

At(l) == run.pc = l
Result == {"SUCCESS", "PARTIAL", "FAILED"}   \* ProvisioningStatus

StageStatus_AnySuccess(results) ==
  IF "SUCCESS" \in results THEN "SUCCESS" ELSE IF "PARTIAL" \in results THEN "PARTIAL" ELSE "FAILED"

\* _stage
StageStatus(results) ==
  IF results = {"FAILED"} THEN "FAILED"
  ELSE IF results \cap {"PARTIAL", "FAILED"} # {} THEN "PARTIAL" ELSE "SUCCESS"

\* A stage with these results is recorded; without any it is SKIPPED.
Problems(results) ==
  run.problems \cup (IF results = {} THEN {} ELSE {StageStatus(results)} \ {"SUCCESS"})

\* Whether an operation may have caught the failure of a nested transaction.
Caught(possible) == spoiled' \in (IF possible THEN {spoiled, TRUE} ELSE {spoiled})

Working == UNCHANGED <<saved, reply, runs>>

----------------------------------------------------------------------------
(* The stages that acquire bars *)

Begins(r) ==
  /\ At("idle") /\ runs < MaxRuns
  /\ run' = r
  /\ here' = saved /\ spoiled' = FALSE
  /\ reply' = Silent
  /\ runs' = runs + 1
  /\ UNCHANGED saved

\* The requested symbols, or the active ones.
Begin == \E scope \in SUBSET Symbols : Begins([Idle EXCEPT !.pc = "snapshot", !.scope = scope])

\* The date is no session, or one the calendar does not cover.
BeginNoop == Begins([Idle EXCEPT !.pc = "persist", !.status = "NOOP"])

\* symbol_snapshot, unless one was completed on the day of the session, which a
\* snapshot taken later is not.  After its failure, or without symbols, nothing
\* else is tried.
TakeSnapshot ==
  /\ At("snapshot")
  /\ \E r \in Result, current \in BOOLEAN :
       /\ here.snapshot => r = "SUCCESS" /\ current
       /\ current => r = "SUCCESS"
       /\ here' = [here EXCEPT !.snapshot = current]
       /\ run' = [run EXCEPT
            !.pc = IF r = "FAILED" \/ run.scope = {} THEN "conclude" ELSE "sync",
            !.problems = Problems({r}) \cup (IF run.scope = {} THEN {"FAILED"} ELSE {}),
            !.failed = IF r = "FAILED" THEN run.scope ELSE {}]
       /\ Caught(r = "FAILED")
  /\ Working

\* incremental_ohlcv: the symbols without a bar of the session are fetched and
\* rebuilt one by one.  An exception in between fails them all.
Sync ==
  /\ At("sync")
  /\ LET stale == {s \in run.scope : here.bars[s] = Behind} IN
     \E synced \in SUBSET stale, bars \in [Symbols -> Bars] :
       LET failed == stale \ synced IN
       /\ \A s \in Symbols \ (IF synced = {} THEN stale ELSE synced) : bars[s] = here.bars[s]
       /\ here' = [here EXCEPT !.bars = bars]
       /\ run' = [run EXCEPT
            !.pc = "bench", !.todo = run.scope \ failed, !.failed = failed,
            !.problems = Problems({IF s \in synced THEN "SUCCESS" ELSE "FAILED" : s \in stale})]
       /\ Caught(failed # {})
  /\ Working

\* benchmark_ohlcv: the download and, if it succeeded, the canonical build;
\* neither when the benchmark reaches the session, which their success does not
\* promise.
Benchmark ==
  /\ At("bench")
  /\ \E download, build \in Result, bench \in BOOLEAN :
       LET done == IF here.bench THEN {}
                   ELSE IF download = "SUCCESS" THEN {download, build} ELSE {download}
       IN  /\ bench # here.bench => "SUCCESS" \in done
           /\ here' = [here EXCEPT !.bench = bench]
           /\ run' = [run EXCEPT !.pc = "mend", !.ready = done \subseteq {"SUCCESS"},
                                 !.problems = Problems(done)]
           /\ Caught("FAILED" \in done)
  /\ Working

\* The bars of s after a build with this result, and before it maybe a repair.
\* A build without rejections removes no bar.
Rebuilt(s, build, repaired, bars) ==
  /\ build = "SUCCESS" => bars >= here.bars[s]
  /\ ~repaired =>
       bars \in (IF build = "SUCCESS" THEN {here.bars[s], Whole}
                ELSE IF build = "none" THEN {here.bars[s]} ELSE Bars)

\* One symbol of gap_repair and canonical: a scan, the repair of the true gaps it
\* finds, and a build, whose rejections exclude the symbol.  A bar of the session
\* may be missing without being a gap to repair, and a repair succeed by learning
\* that there is none to be had.
Mend(s) ==
  /\ At("mend")
  /\ \E scan \in Result, repair, build \in Result \cup {"none"}, bars \in Bars :
       /\ scan = "SUCCESS" => here.bars[s] # Gap
       /\ scan = "PARTIAL" => here.bars[s] # Whole
       /\ repair # "none" <=> scan = "PARTIAL"
       /\ build # "none" <=> scan = "SUCCESS" \/ repair = "SUCCESS"
       /\ Rebuilt(s, build, scan = "PARTIAL", bars)
       /\ here' = [here EXCEPT !.bars[s] = bars]
       /\ run' = [run EXCEPT
            !.todo = @ \ {s},
            !.gaps = @ \cup ({scan, repair} \ {"none"}),
            !.builds = @ \cup ({build} \ {"none"}),
            !.eligible = IF build = "SUCCESS" THEN @ \cup {s} ELSE @,
            !.failed = IF build = "SUCCESS" THEN @ ELSE @ \cup {s}]
       /\ Caught(repair \in {"PARTIAL", "FAILED"} \/ build = "FAILED")
  /\ Working

EndMending ==
  /\ At("mend") /\ run.todo = {}
  /\ run' = [run EXCEPT !.pc = "features", !.gaps = {}, !.builds = {},
                         !.problems = Problems(run.gaps) \cup Problems(run.builds)]
  /\ UNCHANGED <<here, spoiled>> /\ Working

----------------------------------------------------------------------------
(* The stages that derive from them *)

\* The symbols that go on to features, scores and memory.
Downstream == run.eligible \ run.failed

\* Without symbols or benchmark both stages are skipped, after failed features
\* the scores.
BuildFeatures ==
  /\ At("features")
  /\ IF Downstream = {} \/ ~run.ready
     THEN run' = [run EXCEPT !.pc = "outcomes"]
     ELSE \E r \in Result :
            run' = [run EXCEPT !.pc = IF r = "FAILED" THEN "outcomes" ELSE "score",
                               !.problems = Problems({r})]
  /\ UNCHANGED <<here, spoiled>> /\ Working

ScoreResult_AnyIsEnough(scored) == IF scored # {} THEN "SUCCESS" ELSE "PARTIAL"

\* A requested symbol without a score makes the result PARTIAL.
ScoreResult(scored) == IF scored = Downstream THEN "SUCCESS" ELSE "PARTIAL"

\* score_watchlist: symbols with features of this very session are scored, all
\* or, when an exception ends the operation, none.  Then their memory is updated
\* as a courtesy: what fails there is only logged.
Score ==
  /\ At("score")
  /\ \/ \E scored \in SUBSET {s \in Downstream : here.bars[s] # Behind} :
          /\ here' = [here EXCEPT !.scored = [s \in Symbols |-> IF s \in scored THEN runs ELSE @[s]]]
          /\ run' = [run EXCEPT !.pc = "outcomes", !.problems = Problems({ScoreResult(scored)})]
     \/ /\ run' = [run EXCEPT !.pc = "outcomes", !.problems = Problems({"FAILED"})]
        /\ UNCHANGED here
  /\ Caught(TRUE)
  /\ Working

\* candidate_outcomes, market_regime and sector_strength, group_context,
\* symbol_memory, entity_memory.
Following == [outcomes |-> "contexts", contexts |-> "group", group |-> "memory",
              memory |-> "entity", entity |-> "conclude"]

Possible(stage) ==
  IF stage = "memory" /\ Downstream = {} THEN {"SUCCESS"}
  ELSE IF stage = "entity" THEN {"SUCCESS"} \cup (IF run.grouped THEN {"PARTIAL"} ELSE {})
  ELSE Result

\* The results behind which a nested transaction may have failed.
Nested == [outcomes |-> {"PARTIAL"}, contexts |-> {}, group |-> {"FAILED"},
           memory |-> {"PARTIAL", "FAILED"}, entity |-> {"PARTIAL"}]

Derive ==
  /\ run.pc \in DOMAIN Following
  /\ \E r \in Possible(run.pc), second \in (IF At("contexts") THEN Result ELSE {"SUCCESS"}) :
       /\ run' = [run EXCEPT !.pc = Following[@], !.problems = Problems({r}) \cup Problems({second}),
                             !.grouped = IF At("group") THEN r # "FAILED" ELSE @]
       /\ Caught(r \in Nested[run.pc])
  /\ UNCHANGED here /\ Working

----------------------------------------------------------------------------
(* The end *)

FinalStatus_FailuresOnly ==
  IF "FAILED" \in run.problems /\ Downstream = {} THEN "FAILED"
  ELSE IF "FAILED" \in run.problems \/ run.failed # {} THEN "PARTIAL" ELSE "SUCCESS"

\* _final_result
FinalStatus ==
  IF "FAILED" \in run.problems /\ Downstream = {} THEN "FAILED"
  ELSE IF run.problems # {} \/ run.failed # {} THEN "PARTIAL" ELSE "SUCCESS"

Conclude ==
  /\ At("conclude")
  /\ run' = [run EXCEPT !.pc = "persist", !.status = FinalStatus]
  /\ UNCHANGED <<here, spoiled>> /\ Working

\* persist_maintenance_run, then the result is printed.
Persist ==
  /\ At("persist")
  /\ here' = [here EXCEPT !.ledger = @ \cup
       {[id |-> runs, status |-> run.status, scope |-> run.scope, successful |-> Downstream]}]
  /\ reply' = [reply EXCEPT !.told = run.status]
  /\ run' = [run EXCEPT !.pc = "commit"]
  /\ UNCHANGED <<saved, spoiled, runs>>

Ends(exit) ==
  /\ run' = Idle
  /\ here' = saved' /\ spoiled' = FALSE
  /\ reply' = [reply EXCEPT !.exit = exit]
  /\ UNCHANGED runs

ExitCode(status) == IF status = "FAILED" THEN 1 ELSE IF status = "PARTIAL" THEN 3 ELSE 0

Commit_Regardless ==
  /\ At("commit")
  /\ saved' = IF spoiled THEN saved ELSE here
  /\ Ends(ExitCode(run.status))

\* The end of the outermost transaction.
Commit ==
  /\ At("commit")
  /\ IF spoiled THEN saved' = saved /\ Ends(1) ELSE saved' = here /\ Ends(ExitCode(run.status))

Fail_KeepsWork == ~At("idle") /\ saved' = here /\ Ends(1)

\* An exception no stage catches, or COMMIT itself fails.
Fail == ~At("idle") /\ saved' = saved /\ Ends(1)

Crash == ~At("idle") /\ saved' = saved /\ Ends(NoExit)

\* Another command, between two of these, scores or fetches, and may remove a
\* disputed bar.
Elsewhere ==
  /\ At("idle")
  /\ \/ \E s \in Symbols, b \in Bars : saved' = [saved EXCEPT !.bars[s] = b]
     \/ \E s \in Symbols : saved.bars[s] # Behind /\ saved' = [saved EXCEPT !.scored[s] = 0]
     \/ \E b \in BOOLEAN : saved' = [saved EXCEPT !.snapshot = TRUE, !.bench = b]
  /\ here' = saved'
  /\ UNCHANGED <<spoiled, run, reply, runs>>

Next ==
  \/ Begin \/ BeginNoop \/ TakeSnapshot \/ Sync \/ Benchmark
  \/ \E s \in run.todo : Mend(s)
  \/ EndMending \/ BuildFeatures \/ Score \/ Derive
  \/ Conclude \/ Persist \/ Commit \/ Fail \/ Crash \/ Elsewhere

Spec == Init /\ [][Next]_vars

----------------------------------------------------------------------------
(* Properties *)

TypeOK ==
  /\ \A w \in {saved, here} :
       /\ w.snapshot \in BOOLEAN /\ w.bench \in BOOLEAN
       /\ w.bars \in [Symbols -> Bars] /\ w.scored \in [Symbols -> 0..MaxRuns]
  /\ spoiled \in BOOLEAN
  /\ run.failed \cup run.eligible \cup run.todo \subseteq run.scope
  /\ run.problems \subseteq {"PARTIAL", "FAILED"}
  /\ reply.exit \in {0, 1, 3, NoExit}
  /\ runs \in 0..MaxRuns

\* "a crash or error before completion rolls the whole invocation back": what a
\* command has scored is there only with its ledger row, and that row counts the
\* symbol as successful (DailyMaintenanceService, persist_maintenance_run).
WorkIsRecorded ==
  \A s \in Symbols :
    saved.scored[s] # 0 =>
      \E row \in saved.ledger : row.id = saved.scored[s] /\ s \in row.successful

\* Exit codes 0 and 3 tell that the result printed is the one recorded, with all
\* the work it stands for (the end of the "daily" command).
ExitTellsTheLedger ==
  reply.exit \in {0, 3} =>
    \E row \in saved.ledger :
      row.id = runs /\ row.status = reply.told /\ ExitCode(row.status) = reply.exit

\* A run recorded as SUCCESS has bars up to the session, without true gaps, and a
\* score of its own for every symbol of its scope, whatever it skipped because
\* earlier commands had done it (_final_result).
SuccessIsCurrent ==
  \A row \in saved'.ledger \ saved.ledger :
    row.status = "SUCCESS" =>
      \A s \in row.scope : saved'.bars[s] = Whole /\ saved'.scored[s] = row.id

\* openspec/specs/daily-core-maintenance: when "one required stage or symbol
\* remains partial", "stdout contains one parseable PARTIAL result and the process
\* exits 3".  The command's own end, not that of a COMMIT that fails, is meant.
PartialExitsThree == [][Commit /\ reply.told = "PARTIAL" => reply'.exit = 3]_vars

============================================================================
