---------------------------- MODULE MCMarketData ----------------------------
(***************************************************************************)
(* Model-checking instance of what is done to the data of a session: of    *)
(* SessionFinalizer ("stages"); of OhlcvIngestion for an equity whose two  *)
(* providers dispute one session, for an index with a preferred provider,  *)
(* and for the gaps of two sessions; of DataEnsure; and, under fairness,   *)
(* of MaintenanceRun with one producer ("run").  A behaviour belongs to    *)
(* one of them, its part.                                                  *)
(***************************************************************************)
EXTENDS SessionFinalizer

CONSTANTS
  BarSessions, BarRuns, kbs, vci, Prices,  \* OhlcvIngestion for the equity and the index
  GapSessions, GapRuns, GapPrices,         \* OhlcvIngestion for the gaps
  MaxVersions,                             \* DataEnsure
  p1                                       \* MaintenanceRun

ASSUME MarketAssumption ==
  /\ BarSessions \in Nat /\ BarRuns \in Nat
  /\ GapSessions \in Nat /\ GapRuns \in Nat
  /\ MaxVersions \in Nat

VARIABLES
  part,
  raw, runs, canonical, quarantine, gap, listed, built, op,              \* OhlcvIngestion
  known, stored, fetched, promoted, promotedFrom, gapOpen, features, strength, score, flow,  \* DataEnsure
  runStatus, expected, goalJob, finJob, jobs, prod, worker, pruning, interruptions  \* MaintenanceRun

barVars == <<raw, runs, canonical, quarantine, gap, listed, built, op>>
ensureVars == <<known, stored, fetched, promoted, promotedFrom, gapOpen, features, strength, score, flow>>
runVars == <<runStatus, expected, goalJob, finJob, jobs, prod, worker, pruning, interruptions>>

Equity == INSTANCE OhlcvIngestion WITH
  Last <- BarSessions, Providers <- {kbs, vci}, Precedence <- <<>>, Values <- Prices, MaxRuns <- BarRuns,
  Commands <- {"download", "daily", "build"}

Index == INSTANCE OhlcvIngestion WITH
  Last <- BarSessions, Providers <- {kbs, vci}, Precedence <- <<vci>>, Values <- Prices, MaxRuns <- BarRuns,
  Commands <- {"download", "build"}

Gaps == INSTANCE OhlcvIngestion WITH
  Last <- GapSessions, Providers <- {kbs}, Precedence <- <<>>, Values <- GapPrices, MaxRuns <- GapRuns,
  Commands <- {"download", "daily", "scan", "repair"}

Ensure == INSTANCE DataEnsure WITH
  raw <- stored, canonical <- promoted, built <- promotedFrom

Run == INSTANCE MaintenanceRun WITH
  Producers <- {p1}, MaxGoals <- 2, MaxJobs <- 2, MaxInterruptions <- 1, status <- runStatus

PartsInit ==
  /\ part \in {"stages", "equity", "index", "gaps", "ensure", "run"}
  /\ Init /\ (part # "stages" => eligible = "all" /\ benchmark)
  /\ IF part = "gaps" THEN Gaps!Init ELSE Equity!Init
  /\ Ensure!Init /\ (part # "ensure" => known /\ score = Ensure!None)
  /\ Run!Init

\* A step of one part leaves the variables of the others alone.
Stay(others) == UNCHANGED <<part, others>>

StagesMove == part = "stages" /\ Next /\ Stay(<<barVars, ensureVars, runVars>>)
EquityMoves == part = "equity" /\ Equity!Next /\ Stay(<<vars, ensureVars, runVars>>)
IndexMoves == part = "index" /\ Index!Next /\ Stay(<<vars, ensureVars, runVars>>)
GapsMove == part = "gaps" /\ Gaps!Next /\ Stay(<<vars, ensureVars, runVars>>)
EnsureMoves == part = "ensure" /\ Ensure!Next /\ Stay(<<vars, barVars, runVars>>)
RunMoves == part = "run" /\ Run!RunNext /\ Stay(<<vars, barVars, ensureVars>>)

PartsNext ==
  \/ StagesMove \/ EquityMoves \/ IndexMoves \/ GapsMove \/ EnsureMoves \/ RunMoves

\* The fairness of MaintenanceRun's FairSpec.
PartsSpec ==
  /\ PartsInit
  /\ [][PartsNext]_<<part, vars, barVars, ensureVars, runVars>>
  /\ WF_runVars(part = "run" /\ Run!ProducerStep(p1))
  /\ WF_runVars(part = "run" /\ Run!WorkerStep)
  /\ WF_runVars(part = "run" /\ Run!RecoverFinalization)

DataInvariant ==
  /\ part = "equity" => Equity!TypeOK /\ Equity!BarsAreUncontested /\ Equity!EvidenceIsAccounted
  /\ part = "index" => Index!TypeOK /\ Index!BarsAreUncontested /\ Index!EvidenceIsAccounted
  /\ part = "gaps" => Gaps!TypeOK /\ Gaps!EvidenceIsAccounted
  /\ part = "ensure" => Ensure!TypeOK

BarsYieldToEvidence == [][part = "equity" => Equity!OnlyNewerEvidenceReplaces]_barVars

\* What a repair says it closed is there, and a flow's READY is of one piece.
AnswersAreTrue ==
  [][/\ part = "gaps" /\ Gaps!RepairEnds => Gaps!RepairTold
     /\ part = "ensure" => Ensure!ReadyIsOfOnePiece /\ Ensure!OnePassSuffices]_<<barVars, ensureVars>>

SubmitsOnlyMissing == Run!SubmitsOnlyMissing
RunIsFinalized == Run!RunIsFinalized
=============================================================================
