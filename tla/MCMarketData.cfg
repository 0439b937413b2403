SPECIFICATION PartsSpec
CONSTANTS
  Last = 4
  kbs = kbs
  vci = vci
  BarSessions = 1
  BarRuns = 3
  Prices = {a, b}
  GapSessions = 2
  GapRuns = 2
  GapPrices = {a}
  MaxVersions = 1
  p1 = p1
INVARIANTS
  ResultsRestOnCoverage
  DataInvariant
PROPERTIES
  SuccessIsEarned
  SuccessfulStagesAreKept
  BarsYieldToEvidence
  AnswersAreTrue
  SubmitsOnlyMissing
  RunIsFinalized
