SPECIFICATION PartsSpec
CONSTANTS
  Identities = {d1, d2}
  Workers = {w1, w2}
  NoWorker = NoWorker
  MaxAttempts = 2
  MaxJobs = 1
  Unhandled = {d2}
  Stages = 2
  WriteStages = {2}
  MaxInterruptions = 2
  Ranking <- Priority
  Explicit = {fiinquantx}
  Callers = {c1}
  kbs = kbs
  vci = vci
INVARIANTS
  WorkerInvariant
  RoutingInvariant
PROPERTIES
  EveryJobEnds
  GateIsReleased
  ExplicitRequestsRecover
