SPECIFICATION PartsSpec
CONSTANTS
  Identities = {d1, d2}
  Workers = {w1, w2}
  w3 = w3
  NoWorker = NoWorker
  Priorities = {0}
  LeaseTime = 2
  RetryDelay = 2
  MaxAttempts = 2
  PruneAge = 1
  PruneBatch = 1
  MaxWait = 1
  MaxJobs = 2
  MaxTime = 4
SYMMETRY Symmetry
INVARIANTS
  TypeOK
  OneActiveJobPerIdentity
  AttemptsBounded
  CancellationWins
  NoJobForgotten
PROPERTIES
  TerminalIsFinal
  LiveLeaseIsExclusive
  ClaimsFollowPriority
  ImplementsJobQueue
CHECK_DEADLOCK FALSE
