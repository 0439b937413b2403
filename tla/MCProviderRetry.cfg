SPECIFICATION FairSpec
CONSTANTS
  kbs = kbs
  vci = vci
  Ranking <- Priority
  Explicit = {fiinquantx}
  Callers = {c1}
PROPERTIES
  RetryIsAnswered
