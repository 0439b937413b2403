SPECIFICATION Spec
CONSTANTS
  kbs = kbs
  vci = vci
  Pool <- PoolOrder
  Threads = {t1, t2}
INVARIANTS
  StrictAnswersAreValid
