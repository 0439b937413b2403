SPECIFICATION PartsSpec
CONSTANTS
  Flows = {f1, f2, f3}
  Nobody = Nobody
  StaleTime = 2
  MaxTime = 5
  Procs = {p1, p2, p3}
  MaxInterruptions = 2
  Writers = {p1, p2}
  Paths = {w1, w2}
  MaxUnits = 3
  MaxDepth = 3
  MaxEvents = 4
  Page = 2
  MaxCrashes = 2
  Executors = {p1, p2}
  Turns = {t1, t2}
  Preparer = p3
INVARIANTS
  FreshHolderOwnsTheFile
  LocksInvariant
  FilesInvariant
PROPERTIES
  OkMeansCommitted
  DeadLockIsRemoved
  EveryWaiterIsServed
  EveryEventIsArchived
  EveryRunConcludes
CHECK_DEADLOCK FALSE
