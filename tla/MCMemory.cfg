SPECIFICATION PartsSpec
CONSTANTS
  s1 = s1
  s2 = s2
  user = user
  a = a
  b = b
  c = c
  fpt = fpt
  hpg = hpg
CHECK_DEADLOCK FALSE
SYMMETRY Symmetry
INVARIANTS
  SupersededByBetter
  NoLoneConflict
  MemoryInvariant
PROPERTIES
  HistoryIsFinal
  DocumentIsCommitted
  EditIsKept
