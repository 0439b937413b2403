SPECIFICATION PartsSpec
CONSTANTS
  Producers = {p1, p2}
  MaxGoals = 1
  MaxJobs = 2
  MaxInterruptions = 1
  c1 = c1
  c2 = c2
  s1 = s1
  s2 = s2
SYMMETRY ProducerSymmetry
CONSTRAINT FewCombined
INVARIANTS
  MaintenanceInvariant
  RecordsInvariant
PROPERTIES
  MappingsAreStable
  RecordsStep
