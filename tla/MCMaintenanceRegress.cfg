SPECIFICATION Spec
CONSTANTS
  Producers = {p1}
  MaxGoals = 1
  MaxJobs = 1
  MaxInterruptions = 1
PROPERTIES
  NeverBackToAcquiring
