SPECIFICATION Spec
CONSTANTS
  Symbols = {s1}
  MaxRuns = 1
PROPERTIES
  PartialExitsThree
