SPECIFICATION Spec
CONSTANTS
  Last = 3
INVARIANTS
  SuccessIsComplete
