SPECIFICATION Spec
CONSTANTS
  Ring = 6
  Period = 2
  Targets = {3}
  Stamps = 13
INVARIANTS
  LeavesEmpty
