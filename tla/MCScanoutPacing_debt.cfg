\* The model's clock stops at the horizon.
CHECK_DEADLOCK FALSE
SPECIFICATION Spec
CONSTANTS
  Period = 6
  Margin = 2
  Poll = 1
  Stall = 18
  FabricTimes = {1}
  WorkTimes = {1, 20}
  Naps = {1}
  Wrap = 32
  Horizon = 60
  Modes = {"timer"}
  Warm = TRUE
  CanFreeze = FALSE
INVARIANTS
  NeverFasterThanScanout
