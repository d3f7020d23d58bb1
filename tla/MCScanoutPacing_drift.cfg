\* The model's clock stops at the horizon.
CHECK_DEADLOCK FALSE
SPECIFICATION Spec
CONSTANTS
  Period = 8
  Margin = 4
  Poll = 1
  Stall = 24
  FabricTimes = {1, 2}
  WorkTimes = {1, 9}
  Naps = {1}
  Wrap = 32
  Horizon = 80
  Modes = {}
  Warm = TRUE
  CanFreeze = FALSE
PROPERTIES
  EveryFrameShown
