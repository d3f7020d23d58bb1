\* The model's clock stops at the horizon.
CHECK_DEADLOCK FALSE
SPECIFICATION Spec
CONSTANTS
  Period = 6
  Margin = 3
  Poll = 1
  Stall = 18
  FabricTimes = {1, 2}
  WorkTimes = {1, 7, 13}
  Naps = {1, 20}
  Wrap = 16
  Horizon = 38
  Modes = {"scanout", "timer", "off"}
  Warm = FALSE
  CanFreeze = TRUE
PROPERTIES
  TimedFramesShown
  NeverTwiceInABoundary
  FallsBackOnlyWhenStalled
