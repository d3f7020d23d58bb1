SPECIFICATION DrawSpec
CONSTANTS
  Draws <- ScreenDraws
  Colors = {"black", "white"}
  Overlay = "fps"
  DeferClear = TRUE
  BatchOn = TRUE
  PartialClears = TRUE
  BatchMax = 3
  MaxOps = 3
  Names = {t1, t2}
  Images = {red, blue, dxt}
  Packed = {dxt}
  NoImage = NoImage
INVARIANTS
  FramesShowWhatWasDrawn

\* The run ends when the game has issued MaxOps operations.
CHECK_DEADLOCK FALSE
