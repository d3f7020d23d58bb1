SPECIFICATION DrawSpec
CONSTANTS
  Draws <- GameDraws
  Colors = {"black"}
  Overlay = "fps"
  DeferClear = TRUE
  BatchOn = TRUE
  PartialClears = FALSE
  BatchMax = 3
  MaxOps = 4
  Names = {t1, t2}
  Images = {red, blue, dxt}
  Packed = {dxt}
  NoImage = NoImage
INVARIANTS
  FramesShowWhatWasDrawn
  SurfaceShowsWhatGLWould
\* The run ends when the game has issued MaxOps operations.
CHECK_DEADLOCK FALSE
