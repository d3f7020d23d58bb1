SPECIFICATION SplitSpec
CONSTANTS
  W = 2
  H = 2
  One = 2
  Points <- QuadPoints
  Mesh = TRUE
  Fine = 2
  SplitCell = 2
  MaxCells = 3
  Sides <- RectSides
  NoRect = NoRect
INVARIANTS
  QuadsWriteNoPixelTwice
  QuadsLeaveNoGap
  CoverWritesEveryPixel
  SplitDrawsTheRect
\* A draw has two triangles, or is one rect.
CHECK_DEADLOCK FALSE
