SPECIFICATION SplitSpec
CONSTANTS
  W = 3
  H = 3
  One = 2
  Points <- LoosePoints
  Mesh = FALSE
  Fine = 2
  SplitCell = 2
  MaxCells = 3
  Sides = {}
  NoRect = NoRect
INVARIANTS
  CoverWritesEveryPixel
\* A draw has two triangles.
CHECK_DEADLOCK FALSE
