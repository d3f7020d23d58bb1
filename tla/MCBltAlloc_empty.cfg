SPECIFICATION AllocSpec
CONSTANTS
  Base = 0
  Size = 32
  Align = 8
  MaxFree = 8
  Requests <- WithEmpty
PROPERTIES
  FreeUndoesAlloc
