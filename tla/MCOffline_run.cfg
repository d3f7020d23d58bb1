SPECIFICATION OfflineSpec
CONSTANTS
  Edits <- GodotEditList
  Edited <- EditedFiles
  Copied = {"bridge", "framelog"}
  Upstream <- StockTree
  Ending <- EndOfFile
  MaxRuns = 2
  Tasks = {"main", "idle", "sh", "kworker"}
  Shell = {"sh"}
  Ticks = 4
  MaxEvents = 4
  FramePeriod = 1
  MinOthers = 1
  MinIrq = 2
  Second = 2
  Sixty = 3
  MaxNow = 4
  MaxScans = 5
  Loaders = {"main"}
  BootTicks = 4
  MaxBegun = 3
  MaxPhases = 2
  MaxScopes = 3
INVARIANTS
  FinishedTreeIsFresh
  AttributionIsTrue
  WindowsCountRight
  BootTimesAddUp
PROPERTIES
  NoEditTwice
\* A patched tree, a log, a trace or a capture is finished.
CHECK_DEADLOCK FALSE
