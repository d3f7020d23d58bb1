SPECIFICATION HeapSpec
CONSTANTS
  ka = ka
  kb = kb
  kc = kc
  Keys <- ThreeKeys
  NoKey = nokey
  SlotCounts = {1, 2}
  NPages = 2
  RingCap = 4
  MaxClock = 4
  MaxVer = 1
  Base = 16
  Size = 56
  Align = 8
  MaxFree = 3
  Requests <- UploadSizes
SYMMETRY KeySymmetry
INVARIANTS
  HeapAccounted
  FlightPagesPinned
  DrawsSampleUnlessStageLost
  HeapConserved
  FreeListSuffices
