SPECIFICATION HeapSpec
CONSTANTS
  ka = ka
  kb = kb
  kc = kc
  Keys <- TwoKeys
  NoKey = nokey
  SlotCounts = {2}
  NPages = 2
  RingCap = 4
  MaxClock = 4
  MaxVer = 0
  Base = 16
  Size = 56
  Align = 8
  MaxFree = 3
  Requests <- UploadSizes
SYMMETRY KeySymmetry
INVARIANTS
  DrawsSampleTheirTexture
