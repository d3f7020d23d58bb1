SPECIFICATION WedgedSpec
CONSTANTS
  draw = draw
  end = end
  nop = nop
  Commands = {}
  EndCmd = end
  NopCmd = nop
  RingCap = 1
  DropLimits = {1, 3}
  SeqMod = 3
  Wrap = TRUE
PROPERTIES
  FramesKeepComing
  EveryDoorbellAnswered
