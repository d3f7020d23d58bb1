SPECIFICATION BesideSpec
CONSTANTS
  Script <- InjectScript
  IntroFrames = 1
  Functions = {"f", "g"}
  GameThreads = {"main", "worker"}
  MaxFrames = 2
  MaxBreaks = 2
  MaxOthers = 1
  Slots = {p1, p2}
  MaxLoads = 2
INVARIANTS
  NeverPausesAGame
  FramesAreNamed
  PcmIsLiveAndCurrent
PROPERTIES
  DrivenPlayResumes
  DebuggedGameGoesOn
  LoadsReturnAndMemoryReturns
\* The game may quit, or be done with the stream.
CHECK_DEADLOCK FALSE
