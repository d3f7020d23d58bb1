SPECIFICATION LiveSpec
CONSTANTS
  Tries = 2
  MaxLives = 2
  MaxFrames = 3
INVARIANTS
  RunsOnlyItsBatch
  AckMeansExecutedInTime
  ParkedStaysIdle
PROPERTIES
  HandshakeCompletes
\* The run ends when the last process has died.
CHECK_DEADLOCK FALSE
