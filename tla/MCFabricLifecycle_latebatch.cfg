SPECIFICATION Spec
CONSTANTS
  Tries = 1
  MaxLives = 2
  MaxFrames = 2
INVARIANTS
  AckMeansExecuted
\* The run ends when the last process has died.
CHECK_DEADLOCK FALSE
