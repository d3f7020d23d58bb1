SPECIFICATION Spec
CONSTANTS
  draw = draw
  end = end
  nop = nop
  Commands <- MCCommands
  EndCmd = end
  NopCmd = nop
  RingCap = 2
  DropLimits = {1, 2}
  SeqMod = 7
  Wrap = FALSE
INVARIANTS
  ExecutesItsOwnBatch
  ControlBlockQuiet
  OneBatchInFlight
  OneBlockingAwaitPerBatch
  WedgeSettlesAtFrameBegin
PROPERTIES
  ReclaimOnlyAfterFullRun
  ImplementsHandoff
\* The run stops before the sequence wraps: its last frame is not a deadlock.
CHECK_DEADLOCK FALSE
