CONSTANTS
  Main = video1
  Bind = video0
  NoBuffer = NoBuffer
  NoRequest = NoRequest
  Requests <- CarefulRequests
  FormatFirst = TRUE
  Faults = {"init_main"}
  MaxUses = 2
  MaxHalvings = 2

SPECIFICATION Spec
CHECK_DEADLOCK FALSE

INVARIANT TypeOK
INVARIANT FullFrameIsPaired
INVARIANT OtherFramesAreWhole
INVARIANT DmaWritesQueue
INVARIANT StreamIsPowered
INVARIANT TdmBuffersFit
INVARIANT ClosedIsUnused
