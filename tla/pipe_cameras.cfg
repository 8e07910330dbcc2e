CONSTANTS
  Videos = {v1, v2}
  NoVideo = NoVideo
  Kept = Kept
  Shared <- TwoCameras
  StreamIdx = 4
  Offline = FALSE
  Faults = {"on", "init", "power", "suspend"}
  MaxInputs = 1
  MaxUses = 2

SPECIFICATION FairSpec
CHECK_DEADLOCK FALSE

INVARIANT TypeOK
INVARIANT ClosedIsOff
INVARIANT QueueFollowsStream
INVARIANT RunningIsPowered
INVARIANT DmaHasQueue
PROPERTY SourceStartsLast
PROPERTY CallsReturn
