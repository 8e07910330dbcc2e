CONSTANTS
  Videos = {v1, v2}
  NoVideo = NoVideo
  Kept = Kept
  Shared <- OneCamera
  StreamIdx = 2
  Offline = FALSE
  Faults = {}
  MaxInputs = 1
  MaxUses = 3

SPECIFICATION Spec
SYMMETRY VideoSymmetry
CHECK_DEADLOCK FALSE

INVARIANT ClosedIsOff
