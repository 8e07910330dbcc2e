CONSTANTS
  Videos = {v1, v2}
  NoVideo = NoVideo
  Kept = Kept
  Shared <- OneCamera
  StreamIdx = 2
  Offline = TRUE
  Faults = {"init", "two_openers"}
  MaxInputs = 1
  MaxUses = 2

SPECIFICATION Spec
SYMMETRY VideoSymmetry
CHECK_DEADLOCK FALSE

INVARIANT StreamingRuns
INVARIANT CountsAgree
INVARIANT AwakeIsPowered
