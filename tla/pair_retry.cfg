CONSTANTS
  Main = video1
  Bind = video0
  NoBuffer = NoBuffer
  NoRequest = NoRequest
  Requests <- BoardRequests
  FormatFirst = TRUE
  Faults = {"start"}
  MaxUses = 2
  MaxHalvings = 2

SPECIFICATION Spec
CHECK_DEADLOCK FALSE

INVARIANT TdmBuffersFit
