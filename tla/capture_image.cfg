CONSTANTS
  Buffers = {b1}
  NoBuf = NoBuf
  RawOutput = TRUE
  CaptureMode = "IMAGE"
  DmaBufNum = "NORMAL"
  IsrLatency = "late"
  Unready = {"reuse", "drop"}
  Faults = {"on", "overflow", "miss"}
  Delays = {1, 2, 3}
  MinQueued = 1
  MaxDelay = 2
SPECIFICATION Spec
INVARIANTS DmaTargetsActive ListsAgree DoneIsFresh
CHECK_DEADLOCK FALSE
