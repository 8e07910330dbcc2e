CONSTANTS
  Buffers = {b1}
  NoBuf = NoBuf
  RawOutput = FALSE
  CaptureMode = "IMAGE"
  DmaBufNum = "NORMAL"
  IsrLatency = "late"
  Unready = {"reuse", "drop"}
  Faults = {}
  Delays = {}
  MinQueued = 1
  MaxDelay = 2
SPECIFICATION Spec
INVARIANTS HeadExists
CHECK_DEADLOCK FALSE
