CONSTANTS
  Buffers = {b1, b2, b3}
  NoBuf = NoBuf
  RawOutput = FALSE
  CaptureMode = "VIDEO"
  DmaBufNum = "NORMAL"
  IsrLatency = "late"
  Unready = {"reuse", "drop"}
  Faults = {"off"}
  Delays = {}
  MinQueued = 1
  MaxDelay = 2
SPECIFICATION Spec
SYMMETRY BufferSymmetry
INVARIANTS StopAbortsDma
