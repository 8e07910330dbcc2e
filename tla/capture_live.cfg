CONSTANTS
  Buffers = {b1, b2, b3}
  NoBuf = NoBuf
  RawOutput = FALSE
  CaptureMode = "VIDEO"
  DmaBufNum = "NORMAL"
  IsrLatency = "any"
  Unready = {"reuse"}
  Faults = {"off"}
  Delays = {1}
  MinQueued = 0
  MaxDelay = 0
SPECIFICATION FairSpec
INVARIANTS ListsAgree
PROPERTIES BufferServed
