CONSTANTS
  Buffers = {b1, b2, b3, b4}
  NoBuf = NoBuf
  RawOutput = FALSE
  CaptureMode = "VIDEO"
  DmaBufNum = "NORMAL"
  IsrLatency = "late"
  Unready = {"reuse", "drop"}
  Faults = {"on", "served_miss"}
  Delays = {1, 2, 3}
  MinQueued = 1
  MaxDelay = 2
SPECIFICATION OrderSpec
INVARIANTS TypeOK DmaTargetsActive ListsAgree DoneIsFresh HeadExists StopAbortsDma FramesInOrder
PROPERTIES ImplementsFrameQueue
