\* Segmentation and dispatch: every kind of frame, two in a row, no heartbeats.
SPECIFICATION Spec
CONSTANTS
  Cap = 18
  RecvMax = 8
  NLines = 2
  Before = 2
  PipeCap = 9
  PipeReadMax = 5
  HeartLen = 2
  NullStore = {"ignored", "fault"}
  Traffic <- AllTraffic
  Pipelined = TRUE
  MaxFrames = 2
  MaxBeats = 0
INVARIANTS TypeOK BufferIsStreamTail HandledInOrder
PROPERTIES ServiceSpec
