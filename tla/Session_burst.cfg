\* Two frames at once: the second waits for ever.
SPECIFICATION FairSpec
CONSTANTS
  Cap = 20
  RecvMax = 8
  NLines = 2
  Before = 2
  PipeCap = 9
  PipeReadMax = 5
  HeartLen = 2
  NullStore = {"ignored"}
  Traffic <- ProbeTraffic
  Pipelined = TRUE
  MaxFrames = 2
  MaxBeats = 0
PROPERTIES EveryFrameHandled
