\* Heartbeats, a blocked pipe, the clean-up; the cloud waits for each frame to be handled.
SPECIFICATION FairSpec
CONSTANTS
  Cap = 12
  RecvMax = 4
  NLines = 1
  Before = 0
  PipeCap = 9
  PipeReadMax = 5
  HeartLen = 2
  NullStore = {"ignored"}
  Traffic <- TinyTraffic
  Pipelined = FALSE
  MaxFrames = 2
  MaxBeats = 6
INVARIANTS HeartFindsItsState WholeFramesUnlessBacklog ResourcesReleased
PROPERTIES SessionEnds EveryFrameHandled
