SPECIFICATION PortSpec
CONSTANTS
  Sizes <- MCSizes
  Gap = 3
  RxInBuild = 1
  BufferSize = 5
  Contents <- MCContents
  QueueLen = 1
  MaxFaults = 2
INVARIANT Resynchronises PauseHeals
PROPERTY LineIsWhole FramesGoOut
CHECK_DEADLOCK FALSE
