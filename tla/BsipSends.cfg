SPECIFICATION FairSpec
CONSTANTS
  Telegrams = {"set", "mute", "unmute", "sync", "getdata", "frame0", "frame",
               "forward0", "forward", "refused"}
  AckGap = 1
  InitGap = 10
  StatusGap = 10
  DebugGap = 20
  FrameNos = {0}
  MaxBusy = 2
  QueueLength = 3
INVARIANT AckIsNext AckIsDue
PROPERTY AckIsSent ParamsAreSent
