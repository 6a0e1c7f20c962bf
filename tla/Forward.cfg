SPECIFICATION FairForwardSpec
CONSTANTS
  Lines <- MCLines
  Frames = 3
  MaxLosses = 2
  MaxTransfers = 4
  MaxTaken = 1
INVARIANT FramesArrive
PROPERTY FileArrives TransferEnds
CHECK_DEADLOCK FALSE
