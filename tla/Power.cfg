SPECIFICATION FairSpec
CONSTANTS
  FilterTime = 1
  FanTime = 1
  AcdcCycles = 1
  DelayOff = 1
  Slow = TRUE
  SlowDelay = 1
  TimerWidth = 2
  HostSets = {"rf", "pwr"}
  Reflections = {FALSE, TRUE}
INVARIANTS DriveIsAsked
PROPERTIES ClosedInterlockOpens OpenInterlockDisables ReflectionEnds RequestReachesFpga
