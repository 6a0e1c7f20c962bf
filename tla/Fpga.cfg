SPECIFICATION FairSpec
CONSTANTS
  Regs = 2
  Values <- MCValues
  Zero <- MCZero
  Overrun = FALSE
  MaxResets = 1
INVARIANTS CacheAgrees
PROPERTY AskedIsWritten
