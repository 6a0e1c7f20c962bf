SPECIFICATION FairSpec
CONSTANTS
  Factors = {"ac"}
  Setters <- AllAtOnce
  PollLimit = 1
  Timings <- OneOfBoth
  MaxFaults = 2
  MaxSets = 3
  MaxForwards = 1
PROPERTY SupplyForward PollsReturn ShownIsSupply
