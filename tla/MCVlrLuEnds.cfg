SPECIFICATION FairSpec
CONSTANTS
  Subs = {s1}
  Offered = {"SMS", "CC"}
  MaxUnconfirmed = 1
  SweepCap = 1
  DrainCap = 1
  MaxPendingLu = 2
  IncompleteTicks = 2
  T3212 = 2
  X3212 = 0
  MaxFaults = 1
PROPERTY LuEnds
