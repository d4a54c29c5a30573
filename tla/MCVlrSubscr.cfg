SPECIFICATION FairSpec
CONSTANTS
  Subs = {s1}
  Offered = {"SMS", "CC"}
  MaxUnconfirmed = 0
  SweepCap = 1
  DrainCap = 1
  MaxPendingLu = 1
  IncompleteTicks = 2
  T3212 = 2
  X3212 = 3
  MaxFaults = 1
 
INVARIANT AssocFlags
 
PROPERTY PagingEnds
