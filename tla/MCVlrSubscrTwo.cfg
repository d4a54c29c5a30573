SPECIFICATION Spec
CONSTANTS
  Subs = {s1, s2}
  Offered = {"SMS"}
  MaxUnconfirmed = 1
  SweepCap = 1
  DrainCap = 1
  MaxPendingLu = 1
  IncompleteTicks = 1
  T3212 = 0
  X3212 = 0
  MaxFaults = 1
SYMMETRY Symmetric
INVARIANT InflightExact
PROPERTY PageCapped
PROPERTY DrainComplete
