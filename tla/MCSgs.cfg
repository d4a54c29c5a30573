SPECIFICATION MCSgsSpec
CONSTANTS
  i1 = i1
  i2 = i2
  m1 = m1
  m2 = m2
  None = None
  Imsis <- MCImsis
  Mmes <- MCMmes
  MaxQueue = 4
  SlConns = {k1, k2, k3}
  SlNames = {n1, n2}
  SlIps = {a1, a2}
  SlSubs = {s1}
  SlNs11 = 1
  SlNone = slnone
SYMMETRY MCSgsSym
CHECK_DEADLOCK FALSE
INVARIANTS
  NeverResurrects
  FlushConverges
  SlResetSent
  
