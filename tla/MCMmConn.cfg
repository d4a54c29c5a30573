SPECIFICATION Spec
CONSTANTS
  Conns = {c1, c2}
  None = None
  Configs <- SafetyConfigs
  MaxUse = 1
SYMMETRY ConnSymmetry
INVARIANTS
  TypeOK
  PointersAgree
  DecisionPending
  AcceptedAuthenticated
  ExpiryResumes
  LiveIsUsed
  ReleaseCancels
