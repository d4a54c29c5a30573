SPECIFICATION CcSpec
CONSTANTS
  m = m
  t = t
  u = u
  CcMoCalls = {m}
  CcMtCalls = {t, u}
  CcConfigs <- MCCcConfigs
  CcNone = none
  CcTids = 2
  CcMaxLeaks = 1
CHECK_DEADLOCK FALSE
INVARIANTS
  CcTypeOK
  
  CcUseBalance
  CcNoSilentWait
