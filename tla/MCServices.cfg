SPECIFICATION MCServicesSpec
CONSTANTS
  VgBssN = 2
  cellA = cellA
  cellB = cellB
  VgCells = {cellA, cellB}
  VgGroups <- MCVgGroups
  VgNone = none
  VgMaxCalls = 1
  VgMaxFaults = 1
  SmN = 2
  SmMaxSms = 2
  SmAttempts = 1
  SmMaxFaults = 1
  SmConfigs <- MCSmConfigs
  e1 = e1
  e2 = e2
  i1 = i1
  i2 = i2
  spn = spn
  spg = spg
  SpEsmes = {e1, e2}
  SpIds = {i1, i2}
  SpFlags <- MCSpFlags
  SpQuiet = {i2}
  SpTids = {1}
  SpRefs = {1}
  SpFwds = {1}
  SpConfigs <- MCSpConfigs
  SpMaxWq = 1
  SpMaxEdits = 1
  SpNone = spn
  SpGone = spg
  SsMtN = 2
  SsMoTids = {8, 9}
  SsSids = {101, 102}
  SsMaxCm = 2
  SsMaxMsgs = 4
  SsMaxVty = 1
  ClOsmux = {FALSE, TRUE}
  ClMaxQueue = 2
  HoNone = HoNone
  c0 = c0
  c1 = c1
  HoCells = {c0, c1}
  HoFirstCell = c0
  HoLists <- MCHoLists
  HoCallIds = {1, 2}
  HoMaxTries = 2
  HoMaxQueue = 2
  HoRange = 1
  RpPeers = {p, q}
  RpIds = {i, j}
  RpNone = none
CHECK_DEADLOCK FALSE
INVARIANTS
  MCServicesTypeOK
  VgOneTalker
  VgLevelsAgree
  SmSentOnce
  SmForwardAnswered
  SpUseExact
  SsAttended
  ClGivenBack
  HoNoOrphanTarget
  HoAnswered
  
PROPERTIES
  HoRolledBack
