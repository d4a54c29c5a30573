SPECIFICATION MCLiveSpec
CONSTANTS
  NumTuples = 3
  MaxReuse = 1
  MaxUse = 3
  moCall = moCall
  mtCall = mtCall
  CcMoCalls = {moCall}
  CcMtCalls = {mtCall}
  CcConfigs <- MCCcConfigs
  CcNone = none
  CcTids = 1
  CcMaxLeaks = 0
  ClOsmux = {FALSE}
  ClMaxQueue = 1
  HoNone = HoNone
  c0 = c0
  c1 = c1
  HoCells = {c0, c1}
  HoFirstCell = c0
  HoLists <- MCHoLists
  HoCallIds = {1}
  HoMaxTries = 1
  HoMaxQueue = 1
  HoRange = 1
  VgBssN = 1
  cellA = cellA
  cellB = cellB
  VgCells = {cellA, cellB}
  VgGroups <- MCVgGroups
  VgNone = none
  VgMaxCalls = 1
  VgMaxFaults = 0
  SmN = 1
  SmMaxSms = 1
  SmAttempts = 1
  SmMaxFaults = 1
  SmConfigs <- MCSmConfigs
  e1 = e1
  i1 = i1
  spn = spn
  SpEsmes = {e1}
  SpIds = {i1}
  SpFlags <- MCSpFlags
  SpQuiet = {}
  SpTids = {1}
  SpRefs = {1}
  SpFwds = {1}
  SpConfigs <- MCSpConfigs
  SpMaxWq = 1
  SpMaxEdits = 0
  SpNone = spn
  SpGone = spg
  SlConns = {k1, k2}
  SlNames = {n1}
  SlIps = {a1}
  SlSubs = {s1}
  SlNs11 = 1
  SlNone = slnone
  SsMtN = 1
  SsMoTids = {8}
  SsSids = {101}
  SsMaxCm = 1
  SsMaxMsgs = 2
  SsMaxVty = 0
CHECK_DEADLOCK FALSE
INVARIANTS
  ReuseBounded
PROPERTIES
  Implements
  SessionEnds
  
  RequestsEnd
