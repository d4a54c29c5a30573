SPECIFICATION FairSpec
CONSTANTS
  Conns = {c1, c2}
  None = None
  Configs <- LiveConfigs
  MaxUse = 1
PROPERTIES
  ProcedureEnds
