SPECIFICATION Spec
CONSTANTS
  FdMax = 24
  NUnits = 3
  EdgeTables <- SmallTables
  Softs = {6, 24}
  Hards = {12, 24}
  NrOpens = {10, 16}
  Inherits <- Births
INVARIANTS
  KitExact
  EveryEdgeWired
  PreflightSuffices
