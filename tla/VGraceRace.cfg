SPECIFICATION FairSpec
CONSTANTS
  Units <- StubbornUnits
  Tiers = {"pidfd"}
  Verbs = {"STOP"}
  Faults = {}
  Backlog = 1
  MaxAsks = 0
  MaxTerms = 1
PROPERTIES TermEscalates
CHECK_DEADLOCK FALSE
