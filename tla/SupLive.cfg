SPECIFICATION FairSpec
CONSTANTS
  Units <- StubbornUnits
  Tiers = {"pidfd", "spin"}
  Verbs = {"START", "STOP", "none"}
  Faults = {"sweep", "hangup"}
  Backlog = 1
  MaxAsks = 2
  MaxTerms = 2
PROPERTIES StopEscalates EscalationBounded DeathNoticed
CHECK_DEADLOCK FALSE
