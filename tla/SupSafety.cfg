SPECIFICATION Spec
CONSTANTS
  Units <- PlanUnits
  Tiers = {"pidfd", "signalfd", "spin"}
  Verbs = {"START", "STOP", "BAD"}
  Faults = {"boot", "cgroup", "clone", "poll", "kids", "hangup"}
  Backlog = 1
  MaxAsks = 2
  MaxTerms = 1
INVARIANTS TypeOK BudgetIsHard GenerationsPaid StopIsConsumed StopReachesHouse StragglersDoomed
PROPERTIES SignalledNeverCounts Refinement
CHECK_DEADLOCK FALSE
