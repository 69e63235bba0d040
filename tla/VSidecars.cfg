SPECIFICATION Spec
CONSTANTS
  DirOf <- MCDirOf
  Pointers = {"long", "dotted"}
  Plans <- MCPlans
  FirstPlan <- P0
  Ids = {"x", "y"}
  Machines <- MCMachines
  FirstSlot = "A"
  PointerReads <- MCPointerReads
  BlobMax = 2
  Wrap = 16
  Others <- MCOthers
  MaxBoots = 3
INVARIANTS
  SidecarsTrusted
CHECK_DEADLOCK FALSE
