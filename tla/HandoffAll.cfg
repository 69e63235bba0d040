SPECIFICATION Spec
CONSTANTS
  Inputs <- MCInputs
  Forged <- MCForged
  CapLasts <- MCCapLasts
  Slots = 4
  MaxUnits = 3
  MaxBinds = 2
  MaxEdges = 2
  NameLen = 3
  PathLen = 5
  U32 = 64
  HdrSize = 2
  UnitSize = 7
  BindSize = 3
  EdgeSize = 2
  CpuWeightMax = 20
  SchedMax = 3
  NiceMin <- MCNiceMin
  NiceMax = 4
  OomMin <- MCOomMin
  OomMax = 10
  StopsigMax = 4
  GraceMax = 127
  HashLen = 2
  IntBits = 8
  LongBits = 10
INVARIANTS
  AcceptsExactly
  InBounds
  UnitArrives
  NothingTrusted
CHECK_DEADLOCK FALSE
