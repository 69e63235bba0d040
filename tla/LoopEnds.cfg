SPECIFICATION FairSpec
CONSTANTS
  h1 = h1
  h2 = h2
  h3 = h3
  Houses = {h1, h2, h3}
  Stores = {h1, h2}
  Attempts = 2
  MaxStarts = 1
INVARIANTS
  LosingIsProgress
PROPERTIES
  AttachEnds
CHECK_DEADLOCK FALSE
