SPECIFICATION FairSpec
CONSTANTS
  Found <- MCFound
  OldTails <- MCOldTails
  Shared <- MCShared
  Writers = {"sup", "peer"}
  Faults = {"tail", "flush", "stat", "open", "temp", "write", "rename", "kill"}
  TailMax = 2
  Chunk = 2
  Spins = 1
  Budget = 1
  MaxBytes = 1
INVARIANTS
  TailIsEnd
  EvidenceComplete
PROPERTIES
  OnTheShelf
  EvidenceEnds
CHECK_DEADLOCK FALSE
