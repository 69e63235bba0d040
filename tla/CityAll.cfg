SPECIFICATION FairSpec
CONSTANTS
  N = 2
  GraceTicks = 2
  MaxLines = 1
  MaxSignals = 1
  Hold = TRUE
INVARIANTS
  PidsLive
  OpenMeansWhole
  TailKept
  EofIsEnd
PROPERTIES
  ZombiesReaped
  BootDecides
  ShutdownEnds
  LoggerSeesEof
