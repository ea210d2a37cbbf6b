CONSTANTS
  Conns = {c1, c2}
  SingleInstance = FALSE
SPECIFICATION FairSpec
CHECK_DEADLOCK FALSE
INVARIANTS
  TypeOK
  ExitDrained
  ExitCode
  StatusTellsEffect
PROPERTIES
  InterruptEnds
  StartEnds
