\* Windows of three blocks, the last one cut off by the end of the card.  The host's
\* commands come at every step of the task.
CONSTANTS
  Window = 3
  Total = 4
  Data = {"p", "q"}
SPECIFICATION FairSpec
INVARIANTS
  TypeOK
  DirtyBufferKept
  ReadWindowIsCard
PROPERTIES
  DiskSpec
  LeavingEnds
CHECK_DEADLOCK FALSE
