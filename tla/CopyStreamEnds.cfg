CONSTANTS
  BUFFER_SIZE = 2
  JobBytes = 2
  StatusBytes = 1
  IdleLimit = 1
  ClockBack = 0
  ClockMaySet = FALSE
SPECIFICATION FairSpec
PROPERTIES JobEnds IdleOnlyAfterLimit
