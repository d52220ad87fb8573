CONSTANTS
  BUFFER_SIZE = 2
  JobBytes = 3
  StatusBytes = 2
  IdleLimit = 1
  ClockBack = 0
  ClockMaySet = TRUE
SPECIFICATION Spec
INVARIANT SuccessMeansPrinted
PROPERTIES IdleNeverDropsData StatusLossIsHarmless JobIsChannel StatusIsChannel
