CONSTANTS
  Setups <- MCSetups
  Password = TRUE
  MaxFaults = 1
  MaxStops = 1
SPECIFICATION FairSpec
INVARIANTS StopCleansUp CallIsKnown
PROPERTY StopsOrConnects
CHECK_DEADLOCK FALSE
