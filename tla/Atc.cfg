CONSTANTS
  Setups <- MCSetups
  Handshakes = 2
  StatusTries = 2
  MaxFaults = 1
  MaxChanges = 1
  MaxStops = 1
  MaxTrouble = 2
SPECIFICATION FairSpec
INVARIANT CallUnderControl
PROPERTY CallSettles
CHECK_DEADLOCK FALSE
