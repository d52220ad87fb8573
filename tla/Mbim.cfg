CONSTANTS
  MaxFaults = 1
  MaxChanges = 1
  MaxStops = 1
SPECIFICATION FairSpec
INVARIANT CallUnderControl
PROPERTY CallSettles
