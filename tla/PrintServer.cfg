CONSTANTS
  Devices = {lp0, lp1}
  Ports = {0, 1}
  Pids = {p1, p2}
  MaxRespawns = 1
  None = None
SPECIFICATION FairSpec
INVARIANT OneWriterPerPrinter
PROPERTY AcceptedClientIsFreed
