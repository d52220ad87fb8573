SPECIFICATION Spec
CONSTANTS
  h1 = h1
  h2 = h2
  f1 = f1
  a1 = a1
  a2 = a2
  Hosts = {h1, h2}
  Foreign = {f1}
  Accounts = {a1}
  AccountOf <- OneAccount
  TunIds = {1, 2, 3, 4}
  RecIds = {1, 2, 3, 4, 5, 6, 7}
  Origins = {o1, o2}
  MaxFails = 2
  MaxOthers = 2
  MaxOrigins = 1
  MaxTroubles = 3
  Elsewhere = Elsewhere
  None = None
INVARIANTS TunnelRemembered NoOrphanRecord
PROPERTIES RemovesOnlyItsOwn
