SPECIFICATION MCSpec
CONSTANTS
  h1 = h1
  h2 = h2
  f1 = f1
  a1 = a1
  a2 = a2
  Hosts = {h1, h2}
  Foreign = {}
  Accounts = {a1, a2}
  AccountOf <- TwoAccounts
  TunIds = {1, 2, 3, 4}
  RecIds = {1, 2, 3, 4, 5, 6}
  Origins = {o1, o2}
  MaxFails = 3
  MaxOthers = 0
  MaxOrigins = 1
  MaxTroubles = 4
  Elsewhere = Elsewhere
  None = None
  Lens <- SmallLens
  Streams <- SmallStreams
  HdrLen = 2
  ReadBufLen = 4
  MaxTries = 2
  Pids = {1, 2, 3}
  Bystander = 9
  KillTimeout = 2
  Plans <- SmallPlans
INVARIANTS AlwaysReachable RecordsKept ManagersFound
PROPERTIES RetryResumes ReaderEnds TakesOver
