CONSTANTS
  Kinds = {"qmi", "mbim", "atc"}
  MaxClients = 3
  MaxFds = 3
  CM_MAX_CLIENT = 2
  Ids = {1, 2}
  Tries = 1
  MaxAsks = 3
  MaxFaults = 1
SPECIFICATION FairSpec
INVARIANT AnswersRouted
PROPERTY ProxyMoves
