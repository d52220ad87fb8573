CONSTANTS
  Services = {wds}
  Ctl = ctl
  MaxTid = 3
  Quarters = 4
  MaxCalls = 2
  MaxInds = 1
  MaxStops = 1
  Nets = {1, 2}
  MaxDatagrams = 2
  TxQlen = 1
  Budgets <- SmallBudgets
  Transfers <- SmallTransfers
  Muxes = {1, 2}
  MaxPay = 8
  MinPad = 2
  Hosts = {h1, h2}
  MaxRounds = 3
SPECIFICATION MCSpec
INVARIANTS WaiterIsServed UplinkInOrder CarrierAgrees DownlinkAsSent
PROPERTIES ImplementsExchange CallsReturn UplinkMoves
