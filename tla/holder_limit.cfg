SPECIFICATION HolderSpec
CONSTANTS
  NKids = 3
  NAddr = 6
  NTx = 3
  MaxTime = 1
  MaxFlight = 0
  Skew = 0
  Latency = 0
  Margin = 2
  PruneSize = 1
  PruneFlags = {TRUE}
  DistinctStamps = FALSE
  MaxSigners = 2
  Genesis = 4
  MaxSupply = 6
  InitHolders <- MCThreeKids
  InitBal <- MCThreeBal
  InitPolicy <- NoPolicy
  Metas = {}
  CoHolders <- MCCoHolders
  Amounts = {2}
  RefundAmounts = {1}
  Terms = {0}
  ExtraSigners <- NoExtra
  Orders = {"order"}
  Memos = {"memo"}
PROPERTIES
  CreatedWithinLimit
CHECK_DEADLOCK FALSE
