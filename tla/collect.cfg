SPECIFICATION CollectSpec
CONSTANTS
  NKids = 2
  NAddr = 4
  CallerTx = 3
  NTx = 9
  MaxTime = 5
  MaxFlight = 2
  Skew = 0
  Latency = 1
  Margin = 2
  PruneSize = 1
  PruneFlags = {TRUE}
  DistinctStamps = FALSE
  MaxSigners = 2
  Genesis = 3
  MaxSupply = 6
  InitHolders <- MCHolders
  InitBal <- MCBal
  InitPolicy <- MCPayFee
  Metas = {}
  CoHolders = {}
  Amounts = {2}
  RefundAmounts = {1, 2}
  Terms = {0}
  ExtraSigners <- NoExtra
  Orders = {"order"}
  Memos = {"memo"}
PROPERTIES
  PaysCollected
  FeesCollected
CHECK_DEADLOCK FALSE
