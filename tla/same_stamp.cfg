SPECIFICATION PaymentSpec
CONSTANTS
  NKids = 2
  NAddr = 4
  NTx = 4
  MaxTime = 5
  MaxFlight = 1
  Skew = 0
  Latency = 1
  Margin = 2
  PruneSize = 1
  PruneFlags = {TRUE}
  DistinctStamps = FALSE
  MaxSigners = 2
  Genesis = 3
  MaxSupply = 6
  InitHolders <- MCHolders
  InitBal <- MCBal
  InitPolicy <- MCPayFee
  Metas = {}
  CoHolders = {}
  Amounts = {2}
  RefundAmounts = {1}
  Terms = {0, 1}
  ExtraSigners <- NoExtra
  Orders = {"order"}
  Memos = {"memo"}
INVARIANTS
  HasMore
CHECK_DEADLOCK FALSE
