SPECIFICATION PaymentSpec
CONSTANTS
  NKids = 2
  NAddr = 4
  NTx = 5
  MaxTime = 6
  MaxFlight = 1
  Skew = 0
  Latency = 1
  Margin = 2
  PruneSize = 1
  PruneFlags = {TRUE}
  DistinctStamps = TRUE
  MaxSigners = 2
  Genesis = 3
  MaxSupply = 6
  InitHolders <- MCHolders
  InitBal <- MCBal
  InitPolicy <- MCPayFee
  Metas = {}
  CoHolders = {}
  Amounts = {2}
  RefundAmounts = {1, 2}
  Terms = {0}
  ExtraSigners <- NoExtra
  Orders = {"order"}
  Memos = {"memo"}
INVARIANTS
  Conservation
  NothingSkipped
  RefundBounded
  EscrowHasOpenContract
  HasMore
  OverdraftFromRefunds
  OverdraftInv
CHECK_DEADLOCK FALSE
