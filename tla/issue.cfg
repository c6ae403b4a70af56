SPECIFICATION IssueSpec
CONSTANTS
  NKids = 2
  NAddr = 3
  NTx = 7
  MaxTime = 2
  MaxFlight = 0
  Skew = 0
  Latency = 0
  Margin = 2
  PruneSize = 1
  PruneFlags = {TRUE}
  DistinctStamps = FALSE
  MaxSigners = 2
  Genesis = 3
  MaxSupply = 5
  InitHolders <- MCNobody
  InitBal <- MCNoBal
  InitPolicy <- NoPolicy
  Metas <- MCMetas
  CoHolders <- WithKid2
  Amounts = {2}
  RefundAmounts = {1}
  Terms = {0}
  ExtraSigners <- NoExtra
  Orders = {"order"}
  Memos = {"memo"}
INVARIANTS
  AbsentEmpty
  FeesHaveTarget
  Conservation
  AccountInv
  SupplyWithinMax
  NoOverdraft
PROPERTIES
  ImplementsWallets
CHECK_DEADLOCK FALSE
