SPECIFICATION TransferSpec
CONSTANTS
  NKids = 2
  NAddr = 4
  NTx = 4
  MaxTime = 4
  MaxFlight = 1
  Skew = 0
  Latency = 1
  Margin = 2
  PruneSize = 1
  PruneFlags = {TRUE}
  DistinctStamps = TRUE
  MaxSigners = 2
  Genesis = 3
  MaxSupply = 6
  InitHolders <- MCHolders
  InitBal <- MCBal
  InitPolicy <- MCTransferFee
  Metas = {}
  CoHolders = {}
  Amounts = {2}
  RefundAmounts = {1}
  Terms = {0, 1}
  ExtraSigners <- ExtraKid2
  Orders = {"order"}
  Memos = {"memo"}
INVARIANTS
  Conservation
  LogsExplainBalance
  NoOverdraft
  EscrowHasOpenContract
CHECK_DEADLOCK FALSE
