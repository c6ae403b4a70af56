------------------------------ MODULE Custody -------------------------------
(***************************************************************************)
(* The chaincode implements Wallets: what an account owns is its balance,  *)
(* its pending balances and the pays it can still prune, less their fees;  *)
(* the uncollected fees are those in fee documents and in such pays.       *)
(***************************************************************************)
EXTENDS KiesnetToken

Held(a) ==
  [i \in TxIds |-> IF i \in DOMAIN pend /\ pend[i].account = a
                   THEN pend[i].amount + pend[i].fee ELSE 0]

Uncollected == DOMAIN pay \ collected.pay

Earned(a) ==
  [i \in TxIds |-> IF i \in Uncollected /\ pay[i].to = a THEN pay[i].amount - pay[i].fee ELSE 0]

Charged == [i \in TxIds |-> IF i \in Uncollected THEN pay[i].fee ELSE 0]

Wealth == [a \in Addrs |-> bal[a] + SumTo(Held(a), NTx) + SumTo(Earned(a), NTx)]

FeesDue == SumTo(Outstanding(fee, collected.fee), NTx) + SumTo(Charged, NTx)

Sales ==
  [i \in {j \in DOMAIN pay : pay[j].parent = 0} |->
     [customer |-> pay[i].from, merchant |-> pay[i].to,
      left |-> pay[i].amount - pay[i].totalRefund,
      charge |-> pay[i].fee + PayFeeSum(Refunds(i))]]

Offers ==
  [i \in {j \in DOMAIN pend : pend[j].type = "contract"} |->
     [kind |-> con[i].kind, from |-> pend[i].account, to |-> con[i].to,
      amount |-> pend[i].amount, charge |-> pend[i].fee]]

Wallet ==
  INSTANCE Wallets WITH
    NAccounts <- NAddr, Issuer <- Genesis, Limit <- MaxSupply, NoTarget <- NoAddr,
    holders <- [a \in Addrs |-> account[a].holders],
    frozen <- {a \in Addrs : account[a].suspended},
    supply <- token.supply, own <- Wealth, fees <- FeesDue,
    target <- token.policy.target, sales <- Sales, offers <- Offers

----------------------------------------------------------------------------
(* Each handler does what was asked, by somebody who may: it has the effect *)
(* that Wallets gives to the call, with the parameters of the call.  (The   *)
(* timestamp of a step is among those of the committed transactions then.)  *)

TransferOffer(from, to, amount) ==
  [kind |-> "transfer", from |-> from, to |-> to, amount |-> amount,
   charge |-> CalcFee(from, "transfer", amount)]

PayOffer(from, to, amount) ==
  [kind |-> "pay", from |-> from, to |-> to, amount |-> amount, charge |-> 0]

TransfersAnswered ==
  \A kid \in Kids, from, to \in Addrs, amount \in Amounts, ts \in stamps',
     extra \in ExtraSigners, d \in Terms :
    /\ TransferNow(kid, from, to, amount, extra, ts + d, ts) =>
         Wallet!Send(kid, from, to, amount, CalcFee(from, "transfer", amount))
    /\ \A e \in Terms :
         TransferContract(kid, from, to, amount, extra, ts + d, ts + e, ts) =>
           Wallet!Offer(kid, TxId, TransferOffer(from, to, amount))

PaysAnswered ==
  \A kid \in Kids, ts \in stamps' :
    /\ \A from, to \in Addrs, amount \in Amounts, order \in Orders, memo \in Memos :
         /\ PayNow(kid, from, to, amount, order, memo, ts) =>
              Wallet!Sell(kid, TxId, from, to, amount, CalcFee(to, "pay", amount))
         /\ \A d \in Terms : PayContract(kid, from, to, amount, order, memo, ts + d, ts) =>
              Wallet!Offer(kid, TxId, PayOffer(from, to, amount))
    /\ \A i \in TxIds, amount \in RefundAmounts : PayRefund(kid, i, amount, ts) =>
         Wallet!Refund(kid, i, amount, RefundFee(pay[i], amount))

\* A contract that is executed, cancelled or left to expire, and a time lock, which
\* belongs to its receiver from the start.
PendingAnswered ==
  \A i \in TxIds, ts \in stamps' :
    /\ ExecuteTransfer(i, ts) => Wallet!Accept(i, 0, 0)
    /\ ExecutePay(i, ts) =>
         Wallet!Accept(i, TxId, CalcFee(con[i].to, "pay", con[i].amount))
    /\ CancelTransfer(i, ts) => Wallet!Decline(i)
    /\ \A kid \in Kids : BalancePendingWithdraw(kid, i, ts) =>
         IF pend[i].type = "contract" THEN Wallet!Reclaim(kid, i) ELSE Wallet!Nothing

\* Whatever was committed since a prune was endorsed.
PrunesAnswered ==
  \A f \in flight : /\ PayPruneCommit(f) => Wallet!Nothing
                    /\ FeePruneCommit(f) => Wallet!Collect(f.sum)

SupplyAnswered ==
  /\ \A kid \in Kids, amount \in Amounts, ts \in stamps' :
       /\ TokenMint(kid, amount, ts) =>
            IF Wallet!Alone(kid, Genesis) THEN Wallet!MintNow(kid, amount) ELSE Wallet!Nothing
       /\ TokenBurn(kid, amount, ts) =>
            IF Wallet!Alone(kid, Genesis) THEN Wallet!BurnNow(kid, amount) ELSE Wallet!Nothing
       /\ \A addrs \in CoHolders \cup {{}}, meta \in Metas :
            TokenCreate(kid, addrs, meta, amount, ts) =>
              IF token'.issued THEN Wallet!Create(amount) ELSE Wallet!Nothing
  /\ \A cid \in TxIds, ts \in stamps' :
       /\ ExecuteTokenMint(cid, ts) => Wallet!Mint(con[cid].amount)
       /\ ExecuteTokenBurn(cid, ts) => Wallet!Burn(con[cid].amount)
       /\ CancelSupply(cid, ts) => Wallet!Nothing
       /\ \A meta \in Metas, amount \in Amounts :
            ExecuteTokenCreate(cid, meta, amount, ts) => Wallet!Create(amount)
  /\ \A meta \in Metas, ts \in stamps' : TokenUpdate(meta, ts) =>
       Wallet!Retarget(IF meta.fee THEN meta.target ELSE NoAddr)

\* Accounts and their holders move no tokens.
AccountsAnswered == AccountNext => Wallet!Nothing

\* Nor does a step in which nothing commits: an endorsement, a prune that is lost.
Answered ==
  IF ntx' = ntx THEN Wallet!Nothing
  ELSE /\ TransfersAnswered /\ PaysAnswered /\ PendingAnswered
       /\ PrunesAnswered /\ SupplyAnswered /\ AccountsAnswered

\* Every step changes what the accounts own as Wallets allows, and every handler does to
\* it what its caller asked for and was allowed to: transfers, sales, refunds and
\* contracts move the amounts they were asked or signed for between the accounts that
\* were named, once; fees go to the target; prunes of pays, deposits, withdrawals,
\* cancellations and suspensions change nobody's wealth, whatever commits in between.
ImplementsWallets == Wallet!Spec /\ [][Answered]_vars
=============================================================================
