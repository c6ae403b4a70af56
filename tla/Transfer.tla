------------------------------ MODULE Transfer ------------------------------
(***************************************************************************)
(* transfer_tx.go and balancePendingWithdraw: transfers between accounts,  *)
(* time-locked transfers, multi-signature transfers through a contract     *)
(* that holds the amount and the fee in a pending balance, and the         *)
(* withdrawal of a pending balance by its owner.                           *)
(***************************************************************************)
EXTENDS WorldState

\* MayTransfer, were the fee left out of the check of the balance.
MayTransferAmount(kid, from, to, amount) ==
  /\ amount > 0 /\ from # to /\ token.issued
  /\ MayAct(kid, from) /\ IsActive(to) /\ bal[from] >= amount

\* MayTransfer, were the receiver not looked up.
MayTransferToAnyone(kid, from, to, amount) ==
  /\ amount > 0 /\ from # to /\ token.issued
  /\ MayAct(kid, from) /\ bal[from] >= amount + CalcFee(from, "transfer", amount)

MayTransfer(kid, from, to, amount) ==
  /\ amount > 0 /\ from # to /\ token.issued
  /\ MayAct(kid, from) /\ IsActive(to)
  /\ bal[from] >= amount + CalcFee(from, "transfer", amount)

\* Receive, were a time-locked transfer also paid out at once.
ReceiveTwice(from, to, amount, due, ts, debited, logged, pending) ==
  /\ pend' = IF due > ts
              THEN PutDoc(pending, TxId,
                     [type |-> "account", account |-> to, rid |-> from,
                      amount |-> amount, fee |-> 0, due |-> due])
              ELSE pending
  /\ bal' = Credit(debited, to, amount)
  /\ blog' = PutBalanceLog(logged, to, ts, [type |-> "receive", diff |-> amount, fee |-> 0])

\* Receive, were the lock put on an account of the sender.
ReceiveForSender(from, to, amount, due, ts, debited, logged, pending) ==
  IF due > ts
  THEN /\ pend' = PutDoc(pending, TxId,
                    [type |-> "account", account |-> from, rid |-> to,
                     amount |-> amount, fee |-> 0, due |-> due])
       /\ bal' = debited /\ blog' = logged
  ELSE /\ pend' = pending
       /\ bal' = Credit(debited, to, amount)
       /\ blog' = PutBalanceLog(logged, to, ts,
                    [type |-> "receive", diff |-> amount, fee |-> 0])

\* The receiving half of a transfer: a time lock or the receiver's balance.
\* `debited' and `logged' are the balances and logs the step starts from.
Receive(from, to, amount, due, ts, debited, logged, pending) ==
  IF due > ts
  THEN /\ pend' = PutDoc(pending, TxId,
                    [type |-> "account", account |-> to, rid |-> from,
                     amount |-> amount, fee |-> 0, due |-> due])
       /\ bal' = debited /\ blog' = logged
  ELSE /\ pend' = pending
       /\ bal' = Credit(debited, to, amount)
       /\ blog' = PutBalanceLog(logged, to, ts,
                    [type |-> "receive", diff |-> amount, fee |-> 0])

\* transfer, when the invoker is the only signer.
TransferNow(kid, from, to, amount, extra, due, ts) ==
  LET charge == CalcFee(from, "transfer", amount)
  IN  /\ MayTransfer(kid, from, to, amount)
      /\ Signers(from, extra) = {kid}
      /\ Receive(from, to, amount, due, ts,
           Credit(bal, from, -(amount + charge)),
           PutBalanceLog(blog, from, ts,
             [type |-> "send", diff |-> -amount, fee |-> charge]),
           pend)
      /\ CreateFee(from, charge, ts)
      /\ Commit(ts, IF due > ts THEN {<<"balance", from>>}
                    ELSE {<<"balance", from>>, <<"balance", to>>})
      /\ UNCHANGED <<account, holder, token, payCursor, con, pay, feeCursor, collected>>

\* transfer, when others have to sign: a contract and its pending balance.
TransferContract(kid, from, to, amount, extra, due, expiry, ts) ==
  /\ MayTransfer(kid, from, to, amount)
  /\ Signers(from, extra) # {kid}
  /\ Cardinality(Signers(from, extra)) <= MaxSigners
  /\ OpenContract([kind |-> "transfer", status |-> "open", from |-> from, to |-> to,
                   amount |-> amount, due |-> IF due > ts THEN due ELSE 0,
                   order |-> "", memo |-> ""])
  /\ Deposit(from, amount, CalcFee(from, "transfer", amount), expiry, ts)
  /\ Commit(ts, {<<"balance", from>>})
  /\ UNCHANGED <<account, holder, token, payCursor, pay, fee, feeCursor, collected>>

\* The contract callback: neither account is looked at again.
ExecuteTransfer(cid, ts) ==
  /\ cid \in DOMAIN con /\ con[cid].kind = "transfer"
  /\ OwnsPending(cid)
  /\ CloseContract(cid, "executed")
  /\ Receive(pend[cid].account, con[cid].to, pend[cid].amount, con[cid].due, ts,
             bal, blog, DelDoc(pend, cid))
  /\ CreateFee(pend[cid].account, pend[cid].fee, ts)
  /\ Commit(ts, IF con[cid].due > ts THEN {} ELSE {<<"balance", con[cid].to>>})
  /\ UNCHANGED <<account, holder, token, payCursor, pay, feeCursor, collected>>

\* The contract callback of a cancelled transfer or payment.
CancelTransfer(cid, ts) ==
  /\ cid \in DOMAIN con /\ con[cid].kind \in {"transfer", "pay"}
  /\ OwnsPending(cid)
  /\ CloseContract(cid, "cancelled")
  /\ Withdraw(cid, ts)
  /\ Commit(ts, {<<"balance", pend[cid].account>>})
  /\ UNCHANGED <<account, holder, token, payCursor, pay, fee, feeCursor, collected>>

\* BalancePendingWithdraw, were it for time locks only.
WithdrawTimeLock(kid, i, ts) ==
  /\ i \in DOMAIN pend /\ pend[i].type = "account" /\ pend[i].due <= ts
  /\ MayAct(kid, pend[i].account)
  /\ Withdraw(i, ts)
  /\ Commit(ts, {<<"balance", pend[i].account>>})
  /\ UNCHANGED <<account, holder, token, payCursor, con, pay, fee, feeCursor, collected>>

BalancePendingWithdraw(kid, i, ts) ==
  /\ i \in DOMAIN pend /\ pend[i].due <= ts
  /\ MayAct(kid, pend[i].account)
  /\ Withdraw(i, ts)
  /\ Commit(ts, {<<"balance", pend[i].account>>})
  /\ UNCHANGED <<account, holder, token, payCursor, con, pay, fee, feeCursor, collected>>

\* ntx < NTx repeats the bound of Commit, to spare TLC the search for a last transaction.
TransferNext ==
  /\ ntx < NTx
  /\ \E ts \in Stamps :
       \/ \E kid \in Kids, from, to \in Addrs, amount \in Amounts,
             extra \in ExtraSigners, d, e \in Terms :
            \/ TransferNow(kid, from, to, amount, extra, ts + d, ts)
            \/ TransferContract(kid, from, to, amount, extra, ts + d, ts + e, ts)
       \/ \E i \in TxIds : ExecuteTransfer(i, ts) \/ CancelTransfer(i, ts)
       \/ \E kid \in Kids, i \in TxIds : BalancePendingWithdraw(kid, i, ts)
=============================================================================
