-------------------------------- MODULE Pay ---------------------------------
(***************************************************************************)
(* pay_tx.go and pay_stub.go.  A payment debits the customer and leaves a  *)
(* pay document for the merchant; a refund leaves a negative one.  The     *)
(* merchant collects what they hold with payPrune, one page of documents   *)
(* above the cursor of the account (LastPrunedPayID) at a time.            *)
(***************************************************************************)
EXTENDS WorldState

\* MayPay, were the balance of the customer not looked at.
MayPayOnCredit(kid, from, to, amount) ==
  amount > 0 /\ from # to /\ MayAct(kid, from) /\ IsActive(to)

MayPay(kid, from, to, amount) ==
  /\ amount > 0 /\ from # to
  /\ MayAct(kid, from) /\ IsActive(to)
  /\ bal[from] >= amount

PutPay(to, from, amount, charge, parent, order, memo, ts) ==
  PutDoc(pay, TxId,
    [to |-> to, from |-> from, amount |-> amount, fee |-> charge, totalRefund |-> 0,
     parent |-> parent, order |-> order, memo |-> memo, created |-> ts])

\* pay, when the invoker is the only signer.
PayNow(kid, from, to, amount, order, memo, ts) ==
  /\ MayPay(kid, from, to, amount) /\ token.issued
  /\ Signers(from, {kid}) = {kid}
  /\ pay' = PutPay(to, from, amount, CalcFee(to, "pay", amount), 0, order, memo, ts)
  /\ bal' = Credit(bal, from, -amount)
  /\ blog' = PutBalanceLog(blog, from, ts, [type |-> "pay", diff |-> -amount, fee |-> 0])
  /\ Commit(ts, {<<"balance", from>>})
  /\ UNCHANGED <<account, holder, token, payCursor, pend, con, fee, feeCursor, collected>>

\* pay, from a joint account: the fee is left to the execution.
PayContract(kid, from, to, amount, order, memo, expiry, ts) ==
  /\ MayPay(kid, from, to, amount)
  /\ Signers(from, {kid}) # {kid}
  /\ Cardinality(Signers(from, {kid})) <= MaxSigners
  /\ OpenContract([kind |-> "pay", status |-> "open", from |-> from, to |-> to,
                   amount |-> amount, due |-> 0, order |-> order, memo |-> memo])
  /\ Deposit(from, amount, 0, expiry, ts)
  /\ Commit(ts, {<<"balance", from>>})
  /\ UNCHANGED <<account, holder, token, payCursor, pay, fee, feeCursor, collected>>

\* PayPendingBalance, were the pending balance not deleted.
PayPendingKept(i, charge, merchant, memo, order, ts) ==
  /\ pay' = PutPay(merchant, pend[i].account, pend[i].amount, charge, 0, order, memo, ts)
  /\ UNCHANGED pend

\* PayPendingBalance takes (memo, orderID) in that order.
PayPendingBalance(i, charge, merchant, memo, order, ts) ==
  /\ pay' = PutPay(merchant, pend[i].account, pend[i].amount, charge, 0, order, memo, ts)
  /\ pend' = DelDoc(pend, i)

\* The contract callback.  It hands the order id of the contract's document to
\* the memo of PayPendingBalance and the memo to its order id.
ExecutePay(cid, ts) ==
  /\ cid \in DOMAIN con /\ con[cid].kind = "pay"
  /\ OwnsPending(cid) /\ token.issued
  /\ CloseContract(cid, "executed")
  /\ PayPendingBalance(cid, CalcFee(con[cid].to, "pay", pend[cid].amount),
                       con[cid].to, con[cid].order, con[cid].memo, ts)
  /\ Commit(ts, {})
  /\ UNCHANGED <<account, holder, token, bal, payCursor, blog, fee, feeCursor, collected>>

\* RefundFee, were it rounded up.
RefundFeeUp(parent, amount) ==
  (amount * parent.fee + parent.amount - 1) \div parent.amount

\* The part of the fee of a payment that goes back with a refund.
RefundFee(parent, amount) ==
  IF amount = parent.amount THEN parent.fee
  ELSE (amount * parent.fee) \div parent.amount

\* MayRefund, were it up to the customer.
CustomerMayRefund(kid, parent, amount) ==
  /\ amount > 0 /\ parent.totalRefund + amount <= parent.amount
  /\ MayAct(kid, parent.from) /\ IsActive(parent.to)

\* Only the merchant may refund a payment, and no more than is left of it.
MayRefund(kid, parent, amount) ==
  /\ amount > 0 /\ parent.totalRefund + amount <= parent.amount
  /\ MayAct(kid, parent.to) /\ IsActive(parent.from)

\* The merchant, who received payment i, returns part of it to the customer.
PayRefund(kid, i, amount, ts) ==
  LET parent == pay[i]
      refund == PutPay(parent.to, parent.from, -amount, -RefundFee(parent, amount),
                       i, "", "", ts)
  IN  /\ i \in DOMAIN pay /\ MayRefund(kid, parent, amount)
      /\ pay' = [refund EXCEPT ![i].totalRefund = @ + amount]
      /\ bal' = Credit(bal, parent.from, amount)
      /\ blog' = PutBalanceLog(blog, parent.from, ts,
                   [type |-> "refund", diff |-> amount, fee |-> 0])
      /\ Commit(ts, {<<"pay", i>>, <<"balance", parent.from>>})
      /\ UNCHANGED <<account, holder, token, payCursor, pend, con, fee, feeCursor, collected>>

----------------------------------------------------------------------------
(* payPrune.                                                               *)

\* PayRange, were the created time of the last pruned pay part of it.
PayRangeFromCursor(addr, start, end) ==
  {i \in DOMAIN pay : pay[i].to = addr /\ start <= pay[i].created /\ pay[i].created <= end}

\* QueryPrunePays: the pays of an account created in (start, end].
PayRange(addr, start, end) ==
  {i \in DOMAIN pay : /\ pay[i].to = addr
                      /\ start < pay[i].created /\ pay[i].created <= end}

PaySum(ids)    == SumTo([i \in TxIds |-> IF i \in ids THEN pay[i].amount ELSE 0], NTx)
PayFeeSum(ids) == SumTo([i \in TxIds |-> IF i \in ids THEN pay[i].fee ELSE 0], NTx)

\* A peer runs the handler: GetPaySumByTime adds up a page of the range.
PayPruneEndorse(kid, addr, safe, asked, ts) ==
  LET range == PayRange(addr, payCursor[addr], PruneEnd(safe, asked, ts))
  IN  /\ MayAct(kid, addr)
      /\ Endorse(ts)
      /\ \E page \in Pages(range, pay), last \in range :
           /\ last \in page /\ \A i \in page : pay[i].created <= pay[last].created
           /\ flight' = flight \cup
                {[kind |-> "pay", account |-> addr, ids |-> page, base |-> bal[addr],
                  sum |-> PaySum(page), fee |-> PayFeeSum(page),
                  end |-> pay[last].created, more |-> MoreIn(page, range),
                  ts |-> ts, at |-> clock]}
      /\ UNCHANGED <<clock, ntx, stamps, ledger>>

\* PayPruneCommit, were a page refused on which the refunds outweigh the payments.
PayPruneIfPositive(f) ==
  LET applied == f.sum - f.fee
  IN  /\ f \in flight /\ f.kind = "pay" /\ clock <= f.at + Latency
      /\ f.sum > 0
      /\ bal' = [bal EXCEPT ![f.account] = f.base + applied]
      /\ payCursor' = [payCursor EXCEPT ![f.account] = f.end]
      /\ CreateFee(f.account, f.fee, f.ts)
      /\ blog' = PutBalanceLog(blog, f.account, f.ts,
                   [type |-> "prunePay", diff |-> applied, fee |-> 0])
      /\ collected' = [collected EXCEPT !.pay = @ \cup f.ids]
      /\ Commit(f.ts, {<<"balance", f.account>>})
      /\ UNCHANGED <<account, holder, token, pend, con, pay, feeCursor>>

\* The transaction commits: the writes computed when it was endorsed.
PayPruneCommit(f) ==
  LET applied == f.sum - f.fee
  IN  /\ f \in flight /\ f.kind = "pay" /\ clock <= f.at + Latency
      /\ bal' = [bal EXCEPT ![f.account] = f.base + applied]
      /\ payCursor' = [payCursor EXCEPT ![f.account] = f.end]
      /\ CreateFee(f.account, f.fee, f.ts)
      /\ blog' = PutBalanceLog(blog, f.account, f.ts,
                   [type |-> "prunePay", diff |-> applied, fee |-> 0])
      /\ collected' = [collected EXCEPT !.pay = @ \cup f.ids]
      /\ Commit(f.ts, {<<"balance", f.account>>})
      /\ UNCHANGED <<account, holder, token, pend, con, pay, feeCursor>>

\* ntx < NTx repeats the bound of Commit, to spare TLC the search for a last transaction.
PayCalls ==
  /\ ntx < NTx
  /\ \E ts \in Stamps :
       \/ \E kid \in Kids, from, to \in Addrs, amount \in Amounts,
             order \in Orders, memo \in Memos :
            \/ PayNow(kid, from, to, amount, order, memo, ts)
            \/ \E d \in Terms : PayContract(kid, from, to, amount, order, memo, ts + d, ts)
       \/ \E i \in TxIds : ExecutePay(i, ts)
       \/ \E kid \in Kids, i \in TxIds, amount \in RefundAmounts :
            PayRefund(kid, i, amount, ts)

PayPrunes ==
  \/ \E ts \in Stamps, kid \in Kids, addr \in Addrs, safe \in PruneFlags, asked \in Stamps :
       PayPruneEndorse(kid, addr, safe, asked, ts)
  \/ \E f \in flight : PayPruneCommit(f)

PayNext == PayCalls \/ PayPrunes
=============================================================================
