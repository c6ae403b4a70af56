----------------------------- MODULE TypeProofs -----------------------------
(***************************************************************************)
(* Type correctness of the chaincode: what each helper of the stubs gives, *)
(* and that every handler keeps TypeOK.                                    *)
(***************************************************************************)
EXTENDS KiesnetToken, SumsProofs

\* Putting a document keeps a collection well typed.
LEMMA PutDocType ==
  ASSUME NEW docs, NEW keys, NEW Doc, IsDocs(docs, keys, Doc),
         NEW k \in keys, NEW d \in Doc
  PROVE  IsDocs(PutDoc(docs, k, d), keys, Doc)
BY DEF IsDocs, PutDoc

\* So does deleting one.
LEMMA DelDocType ==
  ASSUME NEW docs, NEW keys, NEW Doc, IsDocs(docs, keys, Doc), NEW k
  PROVE  IsDocs(DelDoc(docs, k), keys, Doc)
BY DEF IsDocs, DelDoc

\* A collection without documents is well typed.
LEMMA NoDocsType ==
  ASSUME NEW keys, NEW Doc
  PROVE  IsDocs(NoDocs, keys, Doc)
BY DEF IsDocs, NoDocs

\* The balance logs, all accounts together.
IsLogs(logs) ==
  DOMAIN logs = Addrs /\ \A a \in Addrs : IsDocs(logs[a], Stamps, LogDoc)

\* Writing a balance log keeps the logs well typed.
LEMMA PutBalanceLogType ==
  ASSUME NEW logs, IsLogs(logs), NEW a \in Addrs, NEW ts \in Stamps, NEW log \in LogDoc
  PROVE  IsLogs(PutBalanceLog(logs, a, ts, log))
<1> DEFINE new == PutBalanceLog(logs, a, ts, log)
<1>1. DOMAIN new = Addrs
  BY DEF IsLogs, PutBalanceLog
<1>2. ASSUME NEW b \in Addrs PROVE IsDocs(new[b], Stamps, LogDoc)
  <2>1. CASE b = a
    <3>1. new[b] = PutDoc(logs[b], ts, log)
      BY <2>1 DEF IsLogs, PutBalanceLog
    <3>2. IsDocs(logs[b], Stamps, LogDoc)
      BY DEF IsLogs
    <3> QED BY <3>1, <3>2, PutDocType
  <2>2. CASE b # a
    BY <2>2 DEF IsLogs, PutBalanceLog
  <2> QED BY <2>1, <2>2
<1> QED BY <1>1, <1>2 DEF IsLogs

\* Fees are natural numbers, whatever the policy says.
LEMMA CalcFeeType ==
  ASSUME TypeOK, NEW payer, NEW fn \in Fns, NEW amount \in Int
  PROVE  CalcFee(payer, fn, amount) \in Nat
<1> DEFINE rate == token.policy.rates[fn]
<1>1. token.policy \in Policy
  BY DEF TypeOK, TokenDoc
<1>2. token.policy.rates \in [Fns -> Rate]
  BY <1>1 DEF Policy, NoPolicy, NoRates, Rate
<1>3. rate.num \in Int /\ rate.den \in Nat \ {0} /\ rate.max \in Int
  BY <1>2 DEF Rate
<1>4. (amount * rate.num) \div rate.den \in Int
  BY <1>3
<1> QED BY <1>3, <1>4 DEF CalcFee

\* What a committed transaction leaves well typed, whatever it writes.
LEMMA CommitType ==
  ASSUME TypeOK, NEW ts, NEW W, Commit(ts, W)
  PROVE  /\ ts \in Stamps /\ TxId \in TxIds
         /\ clock' \in StartTime..MaxTime /\ ntx' \in 0..NTx /\ stamps' \subseteq Stamps
         /\ \A f \in flight' : f \in Flight
BY SizeAssumption DEF TypeOK, Commit, TxId, TxIds

\* Crediting an account keeps the balances well typed.
LEMMA CreditType ==
  ASSUME NEW b \in [Addrs -> Int], NEW a \in Addrs, NEW x \in Int
  PROVE  Credit(b, a, x) \in [Addrs -> Int]
BY DEF Credit

\* Leaving a fee document keeps the fees well typed.
LEMMA CreateFeeType ==
  ASSUME TypeOK, NEW a \in Addrs, NEW x \in Int, NEW ts \in Stamps,
         TxId \in TxIds, CreateFee(a, x, ts)
  PROVE  IsDocs(fee', TxIds, FeeDoc)
<1>1. [account |-> a, amount |-> x, created |-> ts] \in FeeDoc
  BY DEF FeeDoc
<1>2. IsDocs(fee, TxIds, FeeDoc)
  BY DEF TypeOK
<1> QED BY <1>1, <1>2, PutDocType DEF CreateFee

\* A log of integers is a log.
LEMMA LogType ==
  ASSUME NEW ty \in LogTypes, NEW x \in Int, NEW y \in Int
  PROVE  [type |-> ty, diff |-> x, fee |-> y] \in LogDoc
BY DEF LogDoc, LogTypes

\* The receiving half of a transfer.
LEMMA ReceiveType ==
  ASSUME NEW from \in Addrs, NEW to \in Addrs, NEW amount \in Int, NEW due \in Nat,
         NEW ts \in Stamps, NEW debited \in [Addrs -> Int], NEW logged, IsLogs(logged),
         NEW pending, IsDocs(pending, TxIds, PendingDoc), TxId \in TxIds,
         Receive(from, to, amount, due, ts, debited, logged, pending)
  PROVE  /\ bal' \in [Addrs -> Int] /\ IsLogs(blog')
         /\ IsDocs(pend', TxIds, PendingDoc)
<1> DEFINE lock == [type |-> "account", account |-> to, rid |-> from,
                    amount |-> amount, fee |-> 0, due |-> due]
           log  == [type |-> "receive", diff |-> amount, fee |-> 0]
<1>1. lock \in PendingDoc
  BY DEF PendingDoc, Addrs
<1>2. log \in LogDoc
  BY DEF LogDoc, LogTypes
<1> HIDE DEF lock, log
<1>3. CASE due > ts
  <2>1. pend' = PutDoc(pending, TxId, lock) /\ bal' = debited /\ blog' = logged
    BY <1>3 DEF Receive, lock
  <2> QED BY <1>1, <2>1, PutDocType
<1>4. CASE ~(due > ts)
  <2>1. /\ pend' = pending /\ bal' = Credit(debited, to, amount)
        /\ blog' = PutBalanceLog(logged, to, ts, log)
    BY <1>4 DEF Receive, log
  <2> QED BY <1>2, <2>1, CreditType, PutBalanceLogType
<1> QED BY <1>3, <1>4

\* Depositing for a contract.
LEMMA DepositType ==
  ASSUME TypeOK, NEW a \in Addrs, NEW amount \in Int, NEW charge \in Int,
         NEW expiry \in Nat, NEW ts \in Stamps, TxId \in TxIds,
         Deposit(a, amount, charge, expiry, ts)
  PROVE  /\ bal' \in [Addrs -> Int] /\ IsLogs(blog')
         /\ IsDocs(pend', TxIds, PendingDoc)
<1> DEFINE doc == [type |-> "contract", account |-> a, rid |-> TxId,
                   amount |-> amount, fee |-> charge, due |-> expiry]
           log == [type |-> "deposit", diff |-> -amount, fee |-> charge]
<1>1. doc \in PendingDoc
  BY DEF PendingDoc, TxIds
<1>2. log \in LogDoc
  BY DEF LogDoc, LogTypes
<1>3. -(amount + charge) \in Int
  OBVIOUS
<1>4. /\ pend' = PutDoc(pend, TxId, doc)
      /\ bal' = Credit(bal, a, -(amount + charge))
      /\ blog' = PutBalanceLog(blog, a, ts, log)
  BY DEF Deposit
<1>5. bal \in [Addrs -> Int] /\ IsLogs(blog) /\ IsDocs(pend, TxIds, PendingDoc)
  BY DEF TypeOK, IsLogs
<1> HIDE DEF doc, log
<1> QED BY <1>1, <1>2, <1>3, <1>4, <1>5, PutDocType, CreditType, PutBalanceLogType

\* A pending balance and its parts.
LEMMA PendingType ==
  ASSUME TypeOK, NEW i \in DOMAIN pend
  PROVE  /\ pend[i].account \in Addrs /\ pend[i].amount \in Int /\ pend[i].fee \in Int
         /\ i \in TxIds
BY DEF TypeOK, IsDocs, PendingDoc

\* Withdrawing a pending balance.
LEMMA WithdrawType ==
  ASSUME TypeOK, NEW i \in DOMAIN pend, NEW ts \in Stamps, Withdraw(i, ts)
  PROVE  /\ bal' \in [Addrs -> Int] /\ IsLogs(blog')
         /\ IsDocs(pend', TxIds, PendingDoc)
<1> DEFINE back == pend[i].amount + pend[i].fee
           log  == [type |-> "withdraw", diff |-> back, fee |-> 0]
<1>1. pend[i].account \in Addrs /\ back \in Int
  BY PendingType
<1>2. log \in LogDoc
  BY <1>1 DEF LogDoc, LogTypes
<1>3. /\ bal' = Credit(bal, pend[i].account, back)
      /\ blog' = PutBalanceLog(blog, pend[i].account, ts, log)
      /\ pend' = DelDoc(pend, i)
  BY DEF Withdraw
<1>4. bal \in [Addrs -> Int] /\ IsLogs(blog) /\ IsDocs(pend, TxIds, PendingDoc)
  BY DEF TypeOK, IsLogs
<1> HIDE DEF back, log
<1> QED BY <1>1, <1>2, <1>3, <1>4, DelDocType, CreditType, PutBalanceLogType

\* A contract and its parts.
LEMMA ContractType ==
  ASSUME TypeOK, NEW i \in DOMAIN con
  PROVE  /\ i \in TxIds
         /\ con[i].kind \in {"transfer", "pay"} =>
              con[i].from \in Addrs /\ con[i].to \in Addrs /\ con[i].due \in Nat
         /\ con[i].kind \in {"token/mint", "token/burn"} => con[i].amount \in Nat
         /\ con[i].kind \in {"account/create", "token/create"} => con[i].holders \subseteq Kids
         /\ con[i].kind \in {"account/holder/add", "account/holder/remove"} =>
              con[i].account \in Addrs /\ con[i].holder \in Kids
<1>1. con[i] \in ContractDoc /\ i \in TxIds
  BY DEF TypeOK, IsDocs
<1> QED BY <1>1 DEF ContractDoc

\* Closing a contract changes its status only.
LEMMA CloseContractType ==
  ASSUME TypeOK, NEW i \in DOMAIN con, NEW status \in {"executed", "cancelled"},
         CloseContract(i, status)
  PROVE  IsDocs(con', TxIds, ContractDoc)
<1>1. con' = [con EXCEPT ![i].status = status]
  BY DEF CloseContract
<1>2. ASSUME NEW j \in DOMAIN con PROVE con'[j] \in ContractDoc
  <2>1. con[j] \in ContractDoc
    BY DEF TypeOK, IsDocs
  <2>2. CASE j = i
    <3>1. con'[j] = [con[j] EXCEPT !.status = status]
      BY <1>1, <2>2 DEF TypeOK, IsDocs
    <3> QED BY <2>1, <3>1 DEF ContractDoc
  <2>3. CASE j # i
    BY <1>1, <2>1, <2>3 DEF TypeOK, IsDocs
  <2> QED BY <2>2, <2>3
<1>3. DOMAIN con' = DOMAIN con /\ con' = [j \in DOMAIN con |-> con'[j]]
  BY <1>1 DEF TypeOK, IsDocs
<1> QED BY <1>2, <1>3 DEF IsDocs, TypeOK

\* Opening a contract.
LEMMA OpenContractType ==
  ASSUME TypeOK, NEW doc \in ContractDoc, TxId \in TxIds, OpenContract(doc)
  PROVE  IsDocs(con', TxIds, ContractDoc)
BY PutDocType DEF OpenContract, TypeOK

\* transfer, signed by its invoker alone.
LEMMA TransferNowType ==
  ASSUME TypeOK, NEW kid, NEW from \in Addrs, NEW to \in Addrs, NEW amount \in Nat,
         NEW extra, NEW due \in Nat, NEW ts,
         TransferNow(kid, from, to, amount, extra, due, ts)
  PROVE  TypeOK'
<1> DEFINE charge == CalcFee(from, "transfer", amount)
           log    == [type |-> "send", diff |-> -amount, fee |-> charge]
           sent   == PutBalanceLog(blog, from, ts, log)
           less   == Credit(bal, from, -(amount + charge))
<1>1. ts \in Stamps /\ TxId \in TxIds
  BY CommitType DEF TransferNow
<1>2. charge \in Int /\ -(amount + charge) \in Int
  BY CalcFeeType DEF Fns
<1>3. log \in LogDoc
  BY <1>2, LogType DEF LogTypes
<1>4. Receive(from, to, amount, due, ts, less, sent, pend) /\ CreateFee(from, charge, ts)
  BY DEF TransferNow
<1> HIDE DEF charge, log
<1>5. less \in [Addrs -> Int] /\ IsLogs(sent)
  BY <1>1, <1>2, <1>3, CreditType, PutBalanceLogType DEF TypeOK, IsLogs
<1> HIDE DEF less, sent
<1>6. bal' \in [Addrs -> Int] /\ IsLogs(blog') /\ IsDocs(pend', TxIds, PendingDoc)
  BY <1>1, <1>4, <1>5, ReceiveType DEF TypeOK
<1>7. IsDocs(fee', TxIds, FeeDoc)
  BY <1>1, <1>2, <1>4, CreateFeeType
<1> QED BY <1>6, <1>7, CommitType DEF TransferNow, TypeOK, IsLogs

\* transfer, to be signed by others.
LEMMA TransferContractType ==
  ASSUME TypeOK, NEW kid, NEW from \in Addrs, NEW to \in Addrs, NEW amount \in Nat,
         NEW extra, NEW due \in Nat, NEW expiry \in Nat, NEW ts,
         TransferContract(kid, from, to, amount, extra, due, expiry, ts)
  PROVE  TypeOK'
<1> DEFINE doc == [kind |-> "transfer", status |-> "open", from |-> from, to |-> to,
                   amount |-> amount, due |-> IF due > ts THEN due ELSE 0,
                   order |-> "", memo |-> ""]
           charge == CalcFee(from, "transfer", amount)
<1>1. ts \in Stamps /\ TxId \in TxIds
  BY CommitType DEF TransferContract
<1>2. charge \in Int
  BY CalcFeeType DEF Fns
<1>3. doc \in ContractDoc
  BY DEF ContractDoc, Texts
<1>4. OpenContract(doc) /\ Deposit(from, amount, charge, expiry, ts)
  BY DEF TransferContract
<1> HIDE DEF doc, charge
<1>5. IsDocs(con', TxIds, ContractDoc)
  BY <1>1, <1>3, <1>4, OpenContractType
<1>6. bal' \in [Addrs -> Int] /\ IsLogs(blog') /\ IsDocs(pend', TxIds, PendingDoc)
  BY <1>1, <1>2, <1>4, DepositType
<1> QED BY <1>5, <1>6, CommitType DEF TransferContract, TypeOK, IsLogs

\* The execution of a transfer contract.
LEMMA ExecuteTransferType ==
  ASSUME TypeOK, NEW cid, NEW ts, ExecuteTransfer(cid, ts)
  PROVE  TypeOK'
<1> DEFINE rest == DelDoc(pend, cid)
<1>1. ts \in Stamps /\ TxId \in TxIds
  BY CommitType DEF ExecuteTransfer
<1>2. cid \in DOMAIN pend /\ cid \in DOMAIN con /\ CloseContract(cid, "executed")
      /\ con[cid].kind = "transfer"
  BY DEF ExecuteTransfer, OwnsPending
<1>3. /\ pend[cid].account \in Addrs /\ pend[cid].amount \in Int /\ pend[cid].fee \in Int
      /\ con[cid].to \in Addrs /\ con[cid].due \in Nat
  BY <1>2, PendingType, ContractType
<1>4. /\ Receive(pend[cid].account, con[cid].to, pend[cid].amount, con[cid].due, ts,
                 bal, blog, rest)
      /\ CreateFee(pend[cid].account, pend[cid].fee, ts)
  BY DEF ExecuteTransfer
<1>5. IsDocs(rest, TxIds, PendingDoc)
  BY DelDocType DEF TypeOK
<1> HIDE DEF rest
<1>6. bal' \in [Addrs -> Int] /\ IsLogs(blog') /\ IsDocs(pend', TxIds, PendingDoc)
  BY <1>1, <1>3, <1>4, <1>5, ReceiveType DEF TypeOK, IsLogs
<1>7. IsDocs(fee', TxIds, FeeDoc)
  BY <1>1, <1>3, <1>4, CreateFeeType
<1>8. IsDocs(con', TxIds, ContractDoc)
  BY <1>2, CloseContractType
<1> QED BY <1>6, <1>7, <1>8, CommitType DEF ExecuteTransfer, TypeOK, IsLogs

\* The cancellation of a transfer or pay contract.
LEMMA CancelTransferType ==
  ASSUME TypeOK, NEW cid, NEW ts, CancelTransfer(cid, ts)
  PROVE  TypeOK'
<1>1. cid \in DOMAIN pend /\ cid \in DOMAIN con /\ CloseContract(cid, "cancelled")
      /\ Withdraw(cid, ts) /\ ts \in Stamps
  BY CommitType DEF CancelTransfer, OwnsPending
<1>2. bal' \in [Addrs -> Int] /\ IsLogs(blog') /\ IsDocs(pend', TxIds, PendingDoc)
  BY <1>1, WithdrawType
<1>3. IsDocs(con', TxIds, ContractDoc)
  BY <1>1, CloseContractType
<1> QED BY <1>2, <1>3, CommitType DEF CancelTransfer, TypeOK, IsLogs

\* The withdrawal of a pending balance.
LEMMA BalancePendingWithdrawType ==
  ASSUME TypeOK, NEW kid, NEW i, NEW ts, BalancePendingWithdraw(kid, i, ts)
  PROVE  TypeOK'
<1>1. i \in DOMAIN pend /\ Withdraw(i, ts) /\ ts \in Stamps
  BY CommitType DEF BalancePendingWithdraw
<1>2. bal' \in [Addrs -> Int] /\ IsLogs(blog') /\ IsDocs(pend', TxIds, PendingDoc)
  BY <1>1, WithdrawType
<1> QED BY <1>2, CommitType DEF BalancePendingWithdraw, TypeOK, IsLogs

\* A pay document of well typed parts.
LEMMA PutPayType ==
  ASSUME TypeOK, NEW to \in Addrs, NEW from \in Addrs, NEW amount \in Int,
         NEW charge \in Int, NEW parent \in Nat,
         NEW order \in Texts, NEW memo \in Texts, NEW ts \in Stamps, TxId \in TxIds
  PROVE  IsDocs(PutPay(to, from, amount, charge, parent, order, memo, ts), TxIds, PayDoc)
<1> DEFINE doc == [to |-> to, from |-> from, amount |-> amount, fee |-> charge,
                   totalRefund |-> 0, parent |-> parent, order |-> order,
                   memo |-> memo, created |-> ts]
<1>1. doc \in PayDoc
  BY DEF PayDoc
<1> HIDE DEF doc
<1> QED BY <1>1, PutDocType DEF PutPay, TypeOK, doc

\* pay, signed by its invoker alone.
LEMMA PayNowType ==
  ASSUME TypeOK, NEW kid, NEW from \in Addrs, NEW to \in Addrs, NEW amount \in Nat,
         NEW order \in Texts, NEW memo \in Texts, NEW ts,
         PayNow(kid, from, to, amount, order, memo, ts)
  PROVE  TypeOK'
<1> DEFINE charge == CalcFee(to, "pay", amount)
           log    == [type |-> "pay", diff |-> -amount, fee |-> 0]
<1>1. ts \in Stamps /\ TxId \in TxIds
  BY CommitType DEF PayNow
<1>2. charge \in Int
  BY CalcFeeType DEF Fns
<1>3. log \in LogDoc
  BY LogType DEF LogTypes
<1>4. /\ pay' = PutPay(to, from, amount, charge, 0, order, memo, ts)
      /\ bal' = Credit(bal, from, -amount)
      /\ blog' = PutBalanceLog(blog, from, ts, log)
  BY DEF PayNow
<1> HIDE DEF charge, log
<1>5. IsDocs(pay', TxIds, PayDoc)
  BY <1>1, <1>2, <1>4, PutPayType
<1>6. bal' \in [Addrs -> Int] /\ IsLogs(blog')
  <2>1. bal \in [Addrs -> Int] /\ IsLogs(blog) /\ -amount \in Int
    BY DEF TypeOK, IsLogs
  <2> QED BY <1>1, <1>3, <1>4, <2>1, CreditType, PutBalanceLogType
<1> QED BY <1>5, <1>6, CommitType DEF PayNow, TypeOK, IsLogs

\* pay, to be signed by others.
LEMMA PayContractType ==
  ASSUME TypeOK, NEW kid, NEW from \in Addrs, NEW to \in Addrs, NEW amount \in Nat,
         NEW order \in Texts, NEW memo \in Texts, NEW expiry \in Nat, NEW ts,
         PayContract(kid, from, to, amount, order, memo, expiry, ts)
  PROVE  TypeOK'
<1> DEFINE doc == [kind |-> "pay", status |-> "open", from |-> from, to |-> to,
                   amount |-> amount, due |-> 0, order |-> order, memo |-> memo]
<1>1. ts \in Stamps /\ TxId \in TxIds
  BY CommitType DEF PayContract
<1>2. doc \in ContractDoc
  BY DEF ContractDoc
<1>3. OpenContract(doc) /\ Deposit(from, amount, 0, expiry, ts)
  BY DEF PayContract
<1> HIDE DEF doc
<1>4. IsDocs(con', TxIds, ContractDoc)
  BY <1>1, <1>2, <1>3, OpenContractType
<1>5. bal' \in [Addrs -> Int] /\ IsLogs(blog') /\ IsDocs(pend', TxIds, PendingDoc)
  BY <1>1, <1>3, DepositType
<1> QED BY <1>4, <1>5, CommitType DEF PayContract, TypeOK, IsLogs

\* The execution of a pay contract.
LEMMA ExecutePayType ==
  ASSUME TypeOK, NEW cid, NEW ts, ExecutePay(cid, ts)
  PROVE  TypeOK'
<1> DEFINE charge == CalcFee(con[cid].to, "pay", pend[cid].amount)
<1>1. ts \in Stamps /\ TxId \in TxIds
  BY CommitType DEF ExecutePay
<1>2. /\ cid \in DOMAIN pend /\ cid \in DOMAIN con
      /\ CloseContract(cid, "executed") /\ con[cid].kind = "pay"
  BY DEF ExecutePay, OwnsPending
<1>3. /\ pend[cid].account \in Addrs /\ pend[cid].amount \in Int /\ con[cid].to \in Addrs
  BY <1>2, PendingType, ContractType
<1>4. con[cid].order \in Texts /\ con[cid].memo \in Texts
  <2>1. con[cid] \in ContractDoc
    BY <1>2 DEF TypeOK, IsDocs
  <2> QED BY <1>2, <2>1 DEF ContractDoc
<1>5. charge \in Int
  BY <1>3, CalcFeeType DEF Fns
<1>6. /\ pay' = PutPay(con[cid].to, pend[cid].account, pend[cid].amount, charge, 0,
                       con[cid].memo, con[cid].order, ts)
      /\ pend' = DelDoc(pend, cid)
  BY DEF ExecutePay, PayPendingBalance
<1> HIDE DEF charge
<1>7. IsDocs(pay', TxIds, PayDoc)
  BY <1>1, <1>3, <1>4, <1>5, <1>6, PutPayType
<1>8. IsDocs(pend', TxIds, PendingDoc)
  BY <1>6, DelDocType DEF TypeOK
<1>9. IsDocs(con', TxIds, ContractDoc)
  BY <1>2, CloseContractType
<1> QED BY <1>7, <1>8, <1>9, CommitType DEF ExecutePay, TypeOK, IsLogs

\* A pay document and its parts.
LEMMA PayType ==
  ASSUME TypeOK, NEW i \in DOMAIN pay
  PROVE  /\ i \in TxIds /\ pay[i] \in PayDoc
         /\ pay[i].to \in Addrs /\ pay[i].from \in Addrs /\ pay[i].amount \in Int
         /\ pay[i].fee \in Int /\ pay[i].totalRefund \in Nat /\ pay[i].created \in Stamps
BY DEF TypeOK, IsDocs, PayDoc

\* The fee of a refund is an integer.
LEMMA RefundFeeType ==
  ASSUME TypeOK, NEW i \in DOMAIN pay, pay[i].amount > 0, NEW amount \in Int
  PROVE  RefundFee(pay[i], amount) \in Int
<1>1. pay[i].fee \in Int /\ pay[i].amount \in Nat \ {0}
  BY PayType
<1>2. (amount * pay[i].fee) \div pay[i].amount \in Int
  BY <1>1
<1> QED BY <1>1, <1>2 DEF RefundFee

\* A refund.
LEMMA PayRefundType ==
  ASSUME TypeOK, NEW kid, NEW i, NEW amount \in Nat, NEW ts, PayRefund(kid, i, amount, ts)
  PROVE  TypeOK'
<1> DEFINE parent == pay[i]
           back   == RefundFee(parent, amount)
           refund == PutPay(parent.to, parent.from, -amount, -back, i, "", "", ts)
           log    == [type |-> "refund", diff |-> amount, fee |-> 0]
<1>1. ts \in Stamps /\ TxId \in TxIds
  BY CommitType DEF PayRefund
<1>2. i \in DOMAIN pay /\ amount > 0 /\ parent.totalRefund + amount <= parent.amount
  BY DEF PayRefund, MayRefund
<1>3. /\ i \in TxIds /\ parent \in PayDoc /\ parent.to \in Addrs /\ parent.from \in Addrs
      /\ parent.amount \in Int /\ parent.totalRefund \in Nat
  BY <1>2, PayType
<1>4. back \in Int /\ -back \in Int
  BY <1>2, <1>3, RefundFeeType
<1>5. /\ pay' = [refund EXCEPT ![i].totalRefund = @ + amount]
      /\ bal' = Credit(bal, parent.from, amount)
      /\ blog' = PutBalanceLog(blog, parent.from, ts, log)
  BY DEF PayRefund
<1>6. log \in LogDoc
  BY LogType DEF LogTypes
<1> HIDE DEF parent, back, log
<1>7. IsDocs(refund, TxIds, PayDoc)
  <2>1. i \in Nat /\ "" \in Texts /\ -amount \in Int
    BY <1>3 DEF TxIds, Texts
  <2>2. IsDocs(PutPay(parent.to, parent.from, -amount, -back, i, "", "", ts), TxIds, PayDoc)
    BY <1>1, <1>3, <1>4, <2>1, PutPayType
  <2> QED BY <2>2
<1>8. DOMAIN refund = DOMAIN pay \cup {TxId}
  BY DEF PutPay, PutDoc
<1> HIDE DEF refund
<1>9. IsDocs(pay', TxIds, PayDoc)
  <2>1. DOMAIN pay' = DOMAIN refund /\ pay' = [j \in DOMAIN refund |-> pay'[j]]
    BY <1>5, <1>7 DEF IsDocs
  <2>2. ASSUME NEW j \in DOMAIN refund PROVE pay'[j] \in PayDoc
    <3>1. refund[j] \in PayDoc
      BY <1>7 DEF IsDocs
    <3>2. CASE j = i
      <4>1. pay'[j] = [refund[j] EXCEPT !.totalRefund = @ + amount]
        BY <1>5, <1>7, <3>2 DEF IsDocs
      <4> QED BY <3>1, <4>1 DEF PayDoc
    <3>3. CASE j # i
      BY <1>5, <1>7, <3>1, <3>3 DEF IsDocs
    <3> QED BY <3>2, <3>3
  <2> QED BY <1>7, <2>1, <2>2 DEF IsDocs
<1>10. bal' \in [Addrs -> Int] /\ IsLogs(blog')
  <2>1. bal \in [Addrs -> Int] /\ IsLogs(blog) /\ amount \in Int
    BY DEF TypeOK, IsLogs
  <2> QED BY <1>1, <1>3, <1>5, <1>6, <2>1, CreditType, PutBalanceLogType
<1> QED BY <1>9, <1>10, CommitType DEF PayRefund, TypeOK, IsLogs

\* The sums of a page.
LEMMA PageSumType ==
  ASSUME TypeOK, NEW ids
  PROVE  /\ ids \subseteq DOMAIN pay => PaySum(ids) \in Int /\ PayFeeSum(ids) \in Int
         /\ ids \subseteq DOMAIN fee => FeeSum(ids) \in Int
<1>1. ASSUME ids \subseteq DOMAIN pay PROVE PaySum(ids) \in Int /\ PayFeeSum(ids) \in Int
  <2>1. /\ [i \in TxIds |-> IF i \in ids THEN pay[i].amount ELSE 0] \in [1..NTx -> Int]
        /\ [i \in TxIds |-> IF i \in ids THEN pay[i].fee ELSE 0] \in [1..NTx -> Int]
    BY <1>1, PayType DEF TxIds
  <2> QED BY <2>1, SumToType, SizeAssumption DEF PaySum, PayFeeSum
<1>2. ASSUME ids \subseteq DOMAIN fee PROVE FeeSum(ids) \in Int
  <2>1. [i \in TxIds |-> IF i \in ids THEN fee[i].amount ELSE 0] \in [1..NTx -> Int]
    BY <1>2 DEF TypeOK, IsDocs, FeeDoc, TxIds
  <2> QED BY <2>1, SumToType, SizeAssumption DEF FeeSum
<1> QED BY <1>1, <1>2

\* The endorsement of a prune of pays.
LEMMA PayPruneEndorseType ==
  ASSUME TypeOK, NEW kid, NEW addr \in Addrs, NEW safe, NEW asked, NEW ts,
         PayPruneEndorse(kid, addr, safe, asked, ts)
  PROVE  TypeOK'
<1> DEFINE range == PayRange(addr, payCursor[addr], PruneEnd(safe, asked, ts))
           f(page, last) ==
             [kind |-> "pay", account |-> addr, ids |-> page, base |-> bal[addr],
              sum |-> PaySum(page), fee |-> PayFeeSum(page),
              end |-> pay[last].created, more |-> MoreIn(page, range),
              ts |-> ts, at |-> clock]
<1>1. PICK page \in Pages(range, pay), last \in range : flight' = flight \cup {f(page, last)}
  BY DEF PayPruneEndorse
<1>2. ts \in Stamps /\ UNCHANGED <<clock, ntx, stamps, ledger>>
  BY DEF PayPruneEndorse, Endorse
<1>3. range \subseteq DOMAIN pay /\ page \subseteq range
  BY DEF PayRange, Pages
<1> HIDE DEF range
<1>4. page \subseteq TxIds /\ pay[last].created \in Stamps
  BY <1>3, PayType
<1>5. PaySum(page) \in Int /\ PayFeeSum(page) \in Int
  BY <1>3, PageSumType
<1>6. bal[addr] \in Int /\ clock \in Nat
  BY SizeAssumption DEF TypeOK, StartTime
<1>7. MoreIn(page, range) \in BOOLEAN
  BY DEF MoreIn
<1>8. f(page, last) \in Flight
  BY <1>2, <1>4, <1>5, <1>6, <1>7 DEF Flight
<1> HIDE DEF f
<1> QED BY <1>1, <1>2, <1>8 DEF TypeOK, IsLogs, ledger

\* The commit of a prune of pays.
LEMMA PayPruneCommitType ==
  ASSUME TypeOK, NEW f, PayPruneCommit(f)
  PROVE  TypeOK'
<1> DEFINE applied == f.sum - f.fee
           log == [type |-> "prunePay", diff |-> applied, fee |-> 0]
<1>1. f.ts \in Stamps /\ TxId \in TxIds
  BY CommitType DEF PayPruneCommit
<1>2. /\ f.account \in Addrs /\ f.base \in Int /\ f.sum \in Int /\ f.fee \in Int
      /\ f.end \in Stamps
  BY DEF PayPruneCommit, TypeOK, Flight
<1>3. applied \in Int /\ f.base + applied \in Int
  BY <1>2
<1>4. log \in LogDoc
  BY <1>3, LogType DEF LogTypes
<1>5. /\ bal' = [bal EXCEPT ![f.account] = f.base + applied]
      /\ blog' = PutBalanceLog(blog, f.account, f.ts, log)
      /\ payCursor' = [payCursor EXCEPT ![f.account] = f.end]
      /\ CreateFee(f.account, f.fee, f.ts)
  BY DEF PayPruneCommit
<1> HIDE DEF applied, log
<1>6. bal' \in [Addrs -> Int] /\ IsLogs(blog')
  BY <1>1, <1>2, <1>3, <1>4, <1>5, PutBalanceLogType DEF TypeOK, IsLogs
<1>7. payCursor' \in [Addrs -> {0} \cup Stamps]
  BY <1>2, <1>5 DEF TypeOK
<1>8. IsDocs(fee', TxIds, FeeDoc)
  BY <1>1, <1>2, <1>5, CreateFeeType
<1>9. collected' \in [pay : SUBSET TxIds, fee : SUBSET TxIds]
  BY DEF PayPruneCommit, TypeOK, Flight
<1> QED BY <1>6, <1>7, <1>8, <1>9, CommitType DEF PayPruneCommit, TypeOK, IsLogs

\* The target of a fee policy is an address.
LEMMA TargetType ==
  ASSUME TypeOK, token.policy # NoPolicy
  PROVE  token.policy.target \in Addrs
BY DEF TypeOK, TokenDoc, Policy

\* The endorsement of a prune of fees.
LEMMA FeePruneEndorseType ==
  ASSUME TypeOK, NEW kid, NEW safe, NEW asked, NEW ts, FeePruneEndorse(kid, safe, asked, ts)
  PROVE  TypeOK'
<1> DEFINE target == token.policy.target
           range  == FeeRange(feeCursor, PruneEnd(safe, asked, ts))
           f(page, last) ==
             [kind |-> "fee", account |-> target, ids |-> page, base |-> bal[target],
              sum |-> FeeSum(page), fee |-> 0, end |-> fee[last].created,
              more |-> MoreIn(page, range), ts |-> ts, at |-> clock]
<1>1. PICK page \in Pages(range, fee), last \in range : flight' = flight \cup {f(page, last)}
  BY DEF FeePruneEndorse
<1>2. ts \in Stamps /\ UNCHANGED <<clock, ntx, stamps, ledger>> /\ target \in Addrs
  BY TargetType DEF FeePruneEndorse, Endorse
<1>3. range \subseteq DOMAIN fee /\ page \subseteq range
  BY DEF FeeRange, Pages
<1> HIDE DEF range, target
<1>4. page \subseteq TxIds /\ fee[last].created \in Stamps
  BY <1>3 DEF TypeOK, IsDocs, FeeDoc
<1>5. FeeSum(page) \in Int
  BY <1>3, PageSumType
<1>6. bal[target] \in Int /\ clock \in Nat
  BY <1>2, SizeAssumption DEF TypeOK, StartTime
<1>7. MoreIn(page, range) \in BOOLEAN
  BY DEF MoreIn
<1>8. f(page, last) \in Flight
  BY <1>2, <1>4, <1>5, <1>6, <1>7 DEF Flight
<1> HIDE DEF f
<1> QED BY <1>1, <1>2, <1>8 DEF TypeOK, IsLogs, ledger

\* The commit of a prune of fees.
LEMMA FeePruneCommitType ==
  ASSUME TypeOK, NEW f, FeePruneCommit(f)
  PROVE  TypeOK'
<1> DEFINE log == [type |-> "pruneFee", diff |-> f.sum, fee |-> 0]
<1>1. f.ts \in Stamps
  BY CommitType DEF FeePruneCommit
<1>2. f.account \in Addrs /\ f.base + f.sum \in Int /\ f.sum \in Int /\ f.end \in Stamps
  BY DEF FeePruneCommit, TypeOK, Flight
<1>3. log \in LogDoc
  BY <1>2, LogType DEF LogTypes
<1>4. /\ bal' = [bal EXCEPT ![f.account] = f.base + f.sum]
      /\ blog' = PutBalanceLog(blog, f.account, f.ts, log)
  BY DEF FeePruneCommit
<1> HIDE DEF log
<1>5. bal' \in [Addrs -> Int] /\ IsLogs(blog')
  BY <1>1, <1>2, <1>3, <1>4, PutBalanceLogType DEF TypeOK, IsLogs
<1>6. collected' \in [pay : SUBSET TxIds, fee : SUBSET TxIds]
  BY DEF FeePruneCommit, TypeOK, Flight
<1> QED BY <1>2, <1>5, <1>6, CommitType DEF FeePruneCommit, TypeOK, IsLogs

\* Minting or burning moves the balance and the supply together.
LEMMA SupplyType ==
  ASSUME TypeOK, NEW diff \in Int, NEW ts \in Stamps, Supply(diff, ts)
  PROVE  bal' \in [Addrs -> Int] /\ IsLogs(blog') /\ token' \in TokenDoc
<1>1. SupplyLog(diff) \in LogDoc
  BY DEF SupplyLog, LogDoc, LogTypes
<1>2. Genesis \in Addrs
  BY DataAssumption
<1>3. bal' \in [Addrs -> Int] /\ IsLogs(blog')
  BY <1>1, <1>2, CreditType, PutBalanceLogType DEF Supply, TypeOK, IsLogs
<1>4. token' \in TokenDoc
  BY DEF Supply, TypeOK, TokenDoc
<1> QED BY <1>3, <1>4

\* TokenStub.Mint and TokenStub.Burn.
LEMMA MintBurnType ==
  ASSUME TypeOK, NEW amount \in Nat, NEW ts \in Stamps, Mint(amount, ts) \/ Burn(amount, ts)
  PROVE  bal' \in [Addrs -> Int] /\ IsLogs(blog') /\ token' \in TokenDoc
<1>1. /\ token.supply \in Int /\ MaxSupply \in Nat /\ bal[Genesis] \in Int
  BY DataAssumption DEF TypeOK, TokenDoc
<1>2. CASE Mint(amount, ts)
  <2>1. PICK diff \in Int : Supply(diff, ts)
    BY <1>1, <1>2 DEF Mint
  <2> QED BY <2>1, SupplyType
<1>3. CASE Burn(amount, ts)
  <2>1. UNCHANGED <<bal, blog, token>> \/ \E diff \in Int : Supply(diff, ts)
    BY <1>1, <1>3 DEF Burn, Burnable
  <2>2. CASE UNCHANGED <<bal, blog, token>>
    BY <2>2 DEF TypeOK, IsLogs
  <2>3. CASE \E diff \in Int : Supply(diff, ts)
    BY <2>3, SupplyType
  <2> QED BY <2>1, <2>2, <2>3
<1> QED BY <1>2, <1>3

\* A contract to mint or to burn.
LEMMA SupplyContractType ==
  ASSUME TypeOK, NEW kind \in {"token/mint", "token/burn"}, NEW amount \in Nat, NEW ts,
         SupplyContract(kind, amount, ts)
  PROVE  TypeOK'
<1> DEFINE doc == [kind |-> kind, status |-> "open", amount |-> amount]
<1>1. doc \in ContractDoc
  BY DEF ContractDoc
<1>2. TxId \in TxIds /\ OpenContract(doc)
  BY CommitType DEF SupplyContract
<1> HIDE DEF doc
<1>3. IsDocs(con', TxIds, ContractDoc)
  BY <1>1, <1>2, OpenContractType
<1> QED BY <1>3, CommitType DEF SupplyContract, TypeOK, IsLogs

\* tokenMint and tokenBurn.
LEMMA TokenMintBurnType ==
  ASSUME TypeOK, NEW kid, NEW amount \in Nat, NEW ts,
         TokenMint(kid, amount, ts) \/ TokenBurn(kid, amount, ts)
  PROVE  TypeOK'
<1>1. CASE /\ Mint(amount, ts) \/ Burn(amount, ts)
           /\ \E written : Commit(ts, written)
           /\ UNCHANGED <<account, holder, payCursor, pend, con, pay, fee, feeCursor, collected>>
  <2>1. bal' \in [Addrs -> Int] /\ IsLogs(blog') /\ token' \in TokenDoc
    BY <1>1, CommitType, MintBurnType
  <2> QED BY <1>1, <2>1, CommitType DEF TypeOK, IsLogs
<1>2. CASE SupplyContract("token/mint", amount, ts) \/ SupplyContract("token/burn", amount, ts)
  BY <1>2, SupplyContractType
<1> QED BY <1>1, <1>2 DEF TokenMint, TokenBurn

\* The callbacks of mint and burn contracts.
LEMMA ExecuteSupplyType ==
  ASSUME TypeOK, NEW cid, NEW ts,
         \/ ExecuteTokenMint(cid, ts) \/ ExecuteTokenBurn(cid, ts) \/ CancelSupply(cid, ts)
  PROVE  TypeOK'
<1>1. cid \in DOMAIN con
  BY DEF ExecuteTokenMint, ExecuteTokenBurn, CancelSupply
<1>2. CASE /\ CloseContract(cid, "executed") /\ con[cid].kind \in {"token/mint", "token/burn"}
           /\ Mint(con[cid].amount, ts) \/ Burn(con[cid].amount, ts)
           /\ \E written : Commit(ts, written)
           /\ UNCHANGED <<account, holder, payCursor, pend, pay, fee, feeCursor, collected>>
  <2>1. bal' \in [Addrs -> Int] /\ IsLogs(blog') /\ token' \in TokenDoc
    BY <1>1, <1>2, CommitType, ContractType, MintBurnType
  <2>2. IsDocs(con', TxIds, ContractDoc)
    BY <1>1, <1>2, CloseContractType
  <2> QED BY <1>2, <2>1, <2>2, CommitType DEF TypeOK, IsLogs
<1>3. CASE CancelSupply(cid, ts)
  <2>1. IsDocs(con', TxIds, ContractDoc)
    BY <1>1, <1>3, CloseContractType DEF CancelSupply
  <2> QED BY <1>3, <2>1, CommitType DEF CancelSupply, TypeOK, IsLogs
<1> QED BY <1>2, <1>3 DEF ExecuteTokenMint, ExecuteTokenBurn

\* tokenUpdate gives the token a well typed policy.
LEMMA TokenUpdateType ==
  ASSUME TypeOK, NEW meta \in Metas, NEW ts, TokenUpdate(meta, ts)
  PROVE  TypeOK'
<1>1. meta \in Meta /\ Genesis \in Addrs
  BY DataAssumption
<1>2. token.policy \in Policy
  BY DEF TypeOK, TokenDoc
<1>3. NoRates \in [Fns -> Rate]
  BY DEF NoRates, Rate
<1>4. UpdatedPolicy(meta) \in Policy
  <2>1. CASE ~meta.fee
    <3>1. token.policy \in [target : Addrs, rates : [Fns -> Rate]]
      BY <1>2, <2>1 DEF TokenUpdate, Policy
    <3>2. UpdatedPolicy(meta) = [token.policy EXCEPT !.rates = NoRates]
      BY <2>1 DEF UpdatedPolicy
    <3> QED BY <1>3, <3>1, <3>2 DEF Policy
  <2>2. CASE meta.fee
    <3>1. meta.target \in Addrs \cup {NoAddr} /\ meta.rates \in [Fns -> Rate]
      BY <1>1 DEF Meta
    <3>2. token.policy # NoPolicy => token.policy.target \in Addrs
      BY TargetType
    <3> QED BY <1>1, <2>2, <3>1, <3>2 DEF UpdatedPolicy, Policy
  <2> QED BY <1>1, <2>1, <2>2 DEF Meta
<1>5. token' \in TokenDoc
  BY <1>4 DEF TokenUpdate, TypeOK, TokenDoc
<1> QED BY <1>5, CommitType DEF TokenUpdate, TypeOK, IsLogs

\* Suspending and unsuspending.
LEMMA SetSuspendedType ==
  ASSUME TypeOK, NEW kid \in Kids, NEW suspended \in BOOLEAN, NEW ts,
         SetSuspended(kid, suspended, ts)
  PROVE  TypeOK'
<1>1. kid \in Addrs
  BY SizeAssumption DEF Kids, Addrs
<1>2. account' \in [Addrs -> AccountDoc]
  BY <1>1 DEF SetSuspended, TypeOK, AccountDoc
<1> QED BY <1>2, CommitType DEF SetSuspended, TypeOK, IsLogs

\* A created account, its balance and its holders' documents.
LEMMA CreateAccountType ==
  ASSUME TypeOK, NEW addr \in Addrs, NEW holders \in SUBSET Kids, NEW amount \in Int,
         CreateAccount(addr, holders, amount)
  PROVE  /\ account' \in [Addrs -> AccountDoc] /\ holder' \subseteq Kids \X Addrs
         /\ bal' \in [Addrs -> Int] /\ payCursor' \in [Addrs -> {0} \cup Stamps]
<1>1. account' \in [Addrs -> AccountDoc]
  BY DEF CreateAccount, TypeOK, AccountDoc
<1>2. holder' \subseteq Kids \X Addrs
  BY DEF CreateAccount, TypeOK
<1>3. bal' \in [Addrs -> Int] /\ payCursor' \in [Addrs -> {0} \cup Stamps]
  BY DEF CreateAccount, TypeOK
<1> QED BY <1>1, <1>2, <1>3

\* The holders of addresses are kiesnet ids.
LEMMA SignableType ==
  ASSUME TypeOK, NEW addrs \in SUBSET Addrs, NEW kid \in Kids
  PROVE  {kid} \cup SignableIDs(addrs) \subseteq Kids
BY DEF SignableIDs, TypeOK, AccountDoc

\* account/create of a personal account.
LEMMA AccountCreateType ==
  ASSUME TypeOK, NEW kid \in Kids, NEW ts, AccountCreate(kid, ts)
  PROVE  TypeOK'
<1>1. kid \in Addrs /\ {kid} \in SUBSET Kids
  BY SizeAssumption DEF Kids, Addrs
<1>2. /\ account' \in [Addrs -> AccountDoc] /\ holder' \subseteq Kids \X Addrs
      /\ bal' \in [Addrs -> Int] /\ payCursor' \in [Addrs -> {0} \cup Stamps]
  BY <1>1, CreateAccountType DEF AccountCreate
<1> QED BY <1>2, CommitType DEF AccountCreate, TypeOK, IsLogs

\* A contract about accounts.
LEMMA AccountContractType ==
  ASSUME TypeOK, NEW doc \in ContractDoc, NEW ts, AccountContract(doc, ts)
  PROVE  TypeOK'
<1>1. IsDocs(con', TxIds, ContractDoc)
  BY CommitType, OpenContractType DEF AccountContract
<1> QED BY <1>1, CommitType DEF AccountContract, TypeOK, IsLogs

\* The contracts that joint accounts are created and changed by.
LEMMA AccountContractsType ==
  ASSUME TypeOK, NEW kid \in Kids, NEW ts,
         \/ \E addrs \in CoHolders : AccountCreateJoint(kid, addrs, ts)
         \/ \E addr \in Addrs, other \in Kids :
              \/ AccountHolderAdd(kid, addr, other, ts)
              \/ AccountHolderRemove(kid, addr, other, ts)
  PROVE  TypeOK'
<1>1. CASE \E addrs \in CoHolders : AccountCreateJoint(kid, addrs, ts)
  <2>1. PICK addrs \in CoHolders : AccountCreateJoint(kid, addrs, ts)
    BY <1>1
  <2> DEFINE holders == {kid} \cup SignableIDs(addrs)
             doc == [kind |-> "account/create", status |-> "open",
                     holders |-> holders, signers |-> holders]
  <2>2. holders \in SUBSET Kids
    BY SignableType, DataAssumption
  <2>3. AccountContract(doc, ts)
    BY <2>1 DEF AccountCreateJoint
  <2> HIDE DEF holders
  <2>4. doc \in ContractDoc
    BY <2>2 DEF ContractDoc
  <2> QED BY <2>3, <2>4, AccountContractType
<1>2. CASE \E addr \in Addrs, other \in Kids : AccountHolderAdd(kid, addr, other, ts)
  <2>1. PICK addr \in Addrs, other \in Kids : AccountHolderAdd(kid, addr, other, ts)
    BY <1>2
  <2> DEFINE signers == HolderSigners(addr, other)
             doc == [kind |-> "account/holder/add", status |-> "open", account |-> addr,
                     holder |-> other, signers |-> signers]
  <2>2. signers \in SUBSET Kids
    BY DEF HolderSigners, TypeOK, AccountDoc
  <2>3. AccountContract(doc, ts)
    BY <2>1 DEF AccountHolderAdd
  <2> HIDE DEF signers
  <2>4. doc \in ContractDoc
    BY <2>2 DEF ContractDoc
  <2> QED BY <2>3, <2>4, AccountContractType
<1>3. CASE \E addr \in Addrs, other \in Kids : AccountHolderRemove(kid, addr, other, ts)
  <2>1. PICK addr \in Addrs, other \in Kids : AccountHolderRemove(kid, addr, other, ts)
    BY <1>3
  <2> DEFINE signers == account[addr].holders \ {other}
             doc == [kind |-> "account/holder/remove", status |-> "open", account |-> addr,
                     holder |-> other, signers |-> signers]
  <2>2. signers \in SUBSET Kids
    BY DEF TypeOK, AccountDoc
  <2>3. AccountContract(doc, ts)
    BY <2>1 DEF AccountHolderRemove
  <2> HIDE DEF signers
  <2>4. doc \in ContractDoc
    BY <2>2 DEF ContractDoc
  <2> QED BY <2>3, <2>4, AccountContractType
<1> QED BY <1>1, <1>2, <1>3

\* A holder more and a holder less.
LEMMA HolderChangeType ==
  ASSUME TypeOK, NEW addr \in Addrs, NEW k \in Kids,
         AddHolder(addr, k) \/ RemoveHolder(addr, k)
  PROVE  account' \in [Addrs -> AccountDoc] /\ holder' \subseteq Kids \X Addrs
<1>1. CASE AddHolder(addr, k)
  BY <1>1 DEF AddHolder, TypeOK, AccountDoc
<1>2. CASE RemoveHolder(addr, k)
  BY <1>2 DEF RemoveHolder, TypeOK, AccountDoc
<1> QED BY <1>1, <1>2

\* The departure of a holder.
LEMMA AccountHolderLeaveType ==
  ASSUME TypeOK, NEW kid \in Kids, NEW addr \in Addrs, NEW ts,
         AccountHolderLeave(kid, addr, ts)
  PROVE  TypeOK'
<1>1. account' \in [Addrs -> AccountDoc] /\ holder' \subseteq Kids \X Addrs
  BY HolderChangeType DEF AccountHolderLeave
<1> QED BY <1>1, CommitType DEF AccountHolderLeave, TypeOK, IsLogs

\* The callbacks of contracts about accounts.
LEMMA ExecuteAccountType ==
  ASSUME TypeOK, NEW cid, NEW ts,
         \/ \E addr \in Addrs : ExecuteAccountCreate(cid, addr, ts)
         \/ ExecuteAccountHolderAdd(cid, ts) \/ ExecuteAccountHolderRemove(cid, ts)
         \/ CancelAccount(cid, ts)
  PROVE  TypeOK'
<1>1. cid \in DOMAIN con
  BY DEF ExecuteAccountCreate, ExecuteAccountHolderAdd, ExecuteAccountHolderRemove,
         CancelAccount
<1>2. IsDocs(con', TxIds, ContractDoc)
  BY <1>1, CloseContractType
     DEF ExecuteAccountCreate, ExecuteAccountHolderAdd, ExecuteAccountHolderRemove,
         CancelAccount
<1>3. CASE \E addr \in Addrs : ExecuteAccountCreate(cid, addr, ts)
  <2>1. PICK addr \in Addrs : ExecuteAccountCreate(cid, addr, ts)
    BY <1>3
  <2>2. con[cid].holders \in SUBSET Kids
    BY <1>1, <2>1, ContractType DEF ExecuteAccountCreate
  <2>3. /\ account' \in [Addrs -> AccountDoc] /\ holder' \subseteq Kids \X Addrs
        /\ bal' \in [Addrs -> Int] /\ payCursor' \in [Addrs -> {0} \cup Stamps]
    BY <2>1, <2>2, CreateAccountType DEF ExecuteAccountCreate
  <2> QED BY <1>2, <2>1, <2>3, CommitType DEF ExecuteAccountCreate, TypeOK, IsLogs
<1>4. CASE ExecuteAccountHolderAdd(cid, ts)
  <2>1. con[cid].account \in Addrs /\ con[cid].holder \in Kids
    BY <1>1, <1>4, ContractType DEF ExecuteAccountHolderAdd
  <2>2. account' \in [Addrs -> AccountDoc] /\ holder' \subseteq Kids \X Addrs
    BY <1>4, <2>1, HolderChangeType DEF ExecuteAccountHolderAdd
  <2> QED BY <1>2, <1>4, <2>2, CommitType DEF ExecuteAccountHolderAdd, TypeOK, IsLogs
<1>5. CASE ExecuteAccountHolderRemove(cid, ts)
  <2>1. con[cid].account \in Addrs /\ con[cid].holder \in Kids
    BY <1>1, <1>5, ContractType DEF ExecuteAccountHolderRemove
  <2>2. account' \in [Addrs -> AccountDoc] /\ holder' \subseteq Kids \X Addrs
    BY <1>5, <2>1, HolderChangeType DEF ExecuteAccountHolderRemove
  <2> QED BY <1>2, <1>5, <2>2, CommitType DEF ExecuteAccountHolderRemove, TypeOK, IsLogs
<1>6. CASE CancelAccount(cid, ts)
  BY <1>2, <1>6, CommitType DEF CancelAccount, TypeOK, IsLogs
<1> QED BY <1>3, <1>4, <1>5, <1>6

\* Every handler of joint accounts.
LEMMA JointNextType ==
  ASSUME TypeOK, JointNext
  PROVE  TypeOK'
<1>1. Joint \subseteq Addrs
  BY DEF Joint
<1> QED BY <1>1, AccountContractsType, AccountHolderLeaveType, ExecuteAccountType DEF JointNext

\* The policy a token is issued with.
LEMMA IssuedPolicyType ==
  ASSUME NEW meta \in Metas
  PROVE  IssuedPolicy(meta) \in Policy
<1>1. meta \in Meta /\ Genesis \in Addrs
  BY DataAssumption
<1> QED BY <1>1 DEF Meta, IssuedPolicy, Policy

\* The genesis account and the token.
LEMMA CreateTokenType ==
  ASSUME TypeOK, NEW holders \in SUBSET Kids, NEW meta \in Metas, NEW supply \in Nat, NEW ts,
         CreateToken(holders, meta, supply, ts), IsDocs(con', TxIds, ContractDoc)
  PROVE  TypeOK'
<1>1. Genesis \in Addrs /\ ts \in Stamps /\ supply \in Int
  BY CommitType, DataAssumption DEF CreateToken
<1>2. /\ account' \in [Addrs -> AccountDoc] /\ holder' \subseteq Kids \X Addrs
      /\ bal' \in [Addrs -> Int] /\ payCursor' \in [Addrs -> {0} \cup Stamps]
  BY <1>1, CreateAccountType DEF CreateToken
<1>3. SupplyLog(supply) \in LogDoc
  BY DEF SupplyLog, LogDoc, LogTypes
<1>4. IsLogs(blog) /\ IsLogs(PutBalanceLog(blog, Genesis, ts, SupplyLog(supply)))
  BY <1>1, <1>3, PutBalanceLogType DEF TypeOK, IsLogs
<1>5. IsLogs(blog')
  BY <1>4 DEF CreateToken
<1>6. token' \in TokenDoc
  BY IssuedPolicyType DEF CreateToken, TokenDoc
<1> QED BY <1>2, <1>5, <1>6, CommitType DEF CreateToken, TypeOK, IsLogs

\* token/create.
LEMMA TokenCreateType ==
  ASSUME TypeOK, NEW kid \in Kids, NEW addrs \in SUBSET Addrs, NEW meta \in Metas,
         NEW supply \in Nat, NEW ts, TokenCreate(kid, addrs, meta, supply, ts)
  PROVE  TypeOK'
<1> DEFINE holders == {kid} \cup SignableIDs(addrs)
           doc == [kind |-> "token/create", status |-> "open",
                   holders |-> holders, signers |-> holders]
<1>1. holders \in SUBSET Kids
  BY SignableType
<1>2. \/ CreateToken(holders, meta, supply, ts) /\ UNCHANGED con
      \/ /\ OpenContract(doc)
         /\ Commit(ts, {})
         /\ UNCHANGED <<account, holder, token, bal, payCursor, blog, pend, pay, fee, feeCursor, collected>>
  BY DEF TokenCreate
<1> HIDE DEF holders
<1>3. CASE CreateToken(holders, meta, supply, ts) /\ UNCHANGED con
  <2>1. IsDocs(con', TxIds, ContractDoc)
    BY <1>3 DEF TypeOK
  <2> QED BY <1>1, <1>3, <2>1, CreateTokenType
<1>4. CASE /\ OpenContract(doc)
           /\ Commit(ts, {})
           /\ UNCHANGED <<account, holder, token, bal, payCursor, blog, pend, pay, fee, feeCursor, collected>>
  <2>1. doc \in ContractDoc
    BY <1>1 DEF ContractDoc
  <2> HIDE DEF doc
  <2>2. AccountContract(doc, ts)
    BY <1>4 DEF AccountContract
  <2> QED BY <2>1, <2>2, AccountContractType
<1> QED BY <1>2, <1>3, <1>4

\* The callback that issues the token.
LEMMA ExecuteTokenCreateType ==
  ASSUME TypeOK, NEW cid, NEW meta \in Metas, NEW supply \in Nat, NEW ts,
         ExecuteTokenCreate(cid, meta, supply, ts)
  PROVE  TypeOK'
<1>1. cid \in DOMAIN con /\ con[cid].holders \in SUBSET Kids
  BY ContractType DEF ExecuteTokenCreate
<1>2. IsDocs(con', TxIds, ContractDoc)
  BY <1>1, CloseContractType DEF ExecuteTokenCreate
<1> QED BY <1>1, <1>2, CreateTokenType DEF ExecuteTokenCreate

\* The network.
LEMMA NetworkType ==
  ASSUME TypeOK, Network
  PROVE  TypeOK'
BY SizeAssumption DEF TypeOK, IsLogs, Network, Tick, Drop, ledger, StartTime

----------------------------------------------------------------------------
\* The initial state is well typed.
LEMMA InitType == Init => TypeOK
<1> SUFFICES ASSUME Init PROVE TypeOK
  OBVIOUS
<1>1. SumTo(InitBal, NAddr) \in Int
  <2>1. InitBal \in [1..NAddr -> Int]
    BY DataAssumption DEF Addrs
  <2> QED BY <2>1, SumToType, SizeAssumption
<1>2. token \in TokenDoc /\ account \in [Addrs -> AccountDoc] /\ bal \in [Addrs -> Int]
  BY <1>1, DataAssumption DEF Init, TokenDoc, AccountDoc
<1>3. DOMAIN blog = Addrs /\ \A a \in Addrs : IsDocs(blog[a], Stamps, LogDoc)
  BY NoDocsType DEF Init
<1>4. clock \in StartTime..MaxTime
  BY SizeAssumption DEF Init, StartTime
<1>5. holder \subseteq Kids \X Addrs
  BY DataAssumption DEF Init
<1> QED BY <1>2, <1>3, <1>4, <1>5, NoDocsType, SizeAssumption DEF Init, TypeOK

\* The handlers of pays, each with its inputs.
LEMMA PayActions ==
  ASSUME PayNext
  PROVE  \/ \E f \in flight : PayPruneCommit(f)
         \/ \E ts \in Stamps, kid \in Kids, from, to \in Addrs, amount \in Amounts,
              order \in Orders, memo \in Memos : PayNow(kid, from, to, amount, order, memo, ts)
         \/ \E ts \in Stamps, kid \in Kids, from, to \in Addrs, amount \in Amounts,
              order \in Orders, memo \in Memos, d \in Terms :
                PayContract(kid, from, to, amount, order, memo, ts + d, ts)
         \/ \E ts \in Stamps, i \in TxIds : ExecutePay(i, ts)
         \/ \E ts \in Stamps, kid \in Kids, i \in TxIds, amount \in RefundAmounts :
              PayRefund(kid, i, amount, ts)
         \/ \E ts \in Stamps, kid \in Kids, addr \in Addrs, safe \in PruneFlags,
              asked \in Stamps : PayPruneEndorse(kid, addr, safe, asked, ts)
BY DEF PayNext, PayCalls, PayPrunes

\* The handlers of the token, each with its inputs.
LEMMA SupplyActions ==
  ASSUME SupplyNext
  PROVE  \/ \E ts \in Stamps, kid \in Kids, amount \in Amounts :
              TokenMint(kid, amount, ts) \/ TokenBurn(kid, amount, ts)
         \/ \E ts \in Stamps, kid \in Kids, addrs \in SUBSET Addrs, meta \in Metas,
               amount \in Amounts : TokenCreate(kid, addrs, meta, amount, ts)
         \/ \E ts \in Stamps, cid \in TxIds :
              ExecuteTokenMint(cid, ts) \/ ExecuteTokenBurn(cid, ts) \/ CancelSupply(cid, ts)
         \/ \E ts \in Stamps, cid \in TxIds, meta \in Metas, amount \in Amounts :
              ExecuteTokenCreate(cid, meta, amount, ts)
         \/ \E ts \in Stamps, meta \in Metas : TokenUpdate(meta, ts)
<1>1. \A addrs \in CoHolders \cup {{}} : addrs \in SUBSET Addrs
  BY DataAssumption
<1>2. PICK ts \in Stamps :
        \/ \E kid \in Kids, amount \in Amounts :
             \/ TokenMint(kid, amount, ts) \/ TokenBurn(kid, amount, ts)
             \/ \E addrs \in CoHolders \cup {{}}, meta \in Metas :
                  TokenCreate(kid, addrs, meta, amount, ts)
        \/ \E cid \in TxIds :
             \/ ExecuteTokenMint(cid, ts) \/ ExecuteTokenBurn(cid, ts)
             \/ \E meta \in Metas, amount \in Amounts :
                  ExecuteTokenCreate(cid, meta, amount, ts)
             \/ CancelSupply(cid, ts)
        \/ \E meta \in Metas : TokenUpdate(meta, ts)
  BY DEF SupplyNext
<1>3. CASE \E kid \in Kids, amount \in Amounts, addrs \in CoHolders \cup {{}}, meta \in Metas :
             TokenCreate(kid, addrs, meta, amount, ts)
  BY <1>1, <1>3
<1> QED BY <1>2, <1>3

\* Every step keeps the types.
LEMMA NextType == TypeOK /\ [Next]_vars => TypeOK'
<1> SUFFICES ASSUME TypeOK, [Next]_vars PROVE TypeOK'
  OBVIOUS
<1> USE DataAssumption
<1>0. \A t \in Stamps, d \in Terms : t + d \in Nat
  BY DEF Stamps
<1>1. CASE AccountNext
  <2>1. CASE PersonalNext
    BY <2>1, AccountCreateType, SetSuspendedType
       DEF PersonalNext, AccountSuspend, AccountUnsuspend
  <2>2. CASE JointNext
    BY <2>2, JointNextType
  <2> QED BY <1>1, <2>1, <2>2 DEF AccountNext
<1>2. CASE TransferNext
  <2>1. PICK ts \in Stamps :
          \/ \E kid \in Kids, from, to \in Addrs, amount \in Amounts,
                extra \in ExtraSigners, d, e \in Terms :
               \/ TransferNow(kid, from, to, amount, extra, ts + d, ts)
               \/ TransferContract(kid, from, to, amount, extra, ts + d, ts + e, ts)
          \/ \E i \in TxIds : ExecuteTransfer(i, ts) \/ CancelTransfer(i, ts)
          \/ \E kid \in Kids, i \in TxIds : BalancePendingWithdraw(kid, i, ts)
    BY <1>2 DEF TransferNext
  <2> QED BY <1>0, <2>1, TransferNowType, TransferContractType, ExecuteTransferType,
             CancelTransferType, BalancePendingWithdrawType
<1>3. CASE PayNext
  <2>1. Orders \subseteq Texts /\ Memos \subseteq Texts
    BY DEF Texts
  <2> QED BY <1>0, <2>1, <1>3, PayActions, PayNowType, PayContractType, ExecutePayType, PayRefundType,
             PayPruneEndorseType, PayPruneCommitType
<1>4. CASE FeeNext
  BY <1>4, FeePruneEndorseType, FeePruneCommitType DEF FeeNext
<1>5. CASE SupplyNext
  BY <1>5, SupplyActions, TokenMintBurnType, TokenCreateType, ExecuteSupplyType,
     ExecuteTokenCreateType, TokenUpdateType
<1>6. CASE Network
  BY <1>6, NetworkType
<1>7. CASE UNCHANGED vars
  BY <1>7 DEF vars, ledger, TypeOK, IsLogs
<1> QED BY <1>1, <1>2, <1>3, <1>4, <1>5, <1>6, <1>7 DEF Next

\* Every reachable state of the chaincode is well typed, whatever the number
\* of accounts and transactions, the amounts and the fee policies.
THEOREM TypeCorrect == Spec => []TypeOK
<1>1. Init => TypeOK
  BY InitType
<1>2. TypeOK /\ [Next]_vars => TypeOK'
  BY NextType
<1> QED BY <1>1, <1>2, PTL DEF Spec
=============================================================================
