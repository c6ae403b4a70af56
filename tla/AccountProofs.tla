---------------------------- MODULE AccountProofs ----------------------------
(***************************************************************************)
(* Accounts stay whole: the index of holders, the balance documents and    *)
(* the owners of everything that is pending agree with the accounts that   *)
(* exist.  AccountInv is inductive.  Most handlers are quiet: they write   *)
(* balances of accounts that exist and leave the holders alone.            *)
(***************************************************************************)
EXTENDS TypeProofs, FiniteSetTheorems

\* What a quiet step does to accounts, and to what belongs to them.
QuietBalances ==
  \A a \in Addrs : ~Exists(a) => bal'[a] = bal[a] /\ payCursor'[a] = payCursor[a]

QuietDocs ==
  /\ \A i \in DOMAIN pend' :
       (i \in DOMAIN pend /\ pend'[i].account = pend[i].account) \/ Exists(pend'[i].account)
  /\ \A i \in DOMAIN con' : Agreed(con'[i])
  /\ \A f \in flight' : f \in flight \/ Exists(f.account)

QuietHolders ==
  (\A a \in Addrs : account'[a].holders = account[a].holders) /\ UNCHANGED holder

QuietToken ==
  /\ token'.issued = token.issued
  /\ token.issued \/ token'.supply = token.supply

Quiet == QuietBalances /\ QuietDocs /\ QuietHolders /\ QuietToken

\* A quiet step keeps the invariant.
LEMMA QuietKeeps ==
  ASSUME AccountInv, TypeOK', Quiet
  PROVE  AccountInv'
<1>1. \A a \in Addrs : Exists(a)' <=> Exists(a)
  BY DEF Quiet, QuietHolders, Exists
<1>2. AbsentEmpty'
  BY <1>1 DEF Quiet, QuietBalances, AccountInv, AbsentEmpty
<1>3. OwnersExist'
  <2>1. ASSUME NEW i \in DOMAIN pend' PROVE Exists(pend[i].account)'
    <3>1. pend'[i].account \in Addrs
      BY DEF TypeOK, IsDocs, PendingDoc
    <3>2. Exists(pend'[i].account)
      BY DEF Quiet, QuietDocs, AccountInv, OwnersExist
    <3> QED BY <1>1, <3>1, <3>2
  <2>2. ASSUME NEW f \in flight' PROVE Exists(f.account)'
    <3>1. f.account \in Addrs
      BY DEF TypeOK, Flight
    <3>2. Exists(f.account)
      BY DEF Quiet, QuietDocs, AccountInv, OwnersExist
    <3> QED BY <1>1, <3>1, <3>2
  <2> QED BY <2>1, <2>2 DEF OwnersExist
<1>4. ContractsAgreed'
  <2>1. ASSUME NEW i \in DOMAIN con' PROVE Agreed(con[i])'
    <3>1. con'[i].kind \in {"transfer", "pay"} => con'[i].to \in Addrs
      <4>1. con'[i] \in ContractDoc
        BY DEF TypeOK, IsDocs
      <4> QED BY <4>1 DEF ContractDoc
    <3>2. Agreed(con'[i])
      BY DEF Quiet, QuietDocs
    <3> QED BY <1>1, <3>1, <3>2 DEF Agreed
  <2> QED BY <2>1 DEF ContractsAgreed
<1>5. IssuedWithGenesis'
  BY <1>1, DataAssumption DEF Quiet, QuietToken, AccountInv, IssuedWithGenesis
<1>6. HolderIndex' /\ JointKeepsHolders'
  <2>1. Kids \subseteq Addrs
    BY SizeAssumption DEF Kids, Addrs
  <2>2. \A a \in Addrs : account'[a].holders = account[a].holders /\ holder' = holder
    BY DEF Quiet, QuietHolders
  <2>3. HolderIndex'
    BY <2>2 DEF AccountInv, HolderIndex, HasHolder
  <2>4. JointKeepsHolders'
    BY <2>2 DEF AccountInv, JointKeepsHolders, Joint
  <2> QED BY <2>3, <2>4
<1> QED BY <1>2, <1>3, <1>4, <1>5, <1>6 DEF AccountInv

\* A step that writes nothing that belongs to an account.
LEMMA NothingOwned ==
  ASSUME AccountInv,
         UNCHANGED <<bal, payCursor, pend>>, flight' \subseteq flight
  PROVE  /\ QuietBalances
         /\ (\A i \in DOMAIN con' : Agreed(con'[i])) => QuietDocs
BY DEF QuietBalances, QuietDocs

\* Closing a contract changes nothing that was agreed.
LEMMA ClosedAgreed ==
  ASSUME AccountInv, UNCHANGED con \/ \E cid \in DOMAIN con : \E status : CloseContract(cid, status)
  PROVE  \A i \in DOMAIN con' : Agreed(con'[i])
<1>1. CASE UNCHANGED con
  BY <1>1 DEF AccountInv, ContractsAgreed
<1>2. ASSUME NEW cid \in DOMAIN con, NEW status, CloseContract(cid, status)
      PROVE  \A i \in DOMAIN con' : Agreed(con'[i])
  <2>1. con' = [con EXCEPT ![cid].status = status]
    BY <1>2 DEF CloseContract
  <2>2. ASSUME NEW i \in DOMAIN con' PROVE Agreed(con'[i])
    <3>1. i \in DOMAIN con
      BY <2>1
    <3>2. Agreed(con[i]) /\ con[i] \in ContractDoc
      BY <3>1 DEF AccountInv, ContractsAgreed, TypeOK, IsDocs
    <3>3. CASE i = cid
      <4>1. con'[i] = [con[i] EXCEPT !.status = status]
        BY <2>1, <3>1, <3>3
      <4>2. con'[i].kind = con[i].kind
        BY <3>2, <4>1 DEF ContractDoc
      <4>3. con[i].kind \in {"transfer", "pay"} => con'[i].to = con[i].to
        BY <3>2, <4>1 DEF ContractDoc
      <4>4. con[i].kind \in {"account/create", "token/create"} =>
              con'[i].holders = con[i].holders /\ con'[i].signers = con[i].signers
        BY <3>2, <4>1 DEF ContractDoc
      <4>5. con[i].kind = "account/holder/add" =>
              con'[i].holder = con[i].holder /\ con'[i].signers = con[i].signers
        BY <3>2, <4>1 DEF ContractDoc
      <4> QED BY <3>2, <4>2, <4>3, <4>4, <4>5 DEF Agreed
    <3>4. CASE i # cid
      <4>1. con'[i] = con[i]
        BY <2>1, <3>1, <3>4
      <4> QED BY <3>2, <4>1
    <3> QED BY <3>3, <3>4
  <2> QED BY <2>2
<1> QED BY <1>1, <1>2

\* Opening one adds one that is.
LEMMA OpenedAgreed ==
  ASSUME AccountInv, NEW doc, Agreed(doc), OpenContract(doc)
  PROVE  \A i \in DOMAIN con' : Agreed(con'[i])
BY DEF AccountInv, ContractsAgreed, OpenContract, PutDoc

\* What the holders hold.
LEMMA HoldersType ==
  ASSUME TypeOK, NEW a \in Addrs
  PROVE  /\ account[a].holders \subseteq Kids /\ IsFiniteSet(account[a].holders)
         /\ Cardinality(account[a].holders) \in Nat
<1>1. account[a].holders \subseteq Kids
  BY DEF TypeOK, AccountDoc
<1>2. IsFiniteSet(Kids)
  BY FS_Interval, SizeAssumption DEF Kids
<1>3. IsFiniteSet(account[a].holders)
  BY <1>1, <1>2, FS_Subset
<1> QED BY <1>1, <1>3, FS_CardinalityType

----------------------------------------------------------------------------
(* Quiet handlers.                                                         *)

\* What a committed transaction does to the prunes in flight.
LEMMA CommitFlight ==
  ASSUME NEW ts, NEW W, Commit(ts, W)
  PROVE  flight' \subseteq flight
BY DEF Commit

\* transfer, signed by its invoker alone.
LEMMA TransferNowQuiet ==
  ASSUME AccountInv, NEW kid, NEW from \in Addrs, NEW to \in Addrs, NEW amount \in Nat,
         NEW extra, NEW due \in Nat, NEW ts,
         TransferNow(kid, from, to, amount, extra, due, ts)
  PROVE  AccountInv'
<1> DEFINE charge == CalcFee(from, "transfer", amount)
           lock == [type |-> "account", account |-> to, rid |-> from,
                    amount |-> amount, fee |-> 0, due |-> due]
<1>1. TypeOK' /\ TypeOK /\ bal \in [Addrs -> Int]
  BY TransferNowType DEF AccountInv, TypeOK
<1>2. Exists(from) /\ Exists(to)
  BY DEF TransferNow, MayTransfer, MayAct, HasHolder, IsActive, Exists
<1>3. /\ flight' \subseteq flight /\ UNCHANGED <<account, holder, token, payCursor, con>>
  BY CommitFlight DEF TransferNow
<1>4. \/ bal' = Credit(bal, from, -(amount + charge)) /\ pend' = PutDoc(pend, TxId, lock)
      \/ bal' = Credit(Credit(bal, from, -(amount + charge)), to, amount) /\ pend' = pend
  BY DEF TransferNow, Receive
<1> HIDE DEF charge
<1>5. QuietBalances
  <2>1. ASSUME NEW a \in Addrs, ~Exists(a) PROVE bal'[a] = bal[a]
    <3>1. a # from /\ a # to
      BY <1>2, <2>1
    <3> QED BY <1>1, <1>4, <3>1 DEF Credit
  <2> QED BY <1>3, <2>1 DEF QuietBalances
<1>6. QuietDocs
  <2>1. lock.account = to
    OBVIOUS
  <2> HIDE DEF lock
  <2>2. \A i \in DOMAIN pend' :
          (i \in DOMAIN pend /\ pend'[i].account = pend[i].account) \/ Exists(pend'[i].account)
    BY <1>2, <1>4, <2>1 DEF PutDoc
  <2> QED BY <1>3, <2>2, ClosedAgreed DEF QuietDocs
<1>7. QuietHolders /\ QuietToken
  BY <1>3 DEF QuietHolders, QuietToken
<1> QED BY <1>1, <1>5, <1>6, <1>7, QuietKeeps DEF Quiet

\* A deposit for a contract.
LEMMA DepositQuiet ==
  ASSUME AccountInv, NEW a \in Addrs, Exists(a), NEW amount, NEW charge, NEW expiry, NEW ts,
         Deposit(a, amount, charge, expiry, ts), UNCHANGED payCursor,
         flight' \subseteq flight, \A i \in DOMAIN con' : Agreed(con'[i])
  PROVE  QuietBalances /\ QuietDocs
<1> DEFINE doc == [type |-> "contract", account |-> a, rid |-> TxId,
                   amount |-> amount, fee |-> charge, due |-> expiry]
<1>1. /\ pend' = PutDoc(pend, TxId, doc) /\ doc.account = a
      /\ bal' = Credit(bal, a, -(amount + charge))
  BY DEF Deposit
<1>2. bal \in [Addrs -> Int]
  BY DEF AccountInv, TypeOK
<1> HIDE DEF doc
<1>3. \A b \in Addrs : ~Exists(b) => bal'[b] = bal[b]
  BY <1>1, <1>2 DEF Credit
<1>4. \A i \in DOMAIN pend' :
        (i \in DOMAIN pend /\ pend'[i].account = pend[i].account) \/ Exists(pend'[i].account)
  BY <1>1 DEF PutDoc
<1> QED BY <1>3, <1>4 DEF QuietBalances, QuietDocs

\* transfer, to be signed by others.
LEMMA TransferContractQuiet ==
  ASSUME AccountInv, NEW kid, NEW from \in Addrs, NEW to \in Addrs, NEW amount \in Nat,
         NEW extra, NEW due \in Nat, NEW expiry \in Nat, NEW ts,
         TransferContract(kid, from, to, amount, extra, due, expiry, ts)
  PROVE  AccountInv'
<1> DEFINE doc == [kind |-> "transfer", status |-> "open", from |-> from, to |-> to,
                   amount |-> amount, due |-> IF due > ts THEN due ELSE 0,
                   order |-> "", memo |-> ""]
<1>1. TypeOK'
  BY TransferContractType DEF AccountInv
<1>2. Exists(from) /\ Exists(to)
  BY DEF TransferContract, MayTransfer, MayAct, HasHolder, IsActive, Exists
<1>3. Agreed(doc)
  BY <1>2 DEF Agreed
<1>4. /\ OpenContract(doc) /\ flight' \subseteq flight
      /\ Deposit(from, amount, CalcFee(from, "transfer", amount), expiry, ts)
      /\ UNCHANGED <<account, holder, token, payCursor>>
  BY CommitFlight DEF TransferContract
<1> HIDE DEF doc
<1>5. QuietBalances /\ QuietDocs
  BY <1>2, <1>3, <1>4, OpenedAgreed, DepositQuiet
<1>6. QuietHolders /\ QuietToken
  BY <1>4 DEF QuietHolders, QuietToken
<1> QED BY <1>1, <1>5, <1>6, QuietKeeps DEF Quiet

\* A pending balance that goes back to its owner.
LEMMA WithdrawQuiet ==
  ASSUME AccountInv, NEW i \in DOMAIN pend, NEW ts, Withdraw(i, ts), UNCHANGED payCursor,
         flight' \subseteq flight, \A c \in DOMAIN con' : Agreed(con'[c])
  PROVE  QuietBalances /\ QuietDocs
<1>1. /\ bal' = Credit(bal, pend[i].account, pend[i].amount + pend[i].fee)
      /\ pend' = DelDoc(pend, i)
  BY DEF Withdraw
<1>2. bal \in [Addrs -> Int] /\ Exists(pend[i].account)
  BY DEF AccountInv, TypeOK, OwnersExist
<1>3. \A b \in Addrs : ~Exists(b) => bal'[b] = bal[b]
  BY <1>1, <1>2 DEF Credit
<1>4. \A j \in DOMAIN pend' : j \in DOMAIN pend /\ pend'[j] = pend[j]
  BY <1>1 DEF DelDoc
<1> QED BY <1>3, <1>4 DEF QuietBalances, QuietDocs

\* The execution of a transfer contract.
LEMMA ExecuteTransferQuiet ==
  ASSUME AccountInv, NEW cid, NEW ts, ExecuteTransfer(cid, ts)
  PROVE  AccountInv'
<1> DEFINE lock == [type |-> "account", account |-> con[cid].to, rid |-> pend[cid].account,
                    amount |-> pend[cid].amount, fee |-> 0, due |-> con[cid].due]
           rest == DelDoc(pend, cid)
<1>1. TypeOK' /\ TypeOK /\ bal \in [Addrs -> Int]
  BY ExecuteTransferType DEF AccountInv, TypeOK
<1>2. /\ cid \in DOMAIN con /\ CloseContract(cid, "executed") /\ con[cid].kind = "transfer"
      /\ flight' \subseteq flight /\ UNCHANGED <<account, holder, token, payCursor>>
  BY CommitFlight DEF ExecuteTransfer
<1>3. Exists(con[cid].to)
  BY <1>2 DEF AccountInv, ContractsAgreed, Agreed
<1>4. \/ bal' = bal /\ pend' = PutDoc(rest, TxId, lock)
      \/ bal' = Credit(bal, con[cid].to, pend[cid].amount) /\ pend' = rest
  BY DEF ExecuteTransfer, Receive
<1>5. QuietBalances
  <2>1. ASSUME NEW a \in Addrs, ~Exists(a) PROVE bal'[a] = bal[a]
    BY <1>1, <1>3, <1>4, <2>1 DEF Credit
  <2> QED BY <1>2, <2>1 DEF QuietBalances
<1>6. QuietDocs
  <2>1. lock.account = con[cid].to
    OBVIOUS
  <2> HIDE DEF lock
  <2>2. \A i \in DOMAIN pend' :
          (i \in DOMAIN pend /\ pend'[i].account = pend[i].account) \/ Exists(pend'[i].account)
    BY <1>3, <1>4, <2>1 DEF PutDoc, DelDoc
  <2> QED BY <1>2, <2>2, ClosedAgreed DEF QuietDocs
<1>7. QuietHolders /\ QuietToken
  BY <1>2 DEF QuietHolders, QuietToken
<1> QED BY <1>1, <1>5, <1>6, <1>7, QuietKeeps DEF Quiet

\* The cancellation of a transfer or pay contract.
LEMMA CancelTransferQuiet ==
  ASSUME AccountInv, NEW cid, NEW ts, CancelTransfer(cid, ts)
  PROVE  AccountInv'
<1>1. TypeOK'
  BY CancelTransferType DEF AccountInv
<1>2. /\ cid \in DOMAIN con /\ cid \in DOMAIN pend
      /\ CloseContract(cid, "cancelled") /\ Withdraw(cid, ts)
      /\ flight' \subseteq flight /\ UNCHANGED <<account, holder, token, payCursor>>
  BY CommitFlight DEF CancelTransfer, OwnsPending
<1>3. QuietBalances /\ QuietDocs
  BY <1>2, ClosedAgreed, WithdrawQuiet
<1>4. QuietHolders /\ QuietToken
  BY <1>2 DEF QuietHolders, QuietToken
<1> QED BY <1>1, <1>3, <1>4, QuietKeeps DEF Quiet

\* The withdrawal of a pending balance.
LEMMA BalancePendingWithdrawQuiet ==
  ASSUME AccountInv, NEW kid, NEW i, NEW ts, BalancePendingWithdraw(kid, i, ts)
  PROVE  AccountInv'
<1>1. TypeOK'
  BY BalancePendingWithdrawType DEF AccountInv
<1>2. /\ i \in DOMAIN pend /\ Withdraw(i, ts)
      /\ flight' \subseteq flight /\ UNCHANGED <<account, holder, token, payCursor, con>>
  BY CommitFlight DEF BalancePendingWithdraw
<1>3. QuietBalances /\ QuietDocs
  BY <1>2, ClosedAgreed, WithdrawQuiet
<1>4. QuietHolders /\ QuietToken
  BY <1>2 DEF QuietHolders, QuietToken
<1> QED BY <1>1, <1>3, <1>4, QuietKeeps DEF Quiet

\* A step that writes the balance of one account that exists and no pending balance.
LEMMA OneBalanceQuiet ==
  ASSUME AccountInv, TypeOK', NEW a, Exists(a),
         \A b \in Addrs : b # a => bal'[b] = bal[b] /\ payCursor'[b] = payCursor[b],
         UNCHANGED <<account, holder, token, pend>>,
         \A f \in flight' : f \in flight \/ Exists(f.account),
         UNCHANGED con \/ \E cid \in DOMAIN con : \E status : CloseContract(cid, status)
  PROVE  AccountInv'
<1>1. QuietBalances
  BY DEF QuietBalances
<1>2. QuietDocs
  BY ClosedAgreed DEF QuietDocs
<1>3. QuietHolders /\ QuietToken
  BY DEF QuietHolders, QuietToken
<1> QED BY <1>1, <1>2, <1>3, QuietKeeps DEF Quiet

\* pay, signed by its invoker alone.
LEMMA PayNowQuiet ==
  ASSUME AccountInv, NEW kid, NEW from \in Addrs, NEW to \in Addrs, NEW amount \in Nat,
         NEW order \in Texts, NEW memo \in Texts, NEW ts,
         PayNow(kid, from, to, amount, order, memo, ts)
  PROVE  AccountInv'
<1>1. TypeOK' /\ bal \in [Addrs -> Int]
  BY PayNowType DEF AccountInv, TypeOK
<1>2. Exists(from)
  BY DEF PayNow, MayPay, MayAct, HasHolder, Exists
<1>3. /\ bal' = Credit(bal, from, -amount) /\ flight' \subseteq flight
      /\ UNCHANGED <<account, holder, token, payCursor, pend, con>>
  BY CommitFlight DEF PayNow
<1>4. \A b \in Addrs : b # from => bal'[b] = bal[b]
  BY <1>1, <1>3 DEF Credit
<1> QED BY <1>1, <1>2, <1>3, <1>4, OneBalanceQuiet

\* pay, to be signed by others.
LEMMA PayContractQuiet ==
  ASSUME AccountInv, NEW kid, NEW from \in Addrs, NEW to \in Addrs, NEW amount \in Nat,
         NEW order \in Texts, NEW memo \in Texts, NEW expiry \in Nat, NEW ts,
         PayContract(kid, from, to, amount, order, memo, expiry, ts)
  PROVE  AccountInv'
<1> DEFINE doc == [kind |-> "pay", status |-> "open", from |-> from, to |-> to,
                   amount |-> amount, due |-> 0, order |-> order, memo |-> memo]
<1>1. TypeOK'
  BY PayContractType DEF AccountInv
<1>2. Exists(from) /\ Exists(to)
  BY DEF PayContract, MayPay, MayAct, HasHolder, IsActive, Exists
<1>3. Agreed(doc)
  BY <1>2 DEF Agreed
<1>4. /\ OpenContract(doc) /\ flight' \subseteq flight
      /\ Deposit(from, amount, 0, expiry, ts)
      /\ UNCHANGED <<account, holder, token, payCursor>>
  BY CommitFlight DEF PayContract
<1> HIDE DEF doc
<1>5. QuietBalances /\ QuietDocs
  BY <1>2, <1>3, <1>4, OpenedAgreed, DepositQuiet
<1>6. QuietHolders /\ QuietToken
  BY <1>4 DEF QuietHolders, QuietToken
<1> QED BY <1>1, <1>5, <1>6, QuietKeeps DEF Quiet

\* The execution of a pay contract.
LEMMA ExecutePayQuiet ==
  ASSUME AccountInv, NEW cid, NEW ts, ExecutePay(cid, ts)
  PROVE  AccountInv'
<1>1. TypeOK'
  BY ExecutePayType DEF AccountInv
<1>2. /\ cid \in DOMAIN con /\ CloseContract(cid, "executed") /\ flight' \subseteq flight
      /\ pend' = DelDoc(pend, cid)
      /\ UNCHANGED <<account, holder, token, bal, payCursor>>
  BY CommitFlight DEF ExecutePay, PayPendingBalance
<1>3. \A i \in DOMAIN pend' : i \in DOMAIN pend /\ pend'[i] = pend[i]
  BY <1>2 DEF DelDoc
<1>4. QuietBalances /\ QuietDocs
  BY <1>2, <1>3, ClosedAgreed DEF QuietBalances, QuietDocs
<1>5. QuietHolders /\ QuietToken
  BY <1>2 DEF QuietHolders, QuietToken
<1> QED BY <1>1, <1>4, <1>5, QuietKeeps DEF Quiet

\* A refund.
LEMMA PayRefundQuiet ==
  ASSUME AccountInv, NEW kid, NEW i, NEW amount \in Nat, NEW ts, PayRefund(kid, i, amount, ts)
  PROVE  AccountInv'
<1>1. TypeOK' /\ bal \in [Addrs -> Int]
  BY PayRefundType DEF AccountInv, TypeOK
<1>2. Exists(pay[i].from)
  BY DEF PayRefund, MayRefund, IsActive
<1>3. /\ bal' = Credit(bal, pay[i].from, amount) /\ flight' \subseteq flight
      /\ UNCHANGED <<account, holder, token, payCursor, pend, con>>
  BY CommitFlight DEF PayRefund
<1>4. \A b \in Addrs : b # pay[i].from => bal'[b] = bal[b]
  BY <1>1, <1>3 DEF Credit
<1> QED BY <1>1, <1>2, <1>3, <1>4, OneBalanceQuiet

\* The endorsement of a prune, of pays or of fees.
LEMMA EndorseQuiet ==
  ASSUME AccountInv, TypeOK', NEW f, Exists(f.account), flight' = flight \cup {f},
         UNCHANGED <<clock, ntx, stamps, ledger>>
  PROVE  AccountInv'
<1>1. /\ UNCHANGED <<account, holder, token, bal, payCursor, pend, con>>
      /\ \A g \in flight' : g \in flight \/ Exists(g.account)
  BY DEF ledger
<1> QED BY <1>1, OneBalanceQuiet

\* payPrune endorses for an account that its invoker holds.
LEMMA PayPruneEndorseQuiet ==
  ASSUME AccountInv, NEW kid, NEW addr \in Addrs, NEW safe, NEW asked, NEW ts,
         PayPruneEndorse(kid, addr, safe, asked, ts)
  PROVE  AccountInv'
<1>1. TypeOK'
  BY PayPruneEndorseType DEF AccountInv
<1>2. Exists(addr)
  BY DEF PayPruneEndorse, MayAct, HasHolder, Exists
<1>3. \E f : f.account = addr /\ flight' = flight \cup {f}
  BY DEF PayPruneEndorse
<1>4. UNCHANGED <<clock, ntx, stamps, ledger>>
  BY DEF PayPruneEndorse
<1> QED BY <1>1, <1>2, <1>3, <1>4, EndorseQuiet

\* feePrune endorses for the target account, which its invoker holds.
LEMMA FeePruneEndorseQuiet ==
  ASSUME AccountInv, NEW kid, NEW safe, NEW asked, NEW ts,
         FeePruneEndorse(kid, safe, asked, ts)
  PROVE  AccountInv'
<1>1. TypeOK'
  BY FeePruneEndorseType DEF AccountInv
<1>2. Exists(token.policy.target)
  BY DEF FeePruneEndorse, HasHolder, Exists
<1>3. \E f : f.account = token.policy.target /\ flight' = flight \cup {f}
  BY DEF FeePruneEndorse
<1>4. UNCHANGED <<clock, ntx, stamps, ledger>>
  BY DEF FeePruneEndorse
<1> QED BY <1>1, <1>2, <1>3, <1>4, EndorseQuiet

\* Their commits.
LEMMA PruneCommitQuiet ==
  ASSUME AccountInv, NEW f, PayPruneCommit(f) \/ FeePruneCommit(f)
  PROVE  AccountInv'
<1>1. TypeOK' /\ bal \in [Addrs -> Int]
  BY PayPruneCommitType, FeePruneCommitType DEF AccountInv, TypeOK
<1>2. Exists(f.account)
  BY DEF PayPruneCommit, FeePruneCommit, AccountInv, OwnersExist
<1>3. /\ flight' \subseteq flight
      /\ UNCHANGED <<account, holder, token, pend, con>>
  BY CommitFlight DEF PayPruneCommit, FeePruneCommit
<1>4. \A b \in Addrs : b # f.account => bal'[b] = bal[b] /\ payCursor'[b] = payCursor[b]
  BY <1>1 DEF PayPruneCommit, FeePruneCommit, AccountInv, TypeOK
<1> QED BY <1>1, <1>2, <1>3, <1>4, OneBalanceQuiet

\* Minting and burning, of a token that was issued.
LEMMA MintBurnQuiet ==
  ASSUME AccountInv, TypeOK', token.issued, NEW amount \in Nat, NEW ts,
         Mint(amount, ts) \/ Burn(amount, ts),
         UNCHANGED <<account, holder, payCursor, pend>>, flight' \subseteq flight,
         UNCHANGED con \/ \E cid \in DOMAIN con : \E status : CloseContract(cid, status)
  PROVE  AccountInv'
<1>1. Exists(Genesis) /\ bal \in [Addrs -> Int] /\ token \in TokenDoc
  BY DEF AccountInv, IssuedWithGenesis, TypeOK
<1>2. UNCHANGED <<bal, token>> \/ \E diff : Supply(diff, ts)
  BY DEF Mint, Burn
<1>3. QuietBalances
  BY <1>1, <1>2 DEF QuietBalances, Supply, Credit
<1>4. QuietDocs
  BY ClosedAgreed DEF QuietDocs
<1>5. QuietHolders
  BY DEF QuietHolders
<1>6. QuietToken
  BY <1>1, <1>2 DEF QuietToken, Supply, TokenDoc
<1> QED BY <1>3, <1>4, <1>5, <1>6, QuietKeeps DEF Quiet

\* A contract that concerns no account yet.
LEMMA ContractQuiet ==
  ASSUME AccountInv, TypeOK', NEW doc, Agreed(doc), OpenContract(doc), flight' \subseteq flight,
         UNCHANGED <<account, holder, token, bal, payCursor, pend>>
  PROVE  AccountInv'
<1>1. QuietBalances /\ QuietDocs
  BY OpenedAgreed DEF QuietBalances, QuietDocs
<1>2. QuietHolders /\ QuietToken
  BY DEF QuietHolders, QuietToken
<1> QED BY <1>1, <1>2, QuietKeeps DEF Quiet

\* A contract that is cancelled.
LEMMA CancelQuiet ==
  ASSUME AccountInv, TypeOK', NEW cid \in DOMAIN con, CloseContract(cid, "cancelled"),
         flight' \subseteq flight,
         UNCHANGED <<account, holder, token, bal, payCursor, pend>>
  PROVE  AccountInv'
<1>1. QuietBalances /\ QuietDocs
  BY ClosedAgreed DEF QuietBalances, QuietDocs
<1>2. QuietHolders /\ QuietToken
  BY DEF QuietHolders, QuietToken
<1> QED BY <1>1, <1>2, QuietKeeps DEF Quiet

\* tokenMint and tokenBurn.
LEMMA TokenMintBurnQuiet ==
  ASSUME AccountInv, NEW kid, NEW amount \in Nat, NEW ts,
         TokenMint(kid, amount, ts) \/ TokenBurn(kid, amount, ts)
  PROVE  AccountInv'
<1>1. TypeOK'
  BY TokenMintBurnType DEF AccountInv
<1>2. CASE \E kind \in {"token/mint", "token/burn"} : SupplyContract(kind, amount, ts)
  <2>1. PICK kind \in {"token/mint", "token/burn"} : SupplyContract(kind, amount, ts)
    BY <1>2
  <2> DEFINE doc == [kind |-> kind, status |-> "open", amount |-> amount]
  <2>2. Agreed(doc)
    BY DEF Agreed
  <2>3. /\ OpenContract(doc) /\ flight' \subseteq flight
        /\ UNCHANGED <<account, holder, token, bal, payCursor, pend>>
    BY <2>1, CommitFlight DEF SupplyContract
  <2> HIDE DEF doc
  <2> QED BY <1>1, <2>2, <2>3, ContractQuiet
<1>3. CASE /\ Mint(amount, ts) \/ Burn(amount, ts)
           /\ (\E written : Commit(ts, written)) /\ token.issued
           /\ UNCHANGED <<account, holder, payCursor, pend, con>>
  BY <1>1, <1>3, CommitFlight, MintBurnQuiet
<1> QED BY <1>2, <1>3 DEF TokenMint, TokenBurn

\* The callbacks of their contracts.
LEMMA ExecuteSupplyQuiet ==
  ASSUME AccountInv, NEW cid, NEW ts,
         \/ ExecuteTokenMint(cid, ts) \/ ExecuteTokenBurn(cid, ts) \/ CancelSupply(cid, ts)
  PROVE  AccountInv'
<1>1. TypeOK' /\ TypeOK
  BY ExecuteSupplyType DEF AccountInv
<1>2. CASE ExecuteTokenMint(cid, ts) \/ ExecuteTokenBurn(cid, ts)
  <2>1. /\ cid \in DOMAIN con /\ CloseContract(cid, "executed")
        /\ con[cid].kind \in {"token/mint", "token/burn"} /\ token.issued
        /\ Mint(con[cid].amount, ts) \/ Burn(con[cid].amount, ts)
        /\ UNCHANGED <<account, holder, payCursor, pend>> /\ flight' \subseteq flight
    BY <1>2, CommitFlight DEF ExecuteTokenMint, ExecuteTokenBurn
  <2>2. con[cid].amount \in Nat
    BY <1>1, <2>1, ContractType
  <2> QED BY <1>1, <2>1, <2>2, MintBurnQuiet
<1>3. CASE CancelSupply(cid, ts)
  BY <1>1, <1>3, CommitFlight, CancelQuiet DEF CancelSupply
<1> QED BY <1>2, <1>3

\* tokenUpdate.
LEMMA TokenUpdateQuiet ==
  ASSUME AccountInv, NEW meta \in Metas, NEW ts, TokenUpdate(meta, ts)
  PROVE  AccountInv'
<1>1. TypeOK' /\ token \in TokenDoc
  BY TokenUpdateType DEF AccountInv, TypeOK
<1>2. /\ flight' \subseteq flight /\ token' = [token EXCEPT !.policy = UpdatedPolicy(meta)]
      /\ UNCHANGED <<account, holder, bal, payCursor, pend, con>>
  BY CommitFlight DEF TokenUpdate
<1>3. QuietBalances /\ QuietDocs
  BY <1>2, ClosedAgreed DEF QuietBalances, QuietDocs
<1>4. QuietHolders /\ QuietToken
  BY <1>1, <1>2 DEF QuietHolders, QuietToken, TokenDoc
<1> QED BY <1>1, <1>3, <1>4, QuietKeeps DEF Quiet

\* accountSuspend and accountUnsuspend leave the holders alone.
LEMMA SetSuspendedQuiet ==
  ASSUME AccountInv, NEW kid \in Kids, NEW suspended \in BOOLEAN, NEW ts,
         SetSuspended(kid, suspended, ts)
  PROVE  AccountInv'
<1>1. TypeOK' /\ account \in [Addrs -> AccountDoc]
  BY SetSuspendedType DEF AccountInv, TypeOK
<1>2. /\ flight' \subseteq flight /\ account' = [account EXCEPT ![kid].suspended = suspended]
      /\ UNCHANGED <<holder, token, bal, payCursor, pend, con>>
  BY CommitFlight DEF SetSuspended
<1>3. QuietBalances /\ QuietDocs
  BY <1>2, ClosedAgreed DEF QuietBalances, QuietDocs
<1>4. QuietHolders /\ QuietToken
  BY <1>1, <1>2 DEF QuietHolders, QuietToken, AccountDoc
<1> QED BY <1>1, <1>3, <1>4, QuietKeeps DEF Quiet

\* The clock and the prunes that are lost.
LEMMA NetworkQuiet ==
  ASSUME AccountInv, Network \/ UNCHANGED vars
  PROVE  AccountInv'
<1>1. TypeOK'
  BY NextType DEF AccountInv, Next
<1>2. UNCHANGED <<account, holder, token, bal, payCursor, pend, con>> /\ flight' \subseteq flight
  BY DEF Network, Tick, Drop, vars, ledger
<1>3. QuietBalances /\ QuietDocs
  BY <1>2, ClosedAgreed DEF QuietBalances, QuietDocs
<1>4. QuietHolders /\ QuietToken
  BY <1>2 DEF QuietHolders, QuietToken
<1> QED BY <1>1, <1>3, <1>4, QuietKeeps DEF Quiet

\* The contracts by which joint accounts are created and changed.
LEMMA AccountContractsQuiet ==
  ASSUME AccountInv, NEW kid \in Kids, NEW ts,
         \/ \E addrs \in CoHolders : AccountCreateJoint(kid, addrs, ts)
         \/ \E addr \in Addrs, other \in Kids :
              \/ AccountHolderAdd(kid, addr, other, ts)
              \/ AccountHolderRemove(kid, addr, other, ts)
  PROVE  AccountInv'
<1>1. TypeOK'
  BY AccountContractsType DEF AccountInv
<1>2. \E doc : Agreed(doc) /\ AccountContract(doc, ts)
  <2>1. CASE \E addrs \in CoHolders : AccountCreateJoint(kid, addrs, ts)
    <3>1. PICK addrs \in CoHolders : AccountCreateJoint(kid, addrs, ts)
      BY <2>1
    <3> DEFINE holders == {kid} \cup SignableIDs(addrs)
               doc == [kind |-> "account/create", status |-> "open",
                       holders |-> holders, signers |-> holders]
    <3>2. AccountContract(doc, ts) /\ Cardinality(holders) >= 2
      BY <3>1 DEF AccountCreateJoint
    <3>3. holders # {}
      OBVIOUS
    <3> HIDE DEF holders
    <3>4. Agreed(doc)
      BY <3>2, <3>3 DEF Agreed
    <3> QED BY <3>2, <3>4
  <2>2. CASE \E addr \in Addrs, other \in Kids : AccountHolderAdd(kid, addr, other, ts)
    <3>1. PICK addr \in Addrs, other \in Kids : AccountHolderAdd(kid, addr, other, ts)
      BY <2>2
    <3> DEFINE doc == [kind |-> "account/holder/add", status |-> "open", account |-> addr,
                       holder |-> other, signers |-> HolderSigners(addr, other)]
    <3>2. AccountContract(doc, ts)
      BY <3>1 DEF AccountHolderAdd
    <3>3. Agreed(doc)
      BY DEF Agreed, HolderSigners
    <3> QED BY <3>2, <3>3
  <2>3. CASE \E addr \in Addrs, other \in Kids : AccountHolderRemove(kid, addr, other, ts)
    <3>1. PICK addr \in Addrs, other \in Kids : AccountHolderRemove(kid, addr, other, ts)
      BY <2>3
    <3> DEFINE doc == [kind |-> "account/holder/remove", status |-> "open", account |-> addr,
                       holder |-> other, signers |-> account[addr].holders \ {other}]
    <3>2. AccountContract(doc, ts)
      BY <3>1 DEF AccountHolderRemove
    <3>3. Agreed(doc)
      BY DEF Agreed
    <3> QED BY <3>2, <3>3
  <2> QED BY <2>1, <2>2, <2>3
<1>3. PICK doc : Agreed(doc) /\ AccountContract(doc, ts)
  BY <1>2
<1>4. /\ OpenContract(doc) /\ flight' \subseteq flight
      /\ UNCHANGED <<account, holder, token, bal, payCursor, pend>>
  BY <1>3, CommitFlight DEF AccountContract
<1> QED BY <1>1, <1>3, <1>4, ContractQuiet

----------------------------------------------------------------------------
(* Handlers that create an account or change its holders.                  *)

\* No account vanishes, so whoever owned something still does.
LEMMA OwnersKept ==
  ASSUME AccountInv, TypeOK', \A a \in Addrs : Exists(a) => Exists(a)',
         UNCHANGED pend, flight' \subseteq flight,
         \A i \in DOMAIN con' : Agreed(con'[i])
  PROVE  OwnersExist' /\ ContractsAgreed'
<1>1. OwnersExist'
  <2>1. ASSUME NEW i \in DOMAIN pend' PROVE Exists(pend[i].account)'
    <3>1. pend'[i].account \in Addrs
      BY DEF TypeOK, IsDocs, PendingDoc
    <3>2. Exists(pend'[i].account)
      BY DEF AccountInv, OwnersExist
    <3> QED BY <3>1, <3>2
  <2>2. ASSUME NEW f \in flight' PROVE Exists(f.account)'
    <3>1. f.account \in Addrs
      BY DEF TypeOK, Flight
    <3>2. Exists(f.account)
      BY DEF AccountInv, OwnersExist
    <3> QED BY <3>1, <3>2
  <2> QED BY <2>1, <2>2 DEF OwnersExist
<1>2. ContractsAgreed'
  <2>1. ASSUME NEW i \in DOMAIN con' PROVE Agreed(con[i])'
    <3>1. con'[i].kind \in {"transfer", "pay"} => con'[i].to \in Addrs
      <4>1. con'[i] \in ContractDoc
        BY DEF TypeOK, IsDocs
      <4> QED BY <4>1 DEF ContractDoc
    <3>2. Agreed(con'[i])
      OBVIOUS
    <3> QED BY <3>1, <3>2 DEF Agreed
  <2> QED BY <2>1 DEF ContractsAgreed
<1> QED BY <1>1, <1>2

\* Creating an account.
LEMMA CreateKeeps ==
  ASSUME AccountInv, TypeOK', NEW addr \in Addrs, NEW holders \in SUBSET Kids, NEW amount,
         CreateAccount(addr, holders, amount), holders # {},
         addr \in Joint \ {Genesis} => Cardinality(holders) # 1,
         UNCHANGED pend, flight' \subseteq flight,
         \A i \in DOMAIN con' : Agreed(con'[i]), IssuedWithGenesis'
  PROVE  AccountInv'
<1>1. /\ ~Exists(addr) /\ account \in [Addrs -> AccountDoc]
      /\ account' = [account EXCEPT ![addr] = [holders |-> holders, suspended |-> FALSE]]
      /\ holder' = holder \cup (holders \X {addr})
      /\ \A a \in Addrs : a # addr => bal'[a] = bal[a] /\ payCursor'[a] = payCursor[a]
  BY DEF CreateAccount, AccountInv, TypeOK
<1>2. /\ account'[addr].holders = holders
      /\ \A a \in Addrs : a # addr => account'[a].holders = account[a].holders
  BY <1>1
<1>3. \A a \in Addrs : Exists(a) => Exists(a)'
  BY <1>1, <1>2 DEF Exists
<1>4. OwnersExist' /\ ContractsAgreed'
  BY <1>3, OwnersKept
<1>5. AbsentEmpty'
  BY <1>1, <1>2 DEF AccountInv, AbsentEmpty, Exists
<1>6. HolderIndex'
  <2>1. ASSUME NEW k \in Kids, NEW a \in Addrs
        PROVE  <<k, a>> \in holder' <=> k \in account'[a].holders
    <3>1. <<k, a>> \in holder <=> k \in account[a].holders
      BY DEF AccountInv, HolderIndex, HasHolder
    <3>2. CASE a = addr
      BY <1>1, <1>2, <3>1, <3>2 DEF Exists
    <3>3. CASE a # addr
      BY <1>1, <1>2, <3>1, <3>3
    <3> QED BY <3>2, <3>3
  <2> QED BY <2>1 DEF HolderIndex, HasHolder
<1>7. JointKeepsHolders'
  BY <1>2 DEF AccountInv, JointKeepsHolders, Joint
<1> QED BY <1>4, <1>5, <1>6, <1>7 DEF AccountInv

\* account/create of a personal account.
LEMMA AccountCreateKeeps ==
  ASSUME AccountInv, NEW kid \in Kids, NEW ts, AccountCreate(kid, ts)
  PROVE  AccountInv'
<1>1. TypeOK'
  BY AccountCreateType DEF AccountInv
<1>2. kid \in Addrs /\ kid \notin Joint /\ kid # Genesis /\ Genesis \in Addrs
  BY SizeAssumption, DataAssumption DEF Kids, Addrs, Joint
<1>3. /\ CreateAccount(kid, {kid}, 0) /\ flight' \subseteq flight
      /\ UNCHANGED <<token, pend, con>>
  BY CommitFlight DEF AccountCreate
<1>4. IssuedWithGenesis'
  BY <1>2, <1>3 DEF CreateAccount, AccountInv, IssuedWithGenesis, Exists, TypeOK
<1>5. {kid} \in SUBSET Kids /\ {kid} # {}
  OBVIOUS
<1> QED BY <1>1, <1>2, <1>3, <1>4, <1>5, ClosedAgreed, CreateKeeps

\* The callback that creates a joint account.
LEMMA ExecuteAccountCreateKeeps ==
  ASSUME AccountInv, NEW cid, NEW addr \in Joint \ {Genesis}, NEW ts,
         ExecuteAccountCreate(cid, addr, ts)
  PROVE  AccountInv'
<1>1. addr \in Addrs /\ Genesis \in Addrs
  BY DataAssumption DEF Joint
<1>2. TypeOK' /\ TypeOK
  BY <1>1, ExecuteAccountType DEF AccountInv
<1>3. /\ cid \in DOMAIN con /\ con[cid].kind = "account/create"
      /\ CloseContract(cid, "executed") /\ CreateAccount(addr, con[cid].holders, 0)
      /\ flight' \subseteq flight /\ UNCHANGED <<token, pend>>
  BY CommitFlight DEF ExecuteAccountCreate
<1>4. con[cid].holders \in SUBSET Kids
  BY <1>2, <1>3, ContractType
<1>5. con[cid].holders # {} /\ Cardinality(con[cid].holders) # 1
  BY <1>3 DEF AccountInv, ContractsAgreed, Agreed
<1>6. IssuedWithGenesis'
  BY <1>1, <1>3 DEF CreateAccount, AccountInv, IssuedWithGenesis, Exists, TypeOK
<1> QED BY <1>1, <1>2, <1>3, <1>4, <1>5, <1>6, ClosedAgreed, CreateKeeps

\* The genesis account and the token.
LEMMA CreateTokenKeeps ==
  ASSUME AccountInv, TypeOK', NEW holders \in SUBSET Kids, holders # {}, NEW meta, NEW supply,
         NEW ts, CreateToken(holders, meta, supply, ts),
         \A i \in DOMAIN con' : Agreed(con'[i])
  PROVE  AccountInv'
<1>1. Genesis \in Addrs
  BY DataAssumption
<1>2. /\ CreateAccount(Genesis, holders, supply) /\ flight' \subseteq flight /\ UNCHANGED pend
      /\ token'.issued
  BY CommitFlight DEF CreateToken
<1>3. IssuedWithGenesis'
  BY <1>1, <1>2 DEF CreateAccount, AccountInv, IssuedWithGenesis, Exists, TypeOK
<1> QED BY <1>1, <1>2, <1>3, CreateKeeps

\* token/create.
LEMMA TokenCreateKeeps ==
  ASSUME AccountInv, NEW kid \in Kids, NEW addrs \in SUBSET Addrs, NEW meta \in Metas,
         NEW supply \in Nat, NEW ts, TokenCreate(kid, addrs, meta, supply, ts)
  PROVE  AccountInv'
<1> DEFINE holders == {kid} \cup SignableIDs(addrs)
           doc == [kind |-> "token/create", status |-> "open",
                   holders |-> holders, signers |-> holders]
<1>1. TypeOK' /\ TypeOK
  BY TokenCreateType DEF AccountInv
<1>2. holders \in SUBSET Kids /\ holders # {}
  BY <1>1, SignableType
<1>3. \/ CreateToken(holders, meta, supply, ts) /\ UNCHANGED con
      \/ /\ OpenContract(doc) /\ Commit(ts, {})
         /\ UNCHANGED <<account, holder, token, bal, payCursor, pend>>
  BY DEF TokenCreate
<1> HIDE DEF holders
<1>4. CASE CreateToken(holders, meta, supply, ts) /\ UNCHANGED con
  BY <1>1, <1>2, <1>4, ClosedAgreed, CreateTokenKeeps
<1>5. CASE /\ OpenContract(doc) /\ Commit(ts, {})
           /\ UNCHANGED <<account, holder, token, bal, payCursor, pend>>
  <2>1. Agreed(doc)
    BY <1>2 DEF Agreed
  <2> HIDE DEF doc
  <2> QED BY <1>1, <1>5, <2>1, CommitFlight, ContractQuiet
<1> QED BY <1>3, <1>4, <1>5

\* The callback that issues the token.
LEMMA ExecuteTokenCreateKeeps ==
  ASSUME AccountInv, NEW cid, NEW meta \in Metas, NEW supply \in Nat, NEW ts,
         ExecuteTokenCreate(cid, meta, supply, ts)
  PROVE  AccountInv'
<1>1. TypeOK' /\ TypeOK
  BY ExecuteTokenCreateType DEF AccountInv
<1>2. /\ cid \in DOMAIN con /\ con[cid].kind = "token/create"
      /\ CloseContract(cid, "executed") /\ CreateToken(con[cid].holders, meta, supply, ts)
  BY DEF ExecuteTokenCreate
<1>3. con[cid].holders \in SUBSET Kids
  BY <1>1, <1>2, ContractType
<1>4. con[cid].holders # {}
  BY <1>2 DEF AccountInv, ContractsAgreed, Agreed
<1> QED BY <1>1, <1>2, <1>3, <1>4, ClosedAgreed, CreateTokenKeeps

\* A holder more or a holder less.
LEMMA HolderChangeKeeps ==
  ASSUME AccountInv, TypeOK', NEW addr \in Addrs, NEW k \in Kids,
         (CanAdd(addr, k) /\ AddHolder(addr, k)) \/ (CanRemove(addr, k) /\ RemoveHolder(addr, k)),
         UNCHANGED <<token, bal, payCursor, pend>>, flight' \subseteq flight,
         \A i \in DOMAIN con' : Agreed(con'[i])
  PROVE  AccountInv'
<1> DEFINE old == account[addr].holders
           new == account'[addr].holders
<1>1. /\ IsFiniteSet(old) /\ Cardinality(old) \in Nat /\ old # {}
      /\ account \in [Addrs -> AccountDoc]
  BY HoldersType DEF CanAdd, CanRemove, HasHolder, Exists, AccountInv, TypeOK
<1>2. \/ k \notin old /\ new = old \cup {k} /\ holder' = holder \cup {<<k, addr>>}
      \/ /\ k \in old /\ Cardinality(old) >= 3 /\ new = old \ {k}
         /\ holder' = holder \ {<<k, addr>>}
  BY <1>1 DEF CanAdd, CanRemove, AddHolder, RemoveHolder, HasHolder, AccountDoc
<1>3. \A a \in Addrs : a # addr => account'[a].holders = account[a].holders
  BY <1>1 DEF AddHolder, RemoveHolder
<1> HIDE DEF old, new
<1>4. Cardinality(new) # 1 /\ new # {}
  <2>1. CASE k \notin old /\ new = old \cup {k}
    <3>1. Cardinality(new) = Cardinality(old) + 1
      BY <1>1, <2>1, FS_AddElement
    <3>2. Cardinality(old) # 0
      BY <1>1, FS_EmptySet
    <3> QED BY <1>1, <2>1, <3>1, <3>2
  <2>2. CASE k \in old /\ Cardinality(old) >= 3 /\ new = old \ {k}
    <3>1. Cardinality(new) = Cardinality(old) - 1
      BY <1>1, <2>2, FS_RemoveElement
    <3>2. Cardinality(new) >= 2
      BY <1>1, <2>2, <3>1
    <3>3. Cardinality({}) = 0
      BY FS_EmptySet
    <3>4. new # {}
      BY <3>2, <3>3
    <3> QED BY <3>2, <3>4
  <2> QED BY <1>2, <2>1, <2>2
<1>5. \A a \in Addrs : Exists(a)' <=> Exists(a)
  BY <1>1, <1>3, <1>4 DEF Exists, old, new
<1>6. OwnersExist' /\ ContractsAgreed'
  BY <1>5, OwnersKept
<1>7. AbsentEmpty'
  BY <1>5 DEF AccountInv, AbsentEmpty
<1>8. IssuedWithGenesis'
  BY <1>5, DataAssumption DEF AccountInv, IssuedWithGenesis
<1>9. HolderIndex'
  <2>1. ASSUME NEW j \in Kids, NEW a \in Addrs
        PROVE  <<j, a>> \in holder' <=> j \in account'[a].holders
    <3>1. <<j, a>> \in holder <=> j \in account[a].holders
      BY DEF AccountInv, HolderIndex, HasHolder
    <3>2. CASE a = addr
      BY <1>2, <3>1, <3>2 DEF old, new
    <3>3. CASE a # addr
      BY <1>2, <1>3, <3>1, <3>3
    <3> QED BY <3>2, <3>3
  <2> QED BY <2>1 DEF HolderIndex, HasHolder
<1>10. JointKeepsHolders'
  BY <1>3, <1>4 DEF AccountInv, JointKeepsHolders, Joint, new
<1> QED BY <1>6, <1>7, <1>8, <1>9, <1>10 DEF AccountInv

\* The departure of a holder.
LEMMA AccountHolderLeaveKeeps ==
  ASSUME AccountInv, NEW kid \in Kids, NEW addr \in Addrs, NEW ts,
         AccountHolderLeave(kid, addr, ts)
  PROVE  AccountInv'
<1>1. TypeOK'
  BY AccountHolderLeaveType DEF AccountInv
<1>2. /\ CanRemove(addr, kid) /\ RemoveHolder(addr, kid) /\ flight' \subseteq flight
      /\ UNCHANGED <<token, bal, payCursor, pend, con>>
  BY CommitFlight DEF AccountHolderLeave
<1> QED BY <1>1, <1>2, ClosedAgreed, HolderChangeKeeps

\* The callbacks that add and remove holders.
LEMMA ExecuteHolderKeeps ==
  ASSUME AccountInv, NEW cid, NEW ts,
         ExecuteAccountHolderAdd(cid, ts) \/ ExecuteAccountHolderRemove(cid, ts)
  PROVE  AccountInv'
<1>1. TypeOK' /\ TypeOK
  BY ExecuteAccountType DEF AccountInv
<1>2. /\ cid \in DOMAIN con /\ CloseContract(cid, "executed")
      /\ con[cid].kind \in {"account/holder/add", "account/holder/remove"}
      /\ \/ /\ CanAdd(con[cid].account, con[cid].holder)
            /\ AddHolder(con[cid].account, con[cid].holder)
         \/ /\ CanRemove(con[cid].account, con[cid].holder)
            /\ RemoveHolder(con[cid].account, con[cid].holder)
      /\ flight' \subseteq flight /\ UNCHANGED <<token, bal, payCursor, pend>>
  BY CommitFlight DEF ExecuteAccountHolderAdd, ExecuteAccountHolderRemove, StillRemovable
<1>3. con[cid].account \in Addrs /\ con[cid].holder \in Kids
  BY <1>1, <1>2, ContractType
<1> QED BY <1>1, <1>2, <1>3, ClosedAgreed, HolderChangeKeeps

\* A cancelled contract about accounts.
LEMMA CancelAccountKeeps ==
  ASSUME AccountInv, NEW cid, NEW ts, CancelAccount(cid, ts)
  PROVE  AccountInv'
<1>1. TypeOK'
  BY ExecuteAccountType DEF AccountInv
<1> QED BY <1>1, CommitFlight, CancelQuiet DEF CancelAccount

----------------------------------------------------------------------------
\* The invariant holds at the start.
LEMMA InitAccountInv == Init => AccountInv
<1> SUFFICES ASSUME Init PROVE AccountInv
  OBVIOUS
<1>1. TypeOK
  BY InitType
<1>2. \A a \in Addrs : account[a].holders = InitHolders[a]
  BY DEF Init
<1>3. AbsentEmpty
  BY <1>2, DataAssumption DEF Init, AbsentEmpty, Exists
<1>4. OwnersExist /\ ContractsAgreed
  BY DEF Init, NoDocs, OwnersExist, ContractsAgreed
<1>5. IssuedWithGenesis
  BY <1>2, DataAssumption DEF Init, IssuedWithGenesis, Exists
<1>6. HolderIndex
  BY <1>2, DataAssumption DEF Init, HolderIndex, HasHolder
<1>7. JointKeepsHolders
  BY <1>2, DataAssumption DEF JointKeepsHolders, Joint
<1> QED BY <1>1, <1>3, <1>4, <1>5, <1>6, <1>7 DEF AccountInv

\* Every step of every handler keeps it.
LEMMA NextAccountInv == AccountInv /\ [Next]_vars => AccountInv'
<1> SUFFICES ASSUME AccountInv, [Next]_vars PROVE AccountInv'
  OBVIOUS
<1> USE DataAssumption
<1>0. \A t \in Stamps, d \in Terms : t + d \in Nat
  BY DEF Stamps
<1>1. CASE AccountNext
  <2>1. CASE PersonalNext
    BY <2>1, AccountCreateKeeps, SetSuspendedQuiet
       DEF PersonalNext, AccountSuspend, AccountUnsuspend
  <2>2. CASE JointNext
    <3>1. Joint \subseteq Addrs
      BY DEF Joint
    <3> QED BY <2>2, <3>1, AccountContractsQuiet, AccountHolderLeaveKeeps,
               ExecuteAccountCreateKeeps, ExecuteHolderKeeps, CancelAccountKeeps DEF JointNext
  <2> QED BY <1>1, <2>1, <2>2 DEF AccountNext
<1>2. CASE TransferNext
  <2>1. PICK ts \in Stamps :
          \/ \E kid \in Kids, from, to \in Addrs, amount \in Amounts,
                extra \in ExtraSigners, d, e \in Terms :
               \/ TransferNow(kid, from, to, amount, extra, ts + d, ts)
               \/ TransferContract(kid, from, to, amount, extra, ts + d, ts + e, ts)
          \/ \E i \in TxIds : ExecuteTransfer(i, ts) \/ CancelTransfer(i, ts)
          \/ \E kid \in Kids, i \in TxIds : BalancePendingWithdraw(kid, i, ts)
    BY <1>2 DEF TransferNext
  <2> QED BY <1>0, <2>1, TransferNowQuiet, TransferContractQuiet, ExecuteTransferQuiet,
             CancelTransferQuiet, BalancePendingWithdrawQuiet
<1>3. CASE PayNext
  <2>1. Orders \subseteq Texts /\ Memos \subseteq Texts
    BY DEF Texts
  <2>2. \A f : PayPruneCommit(f) => AccountInv'
    BY PruneCommitQuiet
  <2>3. ASSUME NEW ts \in Stamps, NEW kid \in Kids, NEW from \in Addrs, NEW to \in Addrs,
               NEW amount \in Amounts, NEW order \in Orders, NEW memo \in Memos,
               PayNow(kid, from, to, amount, order, memo, ts)
        PROVE  AccountInv'
    BY <2>1, <2>3, PayNowQuiet
  <2>4. ASSUME NEW ts \in Stamps, NEW kid \in Kids, NEW from \in Addrs, NEW to \in Addrs,
               NEW amount \in Amounts, NEW order \in Orders, NEW memo \in Memos, NEW d \in Terms,
               PayContract(kid, from, to, amount, order, memo, ts + d, ts)
        PROVE  AccountInv'
    BY <1>0, <2>1, <2>4, PayContractQuiet
  <2>5. ASSUME NEW ts \in Stamps, NEW kid \in Kids, NEW i \in TxIds,
               NEW amount \in RefundAmounts, PayRefund(kid, i, amount, ts)
        PROVE  AccountInv'
    BY <2>5, PayRefundQuiet
  <2> QED BY <1>3, <2>2, <2>3, <2>4, <2>5, PayActions, ExecutePayQuiet, PayPruneEndorseQuiet
<1>4. CASE FeeNext
  BY <1>4, FeePruneEndorseQuiet, PruneCommitQuiet DEF FeeNext
<1>5. CASE SupplyNext
  BY <1>5, SupplyActions, TokenMintBurnQuiet, TokenCreateKeeps, ExecuteSupplyQuiet,
     ExecuteTokenCreateKeeps, TokenUpdateQuiet
<1>6. CASE Network \/ UNCHANGED vars
  BY <1>6, NetworkQuiet
<1> QED BY <1>1, <1>2, <1>3, <1>4, <1>5, <1>6 DEF Next

\* The invariant of the accounts, in every reachable state.
THEOREM AccountsWhole == Spec => []AccountInv
<1>1. Init => AccountInv
  BY InitAccountInv
<1>2. AccountInv /\ [Next]_vars => AccountInv'
  BY NextAccountInv
<1> QED BY <1>1, <1>2, PTL DEF Spec

\* Until an account is created, its address has no balance and no cursor that
\* the creation could overwrite, whatever was paid and pruned before.
THEOREM AbsentAccountsEmpty == Spec => []AbsentEmpty
<1>1. AccountInv => AbsentEmpty
  BY DEF AccountInv
<1> QED BY <1>1, AccountsWhole, PTL

\* The list of a holder's accounts is right whatever contracts are executed.
THEOREM HoldersIndexed == Spec => []HolderIndex
<1>1. AccountInv => HolderIndex
  BY DEF AccountInv
<1> QED BY <1>1, AccountsWhole, PTL

\* No joint account is left to one holder, whatever removals were signed.
THEOREM JointAccountsStayJoint == Spec => []JointKeepsHolders
<1>1. AccountInv => JointKeepsHolders
  BY DEF AccountInv
<1> QED BY <1>1, AccountsWhole, PTL
=============================================================================
