--------------------------- MODULE OverdraftProofs ---------------------------
(***************************************************************************)
(* Nothing but refunds overdraws an account: OverdraftInv is inductive.    *)
(* Handlers other than the prunes look at the balance they take from; a    *)
(* prune takes what the refunds on its page are worth, whatever else was   *)
(* done to the account since they were made.                               *)
(***************************************************************************)
EXTENDS DocumentProofs

----------------------------------------------------------------------------
(* Handlers other than the prunes leave no account with less than nothing  *)
(* that had more, and charge no negative fee.                              *)

QuietFunds ==
  /\ UNCHANGED <<payCursor, feeCursor>>
  /\ \A a \in Addrs : bal'[a] >= bal[a] \/ bal'[a] >= 0
  /\ \A i \in DOMAIN fee' \ DOMAIN fee : fee'[i].amount >= 0

\* One account is credited, by no less than what it has.
LEMMA CreditQuiet ==
  ASSUME TypeOK, NEW a, NEW x \in Int, bal' = Credit(bal, a, x),
         UNCHANGED <<payCursor, fee, feeCursor>>, x >= 0 \/ bal[a] + x >= 0
  PROVE  QuietFunds
<1>1. bal \in [Addrs -> Int]
  BY DEF TypeOK
<1>2. ASSUME NEW b \in Addrs PROVE bal'[b] >= bal[b] \/ bal'[b] >= 0
  <2>1. CASE b = a
    BY <1>1, <2>1 DEF Credit
  <2>2. CASE b # a
    <3>1. bal'[b] = bal[b] /\ bal[b] \in Int
      BY <1>1, <2>2 DEF Credit
    <3> QED BY <3>1
  <2> QED BY <2>1, <2>2
<1> QED BY <1>2 DEF QuietFunds

\* No balance changes.
LEMMA SameQuiet ==
  ASSUME TypeOK, UNCHANGED <<bal, payCursor, fee, feeCursor>>
  PROVE  QuietFunds
<1>1. \A a \in Addrs : bal[a] \in Int
  BY DEF TypeOK
<1> QED BY <1>1 DEF QuietFunds

\* A fee that is charged is not negative.
LEMMA ChargeQuiet ==
  ASSUME NEW addr, NEW amount \in Nat, NEW ts, CreateFee(addr, amount, ts)
  PROVE  \A i \in DOMAIN fee' \ DOMAIN fee : fee'[i].amount >= 0
BY DEF CreateFee, PutDoc

LEMMA TransferFunds ==
  ASSUME TypeOK, PendingSound, TransferNext
  PROVE  QuietFunds
<1> USE DataAssumption
<1>1. ASSUME NEW ts, NEW kid, NEW from \in Addrs, NEW to \in Addrs, NEW amount \in Nat, NEW extra,
             NEW due, TransferNow(kid, from, to, amount, extra, due, ts)
      PROVE  QuietFunds
  <2> DEFINE charge == CalcFee(from, "transfer", amount)
             less == Credit(bal, from, -(amount + charge))
  <2>1. /\ bal[from] >= amount + charge /\ UNCHANGED <<payCursor, feeCursor>>
        /\ CreateFee(from, charge, ts)
        /\ bal' = less \/ bal' = Credit(less, to, amount)
    BY <1>1 DEF TransferNow, MayTransfer, Receive
  <2>2. charge \in Nat
    BY CalcFeeType DEF Fns
  <2>3. bal \in [Addrs -> Int]
    BY DEF TypeOK
  <2> HIDE DEF charge
  <2>4. /\ less \in [Addrs -> Int] /\ less[from] >= 0
        /\ \A a \in Addrs : a # from => less[a] = bal[a]
    BY <2>1, <2>2, <2>3 DEF Credit
  <2> HIDE DEF less
  <2>5. ASSUME NEW a \in Addrs PROVE bal'[a] >= bal[a] \/ bal'[a] >= 0
    <3>1. bal'[a] = less[a] \/ bal'[a] = less[a] + amount
      BY <2>1, <2>4 DEF Credit
    <3>2. less[a] \in Int /\ bal[a] \in Int /\ (less[a] >= 0 \/ less[a] = bal[a])
      BY <2>3, <2>4
    <3> QED BY <3>1, <3>2
  <2> QED BY <2>1, <2>2, <2>5, ChargeQuiet DEF QuietFunds
<1>2. ASSUME NEW ts, NEW kid, NEW from \in Addrs, NEW to, NEW amount \in Nat, NEW extra, NEW due,
             NEW expiry, TransferContract(kid, from, to, amount, extra, due, expiry, ts)
      PROVE  QuietFunds
  <2> DEFINE charge == CalcFee(from, "transfer", amount)
  <2>1. /\ bal[from] >= amount + charge /\ UNCHANGED <<payCursor, fee, feeCursor>>
        /\ bal' = Credit(bal, from, -(amount + charge))
    BY <1>2 DEF TransferContract, MayTransfer, Deposit
  <2>2. charge \in Nat /\ bal[from] \in Int
    <3>1. charge \in Nat
      BY CalcFeeType DEF Fns
    <3>2. bal[from] \in Int
      BY DEF TypeOK
    <3> QED BY <3>1, <3>2
  <2> HIDE DEF charge
  <2>3. -(amount + charge) \in Int /\ bal[from] + (-(amount + charge)) >= 0
    BY <2>1, <2>2
  <2> QED BY <2>1, <2>3, CreditQuiet
<1>3. ASSUME NEW ts, NEW cid, ExecuteTransfer(cid, ts) PROVE QuietFunds
  <2>1. /\ cid \in DOMAIN pend /\ UNCHANGED <<payCursor, feeCursor>>
        /\ CreateFee(pend[cid].account, pend[cid].fee, ts)
        /\ UNCHANGED bal \/ bal' = Credit(bal, con[cid].to, pend[cid].amount)
    BY <1>3 DEF ExecuteTransfer, OwnsPending, Receive
  <2>2. /\ pend[cid].amount \in Int /\ pend[cid].amount >= 0
        /\ pend[cid].fee \in Nat
    BY <2>1, PendingType DEF PendingSound
  <2>3. bal \in [Addrs -> Int]
    BY DEF TypeOK
  <2>4. ASSUME NEW a \in Addrs PROVE bal'[a] >= bal[a]
    <3>1. bal[a] \in Int /\ (bal'[a] = bal[a] \/ bal'[a] = bal[a] + pend[cid].amount)
      BY <2>1, <2>3 DEF Credit
    <3> QED BY <2>2, <3>1
  <2> QED BY <2>1, <2>2, <2>4, ChargeQuiet DEF QuietFunds
<1>4. ASSUME NEW ts, NEW kid, NEW i, CancelTransfer(i, ts) \/ BalancePendingWithdraw(kid, i, ts)
      PROVE  QuietFunds
  <2>1. /\ i \in DOMAIN pend /\ UNCHANGED <<payCursor, fee, feeCursor>>
        /\ bal' = Credit(bal, pend[i].account, pend[i].amount + pend[i].fee)
    BY <1>4 DEF CancelTransfer, BalancePendingWithdraw, OwnsPending, Withdraw
  <2>2. pend[i].amount + pend[i].fee \in Int /\ pend[i].amount + pend[i].fee >= 0
    BY <2>1, PendingType DEF PendingSound
  <2> QED BY <2>1, <2>2, CreditQuiet
<1> QED BY <1>1, <1>2, <1>3, <1>4 DEF TransferNext

\* A payment is covered by the balance; a refund only gives.
LEMMA PayFunds ==
  ASSUME TypeOK, PayCalls
  PROVE  QuietFunds
<1> USE DataAssumption
<1>1. ASSUME NEW ts, NEW kid, NEW from \in Addrs, NEW to, NEW amount \in Nat, NEW order, NEW memo,
             NEW expiry,
             \/ PayNow(kid, from, to, amount, order, memo, ts)
             \/ PayContract(kid, from, to, amount, order, memo, expiry, ts)
      PROVE  QuietFunds
  <2>1. /\ bal[from] >= amount /\ UNCHANGED <<payCursor, fee, feeCursor>>
        /\ \E x \in {amount, amount + 0} : bal' = Credit(bal, from, -x)
    BY <1>1 DEF PayNow, PayContract, MayPay, Deposit
  <2>2. bal[from] \in Int /\ amount + 0 = amount
    BY DEF TypeOK
  <2>3. -amount \in Int /\ bal[from] + (-amount) >= 0
    BY <2>1, <2>2
  <2> QED BY <2>1, <2>2, <2>3, CreditQuiet
<1>2. ASSUME NEW ts, NEW cid, ExecutePay(cid, ts) PROVE QuietFunds
  BY <1>2, SameQuiet DEF ExecutePay
<1>3. ASSUME NEW ts, NEW kid, NEW i, NEW amount \in Nat, PayRefund(kid, i, amount, ts)
      PROVE  QuietFunds
  <2>1. bal' = Credit(bal, pay[i].from, amount) /\ UNCHANGED <<payCursor, fee, feeCursor>>
    BY <1>3 DEF PayRefund
  <2> QED BY <2>1, CreditQuiet
<1>4. Amounts \subseteq Nat /\ RefundAmounts \subseteq Nat
  OBVIOUS
<1> HIDE DataAssumption
<1> QED BY <1>1, <1>2, <1>3, <1>4 DEF PayCalls

\* A new account starts with nothing, as its address had.
LEMMA AccountFunds ==
  ASSUME TypeOK, AbsentEmpty, AccountNext
  PROVE  QuietFunds
<1>1. ASSUME NEW addr \in Addrs, NEW holders, CreateAccount(addr, holders, 0),
             UNCHANGED <<fee, feeCursor>>
      PROVE  QuietFunds
  BY <1>1, CreateEmpty, SameQuiet
<1>2. ASSUME NEW ts, NEW kid \in Kids, AccountCreate(kid, ts) PROVE QuietFunds
  <2>1. kid \in Addrs
    BY SizeAssumption DEF Kids, Addrs
  <2> QED BY <1>1, <1>2, <2>1 DEF AccountCreate
<1>3. ASSUME NEW ts, NEW cid, NEW addr \in Joint, ExecuteAccountCreate(cid, addr, ts)
      PROVE  QuietFunds
  BY <1>1, <1>3 DEF ExecuteAccountCreate, Joint
<1>4. PersonalNext => QuietFunds
  BY <1>2, SameQuiet DEF PersonalNext, AccountSuspend, AccountUnsuspend, SetSuspended
<1>5. ASSUME NEW ts, NEW kid, NEW addr, NEW other, NEW addrs, NEW cid,
             \/ AccountHolderAdd(kid, addr, other, ts) \/ AccountHolderRemove(kid, addr, other, ts)
             \/ AccountCreateJoint(kid, addrs, ts) \/ AccountHolderLeave(kid, addr, ts)
             \/ ExecuteAccountHolderAdd(cid, ts) \/ ExecuteAccountHolderRemove(cid, ts)
             \/ CancelAccount(cid, ts)
      PROVE  QuietFunds
  <2>1. UNCHANGED <<bal, payCursor, fee, feeCursor>>
    BY <1>5 DEF AccountHolderAdd, AccountHolderRemove, AccountCreateJoint, AccountHolderLeave,
         AccountContract, ExecuteAccountHolderAdd, ExecuteAccountHolderRemove, CancelAccount
  <2> QED BY <2>1, SameQuiet
<1>6. JointNext => QuietFunds
  BY <1>3, <1>5 DEF JointNext
<1> QED BY <1>4, <1>6 DEF AccountNext

\* A mint adds and a burn takes no more than the genesis account has.
LEMMA SupplyFunds ==
  ASSUME TypeOK, AbsentEmpty, SupplyNext
  PROVE  QuietFunds
<1>0. bal \in [Addrs -> Int] /\ token.supply \in Int /\ Genesis \in Addrs /\ MaxSupply \in Nat
  BY DataAssumption DEF TypeOK, TokenDoc
<1>1. ASSUME NEW ts, NEW amount \in Nat, Mint(amount, ts), UNCHANGED <<payCursor, fee, feeCursor>>
      PROVE  QuietFunds
  <2> DEFINE left == MaxSupply - token.supply
             diff == IF left < amount THEN left ELSE amount
  <2>1. bal' = Credit(bal, Genesis, diff) /\ token.supply < MaxSupply
    BY <1>1 DEF Mint, Supply
  <2>2. diff \in Int /\ diff >= 0
    BY <1>0, <2>1
  <2> HIDE DEF diff
  <2> QED BY <1>1, <2>1, <2>2, CreditQuiet
<1>2. ASSUME NEW ts, NEW amount \in Nat, Burn(amount, ts), UNCHANGED <<payCursor, fee, feeCursor>>
      PROVE  QuietFunds
  <2> DEFINE burnt == IF bal[Genesis] < amount THEN bal[Genesis] ELSE amount
  <2>1. UNCHANGED bal \/ bal' = Credit(bal, Genesis, -burnt)
    BY <1>2 DEF Burn, Burnable, Supply
  <2>2. -burnt \in Int /\ bal[Genesis] + (-burnt) >= 0
    BY <1>0
  <2> HIDE DEF burnt
  <2> QED BY <1>2, <2>1, <2>2, CreditQuiet, SameQuiet
<1>3. ASSUME NEW ts, NEW kid, NEW amount \in Nat,
             TokenMint(kid, amount, ts) \/ TokenBurn(kid, amount, ts)
      PROVE  QuietFunds
  <2>1. ASSUME NEW kind, SupplyContract(kind, amount, ts) PROVE QuietFunds
    BY <2>1, SameQuiet DEF SupplyContract
  <2> QED BY <1>1, <1>2, <1>3, <2>1 DEF TokenMint, TokenBurn
<1>4. ASSUME NEW ts, NEW cid, ExecuteTokenMint(cid, ts) \/ ExecuteTokenBurn(cid, ts)
      PROVE  QuietFunds
  <2>1. con[cid].amount \in Nat
    BY <1>4, ContractType DEF ExecuteTokenMint, ExecuteTokenBurn
  <2> QED BY <1>1, <1>2, <1>4, <2>1 DEF ExecuteTokenMint, ExecuteTokenBurn
<1>5. ASSUME NEW ts, NEW cid, NEW meta, CancelSupply(cid, ts) \/ TokenUpdate(meta, ts)
      PROVE  QuietFunds
  BY <1>5, SameQuiet DEF CancelSupply, TokenUpdate
<1>6. ASSUME NEW ts, NEW holders, NEW meta, NEW supply \in Nat,
             CreateToken(holders, meta, supply, ts)
      PROVE  QuietFunds
  <2>1. /\ ~Exists(Genesis) /\ bal' = [bal EXCEPT ![Genesis] = supply]
        /\ payCursor' = [payCursor EXCEPT ![Genesis] = 0] /\ UNCHANGED <<fee, feeCursor>>
    BY <1>6 DEF CreateToken, CreateAccount
  <2>2. bal[Genesis] = 0 /\ payCursor[Genesis] = 0 /\ payCursor \in [Addrs -> {0} \cup Stamps]
    BY <1>0, <2>1 DEF AbsentEmpty, TypeOK
  <2>3. UNCHANGED payCursor /\ bal' = Credit(bal, Genesis, supply)
    BY <1>0, <2>1, <2>2 DEF Credit
  <2> QED BY <2>1, <2>3, CreditQuiet
<1>7. ASSUME NEW ts, NEW kid, NEW cid, NEW addrs, NEW meta, NEW supply \in Nat,
             \/ TokenCreate(kid, addrs, meta, supply, ts)
             \/ ExecuteTokenCreate(cid, meta, supply, ts)
      PROVE  QuietFunds
  BY <1>6, <1>7, SameQuiet DEF TokenCreate, ExecuteTokenCreate
<1>8. Amounts \subseteq Nat
  BY DataAssumption
<1> QED BY <1>3, <1>4, <1>5, <1>7, <1>8, SupplyActions

\* Every step.
LEMMA StepFunds ==
  ASSUME AccountInv, PendingSound, [Next]_vars
  PROVE  QuietFunds \/ \E f \in flight : PayPruneCommit(f) \/ FeePruneCommit(f)
<1>1. TypeOK /\ AbsentEmpty
  BY DEF AccountInv
<1>2. PayPrunes => UNCHANGED <<bal, payCursor, fee, feeCursor>> \/ \E f \in flight : PayPruneCommit(f)
  BY DEF PayPrunes, PayPruneEndorse, ledger
<1>3. FeeNext => UNCHANGED <<bal, payCursor, fee, feeCursor>> \/ \E f \in flight : FeePruneCommit(f)
  BY DEF FeeNext, FeePruneEndorse, ledger
<1>4. Network \/ UNCHANGED vars => UNCHANGED <<bal, payCursor, fee, feeCursor>>
  BY DEF Network, Tick, Drop, vars, ledger
<1> QED BY <1>1, <1>2, <1>3, <1>4, SameQuiet, TransferFunds, PayFunds, AccountFunds, SupplyFunds
    DEF Next, PayNext

----------------------------------------------------------------------------
(* What a prune in flight carries.                                         *)

\* Documents that were there keep what a prune adds up.
LEMMA PaysKeepSums ==
  ASSUME TypeOK, KnownIds, PayFrame, NEW ids, ids \subseteq DOMAIN pay
  PROVE  /\ ids \subseteq DOMAIN pay'
         /\ \A i \in ids : pay'[i].to = pay[i].to /\ pay'[i].created = pay[i].created
         /\ PaySum(ids)' = PaySum(ids) /\ PayFeeSum(ids)' = PayFeeSum(ids)
<1>1. ASSUME NEW i \in DOMAIN pay
      PROVE  /\ i \in DOMAIN pay' /\ pay'[i].to = pay[i].to /\ pay'[i].created = pay[i].created
             /\ pay'[i].amount = pay[i].amount /\ pay'[i].fee = pay[i].fee
  BY OldPays DEF PayFrame
<1> QED BY <1>1 DEF PaySum, PayFeeSum

LEMMA FeesKeepSums ==
  ASSUME FeeFrame, NEW ids, ids \subseteq DOMAIN fee
  PROVE  /\ ids \subseteq DOMAIN fee' /\ \A i \in ids : fee'[i] = fee[i]
         /\ FeeSum(ids)' = FeeSum(ids)
BY DEF FeeFrame, FeeSum

\* A prune that is still in flight has added up documents that are still there, and
\* still above the cursor.
LEMMA PagesStay ==
  ASSUME TypeOK, KnownIds, PagesUnpruned, PayFrame, FeeFrame, [Next]_vars
  PROVE  PagesUnpruned'
<1> DEFINE PayPage(f) ==
             /\ f.ids \subseteq PayRange(f.account, payCursor[f.account], f.end)
             /\ f.sum = PaySum(f.ids) /\ f.fee = PayFeeSum(f.ids)
           FeePage(f) == f.ids \subseteq FeeRange(feeCursor, f.end) /\ f.sum = FeeSum(f.ids)
<1>1. ASSUME NEW f, PayPage(f), payCursor'[f.account] = payCursor[f.account] PROVE PayPage(f)'
  <2>1. f.ids \subseteq DOMAIN pay
    BY <1>1 DEF PayRange
  <2>2. /\ f.ids \subseteq DOMAIN pay'
        /\ \A i \in f.ids : pay'[i].to = pay[i].to /\ pay'[i].created = pay[i].created
        /\ PaySum(f.ids)' = PaySum(f.ids) /\ PayFeeSum(f.ids)' = PayFeeSum(f.ids)
    BY <2>1, PaysKeepSums
  <2> QED BY <1>1, <2>2 DEF PayRange
<1>2. ASSUME NEW f, FeePage(f), UNCHANGED feeCursor PROVE FeePage(f)'
  <2>1. f.ids \subseteq DOMAIN fee
    BY <1>2 DEF FeeRange
  <2>2. /\ f.ids \subseteq DOMAIN fee' /\ \A i \in f.ids : fee'[i] = fee[i]
        /\ FeeSum(f.ids)' = FeeSum(f.ids)
    BY <2>1, FeesKeepSums
  <2> QED BY <1>2, <2>2 DEF FeeRange
<1>3. \A f \in flight : (f.kind = "pay" => PayPage(f)) /\ (f.kind = "fee" => FeePage(f))
  BY DEF PagesUnpruned
<1>4. ASSUME NEW f \in flight, f \in flight'
      PROVE  (f.kind = "pay" => PayPage(f)') /\ (f.kind = "fee" => FeePage(f)')
  <2>1. CASE Transaction
    <3>1. PICK ts, written : Commit(ts, written) /\ Obeys(written)
      BY <2>1 DEF Transaction
    <3>2. f.account \in Addrs /\ Reads(f) \cap written = {}
      BY <1>4, <3>1 DEF Commit, TypeOK, Flight
    <3>3. payCursor'[f.account] = payCursor[f.account]
      BY <3>1, <3>2 DEF Reads, AccountKeys, Obeys
    <3>4. f.kind = "fee" => UNCHANGED feeCursor
      BY <3>1, <3>2 DEF Reads, Obeys
    <3> QED BY <1>1, <1>2, <1>3, <3>3, <3>4
  <2>2. CASE UNCHANGED ledger
    <3>1. UNCHANGED <<payCursor, feeCursor>>
      BY <2>2 DEF ledger
    <3> QED BY <1>1, <1>2, <1>3, <3>1
  <2>3. Endorsement => UNCHANGED ledger
    BY DEF Endorsement, PayPruneEndorse, FeePruneEndorse
  <2> QED BY <2>1, <2>2, <2>3, Steps
<1>5. ASSUME NEW f \in flight', f \notin flight
      PROVE  (f.kind = "pay" => PayPage(f)') /\ (f.kind = "fee" => FeePage(f)')
  <2>1. Transaction => flight' \subseteq flight
    BY DEF Transaction, Commit
  <2>2. Endorsement
    BY <1>5, <2>1, Steps
  <2>3. UNCHANGED <<payCursor, feeCursor>>
    BY <2>2 DEF Endorsement, PayPruneEndorse, FeePruneEndorse, ledger
  <2>4. \/ f.kind = "pay" /\ PayPage(f)
        \/ f.kind = "fee" /\ FeePage(f)
    BY <1>5, <2>2, EndorsedFlight DEF PayRange, FeeRange
  <2> QED BY <1>1, <1>2, <2>3, <2>4
<1> QED BY <1>4, <1>5 DEF PagesUnpruned

----------------------------------------------------------------------------
(* What a payment is charged.                                              *)

\* As long as the KNT chaincode answers with rates that are fractions, no payment
\* is charged more than it is.
LEMMA FeesStayWithin ==
  ASSUME FairRates, TypeOK, KnownIds, PayFrame, PolicyFrame, FeesWithinPays
  PROVE  FeesWithinPays'
<1>1. IsFraction(token'.policy.rates["pay"])
  <2>1. IsFraction(NoRates["pay"])
    BY DEF IsFraction, NoRates, Fns
  <2> QED BY <2>1 DEF PolicyFrame, FeesWithinPays, FairRates
<1>2. ASSUME NEW i \in DOMAIN pay', pay'[i].parent = 0
      PROVE  pay'[i].fee <= pay'[i].amount
  <2>1. CASE UNCHANGED pay
    BY <1>2, <2>1 DEF FeesWithinPays
  <2>2. ASSUME NEW doc \in PayDoc, NEW p, NEW back \in Nat, PutPayOf(doc, p, back),
               doc.parent = 0 => doc.fee <= doc.amount
        PROVE  pay'[i].fee <= pay'[i].amount
    <3>1. CASE i = TxId
      BY <1>2, <2>2, <3>1 DEF PutPayOf
    <3>2. CASE i # TxId
      <4>1. i \in DOMAIN pay
        BY <2>2, <3>2 DEF PutPayOf
      <4> QED BY <1>2, <2>2, <4>1, OldPays DEF FeesWithinPays
    <3> QED BY <3>1, <3>2
  <2>3. 0 \notin DOMAIN pay
    BY DEF TypeOK, IsDocs, TxIds
  <2> QED BY <2>1, <2>2, <2>3 DEF PayFrame, IsPayment, IsRefund, FeesWithinPays
<1> QED BY <1>1, <1>2 DEF FeesWithinPays

----------------------------------------------------------------------------
(* What prunes of refunds took.                                            *)

\* Sums of documents, pointwise.
PayPart(ids)    == [i \in TxIds |-> IF i \in ids THEN pay[i].amount ELSE 0]
PayFeePart(ids) == [i \in TxIds |-> IF i \in ids THEN pay[i].fee ELSE 0]
FeePart(ids)    == [i \in TxIds |-> IF i \in ids THEN fee[i].amount ELSE 0]

LEMMA PartTypes ==
  ASSUME TypeOK
  PROVE  /\ \A ids : ids \subseteq DOMAIN pay =>
              /\ PayPart(ids) \in [1..NTx -> Int] /\ PayFeePart(ids) \in [1..NTx -> Int]
         /\ \A ids : ids \subseteq DOMAIN fee => FeePart(ids) \in [1..NTx -> Int]
         /\ NTx \in Nat
<1>1. \A i \in DOMAIN fee : fee[i].amount \in Int
  BY DEF TypeOK, IsDocs, FeeDoc
<1>2. \A i \in DOMAIN pay : pay[i].amount \in Int /\ pay[i].fee \in Int
  BY PayType
<1> QED BY <1>1, <1>2, SizeAssumption DEF PayPart, PayFeePart, FeePart, TxIds

\* What was taken is not given.
Taken ==
  /\ \A a \in Addrs : PaySum(PrunedOf(a)) \in Int /\ PaySum(PrunedOf(a)) <= 0
  /\ PayFeeSum(Pruned) \in Int
  /\ FeeSum(FeesReturned) \in Int /\ FeeSum(FeesReturned) <= 0
  /\ FeeSum(FeesBack) \in Int

LEMMA TakenLower == TypeOK /\ PaysSound => Taken
<1> SUFFICES ASSUME TypeOK, PaysSound PROVE Taken
  OBVIOUS
<1> DEFINE zero == [i \in 1..NTx |-> 0]
<1>1. NTx \in Nat /\ zero \in [1..NTx -> Int] /\ \A i \in 1..NTx : zero[i] = 0
  BY SizeAssumption
<1> HIDE DEF zero
<1>2. SumTo(zero, NTx) = 0
  BY <1>1, SumZero
<1>3. ASSUME NEW f \in [1..NTx -> Int]
      PROVE  SumTo(f, NTx) \in Int /\ ((\A i \in 1..NTx : f[i] <= 0) => SumTo(f, NTx) <= 0)
  BY <1>1, <1>2, <1>3, SumToType, SumMono
<1>4. ASSUME NEW a \in Addrs PROVE PaySum(PrunedOf(a)) \in Int /\ PaySum(PrunedOf(a)) <= 0
  <2>1. PrunedOf(a) \subseteq DOMAIN pay /\ \A i \in PrunedOf(a) : pay[i].amount <= 0
    BY PayType DEF PrunedOf, Pruned, PaysSound
  <2>2. PayPart(PrunedOf(a)) \in [1..NTx -> Int] /\ \A i \in 1..NTx : PayPart(PrunedOf(a))[i] <= 0
    BY <2>1, PartTypes DEF PayPart, TxIds
  <2> QED BY <1>3, <2>2 DEF PaySum, PayPart
<1>5. PayFeeSum(Pruned) \in Int
  <2>1. PayFeePart(Pruned) \in [1..NTx -> Int]
    BY PartTypes DEF Pruned
  <2> QED BY <1>3, <2>1 DEF PayFeeSum, PayFeePart
<1>6. FeeSum(FeesReturned) \in Int /\ FeeSum(FeesReturned) <= 0
  <2>1. FeesReturned \subseteq DOMAIN fee /\ \A i \in FeesReturned : fee[i].amount < 0
    BY DEF FeesReturned, FeesBack
  <2>2. FeePart(FeesReturned) \in [1..NTx -> Int] /\ \A i \in 1..NTx : FeePart(FeesReturned)[i] <= 0
    BY <2>1, PartTypes DEF FeePart, TxIds
  <2> QED BY <1>3, <2>2 DEF FeeSum, FeePart
<1>7. FeeSum(FeesBack) \in Int
  <2>1. FeePart(FeesBack) \in [1..NTx -> Int]
    BY PartTypes DEF FeesBack
  <2> QED BY <1>3, <2>1 DEF FeeSum, FeePart
<1> QED BY <1>4, <1>5, <1>6, <1>7 DEF Taken

LEMMA TakenLowerNext == TypeOK' /\ PaysSound' => Taken'
BY TakenLower, PTL

\* Another handler may only leave refunds below the cursors, where they count as
\* if they had been pruned.
LEMMA QuietShort ==
  ASSUME TypeOK, TypeOK', KnownIds, PaysSound, PaysSound', PayFrame, FeeFrame, QuietFunds,
         ShortByRefunds
  PROVE  ShortByRefunds'
<1>1. Taken /\ Taken'
  BY TakenLower, TakenLowerNext
<1>2. ASSUME NEW i \in DOMAIN pay
      PROVE  /\ i \in DOMAIN pay' /\ (i \in Pruned' <=> i \in Pruned)
             /\ pay'[i].to = pay[i].to /\ pay'[i].amount = pay[i].amount /\ pay'[i].fee = pay[i].fee
  <2>1. /\ i \in DOMAIN pay' /\ pay'[i].to = pay[i].to /\ pay'[i].created = pay[i].created
        /\ pay'[i].amount = pay[i].amount /\ pay'[i].fee = pay[i].fee
        /\ pay'[i].parent = pay[i].parent
    BY OldPays DEF PayFrame
  <2> QED BY <2>1 DEF Pruned, QuietFunds
<1>3. /\ Pruned \subseteq DOMAIN pay /\ Pruned' \subseteq DOMAIN pay'
      /\ \A i \in Pruned' : pay'[i].amount < 0 /\ pay'[i].fee <= 0
  BY DEF Pruned, PaysSound
<1>4. ASSUME NEW a \in Addrs PROVE PaySum(PrunedOf(a))' <= PaySum(PrunedOf(a))
  <2> DEFINE f == PayPart(PrunedOf(a))
             g == PayPart(PrunedOf(a))'
  <2>1. f \in [1..NTx -> Int] /\ g \in [1..NTx -> Int] /\ NTx \in Nat
    <3>1. PrunedOf(a) \subseteq DOMAIN pay /\ \A i \in DOMAIN pay : pay[i].amount \in Int
      BY PayType DEF PrunedOf, Pruned
    <3>2. PrunedOf(a)' \subseteq DOMAIN pay' /\ \A i \in DOMAIN pay' : pay'[i].amount \in Int
      BY DEF PrunedOf, Pruned, TypeOK, IsDocs, PayDoc
    <3> QED BY <3>1, <3>2, SizeAssumption DEF PayPart, TxIds
  <2>2. ASSUME NEW i \in 1..NTx PROVE g[i] <= f[i]
    <3>1. CASE i \in DOMAIN pay
      <4>1. g[i] = f[i]
        BY <1>2, <3>1 DEF PayPart, PrunedOf, TxIds
      <4> QED BY <2>1, <4>1
    <3>2. CASE i \notin DOMAIN pay
      <4>1. f[i] = 0
        BY <1>3, <3>2 DEF PayPart, PrunedOf, TxIds
      <4>2. g[i] = 0 \/ g[i] < 0
        BY <1>3, <3>2 DEF PayPart, PrunedOf, TxIds
      <4> HIDE DEF f, g
      <4> QED BY <2>1, <4>1, <4>2
    <3> QED BY <3>1, <3>2
  <2>3. PaySum(PrunedOf(a)) = SumTo(f, NTx) /\ PaySum(PrunedOf(a))' = SumTo(g, NTx)
    BY DEF PaySum, PayPart
  <2> HIDE DEF f, g
  <2> QED BY <2>1, <2>2, <2>3, SumMono
<1>5. PayFeeSum(Pruned)' <= PayFeeSum(Pruned)
  <2> DEFINE f == PayFeePart(Pruned)
             g == PayFeePart(Pruned)'
  <2>1. f \in [1..NTx -> Int] /\ g \in [1..NTx -> Int] /\ NTx \in Nat
    <3>1. \A i \in DOMAIN pay : pay[i].fee \in Int
      BY PayType
    <3>2. \A i \in DOMAIN pay' : pay'[i].fee \in Int
      BY DEF TypeOK, IsDocs, PayDoc
    <3> QED BY <1>3, <3>1, <3>2, SizeAssumption DEF PayFeePart, TxIds
  <2>2. ASSUME NEW i \in 1..NTx PROVE g[i] <= f[i]
    <3>1. CASE i \in DOMAIN pay
      <4>1. g[i] = f[i]
        BY <1>2, <3>1 DEF PayFeePart, TxIds
      <4> QED BY <2>1, <4>1
    <3>2. CASE i \notin DOMAIN pay
      BY <1>3, <3>2 DEF PayFeePart, TxIds
    <3> QED BY <3>1, <3>2
  <2>3. PayFeeSum(Pruned) = SumTo(f, NTx) /\ PayFeeSum(Pruned)' = SumTo(g, NTx)
    BY DEF PayFeeSum, PayFeePart
  <2> HIDE DEF f, g
  <2> QED BY <2>1, <2>2, <2>3, SumMono
<1>6. FeeSum(FeesBack)' = FeeSum(FeesBack) /\ FeeSum(FeesReturned)' = FeeSum(FeesReturned)
  <2>1. \A i \in DOMAIN fee : i \in DOMAIN fee' /\ fee'[i] = fee[i]
    BY DEF FeeFrame
  <2>2. \A i \in DOMAIN fee' : fee'[i].amount \in Int
    BY DEF TypeOK, IsDocs, FeeDoc
  <2>3. FeesBack' = FeesBack /\ FeesReturned' = FeesReturned
    BY <2>1, <2>2 DEF QuietFunds, FeesBack, FeesReturned
  <2>4. FeesBack \subseteq DOMAIN fee /\ FeesReturned \subseteq DOMAIN fee
    BY DEF FeesBack, FeesReturned
  <2> QED BY <2>1, <2>3, <2>4 DEF FeeSum
<1>7. ASSUME NEW a \in Addrs PROVE bal'[a] >= PaySum(PrunedOf(a))' + FeeSum(FeesReturned)'
  <2>1. bal[a] \in Int /\ bal'[a] \in Int
    BY DEF TypeOK
  <2> QED BY <1>1, <1>4, <1>6, <2>1 DEF QuietFunds, ShortByRefunds, Taken
<1>8. FeeSum(FeesBack)' >= PayFeeSum(Pruned)'
  BY <1>1, <1>5, <1>6 DEF ShortByRefunds, Taken
<1> QED BY <1>7, <1>8 DEF ShortByRefunds

\* A fee that a prune of pays leaves goes back if it is negative.
LEMMA NewFeeBack ==
  ASSUME TypeOK, TypeOK', KnownIds, TxId \in TxIds, NEW a, NEW x \in Int, NEW ts,
         CreateFee(a, x, ts), UNCHANGED feeCursor
  PROVE  /\ FeeSum(FeesReturned)' <= FeeSum(FeesReturned)
         /\ FeeSum(FeesBack)' = FeeSum(FeesBack) + IF x < 0 THEN x ELSE 0
<1> DEFINE f == FeePart(FeesReturned)
           g == FeePart(FeesReturned)'
           u == FeePart(FeesBack)
           v == FeePart(FeesBack)'
<1>1. /\ \A i \in DOMAIN fee : i # TxId /\ i \in DOMAIN fee' /\ fee'[i] = fee[i]
      /\ DOMAIN fee' \subseteq DOMAIN fee \cup {TxId}
      /\ TxId \in DOMAIN fee' => x # 0 /\ fee'[TxId].amount = x
      /\ TxId \notin DOMAIN fee' => x = 0
  BY NewId DEF CreateFee, PutDoc
<1>2. /\ \A i \in DOMAIN fee : fee[i].amount \in Int
      /\ \A i \in DOMAIN fee' : fee'[i].amount \in Int
      /\ FeesReturned \subseteq DOMAIN fee /\ FeesBack \subseteq DOMAIN fee
      /\ FeesReturned' \subseteq DOMAIN fee' /\ FeesBack' \subseteq DOMAIN fee'
      /\ NTx \in Nat /\ TxId \in 1..NTx
  BY SizeAssumption DEF TypeOK, IsDocs, FeeDoc, FeesReturned, FeesBack, TxIds
<1>3. /\ f \in [1..NTx -> Int] /\ g \in [1..NTx -> Int]
      /\ u \in [1..NTx -> Int] /\ v \in [1..NTx -> Int]
  BY <1>2 DEF FeePart, TxIds
<1>4. \A i \in 1..NTx : i # TxId => g[i] = f[i] /\ v[i] = u[i]
  BY <1>1 DEF FeePart, FeesReturned, FeesBack, TxIds
<1>5. /\ f[TxId] = 0 /\ u[TxId] = 0 /\ g[TxId] <= 0
      /\ v[TxId] = IF x < 0 THEN x ELSE 0
  <2>1. TxId \notin FeesReturned /\ TxId \notin FeesBack
    BY <1>1 DEF FeesReturned, FeesBack
  <2>2. f[TxId] = 0 /\ u[TxId] = 0
    BY <1>2, <2>1 DEF FeePart, TxIds
  <2>3. TxId \in FeesBack' <=> x < 0
    BY <1>1 DEF FeesBack
  <2>4. v[TxId] = IF x < 0 THEN x ELSE 0
    BY <1>1, <1>2, <2>3 DEF FeePart, FeesBack, TxIds
  <2>5. TxId \in FeesReturned' => x < 0
    BY <1>1 DEF FeesReturned, FeesBack
  <2>6. g[TxId] = IF TxId \in FeesReturned' THEN x ELSE 0
    BY <1>1, <1>2, <2>5 DEF FeePart, FeesReturned, FeesBack, TxIds
  <2> QED BY <2>2, <2>4, <2>5, <2>6
<1>6. /\ FeeSum(FeesReturned) = SumTo(f, NTx) /\ FeeSum(FeesReturned)' = SumTo(g, NTx)
      /\ FeeSum(FeesBack) = SumTo(u, NTx) /\ FeeSum(FeesBack)' = SumTo(v, NTx)
  BY DEF FeeSum, FeePart
<1> HIDE DEF f, g, u, v
<1>7. \A i \in 1..NTx : g[i] <= f[i]
  BY <1>3, <1>4, <1>5
<1>8. SumTo(g, NTx) <= SumTo(f, NTx)
  BY <1>2, <1>3, <1>7, SumMono
<1>9. SumTo(v, NTx) = SumTo(u, NTx) + (v[TxId] - u[TxId])
  BY <1>2, <1>3, <1>4, SumChange
<1>10. SumTo(u, NTx) \in Int
  BY <1>2, <1>3, SumToType
<1> QED BY <1>5, <1>6, <1>8, <1>9, <1>10

\* A prune of pays takes no more than the refunds on its page are worth, as no
\* payment costs its merchant more than it is; the fees that go back with them are
\* left for the target account to return.
LEMMA PayPruneShort ==
  ASSUME TypeOK, TypeOK', KnownIds, PaysSound, FlightsWatched, PagesUnpruned, ShortByRefunds,
         \A i \in DOMAIN pay : pay[i].parent = 0 => pay[i].fee <= pay[i].amount,
         NEW f \in flight, PayPruneCommit(f)
  PROVE  ShortByRefunds'
<1> DEFINE to == f.account
           page == f.ids
           p == PayPart(page)
           q == PayFeePart(page)
           d == [i \in 1..NTx |-> p[i] - q[i]]
<1>1. /\ to \in Addrs /\ f.base = bal[to] /\ f.end \in Int /\ payCursor[to] < f.end
      /\ page \subseteq PayRange(to, payCursor[to], f.end)
      /\ f.sum = SumTo(p, NTx) /\ f.fee = SumTo(q, NTx) /\ f.sum \in Int /\ f.fee \in Int
  <2>1. /\ to \in Addrs /\ f.base = bal[to] /\ f.end \in Int /\ payCursor[to] < f.end
        /\ f.sum \in Int /\ f.fee \in Int
    BY DEF PayPruneCommit, FlightsWatched, TypeOK, Flight, Stamps
  <2>2. /\ page \subseteq PayRange(to, payCursor[to], f.end)
        /\ f.sum = SumTo(p, NTx) /\ f.fee = SumTo(q, NTx)
    BY DEF PayPruneCommit, PagesUnpruned, PaySum, PayFeeSum, PayPart, PayFeePart
  <2> QED BY <2>1, <2>2
<1>2. /\ bal \in [Addrs -> Int] /\ bal' = [bal EXCEPT ![to] = f.base + (f.sum - f.fee)]
      /\ payCursor \in [Addrs -> {0} \cup Stamps] /\ payCursor' = [payCursor EXCEPT ![to] = f.end]
      /\ UNCHANGED <<pay, feeCursor>> /\ CreateFee(to, f.fee, f.ts)
      /\ \A a \in Addrs : payCursor[a] \in Int
  BY DEF PayPruneCommit, TypeOK, Stamps
<1>3. Taken /\ Pruned \subseteq DOMAIN pay
  BY TakenLower DEF Pruned
<1>4. page \subseteq DOMAIN pay /\ \A i \in page : i \notin Pruned /\ pay[i].to = to
  <2>1. \A i \in DOMAIN pay : pay[i].created \in Int
    BY PayType DEF Stamps
  <2> QED BY <1>1, <1>2, <2>1 DEF PayRange, Pruned
<1>5. \A i \in DOMAIN pay : /\ pay[i].amount \in Int /\ pay[i].fee \in Int
                            /\ pay[i].to \in Addrs /\ pay[i].created \in Int
  BY PayType DEF Stamps
<1>6. /\ Pruned' \subseteq DOMAIN pay /\ \A i \in Pruned' : pay[i].amount < 0 /\ pay[i].fee <= 0
      /\ \A i \in page : i \in Pruned' <=> pay[i].parent # 0
      /\ \A i \in DOMAIN pay \ page : i \in Pruned => i \in Pruned'
      /\ \A i \in DOMAIN pay : pay[i].to # to => (i \in Pruned' <=> i \in Pruned)
  <2>1. Pruned' = {i \in DOMAIN pay : pay[i].parent # 0 /\ pay[i].created <= payCursor'[pay[i].to]}
    BY <1>2 DEF Pruned
  <2>2. \A a \in Addrs : payCursor'[a] = IF a = to THEN f.end ELSE payCursor[a]
    BY <1>1, <1>2
  <2>3. \A i \in page : pay[i].to = to /\ pay[i].created <= f.end
    BY <1>1 DEF PayRange
  <2> QED BY <1>1, <1>2, <1>4, <1>5, <2>1, <2>2, <2>3 DEF Pruned, PaysSound
<1>7. /\ NTx \in Nat /\ p \in [1..NTx -> Int] /\ q \in [1..NTx -> Int] /\ d \in [1..NTx -> Int]
      /\ \A i \in 1..NTx : p[i] = d[i] + q[i]
      /\ \A i \in 1..NTx : i \notin page => p[i] = 0 /\ q[i] = 0
      /\ \A i \in page : i \in 1..NTx /\ p[i] = pay[i].amount /\ q[i] = pay[i].fee
  <2>1. NTx \in Nat /\ p \in [1..NTx -> Int] /\ q \in [1..NTx -> Int]
    BY <1>4, PartTypes
  <2>2. /\ \A i \in 1..NTx : i \notin page => p[i] = 0 /\ q[i] = 0
        /\ \A i \in page : i \in 1..NTx /\ p[i] = pay[i].amount /\ q[i] = pay[i].fee
    BY <1>4 DEF PayPart, PayFeePart, TypeOK, IsDocs, TxIds
  <2> HIDE DEF p, q
  <2> QED BY <2>1, <2>2
<1>8. \A i \in 1..NTx : i \notin page => d[i] = 0
  BY <1>7
<1>9. \A i \in page : d[i] = pay[i].amount - pay[i].fee
  BY <1>7
<1> HIDE DEF p, q, d
<1>10. f.sum - f.fee = SumTo(d, NTx) /\ SumTo(d, NTx) \in Int
  <2>1. SumTo(p, NTx) = SumTo(d, NTx) + SumTo(q, NTx)
    BY <1>7, SumAdd
  <2>2. SumTo(d, NTx) \in Int
    BY <1>7, SumToType
  <2> QED BY <1>1, <2>1, <2>2
<1>11. PaySum(PrunedOf(to))' <= PaySum(PrunedOf(to)) + SumTo(d, NTx)
  <2> DEFINE h == PayPart(PrunedOf(to))
             u == [i \in 1..NTx |-> h[i] + d[i]]
             new == {i \in Pruned' : pay[i].to = to}
             g == PayPart(new)
  <2>1. PrunedOf(to)' = new /\ new \subseteq DOMAIN pay /\ PrunedOf(to) \subseteq DOMAIN pay
    BY <1>2, <1>3, <1>6 DEF PrunedOf
  <2>2. PaySum(PrunedOf(to)) = SumTo(h, NTx) /\ PaySum(PrunedOf(to))' = SumTo(g, NTx)
    BY <1>2, <2>1 DEF PaySum, PayPart
  <2>3. h \in [1..NTx -> Int] /\ g \in [1..NTx -> Int]
    BY <2>1, PartTypes
  <2>4. /\ \A i \in 1..NTx : h[i] = IF i \in PrunedOf(to) THEN pay[i].amount ELSE 0
        /\ \A i \in 1..NTx : g[i] = IF i \in new THEN pay[i].amount ELSE 0
    BY DEF PayPart, TxIds
  <2> HIDE DEF h, g
  <2>5. u \in [1..NTx -> Int] /\ \A i \in 1..NTx : u[i] = h[i] + d[i]
    BY <1>7, <2>3
  <2> HIDE DEF u
  <2>6. ASSUME NEW i \in 1..NTx PROVE g[i] <= u[i]
    <3>1. CASE i \in page
      <4>1. h[i] = 0 /\ d[i] = pay[i].amount - pay[i].fee
        BY <1>4, <1>9, <2>4, <3>1 DEF PrunedOf
      <4>2. CASE pay[i].parent = 0
        <5>1. g[i] = 0 /\ pay[i].fee <= pay[i].amount
          BY <1>4, <1>6, <2>4, <3>1, <4>2
        <5> QED BY <1>4, <1>5, <2>5, <3>1, <4>1, <5>1
      <4>3. CASE pay[i].parent # 0
        <5>1. g[i] = pay[i].amount /\ pay[i].fee <= 0
          BY <1>4, <1>6, <2>4, <3>1, <4>3
        <5> QED BY <1>4, <1>5, <2>5, <3>1, <4>1, <5>1
      <4> QED BY <4>2, <4>3
    <3>2. CASE i \notin page
      <4>1. u[i] = h[i] /\ h[i] \in Int /\ g[i] \in Int
        BY <1>8, <2>3, <2>5, <3>2
      <4>2. i \in PrunedOf(to) => i \in new
        BY <1>3, <1>6, <3>2 DEF PrunedOf
      <4>3. i \in new => pay[i].amount < 0
        BY <1>6
      <4> QED BY <2>4, <4>1, <4>2, <4>3
    <3> QED BY <3>1, <3>2
  <2>7. SumTo(g, NTx) <= SumTo(u, NTx)
    BY <1>7, <2>3, <2>5, <2>6, SumMono
  <2>8. SumTo(u, NTx) = SumTo(h, NTx) + SumTo(d, NTx)
    BY <1>7, <2>3, <2>5, SumAdd
  <2> QED BY <2>2, <2>7, <2>8
<1>12. ASSUME NEW a \in Addrs, a # to
       PROVE  PaySum(PrunedOf(a))' = PaySum(PrunedOf(a)) /\ bal'[a] = bal[a]
  <2>1. PrunedOf(a)' = PrunedOf(a)
    BY <1>2, <1>3, <1>6, <1>12 DEF PrunedOf
  <2> QED BY <1>2, <1>12, <2>1 DEF PaySum
<1>13. PayFeeSum(Pruned)' <= PayFeeSum(Pruned) /\ PayFeeSum(Pruned)' <= PayFeeSum(Pruned) + f.fee
  <2> DEFINE h == PayFeePart(Pruned)
             u == [i \in 1..NTx |-> h[i] + q[i]]
             new == Pruned'
             g == PayFeePart(new)
  <2>1. h \in [1..NTx -> Int] /\ g \in [1..NTx -> Int]
    BY <1>3, <1>6, PartTypes
  <2>2. PayFeeSum(Pruned) = SumTo(h, NTx) /\ PayFeeSum(Pruned)' = SumTo(g, NTx)
    BY <1>2 DEF PayFeeSum, PayFeePart
  <2>3. /\ \A i \in 1..NTx : h[i] = IF i \in Pruned THEN pay[i].fee ELSE 0
        /\ \A i \in 1..NTx : g[i] = IF i \in new THEN pay[i].fee ELSE 0
    BY DEF PayFeePart, TxIds
  <2> HIDE DEF g, h
  <2>4. u \in [1..NTx -> Int] /\ \A i \in 1..NTx : u[i] = h[i] + q[i]
    BY <1>7, <2>1
  <2> HIDE DEF u
  <2>5. ASSUME NEW i \in 1..NTx PROVE g[i] <= h[i] /\ g[i] <= u[i]
    <3>1. g[i] \in Int /\ h[i] \in Int /\ q[i] \in Int
      BY <1>7, <2>1
    <3>2. CASE i \in page
      <4>1. h[i] = 0 /\ u[i] = pay[i].fee /\ pay[i].fee \in Int
        <5>1. i \in DOMAIN pay /\ i \notin Pruned /\ pay[i].fee \in Int
          BY <1>4, <1>5, <3>2
        <5>2. h[i] = 0 /\ q[i] = pay[i].fee /\ u[i] = h[i] + q[i]
          BY <1>7, <2>3, <2>4, <3>2, <5>1
        <5> QED BY <5>1, <5>2
      <4>2. CASE pay[i].parent = 0
        <5>1. g[i] = 0 /\ pay[i].fee >= 0
          BY <1>4, <1>6, <2>3, <3>2, <4>2 DEF PaysSound
        <5> QED BY <4>1, <5>1
      <4>3. CASE pay[i].parent # 0
        <5>1. g[i] = pay[i].fee /\ pay[i].fee <= 0
          BY <1>4, <1>6, <2>3, <3>2, <4>3
        <5> QED BY <4>1, <5>1
      <4> QED BY <4>2, <4>3
    <3>3. CASE i \notin page
      <4>1. u[i] = h[i]
        <5>1. q[i] = 0 /\ u[i] = h[i] + q[i]
          BY <1>7, <2>4, <3>3
        <5> QED BY <3>1, <5>1
      <4>2. i \in Pruned => i \in new
        BY <1>3, <1>6, <3>3
      <4>3. i \in new => pay[i].fee <= 0
        BY <1>6
      <4> QED BY <2>3, <3>1, <4>1, <4>2, <4>3
    <3> QED BY <3>2, <3>3
  <2>6. SumTo(g, NTx) <= SumTo(u, NTx) /\ SumTo(g, NTx) <= SumTo(h, NTx)
    BY <1>7, <2>1, <2>4, <2>5, SumMono
  <2>7. SumTo(u, NTx) = SumTo(h, NTx) + SumTo(q, NTx)
    BY <1>7, <2>1, <2>4, SumAdd
  <2> QED BY <1>1, <2>2, <2>6, <2>7
<1>14. /\ FeeSum(FeesReturned)' <= FeeSum(FeesReturned)
       /\ FeeSum(FeesBack)' = FeeSum(FeesBack) + IF f.fee < 0 THEN f.fee ELSE 0
  <2>1. TxId \in TxIds
    BY CommitType DEF PayPruneCommit
  <2> QED BY <1>1, <1>2, <2>1, NewFeeBack
<1>15. Taken' /\ \A a \in Addrs : bal[a] \in Int
  <2>1. PaysSound'
    BY <1>2 DEF PaysSound
  <2> QED BY <1>2, <2>1, TakenLowerNext
<1>16. ASSUME NEW a \in Addrs PROVE bal'[a] >= PaySum(PrunedOf(a))' + FeeSum(FeesReturned)'
  <2>1. CASE a = to
    <3>1. bal'[to] = bal[to] + SumTo(d, NTx)
      BY <1>1, <1>2, <1>10
    <3> QED BY <1>1, <1>3, <1>10, <1>11, <1>14, <1>15, <2>1, <3>1 DEF ShortByRefunds, Taken
  <2>2. CASE a # to
    BY <1>3, <1>12, <1>14, <1>15, <2>2 DEF ShortByRefunds, Taken
  <2> QED BY <2>1, <2>2
<1>17. FeeSum(FeesBack)' >= PayFeeSum(Pruned)'
  BY <1>1, <1>3, <1>13, <1>14, <1>15 DEF ShortByRefunds, Taken
<1> QED BY <1>16, <1>17 DEF ShortByRefunds

\* A prune of fees takes no more than the negative fees on its page.
LEMMA FeePruneShort ==
  ASSUME TypeOK, TypeOK', PaysSound, FlightsWatched, PagesUnpruned, ShortByRefunds,
         NEW f \in flight, FeePruneCommit(f)
  PROVE  ShortByRefunds'
<1> DEFINE to == f.account
           page == f.ids
           p == FeePart(page)
           h == FeePart(FeesReturned)
           new == FeesReturned'
           g == FeePart(new)
           u == [i \in 1..NTx |-> h[i] + p[i]]
<1>1. /\ to \in Addrs /\ f.base = bal[to] /\ f.end \in Int /\ feeCursor < f.end
      /\ page \subseteq FeeRange(feeCursor, f.end) /\ f.sum = SumTo(p, NTx) /\ f.sum \in Int
  BY DEF FeePruneCommit, FlightsWatched, PagesUnpruned, FeeSum, FeePart, TypeOK, Flight, Stamps
<1>2. /\ bal \in [Addrs -> Int] /\ bal' = [bal EXCEPT ![to] = f.base + f.sum]
      /\ UNCHANGED <<pay, payCursor, fee>> /\ feeCursor' = f.end /\ feeCursor \in Int
  BY DEF FeePruneCommit, TypeOK, Stamps
<1>3. Taken
  BY TakenLower
<1>4. \A i \in DOMAIN fee : fee[i].amount \in Int /\ fee[i].created \in Int
  BY DEF TypeOK, IsDocs, FeeDoc, Stamps
<1>5. /\ page \subseteq DOMAIN fee /\ FeesReturned \subseteq DOMAIN fee /\ new \subseteq DOMAIN fee
      /\ \A i \in page : i \notin FeesReturned /\ (fee[i].amount < 0 => i \in new)
      /\ FeesReturned \subseteq new /\ \A i \in new : fee[i].amount < 0
  BY <1>1, <1>2, <1>4 DEF FeeRange, FeesReturned, FeesBack
<1>6. /\ NTx \in Nat /\ p \in [1..NTx -> Int] /\ h \in [1..NTx -> Int] /\ g \in [1..NTx -> Int]
  BY <1>5, PartTypes
<1>7. /\ \A i \in 1..NTx : p[i] = IF i \in page THEN fee[i].amount ELSE 0
      /\ \A i \in 1..NTx : h[i] = IF i \in FeesReturned THEN fee[i].amount ELSE 0
      /\ \A i \in 1..NTx : g[i] = IF i \in new THEN fee[i].amount ELSE 0
  BY DEF FeePart, TxIds
<1>8. FeeSum(FeesReturned) = SumTo(h, NTx) /\ FeeSum(FeesReturned)' = SumTo(g, NTx)
  BY <1>2 DEF FeeSum, FeePart
<1> HIDE DEF p, h, g, new
<1>9. u \in [1..NTx -> Int] /\ \A i \in 1..NTx : u[i] = h[i] + p[i]
  BY <1>6
<1> HIDE DEF u
<1>10. ASSUME NEW i \in 1..NTx PROVE g[i] <= h[i] /\ g[i] <= u[i]
  <2>1. g[i] \in Int /\ h[i] \in Int /\ p[i] \in Int /\ u[i] = h[i] + p[i]
    BY <1>6, <1>9
  <2>2. CASE i \in page
    <3>1. h[i] = 0 /\ p[i] = fee[i].amount
      BY <1>5, <1>7, <2>2
    <3>2. i \in new <=> fee[i].amount < 0
      BY <1>5, <2>2
    <3> QED BY <1>7, <2>1, <3>1, <3>2
  <2>3. CASE i \notin page
    <3>1. p[i] = 0 /\ (i \in FeesReturned => i \in new) /\ (i \in new => fee[i].amount < 0)
      BY <1>5, <1>7, <2>3
    <3> QED BY <1>7, <2>1, <3>1
  <2> QED BY <2>2, <2>3
<1>11. SumTo(g, NTx) <= SumTo(h, NTx) /\ SumTo(g, NTx) <= SumTo(u, NTx)
  BY <1>6, <1>9, <1>10, SumMono
<1>12. SumTo(u, NTx) = SumTo(h, NTx) + SumTo(p, NTx)
  BY <1>6, <1>9, SumAdd
<1>13. SumTo(g, NTx) \in Int
  BY <1>6, SumToType
<1>14. \A a \in Addrs : PaySum(PrunedOf(a))' = PaySum(PrunedOf(a))
  BY <1>2 DEF PaySum, PrunedOf, Pruned
<1>15. ASSUME NEW a \in Addrs PROVE bal'[a] >= PaySum(PrunedOf(a))' + FeeSum(FeesReturned)'
  <2>1. /\ bal[a] \in Int /\ PaySum(PrunedOf(a)) \in Int /\ PaySum(PrunedOf(a)) <= 0
        /\ SumTo(h, NTx) \in Int /\ bal[a] >= PaySum(PrunedOf(a)) + SumTo(h, NTx)
    BY <1>2, <1>3, <1>8 DEF Taken, ShortByRefunds
  <2>2. CASE a = to
    <3>1. bal'[a] = bal[a] + SumTo(p, NTx)
      BY <1>1, <1>2, <2>2
    <3> QED BY <1>1, <1>8, <1>11, <1>12, <1>13, <1>14, <2>1, <3>1
  <2>3. CASE a # to
    <3>1. bal'[a] = bal[a]
      BY <1>2, <2>3
    <3> QED BY <1>8, <1>11, <1>13, <1>14, <2>1, <3>1
  <2> QED BY <2>2, <2>3
<1>16. FeeSum(FeesBack)' >= PayFeeSum(Pruned)'
  BY <1>2 DEF ShortByRefunds, FeeSum, FeesBack, PayFeeSum, Pruned
<1> QED BY <1>15, <1>16 DEF ShortByRefunds

----------------------------------------------------------------------------
(* The theorems.                                                           *)

LEMMA InitShort == Init => ShortByRefunds /\ PagesUnpruned
<1> SUFFICES ASSUME Init PROVE ShortByRefunds /\ PagesUnpruned
  OBVIOUS
<1>1. DOMAIN pay = {} /\ DOMAIN fee = {} /\ flight = {} /\ bal = InitBal
  BY DEF Init, NoDocs
<1>2. /\ Pruned = {} /\ FeesBack = {} /\ FeesReturned = {}
      /\ \A a \in Addrs : PrunedOf(a) = {}
  BY <1>1 DEF Pruned, PrunedOf, FeesBack, FeesReturned
<1> DEFINE zero == [i \in TxIds |-> 0]
<1>3. SumTo(zero, NTx) = 0
  <2>1. NTx \in Nat /\ zero \in [1..NTx -> Int] /\ \A i \in 1..NTx : zero[i] = 0
    BY SizeAssumption DEF TxIds
  <2> HIDE DEF zero
  <2> QED BY <2>1, SumZero
<1>4. PaySum({}) = 0 /\ PayFeeSum({}) = 0 /\ FeeSum({}) = 0
  BY <1>3 DEF PaySum, PayFeeSum, FeeSum
<1>5. \A a \in Addrs : bal[a] >= 0
  BY <1>1, DataAssumption
<1> QED BY <1>1, <1>2, <1>4, <1>5 DEF ShortByRefunds, PagesUnpruned

\* A step that makes no account short of more than refunds took from it.
LEMMA NextShort ==
  ASSUME AccountInv, DocumentInv, ShortByRefunds, PagesUnpruned, [Next]_vars,
         \A i \in DOMAIN pay : pay[i].parent = 0 => pay[i].fee <= pay[i].amount
  PROVE  ShortByRefunds' /\ PagesUnpruned'
<1>1. /\ TypeOK /\ KnownIds /\ EscrowHasOpenContract /\ PendingSound /\ OffersSound /\ PaysSound
      /\ FreeWithoutPolicy /\ FlightsWatched
  BY DEF DocumentInv
<1>2. TypeOK' /\ PaysSound'
  BY NextDocumentInv DEF DocumentInv
<1>3. PayFrame /\ FeeFrame
  BY <1>1, <1>2, StepPays, StepFees
<1>4. ASSUME QuietFunds PROVE ShortByRefunds'
  BY <1>1, <1>2, <1>3, <1>4, QuietShort
<1>5. ASSUME NEW f \in flight, PayPruneCommit(f) PROVE ShortByRefunds'
  BY <1>1, <1>2, <1>5, PayPruneShort
<1>6. ASSUME NEW f \in flight, FeePruneCommit(f) PROVE ShortByRefunds'
  BY <1>1, <1>2, <1>6, FeePruneShort
<1>7. ShortByRefunds'
  BY <1>1, <1>4, <1>5, <1>6, StepFunds
<1>8. PagesUnpruned'
  BY <1>1, <1>3, PagesStay
<1> QED BY <1>7, <1>8

\* When fees are fractions of the payments, the invariant holds in every reachable
\* state.
THEOREM ShortfallsExplained == ASSUME FairRates PROVE Spec => []OverdraftInv
<1>1. Init => OverdraftInv
  <2> SUFFICES ASSUME Init PROVE OverdraftInv
    OBVIOUS
  <2>1. token.policy = InitPolicy /\ DOMAIN pay = {}
    BY DEF Init, NoDocs
  <2>2. FeesWithinPays
    BY <2>1 DEF FeesWithinPays, FairRates
  <2> QED BY <2>2, InitShort DEF OverdraftInv
<1>2. AccountInv /\ DocumentInv /\ OverdraftInv /\ [Next]_vars => OverdraftInv'
  <2> SUFFICES ASSUME AccountInv, DocumentInv, OverdraftInv, [Next]_vars PROVE OverdraftInv'
    OBVIOUS
  <2>1. /\ TypeOK /\ KnownIds /\ EscrowHasOpenContract /\ PendingSound /\ OffersSound
        /\ FeesWithinPays /\ ShortByRefunds /\ PagesUnpruned
    BY DEF DocumentInv, OverdraftInv
  <2>2. TypeOK' /\ PayFrame /\ PolicyFrame
    BY <2>1, NextType, StepPays, StepPolicy
  <2>3. FeesWithinPays'
    BY <2>1, <2>2, FeesStayWithin
  <2>4. \A i \in DOMAIN pay : pay[i].parent = 0 => pay[i].fee <= pay[i].amount
    BY <2>1 DEF FeesWithinPays
  <2>5. ShortByRefunds' /\ PagesUnpruned'
    BY <2>1, <2>4, NextShort
  <2> QED BY <2>3, <2>5 DEF OverdraftInv
<1> QED BY <1>1, <1>2, AccountsWhole, DocumentsFit, PTL DEF Spec

\* Fewer documents of which none is worth anything are worth no less.
LEMMA FewerTaken ==
  ASSUME TypeOK, PaysSound
  PROVE  /\ \A s, t : /\ s \subseteq t /\ t \subseteq DOMAIN pay
                      /\ \A i \in t : pay[i].amount <= 0 /\ pay[i].fee <= 0
                      => PaySum(t) <= PaySum(s) /\ PayFeeSum(t) <= PayFeeSum(s)
         /\ FeeSum(FeesBack) <= FeeSum(FeesReturned)
<1>1. ASSUME NEW s, NEW t, s \subseteq t, t \subseteq DOMAIN pay,
             \A i \in t : pay[i].amount <= 0 /\ pay[i].fee <= 0
      PROVE  PaySum(t) <= PaySum(s) /\ PayFeeSum(t) <= PayFeeSum(s)
  <2>1. /\ PayPart(s) \in [1..NTx -> Int] /\ PayPart(t) \in [1..NTx -> Int] /\ NTx \in Nat
        /\ PayFeePart(s) \in [1..NTx -> Int] /\ PayFeePart(t) \in [1..NTx -> Int]
    BY <1>1, PartTypes
  <2>2. \A i \in 1..NTx : PayPart(t)[i] <= PayPart(s)[i] /\ PayFeePart(t)[i] <= PayFeePart(s)[i]
    BY <1>1, <2>1, PayType DEF PayPart, PayFeePart, TxIds
  <2>3. SumTo(PayPart(t), NTx) <= SumTo(PayPart(s), NTx)
    BY <2>1, <2>2, SumMono
  <2>4. SumTo(PayFeePart(t), NTx) <= SumTo(PayFeePart(s), NTx)
    BY <2>1, <2>2, SumMono
  <2> QED BY <2>3, <2>4 DEF PaySum, PayFeeSum, PayPart, PayFeePart
<1>2. FeeSum(FeesBack) <= FeeSum(FeesReturned)
  <2>1. /\ FeesReturned \subseteq FeesBack /\ FeesBack \subseteq DOMAIN fee
        /\ \A i \in FeesBack : fee[i].amount < 0
    BY DEF FeesReturned, FeesBack
  <2>2. /\ FeePart(FeesBack) \in [1..NTx -> Int] /\ FeePart(FeesReturned) \in [1..NTx -> Int]
        /\ NTx \in Nat /\ \A i \in DOMAIN fee : fee[i].amount \in Int
    BY <2>1, PartTypes DEF TypeOK, IsDocs, FeeDoc
  <2>3. \A i \in 1..NTx : FeePart(FeesBack)[i] <= FeePart(FeesReturned)[i]
    BY <2>1, <2>2 DEF FeePart, TxIds
  <2>4. SumTo(FeePart(FeesBack), NTx) <= SumTo(FeePart(FeesReturned), NTx)
    BY <2>2, <2>3, SumMono
  <2> QED BY <2>4 DEF FeeSum, FeePart
<1> QED BY <1>1, <1>2

\* When fees are fractions of the payments, no account is short of more than refunds
\* have taken: payRefund looks at no balance, and a prune takes what is not there,
\* but nothing else does, however the prunes and the payments interleave.
THEOREM OnlyRefundsOverdraw == ASSUME FairRates PROVE Spec => []OverdraftFromRefunds
<1>1. DocumentInv /\ OverdraftInv => OverdraftFromRefunds
  <2> SUFFICES ASSUME DocumentInv, OverdraftInv, NEW a \in Addrs
               PROVE  bal[a] >= PaySum(RefundsBy(a))
                                  + PayFeeSum(UNION {RefundsBy(b) : b \in Addrs})
    BY DEF OverdraftFromRefunds
  <2> DEFINE all == UNION {RefundsBy(b) : b \in Addrs}
  <2>1. TypeOK /\ PaysSound /\ ShortByRefunds
    BY DEF DocumentInv, OverdraftInv
  <2>2. /\ all \subseteq DOMAIN pay /\ Pruned \subseteq all
        /\ PrunedOf(a) \subseteq RefundsBy(a) /\ RefundsBy(a) \subseteq DOMAIN pay
        /\ \A i \in all : pay[i].amount <= 0 /\ pay[i].fee <= 0
        /\ \A i \in RefundsBy(a) : pay[i].amount <= 0 /\ pay[i].fee <= 0
    BY <2>1, PayType DEF RefundsBy, Pruned, PrunedOf, PaysSound
  <2> HIDE DEF all
  <2>3. PaySum(RefundsBy(a)) <= PaySum(PrunedOf(a)) /\ PayFeeSum(all) <= PayFeeSum(Pruned)
    BY <2>1, <2>2, FewerTaken
  <2>4. FeeSum(FeesBack) <= FeeSum(FeesReturned)
    BY <2>1, FewerTaken
  <2>5. /\ bal[a] \in Int /\ PaySum(RefundsBy(a)) \in Int /\ PayFeeSum(all) \in Int
    <3>1. /\ PayPart(RefundsBy(a)) \in [1..NTx -> Int] /\ PayFeePart(all) \in [1..NTx -> Int]
          /\ NTx \in Nat
      BY <2>1, <2>2, PartTypes
    <3>2. SumTo(PayPart(RefundsBy(a)), NTx) \in Int /\ SumTo(PayFeePart(all), NTx) \in Int
      BY <3>1, SumToType
    <3> QED BY <2>1, <3>2 DEF PaySum, PayFeeSum, PayPart, PayFeePart, TypeOK
  <2>6. Taken
    BY <2>1, TakenLower
  <2>7. bal[a] >= PaySum(RefundsBy(a)) + PayFeeSum(all)
    BY <2>1, <2>3, <2>4, <2>5, <2>6 DEF ShortByRefunds, Taken
  <2> QED BY <2>7 DEF all
<1> QED BY <1>1, ShortfallsExplained, DocumentsFit, PTL

\* Where nobody pays, a step keeps what is known of the balances.
Unpaid == DOMAIN pay = {} /\ ShortByRefunds /\ PagesUnpruned

PayFreeStep == TransferNext \/ SupplyNext \/ FeeNext \/ PersonalNext \/ Network

LEMMA SupplyUnpaid == SupplyNext => UNCHANGED pay
<1> SUFFICES ASSUME SupplyNext PROVE UNCHANGED pay
  OBVIOUS
<1>1. ASSUME NEW ts, NEW kid, NEW cid, NEW amount, NEW addrs, NEW meta,
             \/ TokenMint(kid, amount, ts) \/ TokenBurn(kid, amount, ts)
             \/ ExecuteTokenMint(cid, ts) \/ ExecuteTokenBurn(cid, ts) \/ CancelSupply(cid, ts)
             \/ TokenUpdate(meta, ts) \/ ExecuteTokenCreate(cid, meta, amount, ts)
             \/ TokenCreate(kid, addrs, meta, amount, ts)
      PROVE  UNCHANGED pay
  BY <1>1 DEF TokenMint, TokenBurn, ExecuteTokenMint, ExecuteTokenBurn, CancelSupply, TokenUpdate,
       TokenCreate, ExecuteTokenCreate, CreateToken, SupplyContract
<1> QED BY <1>1, SupplyActions

LEMMA StepUnpaid ==
  ASSUME AccountInv, DocumentInv, Unpaid, [PayFreeStep]_vars
  PROVE  Unpaid'
<1>1. [Next]_vars
  BY DEF PayFreeStep, Next, AccountNext
<1>2. UNCHANGED pay
  <2>1. TransferNext \/ AccountNext \/ SupplyNext => UNCHANGED pay
    BY TransfersWrite, AccountsWrite, SupplyUnpaid
  <2>2. FeeNext => UNCHANGED pay
    BY DEF FeeNext, FeePruneEndorse, FeePruneCommit, ledger
  <2>3. Network \/ UNCHANGED vars => UNCHANGED pay
    BY DEF Network, Tick, Drop, vars, ledger
  <2> QED BY <2>1, <2>2, <2>3 DEF PayFreeStep, AccountNext
<1> QED BY <1>1, <1>2, NextShort DEF Unpaid

LEMMA UnpaidCovered == DocumentInv /\ Unpaid => NoOverdraft
<1> SUFFICES ASSUME DocumentInv, Unpaid, NEW a \in Addrs PROVE bal[a] >= 0
  BY DEF NoOverdraft
<1>1. TypeOK /\ PaysSound /\ ShortByRefunds
  BY DEF DocumentInv, Unpaid
<1>2. Pruned = {} /\ PrunedOf(a) = {}
  BY DEF Pruned, PrunedOf, Unpaid
<1>3. PaySum({}) = 0 /\ PayFeeSum({}) = 0
  <2> DEFINE zero == [i \in TxIds |-> 0]
  <2>1. NTx \in Nat /\ zero \in [1..NTx -> Int] /\ \A i \in 1..NTx : zero[i] = 0
    BY SizeAssumption DEF TxIds
  <2>2. PaySum({}) = SumTo(zero, NTx) /\ PayFeeSum({}) = SumTo(zero, NTx)
    BY DEF PaySum, PayFeeSum
  <2> HIDE DEF zero
  <2> QED BY <2>1, <2>2, SumZero
<1>4. Taken /\ bal[a] \in Int
  BY <1>1, TakenLower DEF TypeOK
<1>5. FeeSum(FeesReturned) >= 0
  BY <1>1, <1>2, <1>3, <1>4, FewerTaken DEF ShortByRefunds, Taken
<1>6. PaySum(PrunedOf(a)) = 0 /\ bal[a] >= PaySum(PrunedOf(a)) + FeeSum(FeesReturned)
  BY <1>1, <1>2, <1>3 DEF ShortByRefunds
<1>7. FeeSum(FeesReturned) \in Int
  BY <1>4 DEF Taken
<1> QED BY <1>4, <1>5, <1>6, <1>7

LEMMA UnpaidStays == Init /\ [][PayFreeStep]_vars => []NoOverdraft
<1>1. Init /\ [][PayFreeStep]_vars => Spec
  <2>1. [PayFreeStep]_vars => [Next]_vars
    BY DEF PayFreeStep, Next, AccountNext
  <2> QED BY <2>1, PTL DEF Spec
<1>2. Init => Unpaid
  BY InitShort DEF Init, NoDocs, Unpaid
<1> QED BY <1>1, <1>2, StepUnpaid, UnpaidCovered, AccountsWhole, DocumentsFit, PTL

\* Where nobody pays, nobody is overdrawn: a transfer, a deposit, a withdrawal and a
\* prune of fees in any order leave no account with less than nothing.
THEOREM TransfersNeverOverdraw == TransferSpec => []NoOverdraft
<1>1. [TransferNext \/ FeeNext \/ PersonalNext \/ Network]_vars => [PayFreeStep]_vars
  BY DEF PayFreeStep
<1> QED BY <1>1, UnpaidStays, PTL DEF TransferSpec

\* Nor does a burn overdraw the genesis account, though the balance that its signers
\* saw may be gone when their contract is executed.
THEOREM BurnsNeverOverdraw == IssueSpec => []NoOverdraft
<1>1. [SupplyNext \/ TransferNext \/ PersonalNext \/ Network]_vars => [PayFreeStep]_vars
  BY DEF PayFreeStep
<1> QED BY <1>1, UnpaidStays, PTL DEF IssueSpec
=============================================================================
