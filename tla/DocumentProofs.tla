--------------------------- MODULE DocumentProofs ---------------------------
(***************************************************************************)
(* What is held, paid, refunded and charged fits together: DocumentInv is  *)
(* inductive.  Every handler is looked at once for each thing it may       *)
(* write: the keys it declares, the pending balances and contracts, the    *)
(* pays, the fees and the fee policy.  From the same invariant: what a     *)
(* suspended account keeps, what has_more promises and what the balance    *)
(* logs add up to.                                                         *)
(***************************************************************************)
EXTENDS SafetyProofs

----------------------------------------------------------------------------
(* Transactions write the keys they declare, so that a prune in flight     *)
(* notices whenever something it has read changes.                         *)

Obeys(written) ==
  /\ \A a \in Addrs : <<"balance", a>> \notin written =>
       bal'[a] = bal[a] /\ payCursor'[a] = payCursor[a]
  /\ \A a \in Addrs : <<"account", a>> \notin written => account'[a] = account[a]
  /\ <<"token", 0>> \notin written => UNCHANGED token
  /\ <<"feeCursor", 0>> \notin written => UNCHANGED feeCursor

Transaction == \E ts, written : Commit(ts, written) /\ Obeys(written)

Endorsement ==
  \/ \E ts \in Stamps, kid \in Kids, addr \in Addrs, safe \in PruneFlags, asked \in Stamps :
       PayPruneEndorse(kid, addr, safe, asked, ts)
  \/ \E ts \in Stamps, kid \in Kids, safe \in PruneFlags, asked \in Stamps :
       FeePruneEndorse(kid, safe, asked, ts)

\* A step that only writes balances, all of them declared.
LEMMA BalancesObey ==
  ASSUME NEW ts, NEW written, Commit(ts, written),
         \A a \in Addrs : <<"balance", a>> \notin written => bal'[a] = bal[a],
         UNCHANGED <<account, token, payCursor, feeCursor>>
  PROVE  Transaction
BY DEF Transaction, Obeys

\* Transfers.
LEMMA TransferTransaction ==
  ASSUME TypeOK, TransferNext
  PROVE  Transaction
<1> USE DataAssumption
<1>0. bal \in [Addrs -> Int]
  BY DEF TypeOK
<1>1. ASSUME NEW ts, NEW kid, NEW from \in Addrs, NEW to \in Addrs, NEW amount \in Nat, NEW extra,
             NEW due, TransferNow(kid, from, to, amount, extra, due, ts)
      PROVE  Transaction
  <2> DEFINE charge == CalcFee(from, "transfer", amount)
             less == Credit(bal, from, -(amount + charge))
             written == IF due > ts THEN {<<"balance", from>>}
                        ELSE {<<"balance", from>>, <<"balance", to>>}
  <2>1. charge \in Int
    BY CalcFeeType DEF Fns
  <2>2. less \in [Addrs -> Int] /\ \A a \in Addrs : a # from => less[a] = bal[a]
    BY <1>0, <2>1 DEF Credit
  <2>3. /\ bal' = less \/ bal' = Credit(less, to, amount)
        /\ Commit(ts, written) /\ (due > ts => bal' = less)
        /\ UNCHANGED <<account, token, payCursor, feeCursor>>
    BY <1>1 DEF TransferNow, Receive
  <2> HIDE DEF less
  <2>4. \A a \in Addrs : <<"balance", a>> \notin written => bal'[a] = bal[a]
    BY <2>2, <2>3 DEF Credit
  <2> HIDE DEF written
  <2> QED BY <2>3, <2>4, BalancesObey
<1>2. ASSUME NEW ts, NEW kid, NEW from \in Addrs, NEW to, NEW amount, NEW extra, NEW due,
             NEW expiry, TransferContract(kid, from, to, amount, extra, due, expiry, ts)
      PROVE  Transaction
  <2>1. /\ \A a \in Addrs : a # from => bal'[a] = bal[a]
        /\ Commit(ts, {<<"balance", from>>})
        /\ UNCHANGED <<account, token, payCursor, feeCursor>>
    BY <1>0, <1>2 DEF TransferContract, Deposit, Credit
  <2> QED BY <2>1, BalancesObey
<1>3. ASSUME NEW ts, NEW cid, ExecuteTransfer(cid, ts) PROVE Transaction
  <2> DEFINE written == IF con[cid].due > ts THEN {} ELSE {<<"balance", con[cid].to>>}
  <2>1. /\ Commit(ts, written) /\ UNCHANGED <<account, token, payCursor, feeCursor>>
        /\ IF con[cid].due > ts THEN bal' = bal
                                ELSE bal' = Credit(bal, con[cid].to, pend[cid].amount)
    BY <1>3 DEF ExecuteTransfer, Receive
  <2>2. \A a \in Addrs : <<"balance", a>> \notin written => bal'[a] = bal[a]
    BY <1>0, <2>1 DEF Credit
  <2> HIDE DEF written
  <2> QED BY <2>1, <2>2, BalancesObey
<1>4. ASSUME NEW ts, NEW i,
             Commit(ts, {<<"balance", pend[i].account>>}), Withdraw(i, ts),
             UNCHANGED <<account, token, payCursor, feeCursor>>
      PROVE  Transaction
  <2>1. \A a \in Addrs : a # pend[i].account => bal'[a] = bal[a]
    BY <1>0, <1>4 DEF Withdraw, Credit
  <2> QED BY <1>4, <2>1, BalancesObey
<1>5. ASSUME NEW ts, NEW i, NEW kid, CancelTransfer(i, ts) \/ BalancePendingWithdraw(kid, i, ts)
      PROVE  Transaction
  BY <1>4, <1>5 DEF CancelTransfer, BalancePendingWithdraw
<1> QED BY <1>1, <1>2, <1>3, <1>5 DEF TransferNext

\* Pays and the commits of prunes.
LEMMA PayTransaction ==
  ASSUME TypeOK, PayNext \/ FeeNext
  PROVE  Transaction \/ Endorsement
<1>0. bal \in [Addrs -> Int] /\ payCursor \in [Addrs -> {0} \cup Stamps]
  BY DEF TypeOK
<1>1. ASSUME NEW ts, NEW kid, NEW from, NEW to, NEW amount, NEW order, NEW memo, NEW expiry,
             \/ PayNow(kid, from, to, amount, order, memo, ts)
             \/ PayContract(kid, from, to, amount, order, memo, expiry, ts)
      PROVE  Transaction
  <2>1. /\ \A a \in Addrs : a # from => bal'[a] = bal[a]
        /\ Commit(ts, {<<"balance", from>>})
        /\ UNCHANGED <<account, token, payCursor, feeCursor>>
    BY <1>0, <1>1 DEF PayNow, PayContract, Deposit, Credit
  <2> QED BY <2>1, BalancesObey
<1>2. ASSUME NEW ts, NEW cid, ExecutePay(cid, ts) PROVE Transaction
  BY <1>2, BalancesObey DEF ExecutePay
<1>3. ASSUME NEW ts, NEW kid, NEW i, NEW amount, PayRefund(kid, i, amount, ts) PROVE Transaction
  <2>1. /\ \A a \in Addrs : a # pay[i].from => bal'[a] = bal[a]
        /\ Commit(ts, {<<"pay", i>>, <<"balance", pay[i].from>>})
        /\ UNCHANGED <<account, token, payCursor, feeCursor>>
    BY <1>0, <1>3 DEF PayRefund, Credit
  <2> QED BY <2>1, BalancesObey
<1>4. ASSUME NEW f, PayPruneCommit(f) PROVE Transaction
  <2>1. /\ \A a \in Addrs : a # f.account => bal'[a] = bal[a] /\ payCursor'[a] = payCursor[a]
        /\ Commit(f.ts, {<<"balance", f.account>>}) /\ UNCHANGED <<account, token, feeCursor>>
    BY <1>0, <1>4 DEF PayPruneCommit
  <2> QED BY <2>1 DEF Transaction, Obeys
<1>5. ASSUME NEW f, FeePruneCommit(f) PROVE Transaction
  <2>1. /\ \A a \in Addrs : a # f.account => bal'[a] = bal[a]
        /\ Commit(f.ts, {<<"balance", f.account>>, <<"feeCursor", 0>>})
        /\ UNCHANGED <<account, token, payCursor>>
    BY <1>0, <1>5 DEF FeePruneCommit
  <2> QED BY <2>1 DEF Transaction, Obeys
<1> QED BY <1>1, <1>2, <1>3, <1>4, <1>5 DEF PayNext, PayCalls, PayPrunes, FeeNext, Endorsement

\* Accounts.
LEMMA AccountTransaction ==
  ASSUME TypeOK, AccountNext
  PROVE  Transaction
<1>0. /\ bal \in [Addrs -> Int] /\ payCursor \in [Addrs -> {0} \cup Stamps]
      /\ account \in [Addrs -> AccountDoc]
  BY DEF TypeOK
<1>1. ASSUME NEW ts, NEW kid, AccountCreate(kid, ts) PROVE Transaction
  <2>1. /\ \A a \in Addrs : a # kid =>
             bal'[a] = bal[a] /\ payCursor'[a] = payCursor[a] /\ account'[a] = account[a]
        /\ Commit(ts, AccountKeys(kid)) /\ UNCHANGED <<token, feeCursor>>
    BY <1>0, <1>1 DEF AccountCreate, CreateAccount
  <2> QED BY <2>1 DEF Transaction, Obeys, AccountKeys
<1>2. ASSUME NEW ts, NEW kid, NEW suspended, SetSuspended(kid, suspended, ts) PROVE Transaction
  <2>1. /\ \A a \in Addrs : a # kid => account'[a] = account[a]
        /\ Commit(ts, {<<"account", kid>>}) /\ UNCHANGED <<token, bal, payCursor, feeCursor>>
    BY <1>0, <1>2 DEF SetSuspended
  <2> QED BY <2>1 DEF Transaction, Obeys
<1>3. ASSUME NEW ts, NEW doc, AccountContract(doc, ts) PROVE Transaction
  BY <1>3, BalancesObey DEF AccountContract
<1>4. ASSUME NEW ts, NEW kid, NEW addr, NEW other, NEW addrs,
             \/ AccountHolderAdd(kid, addr, other, ts) \/ AccountHolderRemove(kid, addr, other, ts)
             \/ AccountCreateJoint(kid, addrs, ts)
      PROVE  Transaction
  BY <1>3, <1>4 DEF AccountHolderAdd, AccountHolderRemove, AccountCreateJoint
<1>5. ASSUME NEW ts, NEW cid, NEW addr, ExecuteAccountCreate(cid, addr, ts) PROVE Transaction
  <2>1. /\ \A a \in Addrs : a # addr =>
             bal'[a] = bal[a] /\ payCursor'[a] = payCursor[a] /\ account'[a] = account[a]
        /\ Commit(ts, AccountKeys(addr)) /\ UNCHANGED <<token, feeCursor>>
    BY <1>0, <1>5 DEF ExecuteAccountCreate, CreateAccount
  <2> QED BY <2>1 DEF Transaction, Obeys, AccountKeys
<1>6. ASSUME NEW ts, NEW addr, NEW k, AddHolder(addr, k) \/ RemoveHolder(addr, k),
             Commit(ts, {<<"account", addr>>}), UNCHANGED <<token, bal, payCursor, feeCursor>>
      PROVE  Transaction
  <2>1. \A a \in Addrs : a # addr => account'[a] = account[a]
    BY <1>0, <1>6 DEF AddHolder, RemoveHolder
  <2> QED BY <1>6, <2>1 DEF Transaction, Obeys
<1>7. ASSUME NEW ts, NEW cid, NEW kid, NEW addr,
             \/ ExecuteAccountHolderAdd(cid, ts) \/ ExecuteAccountHolderRemove(cid, ts)
             \/ AccountHolderLeave(kid, addr, ts)
      PROVE  Transaction
  BY <1>6, <1>7 DEF ExecuteAccountHolderAdd, ExecuteAccountHolderRemove, AccountHolderLeave
<1>8. ASSUME NEW ts, NEW cid, CancelAccount(cid, ts) PROVE Transaction
  BY <1>8, BalancesObey DEF CancelAccount
<1>9. PersonalNext => Transaction
  BY <1>1, <1>2 DEF PersonalNext, AccountSuspend, AccountUnsuspend
<1>10. JointNext => Transaction
  BY <1>4, <1>5, <1>7, <1>8 DEF JointNext
<1> QED BY <1>9, <1>10 DEF AccountNext

\* The token.
LEMMA SupplyTransaction ==
  ASSUME TypeOK, SupplyNext
  PROVE  Transaction
<1>0. /\ bal \in [Addrs -> Int] /\ payCursor \in [Addrs -> {0} \cup Stamps]
      /\ account \in [Addrs -> AccountDoc]
  BY DEF TypeOK
<1>1. ASSUME NEW ts, NEW amount,
             \/ Mint(amount, ts) /\ Commit(ts, SupplyKeys)
             \/ Burn(amount, ts) /\ Commit(ts, BurnKeys(amount)),
             UNCHANGED <<account, payCursor, feeCursor>>
      PROVE  Transaction
  <2>1. \/ UNCHANGED <<bal, token>> /\ \E written : Commit(ts, written)
        \/ (\E diff : bal' = Credit(bal, Genesis, diff)) /\ Commit(ts, SupplyKeys)
    BY <1>1 DEF Mint, Burn, BurnKeys, Supply
  <2>2. CASE UNCHANGED <<bal, token>> /\ \E written : Commit(ts, written)
    BY <1>1, <2>2, BalancesObey
  <2>3. CASE (\E diff : bal' = Credit(bal, Genesis, diff)) /\ Commit(ts, SupplyKeys)
    <3>1. \A a \in Addrs : a # Genesis => bal'[a] = bal[a]
      BY <1>0, <2>3 DEF Credit
    <3> QED BY <1>1, <2>3, <3>1 DEF Transaction, Obeys, SupplyKeys
  <2> QED BY <2>1, <2>2, <2>3
<1>2. ASSUME NEW ts, NEW kind, NEW amount, SupplyContract(kind, amount, ts) PROVE Transaction
  BY <1>2, BalancesObey DEF SupplyContract
<1>3. ASSUME NEW ts, NEW kid, NEW amount, TokenMint(kid, amount, ts) \/ TokenBurn(kid, amount, ts)
      PROVE  Transaction
  BY <1>1, <1>2, <1>3 DEF TokenMint, TokenBurn
<1>4. ASSUME NEW ts, NEW cid, ExecuteTokenMint(cid, ts) \/ ExecuteTokenBurn(cid, ts)
      PROVE  Transaction
  BY <1>1, <1>4 DEF ExecuteTokenMint, ExecuteTokenBurn
<1>5. ASSUME NEW ts, NEW cid, CancelSupply(cid, ts) PROVE Transaction
  BY <1>5, BalancesObey DEF CancelSupply
<1>6. ASSUME NEW ts, NEW meta, TokenUpdate(meta, ts) PROVE Transaction
  BY <1>6 DEF TokenUpdate, Transaction, Obeys
<1>7. ASSUME NEW ts, NEW holders, NEW meta, NEW supply, CreateToken(holders, meta, supply, ts)
      PROVE  Transaction
  <2>1. /\ \A a \in Addrs : a # Genesis =>
             bal'[a] = bal[a] /\ payCursor'[a] = payCursor[a] /\ account'[a] = account[a]
        /\ Commit(ts, AccountKeys(Genesis) \cup {<<"token", 0>>}) /\ UNCHANGED feeCursor
    BY <1>0, <1>7 DEF CreateToken, CreateAccount
  <2> QED BY <2>1 DEF Transaction, Obeys, AccountKeys
<1>8. ASSUME NEW ts, NEW kid, NEW addrs, NEW meta, NEW supply,
             TokenCreate(kid, addrs, meta, supply, ts)
      PROVE  Transaction
  BY <1>7, <1>8, BalancesObey DEF TokenCreate
<1>9. ASSUME NEW ts, NEW cid, NEW meta, NEW supply, ExecuteTokenCreate(cid, meta, supply, ts)
      PROVE  Transaction
  BY <1>7, <1>9 DEF ExecuteTokenCreate
<1> QED BY <1>3, <1>4, <1>5, <1>6, <1>8, <1>9, SupplyActions

\* Every step is the commit of a transaction, the endorsement of a prune, or one
\* of the network, which only lets prunes go.
LEMMA Steps ==
  ASSUME TypeOK, [Next]_vars
  PROVE  \/ Transaction \/ Endorsement
         \/ UNCHANGED <<ntx, stamps, ledger>> /\ flight' \subseteq flight
<1>1. Network \/ UNCHANGED vars => UNCHANGED <<ntx, stamps, ledger>> /\ flight' \subseteq flight
  BY DEF Network, Tick, Drop, vars
<1> QED BY <1>1, TransferTransaction, PayTransaction, AccountTransaction, SupplyTransaction DEF Next

\* What an endorsed prune has read.
LEMMA EndorsedFlight ==
  ASSUME TypeOK, Endorsement, NEW f \in flight' \ flight
  PROVE  /\ f.base = bal[f.account] /\ f.account \in Addrs
         /\ \/ /\ f.kind = "pay" /\ payCursor[f.account] < f.end
               /\ ~account[f.account].suspended
               /\ f.ids \subseteq DOMAIN pay
               /\ \A i \in f.ids : /\ pay[i].to = f.account /\ payCursor[f.account] < pay[i].created
                                    /\ pay[i].created <= f.end
               /\ f.sum = PaySum(f.ids) /\ f.fee = PayFeeSum(f.ids)
            \/ /\ f.kind = "fee" /\ feeCursor < f.end /\ f.account = token.policy.target
               /\ token.policy # NoPolicy /\ f.fee = 0 /\ f.ids \subseteq DOMAIN fee
               /\ \A i \in f.ids : feeCursor < fee[i].created /\ fee[i].created <= f.end
               /\ f.sum = FeeSum(f.ids)
<1>1. CASE \E ts \in Stamps, kid \in Kids, addr \in Addrs, safe \in PruneFlags, asked \in Stamps :
             PayPruneEndorse(kid, addr, safe, asked, ts)
  <2>1. PICK ts \in Stamps, kid \in Kids, addr \in Addrs, safe \in PruneFlags, asked \in Stamps :
          PayPruneEndorse(kid, addr, safe, asked, ts)
    BY <1>1
  <2> DEFINE range == PayRange(addr, payCursor[addr], PruneEnd(safe, asked, ts))
             g(page, last) ==
               [kind |-> "pay", account |-> addr, ids |-> page, base |-> bal[addr],
                sum |-> PaySum(page), fee |-> PayFeeSum(page),
                end |-> pay[last].created, more |-> MoreIn(page, range),
                ts |-> ts, at |-> clock]
  <2>2. PICK page \in Pages(range, pay), last \in range :
          /\ last \in page /\ \A i \in page : pay[i].created <= pay[last].created
          /\ flight' = flight \cup {g(page, last)}
    BY <2>1 DEF PayPruneEndorse
  <2>3. /\ page \subseteq DOMAIN pay /\ payCursor[addr] < pay[last].created
        /\ \A i \in page : pay[i].to = addr /\ payCursor[addr] < pay[i].created
    BY DEF Pages, PayRange
  <2>4. ~account[addr].suspended
    BY <2>1 DEF PayPruneEndorse, MayAct
  <2>5. f = g(page, last)
    BY <2>2
  <2> HIDE DEF range
  <2> QED BY <2>2, <2>3, <2>4, <2>5
<1>2. CASE \E ts \in Stamps, kid \in Kids, safe \in PruneFlags, asked \in Stamps :
             FeePruneEndorse(kid, safe, asked, ts)
  <2>1. PICK ts \in Stamps, kid \in Kids, safe \in PruneFlags, asked \in Stamps :
          FeePruneEndorse(kid, safe, asked, ts)
    BY <1>2
  <2> DEFINE target == token.policy.target
             range  == FeeRange(feeCursor, PruneEnd(safe, asked, ts))
             g(page, last) ==
               [kind |-> "fee", account |-> target, ids |-> page, base |-> bal[target],
                sum |-> FeeSum(page), fee |-> 0, end |-> fee[last].created,
                more |-> MoreIn(page, range), ts |-> ts, at |-> clock]
  <2>2. token.policy # NoPolicy /\ target \in Addrs
    BY <2>1, TargetType DEF FeePruneEndorse
  <2>3. PICK page \in Pages(range, fee), last \in range :
          /\ last \in page /\ \A i \in page : fee[i].created <= fee[last].created
          /\ flight' = flight \cup {g(page, last)}
    BY <2>1 DEF FeePruneEndorse
  <2>4. /\ page \subseteq DOMAIN fee /\ feeCursor < fee[last].created
        /\ \A i \in page : feeCursor < fee[i].created
    BY DEF Pages, FeeRange
  <2>5. f = g(page, last)
    BY <2>3
  <2> HIDE DEF range
  <2> QED BY <2>2, <2>3, <2>4, <2>5
<1> QED BY <1>1, <1>2 DEF Endorsement

\* Whatever commits in between, a prune that is still in flight has read what
\* the ledger still has.
LEMMA FlightsStayWatched ==
  ASSUME TypeOK, FlightsWatched, [Next]_vars
  PROVE  FlightsWatched'
<1>1. CASE Transaction
  <2>1. PICK ts, written : Commit(ts, written) /\ Obeys(written)
    BY <1>1 DEF Transaction
  <2>2. ASSUME NEW f \in flight'
        PROVE  /\ f.base = bal'[f.account]
               /\ f.kind = "pay" => payCursor'[f.account] < f.end
                                     /\ ~account'[f.account].suspended
               /\ f.kind = "fee" => feeCursor' < f.end /\ f.account = token'.policy.target
    <3>1. f \in flight /\ Reads(f) \cap written = {}
      BY <2>1 DEF Commit
    <3>2. f.account \in Addrs /\ f.kind \in {"pay", "fee"}
      BY <3>1 DEF TypeOK, Flight
    <3>3. <<"account", f.account>> \notin written /\ <<"balance", f.account>> \notin written
      BY <3>1 DEF Reads, AccountKeys
    <3>4. f.kind = "fee" => <<"token", 0>> \notin written /\ <<"feeCursor", 0>> \notin written
      BY <3>1 DEF Reads
    <3> QED BY <2>1, <3>1, <3>2, <3>3, <3>4 DEF Obeys, FlightsWatched
  <2> QED BY <2>2 DEF FlightsWatched
<1>2. CASE Endorsement
  <2>1. UNCHANGED ledger
    BY <1>2 DEF Endorsement, PayPruneEndorse, FeePruneEndorse
  <2>2. \A f \in flight' \ flight : f.kind \in {"pay", "fee"}
    BY <1>2, EndorsedFlight
  <2> QED BY <1>2, <2>1, EndorsedFlight DEF FlightsWatched, ledger
<1>3. CASE UNCHANGED <<ntx, stamps, ledger>> /\ flight' \subseteq flight
  BY <1>3 DEF FlightsWatched, ledger
<1> QED BY <1>1, <1>2, <1>3, Steps

----------------------------------------------------------------------------
(* What is held: each handler leaves the other pending balances and their  *)
(* contracts alone, takes at most one of them and adds at most one.        *)

OfferKinds == {"transfer", "pay"}

\* The contract that holds a pending balance.
Backed(held, offer) ==
  /\ offer.status = "open" /\ offer.kind \in OfferKinds
  /\ offer.from = held.account /\ offer.amount = held.amount

HeldAfter(i) ==
  \/ /\ i \in DOMAIN pend /\ pend'[i] = pend[i]
     /\ pend[i].type = "contract" => i \in DOMAIN con' /\ con'[i] = con[i]
  \/ /\ pend'[i].amount > 0 /\ pend'[i].fee >= 0
     /\ token.policy = NoPolicy => pend'[i].fee = 0
     /\ pend'[i].type = "contract" => i \in DOMAIN con' /\ Backed(pend'[i], con'[i])

OfferAfter(i) ==
  \/ /\ i \in DOMAIN con /\ con'[i].kind = con[i].kind
     /\ con[i].kind \in OfferKinds =>
          /\ con'[i].amount = con[i].amount
          /\ con'[i].from = con[i].from /\ con'[i].to = con[i].to
  \/ con'[i].kind \in OfferKinds => con'[i].amount > 0 /\ con'[i].from # con'[i].to

HeldFrame ==
  /\ DOMAIN pend' \subseteq DOMAIN pend \cup {TxId} /\ \A i \in DOMAIN pend' : HeldAfter(i)
  /\ DOMAIN con' \subseteq DOMAIN con \cup {TxId} /\ \A i \in DOMAIN con' : OfferAfter(i)

\* What HeldFrame is for.
LEMMA HeldStays ==
  ASSUME EscrowHasOpenContract, PendingSound, OffersSound, HeldFrame
  PROVE  EscrowHasOpenContract' /\ PendingSound' /\ OffersSound'
<1>1. EscrowHasOpenContract'
  BY DEF EscrowHasOpenContract, HeldFrame, HeldAfter, Backed, OfferKinds
<1>2. PendingSound'
  BY DEF PendingSound, HeldFrame, HeldAfter
<1>3. OffersSound'
  BY DEF OffersSound, HeldFrame, OfferAfter, OfferKinds
<1> QED BY <1>1, <1>2, <1>3

\* The id of a transaction is new.
LEMMA NewId ==
  ASSUME TypeOK, KnownIds
  PROVE  /\ TxId \notin DOMAIN pend /\ TxId \notin DOMAIN con
         /\ TxId \notin DOMAIN pay /\ TxId \notin DOMAIN fee
<1>1. ntx \in Int
  BY SizeAssumption DEF TypeOK
<1> QED BY <1>1 DEF KnownIds, TxId

\* Nothing is charged without a policy.
LEMMA NoCharge ==
  ASSUME TypeOK, token.policy = NoPolicy, NEW payer, NEW fn \in Fns, NEW amount \in Int
  PROVE  CalcFee(payer, fn, amount) = 0
<1>1. token.policy.rates[fn] = [num |-> 0, den |-> 1, max |-> 0]
  BY DEF NoPolicy, NoRates
<1>2. (amount * 0) \div 1 = 0
  BY Z3
<1> QED BY <1>1, <1>2 DEF CalcFee

\* A rate that is a fraction charges no more than the amount.
LEMMA FractionCharge ==
  ASSUME TypeOK, NEW payer, NEW fn \in Fns, NEW amount \in Nat,
         IsFraction(token.policy.rates[fn])
  PROVE  CalcFee(payer, fn, amount) <= amount
<1> DEFINE rate == token.policy.rates[fn]
           raw  == (amount * rate.num) \div rate.den
<1>1. rate.num \in Int /\ rate.den \in Nat \ {0} /\ rate.max \in Int /\ rate.num <= rate.den
  BY DEF TypeOK, TokenDoc, Policy, NoPolicy, NoRates, Rate, IsFraction
<1> HIDE DEF rate
<1>2. \A m \in Int, d \in Nat \ {0} : m <= d => amount * m <= amount * d
  BY Z3
<1>3. \A x \in Int, d \in Nat \ {0} : x <= amount * d => x \div d <= amount /\ x \div d \in Int
  BY Z3
<1>4. amount * rate.num \in Int /\ amount * rate.num <= amount * rate.den
  BY <1>1, <1>2
<1>5. raw \in Int /\ raw <= amount
  BY <1>1, <1>3, <1>4
<1> HIDE DEF raw
<1> QED BY <1>1, <1>5 DEF CalcFee, raw, rate

\* Contracts of other components.
LEMMA OtherContracts ==
  ASSUME TypeOK, KnownIds, EscrowHasOpenContract, UNCHANGED pend,
         \/ UNCHANGED con
         \/ \E doc : OpenContract(doc) /\ doc.kind \notin OfferKinds
         \/ \E cid \in DOMAIN con, status \in {"executed", "cancelled"} :
              CloseContract(cid, status) /\ con[cid].kind \notin OfferKinds
  PROVE  HeldFrame
<1>0. \A i \in DOMAIN pend : pend[i].type = "contract" => i \in DOMAIN con /\ con[i].kind \in OfferKinds
  BY DEF EscrowHasOpenContract, OfferKinds
<1>1. CASE UNCHANGED con
  BY <1>0, <1>1 DEF HeldFrame, HeldAfter, OfferAfter
<1>2. ASSUME NEW doc, OpenContract(doc), doc.kind \notin OfferKinds PROVE HeldFrame
  <2>1. /\ DOMAIN con' = DOMAIN con \cup {TxId} /\ con'[TxId] = doc
        /\ \A i \in DOMAIN con : con'[i] = con[i]
    BY <1>2, NewId DEF OpenContract, PutDoc
  <2> QED BY <1>0, <1>2, <2>1 DEF HeldFrame, HeldAfter, OfferAfter
<1>3. ASSUME NEW cid \in DOMAIN con, NEW status \in {"executed", "cancelled"},
             CloseContract(cid, status), con[cid].kind \notin OfferKinds
      PROVE  HeldFrame
  <2>1. /\ DOMAIN con' = DOMAIN con /\ \A i \in DOMAIN con : i # cid => con'[i] = con[i]
        /\ con'[cid] = [con[cid] EXCEPT !.status = status] /\ con[cid] \in ContractDoc
    BY <1>3 DEF CloseContract, TypeOK, IsDocs
  <2>2. con'[cid].kind = con[cid].kind
    BY <2>1 DEF ContractDoc
  <2> QED BY <1>0, <1>3, <2>1, <2>2 DEF HeldFrame, HeldAfter, OfferAfter
<1> QED BY <1>1, <1>2, <1>3

\* A deposit and the contract that holds it.
LEMMA DepositHeld ==
  ASSUME TypeOK, KnownIds, EscrowHasOpenContract,
         NEW addr, NEW amount \in Nat, amount > 0, NEW charge \in Nat,
         token.policy = NoPolicy => charge = 0, NEW expiry, NEW ts,
         Deposit(addr, amount, charge, expiry, ts), NEW doc, OpenContract(doc),
         doc.kind \in OfferKinds, doc.status = "open", doc.from = addr, doc.to # addr,
         doc.amount = amount
  PROVE  HeldFrame
<1> DEFINE held == [type |-> "contract", account |-> addr, rid |-> TxId,
                    amount |-> amount, fee |-> charge, due |-> expiry]
<1>1. /\ DOMAIN pend' = DOMAIN pend \cup {TxId} /\ pend'[TxId] = held
      /\ \A i \in DOMAIN pend : pend'[i] = pend[i]
  BY NewId DEF Deposit, PutDoc
<1>2. /\ DOMAIN con' = DOMAIN con \cup {TxId} /\ con'[TxId] = doc
      /\ \A i \in DOMAIN con : con'[i] = con[i]
  BY NewId DEF OpenContract, PutDoc
<1>3. \A i \in DOMAIN pend : HeldAfter(i)
  BY <1>1, <1>2 DEF HeldAfter, EscrowHasOpenContract
<1>4. held.amount = amount /\ held.fee = charge /\ Backed(held, doc)
  BY DEF Backed
<1> HIDE DEF held
<1>5. HeldAfter(TxId) /\ OfferAfter(TxId)
  BY <1>1, <1>2, <1>4 DEF HeldAfter, OfferAfter
<1>6. \A i \in DOMAIN con : OfferAfter(i)
  BY <1>2 DEF OfferAfter
<1> QED BY <1>1, <1>2, <1>3, <1>5, <1>6 DEF HeldFrame

\* A contract that closes and takes what was held for it.
LEMMA TakenHeld ==
  ASSUME TypeOK, KnownIds, EscrowHasOpenContract, NEW i \in DOMAIN pend,
         \/ UNCHANGED con
         \/ i \in DOMAIN con /\ \E status \in {"executed", "cancelled"} : CloseContract(i, status),
         NEW after, pend' = after \/ \E doc : /\ pend' = PutDoc(after, TxId, doc)
                                              /\ doc.type = "account"
                                              /\ doc.amount > 0 /\ doc.fee = 0,
         after = DelDoc(pend, i)
  PROVE  HeldFrame
<1>1. /\ DOMAIN con' = DOMAIN con /\ \A j \in DOMAIN con : j # i => con'[j] = con[j]
      /\ \A j \in DOMAIN con : OfferAfter(j)
  <2>1. CASE UNCHANGED con
    BY <2>1 DEF OfferAfter
  <2>2. ASSUME i \in DOMAIN con, NEW status \in {"executed", "cancelled"}, CloseContract(i, status)
        PROVE  /\ DOMAIN con' = DOMAIN con /\ \A j \in DOMAIN con : j # i => con'[j] = con[j]
               /\ \A j \in DOMAIN con : OfferAfter(j)
    <3>1. /\ DOMAIN con' = DOMAIN con /\ \A j \in DOMAIN con : j # i => con'[j] = con[j]
          /\ con'[i] = [con[i] EXCEPT !.status = status] /\ con[i] \in ContractDoc
      BY <2>2 DEF CloseContract, TypeOK, IsDocs
    <3>2. /\ con'[i].kind = con[i].kind
          /\ con[i].kind \in OfferKinds =>
               /\ con'[i].amount = con[i].amount
               /\ con'[i].from = con[i].from /\ con'[i].to = con[i].to
      BY <3>1 DEF ContractDoc, OfferKinds
    <3> QED BY <2>2, <3>1, <3>2 DEF OfferAfter
  <2> QED BY <2>1, <2>2
<1>2. DOMAIN after = DOMAIN pend \ {i} /\ \A j \in DOMAIN after : after[j] = pend[j]
  BY DEF DelDoc
<1>3. \A j \in DOMAIN after : pend[j].type = "contract" => j \in DOMAIN con' /\ con'[j] = con[j]
  BY <1>1, <1>2 DEF EscrowHasOpenContract
<1>4. CASE pend' = after
  BY <1>1, <1>2, <1>3, <1>4 DEF HeldFrame, HeldAfter
<1>5. ASSUME NEW doc, pend' = PutDoc(after, TxId, doc), doc.type = "account",
             doc.amount > 0, doc.fee = 0
      PROVE  HeldFrame
  <2>1. /\ DOMAIN pend' = DOMAIN after \cup {TxId} /\ pend'[TxId] = doc
        /\ \A j \in DOMAIN after : pend'[j] = after[j]
    BY <1>2, <1>5, NewId DEF PutDoc
  <2>2. HeldAfter(TxId)
    BY <1>5, <2>1 DEF HeldAfter
  <2>3. \A j \in DOMAIN after : HeldAfter(j)
    BY <1>2, <1>3, <2>1 DEF HeldAfter
  <2> QED BY <1>1, <1>2, <2>1, <2>2, <2>3 DEF HeldFrame
<1> QED BY <1>4, <1>5

\* Transfers.
LEMMA TransferHeld ==
  ASSUME TypeOK, KnownIds, EscrowHasOpenContract, PendingSound, TransferNext
  PROVE  HeldFrame
<1> USE DataAssumption
<1>1. ASSUME NEW ts \in Stamps, NEW kid, NEW from \in Addrs, NEW to \in Addrs, NEW amount \in Nat,
             NEW extra, NEW due \in Nat, TransferNow(kid, from, to, amount, extra, due, ts)
      PROVE  HeldFrame
  <2> DEFINE held == [type |-> "account", account |-> to, rid |-> from,
                      amount |-> amount, fee |-> 0, due |-> due]
  <2>1. amount > 0 /\ UNCHANGED con /\ (UNCHANGED pend \/ pend' = PutDoc(pend, TxId, held))
    BY <1>1 DEF TransferNow, MayTransfer, Receive
  <2>2. held.type = "account" /\ held.amount = amount /\ held.fee = 0
    OBVIOUS
  <2> HIDE DEF held
  <2>3. CASE UNCHANGED pend
    BY <2>1, <2>3, OtherContracts
  <2>4. CASE pend' = PutDoc(pend, TxId, held)
    <3>1. /\ DOMAIN pend' = DOMAIN pend \cup {TxId} /\ pend'[TxId] = held
          /\ \A j \in DOMAIN pend : pend'[j] = pend[j]
      BY <2>4, NewId DEF PutDoc
    <3>2. HeldAfter(TxId)
      BY <2>1, <2>2, <3>1 DEF HeldAfter
    <3>3. \A j \in DOMAIN pend : HeldAfter(j)
      BY <2>1, <3>1 DEF HeldAfter, EscrowHasOpenContract
    <3>4. \A j \in DOMAIN con : OfferAfter(j)
      BY <2>1 DEF OfferAfter
    <3> QED BY <2>1, <3>1, <3>2, <3>3, <3>4 DEF HeldFrame
  <2> QED BY <2>1, <2>3, <2>4
<1>2. ASSUME NEW ts \in Stamps, NEW kid, NEW from \in Addrs, NEW to \in Addrs, NEW amount \in Nat,
             NEW extra, NEW due, NEW expiry,
             TransferContract(kid, from, to, amount, extra, due, expiry, ts)
      PROVE  HeldFrame
  <2> DEFINE doc == [kind |-> "transfer", status |-> "open", from |-> from, to |-> to,
                     amount |-> amount, due |-> IF due > ts THEN due ELSE 0,
                     order |-> "", memo |-> ""]
             charge == CalcFee(from, "transfer", amount)
  <2>1. /\ amount > 0 /\ from # to /\ OpenContract(doc)
        /\ Deposit(from, amount, charge, expiry, ts)
    BY <1>2 DEF TransferContract, MayTransfer
  <2>2. charge \in Nat /\ (token.policy = NoPolicy => charge = 0)
    BY CalcFeeType, NoCharge DEF Fns
  <2>3. /\ doc.kind \in OfferKinds /\ doc.status = "open" /\ doc.from = from /\ doc.to = to
        /\ doc.amount = amount
    BY DEF OfferKinds
  <2> HIDE DEF doc, charge
  <2> QED BY <2>1, <2>2, <2>3, DepositHeld
<1>3. ASSUME NEW ts, NEW cid, ExecuteTransfer(cid, ts) PROVE HeldFrame
  <2> DEFINE held == [type |-> "account", account |-> con[cid].to, rid |-> pend[cid].account,
                      amount |-> pend[cid].amount, fee |-> 0, due |-> con[cid].due]
             after == DelDoc(pend, cid)
  <2>1. /\ cid \in DOMAIN pend /\ cid \in DOMAIN con /\ CloseContract(cid, "executed")
        /\ pend' = after \/ pend' = PutDoc(after, TxId, held)
    BY <1>3 DEF ExecuteTransfer, OwnsPending, Receive
  <2>2. held.type = "account" /\ held.amount > 0 /\ held.fee = 0
    BY <2>1 DEF PendingSound
  <2> HIDE DEF held
  <2> QED BY <2>1, <2>2, TakenHeld
<1>4. ASSUME NEW ts, NEW i, NEW kid, CancelTransfer(i, ts) \/ BalancePendingWithdraw(kid, i, ts)
      PROVE  HeldFrame
  <2>1. /\ i \in DOMAIN pend /\ pend' = DelDoc(pend, i)
        /\ UNCHANGED con \/ (i \in DOMAIN con /\ CloseContract(i, "cancelled"))
    BY <1>4 DEF CancelTransfer, BalancePendingWithdraw, OwnsPending, Withdraw
  <2> QED BY <2>1, TakenHeld
<1>5. \A ts \in Stamps, d \in Terms : ts + d \in Nat
  <2>1. Terms \subseteq Nat
    OBVIOUS
  <2> QED BY ONLY <2>1 DEF Stamps
<1> QED BY <1>1, <1>2, <1>3, <1>4, <1>5 DEF TransferNext

\* Payments.
LEMMA PayHeld ==
  ASSUME TypeOK, KnownIds, EscrowHasOpenContract, PayNext
  PROVE  HeldFrame
<1> USE DataAssumption
<1>1. ASSUME NEW ts, NEW kid, NEW from, NEW to, NEW amount \in Nat, NEW order, NEW memo,
             NEW expiry, PayContract(kid, from, to, amount, order, memo, expiry, ts)
      PROVE  HeldFrame
  <2> DEFINE doc == [kind |-> "pay", status |-> "open", from |-> from, to |-> to,
                     amount |-> amount, due |-> 0, order |-> order, memo |-> memo]
  <2>1. amount > 0 /\ from # to /\ OpenContract(doc) /\ Deposit(from, amount, 0, expiry, ts)
    BY <1>1 DEF PayContract, MayPay
  <2>2. /\ doc.kind \in OfferKinds /\ doc.status = "open" /\ doc.from = from /\ doc.to = to
        /\ doc.amount = amount
    BY DEF OfferKinds
  <2> HIDE DEF doc
  <2> QED BY <2>1, <2>2, DepositHeld
<1>2. ASSUME NEW ts, NEW cid, ExecutePay(cid, ts) PROVE HeldFrame
  <2>1. /\ cid \in DOMAIN pend /\ cid \in DOMAIN con /\ CloseContract(cid, "executed")
        /\ pend' = DelDoc(pend, cid)
    BY <1>2 DEF ExecutePay, OwnsPending, PayPendingBalance
  <2> QED BY <2>1, TakenHeld
<1>3. UNCHANGED <<pend, con>> => HeldFrame
  BY OtherContracts
<1>4. ASSUME NEW ts, NEW kid, NEW from, NEW to, NEW amount, NEW order, NEW memo,
             PayNow(kid, from, to, amount, order, memo, ts)
      PROVE  HeldFrame
  BY <1>3, <1>4 DEF PayNow
<1>5. ASSUME NEW ts, NEW kid, NEW i, NEW amount, PayRefund(kid, i, amount, ts) PROVE HeldFrame
  BY <1>3, <1>5 DEF PayRefund
<1>6. ASSUME NEW f, PayPruneCommit(f) PROVE HeldFrame
  BY <1>3, <1>6 DEF PayPruneCommit
<1>7. ASSUME NEW ts, NEW kid, NEW addr, NEW safe, NEW asked,
             PayPruneEndorse(kid, addr, safe, asked, ts)
      PROVE  HeldFrame
  BY <1>3, <1>7 DEF PayPruneEndorse, ledger
<1>8. ASSUME NEW ts, NEW kid, NEW from, NEW to, NEW amount \in Amounts, NEW order, NEW memo,
             NEW d, PayContract(kid, from, to, amount, order, memo, ts + d, ts)
      PROVE  HeldFrame
  BY <1>1, <1>8
<1> QED BY ONLY PayNext, <1>2, <1>4, <1>5, <1>6, <1>7, <1>8, PayActions

\* Accounts hold nothing and their contracts move nothing.
LEMMA AccountHeld ==
  ASSUME TypeOK, KnownIds, EscrowHasOpenContract, AccountNext
  PROVE  HeldFrame
<1>1. ASSUME NEW ts, NEW doc, AccountContract(doc, ts), doc.kind \notin OfferKinds PROVE HeldFrame
  BY <1>1, OtherContracts DEF AccountContract
<1>2. ASSUME NEW ts, NEW cid, NEW kid, NEW addr, NEW suspended,
             \/ AccountCreate(kid, ts) \/ SetSuspended(kid, suspended, ts)
             \/ AccountHolderLeave(kid, addr, ts)
      PROVE  HeldFrame
  <2>1. UNCHANGED <<pend, con>>
    BY <1>2 DEF AccountCreate, SetSuspended, AccountHolderLeave
  <2> QED BY <2>1, OtherContracts
<1>3. ASSUME NEW ts, NEW cid, NEW addr,
             \/ ExecuteAccountCreate(cid, addr, ts) \/ ExecuteAccountHolderAdd(cid, ts)
             \/ ExecuteAccountHolderRemove(cid, ts) \/ CancelAccount(cid, ts)
      PROVE  HeldFrame
  <2>1. /\ cid \in DOMAIN con /\ con[cid].kind \notin OfferKinds /\ UNCHANGED pend
        /\ \E status \in {"executed", "cancelled"} : CloseContract(cid, status)
    BY <1>3 DEF ExecuteAccountCreate, ExecuteAccountHolderAdd, ExecuteAccountHolderRemove,
                CancelAccount, OfferKinds
  <2> QED BY <2>1, OtherContracts
<1>4. ASSUME NEW ts, NEW kid, NEW addr, NEW other, NEW addrs,
             \/ AccountHolderAdd(kid, addr, other, ts) \/ AccountHolderRemove(kid, addr, other, ts)
             \/ AccountCreateJoint(kid, addrs, ts)
      PROVE  HeldFrame
  <2>1. \E doc : AccountContract(doc, ts) /\ doc.kind \notin OfferKinds
    BY <1>4 DEF AccountHolderAdd, AccountHolderRemove, AccountCreateJoint, OfferKinds
  <2> QED BY <1>1, <2>1
<1>5. PersonalNext => HeldFrame
  BY <1>2 DEF PersonalNext, AccountSuspend, AccountUnsuspend
<1>6. JointNext => HeldFrame
  BY <1>2, <1>3, <1>4 DEF JointNext
<1> QED BY <1>5, <1>6 DEF AccountNext

\* Neither does the token.
LEMMA SupplyHeld ==
  ASSUME TypeOK, KnownIds, EscrowHasOpenContract, SupplyNext
  PROVE  HeldFrame
<1>1. ASSUME NEW ts, NEW kind, NEW amount, SupplyContract(kind, amount, ts), kind \notin OfferKinds
      PROVE  HeldFrame
  <2>1. \E doc : OpenContract(doc) /\ doc.kind \notin OfferKinds
    BY <1>1 DEF SupplyContract
  <2> QED BY <1>1, <2>1, OtherContracts DEF SupplyContract
<1>2. ASSUME NEW ts, NEW kid, NEW amount, TokenMint(kid, amount, ts) \/ TokenBurn(kid, amount, ts)
      PROVE  HeldFrame
  <2>1. UNCHANGED <<pend, con>> \/ \E kind : SupplyContract(kind, amount, ts) /\ kind \notin OfferKinds
    BY <1>2 DEF TokenMint, TokenBurn, OfferKinds
  <2> QED BY <1>1, <2>1, OtherContracts
<1>3. ASSUME NEW ts, NEW cid, NEW meta, NEW supply,
             \/ ExecuteTokenMint(cid, ts) \/ ExecuteTokenBurn(cid, ts) \/ CancelSupply(cid, ts)
             \/ ExecuteTokenCreate(cid, meta, supply, ts)
      PROVE  HeldFrame
  <2>1. /\ cid \in DOMAIN con /\ con[cid].kind \notin OfferKinds /\ UNCHANGED pend
        /\ \E status \in {"executed", "cancelled"} : CloseContract(cid, status)
    BY <1>3 DEF ExecuteTokenMint, ExecuteTokenBurn, CancelSupply, ExecuteTokenCreate, CreateToken,
                OfferKinds
  <2> QED BY <2>1, OtherContracts
<1>4. ASSUME NEW ts, NEW meta, TokenUpdate(meta, ts) PROVE HeldFrame
  BY <1>4, OtherContracts DEF TokenUpdate
<1>5. ASSUME NEW ts, NEW kid, NEW addrs, NEW meta, NEW supply,
             TokenCreate(kid, addrs, meta, supply, ts)
      PROVE  HeldFrame
  <2>1. UNCHANGED pend /\ (UNCHANGED con \/ \E doc : OpenContract(doc) /\ doc.kind \notin OfferKinds)
    BY <1>5 DEF TokenCreate, CreateToken, OfferKinds
  <2> QED BY <2>1, OtherContracts
<1> QED BY <1>2, <1>3, <1>4, <1>5, SupplyActions

\* Every step.
LEMMA StepHeld ==
  ASSUME TypeOK, KnownIds, EscrowHasOpenContract, PendingSound, [Next]_vars
  PROVE  HeldFrame
<1>1. CASE FeeNext \/ Network \/ UNCHANGED vars
  <2>1. UNCHANGED <<pend, con>>
    BY <1>1 DEF FeeNext, FeePruneEndorse, FeePruneCommit, Network, Tick, Drop, vars, ledger
  <2> QED BY <2>1, OtherContracts
<1> QED BY <1>1, TransferHeld, PayHeld, AccountHeld, SupplyHeld DEF Next

----------------------------------------------------------------------------
(* What is paid: a new pay is a payment or the refund of one.              *)

\* A transaction commits with the timestamp ts.
Stamped(ts) == stamps' = stamps \cup {ts} /\ (DistinctStamps => ts \notin stamps)

\* A new pay, and the pays before it but for the total_refund of one.
PutPayOf(doc, p, back) ==
  /\ Stamped(doc.created)
  /\ DOMAIN pay' = DOMAIN pay \cup {TxId} /\ pay'[TxId] = doc
  /\ \A i \in DOMAIN pay :
       pay'[i] = IF i = p THEN [pay[i] EXCEPT !.totalRefund = @ + back] ELSE pay[i]

\* A payment to somebody else, or the refund of `back' of payment p.
IsPayment(doc) ==
  /\ doc.parent = 0 /\ doc.totalRefund = 0 /\ doc.from # doc.to
  /\ doc.amount > 0 /\ doc.fee >= 0
  /\ token.policy = NoPolicy => doc.fee = 0
  /\ IsFraction(token.policy.rates["pay"]) => doc.fee <= doc.amount

IsRefund(doc, p, back) ==
  /\ doc.parent = p /\ doc.totalRefund = 0 /\ doc.to = pay[p].to /\ doc.from = pay[p].from
  /\ doc.amount = -back /\ doc.fee = -RefundFee(pay[p], back)

PayFrame ==
  \/ UNCHANGED pay
  \/ \E doc \in PayDoc : PutPayOf(doc, 0, 0) /\ IsPayment(doc)
  \/ \E doc \in PayDoc, p \in DOMAIN pay, back \in Nat \ {0} :
       /\ PutPayOf(doc, p, back) /\ IsRefund(doc, p, back)
       /\ pay[p].totalRefund + back <= pay[p].amount

\* Only three handlers leave new pays.
LEMMA PayWriters ==
  ASSUME [Next]_vars
  PROVE  \/ UNCHANGED pay
         \/ \E ts \in Stamps, kid \in Kids, from, to \in Addrs, amount \in Amounts,
              order \in Orders, memo \in Memos : PayNow(kid, from, to, amount, order, memo, ts)
         \/ \E ts \in Stamps, i \in TxIds : ExecutePay(i, ts)
         \/ \E ts \in Stamps, kid \in Kids, i \in TxIds, amount \in RefundAmounts :
              PayRefund(kid, i, amount, ts)
<1>1. CASE AccountNext
  BY <1>1, AccountsWrite
<1>2. CASE TransferNext
  BY <1>2, TransfersWrite
<1>3. CASE PayNext
  <2>1. ASSUME NEW ts, NEW kid, NEW from, NEW to, NEW amount, NEW order, NEW memo,
               NEW expiry, PayContract(kid, from, to, amount, order, memo, expiry, ts)
        PROVE  UNCHANGED pay
    BY <2>1 DEF PayContract
  <2>2. ASSUME NEW ts, NEW kid, NEW addr, NEW safe, NEW asked,
               PayPruneEndorse(kid, addr, safe, asked, ts)
        PROVE  UNCHANGED pay
    BY <2>2 DEF PayPruneEndorse, ledger
  <2>3. ASSUME NEW f, PayPruneCommit(f) PROVE UNCHANGED pay
    BY <2>3 DEF PayPruneCommit
  <2> QED BY <2>1, <2>2, <2>3, <1>3, PayActions
<1>4. CASE FeeNext
  BY <1>4 DEF FeeNext, FeePruneEndorse, FeePruneCommit, ledger
<1>5. CASE SupplyNext
  <2>1. ASSUME NEW ts, NEW kid, NEW amount, TokenMint(kid, amount, ts) \/ TokenBurn(kid, amount, ts)
        PROVE  UNCHANGED pay
    BY <2>1 DEF TokenMint, TokenBurn, SupplyContract
  <2>2. ASSUME NEW ts, NEW kid, NEW addrs, NEW meta, NEW amount,
               TokenCreate(kid, addrs, meta, amount, ts)
        PROVE  UNCHANGED pay
    BY <2>2 DEF TokenCreate, CreateToken
  <2>3. ASSUME NEW ts, NEW cid, NEW meta, NEW amount,
               \/ ExecuteTokenMint(cid, ts) \/ ExecuteTokenBurn(cid, ts) \/ CancelSupply(cid, ts)
               \/ ExecuteTokenCreate(cid, meta, amount, ts) \/ TokenUpdate(meta, ts)
        PROVE  UNCHANGED pay
    BY <2>3 DEF ExecuteTokenMint, ExecuteTokenBurn, CancelSupply, TokenUpdate,
                ExecuteTokenCreate, CreateToken
  <2> QED BY <1>5, <2>1, <2>2, <2>3, SupplyActions
<1>6. CASE Network \/ UNCHANGED vars
  BY <1>6 DEF Network, Tick, Drop, vars, ledger
<1> QED BY <1>1, <1>2, <1>3, <1>4, <1>5, <1>6 DEF Next

\* Every step.
LEMMA StepPays ==
  ASSUME TypeOK, TypeOK', KnownIds, EscrowHasOpenContract, PendingSound, OffersSound, [Next]_vars
  PROVE  PayFrame
<1> USE DataAssumption
<1>0. /\ TxId \notin DOMAIN pay /\ 0 \notin DOMAIN pay
      /\ \A i \in DOMAIN pay' : pay'[i] \in PayDoc
  BY NewId DEF TypeOK, IsDocs, TxIds
<1>1. ASSUME NEW ts, NEW kid, NEW from, NEW to, NEW amount \in Amounts, NEW order,
             NEW memo, PayNow(kid, from, to, amount, order, memo, ts)
      PROVE  PayFrame
  <2> DEFINE charge == CalcFee(to, "pay", amount)
             doc == [to |-> to, from |-> from, amount |-> amount, fee |-> charge,
                     totalRefund |-> 0, parent |-> 0, order |-> order, memo |-> memo,
                     created |-> ts]
  <2>1. /\ amount > 0 /\ from # to /\ pay' = PutDoc(pay, TxId, doc)
        /\ Stamped(doc.created)
    BY <1>1 DEF PayNow, MayPay, PutPay, Commit, Stamped
  <2>2. /\ charge \in Nat /\ (token.policy = NoPolicy => charge = 0)
        /\ IsFraction(token.policy.rates["pay"]) => charge <= amount
    <3>1. "pay" \in Fns /\ amount \in Nat
      BY DEF Fns
    <3>2. charge \in Nat
      BY <3>1, CalcFeeType
    <3>3. token.policy = NoPolicy => charge = 0
      BY <3>1, NoCharge
    <3>4. IsFraction(token.policy.rates["pay"]) => charge <= amount
      BY <3>1, FractionCharge
    <3> QED BY <3>2, <3>3, <3>4
  <2> HIDE DEF charge
  <2>3. IsPayment(doc)
    BY <2>1, <2>2 DEF IsPayment
  <2> HIDE DEF doc
  <2>4. PutPayOf(doc, 0, 0)
    BY <1>0, <2>1 DEF PutPayOf, PutDoc
  <2>5. doc \in PayDoc
    BY <1>0, <2>4 DEF PutPayOf
  <2> QED BY <2>3, <2>4, <2>5 DEF PayFrame
<1>2. ASSUME NEW ts, NEW cid, ExecutePay(cid, ts) PROVE PayFrame
  <2> DEFINE amount == pend[cid].amount
             charge == CalcFee(con[cid].to, "pay", amount)
             doc == [to |-> con[cid].to, from |-> pend[cid].account, amount |-> amount,
                     fee |-> charge, totalRefund |-> 0, parent |-> 0,
                     order |-> con[cid].memo, memo |-> con[cid].order, created |-> ts]
  <2>1. /\ cid \in DOMAIN pend /\ pend[cid].type = "contract" /\ cid \in DOMAIN con
        /\ con[cid].kind = "pay" /\ pay' = PutDoc(pay, TxId, doc) /\ Stamped(doc.created)
    BY <1>2 DEF ExecutePay, OwnsPending, PayPendingBalance, PutPay, Commit, Stamped
  <2>2. amount \in Int /\ amount > 0 /\ pend[cid].account # con[cid].to
    BY <2>1, PendingType DEF PendingSound, EscrowHasOpenContract, OffersSound
  <2>3. /\ charge \in Nat /\ (token.policy = NoPolicy => charge = 0)
        /\ IsFraction(token.policy.rates["pay"]) => charge <= amount
    <3>1. "pay" \in Fns /\ amount \in Nat
      BY <2>2 DEF Fns
    <3>2. charge \in Nat
      BY <3>1, CalcFeeType
    <3>3. token.policy = NoPolicy => charge = 0
      BY <3>1, NoCharge
    <3>4. IsFraction(token.policy.rates["pay"]) => charge <= amount
      BY <3>1, FractionCharge
    <3> QED BY <3>2, <3>3, <3>4
  <2> HIDE DEF amount, charge
  <2>4. IsPayment(doc)
    BY <2>2, <2>3 DEF IsPayment
  <2> HIDE DEF doc
  <2>5. PutPayOf(doc, 0, 0)
    BY <1>0, <2>1 DEF PutPayOf, PutDoc
  <2>6. doc \in PayDoc
    BY <1>0, <2>5 DEF PutPayOf
  <2> QED BY <2>4, <2>5, <2>6 DEF PayFrame
<1>3. ASSUME NEW ts, NEW kid, NEW p, NEW back \in RefundAmounts, PayRefund(kid, p, back, ts)
      PROVE  PayFrame
  <2> DEFINE doc == [to |-> pay[p].to, from |-> pay[p].from, amount |-> -back,
                     fee |-> -RefundFee(pay[p], back), totalRefund |-> 0, parent |-> p,
                     order |-> "", memo |-> "", created |-> ts]
             refund == PutDoc(pay, TxId, doc)
  <2>1. /\ p \in DOMAIN pay /\ back > 0 /\ pay[p].totalRefund + back <= pay[p].amount
        /\ pay' = [refund EXCEPT ![p].totalRefund = @ + back] /\ Stamped(doc.created)
    BY <1>3 DEF PayRefund, MayRefund, PutPay, Commit, Stamped
  <2>2. IsRefund(doc, p, back)
    BY DEF IsRefund
  <2> HIDE DEF doc
  <2>3. /\ DOMAIN refund = DOMAIN pay \cup {TxId} /\ refund[TxId] = doc
        /\ \A i \in DOMAIN pay : refund[i] = pay[i]
    BY <1>0 DEF PutDoc
  <2> HIDE DEF refund
  <2>4. PutPayOf(doc, p, back)
    BY <1>0, <2>1, <2>3 DEF PutPayOf
  <2>5. doc \in PayDoc
    BY <1>0, <2>4 DEF PutPayOf
  <2> QED BY <2>1, <2>2, <2>4, <2>5 DEF PayFrame
<1> QED BY <1>1, <1>2, <1>3, PayWriters DEF PayFrame

\* The pays before it, field by field.
LEMMA OldPays ==
  ASSUME TypeOK, KnownIds, NEW doc \in PayDoc, NEW p, NEW back \in Nat, PutPayOf(doc, p, back),
         NEW i \in DOMAIN pay
  PROVE  /\ i \in DOMAIN pay' /\ i # TxId
         /\ pay'[i].to = pay[i].to /\ pay'[i].from = pay[i].from
         /\ pay'[i].amount = pay[i].amount /\ pay'[i].fee = pay[i].fee
         /\ pay'[i].parent = pay[i].parent /\ pay'[i].created = pay[i].created
         /\ pay'[i].totalRefund = IF i = p THEN pay[i].totalRefund + back ELSE pay[i].totalRefund
<1>1. i \in DOMAIN pay' /\ i # TxId /\ pay[i] \in PayDoc
  BY NewId, PayType DEF PutPayOf
<1>2. pay'[i] = IF i = p THEN [pay[i] EXCEPT !.totalRefund = @ + back] ELSE pay[i]
  BY DEF PutPayOf
<1> QED BY <1>1, <1>2 DEF PayDoc

\* The refunds of a payment grow by the new one, if it is one of them.
LEMMA RefundSums ==
  ASSUME TypeOK, TypeOK', KnownIds, TxId \in TxIds, NEW doc \in PayDoc, NEW p, NEW back \in Nat,
         PutPayOf(doc, p, back), NEW i
  PROVE  /\ PaySum(Refunds(i)) \in Int /\ PayFeeSum(Refunds(i)) \in Int
         /\ doc.parent = i =>
              /\ PaySum(Refunds(i))' = PaySum(Refunds(i)) + doc.amount
              /\ PayFeeSum(Refunds(i))' = PayFeeSum(Refunds(i)) + doc.fee
         /\ doc.parent # i =>
              /\ PaySum(Refunds(i))' = PaySum(Refunds(i))
              /\ PayFeeSum(Refunds(i))' = PayFeeSum(Refunds(i))
         /\ Refunds(i)' = Refunds(i) \cup IF doc.parent = i THEN {TxId} ELSE {}
<1> DEFINE old == Refunds(i)
           new == Refunds(i)'
<1>1. new = old \cup IF doc.parent = i THEN {TxId} ELSE {}
  BY NewId, OldPays DEF PutPayOf, Refunds
<1>2. TxId \notin old /\ old \subseteq DOMAIN pay /\ new \subseteq DOMAIN pay'
  BY NewId DEF Refunds
<1> DEFINE f == [j \in TxIds |-> IF j \in old THEN pay[j].amount ELSE 0]
           g == [j \in TxIds |-> IF j \in new THEN pay'[j].amount ELSE 0]
           u == [j \in TxIds |-> IF j \in old THEN pay[j].fee ELSE 0]
           v == [j \in TxIds |-> IF j \in new THEN pay'[j].fee ELSE 0]
<1>3. /\ PaySum(old) = SumTo(f, NTx) /\ PaySum(Refunds(i))' = SumTo(g, NTx)
      /\ PayFeeSum(old) = SumTo(u, NTx) /\ PayFeeSum(Refunds(i))' = SumTo(v, NTx)
  BY DEF PaySum, PayFeeSum
<1>4. \A j \in DOMAIN pay' : pay'[j].amount \in Int /\ pay'[j].fee \in Int
  <2>1. \A j \in DOMAIN pay' : pay'[j] \in PayDoc
    BY DEF TypeOK, IsDocs
  <2> QED BY <2>1 DEF PayDoc
<1>5. /\ f \in [1..NTx -> Int] /\ g \in [1..NTx -> Int] /\ u \in [1..NTx -> Int]
      /\ v \in [1..NTx -> Int] /\ NTx \in Nat /\ TxId \in 1..NTx
  BY <1>2, <1>4, PayType, SizeAssumption DEF TxIds
<1>6. \A j \in 1..NTx : j # TxId => g[j] = f[j] /\ v[j] = u[j]
  BY <1>1, <1>2, OldPays DEF TxIds
<1>7. /\ f[TxId] = 0 /\ u[TxId] = 0
      /\ g[TxId] = (IF doc.parent = i THEN doc.amount ELSE 0)
      /\ v[TxId] = (IF doc.parent = i THEN doc.fee ELSE 0)
  BY <1>1, <1>2 DEF PutPayOf
<1> HIDE DEF f, g, u, v, old, new
<1>8. SumTo(g, NTx) = SumTo(f, NTx) + (g[TxId] - f[TxId])
  BY <1>5, <1>6, SumChange
<1>9. SumTo(v, NTx) = SumTo(u, NTx) + (v[TxId] - u[TxId])
  BY <1>5, <1>6, SumChange
<1>10. SumTo(f, NTx) \in Int /\ SumTo(u, NTx) \in Int
  BY <1>5, SumToType
<1>11. doc.amount \in Int /\ doc.fee \in Int
  BY DEF PayDoc
<1> QED BY <1>1, <1>3, <1>7, <1>8, <1>9, <1>10, <1>11 DEF old, new

\* The part of a fee that goes back, rounded down, is no greater than the part
\* of the amount.
LEMMA RefundFeeBound ==
  ASSUME NEW parent, parent.amount \in Nat \ {0}, parent.fee \in Nat, NEW back \in Nat
  PROVE  /\ RefundFee(parent, back) \in Nat
         /\ parent.amount * RefundFee(parent, back) <= parent.fee * back
         /\ parent.fee = 0 => RefundFee(parent, back) = 0
<1> DEFINE part == (back * parent.fee) \div parent.amount
<1>1. \A m \in Nat, n \in Nat \ {0} : m \div n \in Nat /\ n * (m \div n) <= m
  BY Z3
<1>2. \A m \in Nat, n \in Nat : m * n \in Nat /\ m * n = n * m
  BY Z3
<1>3. part \in Nat /\ parent.amount * part <= parent.fee * back
  BY <1>1, <1>2
<1>4. \A n \in Nat \ {0}, m \in Nat : (m * 0) \div n = 0
  BY Z3
<1>5. parent.fee = 0 => part = 0
  BY <1>4
<1>6. CASE back = parent.amount
  BY <1>2, <1>6 DEF RefundFee
<1>7. CASE back # parent.amount
  BY <1>3, <1>5, <1>7 DEF RefundFee
<1> QED BY <1>6, <1>7

\* Parts of a fee that are no greater than those of the amount add up to no more
\* than the fee.
LEMMA ProRataAdds ==
  ASSUME NEW a \in Nat \ {0}, NEW f \in Nat, NEW s \in Int, NEW t \in Nat,
         NEW r \in Nat, NEW b \in Nat, a * s <= f * t, a * r <= f * b, t + b <= a
  PROVE  a * (s + r) <= f * (t + b) /\ s + r <= f
<1>1. a * (s + r) = a * s + a * r /\ f * (t + b) = f * t + f * b
  BY Z3
<1>2. a * s \in Int /\ a * r \in Int /\ f * t \in Int /\ f * b \in Int
  BY Z3
<1>3. a * (s + r) <= f * (t + b)
  BY <1>1, <1>2
<1>4. \A x \in Int, y \in Nat : y <= a => f * y <= f * a /\ f * y \in Int
  BY Z3
<1>5. f * (t + b) <= a * f
  <2>1. f * a = a * f /\ t + b \in Nat
    BY Z3
  <2> QED BY <1>4, <2>1
<1>6. \A x \in Int : x > f => a * x > a * f
  BY Z3
<1>7. s + r \in Int /\ a * (s + r) \in Int /\ a * f \in Int /\ f * (t + b) \in Int
  BY Z3
<1> QED BY <1>3, <1>5, <1>6, <1>7

\* What a payment or a refund leaves sound.
LEMMA NewPaySound ==
  ASSUME TypeOK, KnownIds, PaysSound, PayFrame
  PROVE  PaysSound'
<1>1. CASE UNCHANGED pay
  BY <1>1 DEF PaysSound
<1>2. ASSUME NEW doc \in PayDoc, NEW p, NEW back \in Nat, PutPayOf(doc, p, back),
             doc.from # doc.to,
             doc.parent = 0 => doc.amount > 0 /\ doc.fee >= 0,
             doc.parent # 0 => doc.parent \in DOMAIN pay /\ doc.amount < 0 /\ doc.fee <= 0
      PROVE  PaysSound'
  BY <1>2, OldPays DEF PaysSound, PutPayOf
<1>3. ASSUME NEW doc \in PayDoc, PutPayOf(doc, 0, 0), IsPayment(doc) PROVE PaysSound'
  BY <1>2, <1>3 DEF IsPayment
<1>4. ASSUME NEW doc \in PayDoc, NEW p \in DOMAIN pay, NEW back \in Nat \ {0},
             PutPayOf(doc, p, back), IsRefund(doc, p, back),
             pay[p].totalRefund + back <= pay[p].amount
      PROVE  PaysSound'
  <2>1. /\ pay[p].amount \in Nat \ {0} /\ pay[p].fee \in Nat /\ pay[p].from # pay[p].to
        /\ pay[p].parent = 0
    BY <1>4, PayType DEF PaysSound
  <2>2. RefundFee(pay[p], back) \in Nat
    BY <2>1, RefundFeeBound
  <2>3. p # 0
    BY PayType DEF TxIds
  <2> QED BY <1>2, <1>4, <2>1, <2>2, <2>3 DEF IsRefund
<1> QED BY <1>1, <1>3, <1>4 DEF PayFrame

\* The refunds of a payment stay within it.
LEMMA NewPayBounded ==
  ASSUME TypeOK, TypeOK', KnownIds, TxId \in TxIds, PaysSound, RefundBounded, RefundsProRata, PayFrame
  PROVE  RefundBounded' /\ RefundsProRata'
<1> DEFINE Bounded(i) ==
             /\ pay[i].totalRefund = -PaySum(Refunds(i))
             /\ Refunds(i) # {} =>
                  /\ pay[i].parent = 0 /\ pay[i].totalRefund <= pay[i].amount
                  /\ -PayFeeSum(Refunds(i)) <= pay[i].fee
                  /\ \A j \in Refunds(i) : pay[j].to = pay[i].to /\ pay[j].from = pay[i].from
           ProRata(i) == pay[i].amount * (-PayFeeSum(Refunds(i))) <= pay[i].fee * pay[i].totalRefund
<1>0. \A i \in DOMAIN pay : Bounded(i) /\ ProRata(i)
  BY DEF RefundBounded, RefundsProRata
<1>1. CASE UNCHANGED pay
  BY <1>1 DEF RefundBounded, RefundsProRata, Refunds, PaySum, PayFeeSum
<1>2. ASSUME NEW doc \in PayDoc, NEW p, NEW back \in Nat, PutPayOf(doc, p, back),
             doc.parent = p, p = 0 \/ p \in DOMAIN pay, doc.totalRefund = 0,
             NEW i \in DOMAIN pay', i # p
      PROVE  Bounded(i)' /\ ProRata(i)'
  <2>1. /\ doc.parent # i /\ PaySum(Refunds(i))' = PaySum(Refunds(i))
        /\ PayFeeSum(Refunds(i))' = PayFeeSum(Refunds(i)) /\ Refunds(i)' = Refunds(i)
        /\ PaySum(Refunds(i)) \in Int /\ PayFeeSum(Refunds(i)) \in Int
    BY <1>2, RefundSums
  <2>2. CASE i = TxId
    <3>1. Refunds(i) = {}
      <4>1. TxId # 0 /\ TxId \notin DOMAIN pay
        BY NewId DEF TxIds
      <4> QED BY <2>2, <4>1 DEF PaysSound, Refunds
    <3>2. NTx \in Nat /\ [j \in TxIds |-> 0] \in [1..NTx -> Int]
      BY SizeAssumption DEF TxIds
    <3>3. SumTo([j \in TxIds |-> 0], NTx) = 0
      BY <3>2, SumZero DEF TxIds
    <3>4. PaySum({}) = 0 /\ PayFeeSum({}) = 0
      BY <3>3 DEF PaySum, PayFeeSum
    <3>5. pay'[i] = doc
      BY <1>2, <2>2 DEF PutPayOf
    <3>6. doc.amount * (-0) <= doc.fee * 0
      <4>1. doc.amount \in Int /\ doc.fee \in Int
        BY DEF PayDoc
      <4> QED BY <4>1, Z3
    <3> QED BY <1>2, <2>1, <3>1, <3>4, <3>5, <3>6
  <2>3. CASE i \in DOMAIN pay
    <3>1. pay'[i] = pay[i] /\ \A j \in Refunds(i) : j \in DOMAIN pay
      BY <1>2, <2>3 DEF PutPayOf, Refunds
    <3>2. \A j \in Refunds(i) : pay'[j].to = pay[j].to /\ pay'[j].from = pay[j].from
      BY <1>2, <3>1, OldPays
    <3> QED BY <1>0, <2>1, <2>3, <3>1, <3>2
  <2> QED BY <1>2, <2>2, <2>3 DEF PutPayOf
<1>3. ASSUME NEW doc \in PayDoc, NEW p \in DOMAIN pay, NEW back \in Nat \ {0},
             PutPayOf(doc, p, back), IsRefund(doc, p, back),
             pay[p].totalRefund + back <= pay[p].amount
      PROVE  Bounded(p)' /\ ProRata(p)'
  <2> DEFINE a == pay[p].amount
             f == pay[p].fee
             t == pay[p].totalRefund
             s == -PayFeeSum(Refunds(p))
             r == RefundFee(pay[p], back)
  <2>1. /\ a \in Nat \ {0} /\ f \in Nat /\ t \in Nat /\ pay[p].parent = 0
    BY <1>3, PayType DEF PaysSound
  <2>2. r \in Nat /\ a * r <= f * back
    BY <2>1, RefundFeeBound
  <2>3. /\ PaySum(Refunds(p)) \in Int /\ PayFeeSum(Refunds(p)) \in Int
        /\ PaySum(Refunds(p))' = PaySum(Refunds(p)) + doc.amount
        /\ PayFeeSum(Refunds(p))' = PayFeeSum(Refunds(p)) + doc.fee
        /\ Refunds(p)' = Refunds(p) \cup {TxId}
    <3>1. doc.parent = p
      BY <1>3 DEF IsRefund
    <3> QED BY <1>3, <3>1, RefundSums
  <2>4. /\ pay'[p].amount = a /\ pay'[p].fee = f /\ pay'[p].totalRefund = t + back
        /\ pay'[p].parent = 0 /\ pay'[p].to = pay[p].to /\ pay'[p].from = pay[p].from
    BY <1>3, <2>1, OldPays
  <2>5. t = -PaySum(Refunds(p)) /\ a * s <= f * t
    BY <1>0
  <2>6. doc.amount = -back /\ doc.fee = -r /\ doc.to = pay[p].to /\ doc.from = pay[p].from
    BY <1>3 DEF IsRefund
  <2>7. (-PayFeeSum(Refunds(p)))' = s + r /\ s \in Int /\ (-PaySum(Refunds(p)))' = t + back
    BY <2>1, <2>2, <2>3, <2>5, <2>6
  <2>8. \A j \in Refunds(p)' : pay'[j].to = pay'[p].to /\ pay'[j].from = pay'[p].from
    <3>1. ASSUME NEW j \in Refunds(p) PROVE pay'[j].to = pay[p].to /\ pay'[j].from = pay[p].from
      <4>1. pay[j].to = pay[p].to /\ pay[j].from = pay[p].from /\ j \in DOMAIN pay
        BY <1>0 DEF Refunds
      <4> QED BY <1>3, <4>1, OldPays
    <3>2. pay'[TxId] = doc
      BY <1>3 DEF PutPayOf
    <3> QED BY <2>3, <2>4, <2>6, <3>1, <3>2
  <2> HIDE DEF a, f, t, s, r
  <2>9. t + back <= a
    BY <1>3 DEF a, t
  <2>10. a * (s + r) <= f * (t + back) /\ s + r <= f
    BY <2>1, <2>2, <2>5, <2>7, <2>9, ProRataAdds
  <2> QED BY <2>4, <2>7, <2>8, <2>9, <2>10
<1> HIDE DEF Bounded, ProRata
<1>4. ASSUME NEW doc \in PayDoc, PutPayOf(doc, 0, 0), IsPayment(doc), NEW i \in DOMAIN pay'
      PROVE  Bounded(i)' /\ ProRata(i)'
  <2>1. i # 0
    BY <1>4, PayType DEF PutPayOf, TxIds
  <2> QED BY <1>2, <1>4, <2>1 DEF IsPayment
<1>5. ASSUME NEW doc \in PayDoc, NEW p \in DOMAIN pay, NEW back \in Nat \ {0},
             PutPayOf(doc, p, back), IsRefund(doc, p, back),
             pay[p].totalRefund + back <= pay[p].amount, NEW i \in DOMAIN pay'
      PROVE  Bounded(i)' /\ ProRata(i)'
  BY <1>2, <1>3, <1>5 DEF IsRefund
<1>6. CASE ~ UNCHANGED pay
  <2>1. \A i \in DOMAIN pay' : Bounded(i)' /\ ProRata(i)'
    BY <1>4, <1>5, <1>6 DEF PayFrame
  <2> QED BY <2>1 DEF RefundBounded, RefundsProRata, Bounded, ProRata
<1> QED BY <1>1, <1>6

----------------------------------------------------------------------------
(* What is charged: no fee is due without a policy, and the target of the  *)
(* policy stays an account.                                                *)

\* A new fee, charged under a policy.
FeeFrame ==
  \/ UNCHANGED fee
  \/ /\ token.policy # NoPolicy /\ DOMAIN fee' = DOMAIN fee \cup {TxId}
     /\ Stamped(fee'[TxId].created) /\ \A i \in DOMAIN fee : fee'[i] = fee[i]

\* Every step that leaves a fee is taken under a fee policy.
LEMMA StepFees ==
  ASSUME TypeOK, KnownIds, FreeWithoutPolicy, [Next]_vars
  PROVE  FeeFrame
<1>1. ASSUME NEW addr, NEW amount, NEW ts, CreateFee(addr, amount, ts),
             NEW written, Commit(ts, written), token.policy = NoPolicy => amount = 0
      PROVE  FeeFrame
  <2>1. Stamped(ts)
    BY <1>1 DEF Commit, Stamped
  <2> QED BY <1>1, <2>1, NewId DEF CreateFee, PutDoc, FeeFrame
<1>0. UNCHANGED fee => FeeFrame
  BY DEF FeeFrame
<1>2. ASSUME TransferNext PROVE FeeFrame
  <2>1. ASSUME NEW ts, NEW kid, NEW from, NEW to, NEW amount \in Amounts, NEW extra, NEW due,
               TransferNow(kid, from, to, amount, extra, due, ts)
        PROVE  FeeFrame
    <3>1. /\ CreateFee(from, CalcFee(from, "transfer", amount), ts)
          /\ \E written : Commit(ts, written)
      BY <2>1 DEF TransferNow
    <3>2. token.policy = NoPolicy => CalcFee(from, "transfer", amount) = 0
      BY NoCharge, DataAssumption DEF Fns
    <3> QED BY <1>1, <3>1, <3>2
  <2>2. ASSUME NEW ts, NEW cid, ExecuteTransfer(cid, ts) PROVE FeeFrame
    BY <1>1, <2>2 DEF ExecuteTransfer, OwnsPending, FreeWithoutPolicy
  <2>3. ASSUME NEW ts, NEW kid, NEW from, NEW to, NEW amount, NEW extra, NEW due, NEW expiry, NEW i,
               \/ TransferContract(kid, from, to, amount, extra, due, expiry, ts)
               \/ CancelTransfer(i, ts) \/ BalancePendingWithdraw(kid, i, ts)
        PROVE  UNCHANGED fee
    BY <2>3 DEF TransferContract, CancelTransfer, BalancePendingWithdraw
  <2> QED BY <1>0, <1>2, <2>1, <2>2, <2>3 DEF TransferNext
<1>3. ASSUME PayNext PROVE FeeFrame
  <2>1. ASSUME NEW ts, NEW kid, NEW from, NEW to, NEW amount, NEW order, NEW memo, NEW expiry,
               \/ PayNow(kid, from, to, amount, order, memo, ts)
               \/ PayContract(kid, from, to, amount, order, memo, expiry, ts)
        PROVE  FeeFrame
    BY <1>0, <2>1 DEF PayNow, PayContract
  <2>2. ASSUME NEW ts, NEW kid, NEW addr, NEW safe, NEW asked, NEW i, NEW amount,
               \/ PayPruneEndorse(kid, addr, safe, asked, ts)
               \/ ExecutePay(i, ts) \/ PayRefund(kid, i, amount, ts)
        PROVE  FeeFrame
    BY <1>0, <2>2 DEF PayPruneEndorse, ledger, ExecutePay, PayRefund
  <2>3. ASSUME NEW f, PayPruneCommit(f) PROVE FeeFrame
    BY <1>1, <2>3 DEF PayPruneCommit, FreeWithoutPolicy
  <2> QED BY <1>3, <2>1, <2>2, <2>3, PayActions
<1>4. AccountNext => UNCHANGED fee
  <2>1. ASSUME NEW ts, NEW doc, AccountContract(doc, ts) PROVE UNCHANGED fee
    BY <2>1 DEF AccountContract
  <2>2. ASSUME NEW ts, NEW kid, NEW addr, NEW other, NEW addrs, NEW suspended, NEW cid,
               \/ AccountCreate(kid, ts) \/ SetSuspended(kid, suspended, ts)
               \/ AccountCreateJoint(kid, addrs, ts) \/ AccountHolderAdd(kid, addr, other, ts)
               \/ AccountHolderRemove(kid, addr, other, ts) \/ AccountHolderLeave(kid, addr, ts)
               \/ ExecuteAccountCreate(cid, addr, ts) \/ ExecuteAccountHolderAdd(cid, ts)
               \/ ExecuteAccountHolderRemove(cid, ts) \/ CancelAccount(cid, ts)
        PROVE  UNCHANGED fee
    BY <2>1, <2>2 DEF AccountCreate, SetSuspended, AccountCreateJoint, AccountHolderAdd,
         AccountHolderRemove, AccountHolderLeave, ExecuteAccountCreate, ExecuteAccountHolderAdd,
         ExecuteAccountHolderRemove, CancelAccount
  <2>3. PersonalNext => UNCHANGED fee
    BY <2>2 DEF PersonalNext, AccountSuspend, AccountUnsuspend
  <2>4. JointNext => UNCHANGED fee
    BY <2>2 DEF JointNext
  <2> QED BY <2>3, <2>4 DEF AccountNext
<1>5. SupplyNext => UNCHANGED fee
  <2>1. ASSUME NEW ts, NEW kid, NEW cid, NEW amount, NEW addrs, NEW meta,
               \/ TokenMint(kid, amount, ts) \/ TokenBurn(kid, amount, ts)
               \/ ExecuteTokenMint(cid, ts) \/ ExecuteTokenBurn(cid, ts) \/ CancelSupply(cid, ts)
               \/ TokenUpdate(meta, ts) \/ ExecuteTokenCreate(cid, meta, amount, ts)
               \/ TokenCreate(kid, addrs, meta, amount, ts)
        PROVE  UNCHANGED fee
    BY <2>1 DEF TokenMint, TokenBurn, ExecuteTokenMint, ExecuteTokenBurn, CancelSupply,
                TokenUpdate, ExecuteTokenCreate, CreateToken, TokenCreate, SupplyContract
  <2> QED BY <2>1, SupplyActions
<1>6. FeeNext \/ Network \/ UNCHANGED vars => UNCHANGED fee
  BY DEF FeeNext, FeePruneEndorse, FeePruneCommit, Network, Tick, Drop, vars, ledger
<1> QED BY <1>0, <1>2, <1>3, <1>4, <1>5, <1>6 DEF Next

\* What a step may do to the fee policy.
PolicyFrame ==
  \/ token'.policy = token.policy /\ token'.issued = token.issued
  \/ /\ token'.issued /\ (token'.policy = NoPolicy => ~token.issued)
     /\ token'.policy # NoPolicy =>
          \/ token'.policy.target \in Addrs /\ Exists(token'.policy.target)
          \/ token'.policy.target = Genesis
          \/ token.policy # NoPolicy /\ token'.policy.target = token.policy.target
     /\ \/ token'.policy.rates = NoRates
        \/ \E meta \in Metas : token'.policy.rates = meta.rates

LEMMA CreatedPolicy ==
  ASSUME TypeOK, NEW holders, NEW meta \in Metas, NEW supply, NEW ts,
         CreateToken(holders, meta, supply, ts)
  PROVE  PolicyFrame
<1>1. /\ ~token.issued /\ TargetExists(meta) /\ meta \in Meta
      /\ token' = [issued |-> TRUE, supply |-> supply, policy |-> IssuedPolicy(meta)]
  BY DataAssumption DEF CreateToken
<1>2. IssuedPolicy(meta) # NoPolicy =>
        \/ IssuedPolicy(meta).target \in Addrs /\ Exists(IssuedPolicy(meta).target)
        \/ IssuedPolicy(meta).target = Genesis
  BY <1>1 DEF IssuedPolicy, TargetExists, Meta
<1>3. token'.issued /\ token'.policy = IssuedPolicy(meta)
  BY <1>1
<1>4. IssuedPolicy(meta).rates \in {NoRates, meta.rates}
  BY DEF IssuedPolicy, NoPolicy
<1> QED BY <1>1, <1>2, <1>3, <1>4 DEF PolicyFrame

LEMMA UpdatedPolicyFrame ==
  ASSUME TypeOK, NEW meta \in Metas, NEW ts, TokenUpdate(meta, ts)
  PROVE  PolicyFrame
<1>1. /\ token.issued /\ TargetExists(meta) /\ meta \in Meta /\ token \in TokenDoc
      /\ meta.fee \/ token.policy # NoPolicy
      /\ token' = [token EXCEPT !.policy = UpdatedPolicy(meta)]
  BY DataAssumption DEF TokenUpdate, TypeOK
<1>2. token'.issued /\ token'.policy = UpdatedPolicy(meta)
  BY <1>1 DEF TokenDoc
<1>3. token.policy # NoPolicy => token.policy.target \in Addrs
  BY TargetType
<1>4. NoPolicy.target = NoAddr /\ NoAddr \notin Addrs /\ Genesis \in Addrs
  BY DataAssumption DEF NoPolicy, NoAddr, Addrs
<1>5. CASE ~meta.fee
  <2>1. token.policy \in [target : Addrs, rates : [Fns -> Rate]]
    BY <1>1, <1>5 DEF TokenDoc, Policy
  <2>2. UpdatedPolicy(meta).target = token.policy.target
    BY <1>5, <2>1 DEF UpdatedPolicy
  <2>3. UpdatedPolicy(meta).rates = NoRates
    BY <1>5, <2>1 DEF UpdatedPolicy
  <2> QED BY <1>1, <1>2, <1>3, <1>4, <1>5, <2>2, <2>3 DEF PolicyFrame
<1>6. CASE meta.fee
  <2>1. UpdatedPolicy(meta).target =
          IF meta.target # NoAddr THEN meta.target
          ELSE IF token.policy = NoPolicy THEN Genesis ELSE token.policy.target
    BY <1>6 DEF UpdatedPolicy
  <2>2. meta.target # NoAddr => meta.target \in Addrs /\ Exists(meta.target)
    BY <1>1, <1>6 DEF TargetExists, Meta
  <2>3. UpdatedPolicy(meta).rates = meta.rates
    BY <1>6 DEF UpdatedPolicy
  <2> QED BY <1>1, <1>2, <1>3, <1>4, <2>1, <2>2, <2>3 DEF PolicyFrame
<1> QED BY <1>5, <1>6

LEMMA StepPolicy ==
  ASSUME TypeOK, [Next]_vars
  PROVE  PolicyFrame
<1> DEFINE Same == token'.policy = token.policy /\ token'.issued = token.issued
<1>1. ASSUME SupplyNext PROVE PolicyFrame
  <2>0. token \in TokenDoc
    BY DEF TypeOK
  <2>1. ASSUME NEW diff, NEW ts, Supply(diff, ts) PROVE Same
    BY <2>0, <2>1 DEF Supply, TokenDoc
  <2>2. ASSUME NEW amount, NEW ts, Mint(amount, ts) \/ Burn(amount, ts) PROVE Same
    BY <2>1, <2>2 DEF Mint, Burn
  <2>3. ASSUME NEW ts, NEW kid, NEW cid, NEW amount,
               \/ TokenMint(kid, amount, ts) \/ TokenBurn(kid, amount, ts)
               \/ ExecuteTokenMint(cid, ts) \/ ExecuteTokenBurn(cid, ts) \/ CancelSupply(cid, ts)
        PROVE  Same
    BY <2>2, <2>3 DEF TokenMint, TokenBurn, ExecuteTokenMint, ExecuteTokenBurn, CancelSupply,
                      SupplyContract
  <2>4. ASSUME NEW ts, NEW kid, NEW cid, NEW amount, NEW addrs, NEW meta \in Metas,
               \/ TokenCreate(kid, addrs, meta, amount, ts)
               \/ ExecuteTokenCreate(cid, meta, amount, ts)
        PROVE  Same \/ \E holders : CreateToken(holders, meta, amount, ts)
    BY <2>4 DEF TokenCreate, ExecuteTokenCreate
  <2>5. ASSUME NEW ts, NEW kid, NEW cid, NEW amount, NEW addrs, NEW meta \in Metas,
               \/ TokenCreate(kid, addrs, meta, amount, ts)
               \/ ExecuteTokenCreate(cid, meta, amount, ts)
        PROVE  PolicyFrame
    BY <2>4, <2>5, CreatedPolicy DEF PolicyFrame
  <2> HIDE DEF Same
  <2>6. Same => PolicyFrame
    BY DEF Same, PolicyFrame
  <2> QED BY <1>1, <2>3, <2>5, <2>6, UpdatedPolicyFrame, SupplyActions
<1>2. FeeNext \/ Network \/ UNCHANGED vars => UNCHANGED token
  BY DEF FeeNext, FeePruneEndorse, FeePruneCommit, Network, Tick, Drop, vars, ledger
<1> QED BY <1>1, <1>2, AccountsWrite, TransfersWrite, PaysWrite DEF Next, PolicyFrame

\* No account vanishes.
LEMMA ExistsStays ==
  ASSUME AccountInv, [Next]_vars, NEW a \in Addrs, Exists(a)
  PROVE  Exists(a)'
<1>0. TypeOK /\ Kids \subseteq Addrs /\ Genesis \in Addrs /\ Joint \subseteq Addrs
  BY SizeAssumption, DataAssumption DEF AccountInv, Kids, Addrs, Joint
<1>1. ASSUME NEW addr \in Addrs, NEW holders, NEW amount, CreateAccount(addr, holders, amount)
      PROVE  Exists(a)'
  <2>1. ~Exists(addr) /\ account'[a].holders = IF a = addr THEN holders ELSE account[a].holders
    BY <1>0, <1>1, HoldersAfter
  <2> QED BY <2>1 DEF Exists
<1>2. ASSUME NEW addr \in Addrs, NEW k, AddHolder(addr, k)
      PROVE  Exists(a)'
  <2>1. account'[a].holders = IF a = addr THEN account[a].holders \cup {k}
                                         ELSE account[a].holders
    BY <1>0, <1>2, HoldersAfter
  <2> QED BY <2>1 DEF Exists
<1>3. ASSUME NEW addr \in Addrs, NEW k, CanRemove(addr, k), RemoveHolder(addr, k)
      PROVE  Exists(a)'
  <2> DEFINE old == account[addr].holders
  <2>1. \A b \in Addrs : account'[b].holders = IF b = addr THEN old \ {k} ELSE account[b].holders
    <3>1. /\ account' = [account EXCEPT ![addr].holders = old \ {k}]
          /\ account \in [Addrs -> AccountDoc] /\ account[addr] \in AccountDoc
      BY <1>0, <1>3 DEF RemoveHolder, TypeOK
    <3>2. \A b \in Addrs : account'[b] = IF b = addr THEN [account[b] EXCEPT !.holders = old \ {k}]
                                                      ELSE account[b]
      BY <1>0, <3>1
    <3>3. [account[addr] EXCEPT !.holders = old \ {k}].holders = old \ {k}
      BY <3>1 DEF AccountDoc
    <3> QED BY <3>2, <3>3
  <2>2. IsFiniteSet(old) /\ Cardinality(old) >= 3 /\ k \in old /\ Cardinality(old) \in Nat
    BY <1>0, <1>3, HoldersType DEF CanRemove, HasHolder
  <2> HIDE DEF old
  <2>3. Cardinality(old \ {k}) = Cardinality(old) - 1
    BY <2>2, FS_RemoveElement
  <2>4. old \ {k} # {}
    BY <2>2, <2>3, FS_EmptySet
  <2> QED BY <2>1, <2>4 DEF Exists
<1>4. \A cid \in DOMAIN con : con[cid].kind = "account/holder/add" => con[cid].account \in Addrs
  BY <1>0, ContractType
<1> QED BY <1>0, <1>1, <1>2, <1>3, <1>4, HolderWriters DEF Exists

----------------------------------------------------------------------------
(* The invariant.                                                          *)

\* Documents come with the transactions that leave them.
LEMMA IdsStayKnown ==
  ASSUME TypeOK, KnownIds, HeldFrame, PayFrame, FeeFrame, [Next]_vars
  PROVE  KnownIds'
<1>0. ntx \in Int /\ \A i \in DOMAIN pend \cup DOMAIN con \cup DOMAIN pay \cup DOMAIN fee : i \in Int
  BY SizeAssumption DEF TypeOK, IsDocs, TxIds
<1>1. CASE Transaction
  <2>1. ntx' = TxId
    BY <1>1 DEF Transaction, Commit, TxId
  <2>2. DOMAIN pay' \subseteq DOMAIN pay \cup {TxId}
    BY DEF PayFrame, PutPayOf
  <2>3. \A i \in DOMAIN pend' \cup DOMAIN con' \cup DOMAIN pay' \cup DOMAIN fee' :
          i = TxId \/ i \in DOMAIN pend \cup DOMAIN con \cup DOMAIN pay \cup DOMAIN fee
    BY <2>2 DEF HeldFrame, FeeFrame
  <2>4. TxId = ntx + 1
    BY DEF TxId
  <2> QED BY <1>0, <2>1, <2>3, <2>4 DEF KnownIds
<1>2. CASE UNCHANGED <<ntx, ledger>>
  BY <1>2 DEF KnownIds, ledger
<1>3. Endorsement => UNCHANGED <<ntx, ledger>>
  BY DEF Endorsement, PayPruneEndorse, FeePruneEndorse
<1> QED BY <1>1, <1>2, <1>3, Steps

\* A prune endorsed while there is no policy finds no fee.
LEMMA NoFeeInFlight ==
  ASSUME TypeOK, FreeWithoutPolicy, token.policy = NoPolicy, [Next]_vars, NEW f \in flight'
  PROVE  f.fee = 0
<1>1. CASE f \in flight
  BY <1>1 DEF FreeWithoutPolicy
<1>2. CASE f \notin flight
  <2>1. Transaction => flight' \subseteq flight
    BY DEF Transaction, Commit
  <2>2. Endorsement
    BY <1>2, <2>1, Steps
  <2>3. \/ f.kind = "pay" /\ f.ids \subseteq DOMAIN pay /\ f.fee = PayFeeSum(f.ids)
        \/ f.fee = 0
    BY <1>2, <2>2, EndorsedFlight
  <2>4. ASSUME NEW ids, ids \subseteq DOMAIN pay PROVE PayFeeSum(ids) = 0
    <3> DEFINE g == [i \in TxIds |-> IF i \in ids THEN pay[i].fee ELSE 0]
    <3>1. /\ NTx \in Nat /\ g \in [1..NTx -> Int] /\ \A i \in 1..NTx : g[i] = 0
          /\ PayFeeSum(ids) = SumTo(g, NTx)
      BY <2>4, SizeAssumption DEF FreeWithoutPolicy, TxIds, PayFeeSum
    <3> HIDE DEF g
    <3> QED BY <3>1, SumZero
  <2> QED BY <2>3, <2>4
<1> QED BY <1>1, <1>2

\* No policy, no fees, before and after.
LEMMA FreeStays ==
  ASSUME TypeOK, KnownIds, PaysSound, FreeWithoutPolicy, HeldFrame, PayFrame, PolicyFrame, [Next]_vars
  PROVE  /\ FreeWithoutPolicy'
         /\ token'.policy = NoPolicy => token.policy = NoPolicy
<1>1. ~token'.issued => token'.policy = NoPolicy
  BY DEF PolicyFrame, FreeWithoutPolicy
<1>2. token'.policy = NoPolicy => token.policy = NoPolicy
  BY DEF PolicyFrame, FreeWithoutPolicy
<1>3. ASSUME token.policy = NoPolicy
      PROVE  /\ \A i \in DOMAIN pend' : pend'[i].fee = 0
             /\ \A i \in DOMAIN pay' : pay'[i].fee = 0
             /\ \A f \in flight' : f.fee = 0
  <2>1. \A i \in DOMAIN pend' : pend'[i].fee = 0
    BY <1>3 DEF HeldFrame, HeldAfter, FreeWithoutPolicy
  <2>2. ASSUME NEW doc \in PayDoc, NEW p, NEW back \in Nat, PutPayOf(doc, p, back), doc.fee = 0
        PROVE  \A i \in DOMAIN pay' : pay'[i].fee = 0
    <3>1. \A i \in DOMAIN pay : pay[i].fee = 0
      BY <1>3 DEF FreeWithoutPolicy
    <3> QED BY <2>2, <3>1, OldPays DEF PutPayOf
  <2>3. ASSUME NEW doc \in PayDoc, NEW p \in DOMAIN pay, NEW back \in Nat \ {0},
               IsRefund(doc, p, back), pay[p].totalRefund + back <= pay[p].amount
        PROVE  doc.fee = 0
    <3>1. pay[p].amount \in Nat \ {0} /\ pay[p].fee = 0
      BY <1>3, <2>3, PayType DEF FreeWithoutPolicy
    <3>2. RefundFee(pay[p], back) = 0 /\ doc.fee \in Int
      BY <3>1, RefundFeeBound DEF PayDoc
    <3>3. \A x, y \in Int : x = -y => x + y = 0
      OBVIOUS
    <3>4. doc.fee + RefundFee(pay[p], back) = 0
      <4>1. doc.fee = -RefundFee(pay[p], back)
        BY <2>3 DEF IsRefund
      <4>2. RefundFee(pay[p], back) \in Int /\ doc.fee \in Int
        BY <3>2
      <4> QED BY <3>3, <4>1, <4>2
    <3> QED BY <3>2, <3>4
  <2>4. \A i \in DOMAIN pay' : pay'[i].fee = 0
    BY <1>3, <2>2, <2>3 DEF PayFrame, IsPayment, FreeWithoutPolicy
  <2> QED BY <1>3, <2>1, <2>4, NoFeeInFlight
<1> QED BY <1>1, <1>2, <1>3 DEF FreeWithoutPolicy

\* The target of the policy stays an account.
LEMMA TargetStays ==
  ASSUME AccountInv, AccountInv', FeesHaveTarget, PolicyFrame, [Next]_vars,
         token'.policy = NoPolicy => token.policy = NoPolicy, FeeFrame
  PROVE  FeesHaveTarget'
<1>1. token'.policy = NoPolicy => DOMAIN fee' = {}
  BY DEF FeesHaveTarget, FeeFrame
<1>2. ASSUME NEW a \in Addrs, Exists(a) PROVE account'[a].holders # {}
  BY <1>2, ExistsStays DEF Exists
<1>3. token'.issued => account'[Genesis].holders # {}
  BY DEF AccountInv, IssuedWithGenesis, Exists
<1>4. token.policy # NoPolicy =>
        token.policy.target \in Addrs /\ account'[token.policy.target].holders # {}
  BY <1>2, TargetType DEF AccountInv, FeesHaveTarget
<1>5. ASSUME token'.policy # NoPolicy PROVE account'[token'.policy.target].holders # {}
  BY <1>2, <1>3, <1>4, <1>5 DEF PolicyFrame
<1> QED BY <1>1, <1>5 DEF FeesHaveTarget, Exists

LEMMA InitDocumentInv == Init => DocumentInv
<1> SUFFICES ASSUME Init PROVE DocumentInv
  OBVIOUS
<1>1. DOMAIN pend = {} /\ DOMAIN con = {} /\ DOMAIN pay = {} /\ DOMAIN fee = {} /\ flight = {}
  BY DEF Init, NoDocs
<1>2. TypeOK
  BY InitType
<1>3. /\ KnownIds /\ EscrowHasOpenContract /\ PendingSound /\ OffersSound /\ PaysSound
      /\ RefundBounded /\ RefundsProRata /\ FlightsWatched
  BY <1>1 DEF KnownIds, EscrowHasOpenContract, PendingSound, OffersSound, PaysSound,
              RefundBounded, RefundsProRata, FlightsWatched
<1>4. /\ token.issued = (InitHolders[Genesis] # {}) /\ token.policy = InitPolicy
      /\ \A a \in Addrs : account[a].holders = InitHolders[a]
  BY DEF Init
<1>5. FreeWithoutPolicy
  BY <1>1, <1>4, DataAssumption DEF FreeWithoutPolicy
<1>6. InitPolicy # NoPolicy => InitPolicy.target \in Addrs
  BY <1>2, <1>4, TargetType
<1>7. FeesHaveTarget
  BY <1>1, <1>4, <1>6, DataAssumption DEF FeesHaveTarget, Exists
<1> QED BY <1>2, <1>3, <1>5, <1>7 DEF DocumentInv

LEMMA NextDocumentInv == AccountInv /\ DocumentInv /\ [Next]_vars => DocumentInv'
<1> SUFFICES ASSUME AccountInv, DocumentInv, [Next]_vars PROVE DocumentInv'
  OBVIOUS
<1>1. /\ TypeOK /\ KnownIds /\ EscrowHasOpenContract /\ PendingSound /\ OffersSound /\ PaysSound
      /\ RefundBounded /\ RefundsProRata /\ FeesHaveTarget /\ FreeWithoutPolicy /\ FlightsWatched
  BY DEF DocumentInv
<1>2. TypeOK' /\ AccountInv'
  BY <1>1, NextType, NextAccountInv
<1>3. HeldFrame /\ PayFrame /\ PolicyFrame
  BY <1>1, <1>2, StepHeld, StepPays, StepPolicy
<1>4. FeeFrame
  BY <1>1, StepFees
<1>5. EscrowHasOpenContract' /\ PendingSound' /\ OffersSound'
  BY <1>1, <1>3, HeldStays
<1>6. KnownIds'
  BY <1>1, <1>3, <1>4, IdsStayKnown
<1>7. PaysSound'
  BY <1>1, <1>3, NewPaySound
<1>8. RefundBounded' /\ RefundsProRata'
  <2>1. CASE UNCHANGED pay
    BY <1>1, <2>1 DEF RefundBounded, RefundsProRata, Refunds, PaySum, PayFeeSum
  <2>2. CASE ~UNCHANGED pay
    <3>1. TxId \in DOMAIN pay'
      BY <1>3, <2>2 DEF PayFrame, PutPayOf
    <3>2. TxId \in TxIds
      BY <1>2, <3>1 DEF TypeOK, IsDocs
    <3> QED BY <1>1, <1>2, <1>3, <3>2, NewPayBounded
  <2> QED BY <2>1, <2>2
<1>9. FreeWithoutPolicy' /\ (token'.policy = NoPolicy => token.policy = NoPolicy)
  BY <1>1, <1>3, FreeStays
<1>10. FeesHaveTarget'
  BY <1>1, <1>2, <1>3, <1>4, <1>9, TargetStays
<1>11. FlightsWatched'
  BY <1>1, FlightsStayWatched
<1> QED BY <1>2, <1>5, <1>6, <1>7, <1>8, <1>9, <1>10, <1>11 DEF DocumentInv

\* What is held, paid and charged fits together in every state that can be reached.
THEOREM DocumentsFit == Spec => []DocumentInv
<1>1. Init => DocumentInv
  BY InitDocumentInv
<1>2. AccountInv /\ DocumentInv /\ [Next]_vars => DocumentInv'
  BY NextDocumentInv
<1> QED BY <1>1, <1>2, AccountsWhole, PTL DEF Spec

\* What is held for a contract can be taken by it alone: it is still open and moves
\* what was deposited, although the deposit expires while the contract stays open
\* and a withdrawal, a callback and a cancellation may come in any order.
THEOREM EscrowIsBacked == Spec => []EscrowHasOpenContract
<1>1. DocumentInv => EscrowHasOpenContract
  BY DEF DocumentInv
<1> QED BY <1>1, DocumentsFit, PTL

\* Refunds of a payment, in any number and of any amounts, never exceed it, and the
\* parts of its fee that went back, each rounded down, never exceed its fee.
THEOREM RefundsAreBounded == Spec => []RefundBounded
<1>1. DocumentInv => RefundBounded
  BY DEF DocumentInv
<1> QED BY <1>1, DocumentsFit, PTL

\* While there is no fee policy no fee is due anywhere, and once there is one its
\* target is an account, however the policy is updated and whoever leaves.
THEOREM FeesAreCollectable == Spec => []FeesHaveTarget
<1>1. DocumentInv => FeesHaveTarget
  BY DEF DocumentInv
<1> QED BY <1>1, DocumentsFit, PTL

----------------------------------------------------------------------------
(* A suspended account only receives.                                      *)

\* What a step may do to the account of kid k.
Guarded(k) ==
  \/ ~account[k].suspended \/ ~account'[k].suspended
  \/ payCursor'[k] = payCursor[k] /\ (bal'[k] >= bal[k] \/ feeCursor' # feeCursor)

\* One account is credited, by nothing negative unless it is not suspended.
LEMMA CreditGuarded ==
  ASSUME TypeOK, NEW a, NEW x \in Int, bal' = Credit(bal, a, x),
         UNCHANGED payCursor, x >= 0 \/ ~account[a].suspended, NEW k \in Kids
  PROVE  Guarded(k)
<1>1. bal \in [Addrs -> Int] /\ k \in Addrs /\ bal[k] \in Int
  BY SizeAssumption DEF TypeOK, Kids, Addrs
<1>2. CASE k = a
  BY <1>1, <1>2 DEF Credit, Guarded
<1>3. CASE k # a
  <2>1. bal'[k] = bal[k]
    BY <1>1, <1>3 DEF Credit
  <2> QED BY <1>1, <2>1 DEF Guarded
<1> QED BY <1>2, <1>3

\* No balance changes.
LEMMA SameGuarded ==
  ASSUME TypeOK, UNCHANGED <<bal, payCursor>>, NEW k \in Kids
  PROVE  Guarded(k)
<1>1. bal[k] \in Int
  BY SizeAssumption DEF TypeOK, Kids, Addrs
<1> QED BY <1>1 DEF Guarded

LEMMA TransferGuarded ==
  ASSUME TypeOK, PendingSound, TransferNext, NEW k \in Kids
  PROVE  Guarded(k)
<1> USE DataAssumption
<1>1. ASSUME NEW ts, NEW kid, NEW from \in Addrs, NEW to \in Addrs, NEW amount \in Nat, NEW extra,
             NEW due, TransferNow(kid, from, to, amount, extra, due, ts)
      PROVE  Guarded(k)
  <2> DEFINE charge == CalcFee(from, "transfer", amount)
             less == Credit(bal, from, -(amount + charge))
  <2>1. /\ ~account[from].suspended /\ UNCHANGED payCursor
        /\ bal' = less \/ bal' = Credit(less, to, amount)
    BY <1>1 DEF TransferNow, MayTransfer, MayAct, Receive
  <2>2. charge \in Nat
    BY CalcFeeType DEF Fns
  <2>3. /\ bal \in [Addrs -> Int] /\ k \in Addrs /\ less \in [Addrs -> Int]
        /\ k # from => less[k] = bal[k]
    BY <2>2, SizeAssumption DEF TypeOK, Kids, Addrs, Credit
  <2> HIDE DEF less
  <2>4. k # from => bal'[k] >= bal[k]
    BY <2>1, <2>3 DEF Credit
  <2> QED BY <2>1, <2>4 DEF Guarded
<1>2. ASSUME NEW ts, NEW kid, NEW from, NEW to, NEW amount \in Nat, NEW extra, NEW due, NEW expiry,
             TransferContract(kid, from, to, amount, extra, due, expiry, ts)
      PROVE  Guarded(k)
  <2> DEFINE charge == CalcFee(from, "transfer", amount)
  <2>1. /\ ~account[from].suspended /\ UNCHANGED payCursor
        /\ bal' = Credit(bal, from, -(amount + charge))
    BY <1>2 DEF TransferContract, MayTransfer, MayAct, Deposit
  <2>2. charge \in Nat
    BY CalcFeeType DEF Fns
  <2>3. -(amount + charge) \in Int
    BY <2>2
  <2> QED BY <2>1, <2>3, CreditGuarded
<1>3. ASSUME NEW ts, NEW cid, ExecuteTransfer(cid, ts) PROVE Guarded(k)
  <2>1. /\ cid \in DOMAIN pend /\ UNCHANGED payCursor
        /\ UNCHANGED bal \/ bal' = Credit(bal, con[cid].to, pend[cid].amount)
    BY <1>3 DEF ExecuteTransfer, OwnsPending, Receive
  <2>2. pend[cid].amount \in Int /\ pend[cid].amount >= 0
    BY <2>1, PendingType DEF PendingSound
  <2> QED BY <2>1, <2>2, CreditGuarded, SameGuarded
<1>4. ASSUME NEW ts, NEW kid, NEW i, CancelTransfer(i, ts) \/ BalancePendingWithdraw(kid, i, ts)
      PROVE  Guarded(k)
  <2>1. /\ i \in DOMAIN pend /\ UNCHANGED payCursor
        /\ bal' = Credit(bal, pend[i].account, pend[i].amount + pend[i].fee)
    BY <1>4 DEF CancelTransfer, BalancePendingWithdraw, OwnsPending, Withdraw
  <2>2. pend[i].amount + pend[i].fee \in Int /\ pend[i].amount + pend[i].fee >= 0
    BY <2>1, PendingType DEF PendingSound
  <2> QED BY <2>1, <2>2, CreditGuarded
<1> QED BY <1>1, <1>2, <1>3, <1>4 DEF TransferNext

LEMMA PayGuarded ==
  ASSUME TypeOK, FlightsWatched, PayNext \/ FeeNext, NEW k \in Kids
  PROVE  Guarded(k)
<1> USE DataAssumption
<1>0. /\ bal \in [Addrs -> Int] /\ payCursor \in [Addrs -> {0} \cup Stamps] /\ bal[k] \in Int
      /\ feeCursor \in Int
  BY SizeAssumption DEF TypeOK, Kids, Addrs, Stamps
<1>1. ASSUME NEW ts, NEW kid, NEW from, NEW to, NEW amount \in Nat, NEW order, NEW memo,
             NEW expiry,
             \/ PayNow(kid, from, to, amount, order, memo, ts)
             \/ PayContract(kid, from, to, amount, order, memo, expiry, ts)
      PROVE  Guarded(k)
  <2>1. /\ ~account[from].suspended /\ UNCHANGED payCursor
        /\ \E x \in {amount, amount + 0} : bal' = Credit(bal, from, -x)
    BY <1>1 DEF PayNow, PayContract, MayPay, MayAct, Deposit
  <2> QED BY <2>1, CreditGuarded
<1>2. ASSUME NEW ts, NEW cid, ExecutePay(cid, ts) PROVE Guarded(k)
  BY <1>2, SameGuarded DEF ExecutePay
<1>3. ASSUME NEW ts, NEW kid, NEW i, NEW amount \in Nat, PayRefund(kid, i, amount, ts)
      PROVE  Guarded(k)
  <2>1. bal' = Credit(bal, pay[i].from, amount) /\ UNCHANGED payCursor
    BY <1>3 DEF PayRefund
  <2> QED BY <2>1, CreditGuarded
<1>4. ASSUME NEW f, PayPruneCommit(f) PROVE Guarded(k)
  <2>1. /\ ~account[f.account].suspended
        /\ k # f.account => bal'[k] = bal[k] /\ payCursor'[k] = payCursor[k]
    BY <1>0, <1>4, SizeAssumption DEF PayPruneCommit, FlightsWatched, Kids, Addrs
  <2> QED BY <1>0, <2>1 DEF Guarded
<1>5. ASSUME NEW f, FeePruneCommit(f) PROVE Guarded(k)
  <2>1. feeCursor' = f.end /\ feeCursor < f.end /\ UNCHANGED payCursor /\ f \in Flight
    BY <1>5 DEF FeePruneCommit, FlightsWatched, TypeOK
  <2>2. f.end \in Int
    BY <2>1 DEF Flight, Stamps
  <2> QED BY <1>0, <2>1, <2>2 DEF Guarded
<1>6. ASSUME NEW ts, NEW kid, NEW addr, NEW safe, NEW asked,
             \/ PayPruneEndorse(kid, addr, safe, asked, ts)
             \/ FeePruneEndorse(kid, safe, asked, ts)
      PROVE  Guarded(k)
  BY <1>6, SameGuarded DEF PayPruneEndorse, FeePruneEndorse, ledger
<1> QED BY <1>1, <1>2, <1>3, <1>4, <1>5, <1>6, PayActions DEF FeeNext

LEMMA AccountGuarded ==
  ASSUME TypeOK, AccountNext, NEW k \in Kids
  PROVE  Guarded(k)
<1>0. /\ account \in [Addrs -> AccountDoc] /\ bal \in [Addrs -> Int] /\ k \in Addrs
      /\ payCursor \in [Addrs -> {0} \cup Stamps] /\ bal[k] \in Int
  BY SizeAssumption DEF TypeOK, Kids, Addrs
<1>1. ASSUME NEW addr, NEW holders, NEW amount, CreateAccount(addr, holders, amount)
      PROVE  Guarded(k)
  <2>1. k = addr => ~account'[k].suspended
    BY <1>0, <1>1 DEF CreateAccount
  <2>2. k # addr => bal'[k] = bal[k] /\ payCursor'[k] = payCursor[k]
    BY <1>0, <1>1 DEF CreateAccount
  <2> QED BY <1>0, <2>1, <2>2 DEF Guarded
<1>2. ASSUME NEW ts, NEW kid, NEW addr, NEW cid,
             AccountCreate(kid, ts) \/ ExecuteAccountCreate(cid, addr, ts)
      PROVE  Guarded(k)
  BY <1>1, <1>2 DEF AccountCreate, ExecuteAccountCreate
<1>3. ASSUME NEW ts, NEW doc, AccountContract(doc, ts) PROVE Guarded(k)
  BY <1>3, SameGuarded DEF AccountContract
<1>4. ASSUME NEW ts, NEW kid, NEW addr, NEW other, NEW addrs, NEW suspended, NEW cid,
             \/ SetSuspended(kid, suspended, ts)
             \/ AccountCreateJoint(kid, addrs, ts) \/ AccountHolderAdd(kid, addr, other, ts)
             \/ AccountHolderRemove(kid, addr, other, ts) \/ AccountHolderLeave(kid, addr, ts)
             \/ ExecuteAccountHolderAdd(cid, ts) \/ ExecuteAccountHolderRemove(cid, ts)
             \/ CancelAccount(cid, ts)
      PROVE  Guarded(k)
  <2>1. (\E doc : AccountContract(doc, ts)) \/ UNCHANGED <<bal, payCursor>>
    BY <1>4 DEF SetSuspended, AccountCreateJoint, AccountHolderAdd, AccountHolderRemove,
         AccountHolderLeave, ExecuteAccountHolderAdd, ExecuteAccountHolderRemove, CancelAccount
  <2> QED BY <1>3, <2>1, SameGuarded
<1>5. PersonalNext => Guarded(k)
  BY <1>2, <1>4 DEF PersonalNext, AccountSuspend, AccountUnsuspend
<1>6. JointNext => Guarded(k)
  BY <1>2, <1>4 DEF JointNext
<1> QED BY <1>5, <1>6 DEF AccountNext

\* The token moves balances of its genesis account only, which is not personal.
LEMMA SupplyGuarded ==
  ASSUME TypeOK, SupplyNext, NEW k \in Kids
  PROVE  Guarded(k)
<1>0. /\ account \in [Addrs -> AccountDoc] /\ bal \in [Addrs -> Int] /\ k \in Addrs
      /\ payCursor \in [Addrs -> {0} \cup Stamps] /\ bal[k] \in Int /\ k # Genesis
  BY SizeAssumption, DataAssumption DEF TypeOK, Kids, Addrs
<1>1. ASSUME payCursor'[k] = payCursor[k], bal'[k] = bal[k] PROVE Guarded(k)
  BY <1>0, <1>1 DEF Guarded
<1>2. ASSUME NEW diff, NEW ts, Supply(diff, ts), UNCHANGED payCursor PROVE Guarded(k)
  <2>1. bal'[k] = bal[k]
    BY <1>0, <1>2 DEF Supply, Credit
  <2> QED BY <1>1, <1>2, <2>1
<1>3. ASSUME NEW amount, NEW ts, Mint(amount, ts) \/ Burn(amount, ts), UNCHANGED payCursor
      PROVE  Guarded(k)
  BY <1>1, <1>2, <1>3 DEF Mint, Burn
<1>4. ASSUME NEW ts, NEW kid, NEW amount, NEW cid,
             \/ TokenMint(kid, amount, ts) \/ TokenBurn(kid, amount, ts)
             \/ ExecuteTokenMint(cid, ts) \/ ExecuteTokenBurn(cid, ts) \/ CancelSupply(cid, ts)
      PROVE  Guarded(k)
  <2>1. /\ UNCHANGED payCursor
        /\ UNCHANGED bal \/ \E x : Mint(x, ts) \/ Burn(x, ts)
    BY <1>4 DEF TokenMint, TokenBurn, ExecuteTokenMint, ExecuteTokenBurn, CancelSupply,
                SupplyContract
  <2> QED BY <1>1, <1>3, <2>1
<1>5. ASSUME NEW ts, NEW holders, NEW meta, NEW supply, CreateToken(holders, meta, supply, ts)
      PROVE  Guarded(k)
  BY <1>0, <1>1, <1>5 DEF CreateToken, CreateAccount
<1>6. ASSUME NEW ts, NEW kid, NEW addrs, NEW cid, NEW meta, NEW supply,
             \/ TokenCreate(kid, addrs, meta, supply, ts)
             \/ ExecuteTokenCreate(cid, meta, supply, ts) \/ TokenUpdate(meta, ts)
      PROVE  Guarded(k)
  <2>1. \/ UNCHANGED <<bal, payCursor>>
        \/ \E holders : CreateToken(holders, meta, supply, ts)
    BY <1>6 DEF TokenCreate, ExecuteTokenCreate, TokenUpdate
  <2> QED BY <1>1, <1>5, <2>1
<1> QED BY <1>4, <1>6, SupplyActions

\* Nobody takes tokens out of a suspended account, and no prune of its pays that
\* was endorsed before the suspension commits after it: the prune has read the
\* account.  Only fees that go back may cost a suspended target account something.
THEOREM SuspendedAccountsHold == Spec => SuspensionHolds
<1>1. ASSUME DocumentInv, [Next]_vars, NEW k \in Kids PROVE Guarded(k)
  <2>1. TypeOK /\ PendingSound /\ FlightsWatched
    BY <1>1 DEF DocumentInv
  <2>2. Network \/ UNCHANGED vars => UNCHANGED <<bal, payCursor>>
    BY DEF Network, Tick, Drop, vars, ledger
  <2> QED BY <1>1, <2>1, <2>2, TransferGuarded, PayGuarded, AccountGuarded, SupplyGuarded,
             SameGuarded DEF Next
<1>2. DocumentInv /\ [Next]_vars =>
        [\A k \in Kids : account[k].suspended /\ account'[k].suspended =>
           /\ payCursor'[k] = payCursor[k]
           /\ bal'[k] >= bal[k] \/ feeCursor' # feeCursor]_vars
  BY <1>1 DEF Guarded
<1> QED BY <1>2, DocumentsFit, PTL DEF Spec, SuspensionHolds

----------------------------------------------------------------------------
(* What a prune says is left for the next one.                             *)

\* A page that is not the whole range leaves a document that is not before its end.
LEMMA EndorsedMore ==
  ASSUME TypeOK, Endorsement, NEW f \in flight' \ flight, f.more
  PROVE  IF f.kind = "pay"
         THEN \E i \in DOMAIN pay \ f.ids : pay[i].to = f.account /\ pay[i].created >= f.end
         ELSE \E i \in DOMAIN fee \ f.ids : fee[i].created >= f.end
<1>0. ASSUME NEW docs, NEW range, NEW page \in Pages(range, docs), NEW last \in page, page # range,
             range \subseteq DOMAIN docs, \A i \in DOMAIN docs : docs[i].created \in Int
      PROVE  \E i \in range \ page : docs[i].created >= docs[last].created
  <2>1. page \subseteq range /\ \A i \in page, j \in range \ page : docs[i].created <= docs[j].created
    BY DEF Pages
  <2>2. PICK j \in range : j \notin page
    BY <1>0, <2>1
  <2>3. /\ docs[last].created <= docs[j].created
        /\ docs[last].created \in Int /\ docs[j].created \in Int
    BY <1>0, <2>1, <2>2
  <2> QED BY <2>2, <2>3
<1>1. CASE \E ts \in Stamps, kid \in Kids, addr \in Addrs, safe \in PruneFlags, asked \in Stamps :
             PayPruneEndorse(kid, addr, safe, asked, ts)
  <2>1. PICK ts \in Stamps, kid \in Kids, addr \in Addrs, safe \in PruneFlags, asked \in Stamps :
          PayPruneEndorse(kid, addr, safe, asked, ts)
    BY <1>1
  <2> DEFINE range == PayRange(addr, payCursor[addr], PruneEnd(safe, asked, ts))
             g(page, last) ==
               [kind |-> "pay", account |-> addr, ids |-> page, base |-> bal[addr],
                sum |-> PaySum(page), fee |-> PayFeeSum(page),
                end |-> pay[last].created, more |-> MoreIn(page, range),
                ts |-> ts, at |-> clock]
  <2>2. PICK page \in Pages(range, pay), last \in range :
          last \in page /\ flight' = flight \cup {g(page, last)}
    BY <2>1 DEF PayPruneEndorse
  <2>3. f = g(page, last)
    BY <2>2
  <2>4. /\ f.kind = "pay" /\ f.account = addr /\ f.ids = page /\ f.end = pay[last].created
        /\ f.more = MoreIn(page, range)
    BY <2>3
  <2>5. range \subseteq DOMAIN pay /\ \A i \in range : pay[i].to = addr
    BY DEF PayRange
  <2>6. \A i \in DOMAIN pay : pay[i].created \in Int
    BY PayType DEF Stamps
  <2> HIDE DEF range, g
  <2>7. page # range
    BY <2>4 DEF MoreIn
  <2>8. \E i \in range \ page : pay[i].created >= pay[last].created
    BY <1>0, <2>2, <2>5, <2>6, <2>7
  <2> QED BY <2>4, <2>5, <2>8
<1>2. CASE \E ts \in Stamps, kid \in Kids, safe \in PruneFlags, asked \in Stamps :
             FeePruneEndorse(kid, safe, asked, ts)
  <2>1. PICK ts \in Stamps, kid \in Kids, safe \in PruneFlags, asked \in Stamps :
          FeePruneEndorse(kid, safe, asked, ts)
    BY <1>2
  <2> DEFINE target == token.policy.target
             range  == FeeRange(feeCursor, PruneEnd(safe, asked, ts))
             g(page, last) ==
               [kind |-> "fee", account |-> target, ids |-> page, base |-> bal[target],
                sum |-> FeeSum(page), fee |-> 0, end |-> fee[last].created,
                more |-> MoreIn(page, range), ts |-> ts, at |-> clock]
  <2>2. PICK page \in Pages(range, fee), last \in range :
          last \in page /\ flight' = flight \cup {g(page, last)}
    BY <2>1 DEF FeePruneEndorse
  <2>3. f = g(page, last)
    BY <2>2
  <2>4. f.kind = "fee" /\ f.ids = page /\ f.end = fee[last].created /\ f.more = MoreIn(page, range)
    BY <2>3
  <2>5. range \subseteq DOMAIN fee
    BY DEF FeeRange
  <2>6. \A i \in DOMAIN fee : fee[i].created \in Int
    BY DEF TypeOK, IsDocs, FeeDoc, Stamps
  <2> HIDE DEF range, g
  <2>7. page # range
    BY <2>4 DEF MoreIn
  <2>8. \E i \in range \ page : fee[i].created >= fee[last].created
    BY <1>0, <2>2, <2>5, <2>6, <2>7
  <2> QED BY <2>4, <2>5, <2>8
<1> QED BY <1>1, <1>2 DEF Endorsement

\* As no document goes and none changes its created time, what was left still is.
LEMMA MoreStays ==
  ASSUME TypeOK, KnownIds, MoreOrTied, PayFrame, FeeFrame, [Next]_vars
  PROVE  MoreOrTied'
<1>1. \A i \in DOMAIN pay : /\ i \in DOMAIN pay' /\ pay'[i].to = pay[i].to
                            /\ pay'[i].created = pay[i].created
  BY OldPays DEF PayFrame
<1>2. \A i \in DOMAIN fee : i \in DOMAIN fee' /\ fee'[i].created = fee[i].created
  BY DEF FeeFrame
<1>3. ASSUME NEW f \in flight', f.more
      PROVE  IF f.kind = "pay"
             THEN \E i \in DOMAIN pay \ f.ids : pay[i].to = f.account /\ pay[i].created >= f.end
             ELSE \E i \in DOMAIN fee \ f.ids : fee[i].created >= f.end
  <2>1. CASE f \in flight
    BY <1>3, <2>1 DEF MoreOrTied
  <2>2. CASE f \notin flight
    <3>1. Transaction => flight' \subseteq flight
      BY DEF Transaction, Commit
    <3>2. Endorsement
      BY <2>2, <3>1, Steps
    <3> QED BY <1>3, <2>2, <3>2, EndorsedMore
  <2> QED BY <2>1, <2>2
<1>4. ASSUME NEW f \in flight', f.more
      PROVE  IF f.kind = "pay"
             THEN \E i \in DOMAIN pay' \ f.ids : pay'[i].to = f.account /\ pay'[i].created >= f.end
             ELSE \E i \in DOMAIN fee' \ f.ids : fee'[i].created >= f.end
  BY <1>1, <1>2, <1>3, <1>4
<1> QED BY <1>4 DEF MoreOrTied

\* A prune that says that there is more is right, as long as it is in flight:
\* something is left above the end of its page or with the created time of its end,
\* whatever the timestamps are.
THEOREM MoreIsLeft == Spec => []MoreOrTied
<1>1. Init => MoreOrTied
  BY DEF Init, MoreOrTied
<1>2. DocumentInv /\ MoreOrTied /\ [Next]_vars => MoreOrTied'
  <2> SUFFICES ASSUME DocumentInv, MoreOrTied, [Next]_vars PROVE MoreOrTied'
    OBVIOUS
  <2>1. /\ TypeOK /\ KnownIds /\ EscrowHasOpenContract /\ PendingSound /\ OffersSound
        /\ FreeWithoutPolicy
    BY DEF DocumentInv
  <2>2. PayFrame /\ FeeFrame
    BY <2>1, NextType, StepPays, StepFees
  <2> QED BY <2>1, <2>2, MoreStays
<1> QED BY <1>1, <1>2, DocumentsFit, PTL DEF Spec

----------------------------------------------------------------------------
(* What the balance logs of an account tell: all of its balance.           *)

\* The logs of the transactions that have committed, one at most of each.
LogsStamped == \A a \in Addrs : DOMAIN blog[a] \subseteq stamps

LogAfter(a, ts) ==
  \/ blog'[a] = blog[a] /\ bal'[a] = bal[a]
  \/ \E log \in LogDoc : /\ blog'[a] = PutDoc(blog[a], ts, log)
                         /\ bal'[a] = bal[a] + (log.diff - log.fee)

LogFrame ==
  \/ \E ts \in Stamps : Stamped(ts) /\ \A a \in Addrs : LogAfter(a, ts)
  \/ UNCHANGED <<bal, blog>> /\ stamps \subseteq stamps'

\* One more log explains what it adds to the balance.
LEMMA LogsStay ==
  ASSUME DistinctStamps, TypeOK, TypeOK', LogsStamped, LogsExplainBalance, LogFrame
  PROVE  LogsStamped' /\ LogsExplainBalance'
<1> DEFINE last == MaxTime + Skew
<1>0. last \in Nat /\ Stamps = 1..last
  BY SizeAssumption DEF Stamps
<1>1. CASE UNCHANGED <<bal, blog>> /\ stamps \subseteq stamps'
  BY <1>1 DEF LogsStamped, LogsExplainBalance, LoggedDiff
<1>2. ASSUME NEW ts \in Stamps, Stamped(ts), NEW a \in Addrs, LogAfter(a, ts)
      PROVE  /\ DOMAIN blog'[a] \subseteq stamps'
             /\ bal'[a] = InitBal[a] + SumTo(LoggedDiff(a)', last)
  <2>1. DOMAIN blog[a] \subseteq stamps /\ bal[a] = InitBal[a] + SumTo(LoggedDiff(a), last)
    BY DEF LogsStamped, LogsExplainBalance
  <2>2. ts \notin DOMAIN blog[a]
    BY <1>2, <2>1 DEF Stamped
  <2>3. CASE blog'[a] = blog[a] /\ bal'[a] = bal[a]
    BY <1>2, <2>1, <2>3 DEF LoggedDiff, Stamped
  <2>4. ASSUME NEW log \in LogDoc, blog'[a] = PutDoc(blog[a], ts, log),
               bal'[a] = bal[a] + (log.diff - log.fee)
        PROVE  /\ DOMAIN blog'[a] \subseteq stamps'
               /\ bal'[a] = InitBal[a] + SumTo(LoggedDiff(a)', last)
    <3> DEFINE f == LoggedDiff(a)
               g == LoggedDiff(a)'
    <3>1. /\ DOMAIN blog'[a] = DOMAIN blog[a] \cup {ts} /\ blog'[a][ts] = log
          /\ \A t \in DOMAIN blog[a] : t # ts /\ blog'[a][t] = blog[a][t]
      BY <2>2, <2>4 DEF PutDoc
    <3>2. \A t \in DOMAIN blog[a] : blog[a][t].diff \in Int /\ blog[a][t].fee \in Int
      BY DEF TypeOK, IsDocs, LogDoc
    <3>3. log.diff \in Int /\ log.fee \in Int
      BY DEF LogDoc
    <3>4. f \in [1..last -> Int] /\ g \in [1..last -> Int]
      BY <1>0, <3>1, <3>2, <3>3 DEF LoggedDiff
    <3>5. /\ \A t \in 1..last : t # ts => g[t] = f[t]
          /\ f[ts] = 0 /\ g[ts] = log.diff - log.fee
      BY <1>0, <2>2, <3>1 DEF LoggedDiff
    <3> HIDE DEF f, g
    <3>6. SumTo(g, last) = SumTo(f, last) + (g[ts] - f[ts])
      BY <1>0, <3>4, <3>5, SumChange
    <3>7. SumTo(f, last) \in Int /\ InitBal[a] \in Int /\ bal[a] = InitBal[a] + SumTo(f, last)
      BY <1>0, <2>1, <3>4, SumToType, DataAssumption DEF f
    <3>8. bal'[a] = InitBal[a] + SumTo(g, last)
      BY <2>4, <3>3, <3>5, <3>6, <3>7
    <3> QED BY <1>2, <2>1, <3>1, <3>8 DEF Stamped, g
  <2> QED BY <1>2, <2>3, <2>4 DEF LogAfter
<1>3. CASE \E ts \in Stamps : Stamped(ts) /\ \A a \in Addrs : LogAfter(a, ts)
  <2>1. PICK ts \in Stamps : Stamped(ts) /\ \A a \in Addrs : LogAfter(a, ts)
    BY <1>3
  <2>2. \A a \in Addrs : /\ DOMAIN blog'[a] \subseteq stamps'
                         /\ bal'[a] = InitBal[a] + SumTo(LoggedDiff(a)', last)
    BY <1>2, <2>1
  <2> QED BY <2>2 DEF LogsStamped, LogsExplainBalance
<1> QED BY <1>1, <1>3 DEF LogFrame

\* One account is credited and a log says by how much.
LEMMA OneLogged ==
  ASSUME TypeOK, NEW ts, NEW written, Commit(ts, written), NEW a, NEW x \in Int,
         bal' = Credit(bal, a, x), NEW type \in LogTypes, NEW diff \in Int, NEW charge \in Int,
         x = diff - charge,
         blog' = PutBalanceLog(blog, a, ts, [type |-> type, diff |-> diff, fee |-> charge])
  PROVE  LogFrame
<1> DEFINE log == [type |-> type, diff |-> diff, fee |-> charge]
<1>1. ts \in Stamps /\ Stamped(ts)
  BY DEF Commit, Stamped
<1>2. log \in LogDoc /\ log.diff - log.fee = x
  BY DEF LogDoc
<1> HIDE DEF log
<1>3. ASSUME NEW b \in Addrs PROVE LogAfter(b, ts)
  <2>1. bal \in [Addrs -> Int] /\ DOMAIN blog = Addrs
    BY DEF TypeOK
  <2>2. CASE b = a
    <3>1. bal'[b] = bal[b] + x /\ blog'[b] = PutDoc(blog[b], ts, log)
      BY <2>1, <2>2 DEF Credit, PutBalanceLog, log
    <3> QED BY <1>2, <3>1 DEF LogAfter
  <2>3. CASE b # a
    BY <2>1, <2>3 DEF LogAfter, Credit, PutBalanceLog
  <2> QED BY <2>2, <2>3
<1> QED BY <1>1, <1>3 DEF LogFrame

\* Nothing is credited and nothing is logged.
LEMMA NothingLogged ==
  ASSUME NEW ts, NEW written, Commit(ts, written), UNCHANGED <<bal, blog>>
  PROVE  LogFrame
BY DEF Commit, LogFrame

\* A deposit is taken from one account.
LEMMA DepositLogged ==
  ASSUME TypeOK, NEW ts, NEW written, Commit(ts, written), NEW addr, NEW amount \in Int,
         NEW charge \in Int, NEW expiry, Deposit(addr, amount, charge, expiry, ts)
  PROVE  LogFrame
<1>1. "deposit" \in LogTypes /\ -amount \in Int /\ -(amount + charge) \in Int
      /\ -(amount + charge) = (-amount) - charge
  BY DEF LogTypes
<1> QED BY <1>1, OneLogged DEF Deposit

\* And given back to it.
LEMMA WithdrawLogged ==
  ASSUME TypeOK, NEW ts, NEW written, Commit(ts, written), NEW i \in DOMAIN pend, Withdraw(i, ts)
  PROVE  LogFrame
<1> DEFINE back == pend[i].amount + pend[i].fee
<1>1. back \in Int /\ back = back - 0
  BY DEF TypeOK, IsDocs, PendingDoc
<1>2. /\ bal' = Credit(bal, pend[i].account, back)
      /\ blog' = PutBalanceLog(blog, pend[i].account, ts,
                    [type |-> "withdraw", diff |-> back, fee |-> 0])
  BY DEF Withdraw
<1> HIDE DEF back
<1> QED BY <1>1, <1>2, OneLogged DEF LogTypes

\* A transfer is logged by its sender and its receiver, who are not the same.
LEMMA TransferNowLogged ==
  ASSUME TypeOK, NEW kid, NEW from \in Addrs, NEW to \in Addrs, NEW amount \in Nat, NEW extra,
         NEW due, NEW ts, TransferNow(kid, from, to, amount, extra, due, ts)
  PROVE  LogFrame
<1> DEFINE charge == CalcFee(from, "transfer", amount)
           sent   == [type |-> "send", diff |-> -amount, fee |-> charge]
           got    == [type |-> "receive", diff |-> amount, fee |-> 0]
           less   == Credit(bal, from, -(amount + charge))
           logged == PutBalanceLog(blog, from, ts, sent)
           written == IF due > ts THEN {<<"balance", from>>}
                      ELSE {<<"balance", from>>, <<"balance", to>>}
<1>1. charge \in Nat
  BY CalcFeeType DEF Fns
<1>2. sent \in LogDoc /\ got \in LogDoc
  BY <1>1 DEF LogDoc, LogTypes
<1>3. sent.diff - sent.fee = -(amount + charge) /\ got.diff - got.fee = amount
  BY <1>1
<1>4. bal \in [Addrs -> Int] /\ DOMAIN blog = Addrs
  BY DEF TypeOK
<1>5. /\ less \in [Addrs -> Int]
      /\ less[from] = bal[from] + (sent.diff - sent.fee) /\ less[to] = bal[to]
      /\ \A a \in Addrs : a # from => less[a] = bal[a]
  BY <1>1, <1>3, <1>4 DEF Credit, TransferNow, MayTransfer
<1>6. /\ DOMAIN logged = Addrs /\ logged[from] = PutDoc(blog[from], ts, sent)
      /\ \A a \in Addrs : a # from => logged[a] = blog[a]
  BY <1>4 DEF PutBalanceLog
<1>7. from # to /\ Commit(ts, written) /\ Receive(from, to, amount, due, ts, less, logged, pend)
  BY DEF TransferNow, MayTransfer
<1> HIDE DEF charge, sent, got, less, logged, written
<1>8. ts \in Stamps /\ Stamped(ts)
  BY <1>7 DEF Commit, Stamped
<1>9. CASE due > ts
  <2>1. bal' = less /\ blog' = logged
    BY <1>7, <1>9 DEF Receive
  <2>2. \A a \in Addrs : LogAfter(a, ts)
    BY <1>2, <1>5, <1>6, <2>1 DEF LogAfter
  <2> QED BY <1>8, <2>2 DEF LogFrame
<1>10. CASE ~(due > ts)
  <2>1. bal' = Credit(less, to, amount) /\ blog' = PutBalanceLog(logged, to, ts, got)
    BY <1>7, <1>10 DEF Receive, got
  <2>2. /\ bal'[to] = less[to] + amount /\ \A a \in Addrs : a # to => bal'[a] = less[a]
        /\ blog'[to] = PutDoc(logged[to], ts, got)
        /\ \A a \in Addrs : a # to => blog'[a] = logged[a]
    BY <1>5, <1>6, <2>1 DEF Credit, PutBalanceLog
  <2>3. LogAfter(from, ts)
    BY <1>2, <1>5, <1>6, <1>7, <2>2 DEF LogAfter
  <2>4. LogAfter(to, ts)
    BY <1>2, <1>3, <1>5, <1>6, <1>7, <2>2 DEF LogAfter
  <2>5. ASSUME NEW a \in Addrs, a # from, a # to PROVE LogAfter(a, ts)
    BY <1>5, <1>6, <2>2, <2>5 DEF LogAfter
  <2> QED BY <1>8, <2>3, <2>4, <2>5 DEF LogFrame
<1> QED BY <1>9, <1>10

\* Transfers.
LEMMA TransferLogged ==
  ASSUME TypeOK, TransferNext
  PROVE  LogFrame
<1>1. ASSUME NEW ts, NEW kid, NEW from \in Addrs, NEW to \in Addrs, NEW amount \in Amounts,
             NEW extra, NEW due, NEW expiry,
             TransferContract(kid, from, to, amount, extra, due, expiry, ts)
      PROVE  LogFrame
  <2>1. amount \in Nat /\ CalcFee(from, "transfer", amount) \in Nat
    BY CalcFeeType, DataAssumption DEF Fns
  <2> DEFINE charge == CalcFee(from, "transfer", amount)
  <2>2. Commit(ts, {<<"balance", from>>}) /\ Deposit(from, amount, charge, expiry, ts)
    BY <1>1 DEF TransferContract
  <2>3. amount \in Int /\ charge \in Int
    BY <2>1
  <2> HIDE DEF charge
  <2> QED BY <2>2, <2>3, DepositLogged
<1>2. ASSUME NEW ts, NEW cid \in TxIds, ExecuteTransfer(cid, ts) PROVE LogFrame
  <2> DEFINE amount  == pend[cid].amount
             written == IF con[cid].due > ts THEN {} ELSE {<<"balance", con[cid].to>>}
  <2>1. amount \in Int /\ amount = amount - 0
    BY <1>2 DEF ExecuteTransfer, OwnsPending, TypeOK, IsDocs, PendingDoc
  <2>2. /\ Commit(ts, written)
        /\ \/ UNCHANGED <<bal, blog>>
           \/ /\ bal' = Credit(bal, con[cid].to, amount)
              /\ blog' = PutBalanceLog(blog, con[cid].to, ts,
                           [type |-> "receive", diff |-> amount, fee |-> 0])
    BY <1>2 DEF ExecuteTransfer, Receive
  <2> HIDE DEF amount, written
  <2> QED BY <2>1, <2>2, NothingLogged, OneLogged DEF LogTypes
<1>3. ASSUME NEW ts, NEW i, NEW kid, CancelTransfer(i, ts) \/ BalancePendingWithdraw(kid, i, ts)
      PROVE  LogFrame
  BY <1>3, WithdrawLogged DEF CancelTransfer, BalancePendingWithdraw, OwnsPending
<1>4. Amounts \subseteq Nat
  BY DataAssumption
<1> QED BY <1>1, <1>2, <1>3, <1>4, TransferNowLogged DEF TransferNext

\* Pays and the prunes of pays and fees.  A prune adds what it has collected to the
\* balance that it read, which is still the one of the account.
LEMMA PayLogged ==
  ASSUME TypeOK, FlightsWatched, PayCalls \/ (\E f \in flight : PayPruneCommit(f) \/ FeePruneCommit(f))
  PROVE  LogFrame
<1>1. ASSUME NEW ts, NEW kid, NEW from, NEW to, NEW amount \in Amounts, NEW order, NEW memo,
             PayNow(kid, from, to, amount, order, memo, ts)
      PROVE  LogFrame
  <2>1. -amount \in Int /\ -amount = (-amount) - 0
    BY DataAssumption
  <2>2. /\ bal' = Credit(bal, from, -amount)
        /\ blog' = PutBalanceLog(blog, from, ts, [type |-> "pay", diff |-> -amount, fee |-> 0])
        /\ Commit(ts, {<<"balance", from>>})
    BY <1>1 DEF PayNow
  <2> QED BY <2>1, <2>2, OneLogged DEF LogTypes
<1>2. ASSUME NEW ts, NEW kid, NEW from, NEW to, NEW amount \in Amounts, NEW order, NEW memo,
             NEW expiry, PayContract(kid, from, to, amount, order, memo, expiry, ts)
      PROVE  LogFrame
  <2>1. amount \in Int /\ 0 \in Int
    BY DataAssumption
  <2>2. Commit(ts, {<<"balance", from>>}) /\ Deposit(from, amount, 0, expiry, ts)
    BY <1>2 DEF PayContract
  <2> QED BY <2>1, <2>2, DepositLogged
<1>3. ASSUME NEW ts, NEW cid, ExecutePay(cid, ts) PROVE LogFrame
  BY <1>3, NothingLogged DEF ExecutePay
<1>4. ASSUME NEW ts, NEW kid, NEW i, NEW amount \in RefundAmounts, PayRefund(kid, i, amount, ts)
      PROVE  LogFrame
  <2> DEFINE written == {<<"pay", i>>, <<"balance", pay[i].from>>}
  <2>1. amount \in Int /\ amount = amount - 0
    BY DataAssumption
  <2>2. /\ bal' = Credit(bal, pay[i].from, amount)
        /\ blog' = PutBalanceLog(blog, pay[i].from, ts,
                     [type |-> "refund", diff |-> amount, fee |-> 0])
        /\ Commit(ts, written)
    BY <1>4 DEF PayRefund
  <2> HIDE DEF written
  <2> QED BY <2>1, <2>2, OneLogged DEF LogTypes
<1>5. ASSUME NEW f \in flight, NEW sum \in Int, NEW type \in LogTypes, NEW written,
             Commit(f.ts, written), bal' = [bal EXCEPT ![f.account] = f.base + sum],
             blog' = PutBalanceLog(blog, f.account, f.ts, [type |-> type, diff |-> sum, fee |-> 0])
      PROVE  LogFrame
  <2>1. f.account \in Addrs /\ f.base = bal[f.account] /\ bal \in [Addrs -> Int]
    BY DEF TypeOK, Flight, FlightsWatched
  <2>2. bal' = Credit(bal, f.account, sum)
    BY <1>5, <2>1 DEF Credit
  <2>3. sum = sum - 0
    OBVIOUS
  <2> QED BY <1>5, <2>2, <2>3, OneLogged
<1>6. ASSUME NEW f \in flight, PayPruneCommit(f) PROVE LogFrame
  <2> DEFINE sum == f.sum - f.fee
  <2>1. sum \in Int
    BY DEF TypeOK, Flight
  <2>2. /\ bal' = [bal EXCEPT ![f.account] = f.base + sum]
        /\ blog' = PutBalanceLog(blog, f.account, f.ts,
                     [type |-> "prunePay", diff |-> sum, fee |-> 0])
        /\ Commit(f.ts, {<<"balance", f.account>>})
    BY <1>6 DEF PayPruneCommit
  <2> HIDE DEF sum
  <2> QED BY <1>5, <2>1, <2>2 DEF LogTypes
<1>7. ASSUME NEW f \in flight, FeePruneCommit(f) PROVE LogFrame
  <2>1. f.sum \in Int
    BY DEF TypeOK, Flight
  <2>2. /\ bal' = [bal EXCEPT ![f.account] = f.base + f.sum]
        /\ blog' = PutBalanceLog(blog, f.account, f.ts,
                     [type |-> "pruneFee", diff |-> f.sum, fee |-> 0])
        /\ Commit(f.ts, {<<"balance", f.account>>, <<"feeCursor", 0>>})
    BY <1>7 DEF FeePruneCommit
  <2> QED BY <1>5, <2>1, <2>2 DEF LogTypes
<1> QED BY <1>1, <1>2, <1>3, <1>4, <1>6, <1>7 DEF PayCalls

\* Accounts: a new one starts with the nothing that its address had.
LEMMA AccountLogged ==
  ASSUME TypeOK, AbsentEmpty, AccountNext
  PROVE  LogFrame
<1>1. ASSUME NEW ts, NEW written, Commit(ts, written), UNCHANGED blog, NEW addr \in Addrs,
             NEW holders, CreateAccount(addr, holders, 0)
      PROVE  LogFrame
  BY <1>1, CreateEmpty, NothingLogged
<1>2. ASSUME NEW ts, NEW kid \in Kids, AccountCreate(kid, ts) PROVE LogFrame
  <2>1. kid \in Addrs
    BY SizeAssumption DEF Kids, Addrs
  <2> QED BY <1>1, <1>2, <2>1 DEF AccountCreate
<1>3. ASSUME NEW ts, NEW cid, NEW addr \in Joint, ExecuteAccountCreate(cid, addr, ts) PROVE LogFrame
  BY <1>1, <1>3 DEF ExecuteAccountCreate, Joint
<1>4. PersonalNext => LogFrame
  BY <1>2, NothingLogged DEF PersonalNext, AccountSuspend, AccountUnsuspend, SetSuspended
<1>5. ASSUME NEW ts, NEW kid, NEW addr, NEW other, NEW addrs,
             \/ AccountHolderAdd(kid, addr, other, ts) \/ AccountHolderRemove(kid, addr, other, ts)
             \/ AccountCreateJoint(kid, addrs, ts) \/ AccountHolderLeave(kid, addr, ts)
      PROVE  LogFrame
  BY <1>5, NothingLogged DEF AccountHolderAdd, AccountHolderRemove, AccountCreateJoint,
                             AccountHolderLeave, AccountContract
<1>6. ASSUME NEW ts, NEW cid,
             \/ ExecuteAccountHolderAdd(cid, ts) \/ ExecuteAccountHolderRemove(cid, ts)
             \/ CancelAccount(cid, ts)
      PROVE  LogFrame
  BY <1>6, NothingLogged DEF ExecuteAccountHolderAdd, ExecuteAccountHolderRemove, CancelAccount
<1>7. JointNext => LogFrame
  BY <1>3, <1>5, <1>6 DEF JointNext
<1> QED BY <1>4, <1>7 DEF AccountNext

\* The token.  A mint and a burn are logged as much as they are; the initial supply
\* is, unless there is none.
LEMMA SupplyLogged ==
  ASSUME TypeOK, AccountInv, SupplyNext
  PROVE  LogFrame
<1>0. bal \in [Addrs -> Int] /\ token.supply \in Int /\ Genesis \in Addrs /\ MaxSupply \in Nat
  BY DataAssumption DEF TypeOK, TokenDoc
<1>1. ASSUME NEW ts, NEW written, Commit(ts, written), NEW diff \in Int, Supply(diff, ts)
      PROVE  LogFrame
  <2> DEFINE type == IF diff < 0 THEN "burn" ELSE "mint"
  <2>1. type \in LogTypes /\ diff = diff - 0
    BY DEF LogTypes
  <2>2. /\ bal' = Credit(bal, Genesis, diff)
        /\ blog' = PutBalanceLog(blog, Genesis, ts, [type |-> type, diff |-> diff, fee |-> 0])
    BY <1>1 DEF Supply, SupplyLog
  <2> HIDE DEF type
  <2> QED BY <1>1, <2>1, <2>2, OneLogged
<1>2. ASSUME NEW ts, NEW written, Commit(ts, written), NEW amount \in Nat,
             Mint(amount, ts) \/ Burn(amount, ts)
      PROVE  LogFrame
  <2>1. \/ UNCHANGED <<bal, blog>> \/ \E diff \in Int : Supply(diff, ts)
    BY <1>0, <1>2 DEF Mint, Burn, Burnable
  <2> QED BY <1>1, <1>2, <2>1, NothingLogged
<1>3. ASSUME NEW ts, NEW kid, NEW amount \in Nat,
             TokenMint(kid, amount, ts) \/ TokenBurn(kid, amount, ts)
      PROVE  LogFrame
  <2>1. ASSUME NEW kind, SupplyContract(kind, amount, ts) PROVE LogFrame
    BY <2>1, NothingLogged DEF SupplyContract
  <2> QED BY <1>2, <1>3, <2>1 DEF TokenMint, TokenBurn
<1>4. ASSUME NEW ts, NEW cid, ExecuteTokenMint(cid, ts) \/ ExecuteTokenBurn(cid, ts)
      PROVE  LogFrame
  <2>1. con[cid].amount \in Nat
    BY <1>4, ContractType DEF ExecuteTokenMint, ExecuteTokenBurn
  <2> QED BY <1>2, <1>4, <2>1 DEF ExecuteTokenMint, ExecuteTokenBurn
<1>5. ASSUME NEW ts, NEW cid, CancelSupply(cid, ts) PROVE LogFrame
  BY <1>5, NothingLogged DEF CancelSupply
<1>6. ASSUME NEW ts, NEW meta, TokenUpdate(meta, ts) PROVE LogFrame
  BY <1>6, NothingLogged DEF TokenUpdate
<1>7. ASSUME NEW ts, NEW holders, NEW meta, NEW supply \in Nat,
             CreateToken(holders, meta, supply, ts)
      PROVE  LogFrame
  <2> DEFINE written == AccountKeys(Genesis) \cup {<<"token", 0>>}
  <2>1. Commit(ts, written) /\ bal[Genesis] = 0 /\ bal' = [bal EXCEPT ![Genesis] = supply]
    BY <1>0, <1>7 DEF CreateToken, CreateAccount, AccountInv, AbsentEmpty
  <2> HIDE DEF written
  <2>2. bal' = Credit(bal, Genesis, supply)
    BY <1>0, <2>1 DEF Credit
  <2>3. CASE supply > 0
    <3>1. supply = supply - 0 /\ supply \in Int /\ ~(supply < 0)
      BY <2>3
    <3>2. blog' = PutBalanceLog(blog, Genesis, ts, [type |-> "mint", diff |-> supply, fee |-> 0])
      BY <1>7, <2>3, <3>1 DEF CreateToken, SupplyLog
    <3> QED BY <2>1, <2>2, <3>1, <3>2, OneLogged DEF LogTypes
  <2>4. CASE ~(supply > 0)
    <3>1. supply = 0 /\ UNCHANGED blog
      BY <1>7, <2>4 DEF CreateToken
    <3>2. UNCHANGED bal
      BY <1>0, <2>2, <3>1 DEF Credit
    <3> QED BY <2>1, <3>1, <3>2, NothingLogged
  <2> QED BY <2>3, <2>4
<1>8. ASSUME NEW ts, NEW kid, NEW addrs, NEW meta, NEW supply \in Nat,
             TokenCreate(kid, addrs, meta, supply, ts)
      PROVE  LogFrame
  BY <1>7, <1>8, NothingLogged DEF TokenCreate
<1>9. ASSUME NEW ts, NEW cid, NEW meta, NEW supply \in Nat,
             ExecuteTokenCreate(cid, meta, supply, ts)
      PROVE  LogFrame
  BY <1>7, <1>9 DEF ExecuteTokenCreate
<1>10. Amounts \subseteq Nat
  BY DataAssumption
<1> QED BY <1>3, <1>4, <1>5, <1>6, <1>8, <1>9, <1>10, SupplyActions

\* Every step credits an account only with what it logs for it.
LEMMA StepLogged ==
  ASSUME AccountInv, FlightsWatched, [Next]_vars
  PROVE  LogFrame
<1>1. TypeOK /\ AbsentEmpty
  BY DEF AccountInv
<1>2. PayPrunes => UNCHANGED <<bal, blog, stamps>> \/ \E f \in flight : PayPruneCommit(f)
  BY DEF PayPrunes, PayPruneEndorse, ledger
<1>3. FeeNext => UNCHANGED <<bal, blog, stamps>> \/ \E f \in flight : FeePruneCommit(f)
  BY DEF FeeNext, FeePruneEndorse, ledger
<1>4. Network \/ UNCHANGED vars => UNCHANGED <<bal, blog, stamps>>
  BY DEF Network, Tick, Drop, vars, ledger
<1>5. UNCHANGED <<bal, blog, stamps>> => LogFrame
  BY DEF LogFrame
<1> QED BY <1>1, <1>2, <1>3, <1>4, <1>5, TransferLogged, PayLogged, AccountLogged, SupplyLogged
    DEF Next, PayNext

\* When timestamps are distinct, no balance log overwrites another: the logs of an
\* account always add up to its balance.  LogsStamped is what makes it inductive: the
\* keys of the logs are timestamps that were used.
THEOREM LogsAddUp == ASSUME DistinctStamps PROVE Spec => []LogsExplainBalance
<1>1. Init => LogsStamped /\ LogsExplainBalance
  <2> SUFFICES ASSUME Init PROVE LogsStamped /\ LogsExplainBalance
    OBVIOUS
  <2>1. blog = [a \in Addrs |-> NoDocs] /\ bal = InitBal
    BY DEF Init
  <2>2. LogsStamped
    BY <2>1 DEF LogsStamped, NoDocs
  <2>3. ASSUME NEW a \in Addrs PROVE bal[a] = InitBal[a] + SumTo(LoggedDiff(a), MaxTime + Skew)
    <3> DEFINE last == MaxTime + Skew
    <3>1. last \in Nat /\ Stamps = 1..last
      BY SizeAssumption DEF Stamps
    <3>2. LoggedDiff(a) = [t \in 1..last |-> 0]
      BY <2>1, <3>1 DEF LoggedDiff, NoDocs
    <3>3. SumTo(LoggedDiff(a), last) = 0
      BY <3>1, <3>2, SumZero
    <3>4. InitBal[a] \in Int
      BY DataAssumption
    <3> QED BY <2>1, <3>3, <3>4
  <2> QED BY <2>2, <2>3 DEF LogsExplainBalance
<1>2. AccountInv /\ DocumentInv /\ LogsStamped /\ LogsExplainBalance /\ [Next]_vars
        => LogsStamped' /\ LogsExplainBalance'
  BY NextType, StepLogged, LogsStay DEF DocumentInv
<1> QED BY <1>1, <1>2, AccountsWhole, DocumentsFit, PTL DEF Spec
=============================================================================
