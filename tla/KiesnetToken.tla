---------------------------- MODULE KiesnetToken ----------------------------
(***************************************************************************)
(* The chaincode as main.go routes it: every handler of every component,   *)
(* in any order, on one world state.                                       *)
(***************************************************************************)
EXTENDS Accounts, Transfer, Pay, Fee, TokenSupply

Network == Tick \/ \E f \in flight : Drop(f)

Next ==
  \/ AccountNext \/ TransferNext \/ PayNext \/ FeeNext \/ SupplyNext
  \/ Network

Spec == Init /\ [][Next]_vars

\* Parts of the chaincode on their own, to look further into them.
PaymentSpec  == Init /\ [][PayNext \/ FeeNext \/ Network]_vars
TransferSpec == Init /\ [][TransferNext \/ FeeNext \/ PersonalNext \/ Network]_vars
IssueSpec    == Init /\ [][SupplyNext \/ TransferNext \/ PersonalNext \/ Network]_vars
HolderSpec   == Init /\ [][SupplyNext \/ AccountNext \/ Network]_vars

----------------------------------------------------------------------------
(* Safety.                                                                 *)

\* Tokens outside the balances: in pending balances, and in the pays and the fees
\* that no prune has added to a balance yet.
InEscrow(docs) ==
  [i \in TxIds |-> IF i \in DOMAIN docs THEN docs[i].amount + docs[i].fee ELSE 0]

Outstanding(docs, done) ==
  [i \in TxIds |-> IF i \in DOMAIN docs \ done THEN docs[i].amount ELSE 0]

\* No handler creates or loses tokens: the supply of the token is what the
\* accounts have, what is held for contracts and time locks, and what lies in
\* pays and fees that were not collected.  No prune adds one of these twice, or
\* with another amount than it has when the prune commits.
Conservation ==
  token.supply = SumTo(bal, NAddr) + SumTo(InEscrow(pend), NTx)
                 + SumTo(Outstanding(pay, collected.pay), NTx)
                 + SumTo(Outstanding(fee, collected.fee), NTx)

\* What was not collected lies above the cursor, where the next prunes look for it:
\* no page ends before a document it should have held, and none arrives too late.
NothingSkipped ==
  /\ \A i \in DOMAIN pay \ collected.pay : pay[i].created > payCursor[pay[i].to]
  /\ \A i \in DOMAIN fee \ collected.fee : fee[i].created > feeCursor

\* How late a pay or a fee can be, with clocks that differ and prunes that are all
\* safe ones.  With the code's margin, twice the tolerance of the clocks, it comes
\* below the cursor by no more than the time it took to commit.
LateBound ==
  [][LET late == 2 * Skew + Latency - Margin
     IN  /\ \A i \in DOMAIN pay' \ DOMAIN pay :
              \/ payCursor[pay'[i].to] = 0
              \/ payCursor[pay'[i].to] - pay'[i].created <= late
         /\ \A i \in DOMAIN fee' \ DOMAIN fee :
              feeCursor = 0 \/ feeCursor - fee'[i].created <= late]_vars

\* A pay is put where its merchant's next prunes will find it: created after
\* the cursor of the merchant's account.
NoLatePay ==
  [][\A i \in DOMAIN pay' \ DOMAIN pay :
       pay'[i].created > payCursor[pay'[i].to]]_vars

\* The refunds of a payment never exceed it, neither the amount nor the fee,
\* its total_refund is exactly their sum, and a refund cannot be refunded.
Refunds(i) == {j \in DOMAIN pay : pay[j].parent = i}

RefundBounded ==
  \A i \in DOMAIN pay :
    /\ pay[i].totalRefund = -PaySum(Refunds(i))
    /\ Refunds(i) # {} =>
         /\ pay[i].parent = 0 /\ pay[i].totalRefund <= pay[i].amount
         /\ -PayFeeSum(Refunds(i)) <= pay[i].fee
         /\ \A j \in Refunds(i) : pay[j].to = pay[i].to /\ pay[j].from = pay[i].from

\* A pending balance held for a contract can be taken by that contract only,
\* which is still open and moves what was deposited.
EscrowHasOpenContract ==
  \A i \in DOMAIN pend : pend[i].type = "contract" =>
    /\ i \in DOMAIN con /\ con[i].status = "open"
    /\ con[i].kind \in {"transfer", "pay"}
    /\ con[i].from = pend[i].account /\ con[i].amount = pend[i].amount

\* The balance logs of an account account for all of its balance.
LoggedDiff(addr) == [t \in Stamps |->
  IF t \in DOMAIN blog[addr] THEN blog[addr][t].diff - blog[addr][t].fee ELSE 0]

LogsExplainBalance ==
  \A a \in Addrs : bal[a] = InitBal[a] + SumTo(LoggedDiff(a), MaxTime + Skew)

\* However many mints were signed before, the supply stays below its maximum.
SupplyWithinMax == token.supply <= MaxSupply

\* While the token has no fee policy there is no fee document, which is why
\* feePrune returns early; a policy's target account exists.
FeesHaveTarget ==
  /\ token.policy = NoPolicy => DOMAIN fee = {}
  /\ token.policy # NoPolicy => Exists(token.policy.target)

\* No account is overdrawn.
NoOverdraft == \A a \in Addrs : bal[a] >= 0

\* Nothing but refunds can overdraw an account.  payRefund looks at no balance:
\* the next prune of the merchant takes the tokens from whatever is left in the
\* account by then, and the next prune of the fees takes back from the target
\* account the fees that went back with them.  Neither can cost an account more.
RefundsBy(addr) == {i \in DOMAIN pay : pay[i].parent # 0 /\ pay[i].to = addr}

OverdraftFromRefunds ==
  \A a \in Addrs :
    bal[a] >= PaySum(RefundsBy(a)) + PayFeeSum(UNION {RefundsBy(b) : b \in Addrs})

\* has_more in the answer of a prune: there are documents left for a next one,
\* which will look above the end of this one (README.md, pay/prune, fee/prune).
HasMore ==
  \A f \in flight : f.more =>
    IF f.kind = "pay" THEN \E i \in DOMAIN pay : pay[i].to = f.account /\ pay[i].created > f.end
                      ELSE \E i \in DOMAIN fee : fee[i].created > f.end

\* The same with timestamps that may be equal: what is left is above the end of the
\* page, or has the created time of its last document (which no next prune finds).
MoreOrTied ==
  \A f \in flight : f.more =>
    IF f.kind = "pay"
    THEN \E i \in DOMAIN pay \ f.ids : pay[i].to = f.account /\ pay[i].created >= f.end
    ELSE \E i \in DOMAIN fee \ f.ids : fee[i].created >= f.end

\* The HLD_ documents, from which account/list answers, list exactly the holders
\* that the accounts have, through creations, additions, removals and departures.
HolderIndex ==
  \A k \in Kids, a \in Addrs : <<k, a>> \in holder <=> HasHolder(a, k)

\* A joint account is never left to one holder, nor to none, however many removals
\* were signed and holders left at the same time; the genesis account may have
\* been created with one holder.
JointKeepsHolders ==
  \A a \in Joint \ {Genesis} : Cardinality(account[a].holders) # 1

\* No account that exists grows beyond the limit, however many additions were
\* signed at the same time.
AdditionsWithinLimit ==
  [][\A a \in Addrs :
       Exists(a) /\ ~(account'[a].holders \subseteq account[a].holders)
         => Cardinality(account'[a].holders) <= MaxSigners]_vars

\* Nobody is made a holder of a joint account by others alone: whoever becomes one
\* signed the contract that does it, or created the token alone.
HoldersConsent ==
  [][\A a \in Joint, k \in Kids : ~HasHolder(a, k) /\ k \in account'[a].holders =>
       \/ \E cid \in DOMAIN con : /\ con[cid].status = "open"
                                 /\ con'[cid].status = "executed"
                                 /\ k \in con[cid].signers
       \/ a = Genesis /\ account'[a].holders = {k}]_vars

\* An address without an account has no tokens and no cursor, so the balance
\* document that its creation writes replaces nothing.
AbsentEmpty == \A a \in Addrs : ~Exists(a) => bal[a] = 0 /\ payCursor[a] = 0

\* While an account is suspended nobody takes tokens out of it and its pays are not
\* pruned, not even by a prune that was endorsed before.  Only a prune of fees that
\* were refunded may cost the target account something.
SuspensionHolds ==
  [][\A k \in Kids : account[k].suspended /\ account'[k].suspended =>
       /\ payCursor'[k] = payCursor[k]
       /\ bal'[k] >= bal[k] \/ feeCursor' # feeCursor]_vars

----------------------------------------------------------------------------
(* What comments of the source say and the code does not do.               *)

\* A payment made by a contract has the order id and the memo it was asked
\* with (the document in the comment of executePay).
PayKeepsOrder ==
  [][\A cid \in DOMAIN con, i \in DOMAIN pay' \ DOMAIN pay :
       con[cid].kind = "pay" /\ con'[cid].status # con[cid].status =>
         pay'[i].order = con[cid].order /\ pay'[i].memo = con[cid].memo]_vars

\* An account is created with at most the greatest number of holders ("exclude
\* invoker, max 127" in README.md and in the comment of accountCreate).
CreatedWithinLimit ==
  [][\A a \in Addrs : ~Exists(a) => Cardinality(account'[a].holders) <= MaxSigners]_vars

----------------------------------------------------------------------------
(* Why prunes keep the tokens.                                             *)

\* Every caller of a prune sets the ten minutes flag.
AllSafe == PruneFlags \subseteq {TRUE}

\* Documents belong to transactions that have committed.
KnownIds ==
  \A i \in DOMAIN pend \cup DOMAIN con \cup DOMAIN pay \cup DOMAIN fee : i <= ntx

\* What was collected lies at or below the cursor, where no prune finds it again.
CollectedBelow ==
  /\ \A i \in collected.pay : i \in DOMAIN pay /\ pay[i].created <= payCursor[pay[i].to]
  /\ \A i \in collected.fee : i \in DOMAIN fee /\ fee[i].created <= feeCursor

\* What a prune in flight may miss: a document with the created time of its end, or
\* one that was not committed when the prune was endorsed.
MayMiss(f, created) == created = f.end \/ created >= f.at - Skew - Latency

\* A prune in flight carries the balance of its account, and the sums of documents
\* between the cursor and its end, of all of them but those it may miss.
Current(f) ==
  /\ f.at <= clock /\ f.base = bal[f.account]
  /\ f.kind = "pay" =>
       LET range == PayRange(f.account, payCursor[f.account], f.end)
       IN  /\ payCursor[f.account] < f.end
           /\ f.ids \subseteq range /\ \A i \in range \ f.ids : MayMiss(f, pay[i].created)
           /\ f.sum = PaySum(f.ids) /\ f.fee = PayFeeSum(f.ids)
  /\ f.kind = "fee" =>
       LET range == FeeRange(feeCursor, f.end)
       IN  /\ feeCursor < f.end
           /\ f.ids \subseteq range /\ \A i \in range \ f.ids : MayMiss(f, fee[i].created)
           /\ f.sum = FeeSum(f.ids)

FlightsCurrent == \A f \in flight : Current(f)

\* The pending balance of a payment holds no fee: its execution moves none.
PaysHoldNoFee ==
  \A i \in DOMAIN con \cap DOMAIN pend :
    con[i].kind = "pay" /\ pend[i].type = "contract" => pend[i].fee = 0

\* The inductive invariant behind Conservation.
IInv ==
  /\ TypeOK /\ KnownIds /\ PaysHoldNoFee
  /\ CollectedBelow /\ FlightsCurrent /\ Conservation

----------------------------------------------------------------------------
(* Why accounts stay whole.                                                *)

\* Whoever has a pending balance or a prune in flight has an account.
OwnersExist ==
  /\ \A i \in DOMAIN pend : Exists(pend[i].account)
  /\ \A f \in flight : Exists(f.account)

\* What was true of a contract when it was opened, and still is.
Agreed(doc) ==
  /\ doc.kind \in {"transfer", "pay"} => Exists(doc.to)
  /\ doc.kind \in {"account/create", "token/create"} =>
       doc.holders # {} /\ doc.holders \subseteq doc.signers
  /\ doc.kind = "account/create" => Cardinality(doc.holders) >= 2
  /\ doc.kind = "account/holder/add" => doc.holder \in doc.signers

ContractsAgreed == \A i \in DOMAIN con : Agreed(con[i])

\* The token and its genesis account are created together.
IssuedWithGenesis ==
  /\ token.issued <=> Exists(Genesis)
  /\ ~token.issued => token.supply = 0

\* The inductive invariant behind the properties of accounts.
AccountInv ==
  /\ TypeOK /\ AbsentEmpty /\ OwnersExist /\ ContractsAgreed /\ IssuedWithGenesis
  /\ HolderIndex /\ JointKeepsHolders

----------------------------------------------------------------------------
(* Why what is held, paid and charged fits together.                       *)

\* What is pending is something, and its fee was taken from a payer.
PendingSound == \A i \in DOMAIN pend : pend[i].amount > 0 /\ pend[i].fee >= 0

\* A contract moves something, and to somebody else.
OffersSound ==
  \A i \in DOMAIN con : con[i].kind \in {"transfer", "pay"} =>
    con[i].amount > 0 /\ con[i].from # con[i].to

\* A payment moves something to somebody else; a refund gives back something of
\* a payment that was made before.
PaysSound ==
  \A i \in DOMAIN pay :
    /\ pay[i].from # pay[i].to
    /\ pay[i].parent = 0 => pay[i].amount > 0 /\ pay[i].fee >= 0
    /\ pay[i].parent # 0 => /\ pay[i].parent \in DOMAIN pay
                            /\ pay[i].amount < 0 /\ pay[i].fee <= 0

\* The refunds of a payment together give back no greater part of its fee than
\* of its amount, however often they were rounded.
RefundsProRata ==
  \A i \in DOMAIN pay :
    pay[i].amount * (-PayFeeSum(Refunds(i))) <= pay[i].fee * pay[i].totalRefund

\* Without a fee policy nothing is charged, so no fee is due later either.
FreeWithoutPolicy ==
  /\ ~token.issued => token.policy = NoPolicy
  /\ token.policy = NoPolicy =>
       /\ \A i \in DOMAIN pend : pend[i].fee = 0
       /\ \A i \in DOMAIN pay : pay[i].fee = 0
       /\ \A f \in flight : f.fee = 0

\* What a prune in flight has read and its commit validates.
FlightsWatched ==
  \A f \in flight :
    /\ f.base = bal[f.account]
    /\ f.kind = "pay" => payCursor[f.account] < f.end /\ ~account[f.account].suspended
    /\ f.kind = "fee" => feeCursor < f.end /\ f.account = token.policy.target

\* The inductive invariant behind the properties of contracts, refunds and fees.
DocumentInv ==
  /\ TypeOK /\ KnownIds /\ EscrowHasOpenContract
  /\ PendingSound /\ OffersSound /\ PaysSound
  /\ RefundBounded /\ RefundsProRata
  /\ FeesHaveTarget /\ FreeWithoutPolicy /\ FlightsWatched

----------------------------------------------------------------------------
(* Why only refunds overdraw an account.                                   *)

\* The fee of a payment is a fraction of it, as the comment of FeeRate has it
\* ("numeric string of positive decimal fraction"); ParseFeePolicy takes more.
IsFraction(rate) == rate.num <= rate.den

FairRates ==
  /\ IsFraction(InitPolicy.rates["pay"])
  /\ \A meta \in Metas : IsFraction(meta.rates["pay"])

FeesWithinPays ==
  /\ IsFraction(token.policy.rates["pay"])
  /\ \A i \in DOMAIN pay : pay[i].parent = 0 => pay[i].fee <= pay[i].amount

\* The refunds that prunes have moved over, all of them and those by one merchant.
Pruned == {i \in DOMAIN pay : pay[i].parent # 0 /\ pay[i].created <= payCursor[pay[i].to]}
PrunedOf(addr) == {i \in Pruned : pay[i].to = addr}

\* The fees that went back with them, and those that the target account has paid.
FeesBack == {i \in DOMAIN fee : fee[i].amount < 0}
FeesReturned == {i \in FeesBack : fee[i].created <= feeCursor}

\* What an account may be short of is what prunes of refunds took from it.
ShortByRefunds ==
  /\ \A a \in Addrs : bal[a] >= PaySum(PrunedOf(a)) + FeeSum(FeesReturned)
  /\ FeeSum(FeesBack) >= PayFeeSum(Pruned)

\* A prune in flight carries the sums of documents between the cursor and its end,
\* if not of all of them.
PagesUnpruned ==
  \A f \in flight :
    /\ f.kind = "pay" => /\ f.ids \subseteq PayRange(f.account, payCursor[f.account], f.end)
                         /\ f.sum = PaySum(f.ids) /\ f.fee = PayFeeSum(f.ids)
    /\ f.kind = "fee" => f.ids \subseteq FeeRange(feeCursor, f.end) /\ f.sum = FeeSum(f.ids)

\* The inductive invariant behind OverdraftFromRefunds.
OverdraftInv == FeesWithinPays /\ ShortByRefunds /\ PagesUnpruned
=============================================================================
