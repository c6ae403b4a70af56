----------------------------- MODULE WorldState -----------------------------
(***************************************************************************)
(* The world state of the kiesnet-token chaincode for one token code, the  *)
(* clock of the network and the helpers of the *_stub.go files that every  *)
(* handler shares.                                                         *)
(*                                                                         *)
(* A handler that only reads and writes documents by key is one atomic     *)
(* step taken when its transaction commits: the peers validate the version *)
(* of every key it read.  The two prune handlers read the result of a rich *)
(* query, which the peers do not re-run when they validate, so a prune is  *)
(* endorsed in one step and committed in another; `flight' holds the       *)
(* prunes between the two.                                                 *)
(***************************************************************************)
EXTENDS Integers, FiniteSets, Sums

CONSTANTS
  NKids,          \* kiesnet ids are 1..NKids; the personal address of kid k is k
  NAddr,          \* addresses are 1..NAddr, those above NKids are joint accounts
  NTx,            \* bound: committed transactions; transaction ids are 1..NTx
  MaxTime,        \* bound: the network clock stops there
  MaxFlight,      \* bound: endorsed prunes waiting to be committed
  Skew,           \* how far a timestamp may lie from the clock of an endorser
  Latency,        \* longest time from the endorsement to the commit
  Margin,         \* the "10 minutes" a safe prune stays behind its timestamp
  PruneSize,      \* PaysPruneSize and FeePruneSize
  PruneFlags,     \* values callers give to the ten minutes flag
  DistinctStamps, \* TRUE when no two transactions carry the same timestamp
  MaxSigners,     \* most signers a contract may have, most holders of an account
  Genesis,        \* the genesis account of the token, a joint account
  MaxSupply,
  InitHolders,    \* holders of each account, {} where no account was created;
                  \* the token is issued when its genesis account has holders
  InitBal,        \* balances at the start
  InitPolicy,     \* fee policy at the start
  Metas,          \* what the KNT chaincode may answer to tokenCreate and tokenUpdate
  CoHolders,      \* sets of addresses that callers name as co-holders
  Amounts,        \* amounts callers ask for
  RefundAmounts,  \* amounts merchants ask to refund
  Terms,          \* seconds from the timestamp to a pending or expiry time
  ExtraSigners,   \* what callers of transfer may add to the signers
  Orders, Memos   \* order ids and memos of payments

Kids  == 1..NKids
Addrs == 1..NAddr
TxIds == 1..NTx
Fns   == {"transfer", "pay"}
Rate  == [num : Int, den : Nat \ {0}, max : Int]

NoAddr   == 0
NoRates  == [fn \in Fns |-> [num |-> 0, den |-> 1, max |-> 0]]
NoPolicy == [target |-> NoAddr, rates |-> NoRates]
Policy   == [target : Addrs, rates : [Fns -> Rate]] \cup {NoPolicy}
Meta     == [fee : BOOLEAN, target : Addrs \cup {NoAddr}, rates : [Fns -> Rate]]

\* The clock starts late enough for every timestamp to be positive.
StartTime == Skew + Latency + 1
Stamps    == 1..(MaxTime + Skew)

ASSUME SizeAssumption ==
  /\ NKids \in Nat \ {0} /\ NAddr \in Nat /\ NKids <= NAddr
  /\ NTx \in Nat /\ MaxTime \in Nat /\ MaxFlight \in Nat
  /\ Skew \in Nat /\ Latency \in Nat /\ Margin \in Nat
  /\ StartTime <= MaxTime
  /\ PruneSize \in Nat \ {0} /\ MaxSigners \in Nat
  /\ PruneFlags \subseteq BOOLEAN /\ DistinctStamps \in BOOLEAN

ASSUME DataAssumption ==
  /\ Genesis \in Addrs \ Kids /\ MaxSupply \in Nat
  /\ InitHolders \in [Addrs -> SUBSET Kids]
  /\ \A k \in Kids : InitHolders[k] \subseteq {k}
  /\ \A a \in Addrs \ (Kids \cup {Genesis}) : Cardinality(InitHolders[a]) # 1
  /\ InitBal \in [Addrs -> Nat] /\ SumTo(InitBal, NAddr) <= MaxSupply
  /\ \A a \in Addrs : InitHolders[a] = {} => InitBal[a] = 0
  /\ InitPolicy \in Policy
  /\ InitPolicy # NoPolicy => InitHolders[InitPolicy.target] # {}
  /\ InitHolders[Genesis] = {} => InitPolicy = NoPolicy /\ SumTo(InitBal, NAddr) = 0
  /\ Metas \subseteq Meta /\ CoHolders \subseteq SUBSET Addrs
  /\ Amounts \subseteq Nat /\ RefundAmounts \subseteq Nat
  /\ Terms \subseteq Nat /\ ExtraSigners \subseteq SUBSET Kids

VARIABLES
  clock,      \* the time of the network
  ntx,        \* transactions committed so far; the next one has id ntx + 1
  stamps,     \* timestamps of the committed transactions
  account,    \* ACC_ documents: holders and suspension of each address
  holder,     \* HLD_ documents: who is listed as a holder of which account
  token,      \* the TKN_ document: whether it exists, supply and fee policy
  bal,        \* BLC_ documents: the amount of each account
  payCursor,  \* created time in LastPrunedPayID of each BLC_ document, 0 if none
  blog,       \* BLOG_ documents: per account, keyed by timestamp
  pend,       \* PBLC_ documents, keyed by the transaction that made them
  con,        \* contracts of the kiesnet-contract chaincode, keyed likewise
  pay,        \* PAY_ documents, keyed likewise
  fee,        \* FEE_ documents, keyed likewise
  feeCursor,  \* created time in the last pruned fee id of the token, 0 if none
  collected,  \* history variable, which no handler reads: the pays and the fees
              \* that committed prunes have added to a balance
  flight      \* endorsed prunes that have not been committed

ledger ==
  <<account, holder, token, bal, payCursor, blog, pend, con, pay, fee, feeCursor, collected>>
vars   == <<clock, ntx, stamps, ledger, flight>>

----------------------------------------------------------------------------
(* Documents.  A kind of document is a function whose domain holds the     *)
(* keys that exist.                                                        *)

AccountDoc == [holders : SUBSET Kids, suspended : BOOLEAN]
TokenDoc == [issued : BOOLEAN, supply : Int, policy : Policy]
Texts == Orders \cup Memos \cup {""}
LogTypes == {"mint", "burn", "send", "receive", "deposit", "withdraw", "pay",
             "refund", "prunePay", "pruneFee"}
LogDoc == [type : LogTypes, diff : Int, fee : Int]
PendingDoc == [type : {"account", "contract"}, account : Addrs, rid : Nat,
            amount : Int, fee : Int, due : Nat]
ContractDoc ==
  LET Status == {"open", "executed", "cancelled"}
  IN  [kind : {"transfer", "pay"}, status : Status, from : Addrs, to : Addrs,
       amount : Nat, due : Nat, order : Texts, memo : Texts]
      \cup [kind : {"token/burn", "token/mint"}, status : Status, amount : Nat]
      \cup [kind : {"account/create", "token/create"}, status : Status,
            holders : SUBSET Kids, signers : SUBSET Kids]
      \cup [kind : {"account/holder/add", "account/holder/remove"}, status : Status,
            account : Addrs, holder : Kids, signers : SUBSET Kids]
PayDoc == [to : Addrs, from : Addrs, amount : Int, fee : Int, totalRefund : Nat,
           parent : Nat, order : Texts, memo : Texts, created : Stamps]
FeeDoc == [account : Addrs, amount : Int, created : Stamps]

PutDoc(docs, key, doc) ==
  [k \in DOMAIN docs \cup {key} |-> IF k = key THEN doc ELSE docs[k]]

NoDocs == [k \in {} |-> 0]

DelDoc(docs, key) == [k \in DOMAIN docs \ {key} |-> docs[k]]

PutBalanceLog(logs, addr, ts, log) == [logs EXCEPT ![addr] = PutDoc(@, ts, log)]

Credit(bals, addr, amount) == [bals EXCEPT ![addr] = @ + amount]

----------------------------------------------------------------------------
(* Transactions.                                                           *)

TxId == ntx + 1

\* An endorsed prune and the keys it read that some handler may write.
Flight == [kind : {"pay", "fee"}, account : Addrs, ids : SUBSET TxIds,
           base : Int, sum : Int, fee : Int, end : Stamps, more : BOOLEAN,
           ts : Stamps, at : Nat]

AccountKeys(addr) == {<<"account", addr>>, <<"balance", addr>>}

\* Reads, were the account of a prune not read again by its commit.
ReadsNoAccount(f) ==
  {<<"balance", f.account>>} \cup
  IF f.kind = "pay" THEN {<<"pay", i>> : i \in f.ids}
                    ELSE {<<"token", 0>>, <<"feeCursor", 0>>}

Reads(f) ==
  AccountKeys(f.account) \cup
  IF f.kind = "pay" THEN {<<"pay", i>> : i \in f.ids}
                    ELSE {<<"token", 0>>, <<"feeCursor", 0>>}

\* One transaction with timestamp ts commits and writes the keys `written';
\* every prune in flight that read one of them will fail its validation.
Commit(ts, written) ==
  /\ ntx < NTx
  /\ ts \in Stamps
  /\ clock - Skew - Latency <= ts /\ ts <= clock + Skew
  /\ DistinctStamps => ts \notin stamps
  /\ ntx' = ntx + 1
  /\ stamps' = stamps \cup {ts}
  /\ flight' = {f \in flight : Reads(f) \cap written = {}}
  /\ UNCHANGED clock

\* A peer runs a prune stamped ts; its result waits for the commit.
Endorse(ts) ==
  /\ Cardinality(flight) < MaxFlight
  /\ ts \in Stamps /\ clock - Skew <= ts /\ ts <= clock + Skew

\* An endorsed prune is never sent to the orderer, or fails its validation.
Drop(f) == f \in flight /\ flight' = flight \ {f} /\ UNCHANGED <<clock, ntx, stamps, ledger>>

Tick == clock < MaxTime /\ clock' = clock + 1 /\ UNCHANGED <<ntx, stamps, ledger, flight>>

----------------------------------------------------------------------------
(* Helpers of the stubs.                                                   *)

Exists(addr)         == account[addr].holders # {}
HasHolder(addr, kid) == kid \in account[addr].holders
IsActive(addr)       == Exists(addr) /\ ~account[addr].suspended

\* MayAct, were it not asked whether the invoker is a holder.
MayActForAll(kid, addr) == kid \in Kids /\ IsActive(addr)

\* The invoker may move tokens out of the account.
MayAct(kid, addr) == HasHolder(addr, kid) /\ ~account[addr].suspended

Signers(addr, extra) == account[addr].holders \cup extra

\* GetSignableIDs of all the addresses: every holder of each of them.
SignableIDs(addrs) == UNION {account[a].holders : a \in addrs}

\* CreateAccount, were the account not looked up first.
CreateAccountAgain(addr, holders, amount) ==
  /\ account' = [account EXCEPT ![addr] = [holders |-> holders, suspended |-> FALSE]]
  /\ holder' = holder \cup (holders \X {addr})
  /\ bal' = [bal EXCEPT ![addr] = amount]
  /\ payCursor' = [payCursor EXCEPT ![addr] = 0]

\* CreateAccount, were the holders of a new account not listed.
CreateAccountUnlisted(addr, holders, amount) ==
  /\ ~Exists(addr)
  /\ account' = [account EXCEPT ![addr] = [holders |-> holders, suspended |-> FALSE]]
  /\ bal' = [bal EXCEPT ![addr] = amount]
  /\ payCursor' = [payCursor EXCEPT ![addr] = 0]
  /\ UNCHANGED holder

\* CreateAccount and CreateJointAccount: the account, its balance document, which
\* starts with `amount' and no pruned pays, and a document for each holder.
CreateAccount(addr, holders, amount) ==
  /\ ~Exists(addr)
  /\ account' = [account EXCEPT ![addr] = [holders |-> holders, suspended |-> FALSE]]
  /\ holder' = holder \cup (holders \X {addr})
  /\ bal' = [bal EXCEPT ![addr] = amount]
  /\ payCursor' = [payCursor EXCEPT ![addr] = 0]

\* Fee of a transfer or a payment of `amount': nothing for the genesis and the
\* target account, else the rate, never negative and never above its maximum.
CalcFee(payer, fn, amount) ==
  LET rate == token.policy.rates[fn]
      raw  == (amount * rate.num) \div rate.den
  IN  IF payer \in {Genesis, token.policy.target} \/ raw < 0 THEN 0
      ELSE IF rate.max > 0 /\ raw > rate.max THEN rate.max ELSE raw

\* CreateFee, were the negative fee of a page of refunds thought to be none.
CreateFeeIfPositive(addr, amount, ts) ==
  fee' = IF amount <= 0 THEN fee
         ELSE PutDoc(fee, TxId, [account |-> addr, amount |-> amount, created |-> ts])

CreateFee(addr, amount, ts) ==
  fee' = IF amount = 0 THEN fee
         ELSE PutDoc(fee, TxId, [account |-> addr, amount |-> amount, created |-> ts])

OpenContract(doc) == con' = PutDoc(con, TxId, doc)

\* Move amount + fee of an account into a pending balance owned by a contract.
Deposit(addr, amount, charge, expiry, ts) ==
  /\ pend' = PutDoc(pend, TxId,
                [type |-> "contract", account |-> addr, rid |-> TxId,
                 amount |-> amount, fee |-> charge, due |-> expiry])
  /\ bal' = Credit(bal, addr, -(amount + charge))
  /\ blog' = PutBalanceLog(blog, addr, ts,
                [type |-> "deposit", diff |-> -amount, fee |-> charge])

\* Withdraw, were the fee of the pending balance forgotten.
WithdrawAmountOnly(i, ts) ==
  LET back == pend[i].amount
  IN  /\ bal' = Credit(bal, pend[i].account, back)
      /\ blog' = PutBalanceLog(blog, pend[i].account, ts,
                    [type |-> "withdraw", diff |-> back, fee |-> 0])
      /\ pend' = DelDoc(pend, i)

\* Withdraw, were the fee missing from the balance log only.
WithdrawLogsAmount(i, ts) ==
  /\ bal' = Credit(bal, pend[i].account, pend[i].amount + pend[i].fee)
  /\ blog' = PutBalanceLog(blog, pend[i].account, ts,
                [type |-> "withdraw", diff |-> pend[i].amount, fee |-> 0])
  /\ pend' = DelDoc(pend, i)

\* Withdraw, were the pending balance not deleted.
WithdrawKeeps(i, ts) ==
  LET back == pend[i].amount + pend[i].fee
  IN  /\ bal' = Credit(bal, pend[i].account, back)
      /\ blog' = PutBalanceLog(blog, pend[i].account, ts,
                    [type |-> "withdraw", diff |-> back, fee |-> 0])
      /\ UNCHANGED pend

\* Give a pending balance back to its owner.
Withdraw(i, ts) ==
  LET back == pend[i].amount + pend[i].fee
  IN  /\ bal' = Credit(bal, pend[i].account, back)
      /\ blog' = PutBalanceLog(blog, pend[i].account, ts,
                    [type |-> "withdraw", diff |-> back, fee |-> 0])
      /\ pend' = DelDoc(pend, i)

\* PruneEnd, were the clocks off to one side only.
PruneEndHalfMargin(safe, asked, ts) ==
  LET margin == Margin \div 2 IN IF safe /\ asked > ts - margin THEN ts - margin ELSE asked

\* The end of the range of a prune stamped ts and asked to stop at `asked'.
PruneEnd(safe, asked, ts) ==
  IF safe /\ asked > ts - Margin THEN ts - Margin ELSE asked

\* Pages, were the documents not read in the order of their created time.
PagesInAnyOrder(range, docs) ==
  {page \in SUBSET range :
     /\ page # {} /\ Cardinality(page) <= PruneSize
     /\ page # range => Cardinality(page) = PruneSize}

\* What one call may read of a range of documents: all of it, or PruneSize
\* documents in the order of their created time, ties broken anyhow.
Pages(range, docs) ==
  {page \in SUBSET range :
     /\ page # {}
     /\ \A i \in page, j \in range \ page : docs[i].created <= docs[j].created
     /\ page # range => Cardinality(page) = PruneSize
     /\ Cardinality(page) <= PruneSize}

\* MoreIn, were it set as soon as a page is full.
MoreInFullPage(page, range) == Cardinality(page) = PruneSize

\* has_more: the query had more documents than the page.
MoreIn(page, range) == page # range

\* The contract chaincode runs a contract's callback once, while it is open.
CloseContract(cid, status) ==
  /\ con[cid].status = "open"
  /\ con' = [con EXCEPT ![cid].status = status]

\* The pending balance a callback may use.
OwnsPending(cid) ==
  cid \in DOMAIN pend /\ pend[cid].type = "contract" /\ pend[cid].rid = cid

----------------------------------------------------------------------------
Init ==
  /\ clock = StartTime /\ ntx = 0 /\ stamps = {} /\ flight = {}
  /\ account = [a \in Addrs |-> [holders |-> InitHolders[a], suspended |-> FALSE]]
  /\ holder = UNION {InitHolders[a] \X {a} : a \in Addrs}
  /\ token = [issued |-> InitHolders[Genesis] # {},
              supply |-> SumTo(InitBal, NAddr), policy |-> InitPolicy]
  /\ bal = InitBal
  /\ payCursor = [a \in Addrs |-> 0] /\ feeCursor = 0
  /\ collected = [pay |-> {}, fee |-> {}]
  /\ blog = [a \in Addrs |-> NoDocs]
  /\ pend = NoDocs /\ con = NoDocs /\ pay = NoDocs /\ fee = NoDocs

\* docs holds documents of one kind under some of the keys.
IsDocs(docs, keys, Doc) == DOMAIN docs \subseteq keys /\ docs \in [DOMAIN docs -> Doc]

\* The type invariant.
TypeOK ==
  /\ clock \in StartTime..MaxTime /\ ntx \in 0..NTx /\ stamps \subseteq Stamps
  /\ account \in [Addrs -> AccountDoc] /\ holder \subseteq Kids \X Addrs
  /\ token \in TokenDoc
  /\ bal \in [Addrs -> Int]
  /\ payCursor \in [Addrs -> {0} \cup Stamps] /\ feeCursor \in {0} \cup Stamps
  /\ collected \in [pay : SUBSET TxIds, fee : SUBSET TxIds]
  /\ DOMAIN blog = Addrs /\ \A a \in Addrs : IsDocs(blog[a], Stamps, LogDoc)
  /\ IsDocs(pend, TxIds, PendingDoc) /\ IsDocs(con, TxIds, ContractDoc)
  /\ IsDocs(pay, TxIds, PayDoc) /\ IsDocs(fee, TxIds, FeeDoc)
  /\ \A f \in flight : f \in Flight
=============================================================================
