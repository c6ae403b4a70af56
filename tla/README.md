# kiesnet-token in TLA+

This directory holds a formal model of the kiesnet-token chaincode (`src/`), the
configurations that model-check it with TLC and theorems about it that the TLA+
proof system TLAPS checks. It is kept beside the code: `PROJECT.json` gives, for
every definition that models code, the file and the lines it was translated from.

## 1. The system

kiesnet-token is a Hyperledger Fabric chaincode: a set of handlers that the peers
run ("endorse") against the world state, a key-value store of JSON documents; the
writes of a handler take effect when its transaction commits, after the peers have
validated that the versions of all the keys it read are still current (MVCC).
`main.go` routes an invocation to a handler. Handlers never call each other; all
interaction goes through the world state and through the contract chaincode.

| component | state | operations | interacts with |
|---|---|---|---|
| Router (`main.go`) | none | `Init`, `Invoke`, `ver` | calls the handlers |
| Accounts (`account*.go`) | `ACC_` documents (holders, suspension), `HLD_` index | create, holder add and remove (by contract), suspend, unsuspend | read by every handler that moves tokens |
| Balances (`balance*.go`) | `BLC_` balances with the cursor of pruned pays, `BLOG_` logs, `PBLC_` pending balances | supply, transfer, deposit, withdraw, `balance/pending/withdraw` | written by transfers, pays, fees, token supply |
| Transfers (`transfer_tx.go`) | none of its own | `transfer` at once, time-locked or by contract; `executeTransfer`, `cancelTransfer` | accounts, balances, fees, contracts |
| Pays (`pay*.go`) | `PAY_` documents | `pay`, `pay/refund`, `pay/prune`, `executePay` | accounts, balances, fees, contracts |
| Fees (`fee*.go`, `last_prun*.go`) | `FEE_` documents, cursor of pruned fees | `CalcFee`, `CreateFee`, `fee/prune` | fee policy of the token, balance of the target account |
| Token (`token*.go`) | `TKN_` document: supply, maximum, fee policy | create, mint, burn, update; `executeToken*` | genesis account and balance, KNT chaincode, contracts |
| Contract callbacks (`contract_tx.go`) | none | `contract/execute`, `contract/cancel` | called by the kiesnet-contract chaincode |
| Address, Amount, queries, errors, vendored code | none | codecs, arithmetic, query strings | used everywhere |

What is hard in it:

* *Time.* A transaction carries the timestamp of its client; a peer accepts it within
  five minutes of its own clock, at endorsement only. Documents are created "in the
  past" of other documents, and commit later still.
* *Pruning.* Pays and fees are written as documents of their own, so that many
  customers can pay one merchant without conflicts on its balance. `pay/prune` and
  `fee/prune` collect them: a rich query for the documents created after a cursor, at
  most 900 a call; the cursor becomes the time of the last document. A document that
  appears below the cursor is lost. Rich queries are not protected from phantoms.
* *Custody.* A transfer or payment that needs several signatures puts its tokens into a
  pending balance; it is taken by the execution of the contract, by its cancellation or
  by the owner after the expiry, whichever comes first.
* *Staleness.* Contracts carry amounts, fees, accounts and holders from when they were
  opened; fee policies come from another chaincode whenever somebody asks for them.
* *Refunds* are negative pays, with rounded negative fees.

What makes it correct: no handler creates or loses tokens, nor moves them to
anybody else than was asked or signed for, or without being asked; no pay or fee is
collected twice, none is put where no prune finds it but for what the clocks and the ties
of timestamps explain, and who keeps pruning collects the others; a refund never exceeds its payment; a pending
balance has one owner and is not stuck; the supply respects its maximum; the logs add up
to the balances; no account is overdrawn but by its own refunds, and none while it is
suspended; there is always somebody who can collect the fees; creating an account
overwrites nothing; a joint account keeps at least two holders, who all agreed.

## 2. The modules

| module | models |
|---|---|
| `Sums` | the sum of an integer function on `1..n` |
| `WorldState` | the documents, the clock and the network, `Commit`, `Endorse`, and the helpers of the stubs that all handlers share; `Init`, `TypeOK` |
| `Accounts` | `account/create` (personal, joint), `account/holder/add`, `account/holder/remove`, `account/suspend`, `account/unsuspend`, their callbacks |
| `Transfer` | `transfer`, `executeTransfer`, `cancelTransfer`, `balance/pending/withdraw` |
| `Pay` | `pay`, `pay/refund`, `pay/prune`, `executePay` |
| `Fee` | `fee/prune` |
| `TokenSupply` | `token/create`, `token/mint`, `token/burn`, `token/update`, their callbacks |
| `KiesnetToken` | composes them: `Next`, `Spec`, the properties, the inductive invariants |
| `Wallets` | the abstract specification: who owns how much, what was sold and can be refunded, what is offered, and who may ask for what |
| `Custody` | the refinement mapping from the documents to `Wallets`, and the call of `Wallets` that each handler answers |
| `Collection` | callers who keep pruning and withdrawing, their fairness, the liveness properties |
| `MCKiesnetToken`, `MCCustody`, `MCCollection` | values of the constants for TLC |
| `SumsProofs`, `TypeProofs`, `AccountProofs`, `ConservationProofs`, `SafetyProofs`, `DocumentProofs`, `CustodyProofs`, `OverdraftProofs` | theorems and proofs (section 6); each EXTENDS the one before, but the last two, which both EXTEND `DocumentProofs` |

`KiesnetToken` EXTENDS the component modules, which all EXTEND `WorldState`; `Custody` and
`Collection` EXTEND `KiesnetToken`, and `Custody` instantiates `Wallets`. Definitions marked
"were ..." in their comment are faulty variants of the definition they stand beside; no
specification uses them, they are there to see that the properties notice.

*State.* One token code. A kind of document is a function whose domain is the set of
existing keys. Pays, fees, pending balances and contracts are keyed by the transaction
that made them (in the code their keys contain its id or its time and id). A balance is
split into `bal` and `payCursor`; `feeCursor` stands for the last pruned fee id, in
whichever document it is kept. `con` holds the contracts of the contract chaincode. An
account exists when it has holders; `holder` is the set of the `HLD_` documents. `token`
says whether the token is issued: the behaviours of some runs begin with an empty ledger.
`collected` is a history variable: the pays and the fees that the commit of a prune has added to a
balance. No handler reads it. The code keeps no such record: it only has the cursors, and a document
below a cursor may have been collected or skipped. The properties speak of what was collected,
so that they see the difference.
The address of a personal account is its holder's number. That of a joint account is a hash
of the transaction id in the code; here an address that no account has yet, and `Genesis` for
the genesis account.

*Transactions.* A handler that reads and writes by key is one action: MVCC makes it as
if it ran when it commits. `Commit(ts, written)` gives it the next id and a timestamp
`ts` with `clock - Skew - Latency <= ts <= clock + Skew`: at most `Skew` (five minutes)
from the clock when it was endorsed, and at most `Latency` later now. A prune is two
actions. `PayPruneEndorse` runs the handler and keeps what it computed (the new balance, the
new cursor, the sums) in `flight`; `PayPruneCommit` writes exactly that, up to `Latency`
later. In between any other transaction may commit; if it writes a key the prune has read
(`Reads`), the prune is dropped from `flight`, as its validation would fail. New documents
in the queried range do not drop it: Fabric does not detect phantoms of rich queries. So it
matters that `written` has no key the handler leaves alone: a time lock writes no balance of its
receiver (`balance_stub.go:213-218`), and a burn of nothing writes no key at all (`token_stub.go:134-136`,
`BurnKeys`).

*External parts*, modelled from how the code uses them: the Fabric platform (`Commit`,
`Reads`, `Drop`, `Tick`), the contract chaincode (`CloseContract`: it runs `execute` or
`cancel` of an open contract once, at any time), the KNT chaincode (answers to
`token/create` and `token/update` from `Metas`, amounts from `Amounts`).

*Abstractions.* Addresses are numbers, `1..NKids` the personal accounts. Parameter
parsing, length limits of memos, log wording, paging bookmarks and responses are left out.
`MaxSigners` is the limit of 128. Rates are fractions, rounded down as `MulRat` does.
A page (`Pages`) is `PruneSize` documents in the order of their created time, which the index
of the query gives, ties in any order. An action's guard has all the early returns of
its handler; what returns an error has no effect and is no step.

## 3. Properties

In `KiesnetToken.tla` if not said otherwise, each with a comment; the hazards they are
for are in `PROJECT.json`.

*Tokens*
* `Conservation`: supply = balances + pending balances + the pays and the fees that were not
  collected. A page that is collected twice, or a prune that adds another sum than its documents have,
  breaks it; a document that no prune will find does not, it is still there.
* `NothingSkipped`: whatever was not collected is above its cursor, where the next prunes look. It holds
  where timestamps differ and no transaction is late (`payments`); the runs `same_stamp` and
  `bare_margin` show why not elsewhere.
* `LateBound` (action): how far below its cursor a pay or a fee can arrive: `2 * Skew + Latency - Margin`
  at most. With the ten minutes of the code that is the time it took to commit.
* `NoLatePay` (action): a new pay is created after the cursor of its merchant. The code does not have
  that (`bare_margin`).
* `RefundBounded`: refunds stay within their payment, amount and fee, and its total is theirs.
* `EscrowHasOpenContract`: a pending balance of a contract belongs to an open contract
  that has its account and amount.
* `LogsExplainBalance`: the logs of an account add up to its balance.
* `SupplyWithinMax`, `FeesHaveTarget`: mint contracts and fee policies that went stale do no harm.
* `NoOverdraft`, `OverdraftFromRefunds`: only refunds can overdraw an account, by no more
  than what they refunded. A burn that was signed for more than the genesis account has by then would
  leave the supply and the balances in agreement, so it is `NoOverdraft` that watches it (`issue`).
* `HasMore`: if a prune answers has_more, a later prune will find something; `MoreOrTied`: with equal
  timestamps, something is left that has the time of the end of the page or a later one.
* `IInv`, `DocumentInv`, `OverdraftInv`: the inductive invariants behind `Conservation`, behind
  `RefundBounded`, `EscrowHasOpenContract` and `FeesHaveTarget`, and behind
  `OverdraftFromRefunds` (section 6).

*Accounts*
* `AbsentEmpty`: an address without an account has no tokens, which its creation would overwrite.
* `HolderIndex`: the `HLD_` documents list exactly the holders of the accounts.
* `JointKeepsHolders`: removals that were signed at the same time, and holders that leave, never
  leave a joint account to one holder.
* `AdditionsWithinLimit`, `HoldersConsent` (actions): additions signed at the same time respect the
  limit; whoever becomes a holder of a joint account signed for it.
* `SuspensionHolds` (action): no tokens leave a suspended account and its pays are not pruned,
  also by transactions endorsed before. What was deposited before may still go where it was
  offered: the source leaves that open (ISSUE in `executePay`), and no property is about it.
* `AccountInv`: the inductive invariant behind these (section 6).

*Owners* (`Custody`): `ImplementsWallets`, see section 4.

*Progress* (`Collection`): `PaysCollected`, `FeesCollected`, `PendingReleased`, see section 5.

*What comments say and the code does not do*
* `PayKeepsOrder`: a payment by contract keeps its order id; `CreatedWithinLimit`: an account is created
  within the limit of holders.

## 4. The abstract specification

`Wallets` says what the chaincode promises to the owners of accounts and nothing about
documents, cursors, times or transactions. Its state: the supply, what each account owns, the
fees that nobody has collected yet, the account that collects them, the sales that can still be
refunded, the offers that are not signed yet; beside it who holds each account and which are
suspended, which it reads and does not change. Its operations have callers and parameters:
`Send` and `Sell` (asked by the only holder of the account that pays, `MaySpend`, `Alone`), `Refund` (asked by a
holder of the merchant; all refunds of a sale together at most its price, and its charge), `Offer` (by a
holder), `Accept` (once, exactly what was offered to whom it was offered), `Decline`, `Reclaim` (by a
holder), `Collect` (only the target, exactly what leaves the fees), `Create`, `Mint` (what was asked for, or
what is left), `Burn` (no more than was asked for), `Retarget` (the one that was named, never to nobody).

`Custody` maps the documents to it. An account owns its balance, its pending balances and the
pays that were not collected, less their fees; a fee is uncollected in a fee document or
in a pay. `ImplementsWallets` has two halves. `Wallet!Spec`: every step, seen through the mapping, is a step
of `Wallets` or none. That alone would accept a prune that moves tokens between two accounts, as a
`Send` nobody asked for, so the other half, `[][Answered]_vars`, ties each handler to the operation
it is for, with the parameters of its call: `TransferNow(kid, from, to, amount, ...)` is
`Send(kid, from, to, amount, its fee)` and nothing else, `ExecutePay(cid)` accepts the offer `cid`,
`PayPruneCommit` is `Nothing`, `FeePruneCommit(f)` collects `f.sum`, and so are creations, suspensions, deposits,
endorsements and lost prunes tied to what they may do. A transfer to a wrong receiver, a time lock that is
withdrawn to another account, a handler that forgets to ask who is calling, a prune that credits an account that is
not its own, fees collected by a target that has been replaced: each breaks a conjunct of `Answered`,
whatever commits between the endorsement of a prune and its commit, and `Conservation` would notice none of them.

It needs no assumption on prunes or timestamps: a pay that is skipped is still owned by its merchant, who
cannot get at it. TLC checks it on three instances and `CustodyProofs` proves it for all (section 6).

## 5. Runs

TLC runs all of them with `CHECK_DEADLOCK FALSE`: the transactions of a behaviour and its
time are bounded (`NTx`, `MaxTime`), so every behaviour stops.

| run | specification | checks | shows |
|---|---|---|---|
| `payments` | pays and fees | `Conservation`, `NothingSkipped`, `RefundBounded`, `EscrowHasOpenContract`, `HasMore`, `OverdraftFromRefunds`, `OverdraftInv` | five transactions: enough for pay, prune, refund, prune of the refund alone, prune of the negative fee |
| `payments_skew` | pays and fees | `IInv`, `Conservation`, `MoreOrTied`, `LateBound`, `ImplementsWallets` | clocks one unit apart and the margin of the code, twice that; timestamps out of order, late and equal: documents are skipped here, and nothing else goes wrong |
| `transfers` | transfers, fees, personal accounts | `Conservation`, `LogsExplainBalance`, `NoOverdraft`, `EscrowHasOpenContract` | contract, time-locked and immediate transfers with fees, while fee prunes are in flight |
| `holders` | accounts and token | `HolderIndex`, `JointKeepsHolders`, `AdditionsWithinLimit`, `HoldersConsent` | five transactions: two contracts opened together and both executed, after or before a holder left |
| `issue` | token, transfers, personal accounts | `AbsentEmpty`, `FeesHaveTarget`, `Conservation`, `AccountInv`, `SupplyWithinMax`, `NoOverdraft`, `ImplementsWallets` | an empty ledger: accounts, the token alone or by contract, its first transfers; seven transactions let two mint or burn contracts of two holders be opened and both executed, the second of which is cut |
| `whole` | everything | `TypeOK`, `Conservation`, `FeesHaveTarget`, `DocumentInv`, `SuspensionHolds`, `ImplementsWallets` | all handlers on one state, a genesis account with one holder |
| `collect` | pays and fees, fair callers | `PaysCollected`, `FeesCollected` | payments and refunds, some with equal timestamps, in between prunes that may be lost |
| `reclaim` | transfers, pays, fair owners | `PendingReleased` | contracts that nobody signs, time locks, suspended owners |
| `order_id` | pays and fees | `PayKeepsOrder` violated | `executePay` swaps order id and memo |
| `same_stamp` | pays and fees | `HasMore` violated | pays with equal times across the end of a page |
| `bare_margin` | pays and fees | `NoLatePay` violated | ten minutes are twice five and leave nothing for the commit |
| `holder_limit` | accounts and token | `CreatedWithinLimit` violated | the limit counts named addresses, not holders |

*Instances.* Two kids; a personal account, the genesis account (also the target of fees)
and a joint account that needs two signatures. `PruneSize = 1` makes every second document
another page. `Amounts = {2}` and a rate of one half make a fee of 1, of which a refund of 1
gives back 0 and a refund of 2 everything: the rounding matters. `MaxFlight = 1`: two
prunes of one account in flight always conflict on its balance, and prunes of two
accounts share nothing but the clock; `collect` has two, as it counts who is held up by whom.
Time is in units in which `Latency = 1`. In `payments_skew` clocks differ by one unit and `Margin = 2`, the
ratio of the code (five and ten minutes), as in `bare_margin`. Where clocks agree (`Skew = 0`), `Margin = 2` is more
than any commit takes. Bounds: `NTx` transactions, the clock up to `MaxTime`, `MaxFlight` prunes;
every other constant is data. `holders` and `issue` are about the order of calls and not about
their times: their clock stands still (`Latency = 0`, timestamps may be equal). `holders` has three
kids, one of them without a personal account, and `MaxSigners = 2`, which an account of
three is above: with a higher limit every addition would be allowed. All joint accounts of an
instance exist or can be created at a free address.

*What the passing runs assume.* All prunes set the ten-minutes flag (`PruneFlags =
{TRUE}`; without it a prune up to now skips documents on purpose or by mistake of the caller).
`payments`, `transfers` and `whole` have no two transactions with the same timestamp (nanoseconds):
`NothingSkipped`, `HasMore` and `LogsExplainBalance` need it, `whole` would be too large without. In the other
runs timestamps may be equal.

*Fairness and progress.* The chaincode is passive: it starts nothing, and retries
nothing. Whatever is guaranteed to happen is guaranteed to callers who do not give up, so
fairness is stated of callers, in `Collection`, and of nothing else.

* `collect`: as long as some prune finds something, somebody calls again (`WF_vars(Call)`, one
  disjunction over all accounts and the fees, not one condition for each). A lost call is noticed
  (`WF_vars(Expire)`). `SF_vars(CommitCall)`: a prune in flight is dropped whenever another
  transaction writes the merchant's balance, so commits are enabled again and again but not forever;
  that not every one of infinitely many tries fails is the assumption, and it is what a
  merchant who prunes between payments gets. Payments and refunds are not fair. They come
  at any time, but only within the first `CallerTx` transactions: each payment or refund leaves
  enough ids for the prune of its pay and of its fee (`CallerAssumption`), so that the bound on
  transactions stops nobody who is fair. Properties are about documents that a safe prune can
  reach before the clock stops (`created + Margin <= MaxTime`). Timestamps may be equal here, so the
  properties say what is true then: of the pays of one merchant with one created time, or of the fees with
  one, at least one is collected; a document whose created time is its own is collected.
* `reclaim`: owners keep asking for what is due; a suspended owner unsuspends himself in the end, which
  only he can. The contract chaincode is not fair: contracts may stay open forever.

## 6. Proofs

All theorems hold for every value of the constants that satisfies the assumptions
`SizeAssumption` and `DataAssumption` of `WorldState`, and the hypothesis in the last-but-one column,
which is a condition on the constants. Most have none: they hold for any margin, any latency, any flags and
with equal timestamps.

| module | theorem | proves | if | from |
|---|---|---|---|---|
| `TypeProofs` | `TypeCorrect` | `[]TypeOK` | | itself |
| `AccountProofs` | `AccountsWhole` | `[]AccountInv` | | itself |
| | `AbsentAccountsEmpty`, `HoldersIndexed`, `JointAccountsStayJoint` | `[]AbsentEmpty`, `[]HolderIndex`, `[]JointKeepsHolders` | | `AccountInv` |
| `ConservationProofs` | `PrunesStayCurrent` | `[]IInv` | | `AccountInv` |
| | `TokensConserved` | `[]Conservation` | | `IInv` |
| `SafetyProofs` | `LatenessBounded` | `LateBound` | `AllSafe` | `TypeOK`, `CursorsBehind` |
| | `SupplyBounded` | `[]SupplyWithinMax` | | `TypeOK` |
| | `AdditionsLimited`, `HoldersAgree` | `AdditionsWithinLimit`, `HoldersConsent` | | `AccountInv` |
| `DocumentProofs` | `DocumentsFit` | `[]DocumentInv` | | `AccountInv` |
| | `EscrowIsBacked`, `RefundsAreBounded`, `FeesAreCollectable` | `[]EscrowHasOpenContract`, `[]RefundBounded`, `[]FeesHaveTarget` | | `DocumentInv` |
| | `SuspendedAccountsHold` | `SuspensionHolds` | | `DocumentInv` |
| | `MoreIsLeft` | `[]MoreOrTied` | | `DocumentInv` |
| | `LogsAddUp` | `[]LogsExplainBalance` | `DistinctStamps` | `DocumentInv`, `LogsStamped` |
| `CustodyProofs` | `WalletsImplemented` | `ImplementsWallets` | | `IInv`, `DocumentInv` |
| `OverdraftProofs` | `ShortfallsExplained` | `[]OverdraftInv` | `FairRates` | `DocumentInv` |
| | `OnlyRefundsOverdraw` | `[]OverdraftFromRefunds` | `FairRates` | `OverdraftInv` |
| | `TransfersNeverOverdraw`, `BurnsNeverOverdraw` | `[]NoOverdraft` | | two parts of `OverdraftInv` |

All but the last two are theorems of `Spec`, the whole chaincode; these are theorems of `TransferSpec` and
`IssueSpec`. The specifications of the runs of parts (`PaymentSpec`, `TransferSpec`, `IssueSpec`, `HolderSpec`) have no
other steps than `Spec`.

*The hypotheses.* `AllSafe`: every prune sets the ten-minutes flag. It is a parameter, up to the caller
(`pay_tx.go:315`, `README.md:157`), and how late a document can be without it is up to him too. Nothing is assumed of
`Margin`. `DistinctStamps`:
no two transactions carry the same timestamp; without it a balance log can be overwritten. `FairRates`: the rates
for pays in `InitPolicy` and `Metas` are at most one. The comment of `FeeRate` (`fee.go:78`)
says so, `ParseFeePolicy` does not check it: with a rate above one a payment costs its merchant more
than it brings, and the prune of it can overdraw his account without any refund.

*Operators.* Everything about sums rests on `SumsProofs`: a sum is an integer, adds up pointwise, is
monotone, and changes by what one argument changes (`SumToType`, `SumAdd`, `SumMono`, `SumChange`,
...), by induction on the set of naturals for which they hold. On top of them, at the head of
`ConservationProofs`, stands what each helper of the stubs does to the four sums of `Conservation`
(`EscrowPut`, `PaysMove`, `CreateFeeSum`, ...).

*The argument for accounts.* None of the four properties is inductive. That creating an account
overwrites no tokens needs that none are at its address, so that nothing was ever paid
there; that holds because every handler looks its accounts up, or because the owner of a
pending balance, the receiver of a contract, the merchant of a prune in flight or the
genesis account of an issued token exist, and accounts are never deleted. `AccountInv` has one part for
each of these (`OwnersExist`, `ContractsAgreed`, `IssuedWithGenesis`). `ContractsAgreed` also keeps
what was true when a contract was opened and what its callback does not check again: that
a joint account is created with two holders or more, and that the new holders are among the
signers. Most handlers touch no account: lemma `Quiet` reduces them to a few facts on
what they write. The creation of an account, in the proof of `TokensConserved`, uses
`AbsentEmpty`: it replaces a balance that is zero.

*The argument for conservation.* `Conservation` is not inductive: the commit of a prune writes sums
computed in an earlier state, and it must be known that they are still those of the
documents it says it has collected, and that no other prune has collected one of these. `IInv` adds what is needed:

| part of `IInv` | why it is needed |
|---|---|
| `TypeOK` | the sums are over integers |
| `KnownIds` | a transaction's id is new, so a new document replaces none |
| `PaysHoldNoFee` | the execution of a payment moves the amount of its pending balance and not the fee, which must be zero |
| `CollectedBelow` | what was collected is at or below the cursor, so no page holds it again |
| `FlightsCurrent` | what an endorsed prune computed is still right: balance and cursor because it would fail its validation otherwise, the sums because its documents are still there, with the same amounts, still above the cursor |

`FlightsCurrent` also says what a page may have missed in its range (`MayMiss`): a document
with the created time of its end, or one stamped no earlier than `Skew + Latency` before the prune was endorsed,
which can have been committed since. Nothing else is ever skipped, whatever the margin.
`CommitFacts` is what a transaction's timestamp may be; `CommitKeeps` is the preservation of all parts about
documents by any transaction that keeps to its keys; `PayPageFresh` and `FeePageFresh` are that no page is
collected twice; the `...Conserves` lemmas, one per action, add up the sums.

How late a document can be is another matter, and `LatenessBounded` says it without assuming that there is room: a prune
stamped `ts` when the clock shows `at` ends at `ts - Margin` at the latest, which is at most
`at + Skew - Margin`, and so are the cursors (`CursorsBehind`); a transaction that commits after `at` was endorsed at most
`Latency` before, so its timestamp is at least `at - Skew - Latency`. The difference is
`2 * Skew + Latency - Margin`: nothing is late if `Margin` is greater than `2 * Skew + Latency`, and with the
code's margin, which is `2 * Skew`, a document is late by its time to commit at most (`bare_margin` shows that it
can be late).

*The argument for documents.* `DocumentInv` needs no assumption on pruning. Each handler is looked
at once for what it may do to one kind of document; the frames (`HeldFrame`, `PayFrame`, `FeeFrame`,
`PolicyFrame`) are those facts, and the parts of the invariant follow from the frames:

| part of `DocumentInv` | why it is needed |
|---|---|
| `PendingSound`, `OffersSound` | a callback makes a payment of what was held: it must be something, for somebody else, with a fee that is not negative |
| `PaysSound` | the id of a refund is never that of a payment, and refunds are negative in both amount and fee |
| `RefundsProRata` | `RefundBounded` alone is not inductive in the fees: the part of the fee that goes back is rounded down at each refund, and only because all refunds together gave back no greater part of the fee than of the amount does the next one stay within it |
| `FreeWithoutPolicy` | `FeesHaveTarget` says that no fee is due without a policy; a fee can come out of a pending balance or a prune in flight, where it must then be zero |
| `FlightsWatched` | the account of a prune is not suspended, its base is the balance and its target the one of the token, for otherwise its commit would have failed validation |

`SuspensionHolds` and `MoreOrTied` follow step by step: the first because who gives tokens is looked
up, and `FlightsWatched` tells of prunes; the second because documents are never deleted and a page is
taken in the order of the created times. Logs: each handler writes as many logs as it changes
balances, with the difference; two logs of an account have different keys when timestamps are distinct.

*The argument for the refinement.* `Wealth` has three parts: the balance, what is held
in pending balances, the pays not collected less their fees. One group of lemmas says what each helper
does to each part (`HeldPut`, `HeldMove`, `PayEarned`, ...), one says which operation of `Wallets` such a change
is (`AsSend`, `AsSell`, `AsRefund`, `AsCollect`, ...), and one lemma per action (`...Custody`) adds the parts up and
proves that it is the operation of its caller with the parameters of its call: with `IInv` for the commits of
prunes (what a page adds to the balance is what it takes from the pays not collected), `RefundBounded` for the room a
sale has left, `EscrowHasOpenContract` for the offer behind a callback. The theorem then has both halves:
`Answered` gives the step of `Wallets`, as every handler is in `Next`.

*The argument for overdrafts.* A handler that is not a prune looks at the balance it takes from
(`QuietFunds`). The commit of a prune does not: it writes the base it read plus the sum of its page.
`OverdraftInv` says in every state that an account is short by no more than the refunds that were
pruned (`PrunedOf`) and the negative fees that were (`FeesReturned`), that the negative fees give back no
more than the refunds that made them, and that a page in flight lies above the cursor, so that no
refund is taken twice. A page costs at most its refunds since no payment in it costs more than it is
worth (`FeesWithinPays`), and a new fee is negative by at most what its page gives back. It needs
no safe prune: documents that are lost below the cursor make nobody poorer. Where nobody pays there are
no refunds, and what is left is `NoOverdraft`.

*Checked by TLC only.* Liveness under fairness (`PaysCollected`, `FeesCollected`,
`PendingReleased`) is out of the prover's reach. `NothingSkipped` and `HasMore` hold only under conditions that the
code does not meet (no transaction is late, no two timestamps are equal); what of them holds without is proved instead
(`LateBound`, `CollectedBelow` and `MayMiss` in `IInv`, `MoreOrTied`). Every other invariant and action property
that a passing run checks is stated by a theorem, and so is the refinement of `Wallets`.

## 7. Findings

`PROJECT.json` quotes the lines. (1) `executePay` swaps the order id and the memo of a
payment made by contract. (2) Pays or fees with equal created times at the end of a page are lost
although has_more is true. (3) The ten minutes that are to prevent missing pays are
exactly twice the tolerance of the timestamps and leave nothing for the time to commit.
(4) `account/create` limits the addresses it is given, not the holders: the address of a
joint account brings all of its holders, and the invoker comes on top of 128.

Seen while modelling, not the subject of a run: comments say fees are pruned to the genesis
account (`fee.go:14`, `balance.go:46`), they go to the target account; `pay` does not return on a bad
expiry (`pay_tx.go:122-125`); `README.md` lists the parameters of `pay` without the order id;
`payRefund` looks at no balance, so a merchant (and the fee target) can end up
overdrawn, as far as `OverdraftFromRefunds` allows, and accepts a refund equal to the payment
where `README.md` says lesser; two changes of one balance with equal
timestamps overwrite each other's log; a holder who removes himself leaves at once, where
`README.md` says that a contract is created; `token/update` of a token that is not issued answers with
an error where `README.md` says success; a fee rate is "a numeric string of positive decimal fraction"
(`fee.go:78`) and any rational is accepted; `account/create` that names only the invoker's own
address fails instead of creating the personal account; `token/create` has no limit of
holders; what a suspended sender offered before is still paid out by its contract.

## 8. Plan

Done: all components, the abstract specification and its refinement, progress, and the theorems
of section 6. Next:

1. *Commit*: endorsement and MVCC validation of a handler that reads and writes by key, shown
   to implement the atomic step used here.
2. *Fee cursor*: the move of the cursor from the token document to a document of its own, as a
   refinement of `feeCursor`.
3. *Theorems about callers*: the safety half of `Collection`, that the documents its properties speak
   about stay in reach of a safe prune until they are collected.

Not modelled, and why: address and amount codecs (pure functions of strings and big
integers); queries that only list documents, with their bookmarks (no effect on the state);
the one-time move of the fee cursor from the token to a document of its own (the cursor is the same);
error texts; vendored libraries; several token codes at once (documents of two codes share no
key, except that `token/update` accepts a target address of another code).
