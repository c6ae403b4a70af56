------------------------------ MODULE Wallets -------------------------------
(***************************************************************************)
(* What the chaincode promises to the owners of accounts, without the      *)
(* documents it keeps: how much each account owns, wherever it lies, how   *)
(* much has been taken as fees and not been collected yet, what was sold   *)
(* and can still be refunded, and what is offered by contracts that are    *)
(* not signed yet.  An operation names who asks for it and what was asked; *)
(* it takes from an account only what its holders may ask for, or what its *)
(* contract was opened for.                                                *)
(***************************************************************************)
EXTENDS Integers, Sums

CONSTANTS
  NAccounts,  \* accounts are 1..NAccounts
  Issuer,     \* the account that gets what is issued
  Limit,      \* the most that may be issued
  NoTarget    \* nobody collects the fees

VARIABLES
  holders, \* who holds each account, not changed here
  frozen,  \* accounts that are suspended, not changed here
  supply,  \* tokens issued
  own,     \* what each account owns
  fees,    \* fees taken and not collected
  target,  \* the account that collects the fees
  sales,   \* payments: parties, what can still be refunded, of the charge too
  offers   \* what contracts that are not signed yet will do

state == <<supply, own, fees, target, sales, offers>>

Accounts == 1..NAccounts
Positive == Nat \ {0}

With(f, x, y)  == [z \in DOMAIN f \cup {x} |-> IF z = x THEN y ELSE f[z]]
Without(f, x)  == [z \in DOMAIN f \ {x} |-> f[z]]

\* Somebody may take from an account: one of its holders, while it is not suspended.
MaySpend(by, account) == by \in holders[account] /\ account \notin frozen

\* Nobody else has to agree.
Alone(by, account) == holders[account] = {by}

\* from gives away amount + charge, to gets the amount.
Move(from, to, amount, charge) ==
  /\ from \in Accounts /\ to \in Accounts /\ from # to
  /\ own' = [own EXCEPT ![from] = @ - (amount + charge), ![to] = @ + amount]
  /\ fees' = fees + charge

\* The sender pays the charge on top of the amount.
Sent(from, to, amount, charge) ==
  /\ amount \in Positive /\ charge \in Nat
  /\ Move(from, to, amount, charge)
  /\ UNCHANGED sales

\* The merchant pays the charge out of the price.
Sold(id, from, to, price, charge) ==
  /\ id \notin DOMAIN sales /\ price \in Positive /\ charge \in Nat
  /\ Move(from, to, price - charge, charge)
  /\ sales' = With(sales, id,
                [customer |-> from, merchant |-> to, left |-> price, charge |-> charge])

Send(by, from, to, amount, charge) ==
  /\ MaySpend(by, from) /\ Alone(by, from)
  /\ Sent(from, to, amount, charge)
  /\ UNCHANGED <<supply, target, offers>>

\* The customer asks, and gets what the merchant sells.
Sell(by, id, from, to, price, charge) ==
  /\ MaySpend(by, from) /\ Alone(by, from)
  /\ Sold(id, from, to, price, charge)
  /\ UNCHANGED <<supply, target, offers>>

\* It is for the merchant to refund.  No more goes back to the customer than the price,
\* nor to the merchant than the charge, in all refunds together.
Refund(by, id, amount, back) ==
  LET sale == sales[id]
  IN  /\ id \in DOMAIN sales /\ MaySpend(by, sale.merchant)
      /\ amount \in 1..sale.left /\ back \in 0..sale.charge
      /\ Move(sale.merchant, sale.customer, amount, -back)
      /\ sales' = [sales EXCEPT ![id].left = @ - amount, ![id].charge = @ - back]
      /\ UNCHANGED <<supply, target, offers>>

\* What is offered is set aside, but still owned.
Offer(by, id, offer) ==
  /\ MaySpend(by, offer.from)
  /\ id \notin DOMAIN offers /\ offer.amount \in Positive
  /\ offers' = With(offers, id, offer)
  /\ UNCHANGED <<supply, own, fees, target, sales>>

\* An offer is accepted once, and moves what was offered to whom it was offered.  The
\* charge of a sale is found when it is accepted, that of a transfer was offered.
Accept(id, saleId, charge) ==
  LET offer == offers[id]
  IN  /\ id \in DOMAIN offers
      /\ offers' = Without(offers, id)
      /\ \/ offer.kind = "transfer" /\ Sent(offer.from, offer.to, offer.amount, offer.charge)
         \/ /\ offer.kind = "pay"
            /\ Sold(saleId, offer.from, offer.to, offer.amount, charge)
      /\ UNCHANGED <<supply, target>>

Decline(id) ==
  /\ id \in DOMAIN offers
  /\ offers' = Without(offers, id)
  /\ UNCHANGED <<supply, own, fees, target, sales>>

\* A holder takes back what he offered, when it was not accepted in time.
Reclaim(by, id) == Decline(id) /\ MaySpend(by, offers[id].from)

\* Only the target gets fees, or gives back those of refunds.
Collect(amount) ==
  /\ target # NoTarget
  /\ own' = [own EXCEPT ![target] = @ + amount]
  /\ fees' = fees - amount
  /\ UNCHANGED <<supply, target, sales, offers>>

\* A negative amount is burnt.
Issue(amount) ==
  /\ supply' = supply + amount
  /\ own' = [own EXCEPT ![Issuer] = @ + amount]
  /\ UNCHANGED <<fees, sales, offers>>

\* The first issue also says who collects the fees, if anybody does.
Create(amount) ==
  /\ supply = 0 /\ amount \in 0..Limit
  /\ Issue(amount)
  /\ target' \in Accounts \cup {NoTarget} /\ (target # NoTarget => target' = target)

\* As much as was asked for is issued, or what is left below the limit; what is burnt is
\* no more than was asked for.
Mint(asked) ==
  /\ Issue(IF Limit - supply < asked THEN Limit - supply ELSE asked)
  /\ supply < Limit /\ UNCHANGED target

Burn(asked) == \E amount \in 0..asked : Issue(-amount) /\ UNCHANGED target

MintNow(by, asked) == Alone(by, Issuer) /\ Mint(asked)
BurnNow(by, asked) == Alone(by, Issuer) /\ Burn(asked)

\* The target is the one that was named; if none was, it stays, or is the issuer.
Retarget(named) ==
  /\ target' = IF named # NoTarget THEN named ELSE IF target # NoTarget THEN target ELSE Issuer
  /\ UNCHANGED <<supply, own, fees, sales, offers>>

\* Collecting pays, pending balances that fall due, accounts and their holders.
Nothing == UNCHANGED state

Init ==
  /\ own \in [Accounts -> Nat] /\ supply = SumTo(own, NAccounts) /\ supply <= Limit
  /\ fees = 0 /\ target \in Accounts \cup {NoTarget}
  /\ DOMAIN sales = {} /\ DOMAIN offers = {}

\* Amounts and charges are those by which the wealth, the fees and the supply change.
Next ==
  \/ Collect(fees - fees')
  \/ Create(supply') \/ Mint(supply' - supply) \/ Burn(supply - supply')
  \/ Retarget(target')
  \/ \E id \in DOMAIN offers \ DOMAIN offers' :
       \/ Decline(id) \/ Accept(id, 0, 0)
       \/ \E saleId \in DOMAIN sales' \ DOMAIN sales : Accept(id, saleId, fees' - fees)
  \/ \E id \in DOMAIN offers' \ DOMAIN offers, by \in UNION {holders[a] : a \in Accounts} :
       Offer(by, id, offers'[id])
  \/ \E id \in DOMAIN sales : \E by \in holders[sales[id].merchant] :
       Refund(by, id, sales[id].left - sales'[id].left, fees - fees')
  \/ \E from, to \in Accounts : \E by \in holders[from] :
       \/ Send(by, from, to, own'[to] - own[to], fees' - fees)
       \/ \E id \in DOMAIN sales' \ DOMAIN sales :
            Sell(by, id, from, to, own[from] - own'[from], fees' - fees)

Spec == Init /\ [][Next]_state

\* Everything that was issued is owned by somebody or lies in the fees.
AllOwned == supply = SumTo(own, NAccounts) + fees
=============================================================================
