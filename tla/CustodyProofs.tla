---------------------------- MODULE CustodyProofs ----------------------------
(***************************************************************************)
(* The chaincode implements Wallets: the initial states map to initial     *)
(* states, and every step of every handler to a step of Wallets or to none *)
(* at all.  What an account owns is followed through its three parts: the  *)
(* balance, what is held in pending balances, and the uncollected pays.    *)
(***************************************************************************)
EXTENDS DocumentProofs, Custody

HeldBy(a)   == SumTo(Held(a), NTx)
EarnedBy(a) == SumTo(Earned(a), NTx)
ChargedSum  == SumTo(Charged, NTx)

\* What the parts are.
CustodyParts ==
  /\ \A a \in Addrs : HeldBy(a) \in Int /\ EarnedBy(a) \in Int
  /\ ChargedSum \in Int /\ FeesLeft \in Int
  /\ FeesDue = FeesLeft + ChargedSum
  /\ Wealth \in [Addrs -> Int]
  /\ \A a \in Addrs : Wealth[a] = bal[a] + HeldBy(a) + EarnedBy(a)

LEMMA CustodyTypes == TypeOK => CustodyParts
<1> SUFFICES ASSUME TypeOK PROVE CustodyParts
  OBVIOUS
<1>0. /\ \A i \in DOMAIN pend : pend[i].amount \in Int /\ pend[i].fee \in Int
      /\ \A i \in DOMAIN pay : pay[i].amount \in Int /\ pay[i].fee \in Int
      /\ bal \in [Addrs -> Int] /\ NTx \in Nat
  BY SizeAssumption DEF TypeOK, IsDocs, PendingDoc, PayDoc
<1>1. ASSUME NEW a \in Addrs PROVE HeldBy(a) \in Int /\ EarnedBy(a) \in Int
  <2>1. Held(a) \in [1..NTx -> Int] /\ Earned(a) \in [1..NTx -> Int]
    BY <1>0 DEF Held, Earned, Uncollected, TxIds
  <2> QED BY <1>0, <2>1, SumToType DEF HeldBy, EarnedBy
<1>2. Charged \in [1..NTx -> Int]
  BY <1>0 DEF Charged, Uncollected, TxIds
<1>3. ChargedSum \in Int /\ FeesLeft \in Int
  BY <1>0, <1>2, SumToType, SumsAreInts DEF ChargedSum
<1>4. /\ FeesDue = FeesLeft + ChargedSum
      /\ Wealth = [a \in Addrs |-> bal[a] + HeldBy(a) + EarnedBy(a)]
  BY DEF FeesDue, FeesLeft, ChargedSum, Wealth, HeldBy, EarnedBy, Held, Earned, Uncollected
<1>5. ASSUME NEW a \in Addrs PROVE Wealth[a] = bal[a] + HeldBy(a) + EarnedBy(a) /\ Wealth[a] \in Int
  BY <1>0, <1>1, <1>4
<1>6. Wealth \in [Addrs -> Int]
  <2>1. Wealth = [a \in Addrs |-> Wealth[a]]
    BY DEF Wealth, Held, Earned, Uncollected
  <2> QED BY <1>5, <2>1
<1> QED BY <1>1, <1>3, <1>4, <1>5, <1>6 DEF CustodyParts

LEMMA CustodyTypesNext == TypeOK' => CustodyParts'
BY CustodyTypes, PTL

----------------------------------------------------------------------------
(* What is held.                                                           *)

\* A new pending balance is held by its account.
LEMMA HeldPut ==
  ASSUME TypeOK, NEW k \in TxIds, k \notin DOMAIN pend, NEW doc \in PendingDoc,
         pend' = PutDoc(pend, k, doc), NEW a
  PROVE  HeldBy(a)' = HeldBy(a) + (IF doc.account = a THEN doc.amount + doc.fee ELSE 0)
<1> DEFINE old == Held(a)
           new == Held(a)'
<1>1. /\ \A i \in DOMAIN pend : pend[i].amount \in Int /\ pend[i].fee \in Int
      /\ doc.amount \in Int /\ doc.fee \in Int /\ NTx \in Nat /\ k \in 1..NTx
  BY SizeAssumption DEF TypeOK, IsDocs, PendingDoc, TxIds
<1>2. /\ DOMAIN pend' = DOMAIN pend \cup {k} /\ pend'[k] = doc
      /\ \A i \in DOMAIN pend : pend'[i] = pend[i]
  BY DEF PutDoc
<1>3. old \in [1..NTx -> Int] /\ new \in [1..NTx -> Int]
  BY <1>1, <1>2 DEF Held, TxIds
<1>4. /\ old[k] = 0 /\ new[k] = (IF doc.account = a THEN doc.amount + doc.fee ELSE 0)
      /\ \A i \in 1..NTx : i # k => new[i] = old[i]
  BY <1>2 DEF Held, TxIds
<1> HIDE DEF old, new
<1>5. SumTo(new, NTx) = SumTo(old, NTx) + (new[k] - old[k]) /\ SumTo(old, NTx) \in Int
  BY <1>1, <1>3, <1>4, SumChange, SumToType
<1>6. SumTo(new, NTx) = SumTo(old, NTx) + (IF doc.account = a THEN doc.amount + doc.fee ELSE 0)
  BY <1>1, <1>4, <1>5
<1> QED BY <1>6 DEF HeldBy, old, new

\* A deleted one no more.
LEMMA HeldDel ==
  ASSUME TypeOK, NEW i \in DOMAIN pend, pend' = DelDoc(pend, i), NEW a
  PROVE  HeldBy(a)' = HeldBy(a) - (IF pend[i].account = a THEN pend[i].amount + pend[i].fee ELSE 0)
<1> DEFINE old == Held(a)
           new == Held(a)'
<1>1. /\ \A j \in DOMAIN pend : pend[j].amount \in Int /\ pend[j].fee \in Int
      /\ NTx \in Nat /\ i \in 1..NTx
  BY SizeAssumption DEF TypeOK, IsDocs, PendingDoc, TxIds
<1>2. DOMAIN pend' = DOMAIN pend \ {i} /\ \A j \in DOMAIN pend' : pend'[j] = pend[j]
  BY DEF DelDoc
<1>3. old \in [1..NTx -> Int] /\ new \in [1..NTx -> Int]
  BY <1>1, <1>2 DEF Held, TxIds
<1>4. /\ new[i] = 0
      /\ old[i] = (IF pend[i].account = a THEN pend[i].amount + pend[i].fee ELSE 0)
      /\ \A j \in 1..NTx : j # i => new[j] = old[j]
  BY <1>1, <1>2 DEF Held, TxIds
<1> HIDE DEF old, new
<1>5. SumTo(new, NTx) = SumTo(old, NTx) + (new[i] - old[i]) /\ SumTo(old, NTx) \in Int
  BY <1>1, <1>3, <1>4, SumChange, SumToType
<1>6. SumTo(new, NTx) =
        SumTo(old, NTx) - (IF pend[i].account = a THEN pend[i].amount + pend[i].fee ELSE 0)
  BY <1>1, <1>4, <1>5
<1> QED BY <1>6 DEF HeldBy, old, new

\* One is deleted and another one is new.
LEMMA HeldMove ==
  ASSUME TypeOK, NEW i \in DOMAIN pend, NEW k \in TxIds, k \notin DOMAIN pend,
         NEW doc \in PendingDoc, pend' = PutDoc(DelDoc(pend, i), k, doc), NEW a
  PROVE  HeldBy(a)' = HeldBy(a) - (IF pend[i].account = a THEN pend[i].amount + pend[i].fee ELSE 0)
                                + (IF doc.account = a THEN doc.amount + doc.fee ELSE 0)
<1> DEFINE old == Held(a)
           mid == [Held(a) EXCEPT ![i] = 0]
           new == Held(a)'
           off == IF pend[i].account = a THEN pend[i].amount + pend[i].fee ELSE 0
           on  == IF doc.account = a THEN doc.amount + doc.fee ELSE 0
<1>1. /\ \A j \in DOMAIN pend : pend[j].amount \in Int /\ pend[j].fee \in Int
      /\ NTx \in Nat /\ i \in 1..NTx /\ k \in 1..NTx /\ i # k
      /\ doc.amount \in Int /\ doc.fee \in Int
  BY SizeAssumption DEF TypeOK, IsDocs, PendingDoc, TxIds
<1>2. /\ DOMAIN pend' = (DOMAIN pend \ {i}) \cup {k} /\ pend'[k] = doc
      /\ \A j \in DOMAIN pend \ {i} : pend'[j] = pend[j]
  BY DEF DelDoc, PutDoc
<1>3. old \in [1..NTx -> Int] /\ new \in [1..NTx -> Int]
  BY <1>1, <1>2 DEF Held, TxIds
<1>4. off \in Int /\ on \in Int /\ old[i] = off /\ old[k] = 0 /\ new[i] = 0 /\ new[k] = on
      /\ \A j \in 1..NTx : j # i /\ j # k => new[j] = old[j]
  BY <1>1, <1>2 DEF Held, TxIds
<1> HIDE DEF old, new, off, on
<1>5. /\ mid \in [1..NTx -> Int] /\ mid[i] = 0 /\ mid[k] = 0
      /\ \A j \in 1..NTx : j # i => mid[j] = old[j]
  BY <1>1, <1>3, <1>4 DEF old
<1> HIDE DEF mid
<1>6. SumTo(mid, NTx) = SumTo(old, NTx) + (mid[i] - old[i])
  BY <1>1, <1>3, <1>5, SumChange
<1>7. SumTo(new, NTx) = SumTo(mid, NTx) + (new[k] - mid[k])
  <2>1. \A j \in 1..NTx : j # k => new[j] = mid[j]
    BY <1>1, <1>4, <1>5
  <2> QED BY <1>1, <1>3, <1>5, <2>1, SumChange
<1>8. SumTo(old, NTx) \in Int /\ SumTo(mid, NTx) \in Int
  BY <1>1, <1>3, <1>5, SumToType
<1>9. SumTo(new, NTx) = SumTo(old, NTx) - off + on
  BY <1>4, <1>5, <1>6, <1>7, <1>8
<1> QED BY <1>9 DEF HeldBy, old, new, off, on

----------------------------------------------------------------------------
(* What is earned and charged.                                             *)

\* A new pay is earned by its merchant, less the fee.
LEMMA PayEarned ==
  ASSUME TypeOK, TypeOK', KnownIds, TxId \in TxIds, TxId \notin collected.pay,
         NEW doc \in PayDoc, NEW p, NEW back \in Nat,
         PutPayOf(doc, p, back), UNCHANGED collected
  PROVE  /\ \A a \in Addrs : EarnedBy(a)' = EarnedBy(a) + (IF doc.to = a THEN doc.amount - doc.fee ELSE 0)
         /\ ChargedSum' = ChargedSum + doc.fee
<1>1. /\ NTx \in Nat /\ TxId \in 1..NTx /\ TxId \notin DOMAIN pay
      /\ doc.amount \in Int /\ doc.fee \in Int
      /\ \A i \in DOMAIN pay : pay[i].amount \in Int /\ pay[i].fee \in Int
  BY NewId, SizeAssumption DEF TypeOK, IsDocs, PayDoc, TxIds
<1>2. /\ DOMAIN pay' = DOMAIN pay \cup {TxId} /\ pay'[TxId] = doc
      /\ \A i \in DOMAIN pay : /\ pay'[i].to = pay[i].to /\ pay'[i].amount = pay[i].amount
                               /\ pay'[i].fee = pay[i].fee /\ pay'[i].created = pay[i].created
  BY OldPays DEF PutPayOf
<1>3. /\ Uncollected \subseteq DOMAIN pay /\ Uncollected' \subseteq DOMAIN pay'
      /\ TxId \notin Uncollected /\ TxId \in Uncollected'
      /\ \A i : i # TxId => (i \in Uncollected' <=> i \in Uncollected)
  BY <1>1, <1>2 DEF Uncollected
<1>4. /\ \A i \in Uncollected : /\ pay'[i].to = pay[i].to /\ pay'[i].amount = pay[i].amount
                               /\ pay'[i].fee = pay[i].fee
      /\ \A i \in Uncollected : pay[i].amount \in Int /\ pay[i].fee \in Int
      /\ \A i \in Uncollected' : pay'[i].amount \in Int /\ pay'[i].fee \in Int
  BY <1>1, <1>2, <1>3
<1>5. ASSUME NEW a
      PROVE  EarnedBy(a)' = EarnedBy(a) + (IF doc.to = a THEN doc.amount - doc.fee ELSE 0)
  <2> DEFINE old == Earned(a)
             new == Earned(a)'
  <2>1. old \in [1..NTx -> Int] /\ new \in [1..NTx -> Int]
    BY <1>4 DEF Earned, TxIds
  <2>2. /\ old[TxId] = 0 /\ new[TxId] = (IF doc.to = a THEN doc.amount - doc.fee ELSE 0)
        /\ \A i \in 1..NTx : i # TxId => new[i] = old[i]
    BY <1>1, <1>2, <1>3, <1>4 DEF Earned, TxIds
  <2> HIDE DEF old, new
  <2>3. SumTo(new, NTx) = SumTo(old, NTx) + (new[TxId] - old[TxId]) /\ SumTo(old, NTx) \in Int
    BY <1>1, <2>1, <2>2, SumChange, SumToType
  <2>4. SumTo(new, NTx) = SumTo(old, NTx) + (IF doc.to = a THEN doc.amount - doc.fee ELSE 0)
    BY <1>1, <2>2, <2>3
  <2> QED BY <2>4 DEF EarnedBy, old, new
<1>6. ChargedSum' = ChargedSum + doc.fee
  <2> DEFINE old == Charged
             new == Charged'
  <2>1. old \in [1..NTx -> Int] /\ new \in [1..NTx -> Int]
    BY <1>4 DEF Charged, TxIds
  <2>2. /\ old[TxId] = 0 /\ new[TxId] = doc.fee
        /\ \A i \in 1..NTx : i # TxId => new[i] = old[i]
    BY <1>1, <1>2, <1>3, <1>4 DEF Charged, TxIds
  <2> HIDE DEF old, new
  <2>3. SumTo(new, NTx) = SumTo(old, NTx) + (new[TxId] - old[TxId]) /\ SumTo(old, NTx) \in Int
    BY <1>1, <2>1, <2>2, SumChange, SumToType
  <2>4. SumTo(new, NTx) = SumTo(old, NTx) + doc.fee
    BY <1>1, <2>2, <2>3
  <2> QED BY <2>4 DEF ChargedSum, old, new
<1> QED BY <1>5, <1>6

\* A prune takes what its merchant earned with the pays that it collects.
LEMMA PruneEarned ==
  ASSUME TypeOK, NEW m \in Addrs, UNCHANGED pay, NEW ids,
         \A i \in ids : i \in DOMAIN pay /\ i \notin collected.pay /\ pay[i].to = m,
         collected'.pay = collected.pay \cup ids
  PROVE  /\ \A a \in Addrs : EarnedBy(a)' =
                     EarnedBy(a) - (IF a = m THEN PaySum(ids) - PayFeeSum(ids) ELSE 0)
         /\ ChargedSum' = ChargedSum - PayFeeSum(ids)
<1> DEFINE sums == [i \in TxIds |-> IF i \in ids THEN pay[i].amount ELSE 0]
           dues == [i \in TxIds |-> IF i \in ids THEN pay[i].fee ELSE 0]
           nets == [i \in TxIds |-> IF i \in ids THEN pay[i].amount - pay[i].fee ELSE 0]
           old  == Earned(m)
           new  == Earned(m)'
           had  == Charged
           has  == Charged'
<1>1. /\ NTx \in Nat
      /\ \A i \in DOMAIN pay : pay[i].amount \in Int /\ pay[i].fee \in Int
  BY PayType, SizeAssumption
<1>3. /\ sums \in [1..NTx -> Int] /\ dues \in [1..NTx -> Int] /\ nets \in [1..NTx -> Int]
      /\ PaySum(ids) = SumTo(sums, NTx) /\ PayFeeSum(ids) = SumTo(dues, NTx)
  BY <1>1 DEF TxIds, PaySum, PayFeeSum
<1>4. \A i \in 1..NTx : sums[i] = nets[i] + dues[i]
  BY <1>1 DEF TxIds
<1>5. \A i : i \in Uncollected <=> i \in Uncollected' \/ i \in ids
  BY DEF Uncollected
<1>6. \A i \in ids : i \in Uncollected /\ i \notin Uncollected' /\ pay[i].to = m
  BY DEF Uncollected
<1>7. ASSUME NEW a, a # m PROVE EarnedBy(a)' = EarnedBy(a)
  <2>1. Earned(a)' = Earned(a)
    BY <1>5, <1>6, <1>7 DEF Earned, TxIds
  <2> QED BY <2>1 DEF EarnedBy
<1>8. /\ old \in [1..NTx -> Int] /\ new \in [1..NTx -> Int]
      /\ had \in [1..NTx -> Int] /\ has \in [1..NTx -> Int]
  BY <1>1 DEF Earned, Charged, Uncollected, TxIds
<1>9. \A i \in 1..NTx : old[i] = new[i] + nets[i]
  BY <1>1, <1>5, <1>6 DEF Earned, Uncollected, TxIds
<1>10. \A i \in 1..NTx : had[i] = has[i] + dues[i]
  BY <1>1, <1>5, <1>6 DEF Charged, Uncollected, TxIds
<1> HIDE DEF sums, dues, nets, old, new, had, has
<1>11. SumTo(sums, NTx) = SumTo(nets, NTx) + SumTo(dues, NTx)
  BY <1>1, <1>3, <1>4, SumAdd
<1>12. NTx \in Nat /\ nets \in [1..NTx -> Int] /\ dues \in [1..NTx -> Int]
  BY <1>1, <1>3
<1>13. /\ SumTo(old, NTx) = SumTo(new, NTx) + SumTo(nets, NTx)
       /\ SumTo(had, NTx) = SumTo(has, NTx) + SumTo(dues, NTx)
  <2>1. SumTo(old, NTx) = SumTo(new, NTx) + SumTo(nets, NTx)
    BY <1>8, <1>9, <1>12, SumAdd
  <2>2. SumTo(had, NTx) = SumTo(has, NTx) + SumTo(dues, NTx)
    BY <1>8, <1>10, <1>12, SumAdd
  <2> QED BY <2>1, <2>2
<1>14. /\ SumTo(sums, NTx) \in Int /\ SumTo(nets, NTx) \in Int /\ SumTo(dues, NTx) \in Int
       /\ SumTo(new, NTx) \in Int /\ SumTo(has, NTx) \in Int
  BY <1>1, <1>3, <1>8, SumToType
<1>15. EarnedBy(m)' = EarnedBy(m) - (PaySum(ids) - PayFeeSum(ids))
  BY <1>3, <1>11, <1>13, <1>14 DEF EarnedBy, old, new
<1>16. ChargedSum' = ChargedSum - PayFeeSum(ids)
  BY <1>3, <1>13, <1>14 DEF ChargedSum, had, has
<1>17. \A a \in Addrs : a # m => EarnedBy(a) - 0 = EarnedBy(a)
  <2>1. ASSUME NEW a PROVE EarnedBy(a) \in Int
    <3>1. Earned(a) \in [1..NTx -> Int]
      BY <1>1 DEF Earned, Uncollected, TxIds
    <3> QED BY <1>1, <3>1, SumToType DEF EarnedBy
  <2> QED BY <2>1
<1> QED BY <1>7, <1>15, <1>16, <1>17

----------------------------------------------------------------------------
(* The operations of Wallets, which are steps of its specification: their   *)
(* amounts are those by which its variables change.                         *)

\* The invoker of a handler that takes tokens out of an account may ask for it.
LEMMA Spender ==
  ASSUME NEW kid, NEW addr \in Addrs, MayAct(kid, addr)
  PROVE  /\ Wallet!MaySpend(kid, addr) /\ addr \in Wallet!Accounts
         /\ \E a \in Wallet!Accounts :
              kid \in [b \in Addrs |-> account[b].holders][a]
BY DEF MayAct, HasHolder, Wallet!MaySpend, Wallet!Accounts, Addrs

\* Alone, if there is no other signer.
LEMMA SoleSpender ==
  ASSUME NEW kid, NEW addr \in Addrs, MayAct(kid, addr), NEW extra, Signers(addr, extra) = {kid}
  PROVE  Wallet!Alone(kid, addr)
BY DEF MayAct, HasHolder, Signers, Wallet!Alone

\* What nobody but two accounts gain or lose.
LEMMA WealthMoves ==
  ASSUME TypeOK, TypeOK', NEW from \in Addrs, NEW to \in Addrs, from # to,
         NEW amount \in Int, NEW charge \in Int,
         Wealth'[from] = Wealth[from] - (amount + charge), Wealth'[to] = Wealth[to] + amount,
         \A a \in Addrs : a # from /\ a # to => Wealth'[a] = Wealth[a],
         FeesDue' = FeesDue + charge
  PROVE  /\ Wallet!Move(from, to, amount, charge)
         /\ amount = Wealth'[to] - Wealth[to] /\ charge = FeesDue' - FeesDue
         /\ amount + charge = Wealth[from] - Wealth'[from]
<1>1. /\ Wealth \in [Addrs -> Int] /\ Wealth' \in [Addrs -> Int] /\ FeesDue \in Int
  BY CustodyTypes, CustodyTypesNext DEF CustodyParts
<1> QED BY <1>1 DEF Wallet!Move, Wallet!Accounts, Addrs

\* Tokens that are sent: nothing else changes.
LEMMA AsSend ==
  ASSUME TypeOK, TypeOK', NEW kid, NEW from \in Addrs, NEW to \in Addrs, from # to,
         MayAct(kid, from), Wallet!Alone(kid, from),
         NEW amount \in Nat \ {0}, NEW charge \in Nat,
         Wealth'[from] = Wealth[from] - (amount + charge), Wealth'[to] = Wealth[to] + amount,
         \A a \in Addrs : a # from /\ a # to => Wealth'[a] = Wealth[a],
         FeesDue' = FeesDue + charge,
         UNCHANGED <<Sales, token, Offers>>
  PROVE  Wallet!Send(kid, from, to, amount, charge) /\ Wallet!Next
<1>1. /\ Wallet!Move(from, to, amount, charge)
      /\ amount = Wealth'[to] - Wealth[to] /\ charge = FeesDue' - FeesDue
  BY WealthMoves
<1>2. Wallet!Send(kid, from, to, amount, charge)
  BY <1>1, Spender DEF Wallet!Send, Wallet!Sent, Wallet!Positive
<1>3. Wallet!Send(kid, from, to, Wealth'[to] - Wealth[to], FeesDue' - FeesDue)
  BY <1>1, <1>2
<1>4. /\ from \in Wallet!Accounts /\ to \in Wallet!Accounts
      /\ kid \in [a \in Addrs |-> account[a].holders][from]
  BY DEF Wallet!Accounts, Addrs, MayAct, HasHolder
<1> QED BY <1>2, <1>3, <1>4 DEF Wallet!Next

\* A sale: the price moves from the customer, and the merchant gets it less the charge.
Sold(id, from, to, price, charge) ==
  /\ id \notin DOMAIN Sales
  /\ Wealth'[from] = Wealth[from] - price /\ Wealth'[to] = Wealth[to] + (price - charge)
  /\ \A a \in Addrs : a # from /\ a # to => Wealth'[a] = Wealth[a]
  /\ FeesDue' = FeesDue + charge
  /\ Sales' = Wallet!With(Sales, id,
                [customer |-> from, merchant |-> to, left |-> price, charge |-> charge])

LEMMA SoldMoves ==
  ASSUME TypeOK, TypeOK', NEW from \in Addrs, NEW to \in Addrs, from # to, NEW id,
         NEW price \in Nat \ {0}, NEW charge \in Nat, Sold(id, from, to, price, charge)
  PROVE  /\ Wallet!Sold(id, from, to, price, charge) /\ id \in DOMAIN Sales' \ DOMAIN Sales
         /\ price = Wealth[from] - Wealth'[from] /\ charge = FeesDue' - FeesDue
<1> DEFINE net == price - charge
<1>1. net + charge = price /\ net \in Int /\ charge \in Int
  OBVIOUS
<1>2. /\ Wallet!Move(from, to, net, charge)
      /\ charge = FeesDue' - FeesDue /\ net + charge = Wealth[from] - Wealth'[from]
  <2>1. /\ Wealth'[from] = Wealth[from] - (net + charge) /\ Wealth'[to] = Wealth[to] + net
        /\ \A a \in Addrs : a # from /\ a # to => Wealth'[a] = Wealth[a]
        /\ FeesDue' = FeesDue + charge
    BY <1>1 DEF Sold
  <2> HIDE DEF net
  <2> QED BY <1>1, <2>1, WealthMoves
<1>3. id \in DOMAIN Sales' \ DOMAIN Sales
  BY DEF Sold, Wallet!With
<1> QED BY <1>1, <1>2, <1>3 DEF Sold, Wallet!Sold, Wallet!Positive

LEMMA AsSell ==
  ASSUME TypeOK, TypeOK', NEW kid, NEW from \in Addrs, NEW to \in Addrs, from # to, NEW id,
         MayAct(kid, from), Wallet!Alone(kid, from),
         NEW price \in Nat \ {0}, NEW charge \in Nat, Sold(id, from, to, price, charge),
         UNCHANGED <<token, Offers>>
  PROVE  Wallet!Sell(kid, id, from, to, price, charge) /\ Wallet!Next
<1>1. /\ id \in DOMAIN Sales' \ DOMAIN Sales
      /\ Wallet!Sold(id, from, to, price, charge)
      /\ price = Wealth[from] - Wealth'[from] /\ charge = FeesDue' - FeesDue
  <2>1. TypeOK /\ TypeOK' /\ from # to /\ Sold(id, from, to, price, charge)
    OBVIOUS
  <2> QED BY ONLY <2>1, SoldMoves, ZenonT(60)
<1>2. Wallet!Sell(kid, id, from, to, price, charge)
  BY <1>1, Spender DEF Wallet!Sell
<1>3. Wallet!Sell(kid, id, from, to, Wealth[from] - Wealth'[from], FeesDue' - FeesDue)
  BY <1>1, <1>2
<1>4. /\ from \in Wallet!Accounts /\ to \in Wallet!Accounts
      /\ kid \in [a \in Addrs |-> account[a].holders][from]
  BY DEF Wallet!Accounts, Addrs, MayAct, HasHolder
<1>5. \E buyer, seller \in Wallet!Accounts : \E by \in [a \in Addrs |-> account[a].holders][buyer] :
        \E sale \in DOMAIN Sales' \ DOMAIN Sales :
          Wallet!Sell(by, sale, buyer, seller, Wealth[buyer] - Wealth'[buyer], FeesDue' - FeesDue)
  BY ONLY <1>1, <1>3, <1>4
<1>6. Wallet!Next
  BY <1>5 DEF Wallet!Next
<1> QED BY <1>2, <1>6

\* A refund: the merchant pays it to the customer, less the part of the charge that
\* comes back with it.
Refunded(id, merchant, customer, amount, back) ==
  /\ id \in DOMAIN Sales
  /\ Sales[id].merchant = merchant /\ Sales[id].customer = customer
  /\ Sales[id].left \in Int /\ Sales[id].charge \in Int
  /\ amount \in 1..Sales[id].left /\ back \in 0..Sales[id].charge
  /\ Wealth'[merchant] = Wealth[merchant] - (amount - back)
  /\ Wealth'[customer] = Wealth[customer] + amount
  /\ \A a \in Addrs : a # merchant /\ a # customer => Wealth'[a] = Wealth[a]
  /\ FeesDue' = FeesDue - back
  /\ Sales' = [Sales EXCEPT ![id].left = @ - amount, ![id].charge = @ - back]
  /\ amount = Sales[id].left - Sales'[id].left

LEMMA AsRefund ==
  ASSUME TypeOK, TypeOK', NEW kid, NEW id, NEW from \in Addrs, NEW to \in Addrs, from # to,
         MayAct(kid, from), NEW amount \in Int, NEW back \in Int,
         Refunded(id, from, to, amount, back), UNCHANGED <<token, Offers>>
  PROVE  Wallet!Refund(kid, id, amount, back) /\ Wallet!Next
<1> DEFINE neg == -back
<1>1. neg \in Int /\ amount + neg = amount - back
  OBVIOUS
<1>2. FeesDue \in Int /\ FeesDue' = FeesDue + neg
  BY <1>1, CustodyTypes DEF CustodyParts, Refunded
<1>3. Wallet!Move(from, to, amount, neg)
  <2>1. /\ Wealth'[from] = Wealth[from] - (amount + neg) /\ Wealth'[to] = Wealth[to] + amount
        /\ \A a \in Addrs : a # from /\ a # to => Wealth'[a] = Wealth[a]
    BY <1>1 DEF Refunded
  <2> HIDE DEF neg
  <2> QED BY <1>1, <1>2, <2>1, WealthMoves
<1>4. back = FeesDue - FeesDue' /\ amount = Sales[id].left - Sales'[id].left
  BY <1>1, <1>2 DEF Refunded
<1>5. Wallet!Refund(kid, id, amount, back)
  BY <1>3, Spender DEF Refunded, Wallet!Refund
<1>6. Wallet!Refund(kid, id, Sales[id].left - Sales'[id].left, FeesDue - FeesDue')
  BY <1>4, <1>5
<1>7. id \in DOMAIN Sales /\ kid \in [a \in Addrs |-> account[a].holders][Sales[id].merchant]
  BY DEF MayAct, HasHolder, Refunded
<1> QED BY <1>5, <1>6, <1>7 DEF Wallet!Next

\* A contract that is opened offers something.
LEMMA AsOffer ==
  ASSUME NEW kid, NEW id, id \notin DOMAIN Offers, NEW offer, Offers' = Wallet!With(Offers, id, offer),
         offer.from \in Addrs, MayAct(kid, offer.from), offer.amount \in Nat \ {0},
         UNCHANGED <<Wealth, FeesDue, Sales, token>>
  PROVE  Wallet!Offer(kid, id, offer) /\ Wallet!Next
<1>1. Wallet!Offer(kid, id, offer)
  BY Spender DEF Wallet!Offer, Wallet!Positive
<1>2. Offers'[id] = offer /\ id \in DOMAIN Offers' \ DOMAIN Offers
  BY DEF Wallet!With
<1>3. kid \in UNION {[b \in Addrs |-> account[b].holders][a] : a \in Wallet!Accounts}
  BY Spender
<1> QED BY <1>1, <1>2, <1>3 DEF Wallet!Next

\* One that is cancelled, or whose pending balance is withdrawn, moves nothing.
LEMMA AsDecline ==
  ASSUME NEW id \in DOMAIN Offers, Offers' = Wallet!Without(Offers, id),
         UNCHANGED <<Wealth, FeesDue, Sales, token>>
  PROVE  Wallet!Decline(id) /\ Wallet!Next
<1>1. Wallet!Decline(id) /\ id \in DOMAIN Offers \ DOMAIN Offers'
  BY DEF Wallet!Decline, Wallet!Without
<1> QED BY <1>1 DEF Wallet!Next

\* One that is executed moves what it has offered.
LEMMA AsAcceptedTransfer ==
  ASSUME TypeOK, TypeOK', NEW id \in DOMAIN Offers, Offers' = Wallet!Without(Offers, id),
         Offers[id].kind = "transfer", Offers[id].from \in Addrs, Offers[id].to \in Addrs,
         Offers[id].from # Offers[id].to, Offers[id].amount \in Nat \ {0},
         Offers[id].charge \in Nat,
         Wealth'[Offers[id].from] = Wealth[Offers[id].from] - (Offers[id].amount + Offers[id].charge),
         Wealth'[Offers[id].to] = Wealth[Offers[id].to] + Offers[id].amount,
         \A a \in Addrs : a # Offers[id].from /\ a # Offers[id].to => Wealth'[a] = Wealth[a],
         FeesDue' = FeesDue + Offers[id].charge,
         UNCHANGED <<Sales, token>>
  PROVE  Wallet!Accept(id, 0, 0) /\ Wallet!Next
<1>1. Wallet!Move(Offers[id].from, Offers[id].to, Offers[id].amount, Offers[id].charge)
  BY WealthMoves
<1>2. Wallet!Accept(id, 0, 0) /\ id \in DOMAIN Offers \ DOMAIN Offers'
  BY <1>1 DEF Wallet!Accept, Wallet!Sent, Wallet!Without, Wallet!Positive
<1> QED BY <1>2 DEF Wallet!Next

LEMMA AsAcceptedSale ==
  ASSUME TypeOK, TypeOK', NEW id \in DOMAIN Offers, Offers' = Wallet!Without(Offers, id),
         Offers[id].kind = "pay", Offers[id].from \in Addrs, Offers[id].to \in Addrs,
         Offers[id].from # Offers[id].to, Offers[id].amount \in Nat \ {0},
         NEW saleId, NEW charge \in Nat,
         Sold(saleId, Offers[id].from, Offers[id].to, Offers[id].amount, charge),
         UNCHANGED token
  PROVE  Wallet!Accept(id, saleId, charge) /\ Wallet!Next
<1> DEFINE from  == Offers[id].from
           to    == Offers[id].to
           price == Offers[id].amount
<1>1. /\ saleId \in DOMAIN Sales' \ DOMAIN Sales /\ charge = FeesDue' - FeesDue
      /\ Wallet!Sold(saleId, from, to, price, charge)
  <2> HIDE DEF from, to, price
  <2>1. /\ from \in Addrs /\ to \in Addrs /\ from # to /\ price \in Nat \ {0}
        /\ Sold(saleId, from, to, price, charge)
    BY DEF from, to, price
  <2>2. TypeOK /\ TypeOK' /\ charge \in Nat
    OBVIOUS
  <2> QED BY ONLY <2>1, <2>2, SoldMoves
<1>2. Wallet!Accept(id, saleId, charge) /\ id \in DOMAIN Offers \ DOMAIN Offers'
  BY <1>1 DEF Wallet!Accept, Wallet!Without
<1>3. Wallet!Accept(id, saleId, FeesDue' - FeesDue)
  BY <1>1, <1>2
<1> QED BY <1>1, <1>2, <1>3 DEF Wallet!Next

\* The target collects fees.
LEMMA AsCollect ==
  ASSUME TypeOK, TypeOK', NEW target \in Addrs, token.policy.target = target,
         NEW amount \in Int, Wealth'[target] = Wealth[target] + amount,
         \A a \in Addrs : a # target => Wealth'[a] = Wealth[a],
         FeesDue' = FeesDue - amount,
         UNCHANGED <<Sales, token, Offers>>
  PROVE  Wallet!Collect(amount) /\ Wallet!Next
<1>1. /\ Wealth \in [Addrs -> Int] /\ Wealth' \in [Addrs -> Int] /\ FeesDue \in Int
  BY CustodyTypes, CustodyTypesNext DEF CustodyParts
<1>2. amount = FeesDue - FeesDue' /\ target # NoAddr
  BY <1>1 DEF NoAddr, Addrs
<1>3. Wealth' = [Wealth EXCEPT ![target] = @ + amount]
  BY <1>1
<1>4. Wallet!Collect(amount)
  BY <1>2, <1>3 DEF Wallet!Collect
<1>5. Wallet!Collect(FeesDue - FeesDue')
  BY <1>2, <1>4
<1> QED BY <1>4, <1>5 DEF Wallet!Next

\* Tokens are issued to the genesis account, or burnt.
LEMMA AsIssue ==
  ASSUME TypeOK, TypeOK', NEW amount \in Int, token'.supply = token.supply + amount,
         Wealth'[Genesis] = Wealth[Genesis] + amount,
         \A a \in Addrs : a # Genesis => Wealth'[a] = Wealth[a],
         UNCHANGED <<FeesDue, Sales, Offers>>
  PROVE  Wallet!Issue(amount)
<1>1. /\ Wealth \in [Addrs -> Int] /\ Wealth' \in [Addrs -> Int] /\ Genesis \in Addrs
  BY CustodyTypes, CustodyTypesNext, DataAssumption DEF CustodyParts
<1>2. Wealth' = [Wealth EXCEPT ![Genesis] = @ + amount]
  BY <1>1
<1> QED BY <1>2 DEF Wallet!Issue

----------------------------------------------------------------------------
(* Sales and offers, one by one.                                           *)

Sale(i) == [customer |-> pay[i].from, merchant |-> pay[i].to,
            left |-> pay[i].amount - pay[i].totalRefund,
            charge |-> pay[i].fee + PayFeeSum(Refunds(i))]

OfferOf(i) == [kind |-> con[i].kind, from |-> pend[i].account, to |-> con[i].to,
               amount |-> pend[i].amount, charge |-> pend[i].fee]

SalesAndOffers ==
  /\ Sales = [i \in DOMAIN Sales |-> Sales[i]]
  /\ \A i : i \in DOMAIN Sales <=> i \in DOMAIN pay /\ pay[i].parent = 0
  /\ \A i \in DOMAIN Sales : Sales[i] = Sale(i)
  /\ Offers = [i \in DOMAIN Offers |-> Offers[i]]
  /\ \A i : i \in DOMAIN Offers <=> i \in DOMAIN pend /\ pend[i].type = "contract"
  /\ \A i \in DOMAIN Offers : Offers[i] = OfferOf(i)

LEMMA SalesOffers == SalesAndOffers
<1>1. /\ Sales = [i \in DOMAIN Sales |-> Sales[i]]
      /\ \A i : i \in DOMAIN Sales <=> i \in DOMAIN pay /\ pay[i].parent = 0
      /\ \A i \in DOMAIN Sales : Sales[i] = Sale(i)
  BY DEF Sales, Sale, PayFeeSum, Refunds
<1>2. /\ Offers = [i \in DOMAIN Offers |-> Offers[i]]
      /\ \A i : i \in DOMAIN Offers <=> i \in DOMAIN pend /\ pend[i].type = "contract"
      /\ \A i \in DOMAIN Offers : Offers[i] = OfferOf(i)
  BY DEF Offers, OfferOf
<1> QED BY <1>1, <1>2 DEF SalesAndOffers

LEMMA SalesOffersNext == SalesAndOffers'
BY SalesOffers, PTL

\* Nothing is sold when there is no new pay.
LEMMA SalesSame ==
  ASSUME UNCHANGED pay
  PROVE  UNCHANGED Sales
BY DEF Sales, PayFeeSum, Refunds

\* A payment is a sale, of which everything can still be refunded.
LEMMA SalesPut ==
  ASSUME TypeOK, TypeOK', KnownIds, PaysSound, TxId \in TxIds, NEW doc \in PayDoc,
         PutPayOf(doc, 0, 0), IsPayment(doc)
  PROVE  /\ TxId \notin DOMAIN Sales
         /\ Sales' = Wallet!With(Sales, TxId,
                       [customer |-> doc.from, merchant |-> doc.to,
                        left |-> doc.amount, charge |-> doc.fee])
<1> DEFINE sale == [customer |-> doc.from, merchant |-> doc.to,
                    left |-> doc.amount, charge |-> doc.fee]
<1>0. SalesAndOffers /\ SalesAndOffers'
  BY SalesOffers, SalesOffersNext
<1>1. /\ DOMAIN pay' = DOMAIN pay \cup {TxId} /\ pay'[TxId] = doc /\ TxId \notin DOMAIN pay
      /\ doc.parent = 0 /\ TxId # 0 /\ 0 \notin DOMAIN pay
  BY NewId, PayType DEF PutPayOf, IsPayment, TxIds
<1>2. DOMAIN Sales' = DOMAIN Sales \cup {TxId} /\ TxId \notin DOMAIN Sales
  <2>1. ASSUME NEW i PROVE i \in DOMAIN Sales' <=> i \in DOMAIN Sales \/ i = TxId
    BY <1>0, <1>1, OldPays DEF SalesAndOffers
  <2> QED BY <1>0, <1>1, <2>1 DEF SalesAndOffers
<1>3. ASSUME NEW i \in DOMAIN Sales PROVE Sales'[i] = Sales[i]
  <2>1. i \in DOMAIN pay /\ i # 0 /\ i \in DOMAIN Sales'
    BY <1>0, <1>1, <1>2 DEF SalesAndOffers
  <2>2. PayFeeSum(Refunds(i))' = PayFeeSum(Refunds(i))
    BY <1>1, <2>1, RefundSums
  <2>3. /\ pay'[i].from = pay[i].from /\ pay'[i].to = pay[i].to
        /\ pay'[i].amount = pay[i].amount /\ pay'[i].fee = pay[i].fee
        /\ pay'[i].totalRefund = pay[i].totalRefund
    BY <2>1, OldPays
  <2>4. Sale(i)' = Sale(i)
    BY <2>2, <2>3 DEF Sale
  <2> QED BY <1>0, <2>1, <2>4 DEF SalesAndOffers
<1>4. Sales'[TxId] = sale
  <2>1. Refunds(TxId) = {}
    BY <1>1 DEF PaysSound, Refunds
  <2>2. ASSUME NEW i, i # 0 PROVE PayFeeSum(Refunds(i))' = PayFeeSum(Refunds(i))
    BY <1>1, <2>2, RefundSums
  <2>3. PayFeeSum({}) = 0
    <3>1. NTx \in Nat /\ [j \in TxIds |-> 0] \in [1..NTx -> Int]
      BY SizeAssumption DEF TxIds
    <3>2. SumTo([j \in TxIds |-> 0], NTx) = 0
      BY <3>1, SumZero DEF TxIds
    <3> QED BY <3>2 DEF PayFeeSum
  <2>4. ASSUME NEW id, id = TxId PROVE Sale(id)' = sale
    <3>1. PayFeeSum(Refunds(id))' = 0
      BY <1>1, <2>1, <2>2, <2>3, <2>4
    <3>2. /\ pay'[id].amount - pay'[id].totalRefund = doc.amount
          /\ pay'[id].fee + PayFeeSum(Refunds(id))' = doc.fee
          /\ pay'[id].from = doc.from /\ pay'[id].to = doc.to
      BY <1>1, <2>4, <3>1 DEF IsPayment, PayDoc
    <3> QED BY <3>2 DEF Sale
  <2>5. ASSUME NEW id, id = TxId PROVE Sales'[id] = sale
    BY <1>0, <1>2, <2>4, <2>5 DEF SalesAndOffers
  <2> QED BY <2>5
<1> HIDE DEF sale
<1>5. Sales' = Wallet!With(Sales, TxId, sale)
  <2>1. /\ Sales' = [i \in DOMAIN Sales' |-> Sales'[i]] /\ Sales = [i \in DOMAIN Sales |-> Sales[i]]
    BY <1>0 DEF SalesAndOffers
  <2> QED BY <1>2, <1>3, <1>4, <2>1 DEF Wallet!With
<1> QED BY <1>2, <1>5 DEF sale

\* A refund takes from what can still be refunded.
LEMMA SalesRefund ==
  ASSUME TypeOK, TypeOK', KnownIds, PaysSound, TxId \in TxIds, NEW doc \in PayDoc,
         NEW p \in DOMAIN pay, pay[p].parent = 0, NEW back \in Nat \ {0},
         PutPayOf(doc, p, back), IsRefund(doc, p, back)
  PROVE  /\ p \in DOMAIN Sales
         /\ Sales' = [Sales EXCEPT ![p].left = @ - back, ![p].charge = @ + doc.fee]
         /\ Sales'[p] = Sale(p)'
<1>0. SalesAndOffers /\ SalesAndOffers'
  BY SalesOffers, SalesOffersNext
<1>1. /\ DOMAIN pay' = DOMAIN pay \cup {TxId} /\ pay'[TxId] = doc /\ TxId \notin DOMAIN pay
      /\ doc.parent = p /\ p # 0
  BY NewId, PayType DEF PutPayOf, IsRefund, TxIds
<1>2. DOMAIN Sales' = DOMAIN Sales /\ p \in DOMAIN Sales
  <2>1. ASSUME NEW i PROVE i \in DOMAIN Sales' <=> i \in DOMAIN Sales
    BY <1>0, <1>1, OldPays DEF SalesAndOffers
  <2> QED BY <1>0, <2>1 DEF SalesAndOffers
<1>3. ASSUME NEW i \in DOMAIN Sales, i # p PROVE Sales'[i] = Sales[i]
  <2>1. i \in DOMAIN pay
    BY <1>0 DEF SalesAndOffers
  <2>2. PayFeeSum(Refunds(i))' = PayFeeSum(Refunds(i))
    BY <1>1, <1>3, RefundSums
  <2>3. /\ pay'[i].from = pay[i].from /\ pay'[i].to = pay[i].to
        /\ pay'[i].amount = pay[i].amount /\ pay'[i].fee = pay[i].fee
        /\ pay'[i].totalRefund = pay[i].totalRefund
    BY <1>3, <2>1, OldPays
  <2>4. Sale(i)' = Sale(i)
    BY <2>2, <2>3 DEF Sale
  <2> QED BY <1>0, <1>2, <2>4 DEF SalesAndOffers
<1>4. Sales'[p] = [Sales[p] EXCEPT !.left = @ - back, !.charge = @ + doc.fee]
  <2>1. /\ PayFeeSum(Refunds(p))' = PayFeeSum(Refunds(p)) + doc.fee
        /\ PayFeeSum(Refunds(p)) \in Int /\ doc.fee \in Int
    BY <1>1, RefundSums DEF PayDoc
  <2>2. /\ pay'[p].from = pay[p].from /\ pay'[p].to = pay[p].to
        /\ pay'[p].amount = pay[p].amount /\ pay'[p].fee = pay[p].fee
        /\ pay'[p].totalRefund = pay[p].totalRefund + back
    BY OldPays
  <2>3. pay[p].amount \in Int /\ pay[p].totalRefund \in Int /\ pay[p].fee \in Int
    BY PayType
  <2>4. /\ pay'[p].amount - pay'[p].totalRefund = (pay[p].amount - pay[p].totalRefund) - back
        /\ pay'[p].fee + PayFeeSum(Refunds(p))' = (pay[p].fee + PayFeeSum(Refunds(p))) + doc.fee
    BY <2>1, <2>2, <2>3
  <2>5. Sale(p)' = [customer |-> pay[p].from, merchant |-> pay[p].to,
                    left |-> (pay[p].amount - pay[p].totalRefund) - back,
                    charge |-> (pay[p].fee + PayFeeSum(Refunds(p))) + doc.fee]
    BY <2>2, <2>4 DEF Sale
  <2>6. Sale(p)' = [Sale(p) EXCEPT !.left = @ - back, !.charge = @ + doc.fee]
    <3> DEFINE old    == Sale(p)
               new    == Sale(p)'
               buyer  == pay[p].from
               seller == pay[p].to
               left   == pay[p].amount - pay[p].totalRefund
               charge == pay[p].fee + PayFeeSum(Refunds(p))
               due    == doc.fee
    <3>1. /\ old = [customer |-> buyer, merchant |-> seller, left |-> left, charge |-> charge]
          /\ new = [customer |-> buyer, merchant |-> seller,
                    left |-> left - back, charge |-> charge + due]
      BY <2>5 DEF Sale
    <3> HIDE DEF old, new, buyer, seller, left, charge, due
    <3> DEFINE x    == left - back
               y    == charge + due
               less == [old EXCEPT !.left = @ - back, !.charge = @ + due]
    <3>2. less.customer = buyer /\ less.merchant = seller /\ less.left = x /\ less.charge = y
      BY <3>1
    <3>3. less \in [customer : {buyer}, merchant : {seller}, left : {x}, charge : {y}]
      BY <3>1
    <3>4. new = [customer |-> buyer, merchant |-> seller, left |-> x, charge |-> y]
      BY <3>1
    <3> HIDE DEF less, x, y
    <3>5. less = [customer |-> less.customer, merchant |-> less.merchant,
                  left |-> less.left, charge |-> less.charge]
      BY <3>3
    <3>6. new = less
      BY <3>2, <3>4, <3>5
    <3> QED BY <3>6 DEF old, new, due, less
  <2> QED BY <1>0, <1>2, <2>6 DEF SalesAndOffers
<1>5. /\ Sales' = [i \in DOMAIN Sales' |-> Sales'[i]] /\ Sales = [i \in DOMAIN Sales |-> Sales[i]]
      /\ Sales'[p] = Sale(p)'
  BY <1>0, <1>2 DEF SalesAndOffers
<1> QED BY <1>2, <1>3, <1>4, <1>5

----------------------------------------------------------------------------
(* Offers.                                                                 *)

\* Contracts are opened and closed, which changes nothing of what they say.
ConStep ==
  \/ UNCHANGED con
  \/ \E doc : OpenContract(doc)
  \/ \E cid \in DOMAIN con, status \in {"executed", "cancelled"} : CloseContract(cid, status)

LEMMA ConKept ==
  ASSUME TypeOK, KnownIds, ConStep, NEW i \in DOMAIN con, con[i].kind \in OfferKinds
  PROVE  con'[i].kind = con[i].kind /\ con'[i].to = con[i].to
<1>1. CASE UNCHANGED con
  BY <1>1
<1>2. ASSUME NEW doc, OpenContract(doc)
      PROVE  con'[i].kind = con[i].kind /\ con'[i].to = con[i].to
  BY <1>2, NewId DEF OpenContract, PutDoc
<1>3. ASSUME NEW cid \in DOMAIN con, NEW status \in {"executed", "cancelled"},
             CloseContract(cid, status)
      PROVE  con'[i].kind = con[i].kind /\ con'[i].to = con[i].to
  <2>1. /\ con[i] \in ContractDoc
        /\ con'[i] = con[i] \/ con'[i] = [con[i] EXCEPT !.status = status]
    BY <1>3 DEF CloseContract, TypeOK, IsDocs
  <2> QED BY <2>1 DEF ContractDoc, OfferKinds
<1> QED BY <1>1, <1>2, <1>3 DEF ConStep

\* The offers that stay are those of the pending balances that stay.
LEMMA OffersMap ==
  ASSUME TypeOK, KnownIds, EscrowHasOpenContract, ConStep, NEW gone,
         \A i : i \in DOMAIN pend' /\ pend'[i].type = "contract" <=>
                  i \in DOMAIN pend /\ pend[i].type = "contract" /\ i \notin gone,
         \A i \in DOMAIN pend' \cap DOMAIN pend : pend'[i].type = "contract" => pend'[i] = pend[i]
  PROVE  /\ Offers' = [i \in DOMAIN Offers \ gone |-> Offers[i]]
         /\ gone = {} => UNCHANGED Offers
<1>0. SalesAndOffers /\ SalesAndOffers'
  BY SalesOffers, SalesOffersNext
<1>1. DOMAIN Offers' = DOMAIN Offers \ gone
  <2>1. ASSUME NEW i PROVE i \in DOMAIN Offers' <=> i \in DOMAIN Offers \ gone
    BY <1>0 DEF SalesAndOffers
  <2> QED BY <1>0, <2>1 DEF SalesAndOffers
<1>2. ASSUME NEW i \in DOMAIN Offers' PROVE Offers'[i] = Offers[i]
  <2>1. /\ i \in DOMAIN pend /\ pend[i].type = "contract" /\ pend'[i] = pend[i]
        /\ i \in DOMAIN Offers
    BY <1>0, <1>1 DEF SalesAndOffers
  <2>2. con'[i].kind = con[i].kind /\ con'[i].to = con[i].to
    BY <2>1, ConKept DEF EscrowHasOpenContract, OfferKinds
  <2>3. OfferOf(i)' = OfferOf(i)
    BY <2>1, <2>2 DEF OfferOf
  <2> QED BY <1>0, <2>1, <2>3 DEF SalesAndOffers
<1>3. /\ Offers' = [i \in DOMAIN Offers' |-> Offers'[i]]
      /\ Offers = [i \in DOMAIN Offers |-> Offers[i]]
  BY <1>0 DEF SalesAndOffers
<1>4. Offers' = [i \in DOMAIN Offers \ gone |-> Offers[i]]
  BY <1>1, <1>2, <1>3
<1>5. gone = {} => Offers' = Offers
  BY <1>3, <1>4
<1> QED BY <1>4, <1>5

\* Time locks and steps that leave the pending balances alone offer nothing.
LEMMA OffersSame ==
  ASSUME TypeOK, KnownIds, EscrowHasOpenContract, ConStep,
         \/ UNCHANGED pend
         \/ \E doc : doc.type = "account" /\ pend' = PutDoc(pend, TxId, doc)
         \/ \E i \in DOMAIN pend : pend[i].type = "account" /\ pend' = DelDoc(pend, i)
  PROVE  UNCHANGED Offers
<1>1. /\ \A i : i \in DOMAIN pend' /\ pend'[i].type = "contract" <=>
                  i \in DOMAIN pend /\ pend[i].type = "contract" /\ i \notin {}
      /\ \A i \in DOMAIN pend' \cap DOMAIN pend : pend'[i].type = "contract" => pend'[i] = pend[i]
  <2>1. CASE UNCHANGED pend
    BY <2>1
  <2>2. ASSUME NEW doc, doc.type = "account", pend' = PutDoc(pend, TxId, doc) PROVE <1>1
    BY <2>2, NewId DEF PutDoc
  <2>3. ASSUME NEW i \in DOMAIN pend, pend[i].type = "account", pend' = DelDoc(pend, i) PROVE <1>1
    BY <2>3 DEF DelDoc
  <2> QED BY <2>1, <2>2, <2>3
<1> QED BY <1>1, OffersMap

\* A contract that is opened.
LEMMA OffersPut ==
  ASSUME TypeOK, KnownIds, EscrowHasOpenContract,
         NEW addr, NEW amount, NEW charge, NEW expiry, NEW ts,
         Deposit(addr, amount, charge, expiry, ts), NEW doc, OpenContract(doc)
  PROVE  /\ TxId \notin DOMAIN Offers
         /\ Offers' = Wallet!With(Offers, TxId,
                        [kind |-> doc.kind, from |-> addr, to |-> doc.to,
                         amount |-> amount, charge |-> charge])
<1> DEFINE held == [type |-> "contract", account |-> addr, rid |-> TxId,
                    amount |-> amount, fee |-> charge, due |-> expiry]
<1>0. SalesAndOffers /\ SalesAndOffers'
  BY SalesOffers, SalesOffersNext
<1>1. /\ DOMAIN pend' = DOMAIN pend \cup {TxId} /\ pend'[TxId] = held /\ TxId \notin DOMAIN pend
      /\ \A i \in DOMAIN pend : pend'[i] = pend[i]
  BY NewId DEF Deposit, PutDoc
<1>2. /\ ConStep /\ con'[TxId] = doc
      /\ held.type = "contract" /\ held.account = addr
      /\ held.amount = amount /\ held.fee = charge
  BY DEF ConStep, OpenContract, PutDoc
<1> HIDE DEF held
<1>3. DOMAIN Offers' = DOMAIN Offers \cup {TxId} /\ TxId \notin DOMAIN Offers
  <2>1. ASSUME NEW i PROVE i \in DOMAIN Offers' <=> i \in DOMAIN Offers \cup {TxId}
    BY <1>0, <1>1, <1>2 DEF SalesAndOffers
  <2> QED BY <1>0, <1>1, <2>1 DEF SalesAndOffers
<1>4. ASSUME NEW i \in DOMAIN Offers PROVE Offers'[i] = Offers[i]
  <2>1. /\ i \in DOMAIN pend /\ pend[i].type = "contract" /\ pend'[i] = pend[i]
        /\ i \in DOMAIN Offers'
    BY <1>0, <1>1, <1>3 DEF SalesAndOffers
  <2>2. con'[i].kind = con[i].kind /\ con'[i].to = con[i].to
    BY <1>2, <2>1, ConKept DEF EscrowHasOpenContract, OfferKinds
  <2>3. OfferOf(i)' = OfferOf(i)
    BY <2>1, <2>2 DEF OfferOf
  <2> QED BY <1>0, <2>1, <2>3 DEF SalesAndOffers
<1>5. /\ Offers' = [i \in DOMAIN Offers' |-> Offers'[i]]
      /\ Offers = [i \in DOMAIN Offers |-> Offers[i]]
  BY <1>0 DEF SalesAndOffers
<1>6. ASSUME NEW i, i = TxId
      PROVE  Offers'[i] = [kind |-> doc.kind, from |-> addr, to |-> doc.to,
                           amount |-> amount, charge |-> charge]
  <2>1. Offers'[i] = OfferOf(i)'
    BY <1>0, <1>3, <1>6 DEF SalesAndOffers
  <2> QED BY <1>1, <1>2, <1>6, <2>1 DEF OfferOf
<1> QED BY <1>3, <1>4, <1>5, <1>6 DEF Wallet!With

\* One that is closed.
LEMMA OffersGone ==
  ASSUME TypeOK, KnownIds, EscrowHasOpenContract, ConStep,
         NEW i \in DOMAIN pend, pend[i].type = "contract",
         \/ pend' = DelDoc(pend, i)
         \/ \E doc : doc.type = "account" /\ pend' = PutDoc(DelDoc(pend, i), TxId, doc)
  PROVE  /\ i \in DOMAIN Offers /\ Offers[i] = OfferOf(i)
         /\ Offers' = Wallet!Without(Offers, i)
<1>0. SalesAndOffers
  BY SalesOffers
<1>1. /\ \A j : j \in DOMAIN pend' /\ pend'[j].type = "contract" <=>
                  j \in DOMAIN pend /\ pend[j].type = "contract" /\ j \notin {i}
      /\ \A j \in DOMAIN pend' \cap DOMAIN pend : pend'[j].type = "contract" => pend'[j] = pend[j]
  <2>1. CASE pend' = DelDoc(pend, i)
    BY <2>1 DEF DelDoc
  <2>2. ASSUME NEW doc, doc.type = "account", pend' = PutDoc(DelDoc(pend, i), TxId, doc)
        PROVE  <1>1
    BY <2>2, NewId DEF DelDoc, PutDoc
  <2> QED BY <2>1, <2>2
<1>2. Offers' = [j \in DOMAIN Offers \ {i} |-> Offers[j]]
  BY <1>1, OffersMap
<1> QED BY <1>0, <1>2 DEF SalesAndOffers, Wallet!Without

----------------------------------------------------------------------------
(* Every step of the chaincode is one of Wallets, or none.                 *)

\* All that is known of every state.
Sound == IInv /\ AccountInv /\ DocumentInv /\ SupplyWithinMax

LEMMA SoundParts ==
  Sound => /\ TypeOK /\ KnownIds /\ EscrowHasOpenContract /\ PendingSound /\ OffersSound
           /\ PaysSound /\ RefundBounded /\ FlightsWatched /\ FreeWithoutPolicy
           /\ FlightsCurrent /\ CollectedBelow /\ PaysHoldNoFee /\ AbsentEmpty
           /\ IssuedWithGenesis
BY DEF Sound, IInv, AccountInv, DocumentInv

\* What a step that leaves documents alone does not change.
LEMMA HeldSame == UNCHANGED pend => \A a : HeldBy(a)' = HeldBy(a)
BY DEF HeldBy, Held

LEMMA EarnedSame ==
  ASSUME UNCHANGED <<pay, collected>>
  PROVE  ChargedSum' = ChargedSum /\ \A a : EarnedBy(a)' = EarnedBy(a)
BY DEF EarnedBy, Earned, ChargedSum, Charged, Uncollected

LEMMA FeesSame == UNCHANGED <<fee, collected>> => FeesLeft' = FeesLeft
BY DEF FeesLeft, Outstanding

\* Nothing changes but balances and pending balances.
LEMMA WealthHeld ==
  ASSUME TypeOK, TypeOK', UNCHANGED <<pay, collected>>
  PROVE  \A a \in Addrs :
           /\ Wealth'[a] - Wealth[a] = (bal'[a] - bal[a]) + (HeldBy(a)' - HeldBy(a))
           /\ bal[a] \in Int /\ bal'[a] \in Int /\ HeldBy(a) \in Int /\ HeldBy(a)' \in Int
           /\ Wealth[a] \in Int /\ Wealth'[a] \in Int
<1>1. CustodyParts /\ CustodyParts'
  BY CustodyTypes, CustodyTypesNext
<1>2. bal \in [Addrs -> Int] /\ bal' \in [Addrs -> Int]
  BY DEF TypeOK
<1>3. \A a \in Addrs : EarnedBy(a)' = EarnedBy(a)
  BY EarnedSame
<1>4. ASSUME NEW a \in Addrs
      PROVE  /\ Wealth'[a] = bal'[a] + HeldBy(a)' + EarnedBy(a)'
             /\ HeldBy(a)' \in Int /\ EarnedBy(a)' \in Int /\ Wealth'[a] \in Int
  BY <1>1 DEF CustodyParts
<1>5. ASSUME NEW a \in Addrs
      PROVE  /\ Wealth[a] = bal[a] + HeldBy(a) + EarnedBy(a)
             /\ HeldBy(a) \in Int /\ EarnedBy(a) \in Int /\ Wealth[a] \in Int
  BY <1>1 DEF CustodyParts
<1> QED BY <1>2, <1>3, <1>4, <1>5

LEMMA WealthBy ==
  ASSUME TypeOK, TypeOK', UNCHANGED <<pay, collected>>, NEW a \in Addrs, NEW gain \in Int,
         (bal'[a] - bal[a]) + (HeldBy(a)' - HeldBy(a)) = gain
  PROVE  Wealth'[a] = Wealth[a] + gain
BY WealthHeld

\* The fees change by what becomes a fee document.
LEMMA FeesCharged ==
  ASSUME TypeOK, TypeOK', UNCHANGED <<pay, collected>>, NEW x \in Int,
         FeesLeft' = FeesLeft + x
  PROVE  FeesDue' = FeesDue + x
<1>1. ChargedSum' = ChargedSum
  BY EarnedSame
<1>2. /\ FeesDue = FeesLeft + ChargedSum /\ FeesLeft \in Int /\ ChargedSum \in Int
  BY CustodyTypes DEF CustodyParts
<1>3. FeesDue' = FeesLeft' + ChargedSum'
  BY CustodyTypesNext DEF CustodyParts
<1> QED BY <1>1, <1>2, <1>3

LEMMA WealthSame ==
  ASSUME TypeOK, TypeOK', \A a \in Addrs : Wealth'[a] = Wealth[a]
  PROVE  UNCHANGED Wealth
<1>1. Wealth \in [Addrs -> Int] /\ Wealth' \in [Addrs -> Int]
  BY CustodyTypes, CustodyTypesNext DEF CustodyParts
<1> QED BY <1>1

\* transfer, signed by its invoker alone, whether the receiver has to wait or not.
LEMMA TransferNowCustody ==
  ASSUME Sound, TypeOK', NEW kid, NEW from \in Addrs, NEW to \in Addrs,
         NEW amount \in Nat, NEW extra, NEW due \in Nat, NEW ts,
         TransferNow(kid, from, to, amount, extra, due, ts)
  PROVE  /\ Wallet!Send(kid, from, to, amount, CalcFee(from, "transfer", amount))
         /\ Wallet!Next
<1> DEFINE charge == CalcFee(from, "transfer", amount)
           less   == Credit(bal, from, -(amount + charge))
           lock   == [type |-> "account", account |-> to, rid |-> from,
                      amount |-> amount, fee |-> 0, due |-> due]
<1>0. TypeOK /\ KnownIds /\ EscrowHasOpenContract /\ IInv /\ bal \in [Addrs -> Int]
  BY SoundParts DEF Sound, TypeOK
<1>1. /\ amount > 0 /\ from # to
      /\ IF due > ts THEN pend' = PutDoc(pend, TxId, lock) /\ bal' = less
                     ELSE pend' = pend /\ bal' = Credit(less, to, amount)
      /\ CreateFee(from, charge, ts)
      /\ UNCHANGED <<token, con, pay, collected>>
      /\ MayAct(kid, from) /\ Signers(from, extra) = {kid}
  BY DEF TransferNow, MayTransfer, Receive
<1>2. /\ TxId \in TxIds /\ TxId \notin DOMAIN pend /\ TxId \notin DOMAIN fee
      /\ TxId \notin collected.fee /\ ts \in Stamps /\ ts \in Int
  BY <1>0, CommitFacts DEF TransferNow
<1>3. charge \in Nat
  BY <1>0, CalcFeeType DEF Fns
<1>4. lock.type = "account" /\ lock.account = to /\ lock.amount = amount /\ lock.fee = 0
      /\ lock \in PendingDoc
  BY DEF PendingDoc, Addrs
<1> HIDE DEF charge, lock
<1>5. FeesDue' = FeesDue + charge
  <2>1. FeesLeft' = FeesLeft + charge
    BY <1>0, <1>1, <1>2, <1>3, CreateFeeKeeps
  <2> QED BY <1>0, <1>1, <1>3, <2>1, FeesCharged
<1>6. UNCHANGED <<Sales, Offers, token>>
  <2>1. ConStep
    BY <1>1 DEF ConStep
  <2>2. UNCHANGED Offers
    BY <1>0, <1>1, <1>4, <2>1, OffersSame
  <2> QED BY <1>1, <2>2, SalesSame
<1>7. \A a \in Addrs : less[a] = bal[a] + IF a = from THEN -(amount + charge) ELSE 0
  BY <1>0, <1>3 DEF Credit
<1>8. less \in [Addrs -> Int]
  BY <1>0, <1>3, CreditType
<1> HIDE DEF less
<1>9. ASSUME NEW a \in Addrs
      PROVE  (bal'[a] - bal[a]) + (HeldBy(a)' - HeldBy(a)) =
               (IF a = from THEN -(amount + charge) ELSE 0) + (IF a = to THEN amount ELSE 0)
  <2>1. HeldBy(a) \in Int /\ bal[a] \in Int
    BY <1>0, CustodyTypes DEF CustodyParts
  <2>2. CASE due > ts
    <3>1. HeldBy(a)' = HeldBy(a) + (IF to = a THEN amount + 0 ELSE 0)
      BY <1>0, <1>1, <1>2, <1>4, <2>2, HeldPut
    <3> QED BY <1>1, <1>3, <1>7, <2>1, <2>2, <3>1
  <2>3. CASE ~(due > ts)
    <3>1. HeldBy(a)' = HeldBy(a) /\ bal'[a] = less[a] + IF a = to THEN amount ELSE 0
      BY <1>1, <1>8, <2>3, HeldSame DEF Credit
    <3>2. less[a] = bal[a] + (IF a = from THEN -(amount + charge) ELSE 0)
      BY <1>7
    <3> DEFINE paid == IF a = from THEN -(amount + charge) ELSE 0
               got  == IF a = to THEN amount ELSE 0
               h    == HeldBy(a)
    <3>3. bal'[a] = (bal[a] + paid) + got /\ HeldBy(a)' = h
      BY <3>1, <3>2
    <3>4. paid \in Int /\ got \in Int /\ bal[a] \in Int /\ h \in Int
      BY <1>3, <2>1
    <3>5. (bal'[a] - bal[a]) + (HeldBy(a)' - h) = paid + got
      <4> HIDE DEF paid, got, h
      <4> QED BY <3>3, <3>4
    <3> QED BY <3>5
  <2> QED BY <2>2, <2>3
<1>10. ASSUME NEW a \in Addrs
       PROVE  Wealth'[a] = Wealth[a] + (IF a = from THEN -(amount + charge) ELSE 0)
                                     + (IF a = to THEN amount ELSE 0)
  <2> DEFINE gain == (IF a = from THEN -(amount + charge) ELSE 0) + (IF a = to THEN amount ELSE 0)
  <2>1. gain \in Int /\ (bal'[a] - bal[a]) + (HeldBy(a)' - HeldBy(a)) = gain
    BY <1>3, <1>9
  <2>2. gain = (IF a = from THEN -(amount + charge) ELSE 0) + (IF a = to THEN amount ELSE 0)
    OBVIOUS
  <2> HIDE DEF gain
  <2>3. Wealth'[a] = Wealth[a] + gain /\ Wealth[a] \in Int
    BY <1>0, <1>1, <2>1, WealthBy, CustodyTypes DEF CustodyParts
  <2> QED BY <1>3, <2>2, <2>3
<1>11. \A a \in Addrs : Wealth[a] \in Int
  BY <1>0, CustodyTypes DEF CustodyParts
<1>12. /\ Wealth'[from] = Wealth[from] - (amount + charge)
       /\ Wealth'[to] = Wealth[to] + amount
       /\ \A a \in Addrs : a # from /\ a # to => Wealth'[a] = Wealth[a]
  BY <1>1, <1>3, <1>10, <1>11
<1>13. Wallet!Alone(kid, from)
  BY <1>1, SoleSpender
<1>14. amount \in Nat \ {0}
  BY <1>1
<1>15. Wallet!Send(kid, from, to, amount, charge) /\ Wallet!Next
  BY <1>0, <1>1, <1>3, <1>5, <1>6, <1>12, <1>13, <1>14, AsSend
<1> QED BY <1>15 DEF charge

\* What is set aside for a contract is still owned.
LEMMA DepositCustody ==
  ASSUME Sound, TypeOK', NEW kid, NEW from \in Addrs, MayAct(kid, from),
         NEW amount \in Nat, amount > 0,
         NEW charge \in Nat, NEW expiry \in Nat, NEW ts, Deposit(from, amount, charge, expiry, ts),
         NEW W, Commit(ts, W), NEW doc, OpenContract(doc),
         UNCHANGED <<token, pay, fee, collected>>
  PROVE  /\ Wallet!Offer(kid, TxId, [kind |-> doc.kind, from |-> from, to |-> doc.to,
                                     amount |-> amount, charge |-> charge])
         /\ Wallet!Next
<1> DEFINE held == [type |-> "contract", account |-> from, rid |-> TxId,
                    amount |-> amount, fee |-> charge, due |-> expiry]
<1>0. TypeOK /\ KnownIds /\ EscrowHasOpenContract /\ IInv /\ bal \in [Addrs -> Int]
  BY SoundParts DEF Sound, TypeOK
<1>1. TxId \in TxIds /\ TxId \notin DOMAIN pend
  BY <1>0, CommitFacts
<1>2. pend' = PutDoc(pend, TxId, held) /\ bal' = Credit(bal, from, -(amount + charge))
  BY DEF Deposit
<1>3. held.account = from /\ held.amount = amount /\ held.fee = charge /\ held \in PendingDoc
  BY <1>1 DEF PendingDoc, TxIds
<1> HIDE DEF held
<1>4. ASSUME NEW a \in Addrs PROVE Wealth'[a] = Wealth[a]
  <2>1. HeldBy(a)' = HeldBy(a) + (IF from = a THEN amount + charge ELSE 0)
    BY <1>0, <1>1, <1>2, <1>3, HeldPut
  <2>2. HeldBy(a) \in Int /\ Wealth[a] \in Int
    BY <1>0, CustodyTypes DEF CustodyParts
  <2>3. bal'[a] = bal[a] + (IF from = a THEN -(amount + charge) ELSE 0)
    BY <1>0, <1>2 DEF Credit
  <2>4. (bal'[a] - bal[a]) + (HeldBy(a)' - HeldBy(a)) = 0
    BY <1>0, <2>1, <2>2, <2>3
  <2>5. Wealth'[a] = Wealth[a] + 0
    BY <1>0, <2>4, WealthBy
  <2> QED BY <2>2, <2>5
<1>5. UNCHANGED <<Wealth, FeesDue, Sales>>
  <2>1. FeesDue' = FeesDue
    BY EarnedSame, FeesSame, <1>0, CustodyTypes, CustodyTypesNext DEF CustodyParts
  <2> QED BY <1>0, <1>4, <2>1, WealthSame, SalesSame
<1> DEFINE offer == [kind |-> doc.kind, from |-> from, to |-> doc.to,
                     amount |-> amount, charge |-> charge]
<1>6. TxId \notin DOMAIN Offers /\ Offers' = Wallet!With(Offers, TxId, offer)
  BY <1>0, OffersPut
<1>7. offer.from = from /\ offer.amount = amount /\ amount \in Nat \ {0} /\ UNCHANGED token
  OBVIOUS
<1> HIDE DEF offer
<1>8. Wallet!Offer(kid, TxId, offer) /\ Wallet!Next
  BY <1>5, <1>6, <1>7, AsOffer
<1> QED BY <1>8 DEF offer

\* What is given back was owned all the time.
LEMMA WithdrawCustody ==
  ASSUME Sound, TypeOK', NEW i \in DOMAIN pend, NEW ts, Withdraw(i, ts),
         UNCHANGED <<token, pay, fee, collected>>, ConStep
  PROVE  IF pend[i].type = "contract"
         THEN /\ Wallet!Decline(i) /\ Wallet!Next
              /\ i \in DOMAIN Offers /\ Offers[i] = OfferOf(i)
         ELSE Wallet!Nothing
<1>0. TypeOK /\ KnownIds /\ EscrowHasOpenContract /\ IInv /\ bal \in [Addrs -> Int]
  BY SoundParts DEF Sound, TypeOK
<1> DEFINE owner == pend[i].account
           back  == pend[i].amount + pend[i].fee
<1>1. pend' = DelDoc(pend, i) /\ bal' = Credit(bal, owner, back) /\ back \in Int
  BY <1>0, PendingType DEF Withdraw
<1>2. ASSUME NEW a \in Addrs PROVE Wealth'[a] = Wealth[a]
  <2>1. HeldBy(a)' = HeldBy(a) - (IF owner = a THEN back ELSE 0)
    BY <1>0, <1>1, HeldDel
  <2> HIDE DEF owner, back
  <2>2. HeldBy(a) \in Int /\ Wealth[a] \in Int
    BY <1>0, CustodyTypes DEF CustodyParts
  <2>3. bal'[a] = bal[a] + (IF owner = a THEN back ELSE 0)
    BY <1>0, <1>1 DEF Credit
  <2>4. (bal'[a] - bal[a]) + (HeldBy(a)' - HeldBy(a)) = 0
    BY <1>0, <1>1, <2>1, <2>2, <2>3
  <2>5. Wealth'[a] = Wealth[a] + 0
    BY <1>0, <2>4, WealthBy
  <2> QED BY <2>2, <2>5
<1>3. UNCHANGED <<Wealth, FeesDue, Sales>>
  <2>1. FeesDue' = FeesDue
    BY EarnedSame, FeesSame, <1>0, CustodyTypes, CustodyTypesNext DEF CustodyParts
  <2> QED BY <1>0, <1>2, <2>1, WealthSame, SalesSame
<1>4. CASE pend[i].type = "contract"
  <2>1. /\ i \in DOMAIN Offers /\ Offers[i] = OfferOf(i)
        /\ Offers' = Wallet!Without(Offers, i)
    BY <1>0, <1>1, <1>4, OffersGone
  <2> QED BY <1>3, <1>4, <2>1, AsDecline
<1>5. CASE pend[i].type # "contract"
  <2>1. pend[i].type = "account"
    BY <1>0, <1>5 DEF TypeOK, IsDocs, PendingDoc
  <2>2. UNCHANGED Offers
    BY <1>0, <1>1, <2>1, OffersSame
  <2> QED BY <1>3, <1>5, <2>2 DEF Wallet!Nothing, Wallet!state
<1> QED BY <1>4, <1>5

\* The callback of a transfer.
LEMMA ExecuteTransferCustody ==
  ASSUME Sound, TypeOK', NEW cid, NEW ts, ExecuteTransfer(cid, ts)
  PROVE  Wallet!Accept(cid, 0, 0) /\ Wallet!Next
<1> DEFINE from   == pend[cid].account
           to     == con[cid].to
           amount == pend[cid].amount
           charge == pend[cid].fee
           due    == con[cid].due
           lock   == [type |-> "account", account |-> to, rid |-> from,
                      amount |-> amount, fee |-> 0, due |-> due]
<1>0. /\ TypeOK /\ KnownIds /\ EscrowHasOpenContract /\ IInv /\ bal \in [Addrs -> Int]
      /\ PendingSound /\ OffersSound
  BY SoundParts DEF Sound, TypeOK
<1>1. /\ cid \in DOMAIN pend /\ pend[cid].type = "contract"
      /\ cid \in DOMAIN con /\ con[cid].kind = "transfer"
      /\ IF due > ts THEN pend' = PutDoc(DelDoc(pend, cid), TxId, lock) /\ bal' = bal
                     ELSE pend' = DelDoc(pend, cid) /\ bal' = Credit(bal, to, amount)
      /\ CreateFee(from, charge, ts) /\ ConStep
      /\ UNCHANGED <<token, pay, collected>>
  BY DEF ExecuteTransfer, OwnsPending, Receive, ConStep
<1>2. /\ TxId \in TxIds /\ TxId \notin DOMAIN pend /\ TxId \notin DOMAIN fee
      /\ TxId \notin collected.fee /\ ts \in Stamps /\ ts \in Int
  BY <1>0, CommitFacts DEF ExecuteTransfer
<1>3. /\ from \in Addrs /\ amount \in Nat \ {0} /\ charge \in Nat
      /\ to \in Addrs /\ due \in Nat /\ from # to
  <2>1. /\ from \in Addrs /\ amount \in Int /\ charge \in Int /\ to \in Addrs /\ due \in Nat
    BY <1>0, <1>1, PendingType, ContractType
  <2>2. amount > 0 /\ charge >= 0 /\ from # to
    BY <1>0, <1>1 DEF PendingSound, OffersSound, EscrowHasOpenContract
  <2> QED BY <2>1, <2>2
<1>4. lock.type = "account" /\ lock.account = to /\ lock.amount = amount /\ lock.fee = 0
  OBVIOUS
<1>5. /\ cid \in DOMAIN Offers /\ Offers[cid] = OfferOf(cid)
      /\ Offers' = Wallet!Without(Offers, cid)
  <2> HIDE DEF lock, due, to, amount
  <2>1. pend' = DelDoc(pend, cid) \/ pend' = PutDoc(DelDoc(pend, cid), TxId, lock)
    BY <1>1
  <2> QED BY <1>0, <1>1, <1>4, <2>1, OffersGone
<1>6. /\ Offers[cid].kind = "transfer" /\ Offers[cid].from = from /\ Offers[cid].to = to
      /\ Offers[cid].amount = amount /\ Offers[cid].charge = charge
  BY <1>1, <1>5 DEF OfferOf
<1>7. lock \in PendingDoc
  BY <1>3 DEF PendingDoc, Addrs
<1>8. ASSUME NEW a \in Addrs
      PROVE  HeldBy(a)' = HeldBy(a) - (IF from = a THEN amount + charge ELSE 0)
                                    + (IF to = a /\ due > ts THEN amount ELSE 0)
  <2>1. HeldBy(a) \in Int
    BY <1>0, CustodyTypes DEF CustodyParts
  <2>2. CASE due > ts
    <3>1. HeldBy(a)' = HeldBy(a) - (IF from = a THEN amount + charge ELSE 0)
                                 + (IF lock.account = a THEN lock.amount + lock.fee ELSE 0)
      <4> HIDE DEF lock, due, to
      <4> QED BY <1>0, <1>1, <1>2, <1>7, <2>2, HeldMove
    <3> HIDE DEF lock, from, amount, charge, due, to
    <3> QED BY <1>3, <1>4, <2>1, <2>2, <3>1
  <2>3. CASE ~(due > ts)
    <3>1. HeldBy(a)' = HeldBy(a) - (IF from = a THEN amount + charge ELSE 0)
      <4> HIDE DEF lock, due, to
      <4> QED BY <1>0, <1>1, <2>3, HeldDel
    <3> HIDE DEF lock, from, amount, charge, due, to
    <3> QED BY <1>3, <2>1, <2>3, <3>1
  <2> QED BY <2>2, <2>3
<1> HIDE DEF from, to, amount, charge, due, lock
<1>9. FeesDue' = FeesDue + charge
  <2>1. FeesLeft' = FeesLeft + charge
    BY <1>0, <1>1, <1>2, <1>3, CreateFeeKeeps
  <2> QED BY <1>0, <1>1, <1>3, <2>1, FeesCharged
<1>10. UNCHANGED <<Sales, token>>
  BY <1>1, SalesSame
<1>11. ASSUME NEW a \in Addrs
       PROVE  /\ Wealth'[a] = Wealth[a] + ((IF a = from THEN -(amount + charge) ELSE 0)
                                           + (IF a = to THEN amount ELSE 0))
              /\ Wealth[a] \in Int
  <2> DEFINE gain == (IF a = from THEN -(amount + charge) ELSE 0) + (IF a = to THEN amount ELSE 0)
  <2>1. bal'[a] = bal[a] + (IF to = a /\ ~(due > ts) THEN amount ELSE 0)
    BY <1>0, <1>1, <1>3 DEF Credit
  <2>2. gain \in Int /\ HeldBy(a) \in Int /\ Wealth[a] \in Int /\ bal[a] \in Int
    BY <1>0, <1>3, CustodyTypes DEF CustodyParts
  <2>3. (bal'[a] - bal[a]) + (HeldBy(a)' - HeldBy(a)) = gain
    BY <1>3, <1>8, <2>1, <2>2
  <2> HIDE DEF gain
  <2>4. Wealth'[a] = Wealth[a] + gain
    BY <1>0, <1>1, <2>2, <2>3, WealthBy
  <2> QED BY <2>2, <2>4 DEF gain
<1>12. /\ Wealth'[from] = Wealth[from] - (amount + charge)
       /\ Wealth'[to] = Wealth[to] + amount
       /\ \A a \in Addrs : a # from /\ a # to => Wealth'[a] = Wealth[a]
  BY <1>3, <1>11
<1> QED BY <1>0, <1>3, <1>5, <1>6, <1>9, <1>10, <1>12, AsAcceptedTransfer

\* What an account gains in all three places.
LEMMA WealthGain ==
  ASSUME TypeOK, TypeOK', NEW a \in Addrs, NEW gain \in Int,
         (bal'[a] - bal[a]) + (HeldBy(a)' - HeldBy(a)) + (EarnedBy(a)' - EarnedBy(a)) = gain
  PROVE  Wealth'[a] = Wealth[a] + gain /\ Wealth[a] \in Int
<1>1. /\ Wealth[a] = bal[a] + HeldBy(a) + EarnedBy(a)
      /\ HeldBy(a) \in Int /\ EarnedBy(a) \in Int /\ bal[a] \in Int
  BY CustodyTypes DEF CustodyParts, TypeOK
<1>2. /\ Wealth'[a] = bal'[a] + HeldBy(a)' + EarnedBy(a)'
      /\ HeldBy(a)' \in Int /\ EarnedBy(a)' \in Int /\ bal'[a] \in Int
  BY CustodyTypesNext DEF CustodyParts, TypeOK
<1> QED BY <1>1, <1>2

\* The new pay of a step, when it is a payment, and when it is a refund.
LEMMA NewPayment ==
  ASSUME TypeOK, KnownIds, PayFrame, TxId \in DOMAIN pay', pay'[TxId].parent = 0
  PROVE  \E doc \in PayDoc : pay'[TxId] = doc /\ PutPayOf(doc, 0, 0) /\ IsPayment(doc)
<1>1. ~(UNCHANGED pay)
  BY NewId
<1>2. ASSUME NEW doc \in PayDoc, NEW p \in DOMAIN pay, NEW back,
             PutPayOf(doc, p, back), IsRefund(doc, p, back)
      PROVE  FALSE
  <2>1. p # 0
    BY PayType DEF TxIds
  <2> QED BY <1>2, <2>1 DEF PutPayOf, IsRefund
<1>3. \E doc \in PayDoc : PutPayOf(doc, 0, 0) /\ IsPayment(doc)
  BY <1>1, <1>2 DEF PayFrame
<1> QED BY <1>3 DEF PutPayOf

LEMMA NewRefund ==
  ASSUME TypeOK, KnownIds, PayFrame, TxId \in DOMAIN pay', NEW p, pay'[TxId].parent = p, p # 0
  PROVE  /\ p \in DOMAIN pay
         /\ \E doc \in PayDoc, back \in Nat \ {0} :
              /\ pay'[TxId] = doc /\ PutPayOf(doc, p, back) /\ IsRefund(doc, p, back)
              /\ pay[p].totalRefund + back <= pay[p].amount
<1>1. ~(UNCHANGED pay)
  BY NewId
<1>2. ~(\E doc \in PayDoc : PutPayOf(doc, 0, 0) /\ IsPayment(doc))
  BY DEF PutPayOf, IsPayment
<1>3. PICK doc \in PayDoc, q \in DOMAIN pay, back \in Nat \ {0} :
        /\ PutPayOf(doc, q, back) /\ IsRefund(doc, q, back)
        /\ pay[q].totalRefund + back <= pay[q].amount
  BY <1>1, <1>2 DEF PayFrame
<1>4. pay'[TxId] = doc /\ q = p
  BY <1>3 DEF PutPayOf, IsRefund
<1> QED BY <1>3, <1>4

\* A payment sells, whether it takes the price from the balance of the customer or
\* from what was set aside.
LEMMA PaymentSells ==
  ASSUME TypeOK, TypeOK', KnownIds, PaysSound, TxId \in TxIds, NEW doc \in PayDoc,
         PutPayOf(doc, 0, 0), IsPayment(doc), UNCHANGED <<collected, fee>>,
         TxId \notin collected.pay,
         \A a \in Addrs : (bal'[a] - bal[a]) + (HeldBy(a)' - HeldBy(a)) =
                            IF a = doc.from THEN -doc.amount ELSE 0
  PROVE  /\ Sold(TxId, doc.from, doc.to, doc.amount, doc.fee)
         /\ doc.from \in Addrs /\ doc.to \in Addrs /\ doc.from # doc.to
         /\ doc.amount \in Nat \ {0} /\ doc.fee \in Nat
<1> DEFINE from   == doc.from
           to     == doc.to
           price  == doc.amount
           charge == doc.fee
<1>1. /\ from \in Addrs /\ to \in Addrs /\ from # to
      /\ price \in Nat \ {0} /\ charge \in Nat
  BY DEF IsPayment, PayDoc
<1>2. /\ \A a \in Addrs : EarnedBy(a)' = EarnedBy(a) + (IF to = a THEN price - charge ELSE 0)
      /\ ChargedSum' = ChargedSum + charge
  BY PayEarned
<1>3. /\ TxId \notin DOMAIN Sales
      /\ Sales' = Wallet!With(Sales, TxId,
                    [customer |-> from, merchant |-> to, left |-> price, charge |-> charge])
  BY SalesPut
<1>4. \A a \in Addrs : (bal'[a] - bal[a]) + (HeldBy(a)' - HeldBy(a)) =
                         IF a = from THEN -price ELSE 0
  OBVIOUS
<1> HIDE DEF from, to, price, charge
<1>5. FeesDue' = FeesDue + charge
  <2>1. /\ FeesDue = FeesLeft + ChargedSum /\ FeesLeft \in Int /\ ChargedSum \in Int
    BY CustodyTypes DEF CustodyParts
  <2>2. FeesDue' = FeesLeft' + ChargedSum' /\ FeesLeft' = FeesLeft
    BY CustodyTypesNext, FeesSame DEF CustodyParts
  <2> QED BY <1>1, <1>2, <2>1, <2>2
<1>6. ASSUME NEW a \in Addrs
      PROVE  /\ Wealth'[a] = Wealth[a] + ((IF a = from THEN -price ELSE 0)
                                          + (IF a = to THEN price - charge ELSE 0))
             /\ Wealth[a] \in Int
  <2> DEFINE gain == (IF a = from THEN -price ELSE 0) + (IF a = to THEN price - charge ELSE 0)
  <2>1. gain \in Int /\ EarnedBy(a) \in Int
    BY <1>1, CustodyTypes DEF CustodyParts
  <2>2. (bal'[a] - bal[a]) + (HeldBy(a)' - HeldBy(a)) + (EarnedBy(a)' - EarnedBy(a)) = gain
    BY <1>1, <1>2, <1>4, <2>1
  <2> HIDE DEF gain
  <2>3. Wealth'[a] = Wealth[a] + gain /\ Wealth[a] \in Int
    BY <2>1, <2>2, WealthGain
  <2> QED BY <2>3 DEF gain
<1>7. /\ Wealth'[from] = Wealth[from] - price /\ Wealth'[to] = Wealth[to] + (price - charge)
      /\ \A a \in Addrs : a # from /\ a # to => Wealth'[a] = Wealth[a]
  BY <1>1, <1>6
<1>8. Sold(TxId, from, to, price, charge)
  BY <1>3, <1>5, <1>7 DEF Sold
<1> QED BY <1>1, <1>8 DEF from, to, price, charge

\* pay, signed by its invoker alone.
LEMMA PayNowCustody ==
  ASSUME Sound, TypeOK', PayFrame, NEW kid, NEW from \in Addrs, NEW to \in Addrs,
         NEW amount \in Nat, NEW order, NEW memo, NEW ts,
         PayNow(kid, from, to, amount, order, memo, ts)
  PROVE  /\ Wallet!Sell(kid, TxId, from, to, amount, CalcFee(to, "pay", amount))
         /\ Wallet!Next
<1>0. /\ TypeOK /\ KnownIds /\ EscrowHasOpenContract /\ PaysSound /\ IInv
      /\ bal \in [Addrs -> Int]
  BY SoundParts DEF Sound, TypeOK
<1>1. TxId \in TxIds /\ TxId \notin collected.pay
  BY <1>0, CommitFacts DEF PayNow
<1>2. /\ bal' = Credit(bal, from, -amount)
      /\ UNCHANGED <<token, pend, con, fee, collected>>
      /\ TxId \in DOMAIN pay' /\ pay'[TxId].parent = 0 /\ pay'[TxId].from = from
      /\ pay'[TxId].to = to /\ pay'[TxId].amount = amount
      /\ pay'[TxId].fee = CalcFee(to, "pay", amount)
      /\ MayAct(kid, from) /\ Signers(from, {kid}) = {kid}
  BY DEF PayNow, PutPay, PutDoc, MayPay
<1>3. PICK doc \in PayDoc : pay'[TxId] = doc /\ PutPayOf(doc, 0, 0) /\ IsPayment(doc)
  BY <1>0, <1>2, NewPayment
<1>4. ASSUME NEW a \in Addrs
      PROVE  (bal'[a] - bal[a]) + (HeldBy(a)' - HeldBy(a)) =
               IF a = doc.from THEN -doc.amount ELSE 0
  <2>1. HeldBy(a)' = HeldBy(a) /\ HeldBy(a) \in Int
    BY <1>0, <1>2, HeldSame, CustodyTypes DEF CustodyParts
  <2>2. bal'[a] = bal[a] + IF a = from THEN -amount ELSE 0
    BY <1>0, <1>2 DEF Credit
  <2> QED BY <1>0, <1>2, <1>3, <2>1, <2>2
<1> DEFINE charge == CalcFee(to, "pay", amount)
<1>5. doc.from = from /\ doc.to = to /\ doc.amount = amount /\ doc.fee = charge
  BY <1>2, <1>3
<1> HIDE DEF charge
<1>6. /\ Sold(TxId, doc.from, doc.to, doc.amount, doc.fee)
      /\ doc.from # doc.to /\ doc.amount \in Nat \ {0} /\ doc.fee \in Nat
  BY <1>0, <1>1, <1>2, <1>3, <1>4, PaymentSells
<1>7. /\ Sold(TxId, from, to, amount, charge)
      /\ from # to /\ amount \in Nat \ {0} /\ charge \in Nat
  BY <1>5, <1>6
<1>8. UNCHANGED <<token, Offers>>
  BY <1>0, <1>2, OffersSame DEF ConStep
<1>9. MayAct(kid, from) /\ Wallet!Alone(kid, from)
  BY <1>2, SoleSpender
<1>10. Wallet!Sell(kid, TxId, from, to, amount, charge) /\ Wallet!Next
  BY <1>0, <1>7, <1>8, <1>9, AsSell
<1> QED BY <1>10 DEF charge

\* The callback of a payment: what was set aside is all that it costs.
LEMMA ExecutePayCustody ==
  ASSUME Sound, TypeOK', PayFrame, NEW cid, NEW ts, ExecutePay(cid, ts)
  PROVE  /\ Wallet!Accept(cid, TxId, CalcFee(con[cid].to, "pay", con[cid].amount))
         /\ Wallet!Next
<1> DEFINE from   == pend[cid].account
           amount == pend[cid].amount
           charge == CalcFee(con[cid].to, "pay", con[cid].amount)
<1>0. /\ TypeOK /\ KnownIds /\ EscrowHasOpenContract /\ PaysSound /\ IInv /\ PaysHoldNoFee
      /\ bal \in [Addrs -> Int]
  BY SoundParts DEF Sound, TypeOK
<1>1. TxId \in TxIds /\ TxId \notin collected.pay
  BY <1>0, CommitFacts DEF ExecutePay
<1>2. /\ cid \in DOMAIN pend /\ pend[cid].type = "contract"
      /\ cid \in DOMAIN con /\ con[cid].kind = "pay" /\ ConStep
      /\ pend' = DelDoc(pend, cid)
      /\ UNCHANGED <<token, bal, fee, collected>>
      /\ TxId \in DOMAIN pay' /\ pay'[TxId].parent = 0 /\ pay'[TxId].from = from
      /\ pay'[TxId].to = con[cid].to /\ pay'[TxId].amount = amount
      /\ pay'[TxId].fee = CalcFee(con[cid].to, "pay", amount)
  BY DEF ExecutePay, PayPendingBalance, PutPay, PutDoc, OwnsPending, ConStep
<1>3. PICK doc \in PayDoc : pay'[TxId] = doc /\ PutPayOf(doc, 0, 0) /\ IsPayment(doc)
  BY <1>0, <1>2, NewPayment
<1>4. pend[cid].fee = 0 /\ amount \in Int
  BY <1>0, <1>2, PendingType DEF PaysHoldNoFee
<1>5. ASSUME NEW a \in Addrs
      PROVE  (bal'[a] - bal[a]) + (HeldBy(a)' - HeldBy(a)) =
               IF a = doc.from THEN -doc.amount ELSE 0
  <2>1. HeldBy(a)' = HeldBy(a) - (IF from = a THEN amount + pend[cid].fee ELSE 0)
    BY <1>0, <1>2, HeldDel
  <2> HIDE DEF from, amount
  <2>2. HeldBy(a) \in Int /\ bal[a] \in Int /\ bal'[a] = bal[a]
    BY <1>0, <1>2, CustodyTypes DEF CustodyParts
  <2> QED BY <1>2, <1>3, <1>4, <2>1, <2>2
<1>6. doc.fee = charge
  <2>1. con[cid].amount = amount
    BY <1>0, <1>2 DEF EscrowHasOpenContract
  <2> QED BY <1>2, <1>3, <2>1
<1> HIDE DEF charge
<1>7. /\ Sold(TxId, doc.from, doc.to, doc.amount, doc.fee)
      /\ doc.from \in Addrs /\ doc.to \in Addrs /\ doc.from # doc.to
      /\ doc.amount \in Nat \ {0} /\ doc.fee \in Nat
  <2> HIDE DEF from, amount
  <2> QED BY <1>0, <1>1, <1>2, <1>3, <1>5, PaymentSells
<1>8. /\ cid \in DOMAIN Offers /\ Offers[cid] = OfferOf(cid)
      /\ Offers' = Wallet!Without(Offers, cid)
  BY <1>0, <1>2, OffersGone
<1>9. /\ Offers[cid].kind = "pay" /\ Offers[cid].from = doc.from /\ Offers[cid].to = doc.to
      /\ Offers[cid].amount = doc.amount
  BY <1>2, <1>3, <1>8 DEF OfferOf
<1>10. /\ Sold(TxId, Offers[cid].from, Offers[cid].to, Offers[cid].amount, doc.fee)
       /\ Offers[cid].from \in Addrs /\ Offers[cid].to \in Addrs
       /\ Offers[cid].from # Offers[cid].to /\ Offers[cid].amount \in Nat \ {0}
  BY <1>7, <1>9
<1>11. Wallet!Accept(cid, TxId, doc.fee) /\ Wallet!Next
  BY <1>0, <1>2, <1>7, <1>8, <1>9, <1>10, AsAcceptedSale
<1> QED BY <1>6, <1>11 DEF charge

\* payRefund: the merchant owns less at once, though nothing is taken from the
\* balance before the next prune.
LEMMA PayRefundCustody ==
  ASSUME Sound, TypeOK', RefundBounded', PayFrame, NEW kid, NEW p,
         NEW amount \in Nat, NEW ts, PayRefund(kid, p, amount, ts)
  PROVE  Wallet!Refund(kid, p, amount, RefundFee(pay[p], amount)) /\ Wallet!Next
<1>0. /\ TypeOK /\ KnownIds /\ EscrowHasOpenContract /\ PaysSound /\ IInv
      /\ bal \in [Addrs -> Int]
  BY SoundParts DEF Sound, TypeOK
<1>1. TxId \in TxIds /\ TxId \notin DOMAIN pay /\ TxId \notin collected.pay
  BY <1>0, CommitFacts DEF PayRefund
<1>2. /\ p \in DOMAIN pay /\ amount > 0 /\ MayAct(kid, pay[p].to)
      /\ bal' = Credit(bal, pay[p].from, amount)
      /\ UNCHANGED <<token, pend, con, fee, collected>>
  BY DEF PayRefund, MayRefund
<1>3. TxId \in DOMAIN pay' /\ pay'[TxId].parent = p /\ pay'[TxId].amount = -amount
  <2> DEFINE doc == [to |-> pay[p].to, from |-> pay[p].from, amount |-> -amount,
                     fee |-> -RefundFee(pay[p], amount), totalRefund |-> 0, parent |-> p,
                     order |-> "", memo |-> "", created |-> ts]
             refund == PutDoc(pay, TxId, doc)
  <2>1. pay' = [refund EXCEPT ![p].totalRefund = @ + amount]
    BY DEF PayRefund, PutPay
  <2>2. DOMAIN refund = DOMAIN pay \cup {TxId} /\ refund[TxId] = doc /\ p # TxId
    BY <1>1, <1>2 DEF PutDoc
  <2>3. doc.parent = p /\ doc.amount = -amount
    OBVIOUS
  <2> HIDE DEF refund, doc
  <2> QED BY <2>1, <2>2, <2>3
<1>4. p # 0
  BY <1>0, <1>2, PayType DEF TxIds
<1>5. PICK doc \in PayDoc, back \in Nat \ {0} :
        /\ pay'[TxId] = doc /\ PutPayOf(doc, p, back) /\ IsRefund(doc, p, back)
        /\ pay[p].totalRefund + back <= pay[p].amount
  BY <1>0, <1>3, <1>4, NewRefund
<1>6. /\ back = amount /\ doc.amount = -amount /\ doc.parent = p
      /\ doc.to = pay[p].to /\ doc.from = pay[p].from
  BY <1>3, <1>5 DEF IsRefund
<1> DEFINE due      == RefundFee(pay[p], amount)
           merchant == pay[p].to
           customer == pay[p].from
<1>7. /\ merchant \in Addrs /\ customer \in Addrs /\ merchant # customer
      /\ pay[p].parent = 0 /\ pay[p].amount \in Nat \ {0} /\ pay[p].fee \in Nat
      /\ pay[p].totalRefund \in Nat /\ due \in Nat /\ doc.fee = -due
  <2>1. /\ merchant \in Addrs /\ customer \in Addrs /\ merchant # customer
        /\ pay[p].amount \in Int /\ pay[p].fee \in Int /\ pay[p].totalRefund \in Nat
        /\ pay[p].parent = 0 => pay[p].amount > 0 /\ pay[p].fee >= 0
        /\ pay[p].parent # 0 => pay[p].amount < 0
    BY <1>0, <1>2, PayType DEF PaysSound
  <2>2. pay[p].parent = 0 /\ pay[p].amount \in Nat \ {0} /\ pay[p].fee \in Nat
    BY <1>5, <2>1
  <2>3. due \in Nat
    BY <2>2, RefundFeeBound
  <2> QED BY <1>5, <1>6, <2>1, <2>2, <2>3 DEF IsRefund
<1> HIDE DEF due
<1>8. /\ p \in DOMAIN Sales
      /\ Sales' = [Sales EXCEPT ![p].left = @ - amount, ![p].charge = @ + doc.fee]
      /\ Sales'[p] = Sale(p)' /\ Sales[p] = Sale(p)
  <2>1. /\ p \in DOMAIN Sales /\ Sales'[p] = Sale(p)'
        /\ Sales' = [Sales EXCEPT ![p].left = @ - back, ![p].charge = @ + doc.fee]
    BY <1>0, <1>1, <1>2, <1>5, <1>7, SalesRefund
  <2> QED BY <1>6, <2>1, SalesOffers DEF SalesAndOffers
<1>9. /\ due <= pay[p].fee + PayFeeSum(Refunds(p)) /\ PayFeeSum(Refunds(p)) \in Int
  <2>1. /\ PayFeeSum(Refunds(p))' = PayFeeSum(Refunds(p)) + doc.fee
        /\ PayFeeSum(Refunds(p)) \in Int /\ Refunds(p)' # {}
    BY <1>0, <1>1, <1>5, <1>6, RefundSums
  <2>2. -PayFeeSum(Refunds(p))' <= pay'[p].fee
    <3>1. p \in DOMAIN pay'
      BY <1>2, <1>5 DEF PutPayOf
    <3> QED BY <2>1, <3>1 DEF RefundBounded
  <2>3. pay'[p].fee = pay[p].fee
    BY <1>0, <1>2, <1>5, OldPays
  <2> QED BY <1>7, <2>1, <2>2, <2>3
<1>10. /\ Sales[p].left = pay[p].amount - pay[p].totalRefund /\ Sales[p].left \in Int
       /\ Sales[p].charge = pay[p].fee + PayFeeSum(Refunds(p)) /\ Sales[p].charge \in Int
       /\ Sales[p].merchant = merchant /\ Sales[p].customer = customer
       /\ amount \in 1..Sales[p].left /\ due \in 0..Sales[p].charge
  BY <1>2, <1>5, <1>6, <1>7, <1>8, <1>9 DEF Sale
<1>11. amount = Sales[p].left - Sales'[p].left
  <2>1. Sales'[p].left = Sales[p].left - amount
    <3>1. Sales'[p].left = pay'[p].amount - pay'[p].totalRefund
      BY <1>8 DEF Sale
    <3>2. pay'[p].amount = pay[p].amount /\ pay'[p].totalRefund = pay[p].totalRefund + back
      BY <1>0, <1>2, <1>5, OldPays
    <3> QED BY <1>6, <1>7, <1>10, <3>1, <3>2
  <2> QED BY <1>10, <2>1
<1>12. Sales' = [Sales EXCEPT ![p].left = @ - amount, ![p].charge = @ - due]
  <2> DEFINE charge == Sales[p].charge
  <2>1. charge + doc.fee = charge - due
    BY <1>7, <1>10
  <2> HIDE DEF charge
  <2>2. Sales' = [Sales EXCEPT ![p].left = @ - amount, ![p].charge = charge + doc.fee]
    BY <1>8 DEF charge
  <2>3. Sales' = [Sales EXCEPT ![p].left = @ - amount, ![p].charge = charge - due]
    BY <2>1, <2>2
  <2> QED BY <2>3 DEF charge
<1>13. /\ \A a \in Addrs : EarnedBy(a)' = EarnedBy(a)
                             + (IF merchant = a THEN (-amount) - (-due) ELSE 0)
       /\ ChargedSum' = ChargedSum + (-due)
  <2>1. /\ \A a \in Addrs : EarnedBy(a)' = EarnedBy(a)
                              + (IF doc.to = a THEN doc.amount - doc.fee ELSE 0)
        /\ ChargedSum' = ChargedSum + doc.fee
    BY <1>0, <1>1, <1>2, <1>5, PayEarned
  <2> QED BY <1>6, <1>7, <2>1
<1> HIDE DEF merchant, customer
<1>14. FeesDue' = FeesDue - due
  <2>1. /\ FeesDue = FeesLeft + ChargedSum /\ FeesLeft \in Int /\ ChargedSum \in Int
    BY <1>0, CustodyTypes DEF CustodyParts
  <2>2. FeesDue' = FeesLeft' + ChargedSum' /\ FeesLeft' = FeesLeft
    BY <1>2, CustodyTypesNext, FeesSame DEF CustodyParts
  <2> QED BY <1>7, <1>13, <2>1, <2>2
<1>15. ASSUME NEW a \in Addrs
       PROVE  /\ Wealth'[a] = Wealth[a] + ((IF a = customer THEN amount ELSE 0)
                                           + (IF a = merchant THEN due - amount ELSE 0))
              /\ Wealth[a] \in Int
  <2> DEFINE gain == (IF a = customer THEN amount ELSE 0)
                     + (IF a = merchant THEN due - amount ELSE 0)
  <2>1. /\ gain \in Int /\ EarnedBy(a) \in Int /\ HeldBy(a)' = HeldBy(a) /\ HeldBy(a) \in Int
        /\ bal[a] \in Int
    BY <1>0, <1>2, <1>7, HeldSame, CustodyTypes DEF CustodyParts
  <2>2. bal'[a] = bal[a] + IF a = customer THEN amount ELSE 0
    BY <1>0, <1>2 DEF Credit, customer
  <2>3. (bal'[a] - bal[a]) + (HeldBy(a)' - HeldBy(a)) + (EarnedBy(a)' - EarnedBy(a)) = gain
    BY <1>7, <1>13, <2>1, <2>2
  <2> HIDE DEF gain
  <2>4. Wealth'[a] = Wealth[a] + gain /\ Wealth[a] \in Int
    BY <1>0, <2>1, <2>3, WealthGain
  <2> QED BY <2>4 DEF gain
<1>16. /\ Wealth'[merchant] = Wealth[merchant] - (amount - due)
       /\ Wealth'[customer] = Wealth[customer] + amount
       /\ \A a \in Addrs : a # merchant /\ a # customer => Wealth'[a] = Wealth[a]
  BY <1>7, <1>15
<1>17. UNCHANGED <<token, Offers>>
  BY <1>0, <1>2, OffersSame DEF ConStep
<1> QED
  <2>1. Refunded(p, merchant, customer, amount, due)
    BY <1>8, <1>10, <1>11, <1>12, <1>14, <1>16 DEF Refunded
  <2>2. MayAct(kid, merchant) /\ merchant \in Addrs /\ customer \in Addrs /\ merchant # customer
    BY <1>2, <1>7 DEF merchant
  <2>3. TypeOK /\ TypeOK' /\ amount \in Int /\ due \in Int
    BY <1>0, <1>7
  <2>4. Wallet!Refund(kid, p, amount, due) /\ Wallet!Next
    BY ONLY <1>17, <2>1, <2>2, <2>3, AsRefund
  <2> QED BY <2>4 DEF due


\* The commit of a prune of pays: what was earned becomes balance, and what was
\* charged a fee document.
LEMMA PayPruneCustody ==
  ASSUME Sound, TypeOK', NEW f, PayPruneCommit(f)
  PROVE  Wallet!Nothing
<1> DEFINE m   == f.account
           ids == f.ids
           sum == f.sum
           due == f.fee
<1>0. /\ TypeOK /\ KnownIds /\ EscrowHasOpenContract /\ IInv /\ FlightsCurrent /\ CollectedBelow
      /\ bal \in [Addrs -> Int]
  BY SoundParts DEF Sound, TypeOK
<1>1. /\ f \in flight /\ f.kind = "pay"
      /\ bal' = [bal EXCEPT ![m] = f.base + (sum - due)]
      /\ collected'.pay = collected.pay \cup ids /\ collected'.fee = collected.fee
      /\ CreateFee(m, due, f.ts)
      /\ UNCHANGED <<token, pend, con, pay>>
  BY <1>0 DEF PayPruneCommit, TypeOK
<1>2. /\ Current(f) /\ f.base = bal[m] /\ sum = PaySum(ids) /\ due = PayFeeSum(ids)
      /\ ids \subseteq PayRange(m, payCursor[m], f.end)
  BY <1>0, <1>1 DEF FlightsCurrent, Current
<1>3. m \in Addrs /\ sum \in Int /\ due \in Int
  <2>1. f \in Flight
    BY <1>0, <1>1 DEF TypeOK
  <2> QED BY <2>1 DEF Flight
<1>4. /\ TxId \in TxIds /\ TxId \notin DOMAIN fee /\ TxId \notin collected.fee /\ f.ts \in Stamps
  BY <1>0, CommitFacts DEF PayPruneCommit
<1>5. \A i \in ids : i \in DOMAIN pay /\ i \notin collected.pay /\ pay[i].to = m
  <2>1. \A i \in f.ids : i \in DOMAIN pay /\ i \notin collected.pay
    BY <1>0, <1>1, <1>2, PayPageFresh
  <2> QED BY <1>2, <2>1 DEF PayRange
<1> HIDE DEF m, sum, due, ids
<1>6. /\ \A a \in Addrs : EarnedBy(a)' = EarnedBy(a) - (IF a = m THEN sum - due ELSE 0)
      /\ ChargedSum' = ChargedSum - due
  <2>1. /\ \A a \in Addrs : EarnedBy(a)' =
                     EarnedBy(a) - (IF a = m THEN PaySum(ids) - PayFeeSum(ids) ELSE 0)
        /\ ChargedSum' = ChargedSum - PayFeeSum(ids)
    BY <1>0, <1>1, <1>3, <1>5, PruneEarned
  <2> QED BY <1>2, <2>1
<1>7. FeesDue' = FeesDue
  <2>1. FeesLeft' = FeesLeft + due
    BY <1>0, <1>1, <1>3, <1>4, CreateFeeKeeps
  <2>2. /\ FeesDue = FeesLeft + ChargedSum /\ FeesLeft \in Int /\ ChargedSum \in Int
    BY <1>0, CustodyTypes DEF CustodyParts
  <2>3. FeesDue' = FeesLeft' + ChargedSum'
    BY CustodyTypesNext DEF CustodyParts
  <2> QED BY <1>3, <1>6, <2>1, <2>2, <2>3
<1>8. ASSUME NEW a \in Addrs PROVE Wealth'[a] = Wealth[a]
  <2>1. /\ EarnedBy(a) \in Int /\ HeldBy(a)' = HeldBy(a) /\ HeldBy(a) \in Int /\ bal[a] \in Int
    BY <1>0, <1>1, HeldSame, CustodyTypes DEF CustodyParts
  <2>2. bal'[a] = bal[a] + IF a = m THEN sum - due ELSE 0
    BY <1>0, <1>1, <1>2, <1>3
  <2>3. (bal'[a] - bal[a]) + (HeldBy(a)' - HeldBy(a)) + (EarnedBy(a)' - EarnedBy(a)) = 0
    BY <1>3, <1>6, <2>1, <2>2
  <2>4. Wealth'[a] = Wealth[a] + 0 /\ Wealth[a] \in Int
    BY <1>0, <2>3, WealthGain
  <2> QED BY <2>4
<1>9. UNCHANGED Offers
  BY <1>0, <1>1, OffersSame DEF ConStep
<1> QED BY <1>0, <1>1, <1>7, <1>8, <1>9, WealthSame, SalesSame DEF Wallet!Nothing, Wallet!state

\* The commit of a prune of fees: the target of the policy gets them.  A prune that
\* was endorsed for the target of an older policy does not commit.
LEMMA FeePruneCustody ==
  ASSUME Sound, TypeOK', NEW f, FeePruneCommit(f)
  PROVE  Wallet!Collect(f.sum) /\ Wallet!Next
<1> DEFINE target == f.account
           amount == f.sum
<1>0. /\ TypeOK /\ KnownIds /\ EscrowHasOpenContract /\ IInv /\ FlightsCurrent /\ CollectedBelow
      /\ FlightsWatched /\ bal \in [Addrs -> Int]
  BY SoundParts DEF Sound, TypeOK
<1>1. /\ f \in flight /\ f.kind = "fee"
      /\ bal' = [bal EXCEPT ![target] = f.base + amount]
      /\ collected'.pay = collected.pay /\ collected'.fee = collected.fee \cup f.ids
      /\ UNCHANGED <<token, pend, con, pay, fee>>
  BY <1>0 DEF FeePruneCommit, TypeOK
<1>2. /\ Current(f) /\ f.base = bal[target] /\ amount = FeeSum(f.ids)
      /\ target = token.policy.target
  BY <1>0, <1>1 DEF FlightsCurrent, Current, FlightsWatched
<1>3. target \in Addrs /\ amount \in Int
  <2>1. f \in Flight
    BY <1>0, <1>1 DEF TypeOK
  <2> QED BY <2>1 DEF Flight
<1> HIDE DEF target, amount
<1>4. ChargedSum' = ChargedSum /\ \A a \in Addrs : EarnedBy(a)' = EarnedBy(a)
  BY <1>1 DEF ChargedSum, Charged, EarnedBy, Earned, Uncollected
<1>5. FeesDue' = FeesDue - amount
  <2>1. \A i \in f.ids : i \in DOMAIN fee /\ i \notin collected.fee
    BY <1>0, <1>1, <1>2, FeePageFresh
  <2>2. FeesLeft = FeesLeft' + amount
    BY <1>0, <1>1, <1>2, <2>1, FeesMove DEF FeesLeft
  <2>3. FeesDue = FeesLeft + ChargedSum /\ ChargedSum \in Int
    BY <1>0, CustodyTypes DEF CustodyParts
  <2>4. FeesDue' = FeesLeft' + ChargedSum' /\ FeesLeft' \in Int
    BY CustodyTypesNext DEF CustodyParts
  <2> QED BY <1>3, <1>4, <2>2, <2>3, <2>4
<1>6. ASSUME NEW a \in Addrs
      PROVE  Wealth'[a] = Wealth[a] + (IF a = target THEN amount ELSE 0) /\ Wealth[a] \in Int
  <2> DEFINE gain == IF a = target THEN amount ELSE 0
  <2>1. /\ HeldBy(a)' = HeldBy(a) /\ HeldBy(a) \in Int /\ bal[a] \in Int /\ gain \in Int
        /\ EarnedBy(a) \in Int
    BY <1>0, <1>1, <1>3, HeldSame, CustodyTypes DEF CustodyParts
  <2>2. (bal'[a] - bal[a]) + (HeldBy(a)' - HeldBy(a)) + (EarnedBy(a)' - EarnedBy(a)) = gain
    BY <1>0, <1>1, <1>2, <1>3, <1>4, <2>1
  <2> HIDE DEF gain
  <2>3. Wealth'[a] = Wealth[a] + gain /\ Wealth[a] \in Int
    BY <1>0, <2>1, <2>2, WealthGain
  <2> QED BY <2>3 DEF gain
<1>7. /\ Wealth'[target] = Wealth[target] + amount
      /\ \A a \in Addrs : a # target => Wealth'[a] = Wealth[a]
  BY <1>3, <1>6
<1>8. UNCHANGED <<Sales, token, Offers>>
  BY <1>0, <1>1, SalesSame, OffersSame DEF ConStep
<1>9. Wallet!Collect(amount) /\ Wallet!Next
  BY <1>0, <1>2, <1>3, <1>5, <1>7, <1>8, AsCollect
<1> QED BY <1>9 DEF amount

\* Steps that move no tokens: endorsements, suspensions, contracts that are opened or
\* cancelled without a deposit, what the network does.
LEMMA NothingMoves ==
  ASSUME Sound, UNCHANGED <<bal, pend, pay, fee, collected, token>>, ConStep
  PROVE  Wallet!Nothing
<1>0. TypeOK /\ KnownIds /\ EscrowHasOpenContract
  BY SoundParts
<1>1. UNCHANGED <<Wealth, FeesDue>>
  BY DEF Wealth, Held, Earned, Uncollected, FeesDue, Outstanding, Charged
<1>2. UNCHANGED Sales
  BY SalesSame
<1>3. UNCHANGED Offers
  BY <1>0, OffersSame
<1> QED BY <1>1, <1>2, <1>3 DEF Wallet!Nothing, Wallet!state

\* Everything about accounts: an account that is created with nothing replaces an
\* empty balance.
LEMMA AccountCustody ==
  ASSUME Sound, AccountNext
  PROVE  Wallet!Nothing
<1>0. TypeOK /\ AbsentEmpty
  BY SoundParts
<1>1. ASSUME NEW doc, NEW ts, AccountContract(doc, ts) PROVE Wallet!Nothing
  BY <1>1, NothingMoves DEF AccountContract, ConStep
<1>2. ASSUME NEW kid \in Kids, NEW ts, AccountCreate(kid, ts) PROVE Wallet!Nothing
  <2>1. kid \in Addrs
    BY SizeAssumption DEF Kids, Addrs
  <2>2. UNCHANGED <<bal, payCursor>>
    BY <1>0, <1>2, <2>1, CreateEmpty DEF AccountCreate
  <2> QED BY <1>2, <2>2, NothingMoves DEF AccountCreate, ConStep
<1>3. ASSUME NEW kid, NEW suspended, NEW ts, SetSuspended(kid, suspended, ts)
      PROVE  Wallet!Nothing
  BY <1>3, NothingMoves DEF SetSuspended, ConStep
<1>4. ASSUME NEW cid, NEW addr \in Joint, NEW ts, ExecuteAccountCreate(cid, addr, ts)
      PROVE  Wallet!Nothing
  <2>1. UNCHANGED <<bal, payCursor>>
    BY <1>0, <1>4, CreateEmpty DEF ExecuteAccountCreate, Joint
  <2>2. ConStep /\ UNCHANGED <<token, pend, pay, fee, collected>>
    BY <1>4 DEF ExecuteAccountCreate, ConStep
  <2> QED BY <2>1, <2>2, NothingMoves
<1>5. ASSUME NEW cid, NEW ts,
             \/ ExecuteAccountHolderAdd(cid, ts) \/ ExecuteAccountHolderRemove(cid, ts)
             \/ CancelAccount(cid, ts)
      PROVE  Wallet!Nothing
  <2>1. ConStep /\ UNCHANGED <<token, bal, pend, pay, fee, collected>>
    BY <1>5 DEF ExecuteAccountHolderAdd, ExecuteAccountHolderRemove, CancelAccount, ConStep
  <2> QED BY <2>1, NothingMoves
<1>6. ASSUME NEW kid, NEW addr, NEW ts, AccountHolderLeave(kid, addr, ts)
      PROVE  Wallet!Nothing
  BY <1>6, NothingMoves DEF AccountHolderLeave, ConStep
<1>7. ASSUME NEW kid, NEW addr, NEW other, NEW addrs, NEW ts,
             \/ AccountHolderAdd(kid, addr, other, ts) \/ AccountHolderRemove(kid, addr, other, ts)
             \/ AccountCreateJoint(kid, addrs, ts)
      PROVE  Wallet!Nothing
  BY <1>1, <1>7 DEF AccountHolderAdd, AccountHolderRemove, AccountCreateJoint
<1>8. PersonalNext => Wallet!Nothing
  BY <1>2, <1>3 DEF PersonalNext, AccountSuspend, AccountUnsuspend
<1>9. JointNext => Wallet!Nothing
  BY <1>4, <1>5, <1>6, <1>7 DEF JointNext
<1> QED BY <1>8, <1>9 DEF AccountNext

\* Tokens appear in the genesis account, or vanish from it, with the supply.
LEMMA SupplyCustody ==
  ASSUME Sound, TypeOK', NEW diff \in Int,
         bal' = Credit(bal, Genesis, diff), token'.supply = token.supply + diff,
         UNCHANGED <<pend, pay, fee, collected>>, ConStep
  PROVE  Wallet!Issue(diff)
<1>0. TypeOK /\ KnownIds /\ EscrowHasOpenContract /\ bal \in [Addrs -> Int] /\ Genesis \in Addrs
  BY SoundParts, DataAssumption DEF TypeOK
<1>1. ASSUME NEW a \in Addrs
      PROVE  Wealth'[a] = Wealth[a] + (IF a = Genesis THEN diff ELSE 0) /\ Wealth[a] \in Int
  <2> DEFINE gain == IF a = Genesis THEN diff ELSE 0
  <2>1. bal'[a] = bal[a] + (IF a = Genesis THEN diff ELSE 0)
    BY <1>0 DEF Credit
  <2>2. HeldBy(a)' = HeldBy(a) /\ HeldBy(a) \in Int /\ bal[a] \in Int /\ gain \in Int
    BY <1>0, HeldSame, CustodyTypes DEF CustodyParts
  <2>3. (bal'[a] - bal[a]) + (HeldBy(a)' - HeldBy(a)) = gain
    BY <2>1, <2>2
  <2> HIDE DEF gain
  <2>4. Wealth'[a] = Wealth[a] + gain /\ Wealth[a] \in Int
    BY <1>0, <2>2, <2>3, WealthBy, CustodyTypes DEF CustodyParts
  <2> QED BY <2>4 DEF gain
<1>2. /\ Wealth'[Genesis] = Wealth[Genesis] + diff
      /\ \A a \in Addrs : a # Genesis => Wealth'[a] = Wealth[a]
  BY <1>0, <1>1
<1>3. UNCHANGED <<FeesDue, Sales, Offers>>
  <2>1. FeesDue' = FeesDue
    BY <1>0, EarnedSame, FeesSame, CustodyTypes, CustodyTypesNext DEF CustodyParts
  <2> QED BY <1>0, <2>1, SalesSame, OffersSame
<1> QED BY <1>0, <1>2, <1>3, AsIssue

\* What a mint or a burn changes.
LEMMA SupplyIssues ==
  ASSUME Sound, TypeOK', NEW diff \in Int, NEW ts, Supply(diff, ts),
         UNCHANGED <<pend, pay, fee, collected>>, ConStep
  PROVE  /\ Wallet!Issue(diff) /\ token'.policy = token.policy
         /\ token'.supply = token.supply + diff /\ token.supply \in Int
<1>1. TypeOK /\ token \in TokenDoc
  BY SoundParts DEF TypeOK
<1>2. /\ bal' = Credit(bal, Genesis, diff) /\ token.supply \in Int
      /\ token'.supply = token.supply + diff /\ token'.policy = token.policy
  BY <1>1 DEF Supply, TokenDoc
<1> QED BY <1>2, SupplyCustody

\* A mint of an amount that is cut to what is left.
LEMMA MintCustody ==
  ASSUME Sound, TypeOK', NEW amount \in Nat, NEW ts, Mint(amount, ts),
         UNCHANGED <<pend, pay, fee, collected>>, ConStep
  PROVE  Wallet!Mint(amount) /\ Wallet!Next
<1> DEFINE left   == MaxSupply - token.supply
           minted == IF left < amount THEN left ELSE amount
<1>1. token.supply \in Int /\ MaxSupply \in Int /\ minted \in Int
  BY SoundParts, DataAssumption DEF TypeOK, TokenDoc
<1>2. token.supply < MaxSupply /\ Supply(minted, ts)
  BY DEF Mint
<1>3. minted <= left /\ left = MaxSupply - token.supply
  BY <1>1
<1> HIDE DEF minted
<1>4. /\ Wallet!Issue(minted) /\ token'.policy = token.policy
      /\ minted = token'.supply - token.supply
  <2>1. /\ Wallet!Issue(minted) /\ token'.policy = token.policy
        /\ token'.supply = token.supply + minted
    BY <1>1, <1>2, SupplyIssues
  <2> QED BY <1>1, <2>1
<1>5. Wallet!Mint(amount)
  BY <1>2, <1>4 DEF minted, Wallet!Mint
<1>6. Wallet!Mint(minted)
  <2>1. (IF MaxSupply - token.supply < minted THEN MaxSupply - token.supply ELSE minted) = minted
    BY <1>1, <1>3
  <2> QED BY <1>2, <1>4, <2>1 DEF Wallet!Mint
<1>7. Wallet!Mint(token'.supply - token.supply)
  BY <1>4, <1>6
<1> QED BY <1>5, <1>7 DEF Wallet!Next

\* A burn of an amount that is cut to what there is, which may be nothing.
LEMMA BurnCustody ==
  ASSUME Sound, TypeOK', NEW amount \in Nat, NEW ts, Burn(amount, ts),
         UNCHANGED <<pend, pay, fee, collected>>, ConStep
  PROVE  Wallet!Burn(amount) /\ Wallet!Next
<1>0. TypeOK /\ bal \in [Addrs -> Int] /\ Genesis \in Addrs /\ token.supply \in Int
  BY SoundParts, DataAssumption DEF TypeOK, TokenDoc
<1>1. \E burnt \in 0..amount : /\ Wallet!Issue(-burnt) /\ token'.policy = token.policy
                              /\ token'.supply = token.supply - burnt
  <2>1. CASE Burnable(amount) <= 0
    <3>1. UNCHANGED <<bal, token>>
      BY <2>1 DEF Burn
    <3>2. bal' = Credit(bal, Genesis, 0) /\ token'.supply = token.supply + 0
      BY <1>0, <3>1 DEF Credit
    <3>3. Wallet!Issue(0)
      BY <3>2, SupplyCustody
    <3>4. ASSUME NEW none \in Nat, none = 0
          PROVE  /\ none \in 0..amount /\ Wallet!Issue(-none)
                 /\ token'.supply = token.supply - none
      <4>1. -none \in Int /\ -none <= 0 /\ -none >= 0
        BY <3>4
      <4>2. \A n \in Int : n <= 0 /\ n >= 0 => n = 0
        OBVIOUS
      <4>3. -none = 0
        BY ONLY <4>1, <4>2
      <4>4. Wallet!Issue(-none)
        BY ONLY <3>3, <4>3
      <4> QED BY <1>0, <3>1, <3>4, <4>4
    <3>5. token'.policy = token.policy /\ \E none \in Nat : none = 0
      BY <3>1
    <3> QED BY <3>4, <3>5
  <2>2. CASE ~(Burnable(amount) <= 0)
    <3> DEFINE burnt == Burnable(amount)
               diff  == -burnt
    <3>1. burnt \in 0..amount /\ diff \in Int /\ burnt \in Int
      BY <1>0, <2>2 DEF Burnable
    <3>2. Supply(diff, ts)
      BY <2>2 DEF Burn
    <3> HIDE DEF burnt
    <3>3. /\ Wallet!Issue(diff) /\ token'.policy = token.policy
          /\ token'.supply = token.supply + diff
      <4> HIDE DEF diff
      <4> QED BY <3>1, <3>2, SupplyIssues
    <3>4. token'.supply = token.supply - burnt
      BY <1>0, <3>1, <3>3
    <3> QED BY <3>1, <3>3, <3>4
  <2> QED BY <2>1, <2>2
<1>2. PICK burnt \in 0..amount : /\ Wallet!Issue(-burnt) /\ token'.policy = token.policy
                                 /\ token'.supply = token.supply - burnt
  BY <1>1
<1>3. Wallet!Burn(amount)
  BY <1>2 DEF Wallet!Burn
<1>4. burnt \in 0..(token.supply - token'.supply)
  BY <1>0, <1>2
<1>5. Wallet!Burn(token.supply - token'.supply)
  BY <1>2, <1>4 DEF Wallet!Burn
<1> QED BY <1>3, <1>5 DEF Wallet!Next

\* The target of the fees is an account, if there is one.
LEMMA TargetKnown ==
  TypeOK => /\ token.policy = NoPolicy => token.policy.target = NoAddr
            /\ token.policy # NoPolicy => token.policy.target \in Addrs
            /\ token.policy.target \in Wallet!Accounts \cup {NoAddr}
            /\ NoAddr \notin Addrs /\ Genesis \in Addrs
<1>1. TypeOK => (token.policy # NoPolicy => token.policy.target \in Addrs)
  BY TargetType
<1>2. token.policy = NoPolicy => token.policy.target = NoAddr
  BY DEF NoPolicy
<1> QED BY <1>1, <1>2, DataAssumption DEF Wallet!Accounts, Addrs, NoAddr

LEMMA TargetKnownNext == TypeOK' => token'.policy.target \in Wallet!Accounts \cup {NoAddr}
<1>1. TypeOK => token.policy.target \in Wallet!Accounts \cup {NoAddr}
  BY TargetKnown
<1>2. TypeOK' => (token.policy.target \in Wallet!Accounts \cup {NoAddr})'
  BY <1>1, PTL
<1> QED BY <1>2 DEF Wallet!Accounts

\* The token is created with all of its supply in the genesis account, which had nothing.
LEMMA CreateTokenCustody ==
  ASSUME Sound, TypeOK', NEW addrs, NEW meta, NEW supply \in Nat, NEW ts,
         CreateToken(addrs, meta, supply, ts), ConStep
  PROVE  Wallet!Create(supply) /\ Wallet!Next
<1>1. /\ CreateAccount(Genesis, addrs, supply) /\ ~token.issued /\ supply <= MaxSupply
      /\ token'.supply = supply /\ UNCHANGED <<pend, pay, fee, collected>>
  BY DEF CreateToken
<1>2. /\ TypeOK /\ AbsentEmpty /\ IssuedWithGenesis /\ FreeWithoutPolicy
      /\ Genesis \in Addrs /\ bal \in [Addrs -> Int] /\ MaxSupply \in Nat
  BY SoundParts, DataAssumption DEF TypeOK
<1>3. bal[Genesis] = 0 /\ token.supply = 0
  BY <1>1, <1>2 DEF AbsentEmpty, IssuedWithGenesis, CreateAccount
<1>4. bal' = Credit(bal, Genesis, supply)
  BY <1>1, <1>2, <1>3 DEF CreateAccount, Credit
<1>5. token.policy.target = NoAddr
  BY <1>1, <1>2, TargetKnown DEF FreeWithoutPolicy
<1>6. token'.supply = token.supply + supply /\ supply \in 0..MaxSupply
  BY <1>1, <1>2, <1>3
<1>7. Wallet!Issue(supply)
  BY <1>1, <1>4, <1>6, SupplyCustody
<1>8. Wallet!Create(supply)
  BY <1>3, <1>5, <1>6, <1>7, TargetKnownNext DEF Wallet!Create
<1>9. Wallet!Create(token'.supply)
  BY <1>1, <1>8
<1> QED BY <1>8, <1>9 DEF Wallet!Next

\* tokenUpdate: once there is a target, there always is one.
LEMMA TokenUpdateCustody ==
  ASSUME Sound, TypeOK', NEW meta \in Metas, NEW ts, TokenUpdate(meta, ts)
  PROVE  Wallet!Retarget(IF meta.fee THEN meta.target ELSE NoAddr) /\ Wallet!Next
<1> DEFINE named == IF meta.fee THEN meta.target ELSE NoAddr
<1>0. TypeOK /\ KnownIds /\ EscrowHasOpenContract /\ token \in TokenDoc /\ ConStep
  BY SoundParts DEF TypeOK, TokenUpdate, ConStep
<1>1. /\ meta \in Meta
      /\ meta.fee \/ token.policy # NoPolicy
      /\ token' = [token EXCEPT !.policy = UpdatedPolicy(meta)]
      /\ UNCHANGED <<bal, pend, pay, fee, collected>>
  BY DataAssumption DEF TokenUpdate
<1>2. token'.supply = token.supply /\ token'.policy = UpdatedPolicy(meta)
  BY <1>0, <1>1 DEF TokenDoc
<1>3. /\ token.policy = NoPolicy => token.policy.target = NoAddr
      /\ token.policy # NoPolicy => token.policy.target \in Addrs
      /\ NoAddr \notin Addrs /\ Genesis \in Addrs
  BY <1>0, TargetKnown
<1>4. UpdatedPolicy(meta).target = IF named # NoAddr THEN named
                                   ELSE IF token.policy.target # NoAddr THEN token.policy.target
                                   ELSE Genesis
  <2>1. CASE ~meta.fee
    <3>1. token.policy \in [target : Addrs, rates : [Fns -> Rate]]
      BY <1>0, <1>1, <2>1 DEF TokenDoc, Policy
    <3>2. UpdatedPolicy(meta).target = token.policy.target
      BY <2>1, <3>1 DEF UpdatedPolicy
    <3> QED BY <1>1, <1>3, <2>1, <3>2
  <2>2. CASE meta.fee
    <3>1. UpdatedPolicy(meta).target =
            IF meta.target # NoAddr THEN meta.target
            ELSE IF token.policy = NoPolicy THEN Genesis ELSE token.policy.target
      BY <2>2 DEF UpdatedPolicy
    <3> QED BY <1>3, <2>2, <3>1
  <2> QED BY <2>1, <2>2
<1> HIDE DEF named
<1>5. UNCHANGED <<Wealth, FeesDue, Sales, Offers>>
  <2>1. UNCHANGED <<Wealth, FeesDue>>
    BY <1>1 DEF Wealth, Held, Earned, Uncollected, FeesDue, Outstanding, Charged
  <2> QED BY <1>0, <1>1, <2>1, SalesSame, OffersSame
<1>6. Wallet!Retarget(named)
  BY <1>2, <1>4, <1>5 DEF Wallet!Retarget
<1>7. Wallet!Retarget(token'.policy.target)
  <2>1. token'.policy.target # NoAddr
    BY <1>2, <1>3, <1>4
  <2> QED BY <1>2, <1>5, <2>1 DEF Wallet!Retarget
<1> QED BY <1>6, <1>7 DEF Wallet!Next, named

----------------------------------------------------------------------------
(* Every handler does what was asked.                                      *)

\* transfer, and pay, that others have to sign.
LEMMA TransferContractCustody ==
  ASSUME Sound, TypeOK', NEW kid, NEW from \in Addrs, NEW to, NEW amount \in Nat, NEW extra,
         NEW due, NEW expiry \in Nat, NEW ts,
         TransferContract(kid, from, to, amount, extra, due, expiry, ts)
  PROVE  Wallet!Offer(kid, TxId, TransferOffer(from, to, amount)) /\ Wallet!Next
<1> DEFINE charge == CalcFee(from, "transfer", amount)
           doc    == [kind |-> "transfer", status |-> "open", from |-> from, to |-> to,
                      amount |-> amount, due |-> IF due > ts THEN due ELSE 0,
                      order |-> "", memo |-> ""]
<1>1. charge \in Nat
  BY SoundParts, CalcFeeType DEF Fns
<1>2. /\ amount > 0 /\ MayAct(kid, from) /\ Deposit(from, amount, charge, expiry, ts)
      /\ Commit(ts, {<<"balance", from>>}) /\ OpenContract(doc)
      /\ UNCHANGED <<token, pay, fee, collected>>
  BY DEF TransferContract, MayTransfer
<1>3. doc.kind = "transfer" /\ doc.to = to
  OBVIOUS
<1> HIDE DEF charge, doc
<1>4. /\ Wallet!Offer(kid, TxId, [kind |-> doc.kind, from |-> from, to |-> doc.to,
                                  amount |-> amount, charge |-> charge])
      /\ Wallet!Next
  BY <1>1, <1>2, DepositCustody
<1> QED BY <1>3, <1>4 DEF TransferOffer, charge

LEMMA PayContractCustody ==
  ASSUME Sound, TypeOK', NEW kid, NEW from \in Addrs, NEW to, NEW amount \in Nat, NEW order,
         NEW memo, NEW expiry \in Nat, NEW ts,
         PayContract(kid, from, to, amount, order, memo, expiry, ts)
  PROVE  Wallet!Offer(kid, TxId, PayOffer(from, to, amount)) /\ Wallet!Next
<1> DEFINE doc == [kind |-> "pay", status |-> "open", from |-> from, to |-> to,
                   amount |-> amount, due |-> 0, order |-> order, memo |-> memo]
<1>1. /\ amount > 0 /\ MayAct(kid, from) /\ Deposit(from, amount, 0, expiry, ts)
      /\ Commit(ts, {<<"balance", from>>}) /\ OpenContract(doc)
      /\ UNCHANGED <<token, pay, fee, collected>>
  BY DEF PayContract, MayPay
<1>2. doc.kind = "pay" /\ doc.to = to
  OBVIOUS
<1> HIDE DEF doc
<1>3. /\ Wallet!Offer(kid, TxId, [kind |-> doc.kind, from |-> from, to |-> doc.to,
                                  amount |-> amount, charge |-> 0])
      /\ Wallet!Next
  BY <1>1, DepositCustody
<1> QED BY <1>2, <1>3 DEF PayOffer

\* The callback of a contract that was cancelled.
LEMMA CancelCustody ==
  ASSUME Sound, TypeOK', NEW cid, NEW ts, CancelTransfer(cid, ts)
  PROVE  Wallet!Decline(cid) /\ Wallet!Next
<1>1. /\ cid \in DOMAIN pend /\ pend[cid].type = "contract" /\ Withdraw(cid, ts) /\ ConStep
      /\ UNCHANGED <<token, pay, fee, collected>>
  BY DEF CancelTransfer, OwnsPending, ConStep
<1> QED BY <1>1, WithdrawCustody

\* balance/pending/withdraw.
LEMMA ReclaimCustody ==
  ASSUME Sound, TypeOK', NEW kid, NEW i, NEW ts, BalancePendingWithdraw(kid, i, ts)
  PROVE  IF pend[i].type = "contract" THEN Wallet!Reclaim(kid, i) /\ Wallet!Next
                                      ELSE Wallet!Nothing
<1>1. /\ i \in DOMAIN pend /\ Withdraw(i, ts) /\ ConStep /\ MayAct(kid, pend[i].account)
      /\ UNCHANGED <<token, pay, fee, collected>>
  BY DEF BalancePendingWithdraw, ConStep
<1>2. pend[i].account \in Addrs
  BY <1>1, SoundParts, PendingType
<1>3. CASE pend[i].type = "contract"
  <2>1. Wallet!Decline(i) /\ Wallet!Next /\ Offers[i] = OfferOf(i)
    BY <1>1, <1>3, WithdrawCustody
  <2>2. Wallet!MaySpend(kid, Offers[i].from)
    <3>1. Offers[i].from = pend[i].account
      BY <2>1 DEF OfferOf
    <3> QED BY <1>1, <1>2, <3>1, Spender
  <2> QED BY <1>3, <2>1, <2>2 DEF Wallet!Reclaim
<1>4. CASE pend[i].type # "contract"
  BY <1>1, <1>4, WithdrawCustody
<1> QED BY <1>3, <1>4

\* Transfers, and everything about pending balances.
LEMMA TransferCustody ==
  ASSUME Sound, TypeOK'
  PROVE  TransfersAnswered /\ (TransferNext => Wallet!Next \/ Wallet!Nothing)
<1> USE DataAssumption
<1>0. \A ts, W, d : Commit(ts, W) /\ d \in Terms => ts + d \in Nat
  BY DEF Commit, Stamps
<1>1. ASSUME NEW kid, NEW from \in Addrs, NEW to \in Addrs, NEW amount \in Amounts,
             NEW extra, NEW ts, NEW d \in Terms,
             TransferNow(kid, from, to, amount, extra, ts + d, ts)
      PROVE  /\ Wallet!Send(kid, from, to, amount, CalcFee(from, "transfer", amount))
             /\ Wallet!Next
  <2>1. \E W : Commit(ts, W)
    BY <1>1 DEF TransferNow
  <2>2. amount \in Nat /\ ts + d \in Nat
    BY <1>0, <2>1
  <2> QED BY <1>1, <2>2, TransferNowCustody
<1>2. ASSUME NEW kid, NEW from \in Addrs, NEW to \in Addrs, NEW amount \in Amounts,
             NEW extra, NEW ts, NEW due, NEW e \in Terms,
             TransferContract(kid, from, to, amount, extra, due, ts + e, ts)
      PROVE  /\ Wallet!Offer(kid, TxId, TransferOffer(from, to, amount)) /\ Wallet!Next
  <2>1. \E W : Commit(ts, W)
    BY <1>2 DEF TransferContract
  <2>2. amount \in Nat /\ ts + e \in Nat
    BY <1>0, <2>1
  <2> QED BY <1>2, <2>2, TransferContractCustody
<1>3. TransfersAnswered
  <2> SUFFICES ASSUME NEW kid \in Kids, NEW from \in Addrs, NEW to \in Addrs,
                      NEW amount \in Amounts, NEW ts \in stamps', NEW extra \in ExtraSigners,
                      NEW d \in Terms
               PROVE  /\ TransferNow(kid, from, to, amount, extra, ts + d, ts) =>
                           Wallet!Send(kid, from, to, amount, CalcFee(from, "transfer", amount))
                      /\ \A e \in Terms :
                           TransferContract(kid, from, to, amount, extra, ts + d, ts + e, ts) =>
                             Wallet!Offer(kid, TxId, TransferOffer(from, to, amount))
    BY DEF TransfersAnswered
  <2> QED BY <1>1, <1>2
<1>4. TransferNext => Wallet!Next \/ Wallet!Nothing
  BY <1>1, <1>2, ExecuteTransferCustody, CancelCustody, ReclaimCustody DEF TransferNext
<1> QED BY <1>3, <1>4

LEMMA PendingCustody ==
  ASSUME Sound, TypeOK', PayFrame
  PROVE  PendingAnswered
BY ExecuteTransferCustody, ExecutePayCustody, CancelCustody, ReclaimCustody DEF PendingAnswered

\* Pays and fees.
LEMMA PayCustody ==
  ASSUME Sound, TypeOK', RefundBounded', PayFrame
  PROVE  /\ PaysAnswered /\ PrunesAnswered
         /\ PayNext \/ FeeNext => Wallet!Next \/ Wallet!Nothing
<1> USE DataAssumption
<1>0. \A ts, W, d : Commit(ts, W) /\ d \in Terms => ts + d \in Nat
  BY DEF Commit, Stamps
<1>1. ASSUME NEW kid, NEW from \in Addrs, NEW to \in Addrs, NEW amount \in Amounts, NEW order,
             NEW memo, NEW ts, PayNow(kid, from, to, amount, order, memo, ts)
      PROVE  /\ Wallet!Sell(kid, TxId, from, to, amount, CalcFee(to, "pay", amount))
             /\ Wallet!Next
  BY <1>1, PayNowCustody
<1>2. ASSUME NEW kid, NEW from \in Addrs, NEW to \in Addrs, NEW amount \in Amounts, NEW order,
             NEW memo, NEW ts, NEW d \in Terms,
             PayContract(kid, from, to, amount, order, memo, ts + d, ts)
      PROVE  Wallet!Offer(kid, TxId, PayOffer(from, to, amount)) /\ Wallet!Next
  <2>1. \E W : Commit(ts, W)
    BY <1>2 DEF PayContract
  <2> QED BY <1>0, <1>2, <2>1, PayContractCustody
<1>3. ASSUME NEW kid, NEW i, NEW amount \in RefundAmounts, NEW ts, PayRefund(kid, i, amount, ts)
      PROVE  Wallet!Refund(kid, i, amount, RefundFee(pay[i], amount)) /\ Wallet!Next
  BY <1>3, PayRefundCustody
<1>4. PaysAnswered
  BY <1>1, <1>2, <1>3 DEF PaysAnswered
<1>5. PrunesAnswered
  BY PayPruneCustody, FeePruneCustody DEF PrunesAnswered
<1>6. ASSUME NEW kid, NEW addr, NEW safe, NEW asked, NEW ts,
             PayPruneEndorse(kid, addr, safe, asked, ts) \/ FeePruneEndorse(kid, safe, asked, ts)
      PROVE  Wallet!Nothing
  <2>1. UNCHANGED ledger
    BY <1>6 DEF PayPruneEndorse, FeePruneEndorse
  <2> QED BY <2>1, NothingMoves DEF ledger, ConStep
<1>7. ASSUME PayNext PROVE Wallet!Next \/ Wallet!Nothing
  BY <1>1, <1>2, <1>3, <1>6, <1>7, PayActions, ExecutePayCustody, PayPruneCustody
<1>8. ASSUME FeeNext PROVE Wallet!Next \/ Wallet!Nothing
  BY <1>6, <1>8, FeePruneCustody DEF FeeNext
<1> QED BY <1>4, <1>5, <1>7, <1>8

\* The token.
LEMMA TokenCustody ==
  ASSUME Sound, TypeOK'
  PROVE  SupplyAnswered /\ (SupplyNext => Wallet!Next \/ Wallet!Nothing)
<1> USE DataAssumption
<1>0. TypeOK
  BY SoundParts
<1>1. ASSUME NEW kind, NEW amount, NEW ts, SupplyContract(kind, amount, ts)
      PROVE  Wallet!Nothing
  BY <1>1, NothingMoves DEF SupplyContract, ConStep
<1>2. ASSUME NEW kid PROVE Wallet!Alone(kid, Genesis) <=> account[Genesis].holders = {kid}
  BY DEF Wallet!Alone
<1>3. ASSUME NEW kid, NEW amount \in Amounts, NEW ts, TokenMint(kid, amount, ts)
      PROVE  IF Wallet!Alone(kid, Genesis) THEN Wallet!MintNow(kid, amount) /\ Wallet!Next
                                           ELSE Wallet!Nothing
  <2>1. CASE account[Genesis].holders = {kid}
    <3>1. Mint(amount, ts) /\ UNCHANGED <<pend, pay, fee, collected>> /\ ConStep
      BY <1>3, <2>1 DEF TokenMint, ConStep
    <3> QED BY <1>2, <2>1, <3>1, MintCustody DEF Wallet!MintNow
  <2>2. CASE account[Genesis].holders # {kid}
    BY <1>1, <1>2, <1>3, <2>2 DEF TokenMint
  <2> QED BY <2>1, <2>2
<1>4. ASSUME NEW kid, NEW amount \in Amounts, NEW ts, TokenBurn(kid, amount, ts)
      PROVE  IF Wallet!Alone(kid, Genesis) THEN Wallet!BurnNow(kid, amount) /\ Wallet!Next
                                           ELSE Wallet!Nothing
  <2>1. CASE account[Genesis].holders = {kid}
    <3>1. Burn(amount, ts) /\ UNCHANGED <<pend, pay, fee, collected>> /\ ConStep
      BY <1>4, <2>1 DEF TokenBurn, ConStep
    <3> QED BY <1>2, <2>1, <3>1, BurnCustody DEF Wallet!BurnNow
  <2>2. CASE account[Genesis].holders # {kid}
    BY <1>1, <1>2, <1>4, <2>2 DEF TokenBurn
  <2> QED BY <2>1, <2>2
<1>5. ASSUME NEW kid, NEW addrs, NEW meta, NEW amount \in Amounts, NEW ts,
             TokenCreate(kid, addrs, meta, amount, ts)
      PROVE  IF token'.issued THEN Wallet!Create(amount) /\ Wallet!Next ELSE Wallet!Nothing
  <2>1. ASSUME NEW owners, CreateToken(owners, meta, amount, ts), UNCHANGED con
        PROVE  token'.issued /\ Wallet!Create(amount) /\ Wallet!Next
    <3>1. token'.issued
      BY <2>1 DEF CreateToken
    <3> QED BY <2>1, <3>1, CreateTokenCustody DEF ConStep
  <2>2. ASSUME NEW doc, OpenContract(doc), UNCHANGED <<token, bal, pend, pay, fee, collected>>
        PROVE  Wallet!Nothing
    BY <2>2, NothingMoves DEF ConStep
  <2> QED BY <1>5, <2>1, <2>2 DEF TokenCreate
<1>6. ASSUME NEW cid, NEW ts, ExecuteTokenMint(cid, ts)
      PROVE  Wallet!Mint(con[cid].amount) /\ Wallet!Next
  <2>1. /\ cid \in DOMAIN con /\ con[cid].kind = "token/mint" /\ ConStep
        /\ Mint(con[cid].amount, ts) /\ UNCHANGED <<pend, pay, fee, collected>>
    BY <1>6 DEF ExecuteTokenMint, ConStep
  <2>2. con[cid].amount \in Nat
    BY <1>0, <2>1, ContractType
  <2> QED BY <2>1, <2>2, MintCustody
<1>7. ASSUME NEW cid, NEW ts, ExecuteTokenBurn(cid, ts)
      PROVE  Wallet!Burn(con[cid].amount) /\ Wallet!Next
  <2>1. /\ cid \in DOMAIN con /\ con[cid].kind = "token/burn" /\ ConStep
        /\ Burn(con[cid].amount, ts) /\ UNCHANGED <<pend, pay, fee, collected>>
    BY <1>7 DEF ExecuteTokenBurn, ConStep
  <2>2. con[cid].amount \in Nat
    BY <1>0, <2>1, ContractType
  <2> QED BY <2>1, <2>2, BurnCustody
<1>8. ASSUME NEW cid, NEW ts, CancelSupply(cid, ts) PROVE Wallet!Nothing
  BY <1>8, NothingMoves DEF CancelSupply, ConStep
<1>9. ASSUME NEW cid, NEW meta, NEW amount \in Amounts, NEW ts,
             ExecuteTokenCreate(cid, meta, amount, ts)
      PROVE  Wallet!Create(amount) /\ Wallet!Next
  <2>1. CreateToken(con[cid].holders, meta, amount, ts) /\ ConStep /\ amount \in Nat
    BY <1>9 DEF ExecuteTokenCreate, ConStep
  <2> QED BY <2>1, CreateTokenCustody
<1>10. SupplyAnswered
  BY <1>3, <1>4, <1>5, <1>6, <1>7, <1>8, <1>9, TokenUpdateCustody DEF SupplyAnswered
<1>11. SupplyNext => Wallet!Next \/ Wallet!Nothing
  BY <1>3, <1>4, <1>5, <1>6, <1>7, <1>8, <1>9, TokenUpdateCustody, SupplyActions
<1> QED BY <1>10, <1>11

\* Every step.
LEMMA StepCustody ==
  ASSUME Sound, TypeOK', RefundBounded', [Next]_vars
  PROVE  Answered /\ (Wallet!Next \/ Wallet!Nothing)
<1>1. PayFrame
  BY SoundParts, StepPays
<1>2. ASSUME UNCHANGED ledger PROVE Wallet!Nothing
  BY <1>2, NothingMoves DEF ledger, ConStep
<1>3. Network \/ UNCHANGED vars => Wallet!Nothing
  <2>1. Network \/ UNCHANGED vars => UNCHANGED ledger
    BY DEF Network, Tick, Drop, vars
  <2> QED BY <1>2, <2>1
<1>4. Wallet!Next \/ Wallet!Nothing
  BY <1>1, <1>3, AccountCustody, TransferCustody, PayCustody, TokenCustody DEF Next
<1>5. ntx' = ntx => Wallet!Nothing
  <2>1. ntx \in Int
    BY SoundParts DEF TypeOK
  <2>2. Transaction => ntx' # ntx
    BY <2>1 DEF Transaction, Commit
  <2>3. Endorsement => UNCHANGED ledger
    BY DEF Endorsement, PayPruneEndorse, FeePruneEndorse
  <2>4. Transaction \/ Endorsement \/ UNCHANGED ledger
    BY SoundParts, Steps
  <2> QED BY <1>2, <2>2, <2>3, <2>4
<1>6. AccountsAnswered
  BY AccountCustody DEF AccountsAnswered
<1>7. Answered
  BY <1>1, <1>5, <1>6, TransferCustody, PayCustody, PendingCustody, TokenCustody DEF Answered
<1> QED BY <1>4, <1>7

\* At the start everything is in the balances.
LEMMA InitCustody == Init => Wallet!Init
<1> SUFFICES ASSUME Init PROVE Wallet!Init
  OBVIOUS
<1>1. /\ DOMAIN pend = {} /\ DOMAIN pay = {} /\ DOMAIN fee = {} /\ NTx \in Nat
      /\ bal = InitBal /\ token.supply = SumTo(InitBal, NAddr) /\ token.policy = InitPolicy
  BY SizeAssumption DEF Init, NoDocs
<1>2. TypeOK
  BY InitType
<1>3. SumTo([i \in 1..NTx |-> 0], NTx) = 0
  BY <1>1, SumZero
<1>4. FeesDue = 0
  <2>1. /\ Outstanding(fee, collected.fee) = [i \in 1..NTx |-> 0]
        /\ Charged = [i \in 1..NTx |-> 0]
    BY <1>1 DEF Outstanding, Charged, Uncollected, TxIds
  <2> QED BY <1>3, <2>1 DEF FeesDue
<1>5. Wealth = InitBal
  <2>1. ASSUME NEW a \in Addrs PROVE HeldBy(a) = 0 /\ EarnedBy(a) = 0
    <3>1. Held(a) = [i \in 1..NTx |-> 0] /\ Earned(a) = [i \in 1..NTx |-> 0]
      BY <1>1 DEF Held, Earned, Uncollected, TxIds
    <3> QED BY <1>3, <3>1 DEF HeldBy, EarnedBy
  <2>2. /\ Wealth \in [Addrs -> Int] /\ InitBal \in [Addrs -> Int]
        /\ \A a \in Addrs : Wealth[a] = bal[a] + HeldBy(a) + EarnedBy(a)
    BY <1>1, <1>2, CustodyTypes DEF CustodyParts, TypeOK
  <2>3. \A a \in Addrs : Wealth[a] = InitBal[a]
    BY <1>1, <2>1, <2>2
  <2> QED BY <2>2, <2>3
<1>6. DOMAIN Sales = {} /\ DOMAIN Offers = {}
  BY <1>1 DEF Sales, Offers
<1>7. token.policy.target \in Wallet!Accounts \cup {NoAddr}
  BY <1>2, TargetKnown
<1>8. /\ InitBal \in [Addrs -> Nat] /\ SumTo(InitBal, NAddr) <= MaxSupply
  BY DataAssumption
<1>9. Wallet!SumTo(Wealth, NAddr) = SumTo(InitBal, NAddr)
  <2>1. ASSUME NEW f PROVE Wallet!SumTo(f, NAddr) = SumTo(f, NAddr)
    BY DEF Wallet!SumTo, SumTo
  <2> QED BY <1>5, <2>1
<1> QED BY <1>1, <1>4, <1>5, <1>6, <1>7, <1>8, <1>9 DEF Wallet!Init, Wallet!Accounts, Addrs

\* The chaincode implements Wallets, and every handler does what its caller asked for
\* and was allowed to: nobody loses what they own in a balance, a pending balance or a
\* pay but to those they gave it to, once, or by the fees, refunds and burns that take it.
THEOREM WalletsImplemented == Spec => ImplementsWallets
<1>1. Init => Wallet!Init
  BY InitCustody
<1>2. /\ IInv /\ AccountInv /\ DocumentInv /\ SupplyWithinMax
      /\ DocumentInv' /\ [Next]_vars
      => [Wallet!Next]_(Wallet!state) /\ [Answered]_vars
  BY StepCustody DEF Sound, DocumentInv, Wallet!Nothing
<1> QED BY <1>1, <1>2, PrunesStayCurrent, AccountsWhole, DocumentsFit, SupplyBounded, PTL
        DEF Spec, ImplementsWallets, Wallet!Spec
=============================================================================
