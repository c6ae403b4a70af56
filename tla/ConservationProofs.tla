------------------------- MODULE ConservationProofs -------------------------
(***************************************************************************)
(* No handler creates or loses tokens, whatever the timestamps are and     *)
(* whatever ends the callers of prunes ask for.  IInv is inductive.  Its   *)
(* part KnownIds keeps documents apart, CollectedBelow keeps what was      *)
(* collected out of the range of every later prune, and FlightsCurrent     *)
(* says that what a prune computed when it was endorsed is still right     *)
(* when it commits.                                                        *)
(***************************************************************************)
EXTENDS AccountProofs

----------------------------------------------------------------------------
(* What the helpers of the stubs do to the sums of Conservation.           *)

\* Crediting an account adds to the balances.
LEMMA CreditSum ==
  ASSUME NEW b \in [Addrs -> Int], NEW a \in Addrs, NEW x \in Int
  PROVE  SumTo(Credit(b, a, x), NAddr) = SumTo(b, NAddr) + x
<1>1. b \in [1..NAddr -> Int] /\ a \in 1..NAddr /\ NAddr \in Nat
  BY SizeAssumption DEF Addrs
<1>2. /\ Credit(b, a, x) \in [1..NAddr -> Int]
      /\ Credit(b, a, x)[a] = b[a] + x
      /\ \A c \in 1..NAddr : c # a => Credit(b, a, x)[c] = b[c]
  BY <1>1 DEF Credit
<1>3. SumTo(Credit(b, a, x), NAddr) = SumTo(b, NAddr) + (Credit(b, a, x)[a] - b[a])
  BY <1>1, <1>2, SumChange
<1>4. SumTo(b, NAddr) \in Int
  BY <1>1, SumToType
<1> QED BY <1>1, <1>2, <1>3, <1>4

\* The four sums are integers.
LEMMA SumTypes ==
  ASSUME TypeOK
  PROVE  /\ SumTo(bal, NAddr) \in Int
         /\ SumTo(InEscrow(pend), NTx) \in Int
         /\ SumTo(Outstanding(pay, collected.pay), NTx) \in Int
         /\ SumTo(Outstanding(fee, collected.fee), NTx) \in Int
<1>1. bal \in [1..NAddr -> Int]
  BY DEF TypeOK, Addrs
<1>2. InEscrow(pend) \in [1..NTx -> Int]
  BY DEF TypeOK, IsDocs, InEscrow, PendingDoc, TxIds
<1>3. Outstanding(pay, collected.pay) \in [1..NTx -> Int]
  BY DEF TypeOK, IsDocs, Outstanding, PayDoc, TxIds
<1>4. Outstanding(fee, collected.fee) \in [1..NTx -> Int]
  BY DEF TypeOK, IsDocs, Outstanding, FeeDoc, TxIds
<1> QED BY <1>1, <1>2, <1>3, <1>4, SumToType, SizeAssumption

----------------------------------------------------------------------------
(* Pending balances.                                                       *)

\* The amounts held are integers.
LEMMA InEscrowType ==
  ASSUME NEW docs, IsDocs(docs, TxIds, PendingDoc)
  PROVE  InEscrow(docs) \in [1..NTx -> Int] /\ NTx \in Nat
BY SizeAssumption DEF IsDocs, InEscrow, PendingDoc, TxIds

\* A new pending balance holds its amount and its fee.
LEMMA EscrowPut ==
  ASSUME NEW docs, IsDocs(docs, TxIds, PendingDoc), NEW k \in TxIds, k \notin DOMAIN docs,
         NEW d \in PendingDoc
  PROVE  SumTo(InEscrow(PutDoc(docs, k, d)), NTx)
           = SumTo(InEscrow(docs), NTx) + (d.amount + d.fee)
<1> DEFINE old == InEscrow(docs)
           new == InEscrow(PutDoc(docs, k, d))
<1>1. old \in [1..NTx -> Int] /\ new \in [1..NTx -> Int] /\ NTx \in Nat /\ k \in 1..NTx
  BY InEscrowType, PutDocType DEF TxIds
<1>2. /\ old[k] = 0 /\ new[k] = d.amount + d.fee
      /\ \A i \in 1..NTx : i # k => new[i] = old[i]
  BY DEF InEscrow, PutDoc, TxIds
<1>3. d.amount + d.fee \in Int /\ SumTo(old, NTx) \in Int
  BY <1>1, SumToType DEF PendingDoc
<1> HIDE DEF old, new
<1>4. SumTo(new, NTx) = SumTo(old, NTx) + (new[k] - old[k])
  BY <1>1, <1>2, SumChange
<1>5. SumTo(new, NTx) = SumTo(old, NTx) + (d.amount + d.fee)
  BY <1>2, <1>3, <1>4
<1> QED BY <1>5 DEF old, new

\* A deleted pending balance does not hold them any more.
LEMMA EscrowDel ==
  ASSUME NEW docs, IsDocs(docs, TxIds, PendingDoc), NEW k \in DOMAIN docs
  PROVE  SumTo(InEscrow(DelDoc(docs, k)), NTx)
           = SumTo(InEscrow(docs), NTx) - (docs[k].amount + docs[k].fee)
<1> DEFINE old == InEscrow(docs)
           new == InEscrow(DelDoc(docs, k))
<1>1. k \in TxIds /\ docs[k].amount + docs[k].fee \in Int
  BY DEF IsDocs, PendingDoc
<1>2. old \in [1..NTx -> Int] /\ new \in [1..NTx -> Int] /\ NTx \in Nat /\ k \in 1..NTx
  BY <1>1, InEscrowType, DelDocType DEF TxIds
<1>3. /\ new[k] = 0 /\ old[k] = docs[k].amount + docs[k].fee
      /\ \A i \in 1..NTx : i # k => new[i] = old[i]
  BY <1>1 DEF InEscrow, DelDoc, TxIds
<1>4. SumTo(old, NTx) \in Int
  BY <1>2, SumToType
<1> HIDE DEF old, new
<1>5. SumTo(new, NTx) = SumTo(old, NTx) + (new[k] - old[k])
  BY <1>2, <1>3, SumChange
<1>6. SumTo(new, NTx) = SumTo(old, NTx) - (docs[k].amount + docs[k].fee)
  BY <1>1, <1>3, <1>4, <1>5
<1> QED BY <1>6 DEF old, new

----------------------------------------------------------------------------
(* Pays and fees that were not collected.                                  *)

\* Their amounts are integers.
LEMMA OutstandingType ==
  ASSUME NEW docs, \A i \in DOMAIN docs : docs[i].amount \in Int, NEW done
  PROVE  Outstanding(docs, done) \in [1..NTx -> Int] /\ NTx \in Nat
BY SizeAssumption DEF Outstanding, TxIds

\* A new document adds its amount.
LEMMA OutstandingPut ==
  ASSUME NEW docs, \A i \in DOMAIN docs : docs[i].amount \in Int,
         NEW k \in TxIds, k \notin DOMAIN docs, NEW done, k \notin done,
         NEW d, d.amount \in Int
  PROVE  SumTo(Outstanding(PutDoc(docs, k, d), done), NTx)
           = SumTo(Outstanding(docs, done), NTx) + d.amount
<1> DEFINE old == Outstanding(docs, done)
           new == Outstanding(PutDoc(docs, k, d), done)
<1>1. \A i \in DOMAIN PutDoc(docs, k, d) : PutDoc(docs, k, d)[i].amount \in Int
  BY DEF PutDoc
<1>2. old \in [1..NTx -> Int] /\ new \in [1..NTx -> Int] /\ NTx \in Nat /\ k \in 1..NTx
  BY <1>1, OutstandingType DEF TxIds
<1>3. /\ old[k] = 0 /\ new[k] = d.amount
      /\ \A i \in 1..NTx : i # k => new[i] = old[i]
  BY DEF Outstanding, PutDoc, TxIds
<1>4. SumTo(old, NTx) \in Int
  BY <1>2, SumToType
<1> HIDE DEF old, new
<1>5. SumTo(new, NTx) = SumTo(old, NTx) + (new[k] - old[k])
  BY <1>2, <1>3, SumChange
<1>6. SumTo(new, NTx) = SumTo(old, NTx) + d.amount
  BY <1>3, <1>4, <1>5
<1> QED BY <1>6 DEF old, new

\* Nothing but the amount of a document matters.
LEMMA OutstandingSame ==
  ASSUME NEW docs, NEW new, NEW done, DOMAIN new = DOMAIN docs,
         \A j \in DOMAIN docs : new[j].amount = docs[j].amount
  PROVE  Outstanding(new, done) = Outstanding(docs, done)
BY DEF Outstanding

\* Pays that are collected take their amounts out.
LEMMA PaysMove ==
  ASSUME TypeOK, NEW ids, \A i \in ids : i \in DOMAIN pay /\ i \notin collected.pay
  PROVE  SumTo(Outstanding(pay, collected.pay), NTx)
           = SumTo(Outstanding(pay, collected.pay \cup ids), NTx) + PaySum(ids)
<1> DEFINE old == Outstanding(pay, collected.pay)
           new == Outstanding(pay, collected.pay \cup ids)
           g == [i \in TxIds |-> IF i \in ids THEN pay[i].amount ELSE 0]
<1>0. \A i \in DOMAIN pay : pay[i].amount \in Int
  BY DEF TypeOK, IsDocs, PayDoc
<1>1. old \in [1..NTx -> Int] /\ new \in [1..NTx -> Int] /\ NTx \in Nat
  BY <1>0, OutstandingType
<1>2. g \in [1..NTx -> Int]
  BY <1>0 DEF TxIds
<1>3. ASSUME NEW i \in 1..NTx PROVE old[i] = new[i] + g[i]
  <2>1. CASE i \in ids
    BY <1>0, <2>1 DEF Outstanding, TxIds
  <2>2. CASE i \notin ids
    <3>1. old[i] = new[i] /\ g[i] = 0 /\ new[i] \in Int
      BY <1>1, <2>2 DEF Outstanding, TxIds
    <3> QED BY <3>1
  <2> QED BY <2>1, <2>2
<1>4. PaySum(ids) = SumTo(g, NTx)
  BY DEF PaySum
<1> HIDE DEF old, new, g
<1>5. SumTo(old, NTx) = SumTo(new, NTx) + SumTo(g, NTx)
  BY <1>1, <1>2, <1>3, SumAdd
<1> QED BY <1>4, <1>5 DEF old, new

\* The same for fees.
LEMMA FeesMove ==
  ASSUME TypeOK, NEW ids, \A i \in ids : i \in DOMAIN fee /\ i \notin collected.fee
  PROVE  SumTo(Outstanding(fee, collected.fee), NTx)
           = SumTo(Outstanding(fee, collected.fee \cup ids), NTx) + FeeSum(ids)
<1> DEFINE old == Outstanding(fee, collected.fee)
           new == Outstanding(fee, collected.fee \cup ids)
           g == [i \in TxIds |-> IF i \in ids THEN fee[i].amount ELSE 0]
<1>0. \A i \in DOMAIN fee : fee[i].amount \in Int
  BY DEF TypeOK, IsDocs, FeeDoc
<1>1. old \in [1..NTx -> Int] /\ new \in [1..NTx -> Int] /\ NTx \in Nat
  BY <1>0, OutstandingType
<1>2. g \in [1..NTx -> Int]
  BY <1>0 DEF TxIds
<1>3. ASSUME NEW i \in 1..NTx PROVE old[i] = new[i] + g[i]
  <2>1. CASE i \in ids
    BY <1>0, <2>1 DEF Outstanding, TxIds
  <2>2. CASE i \notin ids
    <3>1. old[i] = new[i] /\ g[i] = 0 /\ new[i] \in Int
      BY <1>1, <2>2 DEF Outstanding, TxIds
    <3> QED BY <3>1
  <2> QED BY <2>1, <2>2
<1>4. FeeSum(ids) = SumTo(g, NTx)
  BY DEF FeeSum
<1> HIDE DEF old, new, g
<1>5. SumTo(old, NTx) = SumTo(new, NTx) + SumTo(g, NTx)
  BY <1>1, <1>2, <1>3, SumAdd
<1> QED BY <1>4, <1>5 DEF old, new

\* A fee that is left adds its amount; no document is left for no fee.
LEMMA CreateFeeSum ==
  ASSUME TypeOK, TxId \in TxIds, TxId \notin DOMAIN fee, NEW done, TxId \notin done,
         NEW a \in Addrs, NEW x \in Int, NEW ts \in Stamps, CreateFee(a, x, ts)
  PROVE  SumTo(Outstanding(fee', done), NTx) = SumTo(Outstanding(fee, done), NTx) + x
<1>1. \A i \in DOMAIN fee : fee[i].amount \in Int
  BY DEF TypeOK, IsDocs, FeeDoc
<1>2. CASE x = 0
  <2>1. SumTo(Outstanding(fee, done), NTx) \in Int
    BY <1>1, OutstandingType, SumToType
  <2> QED BY <1>2, <2>1 DEF CreateFee
<1>3. CASE x # 0
  <2> DEFINE doc == [account |-> a, amount |-> x, created |-> ts]
  <2>1. fee' = PutDoc(fee, TxId, doc) /\ doc.amount = x
    BY <1>3 DEF CreateFee
  <2> HIDE DEF doc
  <2> QED BY <1>1, <2>1, OutstandingPut
<1> QED BY <1>2, <1>3

----------------------------------------------------------------------------
(* The frame of a transaction.                                             *)

\* The four sums of Conservation.
Balances   == SumTo(bal, NAddr)
Escrowed   == SumTo(InEscrow(pend), NTx)
PaysLeft   == SumTo(Outstanding(pay, collected.pay), NTx)
FeesLeft   == SumTo(Outstanding(fee, collected.fee), NTx)

\* What a transaction with timestamp ts that writes the keys `written' may do
\* to the documents the invariant is about: add documents under its own id
\* created at ts, and write the balances and cursors among its keys.
PaysKept(ts) ==
  /\ DOMAIN pay \subseteq DOMAIN pay' /\ DOMAIN pay' \subseteq DOMAIN pay \cup {TxId}
  /\ \A i \in DOMAIN pay :
       /\ pay'[i].to = pay[i].to /\ pay'[i].created = pay[i].created
       /\ pay'[i].amount = pay[i].amount /\ pay'[i].fee = pay[i].fee
  /\ TxId \in DOMAIN pay' => pay'[TxId].created = ts

FeesKept(ts) ==
  /\ DOMAIN fee \subseteq DOMAIN fee' /\ DOMAIN fee' \subseteq DOMAIN fee \cup {TxId}
  /\ \A i \in DOMAIN fee : fee'[i] = fee[i]
  /\ TxId \in DOMAIN fee' => fee'[TxId].created = ts

PendsKept ==
  /\ DOMAIN pend' \subseteq DOMAIN pend \cup {TxId}
  /\ \A i \in DOMAIN pend' \ {TxId} : pend'[i] = pend[i]

ConsKept ==
  /\ DOMAIN con' \subseteq DOMAIN con \cup {TxId}
  /\ \A i \in DOMAIN con' \ {TxId} : con'[i].kind = con[i].kind

\* The new pending balance, if a payment holds it, has no fee.
NoFeeHeld ==
  TxId \in DOMAIN con' \cap DOMAIN pend' /\ con'[TxId].kind = "pay" => pend'[TxId].fee = 0

Keeps(ts, written) ==
  /\ PaysKept(ts) /\ FeesKept(ts)
  /\ PendsKept /\ ConsKept /\ NoFeeHeld
  /\ \A a \in Addrs : <<"balance", a>> \notin written =>
       bal'[a] = bal[a] /\ payCursor'[a] = payCursor[a]
  /\ <<"feeCursor", 0>> \notin written => feeCursor' = feeCursor

\* The four sums grow, together, by as much as the supply.
Balanced ==
  /\ token'.supply + (Balances + Escrowed + PaysLeft + FeesLeft)
       = token.supply + (Balances' + Escrowed' + PaysLeft' + FeesLeft')
  /\ token'.supply \in Int /\ Balances' \in Int /\ Escrowed' \in Int
  /\ PaysLeft' \in Int /\ FeesLeft' \in Int

----------------------------------------------------------------------------
(* The commit of a transaction.                                            *)

\* The id of a transaction is new, and its timestamp is not much older than the
\* endorsement of any prune in flight.
LEMMA CommitFacts ==
  ASSUME IInv, NEW ts, NEW W, Commit(ts, W)
  PROVE  /\ TxId \in TxIds /\ TxId \notin DOMAIN pend /\ TxId \notin DOMAIN con
         /\ TxId \notin DOMAIN pay /\ TxId \notin DOMAIN fee
         /\ TxId \notin collected.pay /\ TxId \notin collected.fee
         /\ ts \in Stamps /\ ts \in Int
         /\ \A f \in flight : ts >= f.at - Skew - Latency
<1>1. /\ ntx \in 0..NTx /\ clock \in Int /\ Skew \in Nat /\ Latency \in Nat /\ NTx \in Nat
      /\ ts \in Stamps /\ ts \in Int
  BY SizeAssumption DEF IInv, TypeOK, StartTime, Commit, Stamps
<1>2. TxId \in TxIds
  BY <1>1 DEF Commit, TxId, TxIds
<1>3. /\ TxId \notin DOMAIN pend /\ TxId \notin DOMAIN con
      /\ TxId \notin DOMAIN pay /\ TxId \notin DOMAIN fee
  BY <1>1 DEF IInv, KnownIds, TxId
<1>4. TxId \notin collected.pay /\ TxId \notin collected.fee
  BY <1>3 DEF IInv, CollectedBelow
<1>5. ASSUME NEW f \in flight PROVE ts >= f.at - Skew - Latency
  <2>1. f.at \in Int /\ f.at <= clock
    BY DEF IInv, TypeOK, Flight, FlightsCurrent, Current
  <2>2. ts >= clock - Skew - Latency
    BY <1>1 DEF Commit
  <2> QED BY <1>1, <2>1, <2>2
<1> QED BY <1>1, <1>2, <1>3, <1>4, <1>5

\* A transaction adds at most its own pay to a range, and leaves the sums of others.
LEMMA PayRangeKept ==
  ASSUME NEW ts, PaysKept(ts), TxId \notin DOMAIN pay, NEW a, NEW c, NEW e
  PROVE  /\ LET range == {i \in DOMAIN pay' : /\ pay'[i].to = a
                                             /\ c < pay'[i].created /\ pay'[i].created <= e}
            IN  /\ PayRange(a, c, e) \subseteq range
                /\ range \subseteq PayRange(a, c, e) \cup {TxId}
         /\ \A ids \in SUBSET DOMAIN pay :
              PaySum(ids)' = PaySum(ids) /\ PayFeeSum(ids)' = PayFeeSum(ids)
<1>1. ASSUME NEW ids \in SUBSET DOMAIN pay
      PROVE  PaySum(ids)' = PaySum(ids) /\ PayFeeSum(ids)' = PayFeeSum(ids)
  <2>1. \A i \in ids : pay'[i].amount = pay[i].amount /\ pay'[i].fee = pay[i].fee
    BY DEF PaysKept
  <2>2. [i \in TxIds |-> IF i \in ids THEN pay'[i].amount ELSE 0]
          = [i \in TxIds |-> IF i \in ids THEN pay[i].amount ELSE 0]
    BY <2>1
  <2>3. [i \in TxIds |-> IF i \in ids THEN pay'[i].fee ELSE 0]
          = [i \in TxIds |-> IF i \in ids THEN pay[i].fee ELSE 0]
    BY <2>1
  <2> QED BY <2>2, <2>3 DEF PaySum, PayFeeSum
<1> QED BY <1>1 DEF PaysKept, PayRange

\* The same for fees.
LEMMA FeeRangeKept ==
  ASSUME NEW ts, FeesKept(ts), TxId \notin DOMAIN fee, NEW c, NEW e
  PROVE  /\ LET range == {i \in DOMAIN fee' : c < fee'[i].created /\ fee'[i].created <= e}
            IN  /\ FeeRange(c, e) \subseteq range
                /\ range \subseteq FeeRange(c, e) \cup {TxId}
         /\ \A ids \in SUBSET DOMAIN fee : FeeSum(ids)' = FeeSum(ids)
<1>1. ASSUME NEW ids \in SUBSET DOMAIN fee PROVE FeeSum(ids)' = FeeSum(ids)
  <2>1. [i \in TxIds |-> IF i \in ids THEN fee'[i].amount ELSE 0]
          = [i \in TxIds |-> IF i \in ids THEN fee[i].amount ELSE 0]
    BY DEF FeesKept
  <2> QED BY <2>1 DEF FeeSum
<1> QED BY <1>1 DEF FeesKept, FeeRange

\* A commit that keeps to its keys leaves the parts of the invariant that are
\* about documents and prunes in flight.
LEMMA CommitKeeps ==
  ASSUME IInv, NEW ts, NEW W, Commit(ts, W), Keeps(ts, W)
  PROVE  KnownIds' /\ PaysHoldNoFee' /\ FlightsCurrent'
<1> USE CommitFacts
<1>1. /\ ntx' = ntx + 1 /\ ntx \in Int /\ clock' = clock
      /\ flight' = {f \in flight : Reads(f) \cap W = {}} /\ TxId = ntx + 1
  BY SizeAssumption DEF Commit, IInv, TypeOK, TxId
<1>2. KnownIds'
  <2>1. ASSUME NEW i \in DOMAIN pend' \cup DOMAIN con' \cup DOMAIN pay' \cup DOMAIN fee'
        PROVE  i <= ntx'
    <3>1. \/ i \in DOMAIN pend \cup DOMAIN con \cup DOMAIN pay \cup DOMAIN fee
          \/ i = TxId
      BY DEF Keeps, PaysKept, FeesKept, PendsKept, ConsKept
    <3>2. CASE i = TxId
      BY <1>1, <3>2
    <3>3. CASE i \in DOMAIN pend \cup DOMAIN con \cup DOMAIN pay \cup DOMAIN fee
      <4>1. i <= ntx /\ i \in Int
        BY <3>3, SizeAssumption DEF IInv, KnownIds, TypeOK, IsDocs, TxIds
      <4> QED BY <1>1, <4>1
    <3> QED BY <3>1, <3>2, <3>3
  <2> QED BY <2>1 DEF KnownIds
<1>3. ASSUME NEW f \in flight' PROVE Current(f)'
  <2>1. /\ f \in flight /\ Current(f) /\ ts >= f.at - Skew - Latency
        /\ Reads(f) \cap W = {} /\ f.account \in Addrs
    <3>1. f \in flight /\ Reads(f) \cap W = {}
      BY <1>1
    <3>2. f \in Flight /\ Current(f)
      BY <3>1 DEF IInv, TypeOK, FlightsCurrent
    <3> QED BY <3>1, <3>2 DEF Flight
  <2>2. <<"balance", f.account>> \notin W
    BY <2>1 DEF Reads, AccountKeys
  <2>3. bal'[f.account] = bal[f.account] /\ payCursor'[f.account] = payCursor[f.account]
    BY <2>1, <2>2 DEF Keeps
  <2>4. f.at <= clock' /\ f.base = bal'[f.account]
    BY <1>1, <2>1, <2>3 DEF Current
  <2>5. ASSUME f.kind = "pay"
        PROVE  /\ payCursor'[f.account] < f.end
               /\ f.ids \subseteq PayRange(f.account, payCursor[f.account], f.end)'
               /\ \A i \in PayRange(f.account, payCursor[f.account], f.end)' \ f.ids :
                    MayMiss(f, pay[i].created)'
               /\ f.sum = PaySum(f.ids)' /\ f.fee = PayFeeSum(f.ids)'
    <3> DEFINE range == PayRange(f.account, payCursor[f.account], f.end)
    <3>1. /\ payCursor[f.account] < f.end
          /\ f.ids \subseteq range /\ \A i \in range \ f.ids : MayMiss(f, pay[i].created)
          /\ f.sum = PaySum(f.ids) /\ f.fee = PayFeeSum(f.ids)
      BY <2>1, <2>5 DEF Current
    <3>2. f.ids \subseteq DOMAIN pay /\ range \subseteq DOMAIN pay
      BY <3>1 DEF PayRange
    <3>3. PaysKept(ts)
      BY DEF Keeps
    <3>4. /\ range \subseteq range' /\ range' \subseteq range \cup {TxId}
          /\ PaySum(f.ids)' = PaySum(f.ids) /\ PayFeeSum(f.ids)' = PayFeeSum(f.ids)
      <4> DEFINE new == {i \in DOMAIN pay' : /\ pay'[i].to = f.account
                                            /\ payCursor[f.account] < pay'[i].created
                                            /\ pay'[i].created <= f.end}
      <4>1. /\ range \subseteq new /\ new \subseteq range \cup {TxId}
            /\ PaySum(f.ids)' = PaySum(f.ids) /\ PayFeeSum(f.ids)' = PayFeeSum(f.ids)
        BY <3>2, <3>3, PayRangeKept
      <4>2. range' = new
        BY <2>3 DEF PayRange
      <4> QED BY <4>1, <4>2
    <3>5. ASSUME NEW i \in range' \ f.ids PROVE MayMiss(f, pay'[i].created)
      <4>1. CASE i \in range
        <5>1. pay'[i].created = pay[i].created
          BY <3>2, <3>3, <4>1 DEF PaysKept
        <5> QED BY <3>1, <3>5, <4>1, <5>1
      <4>2. CASE i = TxId
        <5>1. i \in DOMAIN pay'
          BY <3>5 DEF PayRange
        <5> QED BY <2>1, <3>3, <4>2, <5>1 DEF PaysKept, MayMiss
      <4> QED BY <3>4, <3>5, <4>1, <4>2
    <3>6. \A i \in range' \ f.ids : MayMiss(f, pay[i].created)'
      BY <3>5 DEF MayMiss
    <3> QED BY <2>3, <3>1, <3>4, <3>6
  <2>6. ASSUME f.kind = "fee"
        PROVE  /\ feeCursor' < f.end
               /\ f.ids \subseteq FeeRange(feeCursor, f.end)'
               /\ \A i \in FeeRange(feeCursor, f.end)' \ f.ids : MayMiss(f, fee[i].created)'
               /\ f.sum = FeeSum(f.ids)'
    <3> DEFINE range == FeeRange(feeCursor, f.end)
    <3>1. /\ feeCursor < f.end
          /\ f.ids \subseteq range /\ \A i \in range \ f.ids : MayMiss(f, fee[i].created)
          /\ f.sum = FeeSum(f.ids)
      BY <2>1, <2>6 DEF Current
    <3>2. f.ids \subseteq DOMAIN fee /\ range \subseteq DOMAIN fee
      BY <3>1 DEF FeeRange
    <3>3. FeesKept(ts) /\ feeCursor' = feeCursor
      <4>1. <<"feeCursor", 0>> \notin W
        BY <2>1, <2>6 DEF Reads
      <4> QED BY <4>1 DEF Keeps
    <3>4. /\ range \subseteq range' /\ range' \subseteq range \cup {TxId}
          /\ FeeSum(f.ids)' = FeeSum(f.ids)
      <4> DEFINE new == {i \in DOMAIN fee' : /\ feeCursor < fee'[i].created
                                            /\ fee'[i].created <= f.end}
      <4>1. /\ range \subseteq new /\ new \subseteq range \cup {TxId}
            /\ FeeSum(f.ids)' = FeeSum(f.ids)
        BY <3>2, <3>3, FeeRangeKept
      <4>2. range' = new
        BY <3>3 DEF FeeRange
      <4> QED BY <4>1, <4>2
    <3>5. ASSUME NEW i \in range' \ f.ids PROVE MayMiss(f, fee'[i].created)
      <4>1. CASE i \in range
        <5>1. fee'[i].created = fee[i].created
          BY <3>2, <3>3, <4>1 DEF FeesKept
        <5> QED BY <3>1, <3>5, <4>1, <5>1
      <4>2. CASE i = TxId
        <5>1. i \in DOMAIN fee'
          BY <3>5 DEF FeeRange
        <5> QED BY <2>1, <3>3, <4>2, <5>1 DEF FeesKept, MayMiss
      <4> QED BY <3>4, <3>5, <4>1, <4>2
    <3>6. \A i \in range' \ f.ids : MayMiss(f, fee[i].created)'
      BY <3>5 DEF MayMiss
    <3> QED BY <3>1, <3>3, <3>4, <3>6
  <2> QED BY <2>4, <2>5, <2>6 DEF Current
<1>4. PaysHoldNoFee'
  <2>1. ASSUME NEW i \in DOMAIN con' \cap DOMAIN pend',
               con'[i].kind = "pay", pend'[i].type = "contract"
        PROVE  pend'[i].fee = 0
    <3>1. CASE i = TxId
      BY <2>1, <3>1 DEF Keeps, NoFeeHeld
    <3>2. CASE i # TxId
      <4>1. i \in DOMAIN con \cap DOMAIN pend /\ pend'[i] = pend[i] /\ con'[i].kind = con[i].kind
        BY <2>1, <3>2 DEF Keeps, PendsKept, ConsKept
      <4> QED BY <2>1, <4>1 DEF IInv, PaysHoldNoFee
    <3> QED BY <3>1, <3>2
  <2> QED BY <2>1 DEF PaysHoldNoFee
<1> QED BY <1>2, <1>3, <1>4 DEF FlightsCurrent

\* A transaction that leaves the pays alone.
LEMMA PaysUntouched ==
  ASSUME UNCHANGED pay, TxId \notin DOMAIN pay, NEW ts
  PROVE  PaysKept(ts)
BY DEF PaysKept

\* The same for the fees.
LEMMA FeesUntouched ==
  ASSUME UNCHANGED fee, TxId \notin DOMAIN fee, NEW ts
  PROVE  FeesKept(ts)
BY DEF FeesKept

\* A transaction that opens no contract.
LEMMA ConsUntouched ==
  ASSUME UNCHANGED con \/ \E cid, status : CloseContract(cid, status),
         TxId \notin DOMAIN con
  PROVE  ConsKept /\ NoFeeHeld
<1>1. CASE UNCHANGED con
  BY <1>1 DEF ConsKept, NoFeeHeld
<1>2. ASSUME NEW cid, NEW status, CloseContract(cid, status) PROVE ConsKept /\ NoFeeHeld
  <2>1. DOMAIN con' = DOMAIN con
    BY <1>2 DEF CloseContract
  <2>2. ASSUME NEW i \in DOMAIN con PROVE con'[i].kind = con[i].kind
    BY <1>2 DEF CloseContract
  <2> QED BY <2>1, <2>2 DEF ConsKept, NoFeeHeld
<1> QED BY <1>1, <1>2

\* The same for the pending balances.
LEMMA PendsUntouched ==
  ASSUME UNCHANGED pend, TxId \notin DOMAIN pend
  PROVE  PendsKept /\ NoFeeHeld
BY DEF PendsKept, NoFeeHeld

\* The sums of Conservation and the supply are integers.
LEMMA SumsAreInts ==
  ASSUME TypeOK
  PROVE  /\ Balances \in Int /\ Escrowed \in Int /\ PaysLeft \in Int /\ FeesLeft \in Int
         /\ token.supply \in Int
BY SumTypes DEF Balances, Escrowed, PaysLeft, FeesLeft, TypeOK, TokenDoc

\* Conservation holds after a step in which the sums grow as the supply does.
LEMMA ConservedBy ==
  ASSUME TypeOK, Conservation, Balanced
  PROVE  Conservation'
<1>1. token.supply = Balances + Escrowed + PaysLeft + FeesLeft
  BY DEF Conservation, Balances, Escrowed, PaysLeft, FeesLeft
<1>2. token'.supply = Balances' + Escrowed' + PaysLeft' + FeesLeft'
  BY <1>1, SumsAreInts DEF Balanced
<1> QED BY <1>2 DEF Conservation, Balances, Escrowed, PaysLeft, FeesLeft

\* What a step does not touch keeps its sum.
LEMMA SumsUntouched ==
  ASSUME TypeOK
  PROVE  /\ UNCHANGED bal => Balances' = Balances + 0
         /\ UNCHANGED pend => Escrowed' = Escrowed + 0
         /\ UNCHANGED pay /\ collected'.pay = collected.pay => PaysLeft' = PaysLeft + 0
         /\ UNCHANGED fee /\ collected'.fee = collected.fee => FeesLeft' = FeesLeft + 0
<1>1. Balances \in Int /\ Escrowed \in Int /\ PaysLeft \in Int /\ FeesLeft \in Int
  BY SumTypes DEF Balances, Escrowed, PaysLeft, FeesLeft
<1>2. /\ UNCHANGED bal => Balances' = Balances
      /\ UNCHANGED pend => Escrowed' = Escrowed
      /\ UNCHANGED pay /\ collected'.pay = collected.pay => PaysLeft' = PaysLeft
      /\ UNCHANGED fee /\ collected'.fee = collected.fee => FeesLeft' = FeesLeft
  BY DEF Balances, Escrowed, PaysLeft, FeesLeft
<1> QED BY <1>1, <1>2

\* A transaction that keeps to its keys, moves no cursor and conserves the
\* tokens keeps the invariant.
LEMMA TransactionKeepsIInv ==
  ASSUME IInv, TypeOK', NEW ts, NEW W, Commit(ts, W), Keeps(ts, W),
         UNCHANGED <<payCursor, feeCursor, collected>>, Conservation'
  PROVE  IInv'
<1>1. CollectedBelow'
  <2>1. ASSUME NEW i \in collected.pay
        PROVE  i \in DOMAIN pay' /\ pay'[i].created <= payCursor[pay'[i].to]
    BY DEF IInv, CollectedBelow, Keeps, PaysKept
  <2>2. ASSUME NEW i \in collected.fee
        PROVE  i \in DOMAIN fee' /\ fee'[i].created <= feeCursor
    BY DEF IInv, CollectedBelow, Keeps, FeesKept
  <2> QED BY <2>1, <2>2 DEF CollectedBelow
<1> QED BY <1>1, CommitKeeps DEF IInv

----------------------------------------------------------------------------
(* Transfers.                                                              *)

\* What the sender of a transfer lost, its receiver or the time lock gets.
LEMMA ReceiveSum ==
  ASSUME TypeOK, NEW from \in Addrs, NEW to \in Addrs, NEW amount \in Int, NEW due \in Nat,
         NEW ts \in Stamps, NEW debited \in [Addrs -> Int], NEW logged,
         NEW pending, IsDocs(pending, TxIds, PendingDoc), TxId \in TxIds,
         TxId \notin DOMAIN pending,
         Receive(from, to, amount, due, ts, debited, logged, pending)
  PROVE  /\ \/ /\ Balances' = SumTo(debited, NAddr)
               /\ Escrowed' = SumTo(InEscrow(pending), NTx) + amount
            \/ /\ Balances' = SumTo(debited, NAddr) + amount
               /\ Escrowed' = SumTo(InEscrow(pending), NTx)
         /\ DOMAIN pend' \subseteq DOMAIN pending \cup {TxId}
         /\ \A i \in DOMAIN pend' \ {TxId} : pend'[i] = pending[i]
         /\ \A a \in Addrs : a # to => bal'[a] = debited[a]
         /\ due > ts => bal' = debited
<1> DEFINE lock == [type |-> "account", account |-> to, rid |-> from,
                    amount |-> amount, fee |-> 0, due |-> due]
<1>1. CASE due > ts
  <2>1. lock \in PendingDoc /\ lock.amount + lock.fee = amount
    BY DEF PendingDoc, Addrs
  <2>2. pend' = PutDoc(pending, TxId, lock) /\ bal' = debited
    BY <1>1 DEF Receive
  <2> HIDE DEF lock
  <2>3. SumTo(InEscrow(pend'), NTx) = SumTo(InEscrow(pending), NTx) + amount
    BY <2>1, <2>2, EscrowPut
  <2>4. /\ DOMAIN pend' = DOMAIN pending \cup {TxId}
        /\ \A i \in DOMAIN pend' \ {TxId} : pend'[i] = pending[i]
    BY <2>2 DEF PutDoc
  <2> QED BY <1>1, <2>2, <2>3, <2>4 DEF Balances, Escrowed
<1>2. CASE ~(due > ts)
  <2>1. pend' = pending /\ bal' = Credit(debited, to, amount)
    BY <1>2 DEF Receive
  <2>2. SumTo(bal', NAddr) = SumTo(debited, NAddr) + amount
    BY <2>1, CreditSum
  <2>3. \A a \in Addrs : a # to => bal'[a] = debited[a]
    BY <2>1 DEF Credit
  <2> QED BY <1>2, <2>1, <2>2, <2>3 DEF Balances, Escrowed
<1> QED BY <1>1, <1>2

\* A deposit moves the amount and the fee into a pending balance.
LEMMA DepositSum ==
  ASSUME TypeOK, NEW a \in Addrs, NEW amount \in Int, NEW charge \in Int,
         NEW expiry \in Nat, NEW ts, TxId \in TxIds, TxId \notin DOMAIN pend,
         Deposit(a, amount, charge, expiry, ts)
  PROVE  /\ Balances' = Balances + (-(amount + charge))
         /\ Escrowed' = Escrowed + (amount + charge)
         /\ PendsKept /\ pend'[TxId].fee = charge
         /\ \A b \in Addrs : b # a => bal'[b] = bal[b]
<1> DEFINE doc == [type |-> "contract", account |-> a, rid |-> TxId,
                   amount |-> amount, fee |-> charge, due |-> expiry]
<1>1. doc \in PendingDoc /\ doc.amount + doc.fee = amount + charge /\ doc.fee = charge
  BY DEF PendingDoc, TxIds
<1>2. pend' = PutDoc(pend, TxId, doc) /\ bal' = Credit(bal, a, -(amount + charge))
  BY DEF Deposit
<1>3. bal \in [Addrs -> Int] /\ IsDocs(pend, TxIds, PendingDoc) /\ -(amount + charge) \in Int
  BY DEF TypeOK
<1> HIDE DEF doc
<1>4. SumTo(InEscrow(pend'), NTx) = SumTo(InEscrow(pend), NTx) + (amount + charge)
  BY <1>1, <1>2, <1>3, EscrowPut
<1>5. SumTo(bal', NAddr) = SumTo(bal, NAddr) + (-(amount + charge))
  BY <1>2, <1>3, CreditSum
<1>6. PendsKept /\ pend'[TxId].fee = charge
  BY <1>1, <1>2 DEF PutDoc, PendsKept
<1>7. \A b \in Addrs : b # a => bal'[b] = bal[b]
  BY <1>2, <1>3 DEF Credit
<1> QED BY <1>4, <1>5, <1>6, <1>7 DEF Balances, Escrowed

\* A withdrawal moves them back.
LEMMA WithdrawSum ==
  ASSUME TypeOK, NEW i \in DOMAIN pend, NEW ts, Withdraw(i, ts)
  PROVE  /\ Balances' = Balances + (pend[i].amount + pend[i].fee)
         /\ Escrowed' = Escrowed + (-(pend[i].amount + pend[i].fee))
         /\ PendsKept
         /\ \A b \in Addrs : b # pend[i].account => bal'[b] = bal[b]
<1> DEFINE back == pend[i].amount + pend[i].fee
<1>1. pend[i].account \in Addrs /\ back \in Int
  BY PendingType
<1>2. bal' = Credit(bal, pend[i].account, back) /\ pend' = DelDoc(pend, i)
  BY DEF Withdraw
<1>3. bal \in [Addrs -> Int] /\ IsDocs(pend, TxIds, PendingDoc)
  BY DEF TypeOK
<1>4. SumTo(InEscrow(pend'), NTx) = SumTo(InEscrow(pend), NTx) - back
  BY <1>2, <1>3, EscrowDel
<1>5. SumTo(InEscrow(pend), NTx) \in Int
  BY SumTypes
<1> HIDE DEF back
<1>6. SumTo(bal', NAddr) = SumTo(bal, NAddr) + back
  BY <1>1, <1>2, <1>3, CreditSum
<1>7. SumTo(InEscrow(pend'), NTx) = SumTo(InEscrow(pend), NTx) + (-back)
  BY <1>1, <1>4, <1>5
<1>8. PendsKept
  BY <1>2 DEF DelDoc, PendsKept
<1>9. \A b \in Addrs : b # pend[i].account => bal'[b] = bal[b]
  BY <1>1, <1>2, <1>3 DEF Credit
<1> QED BY <1>6, <1>7, <1>8, <1>9 DEF Balances, Escrowed, back

\* A fee document is left under the transaction's own id.
LEMMA CreateFeeKeeps ==
  ASSUME IInv, TxId \in TxIds, TxId \notin DOMAIN fee, TxId \notin collected.fee,
         NEW a \in Addrs, NEW x \in Int,
         NEW ts \in Stamps, CreateFee(a, x, ts), collected'.fee = collected.fee
  PROVE  FeesKept(ts) /\ FeesLeft' = FeesLeft + x
<1>1. FeesKept(ts)
  <2>1. CASE x = 0
    BY <2>1 DEF CreateFee, FeesKept
  <2>2. CASE x # 0
    BY <2>2 DEF CreateFee, FeesKept, PutDoc
  <2> QED BY <2>1, <2>2
<1>2. SumTo(Outstanding(fee', collected.fee), NTx) = SumTo(Outstanding(fee, collected.fee), NTx) + x
  BY CreateFeeSum DEF IInv
<1> QED BY <1>1, <1>2 DEF FeesLeft

\* transfer, signed by its invoker alone.
LEMMA TransferNowConserves ==
  ASSUME IInv, NEW kid, NEW from \in Addrs, NEW to \in Addrs, NEW amount \in Nat,
         NEW extra, NEW due \in Nat, NEW ts,
         TransferNow(kid, from, to, amount, extra, due, ts)
  PROVE  IInv'
<1> DEFINE charge == CalcFee(from, "transfer", amount)
           less   == Credit(bal, from, -(amount + charge))
           sent   == PutBalanceLog(blog, from, ts,
                       [type |-> "send", diff |-> -amount, fee |-> charge])
           W      == IF due > ts THEN {<<"balance", from>>}
                     ELSE {<<"balance", from>>, <<"balance", to>>}
<1>0. TypeOK /\ TypeOK' /\ Commit(ts, W)
  BY TransferNowType DEF IInv, TransferNow
<1>1. /\ ts \in Stamps /\ TxId \in TxIds /\ TxId \notin DOMAIN pend /\ TxId \notin DOMAIN fee
      /\ TxId \notin DOMAIN pay /\ TxId \notin DOMAIN con /\ TxId \notin collected.fee
  BY <1>0, CommitFacts
<1>2. charge \in Int /\ -(amount + charge) \in Int
  BY <1>0, CalcFeeType DEF Fns
<1>3. /\ Receive(from, to, amount, due, ts, less, sent, pend) /\ CreateFee(from, charge, ts)
      /\ UNCHANGED <<account, token, payCursor, con, pay, feeCursor, collected>>
  BY DEF TransferNow
<1> HIDE DEF charge, sent
<1>4. /\ less \in [Addrs -> Int] /\ SumTo(less, NAddr) = Balances + (-(amount + charge))
      /\ \A a \in Addrs : a # from => less[a] = bal[a]
  <2>1. bal \in [Addrs -> Int]
    BY <1>0 DEF TypeOK
  <2> QED BY <1>2, <2>1, CreditType, CreditSum DEF Balances, Credit
<1> HIDE DEF less
<1>5. IsDocs(pend, TxIds, PendingDoc)
  BY <1>0 DEF TypeOK
<1>6. /\ \/ Balances' = Balances + (-(amount + charge)) /\ Escrowed' = Escrowed + amount
         \/ Balances' = Balances + (-(amount + charge)) + amount /\ Escrowed' = Escrowed
      /\ PendsKept
      /\ \A a \in Addrs : a # to => bal'[a] = less[a]
      /\ due > ts => bal' = less
  BY <1>0, <1>1, <1>3, <1>4, <1>5, ReceiveSum DEF Escrowed, PendsKept
<1>7. FeesKept(ts) /\ FeesLeft' = FeesLeft + charge
  BY <1>1, <1>2, <1>3, CreateFeeKeeps
<1>8. Keeps(ts, W)
  <2>1. PaysKept(ts)
    BY <1>1, <1>3, PaysUntouched
  <2>2. ASSUME NEW a \in Addrs, <<"balance", a>> \notin W PROVE bal'[a] = bal[a]
    <3>1. a # from /\ (due > ts \/ a # to)
      BY <2>2
    <3> QED BY <1>4, <1>6, <3>1
  <2>3. UNCHANGED <<payCursor, feeCursor, collected>> /\ ConsKept /\ NoFeeHeld
    BY <1>1, <1>3, ConsUntouched
  <2> HIDE DEF W
  <2> QED BY <1>6, <1>7, <2>1, <2>2, <2>3 DEF Keeps
<1>9. Conservation'
  <2>1. PaysLeft' = PaysLeft + 0 /\ token'.supply = token.supply + 0
    BY <1>0, <1>3, SumsUntouched DEF TypeOK, TokenDoc
  <2>2. Balances \in Int /\ Escrowed \in Int
    BY <1>0, SumTypes DEF Balances, Escrowed
  <2>3. CASE Balances' = Balances + (-(amount + charge)) /\ Escrowed' = Escrowed + amount
    <3>1. Balanced
      BY <1>0, <1>2, <1>7, <2>1, <2>3, SumsAreInts DEF Balanced
    <3> QED BY <1>0, <3>1, ConservedBy DEF IInv
  <2>4. CASE Balances' = Balances + (-(amount + charge)) + amount /\ Escrowed' = Escrowed
    <3>1. Balances' = Balances + (-charge) /\ Escrowed' = Escrowed + 0
      BY <1>2, <2>2, <2>4
    <3>2. Balanced
      BY <1>0, <1>2, <1>7, <2>1, <3>1, SumsAreInts DEF Balanced
    <3> QED BY <1>0, <3>2, ConservedBy DEF IInv
  <2> QED BY <1>6, <2>3, <2>4
<1> QED BY <1>0, <1>3, <1>8, <1>9, TransactionKeepsIInv

\* A deposit for a contract.
LEMMA DepositConserves ==
  ASSUME IInv, TypeOK', NEW a \in Addrs, NEW amount \in Int, NEW charge \in Int,
         NEW expiry \in Nat, NEW ts, Deposit(a, amount, charge, expiry, ts),
         NEW doc, OpenContract(doc), doc.kind = "pay" => charge = 0,
         Commit(ts, {<<"balance", a>>}),
         UNCHANGED <<token, payCursor, pay, fee, feeCursor, collected>>
  PROVE  IInv'
<1>1. /\ TypeOK /\ TxId \in TxIds /\ TxId \notin DOMAIN pend
      /\ TxId \notin DOMAIN pay /\ TxId \notin DOMAIN fee
  BY CommitFacts DEF IInv
<1>2. /\ Balances' = Balances + (-(amount + charge))
      /\ Escrowed' = Escrowed + (amount + charge)
      /\ PendsKept /\ pend'[TxId].fee = charge
      /\ \A b \in Addrs : b # a => bal'[b] = bal[b]
  BY <1>1, DepositSum
<1>3. Keeps(ts, {<<"balance", a>>})
  <2>1. PaysKept(ts) /\ FeesKept(ts)
    BY <1>1, PaysUntouched, FeesUntouched
  <2>2. \A b \in Addrs : <<"balance", b>> \notin {<<"balance", a>>} => b # a
    OBVIOUS
  <2>3. ConsKept /\ con'[TxId] = doc
    BY DEF OpenContract, PutDoc, ConsKept
  <2>4. NoFeeHeld
    BY <1>2, <2>3 DEF NoFeeHeld
  <2> QED BY <1>2, <2>1, <2>2, <2>3, <2>4 DEF Keeps
<1>4. Conservation'
  <2>1. /\ PaysLeft' = PaysLeft + 0 /\ FeesLeft' = FeesLeft + 0
        /\ token.supply \in Int /\ token' = token
    BY <1>1, SumsUntouched DEF TypeOK, TokenDoc
  <2> DEFINE held == amount + charge
  <2>2. held \in Int /\ Balances' = Balances + (-held) /\ Escrowed' = Escrowed + held
    BY <1>2
  <2> HIDE DEF held
  <2>3. Balanced
    BY <1>1, <2>1, <2>2, SumsAreInts DEF Balanced
  <2> QED BY <1>1, <2>3, ConservedBy DEF IInv
<1> QED BY <1>3, <1>4, TransactionKeepsIInv

\* A withdrawal of a pending balance.
LEMMA WithdrawConserves ==
  ASSUME IInv, TypeOK', NEW i \in DOMAIN pend, NEW ts, Withdraw(i, ts),
         Commit(ts, {<<"balance", pend[i].account>>}),
         UNCHANGED con \/ \E cid, status : CloseContract(cid, status),
         UNCHANGED <<token, payCursor, pay, fee, feeCursor, collected>>
  PROVE  IInv'
<1> DEFINE a == pend[i].account
           back == pend[i].amount + pend[i].fee
<1>1. /\ TypeOK /\ TxId \in TxIds /\ TxId \notin DOMAIN con
      /\ TxId \notin DOMAIN pay /\ TxId \notin DOMAIN fee
  BY CommitFacts DEF IInv
<1>2. /\ Balances' = Balances + back
      /\ Escrowed' = Escrowed + (-back)
      /\ PendsKept
      /\ \A b \in Addrs : b # a => bal'[b] = bal[b]
  BY <1>1, WithdrawSum
<1>3. Keeps(ts, {<<"balance", a>>})
  <2>1. PaysKept(ts) /\ FeesKept(ts) /\ ConsKept /\ NoFeeHeld
    BY <1>1, PaysUntouched, FeesUntouched, ConsUntouched
  <2>2. \A b \in Addrs : <<"balance", b>> \notin {<<"balance", a>>} => b # a
    OBVIOUS
  <2> QED BY <1>2, <2>1, <2>2 DEF Keeps
<1>4. Conservation'
  <2>1. /\ PaysLeft' = PaysLeft + 0 /\ FeesLeft' = FeesLeft + 0
        /\ token.supply \in Int /\ token' = token
    BY <1>1, SumsUntouched DEF TypeOK, TokenDoc
  <2>2. back \in Int
    BY <1>1, PendingType
  <2> HIDE DEF back
  <2>3. -back \in Int /\ token'.supply = token.supply
    BY <2>1, <2>2
  <2>4. Balanced
    BY <1>1, <1>2, <2>1, <2>2, <2>3, SumsAreInts DEF Balanced
  <2> QED BY <1>1, <2>4, ConservedBy DEF IInv
<1> QED BY <1>3, <1>4, TransactionKeepsIInv

\* transfer, when others have to sign.
LEMMA TransferContractConserves ==
  ASSUME IInv, NEW kid, NEW from \in Addrs, NEW to \in Addrs, NEW amount \in Nat,
         NEW extra, NEW due \in Nat, NEW expiry \in Nat, NEW ts,
         TransferContract(kid, from, to, amount, extra, due, expiry, ts)
  PROVE  IInv'
<1> DEFINE charge == CalcFee(from, "transfer", amount)
<1>1. TypeOK' /\ charge \in Int
  BY TransferContractType, CalcFeeType DEF IInv, Fns
<1>2. /\ Deposit(from, amount, charge, expiry, ts) /\ Commit(ts, {<<"balance", from>>})
      /\ UNCHANGED <<token, payCursor, pay, fee, feeCursor, collected>>
  BY DEF TransferContract
<1>3. PICK doc : doc.kind = "transfer" /\ OpenContract(doc)
  BY DEF TransferContract
<1>4. doc.kind = "pay" => charge = 0
  BY <1>3
<1> HIDE DEF charge
<1> QED BY <1>1, <1>2, <1>3, <1>4, DepositConserves

\* The callback of a transfer: the pending balance goes to the receiver, or to
\* its time lock, and to the fees.
LEMMA ExecuteTransferConserves ==
  ASSUME IInv, NEW cid, NEW ts, ExecuteTransfer(cid, ts)
  PROVE  IInv'
<1> DEFINE from    == pend[cid].account
           to      == con[cid].to
           amount  == pend[cid].amount
           charge  == pend[cid].fee
           due     == con[cid].due
           pending == DelDoc(pend, cid)
           W       == IF due > ts THEN {} ELSE {<<"balance", to>>}
<1>0. TypeOK /\ TypeOK' /\ Commit(ts, W) /\ cid \in DOMAIN pend
  BY ExecuteTransferType DEF IInv, ExecuteTransfer, OwnsPending
<1>1. /\ ts \in Stamps /\ TxId \in TxIds /\ TxId \notin DOMAIN pend /\ TxId \notin DOMAIN fee
      /\ TxId \notin DOMAIN pay /\ TxId \notin DOMAIN con /\ TxId \notin collected.fee
  BY <1>0, CommitFacts
<1>2. from \in Addrs /\ amount \in Int /\ charge \in Int
  BY <1>0, PendingType
<1>3. to \in Addrs /\ due \in Nat
  BY <1>0, ContractType DEF ExecuteTransfer
<1>4. /\ Receive(from, to, amount, due, ts, bal, blog, pending) /\ CreateFee(from, charge, ts)
      /\ UNCHANGED <<token, payCursor, pay, feeCursor, collected>>
  BY DEF ExecuteTransfer
<1>5. /\ IsDocs(pending, TxIds, PendingDoc) /\ bal \in [Addrs -> Int]
      /\ DOMAIN pending \subseteq DOMAIN pend
      /\ \A i \in DOMAIN pending : pending[i] = pend[i]
      /\ SumTo(InEscrow(pending), NTx) = Escrowed - (amount + charge)
  BY <1>0, DelDocType, EscrowDel DEF TypeOK, DelDoc, Escrowed
<1> HIDE DEF pending, amount, charge, due, to, from
<1>6. /\ \/ Balances' = Balances /\ Escrowed' = Escrowed - (amount + charge) + amount
         \/ Balances' = Balances + amount /\ Escrowed' = Escrowed - (amount + charge)
      /\ PendsKept
      /\ \A a \in Addrs : a # to => bal'[a] = bal[a]
      /\ due > ts => bal' = bal
  <2>1. TxId \notin DOMAIN pending
    BY <1>1, <1>5
  <2>2. /\ \/ /\ Balances' = SumTo(bal, NAddr)
              /\ Escrowed' = SumTo(InEscrow(pending), NTx) + amount
           \/ /\ Balances' = SumTo(bal, NAddr) + amount
              /\ Escrowed' = SumTo(InEscrow(pending), NTx)
        /\ DOMAIN pend' \subseteq DOMAIN pending \cup {TxId}
        /\ \A i \in DOMAIN pend' \ {TxId} : pend'[i] = pending[i]
        /\ \A a \in Addrs : a # to => bal'[a] = bal[a]
        /\ due > ts => bal' = bal
    BY <1>0, <1>1, <1>2, <1>3, <1>4, <1>5, <2>1, ReceiveSum
  <2>3. PendsKept
    BY <1>5, <2>2 DEF PendsKept
  <2> QED BY <1>5, <2>2, <2>3 DEF Balances
<1>7. FeesKept(ts) /\ FeesLeft' = FeesLeft + charge
  BY <1>1, <1>2, <1>4, CreateFeeKeeps
<1>8. Keeps(ts, W)
  <2>1. PaysKept(ts)
    BY <1>1, <1>4, PaysUntouched
  <2>2. ASSUME NEW a \in Addrs, <<"balance", a>> \notin W PROVE bal'[a] = bal[a]
    BY <1>6, <2>2
  <2>3. ConsKept /\ NoFeeHeld
    BY <1>1, ConsUntouched DEF ExecuteTransfer
  <2> HIDE DEF W
  <2> QED BY <1>4, <1>6, <1>7, <2>1, <2>2, <2>3 DEF Keeps
<1>9. Conservation'
  <2>1. PaysLeft' = PaysLeft + 0 /\ token'.supply = token.supply + 0
    BY <1>0, <1>4, SumsUntouched DEF TypeOK, TokenDoc
  <2>2. Balances \in Int /\ Escrowed \in Int
    BY <1>0, SumTypes DEF Balances, Escrowed
  <2>3. CASE Balances' = Balances /\ Escrowed' = Escrowed - (amount + charge) + amount
    <3>1. /\ Balances' = Balances + 0 /\ Escrowed' = Escrowed + (-charge) /\ -charge \in Int
      BY <1>2, <2>2, <2>3
    <3>2. Balanced
      BY <1>0, <1>2, <1>7, <2>1, <3>1, SumsAreInts DEF Balanced
    <3> QED BY <1>0, <3>2, ConservedBy DEF IInv
  <2>4. CASE Balances' = Balances + amount /\ Escrowed' = Escrowed - (amount + charge)
    <3>1. /\ Escrowed' = Escrowed + (-(amount + charge)) /\ -(amount + charge) \in Int
      BY <1>2, <2>2, <2>4
    <3>2. Balanced
      BY <1>0, <1>2, <1>7, <2>1, <2>4, <3>1, SumsAreInts DEF Balanced
    <3> QED BY <1>0, <3>2, ConservedBy DEF IInv
  <2> QED BY <1>6, <2>3, <2>4
<1> QED BY <1>0, <1>4, <1>8, <1>9, TransactionKeepsIInv

\* The callback of a cancelled contract.
LEMMA CancelTransferConserves ==
  ASSUME IInv, NEW cid, NEW ts, CancelTransfer(cid, ts)
  PROVE  IInv'
<1>1. TypeOK' /\ cid \in DOMAIN pend
  BY CancelTransferType DEF IInv, CancelTransfer, OwnsPending
<1> QED BY <1>1, WithdrawConserves DEF CancelTransfer

\* balance/pending/withdraw.
LEMMA BalancePendingWithdrawConserves ==
  ASSUME IInv, NEW kid, NEW i, NEW ts, BalancePendingWithdraw(kid, i, ts)
  PROVE  IInv'
<1>1. TypeOK' /\ i \in DOMAIN pend
  BY BalancePendingWithdrawType DEF IInv, BalancePendingWithdraw
<1> QED BY <1>1, WithdrawConserves DEF BalancePendingWithdraw

----------------------------------------------------------------------------
(* Pays.                                                                   *)

\* A new pay was not collected.
LEMMA PutPaySum ==
  ASSUME TypeOK, TxId \in TxIds, TxId \notin DOMAIN pay, TxId \notin collected.pay,
         NEW doc \in PayDoc
  PROVE  /\ DOMAIN PutDoc(pay, TxId, doc) = DOMAIN pay \cup {TxId}
         /\ PutDoc(pay, TxId, doc)[TxId] = doc
         /\ \A i \in DOMAIN pay : PutDoc(pay, TxId, doc)[i] = pay[i]
         /\ SumTo(Outstanding(PutDoc(pay, TxId, doc), collected.pay), NTx)
              = PaysLeft + doc.amount
<1>1. (\A i \in DOMAIN pay : pay[i].amount \in Int) /\ doc.amount \in Int
  BY DEF TypeOK, IsDocs, PayDoc
<1>2. SumTo(Outstanding(PutDoc(pay, TxId, doc), collected.pay), NTx)
        = SumTo(Outstanding(pay, collected.pay), NTx) + doc.amount
  BY <1>1, OutstandingPut
<1>3. /\ DOMAIN PutDoc(pay, TxId, doc) = DOMAIN pay \cup {TxId}
      /\ PutDoc(pay, TxId, doc)[TxId] = doc
      /\ \A i \in DOMAIN pay : PutDoc(pay, TxId, doc)[i] = pay[i]
  BY DEF PutDoc
<1> QED BY <1>2, <1>3 DEF PaysLeft

\* pay, signed by its invoker alone.
LEMMA PayNowConserves ==
  ASSUME IInv, NEW kid, NEW from \in Addrs, NEW to \in Addrs, NEW amount \in Nat,
         NEW order \in Texts, NEW memo \in Texts, NEW ts,
         PayNow(kid, from, to, amount, order, memo, ts)
  PROVE  IInv'
<1> DEFINE charge == CalcFee(to, "pay", amount)
           doc == [to |-> to, from |-> from, amount |-> amount, fee |-> charge,
                   totalRefund |-> 0, parent |-> 0, order |-> order,
                   memo |-> memo, created |-> ts]
<1>0. TypeOK /\ TypeOK' /\ Commit(ts, {<<"balance", from>>})
  BY PayNowType DEF IInv, PayNow
<1>1. /\ ts \in Stamps /\ TxId \in TxIds /\ TxId \notin DOMAIN pend /\ TxId \notin DOMAIN con
      /\ TxId \notin DOMAIN pay /\ TxId \notin DOMAIN fee /\ TxId \notin collected.pay
  BY <1>0, CommitFacts
<1>2. charge \in Int /\ -amount \in Int /\ 0 \in Nat /\ bal \in [Addrs -> Int]
  BY <1>0, CalcFeeType DEF Fns, TypeOK
<1>3. /\ pay' = PutDoc(pay, TxId, doc)
      /\ bal' = Credit(bal, from, -amount)
      /\ UNCHANGED <<token, payCursor, pend, con, fee, feeCursor, collected>>
  BY DEF PayNow, PutPay
<1> HIDE DEF charge
<1>doc. doc \in PayDoc /\ doc.created = ts /\ doc.to = to /\ doc.amount = amount
  BY <1>1, <1>2 DEF PayDoc
<1> HIDE DEF doc
<1>4. /\ DOMAIN pay' = DOMAIN pay \cup {TxId} /\ pay'[TxId].created = ts
      /\ \A i \in DOMAIN pay : pay'[i] = pay[i]
      /\ SumTo(Outstanding(pay', collected.pay), NTx) = PaysLeft + amount
  BY <1>0, <1>1, <1>3, <1>doc, PutPaySum
<1>5. /\ Balances' = Balances + (-amount)
      /\ \A a \in Addrs : a # from => bal'[a] = bal[a]
  BY <1>2, <1>3, CreditSum DEF Balances, Credit
<1>6. Keeps(ts, {<<"balance", from>>})
  <2>1. PaysKept(ts) /\ FeesKept(ts) /\ PendsKept /\ ConsKept /\ NoFeeHeld
    BY <1>1, <1>3, <1>4, FeesUntouched, ConsUntouched, PendsUntouched DEF PaysKept
  <2>2. \A b \in Addrs : <<"balance", b>> \notin {<<"balance", from>>} => b # from
    OBVIOUS
  <2> QED BY <1>3, <1>5, <2>1, <2>2 DEF Keeps
<1>7. Conservation'
  <2>1. /\ Escrowed' = Escrowed + 0 /\ FeesLeft' = FeesLeft + 0
        /\ token.supply \in Int /\ token' = token
    BY <1>0, <1>3, SumsUntouched DEF TypeOK, TokenDoc
  <2>2. PaysLeft' = PaysLeft + amount
    BY <1>3, <1>4 DEF PaysLeft
  <2>3. Balanced
    BY <1>0, <1>2, <1>5, <2>1, <2>2, SumsAreInts DEF Balanced
  <2> QED BY <1>0, <2>3, ConservedBy DEF IInv
<1> QED BY <1>0, <1>3, <1>6, <1>7, TransactionKeepsIInv

\* pay, when others have to sign.
LEMMA PayContractConserves ==
  ASSUME IInv, NEW kid, NEW from \in Addrs, NEW to \in Addrs, NEW amount \in Nat,
         NEW order \in Texts, NEW memo \in Texts, NEW expiry \in Nat, NEW ts,
         PayContract(kid, from, to, amount, order, memo, expiry, ts)
  PROVE  IInv'
<1>1. TypeOK' /\ Deposit(from, amount, 0, expiry, ts) /\ Commit(ts, {<<"balance", from>>})
  BY PayContractType DEF IInv, PayContract
<1>2. PICK doc : OpenContract(doc)
  BY DEF PayContract
<1>3. UNCHANGED <<token, payCursor, pay, fee, feeCursor, collected>>
  BY DEF PayContract
<1> QED BY <1>1, <1>2, <1>3, DepositConserves

\* The callback of a payment: its pending balance, which holds no fee, becomes
\* a pay of the merchant.
LEMMA ExecutePayConserves ==
  ASSUME IInv, NEW cid, NEW ts, ExecutePay(cid, ts)
  PROVE  IInv'
<1> DEFINE from   == pend[cid].account
           to     == con[cid].to
           amount == pend[cid].amount
           charge == CalcFee(to, "pay", amount)
           doc    == [to |-> to, from |-> from, amount |-> amount, fee |-> charge,
                      totalRefund |-> 0, parent |-> 0, order |-> con[cid].memo,
                      memo |-> con[cid].order, created |-> ts]
<1>0. /\ TypeOK /\ TypeOK' /\ Commit(ts, {}) /\ cid \in DOMAIN pend /\ cid \in DOMAIN con
      /\ con[cid].kind = "pay" /\ pend[cid].fee = 0
  BY ExecutePayType DEF IInv, ExecutePay, OwnsPending, PaysHoldNoFee
<1>1. /\ ts \in Stamps /\ TxId \in TxIds /\ TxId \notin DOMAIN pend /\ TxId \notin DOMAIN con
      /\ TxId \notin DOMAIN pay /\ TxId \notin DOMAIN fee
      /\ TxId \notin collected.pay
  BY <1>0, CommitFacts
<1>2. from \in Addrs /\ amount \in Int
  BY <1>0, PendingType
<1>3. /\ to \in Addrs /\ charge \in Int /\ 0 \in Nat
      /\ con[cid].order \in Texts /\ con[cid].memo \in Texts
  <2>1. con[cid] \in ContractDoc
    BY <1>0 DEF TypeOK, IsDocs
  <2>2. con[cid].order \in Texts /\ con[cid].memo \in Texts /\ to \in Addrs
    BY <1>0, <2>1 DEF ContractDoc
  <2> QED BY <1>0, <1>2, <2>2, CalcFeeType DEF Fns
<1>4. /\ pay' = PutDoc(pay, TxId, doc)
      /\ pend' = DelDoc(pend, cid)
      /\ UNCHANGED <<token, bal, payCursor, fee, feeCursor, collected>>
  BY DEF ExecutePay, PayPendingBalance, PutPay
<1> HIDE DEF charge, to, from
<1>doc. doc \in PayDoc /\ doc.created = ts /\ doc.to = to /\ doc.amount = amount
  BY <1>1, <1>2, <1>3 DEF PayDoc
<1> HIDE DEF doc
<1>5. /\ DOMAIN pay' = DOMAIN pay \cup {TxId} /\ pay'[TxId].created = ts
      /\ \A i \in DOMAIN pay : pay'[i] = pay[i]
      /\ SumTo(Outstanding(pay', collected.pay), NTx) = PaysLeft + amount
  BY <1>0, <1>1, <1>3, <1>4, <1>doc, PutPaySum
<1>6. Escrowed' = Escrowed + (-amount)
  <2>1. IsDocs(pend, TxIds, PendingDoc) /\ Escrowed \in Int
    BY <1>0, SumTypes DEF TypeOK, Escrowed
  <2>2. SumTo(InEscrow(pend'), NTx) = Escrowed - (amount + 0)
    BY <1>0, <1>4, <2>1, EscrowDel DEF Escrowed
  <2> HIDE DEF amount
  <2>3. Escrowed' = Escrowed - (amount + 0)
    BY <2>2 DEF Escrowed
  <2> QED BY <1>2, <2>1, <2>3
<1>7. Keeps(ts, {})
  <2>1. PaysKept(ts) /\ FeesKept(ts)
    BY <1>1, <1>4, <1>5, FeesUntouched DEF PaysKept
  <2>2. PendsKept /\ ConsKept /\ NoFeeHeld
    BY <1>1, <1>4, ConsUntouched DEF PendsKept, DelDoc, ExecutePay
  <2> QED BY <1>4, <2>1, <2>2 DEF Keeps
<1> HIDE DEF amount
<1>8. Conservation'
  <2>1. /\ Balances' = Balances + 0 /\ FeesLeft' = FeesLeft + 0
        /\ token.supply \in Int /\ token' = token
    BY <1>0, <1>4, SumsUntouched DEF TypeOK, TokenDoc
  <2>2. PaysLeft' = PaysLeft + amount
    BY <1>4, <1>5 DEF PaysLeft
  <2>3. token'.supply = token.supply /\ -amount \in Int
    BY <1>2, <2>1
  <2>4. Balanced
    BY <1>0, <1>2, <1>6, <2>1, <2>2, <2>3, SumsAreInts DEF Balanced
  <2> QED BY <1>0, <2>4, ConservedBy DEF IInv
<1> QED BY <1>0, <1>4, <1>7, <1>8, TransactionKeepsIInv

\* payRefund: the merchant's negative pay against the customer's balance.
LEMMA PayRefundConserves ==
  ASSUME IInv, NEW kid, NEW i, NEW amount \in Nat, NEW ts,
         PayRefund(kid, i, amount, ts)
  PROVE  IInv'
<1> DEFINE parent == pay[i]
           back   == RefundFee(parent, amount)
           doc    == [to |-> parent.to, from |-> parent.from, amount |-> -amount,
                      fee |-> -back, totalRefund |-> 0, parent |-> i, order |-> "",
                      memo |-> "", created |-> ts]
           refund == PutDoc(pay, TxId, doc)
           W      == {<<"pay", i>>, <<"balance", parent.from>>}
<1>0. /\ TypeOK /\ TypeOK' /\ Commit(ts, W) /\ i \in DOMAIN pay /\ amount > 0
      /\ parent.totalRefund + amount <= parent.amount
  BY PayRefundType DEF IInv, PayRefund, MayRefund
<1>1. /\ ts \in Stamps /\ TxId \in TxIds /\ TxId \notin DOMAIN pend /\ TxId \notin DOMAIN con
      /\ TxId \notin DOMAIN pay /\ TxId \notin DOMAIN fee
      /\ TxId \notin collected.pay
  BY <1>0, CommitFacts
<1>2. /\ i \in TxIds /\ parent.to \in Addrs /\ parent.from \in Addrs
      /\ parent.amount \in Int /\ parent.totalRefund \in Nat
  BY <1>0, PayType
<1>3. -back \in Int /\ i \in Nat /\ "" \in Texts /\ -amount \in Int /\ bal \in [Addrs -> Int]
  <2>1. pay[i].amount > 0 /\ amount \in Int
    BY <1>0, <1>2
  <2>2. back \in Int
    BY <1>0, <2>1, RefundFeeType
  <2> HIDE DEF back
  <2> QED BY <1>0, <1>2, <2>2 DEF TxIds, Texts, TypeOK
<1>4. /\ pay' = [refund EXCEPT ![i].totalRefund = @ + amount]
      /\ bal' = Credit(bal, parent.from, amount)
      /\ UNCHANGED <<token, payCursor, pend, con, fee, feeCursor, collected>>
  BY DEF PayRefund, PutPay
<1>doc. /\ doc \in PayDoc /\ doc.created = ts /\ doc.to = parent.to
      /\ doc.amount = -amount
  <2> HIDE DEF parent, back
  <2> QED BY <1>1, <1>2, <1>3 DEF PayDoc
<1> HIDE DEF doc
<1>5. IsDocs(refund, TxIds, PayDoc)
  BY <1>0, <1>1, <1>doc, PutDocType DEF TypeOK
<1>6. /\ DOMAIN refund = DOMAIN pay \cup {TxId} /\ refund[TxId].created = ts
      /\ \A j \in DOMAIN pay : refund[j] = pay[j]
      /\ SumTo(Outstanding(refund, collected.pay), NTx) = PaysLeft + (-amount)
  <2> HIDE DEF parent, back
  <2> QED BY <1>0, <1>1, <1>2, <1>doc, PutPaySum
<1> HIDE DEF refund
<1>7. /\ DOMAIN pay' = DOMAIN refund
      /\ \A j \in DOMAIN refund :
           /\ pay'[j].to = refund[j].to /\ pay'[j].created = refund[j].created
           /\ pay'[j].amount = refund[j].amount /\ pay'[j].fee = refund[j].fee
  <2>1. DOMAIN pay' = DOMAIN refund
    BY <1>4
  <2>2. ASSUME NEW j \in DOMAIN refund
        PROVE  /\ pay'[j].to = refund[j].to /\ pay'[j].created = refund[j].created
               /\ pay'[j].amount = refund[j].amount /\ pay'[j].fee = refund[j].fee
    <3>1. refund[j] \in PayDoc
      BY <1>5 DEF IsDocs
    <3>2. pay'[j] = refund[j] \/ pay'[j] = [refund[j] EXCEPT !.totalRefund = @ + amount]
      BY <1>4
    <3> QED BY <3>1, <3>2 DEF PayDoc
  <2> QED BY <2>1, <2>2
<1>8. SumTo(Outstanding(pay', collected.pay), NTx) = PaysLeft + (-amount)
  <2>1. Outstanding(pay', collected.pay) = Outstanding(refund, collected.pay)
    BY <1>7, OutstandingSame
  <2> QED BY <1>6, <2>1
<1>9. /\ Balances' = Balances + amount
      /\ \A a \in Addrs : a # parent.from => bal'[a] = bal[a]
  <2> HIDE DEF parent
  <2>1. amount \in Int
    OBVIOUS
  <2> QED BY <1>2, <1>3, <1>4, <2>1, CreditSum DEF Balances, Credit
<1>10. Keeps(ts, W)
  <2>1. FeesKept(ts) /\ PendsKept /\ ConsKept /\ NoFeeHeld
    BY <1>1, <1>4, FeesUntouched, ConsUntouched, PendsUntouched
  <2>2. PaysKept(ts)
    <3> HIDE DEF parent, back
    <3> QED BY <1>1, <1>6, <1>7 DEF PaysKept
  <2>3. \A b \in Addrs : <<"balance", b>> \notin W => b # parent.from
    OBVIOUS
  <2> HIDE DEF W, parent
  <2> QED BY <1>4, <1>9, <2>1, <2>2, <2>3 DEF Keeps
<1>11. Conservation'
  <2>1. /\ Escrowed' = Escrowed + 0 /\ FeesLeft' = FeesLeft + 0
        /\ token.supply \in Int /\ token' = token
    BY <1>0, <1>4, SumsUntouched DEF TypeOK, TokenDoc
  <2>2. PaysLeft' = PaysLeft + (-amount)
    BY <1>4, <1>8 DEF PaysLeft
  <2>3. amount \in Int /\ -amount \in Int
    OBVIOUS
  <2> HIDE DEF parent, back, W
  <2>4. Balanced
    BY <1>0, <1>9, <2>1, <2>2, <2>3, SumsAreInts DEF Balanced
  <2> QED BY <1>0, <2>4, ConservedBy DEF IInv
<1> QED BY <1>0, <1>4, <1>10, <1>11, TransactionKeepsIInv

----------------------------------------------------------------------------
(* Prunes.                                                                 *)

\* A step that commits nothing keeps the invariant, if the prunes it endorses
\* are current.
LEMMA LedgerUnchanged ==
  ASSUME IInv, TypeOK', UNCHANGED <<ntx, stamps, ledger>>, clock <= clock',
         \A f \in flight' : Current(f)
  PROVE  IInv'
<1>1. /\ UNCHANGED <<token, bal, payCursor, pend, con, pay, fee, feeCursor, collected>>
      /\ clock \in Int /\ clock' \in Int
  BY SizeAssumption DEF ledger, IInv, TypeOK, StartTime
<1>2. KnownIds' /\ PaysHoldNoFee' /\ CollectedBelow' /\ Conservation'
  BY <1>1 DEF IInv, KnownIds, PaysHoldNoFee, CollectedBelow, Conservation
<1>3. ASSUME NEW f \in flight' PROVE Current(f)'
  <2>1. f.at \in Int
    BY DEF TypeOK, Flight
  <2>2. Current(f)
    OBVIOUS
  <2>3. f.at <= clock'
    BY <1>1, <2>1, <2>2 DEF Current
  <2> QED BY <1>1, <2>2, <2>3 DEF Current, MayMiss, PayRange, FeeRange, PaySum, PayFeeSum, FeeSum
<1> QED BY <1>2, <1>3 DEF IInv, FlightsCurrent

\* The endorsement of a prune of pays.  Documents are read in the order of their
\* created time, so what the page leaves of the range up to its last document was
\* created with that one.
LEMMA PayPruneEndorseConserves ==
  ASSUME IInv, NEW kid, NEW addr \in Addrs, NEW safe \in PruneFlags,
         NEW asked \in Stamps, NEW ts, PayPruneEndorse(kid, addr, safe, asked, ts)
  PROVE  IInv'
<1> DEFINE stop  == PruneEnd(safe, asked, ts)
           range == PayRange(addr, payCursor[addr], stop)
           f(page, last) ==
             [kind |-> "pay", account |-> addr, ids |-> page, base |-> bal[addr],
              sum |-> PaySum(page), fee |-> PayFeeSum(page),
              end |-> pay[last].created, more |-> MoreIn(page, range),
              ts |-> ts, at |-> clock]
<1>0. TypeOK /\ TypeOK' /\ Endorse(ts) /\ UNCHANGED <<clock, ntx, stamps, ledger>>
  BY PayPruneEndorseType DEF IInv, PayPruneEndorse
<1>1. PICK page \in Pages(range, pay), last \in range :
        /\ last \in page /\ \A i \in page : pay[i].created <= pay[last].created
        /\ flight' = flight \cup {f(page, last)}
  BY DEF PayPruneEndorse
<1>2. \A i \in DOMAIN pay : pay[i].created \in Int
  BY <1>0, PayType DEF Stamps
<1>3. /\ range \subseteq DOMAIN pay /\ page \subseteq range
      /\ \A i \in page, j \in range \ page : pay[i].created <= pay[j].created
  BY DEF PayRange, Pages
<1>4. pay[last].created <= stop /\ payCursor[addr] < pay[last].created
  BY <1>3 DEF PayRange
<1>5. stop \in Int
  BY <1>0, SizeAssumption DEF PruneEnd, Endorse, Stamps
<1> HIDE DEF stop
<1> DEFINE upto == PayRange(addr, payCursor[addr], pay[last].created)
<1>6. page \subseteq upto
  BY <1>1, <1>3 DEF PayRange
<1>7. ASSUME NEW i \in upto \ page PROVE pay[i].created = pay[last].created
  <2>1. /\ i \in DOMAIN pay /\ pay[i].to = addr /\ payCursor[addr] < pay[i].created
        /\ pay[i].created <= pay[last].created
    BY DEF PayRange
  <2>2. pay[i].created <= stop
    BY <1>2, <1>3, <1>4, <1>5, <2>1
  <2>3. i \in range
    BY <2>1, <2>2 DEF PayRange
  <2> QED BY <1>1, <1>2, <1>3, <1>7, <2>1, <2>3
<1> HIDE DEF range
<1>8. Current(f(page, last))
  <2>1. clock \in Int
    BY <1>0, SizeAssumption DEF TypeOK, StartTime
  <2> QED BY <1>4, <1>6, <1>7, <2>1 DEF Current, MayMiss
<1> HIDE DEF f
<1>9. clock <= clock'
  BY <1>0, SizeAssumption DEF TypeOK, StartTime
<1> QED BY <1>0, <1>1, <1>8, <1>9, LedgerUnchanged DEF IInv, FlightsCurrent

\* The endorsement of a prune of fees.
LEMMA FeePruneEndorseConserves ==
  ASSUME IInv, NEW kid, NEW safe \in PruneFlags,
         NEW asked \in Stamps, NEW ts, FeePruneEndorse(kid, safe, asked, ts)
  PROVE  IInv'
<1> DEFINE target == token.policy.target
           stop   == PruneEnd(safe, asked, ts)
           range  == FeeRange(feeCursor, stop)
           f(page, last) ==
             [kind |-> "fee", account |-> target, ids |-> page, base |-> bal[target],
              sum |-> FeeSum(page), fee |-> 0, end |-> fee[last].created,
              more |-> MoreIn(page, range), ts |-> ts, at |-> clock]
<1>0. TypeOK /\ TypeOK' /\ Endorse(ts) /\ UNCHANGED <<clock, ntx, stamps, ledger>>
  BY FeePruneEndorseType DEF IInv, FeePruneEndorse
<1>1. PICK page \in Pages(range, fee), last \in range :
        /\ last \in page /\ \A i \in page : fee[i].created <= fee[last].created
        /\ flight' = flight \cup {f(page, last)}
  BY DEF FeePruneEndorse
<1>2. \A i \in DOMAIN fee : fee[i].created \in Int
  BY <1>0 DEF TypeOK, IsDocs, FeeDoc, Stamps
<1>3. /\ range \subseteq DOMAIN fee /\ page \subseteq range
      /\ \A i \in page, j \in range \ page : fee[i].created <= fee[j].created
  BY DEF FeeRange, Pages
<1>4. fee[last].created <= stop /\ feeCursor < fee[last].created
  BY <1>3 DEF FeeRange
<1>5. stop \in Int
  BY <1>0, SizeAssumption DEF PruneEnd, Endorse, Stamps
<1> HIDE DEF stop
<1> DEFINE upto == FeeRange(feeCursor, fee[last].created)
<1>6. page \subseteq upto
  BY <1>1, <1>3 DEF FeeRange
<1>7. ASSUME NEW i \in upto \ page PROVE fee[i].created = fee[last].created
  <2>1. /\ i \in DOMAIN fee /\ feeCursor < fee[i].created
        /\ fee[i].created <= fee[last].created
    BY DEF FeeRange
  <2>2. fee[i].created <= stop
    BY <1>2, <1>3, <1>4, <1>5, <2>1
  <2>3. i \in range
    BY <2>1, <2>2 DEF FeeRange
  <2> QED BY <1>1, <1>2, <1>3, <1>7, <2>1, <2>3
<1> HIDE DEF range, target
<1>8. Current(f(page, last))
  <2>1. clock \in Int
    BY <1>0, SizeAssumption DEF TypeOK, StartTime
  <2> QED BY <1>4, <1>6, <1>7, <2>1 DEF Current, MayMiss
<1> HIDE DEF f
<1>9. clock <= clock'
  BY <1>0, SizeAssumption DEF TypeOK, StartTime
<1> QED BY <1>0, <1>1, <1>8, <1>9, LedgerUnchanged DEF IInv, FlightsCurrent

\* The pays on the page of a current prune were not collected.
LEMMA PayPageFresh ==
  ASSUME TypeOK, CollectedBelow, NEW f, Current(f), f.kind = "pay"
  PROVE  \A i \in f.ids : i \in DOMAIN pay /\ i \notin collected.pay
<1>1. f.ids \subseteq PayRange(f.account, payCursor[f.account], f.end)
  BY DEF Current
<1>2. ASSUME NEW i \in f.ids PROVE i \in DOMAIN pay /\ i \notin collected.pay
  <2>1. i \in DOMAIN pay /\ pay[i].to = f.account /\ payCursor[pay[i].to] < pay[i].created
    BY <1>1 DEF PayRange
  <2>2. pay[i].to \in Addrs /\ pay[i].created \in Int
    BY <2>1, PayType DEF Stamps
  <2>3. payCursor[pay[i].to] \in Int
    BY <2>2 DEF TypeOK, Stamps
  <2> QED BY <2>1, <2>2, <2>3 DEF CollectedBelow
<1> QED BY <1>2

\* The same for the fees.
LEMMA FeePageFresh ==
  ASSUME TypeOK, CollectedBelow, NEW f, Current(f), f.kind = "fee"
  PROVE  \A i \in f.ids : i \in DOMAIN fee /\ i \notin collected.fee
<1>1. f.ids \subseteq FeeRange(feeCursor, f.end)
  BY DEF Current
<1>2. ASSUME NEW i \in f.ids PROVE i \in DOMAIN fee /\ i \notin collected.fee
  <2>1. i \in DOMAIN fee /\ feeCursor < fee[i].created
    BY <1>1 DEF FeeRange
  <2>2. fee[i].created \in Int /\ feeCursor \in Int
    BY <2>1 DEF TypeOK, IsDocs, FeeDoc, Stamps
  <2> QED BY <2>1, <2>2 DEF CollectedBelow
<1> QED BY <1>2

\* The commit of a prune of pays: what is collected goes to the account and, the
\* fees, into one new fee document.
LEMMA PayPruneCommitConserves ==
  ASSUME IInv, NEW f, PayPruneCommit(f)
  PROVE  IInv'
<1> DEFINE a == f.account
           applied == f.sum - f.fee
           W == {<<"balance", a>>}
<1>0. /\ TypeOK /\ TypeOK' /\ CollectedBelow
      /\ Commit(f.ts, W) /\ f \in flight /\ Current(f) /\ f.kind = "pay"
  BY PayPruneCommitType DEF IInv, PayPruneCommit, FlightsCurrent
<1>1. /\ f.ts \in Stamps /\ TxId \in TxIds /\ TxId \notin DOMAIN pend /\ TxId \notin DOMAIN con
      /\ TxId \notin DOMAIN pay /\ TxId \notin DOMAIN fee /\ TxId \notin collected.fee
  BY <1>0, CommitFacts
<1>2. f \in Flight /\ a \in Addrs /\ f.sum \in Int /\ f.fee \in Int /\ f.end \in Int
  <2>1. f \in Flight
    BY <1>0 DEF TypeOK
  <2> QED BY <2>1 DEF Flight, Stamps
<1>3. /\ f.base = bal[a] /\ payCursor[a] < f.end /\ f.sum = PaySum(f.ids)
      /\ f.ids \subseteq PayRange(a, payCursor[a], f.end)
  BY <1>0 DEF Current
<1>4. /\ bal' = [bal EXCEPT ![a] = f.base + applied]
      /\ payCursor' = [payCursor EXCEPT ![a] = f.end]
      /\ CreateFee(a, f.fee, f.ts)
      /\ collected' = [collected EXCEPT !.pay = @ \cup f.ids]
      /\ UNCHANGED <<token, pend, con, pay, feeCursor>>
  BY DEF PayPruneCommit
<1>5. applied \in Int
  BY <1>2
<1>c. collected'.pay = collected.pay \cup f.ids /\ collected'.fee = collected.fee
  BY <1>0, <1>4 DEF TypeOK
<1>6. Balances' = Balances + applied /\ \A b \in Addrs : b # a => bal'[b] = bal[b]
  <2>1. bal \in [Addrs -> Int]
    BY <1>0 DEF TypeOK
  <2> HIDE DEF applied, a
  <2>2. bal' = Credit(bal, a, applied)
    BY <1>2, <1>3, <1>4, <2>1 DEF Credit
  <2> QED BY <1>2, <1>4, <1>5, <2>1, <2>2, CreditSum DEF Balances
<1>7. FeesKept(f.ts) /\ FeesLeft' = FeesLeft + f.fee
  BY <1>1, <1>2, <1>4, <1>c, CreateFeeKeeps
<1>8. PaysLeft' = PaysLeft + (-f.sum)
  <2>1. PaysLeft = PaysLeft' + f.sum
    <3>2. \A i \in f.ids : i \in DOMAIN pay /\ i \notin collected.pay
      BY <1>0, PayPageFresh
    <3>3. PaysLeft' = SumTo(Outstanding(pay, collected.pay \cup f.ids), NTx)
      BY <1>4, <1>c DEF PaysLeft
    <3>4. SumTo(Outstanding(pay, collected.pay), NTx)
            = SumTo(Outstanding(pay, collected.pay \cup f.ids), NTx) + PaySum(f.ids)
      BY <1>0, <3>2, PaysMove
    <3> QED BY <1>3, <3>3, <3>4 DEF PaysLeft
  <2>2. PaysLeft \in Int /\ PaysLeft' \in Int
    <3>1. \A i \in DOMAIN pay : pay[i].amount \in Int
      BY <1>0 DEF TypeOK, IsDocs, PayDoc, FeeDoc
    <3>2. PaysLeft' = SumTo(Outstanding(pay, collected'.pay), NTx)
      BY <1>4 DEF PaysLeft
    <3> QED BY <1>0, <3>1, <3>2, SumsAreInts, OutstandingType, SumToType
  <2> QED BY <1>2, <2>1, <2>2
<1>9. Keeps(f.ts, W)
  <2>1. PaysKept(f.ts) /\ PendsKept /\ ConsKept /\ NoFeeHeld
    BY <1>1, <1>4, PaysUntouched, PendsUntouched, ConsUntouched
  <2>2. \A b \in Addrs : <<"balance", b>> \notin W => b # a
    OBVIOUS
  <2>3. \A b \in Addrs : b # a => payCursor'[b] = payCursor[b]
    BY <1>0, <1>4 DEF TypeOK
  <2> HIDE DEF W, a
  <2> QED BY <1>4, <1>6, <1>7, <2>1, <2>2, <2>3 DEF Keeps
<1>10. CollectedBelow'
  <2>1. ASSUME NEW i \in collected'.pay
        PROVE  i \in DOMAIN pay /\ pay[i].created <= payCursor'[pay[i].to]
    <3>0. payCursor'[a] = f.end
      BY <1>0, <1>2, <1>4 DEF TypeOK
    <3>1. CASE i \in f.ids
      BY <1>3, <3>0, <3>1 DEF PayRange
    <3>2. CASE i \in collected.pay
      <4>1. i \in DOMAIN pay /\ pay[i].created <= payCursor[pay[i].to]
        BY <1>0, <3>2 DEF CollectedBelow
      <4>2. pay[i].to \in Addrs /\ pay[i].created \in Int
        BY <1>0, <4>1, PayType DEF Stamps
      <4>3. CASE pay[i].to # a
        <5>1. payCursor'[pay[i].to] = payCursor[pay[i].to]
          BY <1>0, <1>4, <4>2, <4>3 DEF TypeOK
        <5> QED BY <4>1, <5>1
      <4>4. CASE pay[i].to = a
        <5>1. payCursor[a] \in Int
          BY <1>0, <1>2 DEF TypeOK, Stamps
        <5> HIDE DEF a
        <5> QED BY <1>2, <1>3, <3>0, <4>1, <4>2, <4>4, <5>1
      <4> QED BY <4>3, <4>4
    <3> QED BY <1>c, <3>1, <3>2
  <2>2. ASSUME NEW i \in collected'.fee
        PROVE  i \in DOMAIN fee' /\ fee'[i].created <= feeCursor
    BY <1>0, <1>7, <1>c DEF CollectedBelow, FeesKept
  <2> QED BY <1>4, <2>1, <2>2 DEF CollectedBelow
<1>11. Conservation'
  <2>1. Escrowed' = Escrowed + 0 /\ token'.supply = token.supply + 0
    BY <1>0, <1>4, SumsUntouched DEF TypeOK, TokenDoc
  <2> DEFINE sum == f.sum
             charge == f.fee
  <2>2. /\ sum \in Int /\ charge \in Int /\ Balances' = Balances + (sum - charge)
        /\ PaysLeft' = PaysLeft + (-sum) /\ FeesLeft' = FeesLeft + charge
    BY <1>2, <1>6, <1>7, <1>8
  <2> HIDE DEF sum, charge
  <2>3. Balanced
    BY <1>0, <2>1, <2>2, SumsAreInts DEF Balanced
  <2> QED BY <1>0, <2>3, ConservedBy DEF IInv
<1> QED BY <1>0, <1>9, <1>10, <1>11, CommitKeeps DEF IInv

\* The commit of a prune of fees.
LEMMA FeePruneCommitConserves ==
  ASSUME IInv, NEW f, FeePruneCommit(f)
  PROVE  IInv'
<1> DEFINE a == f.account
           W == {<<"balance", a>>, <<"feeCursor", 0>>}
<1>0. /\ TypeOK /\ TypeOK' /\ CollectedBelow
      /\ Commit(f.ts, W) /\ f \in flight /\ Current(f) /\ f.kind = "fee"
  BY FeePruneCommitType DEF IInv, FeePruneCommit, FlightsCurrent
<1>1. /\ f.ts \in Stamps /\ TxId \in TxIds /\ TxId \notin DOMAIN pend /\ TxId \notin DOMAIN con
      /\ TxId \notin DOMAIN pay /\ TxId \notin DOMAIN fee
  BY <1>0, CommitFacts
<1>2. a \in Addrs /\ f.sum \in Int /\ f.end \in Int
  <2>1. f \in Flight
    BY <1>0 DEF TypeOK
  <2> QED BY <2>1 DEF Flight, Stamps
<1>3. /\ f.base = bal[a] /\ feeCursor < f.end /\ f.sum = FeeSum(f.ids)
      /\ f.ids \subseteq FeeRange(feeCursor, f.end)
  BY <1>0 DEF Current
<1>4. /\ bal' = [bal EXCEPT ![a] = f.base + f.sum] /\ feeCursor' = f.end
      /\ collected' = [collected EXCEPT !.fee = @ \cup f.ids]
      /\ UNCHANGED <<token, payCursor, pend, con, pay, fee>>
  BY DEF FeePruneCommit
<1>c. collected'.fee = collected.fee \cup f.ids /\ collected'.pay = collected.pay
  BY <1>0, <1>4 DEF TypeOK
<1>5. Balances' = Balances + f.sum /\ \A b \in Addrs : b # a => bal'[b] = bal[b]
  <2>1. bal \in [Addrs -> Int]
    BY <1>0 DEF TypeOK
  <2> HIDE DEF a
  <2>2. bal' = Credit(bal, a, f.sum)
    BY <1>2, <1>3, <1>4, <2>1 DEF Credit
  <2> QED BY <1>2, <1>4, <2>1, <2>2, CreditSum DEF Balances
<1>6. FeesLeft' = FeesLeft + (-f.sum)
  <2>1. FeesLeft = FeesLeft' + f.sum
    <3>2. \A i \in f.ids : i \in DOMAIN fee /\ i \notin collected.fee
      BY <1>0, FeePageFresh
    <3>3. FeesLeft' = SumTo(Outstanding(fee, collected.fee \cup f.ids), NTx)
      BY <1>4, <1>c DEF FeesLeft
    <3>4. SumTo(Outstanding(fee, collected.fee), NTx)
            = SumTo(Outstanding(fee, collected.fee \cup f.ids), NTx) + FeeSum(f.ids)
      BY <1>0, <3>2, FeesMove
    <3> QED BY <1>3, <3>3, <3>4 DEF FeesLeft
  <2>2. FeesLeft \in Int /\ FeesLeft' \in Int
    <3>1. \A i \in DOMAIN fee : fee[i].amount \in Int
      BY <1>0 DEF TypeOK, IsDocs, PayDoc, FeeDoc
    <3>2. FeesLeft' = SumTo(Outstanding(fee, collected'.fee), NTx)
      BY <1>4 DEF FeesLeft
    <3> QED BY <1>0, <3>1, <3>2, SumsAreInts, OutstandingType, SumToType
  <2> QED BY <1>2, <2>1, <2>2
<1>7. Keeps(f.ts, W)
  <2>1. PaysKept(f.ts) /\ FeesKept(f.ts) /\ PendsKept /\ ConsKept /\ NoFeeHeld
    BY <1>1, <1>4, PaysUntouched, FeesUntouched, PendsUntouched, ConsUntouched
  <2>2. <<"feeCursor", 0>> \in W /\ \A b \in Addrs : <<"balance", b>> \notin W => b # a
    OBVIOUS
  <2> HIDE DEF W, a
  <2> QED BY <1>4, <1>5, <2>1, <2>2 DEF Keeps
<1>8. CollectedBelow'
  <2>1. ASSUME NEW i \in collected'.fee
        PROVE  i \in DOMAIN fee /\ fee[i].created <= f.end
    <3>1. CASE i \in f.ids
      BY <1>3, <3>1 DEF FeeRange
    <3>2. CASE i \in collected.fee
      <4>1. i \in DOMAIN fee /\ fee[i].created <= feeCursor
        BY <1>0, <3>2 DEF CollectedBelow
      <4>2. fee[i].created \in Int /\ feeCursor \in Int
        BY <1>0, <4>1 DEF TypeOK, IsDocs, FeeDoc, Stamps
      <4> QED BY <1>2, <1>3, <4>1, <4>2
    <3> QED BY <1>c, <3>1, <3>2
  <2> QED BY <1>0, <1>4, <1>c, <2>1 DEF CollectedBelow
<1>9. Conservation'
  <2>1. /\ Escrowed' = Escrowed + 0 /\ PaysLeft' = PaysLeft + 0
        /\ token'.supply = token.supply + 0
    BY <1>0, <1>4, <1>c, SumsUntouched DEF TypeOK, TokenDoc
  <2> DEFINE sum == f.sum
  <2>2. /\ sum \in Int /\ Balances' = Balances + sum
        /\ FeesLeft' = FeesLeft + (-sum)
    BY <1>2, <1>5, <1>6
  <2> HIDE DEF sum
  <2>3. Balanced
    BY <1>0, <2>1, <2>2, SumsAreInts DEF Balanced
  <2> QED BY <1>0, <2>3, ConservedBy DEF IInv
<1> QED BY <1>0, <1>7, <1>8, <1>9, CommitKeeps DEF IInv

----------------------------------------------------------------------------
(* The supply, the accounts and the network.                               *)

\* What is minted or burnt goes to or comes from the genesis account.
LEMMA SupplySum ==
  ASSUME TypeOK, NEW diff \in Int, NEW ts, Supply(diff, ts)
  PROVE  /\ Balances' = Balances + diff /\ token'.supply = token.supply + diff
         /\ \A b \in Addrs : b # Genesis => bal'[b] = bal[b]
<1>1. /\ Genesis \in Addrs /\ bal \in [Addrs -> Int] /\ token \in TokenDoc
      /\ bal' = Credit(bal, Genesis, diff) /\ token' = [token EXCEPT !.supply = @ + diff]
  BY DataAssumption DEF TypeOK, Supply
<1>2. token'.supply = token.supply + diff
  BY <1>1 DEF TokenDoc
<1>3. \A b \in Addrs : b # Genesis => bal'[b] = bal[b]
  BY <1>1 DEF Credit
<1> QED BY <1>1, <1>2, <1>3, CreditSum DEF Balances

\* The same for a mint or a burn of an amount that is cut to what there is.
LEMMA MintBurnSum ==
  ASSUME TypeOK, NEW amount \in Nat, NEW ts, Mint(amount, ts) \/ Burn(amount, ts)
  PROVE  \E diff \in Int :
           /\ Balances' = Balances + diff /\ token'.supply = token.supply + diff
           /\ \A b \in Addrs : b # Genesis => bal'[b] = bal[b]
<1> DEFINE left  == MaxSupply - token.supply
           burnt == Burnable(amount)
<1>1. left \in Int /\ burnt \in Int /\ -burnt \in Int /\ amount \in Int
  BY DataAssumption DEF TypeOK, TokenDoc, Burnable
<1>2. CASE Mint(amount, ts)
  <2>1. Supply(IF left < amount THEN left ELSE amount, ts)
    BY <1>2 DEF Mint
  <2> HIDE DEF left
  <2> DEFINE minted == IF left < amount THEN left ELSE amount
  <2>2. minted \in Int /\ Supply(minted, ts)
    BY <1>1, <2>1
  <2> HIDE DEF minted
  <2> QED BY <2>2, SupplySum
<1>3. CASE Burn(amount, ts)
  <2>1. UNCHANGED <<bal, token>> \/ Supply(-burnt, ts)
    BY <1>3 DEF Burn
  <2> HIDE DEF burnt
  <2>2. CASE UNCHANGED <<bal, token>>
    <3>1. Balances' = Balances + 0 /\ token'.supply = token.supply + 0
      BY <2>2, SumsUntouched DEF TypeOK, TokenDoc
    <3> QED BY <2>2, <3>1
  <2>3. CASE Supply(-burnt, ts)
    BY <1>1, <2>3, SupplySum
  <2> QED BY <2>1, <2>2, <2>3
<1> QED BY <1>2, <1>3

\* A transaction that mints or burns.
LEMMA MintBurnConserves ==
  ASSUME IInv, TypeOK', NEW amount \in Nat, NEW ts,
         \/ Mint(amount, ts) /\ Commit(ts, SupplyKeys)
         \/ Burn(amount, ts) /\ Commit(ts, BurnKeys(amount)),
         UNCHANGED con \/ \E cid, status : CloseContract(cid, status),
         UNCHANGED <<payCursor, pend, pay, fee, feeCursor, collected>>
  PROVE  IInv'
<1>1. /\ TypeOK /\ TxId \notin DOMAIN pend /\ TxId \notin DOMAIN con
      /\ TxId \notin DOMAIN pay /\ TxId \notin DOMAIN fee
  BY CommitFacts DEF IInv
<1>2. PICK diff \in Int :
        /\ Balances' = Balances + diff /\ token'.supply = token.supply + diff
        /\ \A b \in Addrs : b # Genesis => bal'[b] = bal[b]
  BY <1>1, MintBurnSum
<1>k. PICK W : /\ Commit(ts, W)
              /\ \A b \in Addrs : <<"balance", b>> \notin W => bal'[b] = bal[b]
  <2>2. \A b \in Addrs : <<"balance", b>> \notin SupplyKeys => b # Genesis
    BY DEF SupplyKeys
  <2>3. CASE Mint(amount, ts) /\ Commit(ts, SupplyKeys)
    BY <1>2, <2>2, <2>3
  <2>4. CASE Burn(amount, ts) /\ Commit(ts, BurnKeys(amount))
    <3>1. CASE Burnable(amount) <= 0
      BY <2>4, <3>1 DEF Burn, BurnKeys
    <3>2. CASE ~(Burnable(amount) <= 0)
      BY <1>2, <2>2, <2>4, <3>2 DEF BurnKeys
    <3> QED BY <3>1, <3>2
  <2> QED BY <2>3, <2>4
<1>3. Keeps(ts, W)
  <2>1. PaysKept(ts) /\ FeesKept(ts) /\ PendsKept /\ ConsKept /\ NoFeeHeld
    BY <1>1, PaysUntouched, FeesUntouched, PendsUntouched, ConsUntouched
  <2> QED BY <1>k, <2>1 DEF Keeps
<1>4. Conservation'
  <2>1. /\ Escrowed' = Escrowed + 0 /\ PaysLeft' = PaysLeft + 0
        /\ FeesLeft' = FeesLeft + 0
    BY <1>1, SumsUntouched
  <2>2. Balanced
    BY <1>1, <1>2, <2>1, SumsAreInts DEF Balanced
  <2> QED BY <1>1, <2>2, ConservedBy DEF IInv
<1> QED BY <1>k, <1>3, <1>4, TransactionKeepsIInv

\* A transaction that moves no tokens.
LEMMA NoTokensMoved ==
  ASSUME IInv, TypeOK', NEW ts, NEW W, Commit(ts, W), ConsKept,
         UNCHANGED <<bal, payCursor, pend, pay, fee, feeCursor, collected>>,
         token'.supply = token.supply
  PROVE  IInv'
<1>1. /\ TypeOK /\ TxId \notin DOMAIN pend
      /\ TxId \notin DOMAIN pay /\ TxId \notin DOMAIN fee
  BY CommitFacts DEF IInv
<1>2. Keeps(ts, W)
  <2>1. PaysKept(ts) /\ FeesKept(ts) /\ PendsKept /\ NoFeeHeld
    BY <1>1, PaysUntouched, FeesUntouched, PendsUntouched
  <2> QED BY <2>1 DEF Keeps
<1>3. Conservation'
  BY DEF IInv, Conservation
<1> QED BY <1>2, <1>3, TransactionKeepsIInv

\* A mint or a burn that waits for signatures.
LEMMA SupplyContractConserves ==
  ASSUME IInv, TypeOK', NEW kind, NEW amount, NEW ts,
         SupplyContract(kind, amount, ts)
  PROVE  IInv'
<1>1. ConsKept
  BY DEF SupplyContract, OpenContract, PutDoc, ConsKept
<1>2. /\ Commit(ts, {}) /\ token'.supply = token.supply
      /\ UNCHANGED <<bal, payCursor, pend, pay, fee, feeCursor, collected>>
  BY DEF SupplyContract
<1> QED BY <1>1, <1>2, NoTokensMoved

\* tokenMint and tokenBurn.
LEMMA TokenMintBurnConserves ==
  ASSUME IInv, NEW kid, NEW amount \in Nat, NEW ts,
         TokenMint(kid, amount, ts) \/ TokenBurn(kid, amount, ts)
  PROVE  IInv'
<1>1. TypeOK'
  BY TokenMintBurnType DEF IInv
<1>2. \/ /\ \/ Mint(amount, ts) /\ Commit(ts, SupplyKeys)
            \/ Burn(amount, ts) /\ Commit(ts, BurnKeys(amount))
         /\ UNCHANGED <<payCursor, pend, con, pay, fee, feeCursor, collected>>
      \/ SupplyContract("token/mint", amount, ts)
      \/ SupplyContract("token/burn", amount, ts)
  BY DEF TokenMint, TokenBurn
<1> QED BY <1>1, <1>2, MintBurnConserves, SupplyContractConserves

\* The callbacks of their contracts.
LEMMA ExecuteSupplyConserves ==
  ASSUME IInv, NEW cid, NEW ts,
         \/ ExecuteTokenMint(cid, ts) \/ ExecuteTokenBurn(cid, ts) \/ CancelSupply(cid, ts)
  PROVE  IInv'
<1>1. TypeOK' /\ TypeOK
  BY ExecuteSupplyType DEF IInv
<1>2. CASE ExecuteTokenMint(cid, ts) \/ ExecuteTokenBurn(cid, ts)
  <2>1. /\ cid \in DOMAIN con /\ CloseContract(cid, "executed")
        /\ \/ Mint(con[cid].amount, ts) /\ Commit(ts, SupplyKeys)
           \/ Burn(con[cid].amount, ts) /\ Commit(ts, BurnKeys(con[cid].amount))
        /\ UNCHANGED <<payCursor, pend, pay, fee, feeCursor, collected>>
    BY <1>2 DEF ExecuteTokenMint, ExecuteTokenBurn
  <2>2. con[cid].amount \in Nat
    <3>1. con[cid].kind \in {"token/mint", "token/burn"}
      BY <1>2 DEF ExecuteTokenMint, ExecuteTokenBurn
    <3> QED BY <1>1, <2>1, <3>1, ContractType
  <2> QED BY <1>1, <2>1, <2>2, MintBurnConserves
<1>3. CASE CancelSupply(cid, ts)
  <2>1. /\ Commit(ts, {}) /\ CloseContract(cid, "cancelled") /\ token'.supply = token.supply
        /\ UNCHANGED <<bal, payCursor, pend, pay, fee, feeCursor, collected>>
    BY <1>3 DEF CancelSupply
  <2>2. ConsKept
    BY <2>1, CommitFacts, ConsUntouched
  <2> QED BY <1>1, <2>1, <2>2, NoTokensMoved
<1> QED BY <1>2, <1>3

\* tokenUpdate.
LEMMA TokenUpdateConserves ==
  ASSUME IInv, NEW meta \in Metas, NEW ts, TokenUpdate(meta, ts)
  PROVE  IInv'
<1>1. TypeOK' /\ TypeOK
  BY TokenUpdateType DEF IInv
<1>2. token'.supply = token.supply
  BY <1>1 DEF TypeOK, TokenDoc, TokenUpdate
<1>3. ConsKept
  BY DEF TokenUpdate, ConsKept
<1> QED BY <1>1, <1>2, <1>3, NoTokensMoved DEF TokenUpdate

\* accountSuspend and accountUnsuspend.
LEMMA SetSuspendedConserves ==
  ASSUME IInv, NEW kid \in Kids, NEW suspended \in BOOLEAN, NEW ts,
         SetSuspended(kid, suspended, ts)
  PROVE  IInv'
<1>1. TypeOK'
  BY SetSuspendedType DEF IInv
<1>2. ConsKept /\ token'.supply = token.supply
  BY DEF SetSuspended, ConsKept
<1> QED BY <1>1, <1>2, NoTokensMoved DEF SetSuspended

\* An account that is created with nothing replaces an empty balance.
LEMMA CreateEmpty ==
  ASSUME TypeOK, AbsentEmpty, NEW addr \in Addrs, NEW holders, CreateAccount(addr, holders, 0)
  PROVE  UNCHANGED <<bal, payCursor>>
<1>1. bal \in [Addrs -> Int] /\ payCursor \in [Addrs -> {0} \cup Stamps]
  BY DEF TypeOK
<1>2. bal[addr] = 0 /\ payCursor[addr] = 0
  BY DEF AbsentEmpty, CreateAccount
<1> QED BY <1>1, <1>2 DEF CreateAccount

\* accountCreate of a personal account.
LEMMA AccountCreateConserves ==
  ASSUME IInv, AbsentEmpty, NEW kid \in Kids, NEW ts, AccountCreate(kid, ts)
  PROVE  IInv'
<1>1. TypeOK' /\ TypeOK
  BY AccountCreateType DEF IInv
<1>2. kid \in Addrs
  BY SizeAssumption DEF Kids, Addrs
<1>3. UNCHANGED <<bal, payCursor>>
  BY <1>1, <1>2, CreateEmpty DEF AccountCreate
<1>4. ConsKept /\ token'.supply = token.supply
  BY DEF AccountCreate, ConsKept
<1> QED BY <1>1, <1>3, <1>4, NoTokensMoved DEF AccountCreate

\* Everything about joint accounts.
LEMMA JointConserves ==
  ASSUME IInv, AbsentEmpty, JointNext
  PROVE  IInv'
<1>1. TypeOK' /\ TypeOK
  BY JointNextType DEF IInv
<1>2. ASSUME NEW doc, NEW ts, AccountContract(doc, ts) PROVE IInv'
  <2>1. ConsKept
    BY <1>2 DEF AccountContract, OpenContract, PutDoc, ConsKept
  <2>2. /\ Commit(ts, {}) /\ token'.supply = token.supply
        /\ UNCHANGED <<bal, payCursor, pend, pay, fee, feeCursor, collected>>
    BY <1>2 DEF AccountContract
  <2> QED BY <1>1, <2>1, <2>2, NoTokensMoved
<1>3. ASSUME NEW cid, NEW addr \in Joint, NEW ts, ExecuteAccountCreate(cid, addr, ts)
      PROVE  IInv'
  <2>1. UNCHANGED <<bal, payCursor>>
    BY <1>1, <1>3, CreateEmpty DEF ExecuteAccountCreate, Joint
  <2>2. /\ Commit(ts, AccountKeys(addr)) /\ CloseContract(cid, "executed")
        /\ UNCHANGED <<token, pend, pay, fee, feeCursor, collected>>
    BY <1>3 DEF ExecuteAccountCreate
  <2>3. ConsKept
    BY <2>2, CommitFacts, ConsUntouched
  <2> QED BY <1>1, <2>1, <2>2, <2>3, NoTokensMoved
<1>4. ASSUME NEW cid, NEW ts,
             \/ ExecuteAccountHolderAdd(cid, ts) \/ ExecuteAccountHolderRemove(cid, ts)
             \/ CancelAccount(cid, ts)
      PROVE  IInv'
  <2>1. /\ \E W : Commit(ts, W)
        /\ \E status : CloseContract(cid, status)
        /\ UNCHANGED <<token, bal, payCursor, pend, pay, fee, feeCursor, collected>>
    BY <1>4 DEF ExecuteAccountHolderAdd, ExecuteAccountHolderRemove, CancelAccount
  <2>2. ConsKept
    BY <2>1, CommitFacts, ConsUntouched
  <2> QED BY <1>1, <2>1, <2>2, NoTokensMoved
<1>5. ASSUME NEW kid, NEW addr, NEW ts, AccountHolderLeave(kid, addr, ts) PROVE IInv'
  <2>1. /\ Commit(ts, {<<"account", addr>>})
        /\ UNCHANGED <<token, bal, payCursor, pend, con, pay, fee, feeCursor, collected>>
    BY <1>5 DEF AccountHolderLeave
  <2>2. ConsKept
    BY <2>1 DEF ConsKept
  <2> QED BY <1>1, <2>1, <2>2, NoTokensMoved
<1>6. ASSUME NEW kid, NEW addr, NEW other, NEW ts,
             AccountHolderAdd(kid, addr, other, ts) \/ AccountHolderRemove(kid, addr, other, ts)
      PROVE  \E doc : AccountContract(doc, ts)
  BY <1>6 DEF AccountHolderAdd, AccountHolderRemove
<1>7. ASSUME NEW kid, NEW addrs, NEW ts, AccountCreateJoint(kid, addrs, ts)
      PROVE  \E doc : AccountContract(doc, ts)
  BY <1>7 DEF AccountCreateJoint
<1> QED BY <1>2, <1>3, <1>4, <1>5, <1>6, <1>7 DEF JointNext

\* The token starts with all of its supply in the genesis account, which had nothing.
LEMMA CreateTokenConserves ==
  ASSUME IInv, AccountInv, TypeOK', NEW holders, NEW meta, NEW supply \in Nat, NEW ts,
         CreateToken(holders, meta, supply, ts),
         UNCHANGED con \/ \E cid, status : CloseContract(cid, status)
  PROVE  IInv'
<1> DEFINE W == AccountKeys(Genesis) \cup {<<"token", 0>>}
<1>1. /\ TypeOK /\ TxId \notin DOMAIN pend /\ TxId \notin DOMAIN con
      /\ TxId \notin DOMAIN pay /\ TxId \notin DOMAIN fee
  BY CommitFacts DEF IInv, CreateToken
<1>2. /\ Commit(ts, W) /\ CreateAccount(Genesis, holders, supply) /\ ~token.issued
      /\ token'.supply = supply /\ UNCHANGED <<pend, pay, fee, feeCursor, collected>>
  BY DEF CreateToken
<1>3. /\ Genesis \in Addrs /\ bal \in [Addrs -> Int] /\ payCursor \in [Addrs -> {0} \cup Stamps]
      /\ supply \in Int
  BY DataAssumption DEF IInv, TypeOK
<1>4. bal[Genesis] = 0 /\ payCursor[Genesis] = 0 /\ token.supply = 0
  BY <1>2, <1>3 DEF AccountInv, AbsentEmpty, IssuedWithGenesis, CreateAccount
<1>5. bal' = Credit(bal, Genesis, supply) /\ payCursor' = payCursor
  BY <1>2, <1>3, <1>4 DEF CreateAccount, Credit
<1>6. Balances' = Balances + supply /\ \A b \in Addrs : b # Genesis => bal'[b] = bal[b]
  BY <1>3, <1>5, CreditSum DEF Balances, Credit
<1>7. Keeps(ts, W)
  <2>1. PaysKept(ts) /\ FeesKept(ts) /\ PendsKept /\ ConsKept /\ NoFeeHeld
    BY <1>1, <1>2, PaysUntouched, FeesUntouched, PendsUntouched, ConsUntouched
  <2>2. \A b \in Addrs : <<"balance", b>> \notin W => b # Genesis
    BY DEF AccountKeys
  <2> QED BY <1>2, <1>5, <1>6, <2>1, <2>2 DEF Keeps
<1>8. Conservation'
  <2>1. /\ Escrowed' = Escrowed + 0 /\ PaysLeft' = PaysLeft + 0
        /\ FeesLeft' = FeesLeft + 0
    BY <1>1, <1>2, <1>5, SumsUntouched
  <2>2. Balanced
    BY <1>1, <1>2, <1>3, <1>4, <1>6, <2>1, SumsAreInts DEF Balanced
  <2> QED BY <1>1, <2>2, ConservedBy DEF IInv
<1> QED BY <1>2, <1>5, <1>7, <1>8, TransactionKeepsIInv

\* token/create and its callback.
LEMMA TokenCreateConserves ==
  ASSUME IInv, AccountInv, NEW ts, NEW meta \in Metas, NEW supply \in Nat,
         \/ \E kid \in Kids, addrs \in SUBSET Addrs : TokenCreate(kid, addrs, meta, supply, ts)
         \/ \E cid \in TxIds : ExecuteTokenCreate(cid, meta, supply, ts)
  PROVE  IInv'
<1>1. TypeOK' /\ TypeOK
  BY TokenCreateType, ExecuteTokenCreateType DEF IInv
<1>2. \/ \E holders : CreateToken(holders, meta, supply, ts)
           /\ (UNCHANGED con \/ \E cid, status : CloseContract(cid, status))
      \/ \E doc : AccountContract(doc, ts)
  BY DEF TokenCreate, ExecuteTokenCreate, AccountContract
<1>3. CASE \E holders : CreateToken(holders, meta, supply, ts)
             /\ (UNCHANGED con \/ \E cid, status : CloseContract(cid, status))
  BY <1>1, <1>3, CreateTokenConserves
<1>4. CASE \E doc : AccountContract(doc, ts)
  <2>1. ConsKept
    BY <1>4 DEF AccountContract, OpenContract, PutDoc, ConsKept
  <2>2. /\ Commit(ts, {}) /\ token'.supply = token.supply
        /\ UNCHANGED <<bal, payCursor, pend, pay, fee, feeCursor, collected>>
    BY <1>4 DEF AccountContract
  <2> QED BY <1>1, <2>1, <2>2, NoTokensMoved
<1> QED BY <1>2, <1>3, <1>4

\* The clock and the prunes that are lost.
LEMMA NetworkConserves ==
  ASSUME IInv, Network \/ UNCHANGED vars
  PROVE  IInv'
<1>1. TypeOK' /\ TypeOK
  BY NetworkType, NextType DEF IInv
<1>2. UNCHANGED <<ntx, stamps, ledger>> /\ flight' \subseteq flight
  BY DEF Network, Tick, Drop, vars
<1>3. clock <= clock'
  <2>1. clock \in Int
    BY <1>1, SizeAssumption DEF TypeOK, StartTime
  <2>2. clock' = clock \/ clock' = clock + 1
    BY DEF Network, Tick, Drop, vars
  <2> QED BY <2>1, <2>2
<1>4. \A f \in flight' : Current(f)
  BY <1>2 DEF IInv, FlightsCurrent
<1> QED BY <1>1, <1>2, <1>3, <1>4, LedgerUnchanged

----------------------------------------------------------------------------
\* The invariant holds at the start, when all tokens are in the balances.
LEMMA InitIInv == Init => IInv
<1> SUFFICES ASSUME Init PROVE IInv
  OBVIOUS
<1>1. TypeOK
  BY InitType
<1>2. KnownIds /\ PaysHoldNoFee /\ CollectedBelow /\ FlightsCurrent
  BY DEF Init, NoDocs, KnownIds, PaysHoldNoFee, CollectedBelow, FlightsCurrent
<1>3. Conservation
  <2>1. /\ InEscrow(pend) = [i \in 1..NTx |-> 0]
        /\ Outstanding(pay, collected.pay) = [i \in 1..NTx |-> 0]
        /\ Outstanding(fee, collected.fee) = [i \in 1..NTx |-> 0]
    BY DEF Init, NoDocs, InEscrow, Outstanding, TxIds
  <2>2. SumTo([i \in 1..NTx |-> 0], NTx) = 0
    BY SumZero, SizeAssumption
  <2>3. SumTo(bal, NAddr) \in Int /\ token.supply = SumTo(bal, NAddr)
    BY <1>1, SumTypes DEF Init
  <2> QED BY <2>1, <2>2, <2>3 DEF Conservation
<1> QED BY <1>1, <1>2, <1>3 DEF IInv

\* Every handler of pays keeps it.
LEMMA PayConserves ==
  ASSUME IInv, PayNext
  PROVE  IInv'
<1> USE DataAssumption
<1>0. Orders \subseteq Texts /\ Memos \subseteq Texts
  BY DEF Texts
<1>1. CASE \E f \in flight : PayPruneCommit(f)
  BY <1>1, PayPruneCommitConserves
<1>2. CASE \E ts \in Stamps, kid \in Kids, from, to \in Addrs, amount \in Amounts,
              order \in Orders, memo \in Memos : PayNow(kid, from, to, amount, order, memo, ts)
  BY <1>0, <1>2, PayNowConserves
<1>3. CASE \E ts \in Stamps, kid \in Kids, from, to \in Addrs, amount \in Amounts,
              order \in Orders, memo \in Memos, d \in Terms :
                PayContract(kid, from, to, amount, order, memo, ts + d, ts)
  <2>1. PICK ts \in Stamps, kid \in Kids, from, to \in Addrs, amount \in Amounts,
              order \in Orders, memo \in Memos, d \in Terms :
                PayContract(kid, from, to, amount, order, memo, ts + d, ts)
    BY <1>3
  <2>2. ts + d \in Nat
    BY DEF Stamps
  <2> QED BY <1>0, <2>1, <2>2, PayContractConserves
<1>4. CASE \E ts \in Stamps, i \in TxIds : ExecutePay(i, ts)
  BY <1>4, ExecutePayConserves
<1>5. CASE \E ts \in Stamps, kid \in Kids, i \in TxIds, amount \in RefundAmounts :
              PayRefund(kid, i, amount, ts)
  BY <1>5, PayRefundConserves
<1>6. CASE \E ts \in Stamps, kid \in Kids, addr \in Addrs, safe \in PruneFlags,
              asked \in Stamps : PayPruneEndorse(kid, addr, safe, asked, ts)
  BY <1>6, PayPruneEndorseConserves
<1> QED BY <1>1, <1>2, <1>3, <1>4, <1>5, <1>6, PayActions

\* Every step of every handler keeps it.
LEMMA NextIInv == AccountInv /\ IInv /\ [Next]_vars => IInv'
<1> SUFFICES ASSUME AccountInv, IInv, [Next]_vars PROVE IInv'
  OBVIOUS
<1> USE DataAssumption
<1>0. \A t \in Stamps, d \in Terms : t + d \in Nat
  BY DEF Stamps
<1>1. CASE AccountNext
  <2>1. AbsentEmpty
    BY DEF AccountInv
  <2> QED BY <1>1, <2>1, AccountCreateConserves, SetSuspendedConserves, JointConserves
      DEF AccountNext, PersonalNext, AccountSuspend, AccountUnsuspend
<1>2. CASE TransferNext
  <2>1. PICK ts \in Stamps :
          \/ \E kid \in Kids, from, to \in Addrs, amount \in Amounts,
                extra \in ExtraSigners, d, e \in Terms :
               \/ TransferNow(kid, from, to, amount, extra, ts + d, ts)
               \/ TransferContract(kid, from, to, amount, extra, ts + d, ts + e, ts)
          \/ \E i \in TxIds : ExecuteTransfer(i, ts) \/ CancelTransfer(i, ts)
          \/ \E kid \in Kids, i \in TxIds : BalancePendingWithdraw(kid, i, ts)
    BY <1>2 DEF TransferNext
  <2> QED BY <1>0, <2>1, TransferNowConserves, TransferContractConserves,
             ExecuteTransferConserves, CancelTransferConserves,
             BalancePendingWithdrawConserves
<1>3. CASE PayNext
  BY <1>3, PayConserves
<1>4. CASE FeeNext
  BY <1>4, FeePruneEndorseConserves, FeePruneCommitConserves DEF FeeNext
<1>5. CASE SupplyNext
  BY <1>5, SupplyActions, TokenMintBurnConserves, TokenCreateConserves,
     ExecuteSupplyConserves, TokenUpdateConserves
<1>6. CASE Network \/ UNCHANGED vars
  BY <1>6, NetworkConserves
<1> QED BY <1>1, <1>2, <1>3, <1>4, <1>5, <1>6 DEF Next

\* Whatever the timestamps, the ends that prunes are asked for and the order in which
\* they commit: a prune in flight carries, when it commits, the balance of its account
\* and the amounts of documents that no prune has collected, all of those up to its end
\* but the ones that share the created time of its last document or committed after it
\* was endorsed; and what was collected is below the cursors.
THEOREM PrunesStayCurrent == Spec => []IInv
<1>1. Init => IInv
  BY InitIInv
<1>2. AccountInv /\ IInv /\ [Next]_vars => IInv'
  BY NextIInv
<1> QED BY <1>1, <1>2, AccountsWhole, PTL DEF Spec

\* The chaincode creates and loses no tokens: the supply is always what accounts and
\* pending balances have and what lies in the pays and fees that were not collected.
THEOREM TokensConserved == Spec => []Conservation
<1>1. IInv => Conservation
  BY DEF IInv
<1> QED BY <1>1, PrunesStayCurrent, PTL
=============================================================================
