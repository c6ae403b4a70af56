---------------------------- MODULE SafetyProofs ----------------------------
(***************************************************************************)
(* Four theorems about what a step may do: how late a pay or a fee can be, *)
(* how far the supply and the holders of an account can grow, and who can  *)
(* become a holder.                                                        *)
(***************************************************************************)
EXTENDS ConservationProofs

\* Handlers of transfers write neither accounts, nor the token, nor pays.
LEMMA TransfersWrite == TransferNext => UNCHANGED <<account, token, pay>>
<1>1. ASSUME NEW ts, NEW kid, NEW from, NEW to, NEW amount, NEW extra, NEW due,
             TransferNow(kid, from, to, amount, extra, due, ts)
      PROVE  UNCHANGED <<account, token, pay>>
  BY <1>1 DEF TransferNow
<1>2. ASSUME NEW ts, NEW kid, NEW from, NEW to, NEW amount, NEW extra, NEW due, NEW expiry,
             TransferContract(kid, from, to, amount, extra, due, expiry, ts)
      PROVE  UNCHANGED <<account, token, pay>>
  BY <1>2 DEF TransferContract
<1>3. ASSUME NEW ts, NEW i, ExecuteTransfer(i, ts) \/ CancelTransfer(i, ts)
      PROVE  UNCHANGED <<account, token, pay>>
  BY <1>3 DEF ExecuteTransfer, CancelTransfer
<1>4. ASSUME NEW ts, NEW kid, NEW i, BalancePendingWithdraw(kid, i, ts)
      PROVE  UNCHANGED <<account, token, pay>>
  BY <1>4 DEF BalancePendingWithdraw
<1> QED BY <1>1, <1>2, <1>3, <1>4 DEF TransferNext

\* Handlers of accounts write neither pays nor the token.
LEMMA AccountsWrite == AccountNext => UNCHANGED <<pay, token>>
<1>1. ASSUME NEW ts, NEW kid, NEW suspended,
             AccountCreate(kid, ts) \/ SetSuspended(kid, suspended, ts)
      PROVE  UNCHANGED <<pay, token>>
  BY <1>1 DEF AccountCreate, SetSuspended
<1>2. ASSUME NEW ts, NEW doc, AccountContract(doc, ts) PROVE UNCHANGED <<pay, token>>
  BY <1>2 DEF AccountContract
<1>3. ASSUME NEW ts, NEW kid, NEW addr, NEW other,
             AccountHolderAdd(kid, addr, other, ts) \/ AccountHolderRemove(kid, addr, other, ts)
      PROVE  UNCHANGED <<pay, token>>
  BY <1>2, <1>3 DEF AccountHolderAdd, AccountHolderRemove
<1>4. ASSUME NEW ts, NEW kid, NEW addrs, AccountCreateJoint(kid, addrs, ts)
      PROVE  UNCHANGED <<pay, token>>
  BY <1>2, <1>4 DEF AccountCreateJoint
<1>5. ASSUME NEW ts, NEW cid, NEW kid, NEW addr,
             \/ ExecuteAccountCreate(cid, addr, ts) \/ ExecuteAccountHolderAdd(cid, ts)
             \/ ExecuteAccountHolderRemove(cid, ts) \/ CancelAccount(cid, ts)
             \/ AccountHolderLeave(kid, addr, ts)
      PROVE  UNCHANGED <<pay, token>>
  BY <1>5 DEF ExecuteAccountCreate, ExecuteAccountHolderAdd, ExecuteAccountHolderRemove,
              CancelAccount, AccountHolderLeave
<1>6. PersonalNext => UNCHANGED <<pay, token>>
  BY <1>1 DEF PersonalNext, AccountSuspend, AccountUnsuspend
<1>7. JointNext => UNCHANGED <<pay, token>>
  BY <1>3, <1>4, <1>5 DEF JointNext
<1> QED BY <1>6, <1>7 DEF AccountNext

\* Handlers of pays write neither accounts nor the token.
LEMMA PaysWrite == PayNext => UNCHANGED <<account, token>>
<1>1. ASSUME NEW ts, NEW kid, NEW from, NEW to, NEW amount, NEW order, NEW memo,
             PayNow(kid, from, to, amount, order, memo, ts)
      PROVE  UNCHANGED <<account, token>>
  BY <1>1 DEF PayNow
<1>2. ASSUME NEW ts, NEW kid, NEW from, NEW to, NEW amount, NEW order, NEW memo, NEW expiry,
             PayContract(kid, from, to, amount, order, memo, expiry, ts)
      PROVE  UNCHANGED <<account, token>>
  BY <1>2 DEF PayContract
<1>3. ASSUME NEW ts, NEW i, ExecutePay(i, ts) PROVE UNCHANGED <<account, token>>
  BY <1>3 DEF ExecutePay
<1>4. ASSUME NEW ts, NEW kid, NEW i, NEW amount, PayRefund(kid, i, amount, ts)
      PROVE  UNCHANGED <<account, token>>
  BY <1>4 DEF PayRefund
<1>5. ASSUME NEW ts, NEW kid, NEW addr, NEW safe, NEW asked,
             PayPruneEndorse(kid, addr, safe, asked, ts)
      PROVE  UNCHANGED <<account, token>>
  BY <1>5 DEF PayPruneEndorse, ledger
<1>6. ASSUME NEW f, PayPruneCommit(f) PROVE UNCHANGED <<account, token>>
  BY <1>6 DEF PayPruneCommit
<1> QED BY <1>1, <1>2, <1>3, <1>4, <1>5, <1>6 DEF PayNext, PayCalls, PayPrunes

----------------------------------------------------------------------------
(* How late a pay or a fee can be.                                         *)

\* The cursors and the pages in flight stay behind the clocks by the margin.
BehindClock(end) == end = 0 \/ end <= clock + Skew - Margin

CursorsBehind ==
  /\ \A a \in Addrs : BehindClock(payCursor[a])
  /\ BehindClock(feeCursor)
  /\ \A f \in flight : BehindClock(f.end)

\* What a step does to cursors, pages and documents when every prune is a safe one.
InTime ==
  /\ clock <= clock'
  /\ \A a \in Addrs : \/ payCursor'[a] \in {0, payCursor[a]}
                      \/ \E f \in flight : payCursor'[a] = f.end
  /\ feeCursor' = feeCursor \/ \E f \in flight : feeCursor' = f.end
  /\ \A f \in flight' : f \in flight \/ f.end <= clock + Skew - Margin
  /\ \A i \in DOMAIN pay' \ DOMAIN pay : pay'[i].created >= clock - Skew - Latency
  /\ \A i \in DOMAIN fee' \ DOMAIN fee : fee'[i].created >= clock - Skew - Latency

\* A transaction that writes no pay, no fee and no cursor but those of new accounts.
LEMMA QuietInTime ==
  ASSUME TypeOK, NEW ts, NEW W, Commit(ts, W), UNCHANGED <<pay, fee, feeCursor>>,
         \A a \in Addrs : payCursor'[a] \in {0, payCursor[a]}
  PROVE  InTime
BY DEF InTime, Commit, TypeOK, StartTime

\* The cursors after the creation of an account.
LEMMA CreateCursors ==
  ASSUME TypeOK, NEW addr, NEW holders, NEW amount, CreateAccount(addr, holders, amount)
  PROVE  \A a \in Addrs : payCursor'[a] \in {0, payCursor[a]}
BY DEF CreateAccount, TypeOK

\* A commit leaves the clock alone and puts no prune in flight; its timestamp is
\* not much older than the clock.
LEMMA CommitInTime ==
  ASSUME TypeOK, NEW ts, NEW W, Commit(ts, W)
  PROVE  /\ clock' = clock /\ clock <= clock' /\ flight' \subseteq flight
         /\ ts >= clock - Skew - Latency
<1>1. clock \in Int /\ clock' = clock /\ ts \in Int /\ Skew \in Int /\ Latency \in Int
  BY SizeAssumption DEF TypeOK, StartTime, Commit, Stamps
<1> QED BY <1>1 DEF Commit

\* A fee that is left carries the timestamp of its transaction.
LEMMA CreateFeeInTime ==
  ASSUME NEW a, NEW x, NEW ts, CreateFee(a, x, ts), NEW i \in DOMAIN fee' \ DOMAIN fee
  PROVE  fee'[i].created = ts
<1> DEFINE doc == [account |-> a, amount |-> x, created |-> ts]
<1>1. doc.created = ts
  OBVIOUS
<1> HIDE DEF doc
<1>2. fee' = fee \/ fee' = PutDoc(fee, TxId, doc)
  BY DEF CreateFee, doc
<1> QED BY <1>1, <1>2 DEF PutDoc

\* Handlers of accounts move no cursor but those of new accounts.
LEMMA AccountsInTime == ASSUME TypeOK, AccountNext PROVE InTime
<1>1. ASSUME NEW ts, NEW kid, NEW suspended, SetSuspended(kid, suspended, ts) PROVE InTime
  BY <1>1, QuietInTime DEF SetSuspended
<1>2. ASSUME NEW ts, NEW kid, AccountCreate(kid, ts) PROVE InTime
  BY <1>2, QuietInTime, CreateCursors DEF AccountCreate
<1>3. ASSUME NEW ts, NEW doc, AccountContract(doc, ts) PROVE InTime
  BY <1>3, QuietInTime DEF AccountContract
<1>4. ASSUME NEW ts, NEW cid, NEW addr, ExecuteAccountCreate(cid, addr, ts) PROVE InTime
  BY <1>4, QuietInTime, CreateCursors DEF ExecuteAccountCreate
<1>5. ASSUME NEW ts, NEW cid, ExecuteAccountHolderAdd(cid, ts) PROVE InTime
  BY <1>5, QuietInTime DEF ExecuteAccountHolderAdd
<1>6. ASSUME NEW ts, NEW cid, ExecuteAccountHolderRemove(cid, ts) PROVE InTime
  BY <1>6, QuietInTime DEF ExecuteAccountHolderRemove
<1>7. ASSUME NEW ts, NEW cid, CancelAccount(cid, ts) PROVE InTime
  BY <1>7, QuietInTime DEF CancelAccount
<1>8. ASSUME NEW ts, NEW kid, NEW addr, AccountHolderLeave(kid, addr, ts) PROVE InTime
  BY <1>8, QuietInTime DEF AccountHolderLeave
<1>9. PersonalNext => InTime
  BY <1>1, <1>2 DEF PersonalNext, AccountSuspend, AccountUnsuspend
<1>10. JointNext => InTime
  BY <1>3, <1>4, <1>5, <1>6, <1>7, <1>8
     DEF JointNext, AccountCreateJoint, AccountHolderAdd, AccountHolderRemove
<1> QED BY <1>9, <1>10 DEF AccountNext

\* A transfer may leave a fee.
LEMMA TransfersInTime == ASSUME TypeOK, TransferNext PROVE InTime
<1>1. ASSUME NEW ts, NEW W, Commit(ts, W), NEW a, NEW x, CreateFee(a, x, ts),
             UNCHANGED <<pay, payCursor, feeCursor>>
      PROVE  InTime
  <2>1. \A i \in DOMAIN fee' \ DOMAIN fee : fee'[i].created >= clock - Skew - Latency
    BY <1>1, CreateFeeInTime, CommitInTime
  <2>2. clock <= clock' /\ flight' \subseteq flight
    BY <1>1, CommitInTime
  <2> QED BY <1>1, <2>1, <2>2 DEF InTime
<1>2. ASSUME NEW ts, NEW kid, NEW from, NEW to, NEW amount, NEW extra, NEW due,
             TransferNow(kid, from, to, amount, extra, due, ts)
      PROVE  InTime
  BY <1>1, <1>2 DEF TransferNow
<1>3. ASSUME NEW ts, NEW kid, NEW from, NEW to, NEW amount, NEW extra, NEW due, NEW expiry,
             TransferContract(kid, from, to, amount, extra, due, expiry, ts)
      PROVE  InTime
  BY <1>3, QuietInTime DEF TransferContract
<1>4. ASSUME NEW ts, NEW i, ExecuteTransfer(i, ts) PROVE InTime
  BY <1>1, <1>4 DEF ExecuteTransfer
<1>5. ASSUME NEW ts, NEW i, CancelTransfer(i, ts) PROVE InTime
  BY <1>5, QuietInTime DEF CancelTransfer
<1>6. ASSUME NEW ts, NEW kid, NEW i, BalancePendingWithdraw(kid, i, ts) PROVE InTime
  BY <1>6, QuietInTime DEF BalancePendingWithdraw
<1> QED BY <1>2, <1>3, <1>4, <1>5, <1>6 DEF TransferNext

\* The page of a safe prune ends before its timestamp by the margin.
LEMMA SafePage ==
  ASSUME TypeOK, NEW ts, Endorse(ts), NEW asked \in Stamps, NEW end \in Stamps,
         end <= PruneEnd(TRUE, asked, ts)
  PROVE  end <= clock + Skew - Margin
<1>1. /\ clock \in Int /\ ts \in Int /\ Skew \in Int /\ Margin \in Int
      /\ asked \in Int /\ end \in Int
  BY SizeAssumption DEF TypeOK, StartTime, Endorse, Stamps
<1>2. ts <= clock + Skew
  BY DEF Endorse
<1>3. end <= ts - Margin
  BY <1>1 DEF PruneEnd
<1> QED BY <1>1, <1>2, <1>3

\* Payments and refunds leave pays, prunes of pays move a cursor and may leave a fee.
LEMMA PaysInTime == ASSUME TypeOK, AllSafe, PayNext PROVE InTime
<1>1. ASSUME NEW ts, NEW W, Commit(ts, W), UNCHANGED <<fee, payCursor, feeCursor>>,
             NEW doc, doc.created = ts, DOMAIN pay' \subseteq DOMAIN pay \cup {TxId},
             TxId \notin DOMAIN pay => pay'[TxId] = doc
      PROVE  InTime
  <2>1. \A i \in DOMAIN pay' \ DOMAIN pay : pay'[i].created >= clock - Skew - Latency
    BY <1>1, CommitInTime
  <2>2. clock <= clock' /\ flight' \subseteq flight
    BY <1>1, CommitInTime
  <2> QED BY <1>1, <2>1, <2>2 DEF InTime
<1>2. ASSUME NEW ts, NEW kid, NEW from, NEW to, NEW amount, NEW order, NEW memo,
             PayNow(kid, from, to, amount, order, memo, ts)
      PROVE  InTime
  <2> DEFINE doc == [to |-> to, from |-> from, amount |-> amount,
                     fee |-> CalcFee(to, "pay", amount),
                     totalRefund |-> 0, parent |-> 0, order |-> order,
                     memo |-> memo, created |-> ts]
  <2>1. /\ pay' = PutDoc(pay, TxId, doc) /\ Commit(ts, {<<"balance", from>>})
        /\ UNCHANGED <<fee, payCursor, feeCursor>>
    BY <1>2 DEF PayNow, PutPay
  <2>2. doc.created = ts
    OBVIOUS
  <2> HIDE DEF doc
  <2>3. DOMAIN pay' = DOMAIN pay \cup {TxId} /\ pay'[TxId] = doc
    BY <2>1 DEF PutDoc
  <2> QED BY <1>1, <2>1, <2>2, <2>3
<1>3. ASSUME NEW ts, NEW kid, NEW from, NEW to, NEW amount, NEW order, NEW memo, NEW expiry,
             PayContract(kid, from, to, amount, order, memo, expiry, ts)
      PROVE  InTime
  BY <1>3, QuietInTime DEF PayContract
<1>4. ASSUME NEW ts, NEW cid, ExecutePay(cid, ts) PROVE InTime
  <2> DEFINE doc == [to |-> con[cid].to, from |-> pend[cid].account, amount |-> pend[cid].amount,
                     fee |-> CalcFee(con[cid].to, "pay", pend[cid].amount),
                     totalRefund |-> 0, parent |-> 0, order |-> con[cid].memo,
                     memo |-> con[cid].order, created |-> ts]
  <2>1. /\ pay' = PutDoc(pay, TxId, doc) /\ Commit(ts, {})
        /\ UNCHANGED <<fee, payCursor, feeCursor>>
    BY <1>4 DEF ExecutePay, PayPendingBalance, PutPay
  <2>2. doc.created = ts
    OBVIOUS
  <2> HIDE DEF doc
  <2>3. DOMAIN pay' = DOMAIN pay \cup {TxId} /\ pay'[TxId] = doc
    BY <2>1 DEF PutDoc
  <2> QED BY <1>1, <2>1, <2>2, <2>3
<1>5. ASSUME NEW ts, NEW kid, NEW p, NEW amount, PayRefund(kid, p, amount, ts) PROVE InTime
  <2> DEFINE doc == [to |-> pay[p].to, from |-> pay[p].from, amount |-> -amount,
                     fee |-> -RefundFee(pay[p], amount),
                     totalRefund |-> 0, parent |-> p, order |-> "",
                     memo |-> "", created |-> ts]
             refund == PutDoc(pay, TxId, doc)
  <2>1. /\ pay' = [refund EXCEPT ![p].totalRefund = @ + amount]
        /\ p \in DOMAIN pay
        /\ Commit(ts, {<<"pay", p>>, <<"balance", pay[p].from>>})
        /\ UNCHANGED <<fee, payCursor, feeCursor>>
    BY <1>5 DEF PayRefund, PutPay
  <2>2. doc.created = ts
    OBVIOUS
  <2> HIDE DEF doc
  <2>3. DOMAIN refund = DOMAIN pay \cup {TxId} /\ refund[TxId] = doc
    BY DEF PutDoc
  <2> HIDE DEF refund
  <2>4. DOMAIN pay' \subseteq DOMAIN pay \cup {TxId} /\ (TxId \notin DOMAIN pay => pay'[TxId] = doc)
    BY <2>1, <2>3
  <2> QED BY <1>1, <2>1, <2>2, <2>4
<1>6. ASSUME NEW ts, NEW kid, NEW addr \in Addrs, NEW safe \in PruneFlags, NEW asked \in Stamps,
             PayPruneEndorse(kid, addr, safe, asked, ts)
      PROVE  InTime
  <2>1. safe = TRUE
    BY DEF AllSafe
  <2>2. ASSUME NEW f \in flight', f \notin flight PROVE f.end <= clock + Skew - Margin
    <3>1. /\ Endorse(ts)
          /\ \E i \in PayRange(addr, payCursor[addr], PruneEnd(safe, asked, ts)) :
               f.end = pay[i].created
      BY <1>6, <2>2 DEF PayPruneEndorse
    <3>2. PICK i \in DOMAIN pay :
            f.end = pay[i].created /\ pay[i].created <= PruneEnd(safe, asked, ts)
      BY <3>1 DEF PayRange
    <3>3. f.end \in Stamps
      BY <3>2 DEF TypeOK, IsDocs, PayDoc
    <3> QED BY <2>1, <3>1, <3>2, <3>3, SafePage
  <2>3. UNCHANGED <<clock, pay, fee, payCursor, feeCursor>>
    BY <1>6 DEF PayPruneEndorse, ledger
  <2>4. clock <= clock'
    BY <2>3 DEF TypeOK, StartTime
  <2> QED BY <2>2, <2>3, <2>4 DEF InTime
<1>7. ASSUME NEW f, PayPruneCommit(f) PROVE InTime
  <2>1. /\ f \in flight /\ CreateFee(f.account, f.fee, f.ts)
        /\ payCursor' = [payCursor EXCEPT ![f.account] = f.end]
        /\ Commit(f.ts, {<<"balance", f.account>>})
        /\ UNCHANGED <<pay, feeCursor>>
    BY <1>7 DEF PayPruneCommit
  <2>2. \A a \in Addrs : payCursor'[a] = payCursor[a] \/ payCursor'[a] = f.end
    BY <2>1 DEF TypeOK
  <2>3. \A i \in DOMAIN fee' \ DOMAIN fee : fee'[i].created >= clock - Skew - Latency
    BY <2>1, CreateFeeInTime, CommitInTime
  <2>4. clock <= clock' /\ flight' \subseteq flight
    BY <2>1, CommitInTime
  <2> QED BY <2>1, <2>2, <2>3, <2>4 DEF InTime
<1> QED BY <1>2, <1>3, <1>4, <1>5, <1>6, <1>7 DEF PayNext, PayCalls, PayPrunes

\* Prunes of fees move the cursor of the token.
LEMMA FeesInTime == ASSUME TypeOK, AllSafe, FeeNext PROVE InTime
<1>1. ASSUME NEW ts, NEW kid, NEW safe \in PruneFlags, NEW asked \in Stamps,
             FeePruneEndorse(kid, safe, asked, ts)
      PROVE  InTime
  <2>1. safe = TRUE
    BY DEF AllSafe
  <2>2. ASSUME NEW f \in flight', f \notin flight PROVE f.end <= clock + Skew - Margin
    <3>1. /\ Endorse(ts)
          /\ \E i \in FeeRange(feeCursor, PruneEnd(safe, asked, ts)) : f.end = fee[i].created
      BY <1>1, <2>2 DEF FeePruneEndorse
    <3>2. PICK i \in DOMAIN fee :
            f.end = fee[i].created /\ fee[i].created <= PruneEnd(safe, asked, ts)
      BY <3>1 DEF FeeRange
    <3>3. f.end \in Stamps
      BY <3>2 DEF TypeOK, IsDocs, FeeDoc
    <3> QED BY <2>1, <3>1, <3>2, <3>3, SafePage
  <2>3. UNCHANGED <<clock, pay, fee, payCursor, feeCursor>>
    BY <1>1 DEF FeePruneEndorse, ledger
  <2>4. clock <= clock'
    BY <2>3 DEF TypeOK, StartTime
  <2> QED BY <2>2, <2>3, <2>4 DEF InTime
<1>2. ASSUME NEW f, FeePruneCommit(f) PROVE InTime
  <2>1. /\ f \in flight /\ feeCursor' = f.end
        /\ Commit(f.ts, {<<"balance", f.account>>, <<"feeCursor", 0>>})
        /\ UNCHANGED <<pay, fee, payCursor>>
    BY <1>2 DEF FeePruneCommit
  <2>2. clock <= clock' /\ flight' \subseteq flight
    BY <2>1, CommitInTime
  <2> QED BY <2>1, <2>2 DEF InTime
<1> QED BY <1>1, <1>2 DEF FeeNext

\* Handlers of the token write no pay and no fee.
LEMMA SupplyInTime == ASSUME TypeOK, SupplyNext PROVE InTime
<1>1. ASSUME NEW ts, NEW W, Commit(ts, W), UNCHANGED <<pay, fee, payCursor, feeCursor>>
      PROVE  InTime
  BY <1>1, QuietInTime
<1>2. ASSUME NEW ts, NEW kid, NEW amount, TokenMint(kid, amount, ts) PROVE InTime
  BY <1>1, <1>2 DEF TokenMint, SupplyContract
<1>3. ASSUME NEW ts, NEW kid, NEW amount, TokenBurn(kid, amount, ts) PROVE InTime
  BY <1>1, <1>3 DEF TokenBurn, SupplyContract
<1>4. ASSUME NEW ts, NEW holders, NEW meta, NEW amount, CreateToken(holders, meta, amount, ts)
      PROVE  InTime
  BY <1>4, QuietInTime, CreateCursors DEF CreateToken
<1>5. ASSUME NEW ts, NEW kid, NEW addrs, NEW meta, NEW amount,
             TokenCreate(kid, addrs, meta, amount, ts)
      PROVE  InTime
  BY <1>1, <1>4, <1>5 DEF TokenCreate
<1>6. ASSUME NEW ts, NEW cid, NEW meta, NEW amount, ExecuteTokenCreate(cid, meta, amount, ts)
      PROVE  InTime
  BY <1>4, <1>6 DEF ExecuteTokenCreate
<1>7. ASSUME NEW ts, NEW cid, ExecuteTokenMint(cid, ts) PROVE InTime
  BY <1>1, <1>7 DEF ExecuteTokenMint
<1>8. ASSUME NEW ts, NEW cid, ExecuteTokenBurn(cid, ts) PROVE InTime
  BY <1>1, <1>8 DEF ExecuteTokenBurn
<1>9. ASSUME NEW ts, NEW cid, CancelSupply(cid, ts) PROVE InTime
  BY <1>1, <1>9 DEF CancelSupply
<1>10. ASSUME NEW ts, NEW meta, TokenUpdate(meta, ts) PROVE InTime
  BY <1>1, <1>10 DEF TokenUpdate
<1> QED BY <1>2, <1>3, <1>5, <1>6, <1>7, <1>8, <1>9, <1>10, SupplyActions

\* The network moves the clock and loses prunes.
LEMMA NetworkInTime == ASSUME TypeOK, Network \/ UNCHANGED vars PROVE InTime
<1>1. clock \in Int
  BY DEF TypeOK, StartTime
<1>2. UNCHANGED ledger /\ flight' \subseteq flight /\ clock <= clock'
  BY <1>1 DEF Network, Tick, Drop, vars
<1> QED BY <1>2 DEF InTime, ledger

\* Every step, with the prunes that the callers make.
LEMMA StepsInTime == ASSUME TypeOK, AllSafe, [Next]_vars PROVE InTime
BY AccountsInTime, TransfersInTime, PaysInTime, FeesInTime, SupplyInTime, NetworkInTime DEF Next

\* The cursors stay behind.
LEMMA CursorsStayBehind ==
  ASSUME TypeOK, TypeOK', InTime, CursorsBehind
  PROVE  CursorsBehind'
<1>1. clock \in Int /\ clock' \in Int /\ Skew \in Int /\ Margin \in Int /\ clock <= clock'
  BY SizeAssumption DEF TypeOK, StartTime, InTime
<1>2. /\ \A a \in Addrs : payCursor[a] \in Int /\ payCursor'[a] \in Int
      /\ feeCursor \in Int /\ feeCursor' \in Int
      /\ (\A f \in flight : f.end \in Int) /\ (\A f \in flight' : f.end \in Int)
  BY DEF TypeOK, Stamps, Flight
<1>3. ASSUME NEW a \in Addrs PROVE BehindClock(payCursor[a])'
  <2>1. BehindClock(payCursor'[a])
    BY DEF InTime, CursorsBehind, BehindClock
  <2> QED BY <1>1, <1>2, <2>1 DEF BehindClock
<1>4. BehindClock(feeCursor)'
  <2>1. BehindClock(feeCursor')
    BY DEF InTime, CursorsBehind
  <2> QED BY <1>1, <1>2, <2>1 DEF BehindClock
<1>5. ASSUME NEW f \in flight' PROVE BehindClock(f.end)'
  <2>1. BehindClock(f.end)
    BY DEF InTime, CursorsBehind, BehindClock
  <2> QED BY <1>1, <1>2, <2>1 DEF BehindClock
<1> QED BY <1>3, <1>4, <1>5 DEF CursorsBehind

\* A new document lies below a cursor that stays behind by no more than that.
LEMMA LateBy ==
  ASSUME TypeOK, NEW end \in Int, BehindClock(end), NEW created \in Int,
         created >= clock - Skew - Latency
  PROVE  end = 0 \/ end - created <= 2 * Skew + Latency - Margin
<1>1. clock \in Int /\ Skew \in Int /\ Margin \in Int /\ Latency \in Int
  BY SizeAssumption DEF TypeOK, StartTime
<1> QED BY <1>1 DEF BehindClock

\* What a step leaves is not later than that.
LEMMA LateStep ==
  ASSUME TypeOK, TypeOK', InTime, CursorsBehind
  PROVE  /\ \A i \in DOMAIN pay' \ DOMAIN pay :
              \/ payCursor[pay'[i].to] = 0
              \/ payCursor[pay'[i].to] - pay'[i].created <= 2 * Skew + Latency - Margin
         /\ \A i \in DOMAIN fee' \ DOMAIN fee :
              feeCursor = 0 \/ feeCursor - fee'[i].created <= 2 * Skew + Latency - Margin
<1>1. ASSUME NEW i \in DOMAIN pay' \ DOMAIN pay
      PROVE  \/ payCursor[pay'[i].to] = 0
             \/ payCursor[pay'[i].to] - pay'[i].created <= 2 * Skew + Latency - Margin
  <2>1. pay'[i].to \in Addrs /\ pay'[i].created \in Int
    BY DEF TypeOK, IsDocs, PayDoc, Stamps
  <2>2. payCursor[pay'[i].to] \in Int /\ BehindClock(payCursor[pay'[i].to])
    BY <2>1 DEF TypeOK, Stamps, CursorsBehind
  <2>3. pay'[i].created >= clock - Skew - Latency
    BY DEF InTime
  <2> QED BY <2>1, <2>2, <2>3, LateBy
<1>2. ASSUME NEW i \in DOMAIN fee' \ DOMAIN fee
      PROVE  feeCursor = 0 \/ feeCursor - fee'[i].created <= 2 * Skew + Latency - Margin
  <2>1. fee'[i].created \in Int
    BY DEF TypeOK, IsDocs, FeeDoc, Stamps
  <2>2. feeCursor \in Int /\ BehindClock(feeCursor)
    BY DEF TypeOK, Stamps, CursorsBehind
  <2>3. fee'[i].created >= clock - Skew - Latency
    BY DEF InTime
  <2> QED BY <2>1, <2>2, <2>3, LateBy
<1> QED BY <1>1, <1>2

\* Prunes of ten minutes before their timestamp leave behind no pay and no fee that
\* is later, by the clocks, than these differ and a transaction takes to commit,
\* less the margin: with the code's margin, than it takes to commit.
THEOREM LatenessBounded == ASSUME AllSafe PROVE Spec => LateBound
<1>1. Init => TypeOK /\ CursorsBehind
  BY InitType DEF Init, CursorsBehind, BehindClock
<1>2. TypeOK /\ CursorsBehind /\ [Next]_vars => TypeOK' /\ CursorsBehind'
  BY NextType, StepsInTime, CursorsStayBehind
<1>3. TypeOK /\ CursorsBehind /\ [Next]_vars =>
        [LET late == 2 * Skew + Latency - Margin
         IN  /\ \A i \in DOMAIN pay' \ DOMAIN pay :
                  \/ payCursor[pay'[i].to] = 0
                  \/ payCursor[pay'[i].to] - pay'[i].created <= late
             /\ \A i \in DOMAIN fee' \ DOMAIN fee :
                  feeCursor = 0 \/ feeCursor - fee'[i].created <= late]_vars
  BY NextType, StepsInTime, LateStep
<1> QED BY <1>1, <1>2, <1>3, PTL DEF Spec, LateBound

----------------------------------------------------------------------------
\* A mint stops at the maximum and a burn only takes away.
LEMMA MintBurnWithinMax ==
  ASSUME TypeOK, SupplyWithinMax, NEW amount \in Nat, NEW ts,
         Mint(amount, ts) \/ Burn(amount, ts)
  PROVE  SupplyWithinMax'
<1> DEFINE left  == MaxSupply - token.supply
           burnt == Burnable(amount)
<1>1. token.supply \in Int /\ MaxSupply \in Int /\ bal[Genesis] \in Int /\ token \in TokenDoc
  BY DataAssumption DEF TypeOK, TokenDoc
<1>2. CASE Mint(amount, ts)
  <2>1. token' = [token EXCEPT !.supply = @ + IF left < amount THEN left ELSE amount]
    BY <1>2 DEF Mint, Supply
  <2>2. token'.supply = token.supply + IF left < amount THEN left ELSE amount
    BY <1>1, <2>1 DEF TokenDoc
  <2> QED BY <1>1, <2>2 DEF SupplyWithinMax
<1>3. CASE Burn(amount, ts)
  <2>1. CASE token' = token
    BY <2>1 DEF SupplyWithinMax
  <2>2. CASE burnt > 0 /\ token' = [token EXCEPT !.supply = @ + (-burnt)]
    <3>1. token'.supply = token.supply + (-burnt)
      BY <1>1, <2>2 DEF TokenDoc
    <3>2. burnt \in Int
      BY <1>1 DEF Burnable
    <3> HIDE DEF burnt
    <3>3. token'.supply <= token.supply
      BY <1>1, <2>2, <3>1, <3>2
    <3> QED BY <1>1, <3>1, <3>2, <3>3 DEF SupplyWithinMax
  <2>3. burnt \in Int
    BY <1>1 DEF Burnable
  <2> QED BY <1>3, <2>1, <2>2, <2>3 DEF Burn, Supply
<1> QED BY <1>2, <1>3

\* Only the creation of the token, which asks for no more than the maximum, and
\* mints and burns write the supply.
LEMMA SupplyWriters ==
  ASSUME TypeOK, [Next]_vars
  PROVE  \/ token'.supply = token.supply \/ token'.supply <= MaxSupply
         \/ \E amount \in Nat, ts \in Stamps : Mint(amount, ts) \/ Burn(amount, ts)
<1> USE DataAssumption
<1>1. CASE AccountNext
  BY <1>1, AccountsWrite
<1>2. CASE TransferNext
  BY <1>2, TransfersWrite
<1>3. CASE PayNext
  BY <1>3, PaysWrite
<1>4. CASE FeeNext
  BY <1>4 DEF FeeNext, FeePruneEndorse, FeePruneCommit, ledger
<1>5. CASE SupplyNext
  <2>1. ASSUME NEW ts \in Stamps, NEW kid, NEW amount \in Amounts,
               TokenMint(kid, amount, ts) \/ TokenBurn(kid, amount, ts)
        PROVE  token'.supply = token.supply \/ Mint(amount, ts) \/ Burn(amount, ts)
    BY <2>1 DEF TokenMint, TokenBurn, SupplyContract
  <2>2. ASSUME NEW ts \in Stamps, NEW cid,
               ExecuteTokenMint(cid, ts) \/ ExecuteTokenBurn(cid, ts)
        PROVE  con[cid].amount \in Nat /\ (Mint(con[cid].amount, ts) \/ Burn(con[cid].amount, ts))
    BY <2>2, ContractType DEF ExecuteTokenMint, ExecuteTokenBurn
  <2>3. ASSUME NEW ts \in Stamps, NEW cid, CancelSupply(cid, ts)
        PROVE  token'.supply = token.supply
    BY <2>3 DEF CancelSupply
  <2>4. ASSUME NEW ts \in Stamps, NEW meta, TokenUpdate(meta, ts)
        PROVE  token'.supply = token.supply
    BY <2>4 DEF TokenUpdate, TypeOK, TokenDoc
  <2>5. ASSUME NEW ts, NEW kid, NEW cid, NEW addrs, NEW meta, NEW amount,
               TokenCreate(kid, addrs, meta, amount, ts) \/ ExecuteTokenCreate(cid, meta, amount, ts)
        PROVE  token'.supply = token.supply \/ token'.supply <= MaxSupply
    BY <2>5 DEF TokenCreate, ExecuteTokenCreate, CreateToken
  <2> QED BY <1>5, <2>1, <2>2, <2>3, <2>4, <2>5, SupplyActions
<1>6. CASE Network \/ UNCHANGED vars
  BY <1>6 DEF Network, Tick, Drop, vars, ledger
<1> QED BY <1>1, <1>2, <1>3, <1>4, <1>5, <1>6 DEF Next

\* Any number of mint contracts may be signed while the supply is small: when
\* they are executed, the supply still stays within its maximum.
THEOREM SupplyBounded == Spec => []SupplyWithinMax
<1>1. Init => SupplyWithinMax
  BY DataAssumption DEF Init, SupplyWithinMax
<1>2. TypeOK /\ SupplyWithinMax /\ [Next]_vars => SupplyWithinMax'
  <2> SUFFICES ASSUME TypeOK, SupplyWithinMax, [Next]_vars PROVE SupplyWithinMax'
    OBVIOUS
  <2>1. CASE token'.supply = token.supply \/ token'.supply <= MaxSupply
    BY <2>1 DEF SupplyWithinMax
  <2> QED BY <2>1, SupplyWriters, MintBurnWithinMax
<1>3. TypeOK /\ [Next]_vars => TypeOK'
  BY NextType
<1>4. Init => TypeOK
  BY InitType
<1> QED BY <1>1, <1>2, <1>3, <1>4, PTL DEF Spec

----------------------------------------------------------------------------
(* Who becomes a holder.                                                   *)

\* The handlers that write the holders of an account.
LEMMA HolderWriters ==
  ASSUME AccountInv, [Next]_vars
  PROVE  \/ \A a \in Addrs : account'[a].holders = account[a].holders
         \/ \E kid \in Kids : CreateAccount(kid, {kid}, 0)
         \/ \E cid \in DOMAIN con, addr \in Joint :
              /\ con[cid].kind \in {"account/create", "token/create"}
              /\ CloseContract(cid, "executed")
              /\ \E amount : CreateAccount(addr, con[cid].holders, amount)
         \/ \E kid \in Kids : \E amount : CreateAccount(Genesis, {kid}, amount)
         \/ \E cid \in DOMAIN con :
              /\ con[cid].kind = "account/holder/add" /\ CloseContract(cid, "executed")
              /\ CanAdd(con[cid].account, con[cid].holder)
              /\ AddHolder(con[cid].account, con[cid].holder)
         \/ \E addr \in Addrs, k \in Kids : CanRemove(addr, k) /\ RemoveHolder(addr, k)
<1> DEFINE Same == \A a \in Addrs : account'[a].holders = account[a].holders
<1>0. TypeOK
  BY DEF AccountInv
<1>1. CASE UNCHANGED account
  BY <1>1
<1>2. CASE PersonalNext
  <2>1. ASSUME NEW ts, NEW kid, NEW suspended, SetSuspended(kid, suspended, ts) PROVE Same
    BY <1>0, <2>1 DEF SetSuspended, TypeOK, AccountDoc
  <2>2. ASSUME NEW ts, NEW kid, AccountCreate(kid, ts) PROVE CreateAccount(kid, {kid}, 0)
    BY <2>2 DEF AccountCreate
  <2> HIDE DEF Same
  <2>3. Same \/ \E kid \in Kids : CreateAccount(kid, {kid}, 0)
    BY <1>2, <2>1, <2>2 DEF PersonalNext, AccountSuspend, AccountUnsuspend
  <2> QED BY <2>3 DEF Same
<1>3. CASE JointNext
  <2>1. PICK ts \in Stamps :
          \/ \E kid \in Kids :
               \/ \E addrs \in CoHolders : AccountCreateJoint(kid, addrs, ts)
               \/ \E addr \in Joint :
                    \/ AccountHolderLeave(kid, addr, ts)
                    \/ \E other \in Kids : \/ AccountHolderAdd(kid, addr, other, ts)
                                           \/ AccountHolderRemove(kid, addr, other, ts)
          \/ \E cid \in TxIds :
               \/ \E addr \in Joint \ {Genesis} : ExecuteAccountCreate(cid, addr, ts)
               \/ ExecuteAccountHolderAdd(cid, ts) \/ ExecuteAccountHolderRemove(cid, ts)
               \/ CancelAccount(cid, ts)
    BY <1>3 DEF JointNext
  <2>2. ASSUME NEW kid \in Kids, NEW addr \in Joint, AccountHolderLeave(kid, addr, ts)
        PROVE  \E a \in Addrs, k \in Kids : CanRemove(a, k) /\ RemoveHolder(a, k)
    BY <2>2 DEF AccountHolderLeave, Joint
  <2>3. ASSUME NEW kid, NEW addr, NEW other, NEW addrs,
               \/ AccountCreateJoint(kid, addrs, ts) \/ AccountHolderAdd(kid, addr, other, ts)
               \/ AccountHolderRemove(kid, addr, other, ts) \/ CancelAccount(addr, ts)
        PROVE  UNCHANGED account
    BY <2>3 DEF AccountCreateJoint, AccountHolderAdd, AccountHolderRemove, CancelAccount,
                AccountContract
  <2>4. ASSUME NEW cid, NEW addr, ExecuteAccountCreate(cid, addr, ts)
        PROVE  /\ cid \in DOMAIN con /\ con[cid].kind = "account/create"
               /\ CloseContract(cid, "executed") /\ CreateAccount(addr, con[cid].holders, 0)
    BY <2>4 DEF ExecuteAccountCreate
  <2>5. ASSUME NEW cid, ExecuteAccountHolderAdd(cid, ts)
        PROVE  /\ cid \in DOMAIN con /\ con[cid].kind = "account/holder/add"
               /\ CloseContract(cid, "executed")
               /\ CanAdd(con[cid].account, con[cid].holder)
               /\ AddHolder(con[cid].account, con[cid].holder)
    BY <2>5 DEF ExecuteAccountHolderAdd
  <2>6. ASSUME NEW cid, ExecuteAccountHolderRemove(cid, ts)
        PROVE  \E a \in Addrs, k \in Kids : CanRemove(a, k) /\ RemoveHolder(a, k)
    BY <1>0, <2>6, ContractType DEF ExecuteAccountHolderRemove, StillRemovable
  <2> QED BY <2>1, <2>2, <2>3, <2>4, <2>5, <2>6
<1>4. CASE SupplyNext
  <2>1. ASSUME NEW ts, NEW kid, NEW cid, NEW amount, NEW meta,
               \/ TokenMint(kid, amount, ts) \/ TokenBurn(kid, amount, ts)
               \/ ExecuteTokenMint(cid, ts) \/ ExecuteTokenBurn(cid, ts)
               \/ CancelSupply(cid, ts) \/ TokenUpdate(meta, ts)
        PROVE  UNCHANGED account
    BY <2>1 DEF TokenMint, TokenBurn, ExecuteTokenMint, ExecuteTokenBurn, CancelSupply,
                TokenUpdate, SupplyContract
  <2>2. ASSUME NEW ts, NEW kid \in Kids, NEW addrs, NEW meta, NEW amount,
               TokenCreate(kid, addrs, meta, amount, ts)
        PROVE  UNCHANGED account \/ CreateAccount(Genesis, {kid}, amount)
    BY <2>2 DEF TokenCreate, CreateToken
  <2>3. ASSUME NEW ts, NEW cid, NEW meta, NEW amount, ExecuteTokenCreate(cid, meta, amount, ts)
        PROVE  /\ cid \in DOMAIN con /\ con[cid].kind = "token/create"
               /\ CloseContract(cid, "executed")
               /\ CreateAccount(Genesis, con[cid].holders, amount)
    BY <2>3 DEF ExecuteTokenCreate, CreateToken
  <2>4. Genesis \in Joint
    BY DataAssumption DEF Joint
  <2> QED BY <1>4, <2>1, <2>2, <2>3, <2>4, SupplyActions
<1>5. FeeNext \/ Network \/ UNCHANGED vars => UNCHANGED account
  BY DEF FeeNext, FeePruneEndorse, FeePruneCommit, Network, Tick, Drop, vars, ledger
<1> QED BY <1>1, <1>2, <1>3, <1>4, <1>5, TransfersWrite, PaysWrite DEF Next, AccountNext

\* What the creation of an account and a change of its holders write.
LEMMA HoldersAfter ==
  ASSUME TypeOK, NEW addr \in Addrs, NEW holders, NEW amount, NEW k, NEW a \in Addrs
  PROVE  /\ CreateAccount(addr, holders, amount) =>
              /\ ~Exists(addr)
              /\ account'[a].holders = IF a = addr THEN holders ELSE account[a].holders
         /\ AddHolder(addr, k) =>
              account'[a].holders = IF a = addr THEN account[a].holders \cup {k}
                                                ELSE account[a].holders
         /\ RemoveHolder(addr, k) => account'[a].holders \subseteq account[a].holders
<1>1. account \in [Addrs -> AccountDoc]
  BY DEF TypeOK
<1>2. account[a] \in AccountDoc /\ account[addr] \in AccountDoc
  BY <1>1
<1>3. CreateAccount(addr, holders, amount) =>
        /\ ~Exists(addr)
        /\ account'[a].holders = IF a = addr THEN holders ELSE account[a].holders
  BY <1>1, <1>2 DEF CreateAccount
<1>4. ASSUME NEW S, account' = [account EXCEPT ![addr].holders = S]
      PROVE  account'[a].holders = IF a = addr THEN S ELSE account[a].holders
  <2>1. account'[a] = IF a = addr THEN [account[addr] EXCEPT !.holders = S] ELSE account[a]
    BY <1>1, <1>4
  <2>2. [account[addr] EXCEPT !.holders = S].holders = S
    BY <1>2 DEF AccountDoc
  <2> QED BY <2>1, <2>2
<1>5. AddHolder(addr, k) => account'[a].holders = IF a = addr THEN account[a].holders \cup {k}
                                                             ELSE account[a].holders
  <2>1. AddHolder(addr, k) =>
          account' = [account EXCEPT ![addr].holders = account[addr].holders \cup {k}]
    BY DEF AddHolder
  <2> QED BY <1>4, <2>1
<1>6. RemoveHolder(addr, k) => account'[a].holders \subseteq account[a].holders
  <2>1. RemoveHolder(addr, k) =>
          account' = [account EXCEPT ![addr].holders = account[addr].holders \ {k}]
    BY DEF RemoveHolder
  <2> QED BY <1>4, <2>1
<1> QED BY <1>3, <1>5, <1>6

\* An account that exists gains one holder at a time, while there is room.
LEMMA AdditionsStep ==
  ASSUME AccountInv, [Next]_vars, NEW a \in Addrs, Exists(a),
         ~(account'[a].holders \subseteq account[a].holders)
  PROVE  Cardinality(account'[a].holders) <= MaxSigners
<1>0. TypeOK /\ Kids \subseteq Addrs /\ Genesis \in Addrs /\ Joint \subseteq Addrs
  BY SizeAssumption, DataAssumption DEF AccountInv, Kids, Addrs, Joint
<1>1. ASSUME NEW addr \in Addrs, NEW holders, NEW amount, CreateAccount(addr, holders, amount)
      PROVE  FALSE
  BY <1>0, <1>1, HoldersAfter
<1>2. ASSUME NEW addr \in Addrs, NEW k, CanRemove(addr, k) /\ RemoveHolder(addr, k)
      PROVE  FALSE
  BY <1>0, <1>2, HoldersAfter
<1>3. PICK cid \in DOMAIN con :
        /\ con[cid].kind = "account/holder/add"
        /\ CanAdd(con[cid].account, con[cid].holder)
        /\ AddHolder(con[cid].account, con[cid].holder)
  BY <1>0, <1>1, <1>2, HolderWriters
<1> DEFINE addr == con[cid].account
           k == con[cid].holder
<1>4. addr \in Addrs
  BY <1>0, <1>3, ContractType
<1>5. a = addr /\ account'[a].holders = account[a].holders \cup {k}
  BY <1>0, <1>3, <1>4, HoldersAfter
<1>6. /\ IsFiniteSet(account[a].holders) /\ Cardinality(account[a].holders) \in Nat
      /\ Cardinality(account[a].holders) < MaxSigners /\ k \notin account[a].holders
  BY <1>0, <1>3, <1>5, HoldersType DEF CanAdd, HasHolder
<1>7. Cardinality(account'[a].holders) = Cardinality(account[a].holders) + 1
  <2>1. \A S : IsFiniteSet(S) /\ k \notin S => Cardinality(S \cup {k}) = Cardinality(S) + 1
    <3> SUFFICES ASSUME NEW S, IsFiniteSet(S), k \notin S
                 PROVE  Cardinality(S \cup {k}) = Cardinality(S) + 1
      OBVIOUS
    <3> HIDE DEF k
    <3>1. Cardinality(S \cup {k}) = IF k \in S THEN Cardinality(S) ELSE Cardinality(S) + 1
      BY FS_AddElement
    <3> QED BY <3>1
  <2> QED BY <1>5, <1>6, <2>1
<1> QED BY <1>6, <1>7, SizeAssumption

\* However many additions were signed while there was room, no account that
\* exists is taken beyond the limit by one of them.
THEOREM AdditionsLimited == Spec => AdditionsWithinLimit
<1>1. AccountInv /\ [Next]_vars =>
        [\A a \in Addrs :
           Exists(a) /\ ~(account'[a].holders \subseteq account[a].holders)
             => Cardinality(account'[a].holders) <= MaxSigners]_vars
  BY AdditionsStep
<1> QED BY <1>1, AccountsWhole, PTL DEF Spec, AdditionsWithinLimit

\* A new holder of a joint account signed for it.
LEMMA ConsentStep ==
  ASSUME AccountInv, [Next]_vars, NEW a \in Joint, NEW k \in Kids,
         ~HasHolder(a, k), k \in account'[a].holders
  PROVE  \/ \E cid \in DOMAIN con : /\ con[cid].status = "open"
                                    /\ con'[cid].status = "executed"
                                    /\ k \in con[cid].signers
         \/ a = Genesis /\ account'[a].holders = {k}
<1>0. /\ TypeOK /\ Kids \subseteq Addrs /\ Genesis \in Addrs /\ Joint \subseteq Addrs
      /\ k \notin account[a].holders /\ a \in Addrs
  BY SizeAssumption, DataAssumption DEF AccountInv, Kids, Addrs, Joint, HasHolder
<1>1. ASSUME NEW cid \in DOMAIN con, CloseContract(cid, "executed")
      PROVE  con[cid].status = "open" /\ con'[cid].status = "executed"
  <2>1. con[cid] \in ContractDoc /\ con' = [con EXCEPT ![cid].status = "executed"]
    BY <1>0, <1>1 DEF CloseContract, TypeOK, IsDocs
  <2>2. con'[cid] = [con[cid] EXCEPT !.status = "executed"]
    BY <2>1
  <2> QED BY <1>1, <2>1, <2>2 DEF CloseContract, ContractDoc
<1>2. ASSUME NEW kid \in Kids, CreateAccount(kid, {kid}, 0) PROVE FALSE
  BY <1>0, <1>2, HoldersAfter DEF Joint
<1>3. ASSUME NEW cid \in DOMAIN con, NEW addr \in Joint,
             con[cid].kind \in {"account/create", "token/create"},
             NEW amount, CreateAccount(addr, con[cid].holders, amount)
      PROVE  k \in con[cid].signers
  <2>1. con[cid].holders \subseteq con[cid].signers
    BY <1>3 DEF AccountInv, ContractsAgreed, Agreed
  <2>2. account'[a].holders = IF a = addr THEN con[cid].holders ELSE account[a].holders
    BY <1>0, <1>3, HoldersAfter
  <2> QED BY <1>0, <2>1, <2>2
<1>4. ASSUME NEW kid \in Kids, NEW amount, CreateAccount(Genesis, {kid}, amount)
      PROVE  a = Genesis /\ account'[a].holders = {k}
  <2>1. account'[a].holders = IF a = Genesis THEN {kid} ELSE account[a].holders
    BY <1>0, <1>4, HoldersAfter
  <2> QED BY <1>0, <2>1
<1>5. ASSUME NEW cid \in DOMAIN con, con[cid].kind = "account/holder/add",
             AddHolder(con[cid].account, con[cid].holder)
      PROVE  k \in con[cid].signers
  <2>1. con[cid].account \in Addrs
    BY <1>0, <1>5, ContractType
  <2>2. con[cid].holder \in con[cid].signers
    BY <1>5 DEF AccountInv, ContractsAgreed, Agreed
  <2>3. account'[a].holders = IF a = con[cid].account THEN account[a].holders \cup {con[cid].holder}
                                                     ELSE account[a].holders
    BY <1>0, <1>5, <2>1, HoldersAfter
  <2> QED BY <1>0, <2>2, <2>3
<1>6. ASSUME NEW addr \in Addrs, NEW j, RemoveHolder(addr, j) PROVE FALSE
  BY <1>0, <1>6, HoldersAfter
<1> QED BY <1>0, <1>1, <1>2, <1>3, <1>4, <1>5, <1>6, HolderWriters

\* Nobody becomes a holder of a joint account, at its creation or later, without
\* having signed the contract that does it.
THEOREM HoldersAgree == Spec => HoldersConsent
<1>1. AccountInv /\ [Next]_vars =>
        [\A a \in Joint, k \in Kids : ~HasHolder(a, k) /\ k \in account'[a].holders =>
           \/ \E cid \in DOMAIN con : /\ con[cid].status = "open"
                                     /\ con'[cid].status = "executed"
                                     /\ k \in con[cid].signers
           \/ a = Genesis /\ account'[a].holders = {k}]_vars
  BY ConsentStep
<1> QED BY <1>1, AccountsWhole, PTL DEF Spec, HoldersConsent
=============================================================================
