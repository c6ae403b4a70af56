-------------------------------- MODULE Fee ---------------------------------
(***************************************************************************)
(* fee_tx.go and fee_stub.go: the fee documents left by transfers and      *)
(* prunes of pays are collected by the holders of the target account of    *)
(* the fee policy, one page above the cursor of the token at a time.       *)
(***************************************************************************)
EXTENDS WorldState

\* FeeRange, were its end not part of it.
FeeRangeBefore(start, end) ==
  {i \in DOMAIN fee : start < fee[i].created /\ fee[i].created < end}

\* QueryPruneFee: the fees of the token created in (start, end].
FeeRange(start, end) ==
  {i \in DOMAIN fee : start < fee[i].created /\ fee[i].created <= end}

FeeSum(ids) == SumTo([i \in TxIds |-> IF i \in ids THEN fee[i].amount ELSE 0], NTx)

\* A peer runs the handler.  A suspended target account may prune.
FeePruneEndorse(kid, safe, asked, ts) ==
  LET target == token.policy.target
      range  == FeeRange(feeCursor, PruneEnd(safe, asked, ts))
  IN  /\ token.issued /\ token.policy # NoPolicy
      /\ HasHolder(target, kid)
      /\ Endorse(ts)
      /\ \E page \in Pages(range, fee), last \in range :
           /\ last \in page /\ \A i \in page : fee[i].created <= fee[last].created
           /\ flight' = flight \cup
                {[kind |-> "fee", account |-> target, ids |-> page, base |-> bal[target],
                  sum |-> FeeSum(page), fee |-> 0, end |-> fee[last].created,
                  more |-> MoreIn(page, range), ts |-> ts, at |-> clock]}
      /\ UNCHANGED <<clock, ntx, stamps, ledger>>

FeePruneCommit(f) ==
  /\ f \in flight /\ f.kind = "fee" /\ clock <= f.at + Latency
  /\ bal' = [bal EXCEPT ![f.account] = f.base + f.sum]
  /\ feeCursor' = f.end
  /\ blog' = PutBalanceLog(blog, f.account, f.ts,
               [type |-> "pruneFee", diff |-> f.sum, fee |-> 0])
  /\ collected' = [collected EXCEPT !.fee = @ \cup f.ids]
  /\ Commit(f.ts, {<<"balance", f.account>>, <<"feeCursor", 0>>})
  /\ UNCHANGED <<account, holder, token, payCursor, pend, con, pay, fee>>

FeeNext ==
  \/ \E ts \in Stamps, kid \in Kids, safe \in PruneFlags, asked \in Stamps :
       FeePruneEndorse(kid, safe, asked, ts)
  \/ \E f \in flight : FeePruneCommit(f)
=============================================================================
