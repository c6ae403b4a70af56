----------------------------- MODULE Collection -----------------------------
(***************************************************************************)
(* What callers get who do not give up.  The chaincode starts nothing by   *)
(* itself: merchants call pay/prune and the holders of the target account  *)
(* call fee/prune again as long as it finds something, and the owner of a  *)
(* pending balance calls balance/pending/withdraw until it is gone.        *)
(* Between their calls the other callers do what they like.                *)
(***************************************************************************)
EXTENDS KiesnetToken

CONSTANT CallerTx  \* bound: the callers' own transactions are among the first CallerTx

\* The other ids are for those who collect: a payment is pruned, and its fee is; a
\* suspension is ended, and what is pending is withdrawn.
ASSUME CallerAssumption == CallerTx \in Nat /\ 3 * CallerTx <= NTx

----------------------------------------------------------------------------
\* pay/prune and fee/prune with the ten minutes flag and no end time, stamped by a
\* clock that is right.
CollectPays(addr) == \E kid \in Kids : PayPruneEndorse(kid, addr, TRUE, clock, clock)
CollectFees       == \E kid \in Kids : FeePruneEndorse(kid, TRUE, clock, clock)

Call       == (\E addr \in Addrs : CollectPays(addr)) \/ CollectFees
CommitCall == \E f \in flight : PayPruneCommit(f) \/ FeePruneCommit(f)

\* A prune that was not committed in time is known to be lost.
Expire == \E f \in flight : clock > f.at + Latency /\ Drop(f)

CollectNext == (ntx < CallerTx /\ PayCalls) \/ Call \/ CommitCall \/ Network

\* As long as there is something to collect somebody calls again.  A prune is lost now
\* and then, or conflicts with a payment or a refund, but not each one.
CollectFairness ==
  WF_vars(Tick) /\ WF_vars(Expire) /\ WF_vars(Call) /\ SF_vars(CommitCall)

CollectSpec == Init /\ [][CollectNext]_vars /\ CollectFairness

\* Of the pays of one merchant with one created time a page may hold some and leave the
\* others for good.  A pay whose created time is its own is collected or it is not.
PayCollected(i) ==
  \E j \in collected.pay : pay[j].to = pay[i].to /\ pay[j].created = pay[i].created

FeeCollected(i) == \E j \in collected.fee : fee[j].created = fee[i].created

\* Every payment and refund that a safe prune can reach before the time stops is added
\* to the balance of its merchant in the end, page after page, also when prunes are lost
\* and payments keep coming; or, where several have one created time, one of them is.
PaysCollected ==
  \A i \in 1..CallerTx :
    i \in DOMAIN pay /\ pay[i].created + Margin <= MaxTime
      ~> i \in DOMAIN pay /\ PayCollected(i)

\* The same for every fee, also for that of a refund, which costs the target.
FeesCollected ==
  []<>(\A i \in DOMAIN fee : fee[i].created + Margin <= MaxTime => FeeCollected(i))

----------------------------------------------------------------------------
Reclaim(i) == \E kid \in Kids : BalancePendingWithdraw(kid, i, clock)

ReclaimNext ==
  \/ ntx < CallerTx /\ (TransferNext \/ PayCalls \/ PersonalNext)
  \/ \E i \in TxIds : Reclaim(i)
  \/ \E kid \in Kids : AccountUnsuspend(kid, clock)
  \/ Tick

\* Owners who find that something is due keep asking for it.
ReclaimFairness ==
  /\ WF_vars(Tick)
  /\ WF_vars(\E i \in TxIds : Reclaim(i))
  /\ WF_vars(\E kid \in Kids : AccountUnsuspend(kid, clock))

ReclaimSpec == Init /\ [][ReclaimNext]_vars /\ ReclaimFairness

\* No pending balance is stuck: when it is due its owner gets it, a time lock as well as
\* the amount and the fee held for a contract that is never signed, unless the contract
\* takes it first.
PendingReleased ==
  \A i \in 1..CallerTx :
    i \in DOMAIN pend /\ pend[i].due <= MaxTime ~> i \notin DOMAIN pend
=============================================================================
