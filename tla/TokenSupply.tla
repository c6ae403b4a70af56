---------------------------- MODULE TokenSupply -----------------------------
(***************************************************************************)
(* token_tx.go and token_stub.go: issuing the token with its genesis       *)
(* account, minting and burning its supply, directly or through a contract *)
(* of the holders of the genesis account, and the update of the fee policy *)
(* from the KNT chaincode.                                                 *)
(***************************************************************************)
EXTENDS WorldState

SupplyLog(diff) ==
  [type |-> IF diff < 0 THEN "burn" ELSE "mint", diff |-> diff, fee |-> 0]

\* TargetExists, were the target account taken on trust.
TargetTrusted(meta) == meta \in Meta

\* A target account that the KNT chaincode names must exist.
TargetExists(meta) == meta.fee /\ meta.target # NoAddr => Exists(meta.target)

\* The fee policy a token is issued with when the KNT chaincode answers `meta'.
IssuedPolicy(meta) ==
  IF ~meta.fee THEN NoPolicy
  ELSE [rates |-> meta.rates,
        target |-> IF meta.target # NoAddr THEN meta.target ELSE Genesis]

\* TokenStub.CreateToken: the genesis account with the initial supply, then the
\* token.  The target of the policy must have existed before.
CreateToken(holders, meta, supply, ts) ==
  /\ ~token.issued /\ supply <= MaxSupply /\ TargetExists(meta)
  /\ CreateAccount(Genesis, holders, supply)
  /\ blog' = IF supply > 0 THEN PutBalanceLog(blog, Genesis, ts, SupplyLog(supply)) ELSE blog
  /\ token' = [issued |-> TRUE, supply |-> supply, policy |-> IssuedPolicy(meta)]
  /\ Commit(ts, AccountKeys(Genesis) \cup {<<"token", 0>>})
  /\ UNCHANGED <<pend, pay, fee, feeCursor, collected>>

\* token/create: alone, or by a contract that all holders sign.
TokenCreate(kid, addrs, meta, supply, ts) ==
  LET holders == {kid} \cup SignableIDs(addrs)
  IN  /\ ~token.issued /\ supply <= MaxSupply
      /\ \A a \in addrs : Exists(a)
      /\ IF holders = {kid}
         THEN CreateToken(holders, meta, supply, ts) /\ UNCHANGED con
         ELSE /\ OpenContract([kind |-> "token/create", status |-> "open",
                               holders |-> holders, signers |-> holders])
              /\ Commit(ts, {})
              /\ UNCHANGED <<account, holder, token, bal, payCursor, blog, pend, pay, fee, feeCursor, collected>>

\* The contract callback asks the KNT chaincode again.
ExecuteTokenCreate(cid, meta, supply, ts) ==
  /\ cid \in DOMAIN con /\ con[cid].kind = "token/create"
  /\ CloseContract(cid, "executed")
  /\ CreateToken(con[cid].holders, meta, supply, ts)

\* Balance and log of the genesis account and supply of the token, all by diff.
Supply(diff, ts) ==
  /\ bal' = Credit(bal, Genesis, diff)
  /\ blog' = PutBalanceLog(blog, Genesis, ts, SupplyLog(diff))
  /\ token' = [token EXCEPT !.supply = @ + diff]

\* Mint, were the amount signed for not cut to what is left.
MintUncut(amount, ts) == token.supply < MaxSupply /\ Supply(amount, ts)

\* TokenStub.Mint: no more than what is left below the maximum supply.
Mint(amount, ts) ==
  LET left == MaxSupply - token.supply
  IN  /\ token.supply < MaxSupply
      /\ Supply(IF left < amount THEN left ELSE amount, ts)

\* Burnable, were the amount signed for not cut to what the account has.
BurnableUncut(amount) == amount

\* TokenStub.Burn burns no more than the genesis account has.
Burnable(amount) == IF bal[Genesis] < amount THEN bal[Genesis] ELSE amount

\* TokenStub.Burn returns early when there is nothing to burn.
Burn(amount, ts) ==
  /\ token.supply # 0
  /\ IF Burnable(amount) <= 0 THEN UNCHANGED <<bal, blog, token>>
                              ELSE Supply(-Burnable(amount), ts)

SupplyKeys == {<<"token", 0>>, <<"balance", Genesis>>}

BurnKeys(amount) == IF Burnable(amount) <= 0 THEN {} ELSE SupplyKeys

SupplyContract(kind, amount, ts) ==
  /\ OpenContract([kind |-> kind, status |-> "open", amount |-> amount])
  /\ Commit(ts, {})
  /\ UNCHANGED <<account, holder, token, bal, payCursor, blog, pend, pay, fee, feeCursor, collected>>

\* `amount' is the amount the KNT chaincode answers with.
TokenMint(kid, amount, ts) ==
  /\ token.issued /\ token.supply < MaxSupply /\ HasHolder(Genesis, kid)
  /\ IF account[Genesis].holders = {kid}
     THEN /\ Mint(amount, ts)
          /\ Commit(ts, SupplyKeys)
          /\ UNCHANGED <<account, holder, payCursor, pend, con, pay, fee, feeCursor, collected>>
     ELSE SupplyContract("token/mint", amount, ts)

TokenBurn(kid, amount, ts) ==
  /\ token.issued /\ HasHolder(Genesis, kid) /\ bal[Genesis] # 0 /\ amount <= token.supply
  /\ IF account[Genesis].holders = {kid}
     THEN /\ Burn(amount, ts)
          /\ Commit(ts, BurnKeys(amount))
          /\ UNCHANGED <<account, holder, payCursor, pend, con, pay, fee, feeCursor, collected>>
     ELSE SupplyContract("token/burn", amount, ts)

ExecuteTokenMint(cid, ts) ==
  /\ cid \in DOMAIN con /\ con[cid].kind = "token/mint" /\ token.issued
  /\ CloseContract(cid, "executed")
  /\ Mint(con[cid].amount, ts)
  /\ Commit(ts, SupplyKeys)
  /\ UNCHANGED <<account, holder, payCursor, pend, pay, fee, feeCursor, collected>>

ExecuteTokenBurn(cid, ts) ==
  /\ cid \in DOMAIN con /\ con[cid].kind = "token/burn" /\ token.issued
  /\ CloseContract(cid, "executed")
  /\ Burn(con[cid].amount, ts)
  /\ Commit(ts, BurnKeys(con[cid].amount))
  /\ UNCHANGED <<account, holder, payCursor, pend, pay, fee, feeCursor, collected>>

\* contractVoid: a cancelled contract about the token changes nothing here.
CancelSupply(cid, ts) ==
  /\ cid \in DOMAIN con
  /\ con[cid].kind \in {"token/create", "token/mint", "token/burn"}
  /\ CloseContract(cid, "cancelled")
  /\ Commit(ts, {})
  /\ UNCHANGED <<account, holder, token, bal, payCursor, blog, pend, pay, fee, feeCursor, collected>>

\* UpdatedPolicy, were the policy dropped with the fee.
PolicyDropped(meta) ==
  IF ~meta.fee THEN NoPolicy
  ELSE [rates |-> meta.rates,
        target |-> IF meta.target # NoAddr THEN meta.target
                   ELSE IF token.policy = NoPolicy THEN Genesis
                   ELSE token.policy.target]

\* UpdatedPolicy, were the target not defaulted.
PolicyAsAnswered(meta) ==
  IF ~meta.fee THEN [token.policy EXCEPT !.rates = NoRates]
  ELSE [rates |-> meta.rates, target |-> meta.target]

\* The fee policy after the KNT chaincode answered `meta'.
UpdatedPolicy(meta) ==
  IF ~meta.fee
  THEN [token.policy EXCEPT !.rates = NoRates]
  ELSE [rates |-> meta.rates,
        target |-> IF meta.target # NoAddr THEN meta.target
                   ELSE IF token.policy = NoPolicy THEN Genesis
                   ELSE token.policy.target]

\* Anyone may ask for the update.
TokenUpdate(meta, ts) ==
  /\ token.issued /\ TargetExists(meta)
  /\ meta.fee \/ token.policy # NoPolicy
  /\ token' = [token EXCEPT !.policy = UpdatedPolicy(meta)]
  /\ Commit(ts, {<<"token", 0>>})
  /\ UNCHANGED <<account, holder, bal, payCursor, blog, pend, con, pay, fee, feeCursor, collected>>

\* ntx < NTx repeats the bound of Commit, to spare TLC the search for a last transaction.
SupplyNext ==
  /\ ntx < NTx
  /\ \E ts \in Stamps :
       \/ \E kid \in Kids, amount \in Amounts :
            \/ TokenMint(kid, amount, ts) \/ TokenBurn(kid, amount, ts)
            \/ \E addrs \in CoHolders \cup {{}}, meta \in Metas :
                 TokenCreate(kid, addrs, meta, amount, ts)
       \/ \E cid \in TxIds :
            \/ ExecuteTokenMint(cid, ts) \/ ExecuteTokenBurn(cid, ts)
            \/ \E meta \in Metas, amount \in Amounts : ExecuteTokenCreate(cid, meta, amount, ts)
            \/ CancelSupply(cid, ts)
       \/ \E meta \in Metas : TokenUpdate(meta, ts)
=============================================================================
