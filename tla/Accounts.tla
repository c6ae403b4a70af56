------------------------------ MODULE Accounts ------------------------------
(***************************************************************************)
(* account_tx.go and account_stub.go: creating personal and joint          *)
(* accounts, adding and removing holders of joint accounts, directly or    *)
(* through contracts, and suspending personal accounts.                    *)
(***************************************************************************)
EXTENDS WorldState

Joint == Addrs \ Kids

SetSuspended(kid, suspended, ts) ==
  /\ Exists(kid) /\ account[kid].suspended # suspended
  /\ account' = [account EXCEPT ![kid].suspended = suspended]
  /\ Commit(ts, {<<"account", kid>>})
  /\ UNCHANGED <<holder, token, bal, payCursor, blog, pend, con, pay, fee, feeCursor, collected>>

AccountSuspend(kid, ts)   == SetSuspended(kid, TRUE, ts)
AccountUnsuspend(kid, ts) == SetSuspended(kid, FALSE, ts)

\* account/create without co-holders; the token need not be issued yet.
AccountCreate(kid, ts) ==
  /\ CreateAccount(kid, {kid}, 0)
  /\ Commit(ts, AccountKeys(kid))
  /\ UNCHANGED <<token, blog, pend, con, pay, fee, feeCursor, collected>>

AccountContract(doc, ts) ==
  /\ OpenContract(doc)
  /\ Commit(ts, {})
  /\ UNCHANGED <<account, holder, token, bal, payCursor, blog, pend, pay, fee, feeCursor, collected>>

\* account/create with the addresses of co-holders.  The limit counts the addresses
\* that were named, not the holders they bring with them.
AccountCreateJoint(kid, addrs, ts) ==
  LET holders == {kid} \cup SignableIDs(addrs)
  IN  /\ Exists(kid)
      /\ addrs # {} /\ Cardinality(addrs) <= MaxSigners
      /\ \A a \in addrs : Exists(a)
      /\ Cardinality(holders) >= 2
      /\ AccountContract([kind |-> "account/create", status |-> "open",
                          holders |-> holders, signers |-> holders], ts)

\* The contract callback: the address is a hash of the transaction id, that of
\* no other account.
ExecuteAccountCreate(cid, addr, ts) ==
  /\ cid \in DOMAIN con /\ con[cid].kind = "account/create"
  /\ CloseContract(cid, "executed")
  /\ CreateAccount(addr, con[cid].holders, 0)
  /\ Commit(ts, AccountKeys(addr))
  /\ UNCHANGED <<token, blog, pend, pay, fee, feeCursor, collected>>

\* HolderSigners, were the new holder not asked.
HoldersOnly(addr, new) == account[addr].holders

\* All holders and the new one sign.
HolderSigners(addr, new) == account[addr].holders \cup {new}

AccountHolderAdd(kid, addr, new, ts) ==
  /\ Exists(addr)
  /\ Cardinality(account[addr].holders) < MaxSigners
  /\ HasHolder(addr, kid) /\ Exists(new) /\ ~HasHolder(addr, new)
  /\ AccountContract([kind |-> "account/holder/add", status |-> "open", account |-> addr,
                      holder |-> new, signers |-> HolderSigners(addr, new)], ts)

\* CanAdd, were the limit left to the check when the contract was opened.
CanAddUnlimited(addr, new) == Exists(addr) /\ ~HasHolder(addr, new)

\* executeAccountHolderAdd looks at the account again.
CanAdd(addr, new) ==
  /\ Exists(addr) /\ ~HasHolder(addr, new)
  /\ Cardinality(account[addr].holders) < MaxSigners

AddHolder(addr, new) ==
  /\ account' = [account EXCEPT ![addr].holders = @ \cup {new}]
  /\ holder' = holder \cup {<<new, addr>>}

ExecuteAccountHolderAdd(cid, ts) ==
  /\ cid \in DOMAIN con /\ con[cid].kind = "account/holder/add"
  /\ CloseContract(cid, "executed")
  /\ CanAdd(con[cid].account, con[cid].holder)
  /\ AddHolder(con[cid].account, con[cid].holder)
  /\ Commit(ts, {<<"account", con[cid].account>>})
  /\ UNCHANGED <<token, bal, payCursor, blog, pend, pay, fee, feeCursor, collected>>

\* Two holders must stay.
CanRemove(addr, old) == HasHolder(addr, old) /\ Cardinality(account[addr].holders) >= 3

\* RemoveHolder, were the HLD_ document left behind.
RemoveHolderOnly(addr, old) ==
  /\ account' = [account EXCEPT ![addr].holders = @ \ {old}]
  /\ UNCHANGED holder

RemoveHolder(addr, old) ==
  /\ account' = [account EXCEPT ![addr].holders = @ \ {old}]
  /\ holder' = holder \ {<<old, addr>>}

\* account/holder/remove of another holder: the others sign.
AccountHolderRemove(kid, addr, old, ts) ==
  /\ HasHolder(addr, kid) /\ kid # old
  /\ CanRemove(addr, old)
  /\ AccountContract([kind |-> "account/holder/remove", status |-> "open", account |-> addr,
                      holder |-> old, signers |-> account[addr].holders \ {old}], ts)

\* account/holder/remove of the invoker needs no contract.
AccountHolderLeave(kid, addr, ts) ==
  /\ CanRemove(addr, kid)
  /\ RemoveHolder(addr, kid)
  /\ Commit(ts, {<<"account", addr>>})
  /\ UNCHANGED <<token, bal, payCursor, blog, pend, con, pay, fee, feeCursor, collected>>

\* StillRemovable, were the number of holders left to the check made at the opening.
RemovableOnce(addr, old) == HasHolder(addr, old)

\* executeAccountHolderRemove looks at the account again.
StillRemovable(addr, old) == CanRemove(addr, old)

ExecuteAccountHolderRemove(cid, ts) ==
  /\ cid \in DOMAIN con /\ con[cid].kind = "account/holder/remove"
  /\ CloseContract(cid, "executed")
  /\ StillRemovable(con[cid].account, con[cid].holder)
  /\ RemoveHolder(con[cid].account, con[cid].holder)
  /\ Commit(ts, {<<"account", con[cid].account>>})
  /\ UNCHANGED <<token, bal, payCursor, blog, pend, pay, fee, feeCursor, collected>>

\* contractVoid: a cancelled contract about accounts changes nothing here.
CancelAccount(cid, ts) ==
  /\ cid \in DOMAIN con
  /\ con[cid].kind \in {"account/create", "account/holder/add", "account/holder/remove"}
  /\ CloseContract(cid, "cancelled")
  /\ Commit(ts, {})
  /\ UNCHANGED <<account, holder, token, bal, payCursor, blog, pend, pay, fee, feeCursor, collected>>

\* ntx < NTx repeats the bound of Commit, to spare TLC the search for a last transaction.
PersonalNext ==
  /\ ntx < NTx
  /\ \E ts \in Stamps, kid \in Kids :
       AccountCreate(kid, ts) \/ AccountSuspend(kid, ts) \/ AccountUnsuspend(kid, ts)

JointNext ==
  /\ ntx < NTx
  /\ \E ts \in Stamps :
       \/ \E kid \in Kids :
            \/ \E addrs \in CoHolders : AccountCreateJoint(kid, addrs, ts)
            \/ \E addr \in Joint :
                 \/ AccountHolderLeave(kid, addr, ts)
                 \/ \E other \in Kids : \/ AccountHolderAdd(kid, addr, other, ts)
                                        \/ AccountHolderRemove(kid, addr, other, ts)
       \/ \E cid \in TxIds :
            \/ \E addr \in Joint \ {Genesis} : ExecuteAccountCreate(cid, addr, ts)
            \/ ExecuteAccountHolderAdd(cid, ts) \/ ExecuteAccountHolderRemove(cid, ts)
            \/ CancelAccount(cid, ts)

AccountNext == PersonalNext \/ JointNext
=============================================================================
