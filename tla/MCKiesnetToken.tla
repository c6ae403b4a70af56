--------------------------- MODULE MCKiesnetToken ---------------------------
(***************************************************************************)
(* Small instances of the chaincode for TLC.                               *)
(***************************************************************************)
EXTENDS KiesnetToken, TLC

\* Kid 2 has a personal account, kid 1 has none; the genesis account 3 belongs
\* to kid 1 and the joint account 4 to both.
MCHolders == (1 :> {}) @@ (2 :> {2}) @@ (3 :> {1}) @@ (4 :> {1, 2})
MCBal     == (1 :> 0) @@ (2 :> 0) @@ (3 :> 2) @@ (4 :> 3)

\* Three kids, the last without a personal account; kid 1 alone holds the genesis
\* account 4, all three the joint account 5; account 6 can be created.
MCThreeKids == (1 :> {1}) @@ (2 :> {2}) @@ (3 :> {}) @@ (4 :> {1}) @@ (5 :> {1, 2, 3})
               @@ (6 :> {})
MCThreeBal  == (1 :> 0) @@ (2 :> 0) @@ (3 :> 0) @@ (4 :> 2) @@ (5 :> 1) @@ (6 :> 0)

\* An empty ledger of two kids: no account, and no token.
MCNobody == [a \in 1..3 |-> {}]
MCNoBal  == [a \in 1..3 |-> 0]
WithKid2 == {{2}}

\* Co-holders: another kid, two other kids, all holders of the joint account 5.
MCCoHolders == {{2}, {2, 3}, {5}}

Rates(t, p) == [fn \in Fns |-> IF fn = "transfer" THEN t ELSE p]
Free == [num |-> 0, den |-> 1, max |-> 0]
Half == [num |-> 1, den |-> 2, max |-> 0]

\* Merchants pay half of what they get, a rate that rounding makes interesting.
MCPayFee      == [target |-> 3, rates |-> Rates(Free, Half)]
MCPayFeeJoint == [target |-> 4, rates |-> Rates(Free, Half)]
MCTransferFee == [target |-> 3, rates |-> Rates(Half, Free)]
MCBothFees    == [target |-> 3, rates |-> Rates(Half, Half)]

\* What the KNT chaincode may answer: no fee any more, the genesis account as
\* the target, account 2 as the target.
MCMetas == {[fee |-> FALSE, target |-> NoAddr, rates |-> NoRates],
            [fee |-> TRUE, target |-> NoAddr, rates |-> Rates(Half, Half)],
            [fee |-> TRUE, target |-> 2, rates |-> Rates(Half, Half)]}

NoExtra == {{}}
ExtraKid2 == {{}, {2}}
=============================================================================
