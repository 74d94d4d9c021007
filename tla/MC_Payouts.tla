----------------------------- MODULE MC_Payouts -----------------------------
(***************************************************************************)
(* Instances of Payouts for TLC: one or two escrows of a store, up to      *)
(* two withdrawal requests, and a customer wallet where fines are in play. *)
(***************************************************************************)
EXTENDS Payouts

CONSTANTS e1, e2, r1, r2, a1, a2

OneEscrow == {e1}
TwoEscrows == {e1, e2}
OneStore == {a1}
TwoAccounts == {a1, a2}
NoCustomers == {}
OneCustomer == {a2}

OwnerOfOne == [e \in {e1} |-> a1]
OwnerOfBoth == [e \in {e1, e2} |-> a1]
ShareOfOne == [e \in {e1} |-> 2]
ShareOfTwo == [e \in {e1, e2} |-> 1]

(* The escrows of a store were added to its pending balance when they were *)
(* held.  A customer wallet starts with a reward.                          *)
NothingYet == [a \in {a1} |-> 0]
RewardOnly == [a \in {a1, a2} |-> IF a = a2 THEN 2 ELSE 0]
OwedTwo == [a \in {a1} |-> 2]
OwedStore == [a \in {a1, a2} |-> IF a = a1 THEN 2 ELSE 0]

OneAmount == {1}
RankOfOne == [e \in {e1} |-> 1]
InOrder == [e \in {e1, e2} |-> IF e = e1 THEN 1 ELSE 2]

ReleaseOps == {"auto", "release"}
RaceOps == ReleaseOps \cup {"approve", "payout", "fail", "crash"}
SerialOps == ReleaseOps \cup {"approve", "reject", "payout", "bank", "verdict", "fine", "freeze"}
=============================================================================
