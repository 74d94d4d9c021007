----------------------------- MODULE MC_Payments ----------------------------
(***************************************************************************)
(* Instances of Payments for TLC: one order with one offer; a second store *)
(* and a second part without any.                                          *)
(***************************************************************************)
EXTENDS Payments

CONSTANTS o1, f1, s1, s2, p1, p2

OneOrder == {o1}
OneOffer == {f1}
TwoStores == {s1, s2}
Parts == {p1, p2}
OrderOfOne == [f \in OneOffer |-> o1]
StoreOfOne == [f \in OneOffer |-> s1]
PartOfOne == [f \in OneOffer |-> p1]
NoWarranty == {}
NoTargets == {}

PriceOfOne == {1}
PricesOneTwo == {1, 2}

BuyOps == {"bid", "acceptPart", "checkout"}
WebhookOps == BuyOps \cup {"reprice", "decline", "refund", "crash"}
SureOps == BuyOps \cup {"decline", "refund", "expirePayment", "tick"}
=============================================================================
