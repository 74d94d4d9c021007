---------------------------- MODULE MC_Shipping -----------------------------
(***************************************************************************)
(* Instances of Shipping for TLC: one order with two offers in its cart.   *)
(***************************************************************************)
EXTENDS Shipping

CONSTANTS o1, f1, f2

MCOrder == {o1}
MCOffer == {f1, f2}
MCOrderOf == [f \in {f1, f2} |-> o1]

(* The way from the payment to the hand-over. *)
CartTargets == {"PREPARED", "VERIFICATION", "VERIFICATION_SUCCESS"}
CartReports == {"DELIVERED_TO_CUSTOMER"}
=============================================================================
