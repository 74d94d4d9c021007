----------------------------- MODULE MC_Returns -----------------------------
(***************************************************************************)
(* An instance of Returns for TLC: one delivered order with a return and a *)
(* dispute of the same item.                                               *)
(***************************************************************************)
EXTENDS Returns

CONSTANTS o1, p1, k1, k2

MCOrder == {o1}
MCItem == {p1}
MCCase == {k1, k2}
MCOrderOf == [k \in MCCase |-> o1]
MCItemOf == [k \in MCCase |-> p1]

(* Verdicts that charge the store at once, that make the shipping due from *)
(* the customer, that name the customer and leave it open, and that only   *)
(* close the case. *)
MCRulings ==
  { [verdict |-> "REFUND", extra |-> TRUE, fault |-> "MERCHANT",
     roundtrip |-> TRUE, fee |-> "due"],
    [verdict |-> "DENY", extra |-> TRUE, fault |-> "CUSTOMER",
     roundtrip |-> FALSE, fee |-> "due"],
    [verdict |-> "DENY", extra |-> TRUE, fault |-> "CUSTOMER",
     roundtrip |-> FALSE, fee |-> "absent"],
    NoRuling }

(* What the endpoint does to a delivered order and one of a case.  CLOSED, *)
(* REFUNDED and the warranty phases, from which no case but a dispute is   *)
(* opened, are left out to keep the states few.                            *)
MCTargets == {"COMPLETED", "RETURNED", "DISPUTED", "RETURN_APPROVED"}
MCOpening == [p \in Payer |-> IF p = "MERCHANT" THEN 0 ELSE 1]
=============================================================================
