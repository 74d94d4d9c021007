------------------------------ MODULE MC_Orders -----------------------------
(***************************************************************************)
(* Instances of Orders for TLC: one order for one part, one offer, which   *)
(* has a warranty, and a second store without an offer.                    *)
(***************************************************************************)
EXTENDS Orders

CONSTANTS o1, f1, s1, s2, p1

MCOrder == {o1}
MCOffer == {f1}
MCStore == {s1, s2}
MCPart == {p1}
MCOrderOf == [f \in {f1} |-> o1]
MCStoreOf == [f \in {f1} |-> s1]
MCPartOf == [f \in {f1} |-> p1]
MCWarranted == {f1}

(* Between them the two runs have every operation; acceptPart multiplies the *)
(* states of the first, and what it shows is proved for acceptPart as well.  *)
LifeOps == (OpNames \cup {"crash"}) \ {"withdraw", "acceptPart"}
LiveOps == OpNames \ {"renew", "retract", "adminDelete", "reject"}

(* The statuses no other request or job of this module leads to, and those *)
(* with a deadline, which a request reaches without one.                   *)
LiveTargets ==
  {"PREPARATION", "READY_FOR_SHIPPING", "SHIPPED"} \cup DOMAIN DeadlineOf
=============================================================================
