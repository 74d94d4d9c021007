----------------------------- MODULE MC_Loyalty -----------------------------
(***************************************************************************)
(* An instance of Loyalty for TLC: the first completion reaches VIP and    *)
(* the second PARTNER, whose cap grows with the month; a reward passes the *)
(* cap of BASIC, and two of them that of VIP.                              *)
(***************************************************************************)
EXTENDS Loyalty, TLC

MCTierStart == [t \in Tier |-> CASE t = "BASIC" -> 0 [] t = "SILVER" -> 10
                                 [] t = "GOLD" -> 20 [] t = "VIP" -> 30
                                 [] OTHER -> 60]
MCReward == [t \in Tier |-> 2]
MCCap == [t \in Tier |-> CASE t = "VIP" -> 3 [] t = "PARTNER" -> 2 [] OTHER -> 1]
Symmetry == Permutations(Run)
=============================================================================
