------------------------------ MODULE MC_Stores -----------------------------
(***************************************************************************)
(* An instance of Stores for TLC: a review poor enough for a suspension    *)
(* and one good enough for every tier, a score that forbids every tier.    *)
(***************************************************************************)
EXTENDS Stores

CONSTANTS o1, o2

MCOrder == {o1, o2}
MCStars == [o \in MCOrder |-> IF o = o1 THEN {2} ELSE {5}]
MCPoor == 0..250
=============================================================================
