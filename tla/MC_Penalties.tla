---------------------------- MODULE MC_Penalties ----------------------------
(***************************************************************************)
(* An instance of Penalties for TLC: one threshold, which the first        *)
(* violation reaches and the second reaches again.                         *)
(***************************************************************************)
EXTENDS Penalties

CONSTANT t1

MCThreshold == {t1}
MCLevel == [t \in MCThreshold |-> 1]
=============================================================================
