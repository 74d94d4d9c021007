--------------------------- MODULE MC_Inspection ----------------------------
(***************************************************************************)
(* An instance of Inspection for TLC.                                      *)
(***************************************************************************)
EXTENDS Inspection, TLC

(* What the endpoint does to an order under inspection.  What precedes the *)
(* inspection, follows it or ends it is left out to keep the states few.   *)
MCTargets ==
  {"VERIFICATION_SUCCESS", "NON_MATCHING", "CORRECTION_PERIOD", "READY_FOR_SHIPPING"}

(* Officers are told apart by no action.                                   *)
Symmetry == Permutations(Officer)
=============================================================================
