------------------------------ MODULE OrderFsm ------------------------------
(***************************************************************************)
(* The order state machine of the marketplace: the statuses of an order    *)
(* and the transition table every status change requested through          *)
(* OrdersService.transitionStatus is validated against.                    *)
(***************************************************************************)

Status ==
  {"COLLECTING_OFFERS", "AWAITING_SELECTION", "AWAITING_OFFERS",
   "AWAITING_PAYMENT", "PARTIALLY_PAID", "PREPARATION", "PREPARED",
   "VERIFICATION", "VERIFICATION_SUCCESS", "READY_FOR_SHIPPING",
   "NON_MATCHING", "CORRECTION_PERIOD", "CORRECTION_SUBMITTED",
   "DELAYED_PREPARATION", "PARTIALLY_SHIPPED", "SHIPPED", "DELIVERED",
   "COMPLETED", "CANCELLED", "RETURNED", "DISPUTED", "RETURN_REQUESTED",
   "RETURN_APPROVED", "REFUNDED", "RESOLVED", "CLOSED", "WARRANTY_ACTIVE",
   "WARRANTY_EXPIRED"}

(* TRANSITION_RULES: the statuses a transition may go to, from each status. *)
TransitionRules ==
  [ COLLECTING_OFFERS    |-> {"AWAITING_SELECTION", "AWAITING_PAYMENT",
                              "CANCELLED"},
    AWAITING_SELECTION   |-> {"AWAITING_PAYMENT", "CANCELLED"},
    AWAITING_OFFERS      |-> {"AWAITING_PAYMENT", "CANCELLED"},
    AWAITING_PAYMENT     |-> {"PARTIALLY_PAID", "PREPARATION", "CANCELLED"},
    PARTIALLY_PAID       |-> {"AWAITING_PAYMENT", "PREPARATION", "CANCELLED"},
    PREPARATION          |-> {"PREPARED", "DELAYED_PREPARATION",
                              "PARTIALLY_SHIPPED", "CANCELLED"},
    PARTIALLY_SHIPPED    |-> {"PARTIALLY_SHIPPED", "SHIPPED", "CANCELLED"},
    PREPARED             |-> {"VERIFICATION", "CANCELLED"},
    VERIFICATION         |-> {"VERIFICATION_SUCCESS", "NON_MATCHING",
                              "CANCELLED"},
    VERIFICATION_SUCCESS |-> {"READY_FOR_SHIPPING", "CANCELLED"},
    READY_FOR_SHIPPING   |-> {"SHIPPED", "PARTIALLY_SHIPPED", "CANCELLED"},
    NON_MATCHING         |-> {"CORRECTION_PERIOD", "CANCELLED"},
    CORRECTION_PERIOD    |-> {"CORRECTION_SUBMITTED", "CANCELLED"},
    CORRECTION_SUBMITTED |-> {"VERIFICATION_SUCCESS", "NON_MATCHING",
                              "CANCELLED"},
    DELAYED_PREPARATION  |-> {"PREPARED", "CANCELLED"},
    SHIPPED              |-> {"DELIVERED", "RETURNED", "DISPUTED"},
    DELIVERED            |-> {"COMPLETED", "WARRANTY_ACTIVE", "CLOSED",
                              "RETURNED", "DISPUTED"},
    WARRANTY_ACTIVE      |-> {"WARRANTY_EXPIRED", "RETURNED", "DISPUTED",
                              "CLOSED"},
    WARRANTY_EXPIRED     |-> {"COMPLETED", "CLOSED"},
    COMPLETED            |-> {"WARRANTY_ACTIVE", "CLOSED"},
    CLOSED               |-> {},
    CANCELLED            |-> {},
    RETURNED             |-> {"COMPLETED", "WARRANTY_ACTIVE", "CLOSED"},
    DISPUTED             |-> {"COMPLETED", "WARRANTY_ACTIVE", "CLOSED",
                              "RETURNED", "REFUNDED"},
    REFUNDED             |-> {},
    RETURN_REQUESTED     |-> {"RETURN_APPROVED", "DISPUTED"},
    RETURN_APPROVED      |-> {"RETURNED"},
    RESOLVED             |-> {"COMPLETED", "WARRANTY_ACTIVE", "CLOSED"} ]

(* validateTransition(current, new) throws unless this holds. *)
CanTransition(current, new) == new \in TransitionRules[current]

(* The statuses of TRANSITION_RULES with no way out. *)
Terminal == {s \in Status : TransitionRules[s] = {}}

=============================================================================
