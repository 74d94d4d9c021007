------------------------------ MODULE Settlement ----------------------------
(***************************************************************************)
(* What the payment side of the marketplace promises, without the          *)
(* webhooks, the payment rows and the handlers that keep the promise:      *)
(* customers are charged, and the money of a charge is put into escrow for *)
(* the merchant at most once per offer, at the amount that was charged.    *)
(***************************************************************************)
EXTENDS Naturals

CONSTANTS Offer, Intent, Amount, NoOffer

VARIABLES
  charge,   \* what the customer was charged through an intent
  held,     \* the amount in escrow for an offer, 0 when there is none
  owed      \* what the merchant's pending balance holds for an offer

settlementVars == <<charge, held, owed>>

NoCharge == [offer |-> NoOffer, amount |-> 0]

SInit ==
  /\ charge = [i \in Intent |-> NoCharge]
  /\ held = [f \in Offer |-> 0]
  /\ owed = [f \in Offer |-> 0]

Charge(i, f, a) ==
  /\ charge[i] = NoCharge
  /\ charge' = [charge EXCEPT ![i] = [offer |-> f, amount |-> a]]
  /\ UNCHANGED <<held, owed>>

HoldFor(i, f) ==
  /\ charge[i] # NoCharge
  /\ charge[i].offer = f
  /\ held[f] = 0
  /\ held' = [held EXCEPT ![f] = charge[i].amount]
  /\ owed' = [owed EXCEPT ![f] = charge[i].amount]
  /\ UNCHANGED charge

SNext ==
  \/ \E i \in Intent, f \in Offer, a \in Amount : Charge(i, f, a)
  \/ \E i \in Intent, f \in Offer : HoldFor(i, f)

SettlementSpec == SInit /\ [][SNext]_settlementVars
=============================================================================
