------------------------------ MODULE Payments ------------------------------
(***************************************************************************)
(* Paying for the accepted offers of an order: createPaymentIntent, the    *)
(* Stripe webhooks and their handlers in PaymentsService, and              *)
(* EscrowService.holdFunds, composed with the life of the order.           *)
(*                                                                         *)
(* Stripe delivers an event at least once, in any order and to several     *)
(* handlers at a time; it repeats an event until a handler answers 200.    *)
(* A handler is a record in job[h]: what it read, and how far it got.      *)
(* Amounts are the offer's price; the share the platform adds to it is a   *)
(* function of the price and is left out.  A handler runs for less than a  *)
(* day, as a request does.                                                 *)
(*                                                                         *)
(* The delete of an offer that has a payment row is refused by its foreign *)
(* key, so "retract" and "adminDelete" are not among the operations of     *)
(* this composition.                                                       *)
(***************************************************************************)
EXTENDS Orders

CONSTANTS Intent, NoIntent, Handler, Price

ASSUME PaymentsAssumption ==
  /\ NoIntent \notin Intent
  /\ Price \subseteq Nat \ {0}
  /\ "retract" \notin Ops /\ "adminDelete" \notin Ops

VARIABLES
  price,    \* Offer.unitPrice, which an administrator may edit
  row,      \* the PaymentTransaction of an offer (unique by offerId)
  intent,   \* the PaymentIntents at Stripe
  sent,     \* the events Stripe has emitted: <<kind, intent>>
  acked,    \* the events a handler has answered with 200
  held,     \* EscrowTransaction.merchantAmount of an offer, 0 without a row
  pending,  \* contribution of an offer to Store.pendingBalance
  invoices, \* the invoices, and wallet CREDIT rows, written for an offer
  job       \* the handlers at work

moneyVars == <<price, row, intent, sent, acked, held, pending, invoices, job>>
payVars == <<orderVars, moneyVars>>

RowStatus == {"NONE", "PENDING", "SUCCESS", "FAILED", "REFUNDED"}
NoRow == [status |-> "NONE", intent |-> NoIntent, amount |-> 0]
Unused == [state |-> "unused", offer |-> NoOffer, amount |-> 0]
NoJob == [stage |-> "idle", kind |-> "none", offer |-> NoOffer,
          intent |-> NoIntent, amount |-> 0]
Kind == {"succeeded", "failed", "refunded"}

PayTypeOK ==
  /\ price \in [Offer -> Price]
  /\ row \in [Offer -> [status : RowStatus, intent : Intent \cup {NoIntent},
                        amount : Nat]]
  /\ intent \in [Intent -> [state : {"unused", "open", "captured", "refunded"},
                            offer : Offer \cup {NoOffer}, amount : Nat]]
  /\ sent \subseteq Kind \X Intent
  /\ acked \subseteq sent
  /\ held \in [Offer -> Nat]
  /\ pending \in [Offer -> Nat]
  /\ invoices \in [Offer -> Nat]
  /\ job \in [Handler -> [stage : {"idle", "asked", "unpaid", "found", "rechecked"},
                          kind : Kind \cup {"none", "checkout"},
                          offer : Offer \cup {NoOffer},
                          intent : Intent \cup {NoIntent}, amount : Nat]]

MoneyInit ==
  /\ price \in [Offer -> Price]
  /\ row = [f \in Offer |-> NoRow]
  /\ intent = [i \in Intent |-> Unused]
  /\ sent = {}
  /\ acked = {}
  /\ held = [f \in Offer |-> 0]
  /\ pending = [f \in Offer |-> 0]
  /\ invoices = [f \in Offer |-> 0]
  /\ job = [h \in Handler |-> NoJob]

PayInit == Init /\ MoneyInit

Resting(h) == job[h].stage = "idle"
Doing(h, kind, stage) == job[h].kind = kind /\ job[h].stage = stage
Goto(h, stage) == job' = [job EXCEPT ![h].stage = stage]
Return(h) == job' = [job EXCEPT ![h] = NoJob]
Answer(h, kind) == acked' = acked \cup {<<kind, job[h].intent>>}

-----------------------------------------------------------------------------
(* createPaymentIntent: reads the order with its accepted offer, then the  *)
(* payments of the offer, then creates an intent at Stripe and records it. *)

Payable == {"AWAITING_PAYMENT", "AWAITING_OFFERS", "COLLECTING_OFFERS",
            "AWAITING_SELECTION", "PARTIALLY_PAID"}

(* The bound on the intents: a checkout starts while one is left for it. *)
IntentLeft ==
  Cardinality({h \in Handler : job[h].kind = "checkout"})
    < Cardinality({i \in Intent : intent[i] = Unused})

CheckoutRead(h, f) ==
  /\ Resting(h)
  /\ IntentLeft
  /\ status[OrderOf[f]] \in Payable
  /\ offer[f] = "accepted"
  /\ job' = [job EXCEPT ![h] = [stage |-> "asked", kind |-> "checkout",
                                offer |-> f, intent |-> NoIntent,
                                amount |-> price[f]]]
  /\ UNCHANGED <<price, row, intent, sent, acked, held, pending, invoices>>

CheckoutCheck(h) ==
  /\ Doing(h, "checkout", "asked")
  /\ IF row[job[h].offer].status = "SUCCESS" THEN Return(h) ELSE Goto(h, "unpaid")
  /\ UNCHANGED <<price, row, intent, sent, acked, held, pending, invoices>>

(* The customer gets the intent only once it is recorded, so it is created *)
(* in the same step; an existing row is overwritten whatever its status.   *)
CheckoutRecord(h, i) ==
  LET f == job[h].offer IN
  /\ Doing(h, "checkout", "unpaid")
  /\ intent[i] = Unused
  /\ intent' = [intent EXCEPT ![i] = [state |-> "open", offer |-> f,
                                      amount |-> job[h].amount]]
  /\ row' = [row EXCEPT ![f] = [status |-> "PENDING", intent |-> i,
                                amount |-> job[h].amount]]
  /\ Return(h)
  /\ UNCHANGED <<price, sent, acked, held, pending, invoices>>

-----------------------------------------------------------------------------
(* Stripe, as StripeService and the webhook controller use it: an intent   *)
(* stays open after a declined attempt and can still be paid.              *)

Capture(i) ==
  /\ intent[i].state = "open"
  /\ intent' = [intent EXCEPT ![i].state = "captured"]
  /\ sent' = sent \cup {<<"succeeded", i>>}
  /\ UNCHANGED <<price, row, acked, held, pending, invoices, job>>

Decline(i) ==
  /\ intent[i].state = "open"
  /\ sent' = sent \cup {<<"failed", i>>}
  /\ UNCHANGED <<price, row, intent, acked, held, pending, invoices, job>>

Refund(i) ==
  /\ intent[i].state = "captured"
  /\ intent' = [intent EXCEPT ![i].state = "refunded"]
  /\ sent' = sent \cup {<<"refunded", i>>}
  /\ UNCHANGED <<price, row, acked, held, pending, invoices, job>>

-----------------------------------------------------------------------------
(* StripeWebhookController.handleWebhook: the handler looks the payment up *)
(* by its intent.  Without a row it gives up and the event is answered; so *)
(* is a failure of a payment that is not pending.                          *)

Deliver(h, kind, i) ==
  LET found == {f \in Offer : /\ row[f].intent = i
                              /\ kind = "failed" => row[f].status = "PENDING"} IN
  /\ Resting(h)
  /\ <<kind, i>> \in sent
  /\ IF found = {}
     THEN acked' = acked \cup {<<kind, i>>} /\ UNCHANGED job
     ELSE /\ \E f \in found :
               job' = [job EXCEPT ![h] = [stage |-> "found", kind |-> kind,
                                          offer |-> f, intent |-> i,
                                          amount |-> row[f].amount]]
          /\ UNCHANGED acked
  /\ UNCHANGED <<price, row, intent, sent, held, pending, invoices>>

(* Bug: only a pending payment is fulfilled. *)
FulfilRecheckPending(h) ==
  /\ Doing(h, "succeeded", "found")
  /\ IF row[job[h].offer].status # "PENDING"
     THEN Answer(h, "succeeded") /\ Return(h)
     ELSE Goto(h, "rechecked") /\ UNCHANGED acked
  /\ UNCHANGED <<price, row, intent, sent, held, pending, invoices>>

(* Bug: the payment is claimed first, outside the transaction. *)
FulfilRecheckClaims(h) ==
  /\ Doing(h, "succeeded", "found")
  /\ IF row[job[h].offer].status = "SUCCESS"
     THEN Answer(h, "succeeded") /\ Return(h) /\ UNCHANGED row
     ELSE /\ row' = [row EXCEPT ![job[h].offer].status = "SUCCESS"]
          /\ Goto(h, "rechecked") /\ UNCHANGED acked
  /\ UNCHANGED <<price, intent, sent, held, pending, invoices>>

(* fulfillStripePayment, first statement of its transaction. *)
FulfilRecheck(h) ==
  /\ Doing(h, "succeeded", "found")
  /\ IF row[job[h].offer].status = "SUCCESS"
     THEN Answer(h, "succeeded") /\ Return(h)
     ELSE Goto(h, "rechecked") /\ UNCHANGED acked
  /\ UNCHANGED <<price, row, intent, sent, held, pending, invoices>>

(* Bug: no index on the escrow table. *)
EscrowNeverTaken(f) == FALSE

(* The indexes on EscrowTransaction.paymentId and orderId are unique. *)
EscrowTaken(f) == \E g \in OffersOf(OrderOf[f]) : held[g] # 0

(* Bug: the price of the offer as it is now. *)
CurrentPrice(h) == price[job[h].offer]

(* The amounts of the payment row as the handler first read it. *)
MerchantAmount(h) == job[h].amount

(* The rest of the transaction, at once: it holds the lock of the payment  *)
(* row and inserts into the unique index of the order.                     *)
FulfilCommit(h) ==
  LET f == job[h].offer
      o == OrderOf[f]
      paid == {g \in OffersOf(o) : row'[g].status = "SUCCESS"} IN
  /\ Doing(h, "succeeded", "rechecked")
  /\ ~EscrowTaken(f)
  /\ row' = [row EXCEPT ![f].status = "SUCCESS"]
  /\ held' = [held EXCEPT ![f] = MerchantAmount(h)]
  /\ pending' = [pending EXCEPT ![f] = @ + MerchantAmount(h)]
  /\ invoices' = [invoices EXCEPT ![f] = @ + 1]
  /\ status' = IF Cardinality(paid) >= Cardinality(Accepted(o))
               THEN [status EXCEPT ![o] = "PREPARATION"] ELSE status
  /\ Answer(h, "succeeded")
  /\ Return(h)
  /\ UNCHANGED <<price, intent, sent>>

(* The insert fails, all is rolled back and Stripe gets a 500. *)
FulfilAbort(h) ==
  /\ Doing(h, "succeeded", "rechecked")
  /\ EscrowTaken(job[h].offer)
  /\ Return(h)
  /\ UNCHANGED <<price, row, intent, sent, acked, held, pending, invoices>>

(* handlePaymentFailure and handleStripeChargeRefunded: updates by id. *)
Overwrite(h, kind, newStatus) ==
  /\ Doing(h, kind, "found")
  /\ row' = [row EXCEPT ![job[h].offer].status = newStatus]
  /\ Answer(h, kind)
  /\ Return(h)
  /\ UNCHANGED <<price, intent, sent, held, pending, invoices>>

FailureWrite(h) == Overwrite(h, "failed", "FAILED")
RefundWrite(h) == Overwrite(h, "refunded", "REFUNDED")

HandlerCrash(h) ==
  /\ ~Resting(h)
  /\ Return(h)
  /\ UNCHANGED <<price, row, intent, sent, acked, held, pending, invoices>>

(* OffersService.adminUpdate, the only edit of an accepted offer. *)
Reprice(f, p) ==
  /\ price' = [price EXCEPT ![f] = p]
  /\ UNCHANGED <<row, intent, sent, acked, held, pending, invoices, job>>

-----------------------------------------------------------------------------
CheckoutStep(h) ==
  \/ "checkout" \in Ops /\ \E f \in Offer : CheckoutRead(h, f)
  \/ CheckoutCheck(h)
  \/ \E i \in Intent : CheckoutRecord(h, i)

WebhookStep(h) ==
  \/ FulfilRecheck(h) \/ FulfilAbort(h) \/ FailureWrite(h) \/ RefundWrite(h)

StripeStep ==
  \E i \in Intent : \/ Capture(i)
                    \/ "decline" \in Ops /\ Decline(i)
                    \/ "refund" \in Ops /\ Refund(i)

MoneyStep ==
  \/ \E h \in Handler : \/ CheckoutStep(h)
                        \/ WebhookStep(h)
                        \/ \E kind \in Kind, i \in Intent : Deliver(h, kind, i)
                        \/ "crash" \in Ops /\ HandlerCrash(h)
  \/ StripeStep
  \/ "reprice" \in Ops /\ \E f \in Offer, p \in Price : Reprice(f, p)

DayEnds ==
  /\ \A h \in Handler : Resting(h)
  /\ Tick
  /\ UNCHANGED moneyVars

restOfOrder == <<left, age, rejections, acceptedOffer, renewals, offer,
                 withdrawn, editable, declined, delivered, returns, fines,
                 documented, call>>

PayNext ==
  \/ CallStep /\ UNCHANGED moneyVars
  \/ MoneyStep /\ UNCHANGED orderVars
  \/ \E h \in Handler : FulfilCommit(h) /\ UNCHANGED restOfOrder
  \/ "tick" \in Ops /\ DayEnds

PaySpec == PayInit /\ [][PayNext]_payVars

(* A handler that started ends unless it crashes; Stripe repeats an event  *)
(* that was not answered, whatever else it delivers.                       *)
PayFairness ==
  /\ \A h \in Handler :
       /\ WF_payVars(WebhookStep(h) /\ UNCHANGED orderVars)
       /\ WF_payVars(FulfilCommit(h) /\ UNCHANGED restOfOrder)
       /\ WF_payVars(CheckoutStep(h) /\ ~Resting(h) /\ UNCHANGED orderVars)
  /\ \A kind \in Kind, i \in Intent :
       SF_payVars(/\ <<kind, i>> \notin acked
                  /\ \E h \in Handler : Deliver(h, kind, i)
                  /\ UNCHANGED orderVars)

FairPaySpec == PaySpec /\ PayFairness

-----------------------------------------------------------------------------
(* Properties.                                                             *)

(* Money is in escrow for an offer only if the customer was charged that   *)
(* very amount for that offer, however checkouts overwrite the payment row *)
(* and change its price while a webhook is being handled.                  *)
Charged(i) == intent[i].state \in {"captured", "refunded"}

HeldWasCharged ==
  \A f \in Offer : held[f] # 0 =>
    \E i \in Intent : Charged(i) /\ intent[i].offer = f /\ intent[i].amount = held[f]

(* A payment is booked once: repeated, reordered and concurrent webhooks   *)
(* never credit the merchant twice or bill the customer twice.             *)
BookedOnce ==
  \A f \in Offer : /\ pending[f] = held[f]
                   /\ invoices[f] = IF held[f] = 0 THEN 0 ELSE 1

(* The status SUCCESS the customer polls is never shown without the money  *)
(* in escrow.                                                              *)
SuccessIsHeld ==
  \A f \in Offer : row[f].status = "SUCCESS" => held[f] # 0

(* The promise of Settlement: at most one escrow per offer, at the amount  *)
(* of a charge, credited once.                                             *)
ChargeOf == [i \in Intent |->
               IF Charged(i) THEN [offer |-> intent[i].offer, amount |-> intent[i].amount]
               ELSE [offer |-> NoOffer, amount |-> 0]]
Promise == INSTANCE Settlement WITH Amount <- Price, charge <- ChargeOf,
                                    held <- held, owed <- pending
KeepsThePromise == Promise!SettlementSpec

(* Where an offer is paid through one intent and is the order's only one,  *)
(* a charge always ends up in escrow, whatever fails on the way.           *)
ChargeIsHeld ==
  \A i \in Intent : Charged(i) ~> \E f \in Offer : f = intent[i].offer /\ held[f] # 0
=============================================================================
