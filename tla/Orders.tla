------------------------------- MODULE Orders -------------------------------
(***************************************************************************)
(* The life of an order: bidding, selection, the payment window,           *)
(* preparation, verification and the scheduled jobs that expire each       *)
(* phase (OrdersService, OffersService, OrderCleanupService and the        *)
(* warranty schedulers).                                                   *)
(*                                                                         *)
(* No method of the code holds a lock between the query that validates a   *)
(* request and the update that carries it out, so a request is a call that *)
(* goes through stages: what it read is kept in call[c] and its write uses *)
(* that, not the row.  The scheduled jobs first list the rows that are due *)
(* and then run transitionStatus on each.                                  *)
(*                                                                         *)
(* Time is counted in days; deadlines finer than a day are rounded.  A     *)
(* deadline is the number of days left, 0 once it has passed, Unset when   *)
(* the column is null.                                                     *)
(***************************************************************************)
EXTENDS Integers, FiniteSets, OrderFsm

CONSTANTS
  Order, Offer, Store, Part,
  OrderOf,      \* [Offer -> Order]
  StoreOf,      \* [Offer -> Store]
  PartOf,       \* [Offer -> Part], orderPartId
  Warranted,    \* the offers with hasWarranty and a duration
  NoOffer,
  Client,       \* requests that can be in flight at once
  Job,          \* runs of scheduled jobs that can be in flight at once
  Ops,          \* the operations this instance offers
  Targets,      \* the statuses its transition requests ask for
  MaxRenewals,  \* bound on renewOrder, which may be called for ever
  StatCap       \* the customer statistics saturate here

Caller == Client \cup Job
Unset == -1
Timer == {"reveal", "selection", "payment", "delayed", "correction",
          "warranty"}
MaxDays == 3
OfferStatus == {"none", "pending", "accepted", "rejected", "withdrawn"}

ASSUME OrdersAssumption ==
  /\ OrderOf \in [Offer -> Order]
  /\ StoreOf \in [Offer -> Store]
  /\ PartOf \in [Offer -> Part]
  /\ Warranted \subseteq Offer
  /\ NoOffer \notin Offer
  /\ Targets \subseteq Status
  /\ MaxRenewals \in Nat
  /\ StatCap \in Nat

VARIABLES
  status,         \* Order.status
  left,           \* days left of each deadline column of an order
  age,            \* days since Order.updatedAt, saturating at MaxDays
  rejections,     \* Order.rejectionCount
  acceptedOffer,  \* Order.acceptedOfferId
  renewals,       \* how often renewOrder ran on the order
  offer,          \* Offer.status, "none" when there is no row
  withdrawn,      \* the offers with isWithdrawn set
  editable,       \* the offers still in their 15-minute edit window
  declined,       \* the offers with an OfferRejection row
  delivered,      \* contribution of an order to totalDeliveredOrders
  returns,        \* contribution of an order to the customer return stats
  fines,          \* the violations issued by the jobs: <<code, order>>
  documented,     \* the orders with a VerificationDocument
  call            \* the requests and jobs in flight

orderVars == <<status, left, age, rejections, acceptedOffer, renewals, offer,
               withdrawn, editable, declined, delivered, returns, fines,
               documented, call>>

-----------------------------------------------------------------------------
Idle == [stage |-> "idle"]

CronOps == {"reveal", "expireSelection", "expirePayment", "delayPreparation",
            "failPreparation", "toCorrection", "expireCorrection",
            "autoComplete"}
BidOps == {"bid", "withdraw", "retract", "adminDelete", "accept", "acceptPart",
           "reject", "renew"}
VerifyOps == {"prepare", "submitVerification", "approve", "disapprove",
              "correct"}
OpNames == CronOps \cup BidOps \cup VerifyOps \cup {"transition", "expireWarranty"}

Calls ==
  [stage : {"listed", "checked", "read", "after"}, op : OpNames,
   order : Order, offer : Offer \cup {NoOffer}, to : Status, seen : Status,
   warranty : BOOLEAN, count : Nat]

NewCall(stage, op, o, f, to) ==
  [stage |-> stage, op |-> op, order |-> o, offer |-> f, to |-> to,
   seen |-> status[o], warranty |-> FALSE, count |-> rejections[o]]

Free(c) == call[c] = Idle
At(c, stage) == call[c].stage = stage
Hold(c, r) == call' = [call EXCEPT ![c] = r]
Done(c) == call' = [call EXCEPT ![c] = Idle]

OffersOf(o) == {f \in Offer : OrderOf[f] = o}
Accepted(o) == {f \in OffersOf(o) : offer[f] = "accepted"}
Bump(n) == IF n < StatCap THEN n + 1 ELSE n
SetLeft(o, t, days) == left' = [left EXCEPT ![o][t] = days]

TypeOK ==
  /\ status \in [Order -> Status]
  /\ left \in [Order -> [Timer -> {Unset} \cup 0..MaxDays]]
  /\ age \in [Order -> 0..MaxDays]
  /\ rejections \in [Order -> Nat]
  /\ acceptedOffer \in [Order -> Offer \cup {NoOffer}]
  /\ renewals \in [Order -> 0..MaxRenewals]
  /\ offer \in [Offer -> OfferStatus]
  /\ withdrawn \subseteq Offer
  /\ editable \subseteq Offer
  /\ declined \subseteq Offer
  /\ delivered \in [Order -> 0..StatCap]
  /\ returns \in [Order -> 0..StatCap]
  /\ fines \subseteq (CronOps \X Order)
  /\ documented \subseteq Order
  /\ call \in [Caller -> {Idle} \cup Calls]

(* OrdersService.create has just run: no offers yet, one day to the reveal. *)
Init ==
  /\ status = [o \in Order |-> "COLLECTING_OFFERS"]
  /\ left = [o \in Order |-> [t \in Timer |-> IF t = "reveal" THEN 1 ELSE Unset]]
  /\ age = [o \in Order |-> 0]
  /\ rejections = [o \in Order |-> 0]
  /\ acceptedOffer = [o \in Order |-> NoOffer]
  /\ renewals = [o \in Order |-> 0]
  /\ offer = [f \in Offer |-> "none"]
  /\ withdrawn = {}
  /\ editable = {}
  /\ declined = {}
  /\ delivered = [o \in Order |-> 0]
  /\ returns = [o \in Order |-> 0]
  /\ fines = {}
  /\ documented = {}
  /\ call = [c \in Caller |-> Idle]

-----------------------------------------------------------------------------
(* Time.  A request takes far less than a day, so no call is in flight when *)
(* a day ends.                                                              *)
Tick ==
  /\ \A c \in Caller : Free(c)
  /\ age' = [o \in Order |-> IF age[o] < MaxDays THEN age[o] + 1 ELSE age[o]]
  /\ left' = [o \in Order |-> [t \in Timer |->
                IF left[o][t] > 0 THEN left[o][t] - 1 ELSE left[o][t]]]
  /\ editable' = {}
  /\ UNCHANGED <<status, rejections, acceptedOffer, renewals, offer, withdrawn,
                 declined, delivered, returns, fines, documented, call>>

(* A request or job dies between two of its awaits: an exception, a lost   *)
(* connection or a restart.  What it wrote so far stays.                   *)
Crash(c) ==
  /\ ~Free(c)
  /\ Done(c)
  /\ UNCHANGED <<status, left, age, rejections, acceptedOffer, renewals, offer,
                 withdrawn, editable, declined, delivered, returns, fines,
                 documented>>

rowVars == <<status, left, age, rejections, acceptedOffer, renewals, offer,
             withdrawn, editable, declined, delivered, returns, fines,
             documented>>

-----------------------------------------------------------------------------
(* Bidding: OffersService.create, withdraw, cancelByVendor and adminDelete. *)

Bidding(o) == status[o] \in {"COLLECTING_OFFERS", "AWAITING_OFFERS"}

BidRead(c, f) ==
  LET o == OrderOf[f] IN
  /\ Free(c)
  /\ offer[f] = "none"
  /\ Bidding(o)
  /\ left[o]["reveal"] # 0
  /\ ~\E g \in OffersOf(o) : StoreOf[g] = StoreOf[f] /\ g \in withdrawn
  /\ ~\E d \in Caller : ~Free(d) /\ call[d].op = "bid" /\ call[d].offer = f
  /\ Hold(c, NewCall("read", "bid", o, f, status[o]))
  /\ UNCHANGED rowVars

BidWrite(c) ==
  /\ At(c, "read") /\ call[c].op = "bid"
  /\ offer' = [offer EXCEPT ![call[c].offer] = "pending"]
  /\ editable' = editable \cup {call[c].offer}
  /\ Done(c)
  /\ UNCHANGED <<status, left, age, rejections, acceptedOffer, renewals,
                 withdrawn, declined, delivered, returns, fines, documented>>

WithdrawRead(c, f) ==
  /\ Free(c)
  /\ offer[f] # "none"
  /\ f \notin withdrawn
  /\ Hold(c, NewCall("read", "withdraw", OrderOf[f], f, status[OrderOf[f]]))
  /\ UNCHANGED rowVars

WithdrawWrite(c) ==
  /\ At(c, "read") /\ call[c].op = "withdraw"
  /\ IF offer[call[c].offer] = "none"
     THEN UNCHANGED <<offer, withdrawn>>
     ELSE /\ offer' = [offer EXCEPT ![call[c].offer] = "withdrawn"]
          /\ withdrawn' = withdrawn \cup {call[c].offer}
  /\ Done(c)
  /\ UNCHANGED <<status, left, age, rejections, acceptedOffer, renewals,
                 editable, declined, delivered, returns, fines, documented>>

RetractRead(c, f) ==
  /\ Free(c)
  /\ offer[f] # "none"
  /\ Bidding(OrderOf[f])
  /\ f \in editable
  /\ Hold(c, NewCall("read", "retract", OrderOf[f], f, status[OrderOf[f]]))
  /\ UNCHANGED rowVars

(* The row is deleted; Order.acceptedOfferId is set to null if it held it. *)
Deleted(f) ==
  /\ offer' = [offer EXCEPT ![f] = "none"]
  /\ withdrawn' = withdrawn \ {f}
  /\ editable' = editable \ {f}
  /\ declined' = declined \ {f}
  /\ acceptedOffer' = [o \in Order |-> IF acceptedOffer[o] = f THEN NoOffer
                                       ELSE acceptedOffer[o]]

RetractWrite(c) ==
  /\ At(c, "read") /\ call[c].op = "retract"
  /\ Deleted(call[c].offer)
  /\ Done(c)
  /\ UNCHANGED <<status, left, age, rejections, renewals, delivered, returns,
                 fines, documented>>

(* An administrator may delete any offer, an accepted one too. *)
AdminDeleteRead(c, f) ==
  /\ Free(c)
  /\ offer[f] # "none"
  /\ Hold(c, NewCall("read", "adminDelete", OrderOf[f], f, status[OrderOf[f]]))
  /\ UNCHANGED rowVars

AdminDeleteWrite(c) ==
  /\ At(c, "read") /\ call[c].op = "adminDelete"
  /\ Deleted(call[c].offer)
  /\ Done(c)
  /\ UNCHANGED <<status, left, age, rejections, renewals, delivered, returns,
                 fines, documented>>

-----------------------------------------------------------------------------
(* Selection: acceptOffer, acceptOfferForPart, rejectOffer, renewOrder.    *)

Siblings(f) == {g \in Offer \ {f} : PartOf[g] = PartOf[f] /\ offer[g] = "pending"}

(* f becomes accepted whatever it was; the pending offers for the same part *)
(* become rejected.                                                         *)
AcceptRow(f) ==
  offer' = [g \in Offer |-> IF g = f THEN "accepted"
                            ELSE IF g \in Siblings(f) THEN "rejected"
                            ELSE offer[g]]

(* Bug: the status of the order is not looked at. *)
AcceptReadUnguarded(c, f) ==
  /\ Free(c)
  /\ offer[f] # "none"
  /\ Hold(c, NewCall("read", "accept", OrderOf[f], f, "AWAITING_PAYMENT"))
  /\ UNCHANGED rowVars

AcceptRead(c, f) ==
  LET o == OrderOf[f] IN
  /\ Free(c)
  /\ offer[f] # "none"
  /\ CanTransition(status[o], "AWAITING_PAYMENT")
  /\ Hold(c, NewCall("read", "accept", o, f, "AWAITING_PAYMENT"))
  /\ UNCHANGED rowVars

AcceptWrite(c) ==
  LET f == call[c].offer
      o == call[c].order IN
  /\ At(c, "read") /\ call[c].op = "accept"
  /\ offer[f] # "none"
  /\ AcceptRow(f)
  /\ status' = [status EXCEPT ![o] = "AWAITING_PAYMENT"]
  /\ acceptedOffer' = [acceptedOffer EXCEPT ![o] = f]
  /\ SetLeft(o, "payment", 1)
  /\ Done(c)
  /\ UNCHANGED <<age, rejections, renewals, withdrawn, editable, declined,
                 delivered, returns, fines, documented>>

AcceptPartRead(c, f) ==
  /\ Free(c)
  /\ offer[f] # "none"
  /\ Hold(c, NewCall("read", "acceptPart", OrderOf[f], f, "AWAITING_PAYMENT"))
  /\ UNCHANGED rowVars

(* Only the status as it was read decides whether the order moves on. *)
AcceptPartWrite(c) ==
  LET f == call[c].offer
      o == call[c].order IN
  /\ At(c, "read") /\ call[c].op = "acceptPart"
  /\ offer[f] # "none"
  /\ AcceptRow(f)
  /\ IF call[c].seen \in {"AWAITING_OFFERS", "COLLECTING_OFFERS",
                          "AWAITING_SELECTION"}
     THEN /\ status' = [status EXCEPT ![o] = "AWAITING_PAYMENT"]
          /\ SetLeft(o, "payment", 1)
     ELSE UNCHANGED <<status, left>>
  /\ Done(c)
  /\ UNCHANGED <<age, rejections, acceptedOffer, renewals, withdrawn, editable,
                 declined, delivered, returns, fines, documented>>

RejectRead(c, f) ==
  /\ Free(c)
  /\ offer[f] \notin {"none", "rejected"}
  /\ Hold(c, NewCall("read", "reject", OrderOf[f], f, status[OrderOf[f]]))
  /\ UNCHANGED rowVars

(* OfferRejection.offerId is unique: a second rejection row fails and takes *)
(* the status update with it.                                               *)
RejectWrite(c) ==
  LET f == call[c].offer IN
  /\ At(c, "read") /\ call[c].op = "reject"
  /\ offer[f] # "none" /\ f \notin declined
  /\ offer' = [offer EXCEPT ![f] = "rejected"]
  /\ declined' = declined \cup {f}
  /\ Done(c)
  /\ UNCHANGED <<status, left, age, rejections, acceptedOffer, renewals,
                 withdrawn, editable, delivered, returns, fines, documented>>

(* The update throws: the offer was deleted or already has a rejection row. *)
OfferWriteFails(c) ==
  LET f == call[c].offer IN
  /\ At(c, "read")
  /\ \/ call[c].op \in {"accept", "acceptPart", "reject"} /\ offer[f] = "none"
     \/ call[c].op = "reject" /\ f \in declined
  /\ Done(c)
  /\ UNCHANGED rowVars

(* renewOrder looks at no status: the read only finds the row. *)
RenewRead(c, o) ==
  /\ Free(c)
  /\ renewals[o] < MaxRenewals
  /\ Hold(c, NewCall("read", "renew", o, NoOffer, "AWAITING_OFFERS"))
  /\ UNCHANGED rowVars

RenewWrite(c) ==
  LET o == call[c].order IN
  /\ At(c, "read") /\ call[c].op = "renew"
  /\ renewals[o] < MaxRenewals
  /\ renewals' = [renewals EXCEPT ![o] = @ + 1]
  /\ status' = [status EXCEPT ![o] = "AWAITING_OFFERS"]
  /\ Done(c)
  /\ UNCHANGED <<left, age, rejections, acceptedOffer, offer, withdrawn,
                 editable, declined, delivered, returns, fines, documented>>

-----------------------------------------------------------------------------
(* transitionStatus, and the jobs that run it.                             *)

CronTarget ==
  [ reveal           |-> "AWAITING_SELECTION",
    expireSelection  |-> "CANCELLED",
    expirePayment    |-> "CANCELLED",
    delayPreparation |-> "DELAYED_PREPARATION",
    failPreparation  |-> "CANCELLED",
    toCorrection     |-> "CORRECTION_PERIOD",
    expireCorrection |-> "CANCELLED",
    autoComplete     |-> "COMPLETED" ]

(* The orders each job lists, by its WHERE clause. *)
RevealDue(o) == status[o] = "COLLECTING_OFFERS" /\ left[o]["reveal"] = 0

SelectionOverdue(o) == status[o] = "AWAITING_SELECTION" /\ left[o]["selection"] = 0

(* Bug: the second half of the condition is left out. *)
PaymentOverdueIfTimed(o) ==
  status[o] = "AWAITING_PAYMENT" /\ left[o]["payment"] = 0

PaymentOverdue(o) ==
  /\ status[o] = "AWAITING_PAYMENT"
  /\ \/ left[o]["payment"] = 0
     \/ left[o]["payment"] = Unset /\ age[o] >= 1

(* The start of the preparation is taken from the first payment with status *)
(* COMPLETED, a value no payment row ever has, and so from updatedAt.       *)
PreparationSlow(o) == status[o] = "PREPARATION" /\ age[o] >= 2

DelayOver(o) == status[o] = "DELAYED_PREPARATION" /\ left[o]["delayed"] = 0

(* Two minutes after updatedAt, which no rejection touches. *)
Mismatched(o) == status[o] = "NON_MATCHING"

CorrectionOver(o) == status[o] = "CORRECTION_PERIOD" /\ left[o]["correction"] = 0

ReturnWindowOver(o) == status[o] = "DELIVERED" /\ age[o] >= 3

Due(op, o) ==
  CASE op = "reveal"           -> RevealDue(o)
    [] op = "expireSelection"  -> SelectionOverdue(o)
    [] op = "expirePayment"    -> PaymentOverdue(o)
    [] op = "delayPreparation" -> PreparationSlow(o)
    [] op = "failPreparation"  -> DelayOver(o)
    [] op = "toCorrection"     -> Mismatched(o)
    [] op = "expireCorrection" -> CorrectionOver(o)
    [] op = "autoComplete"     -> ReturnWindowOver(o)

JobList(j, op, o) ==
  /\ Free(j)
  /\ Due(op, o)
  /\ Hold(j, NewCall(IF op = "autoComplete" THEN "listed" ELSE "checked",
                     op, o, NoOffer, CronTarget[op]))
  /\ UNCHANGED rowVars

(* handleDeliveredReturnsAutoCompletion re-reads the status of each order. *)
JobRecheck(j) ==
  /\ At(j, "listed") /\ call[j].op = "autoComplete"
  /\ IF status[call[j].order] = "DELIVERED"
     THEN Hold(j, [call[j] EXCEPT !.stage = "checked"])
     ELSE Done(j)
  /\ UNCHANGED rowVars

HasWarranty(o) == \E f \in Accepted(o) : f \in Warranted

(* transitionStatus reads the order with its offers and validates. *)
TransitionRead(c) ==
  LET o == call[c].order IN
  /\ At(c, "checked")
  /\ IF CanTransition(status[o], call[c].to)
     THEN Hold(c, [call[c] EXCEPT !.stage = "read", !.seen = status[o],
                                  !.warranty = HasWarranty(o)])
     ELSE Done(c)
  /\ UNCHANGED rowVars

(* PATCH /orders/:id/transition: any party may ask for any legal status. *)
RequestTransition(c, o, to) ==
  /\ Free(c)
  /\ CanTransition(status[o], to)
  /\ Hold(c, [NewCall("read", "transition", o, NoOffer, to)
                EXCEPT !.warranty = HasWarranty(o)])
  /\ UNCHANGED rowVars

(* The update is by id only.  A completed order with a warranted offer goes *)
(* to WARRANTY_ACTIVE instead.                                              *)
Landing(r) == IF r.to = "COMPLETED" /\ r.warranty THEN "WARRANTY_ACTIVE" ELSE r.to

(* Bug: the deadline of the selection is left out. *)
DeadlinesWithoutSelection(r, old) ==
  [old EXCEPT !["warranty"] = IF Landing(r) # r.to THEN 1 ELSE @]

(* The deadlines that go with the new status, written with it. *)
Deadlines(r, old) ==
  [old EXCEPT !["selection"] = IF r.to = "AWAITING_SELECTION" THEN 1 ELSE @,
              !["warranty"] = IF Landing(r) # r.to THEN 1 ELSE @]

NewlyDelivered(r) == r.to = "DELIVERED" /\ r.seen # "DELIVERED"

NegativeOutcome == {"RETURN_REQUESTED", "RETURNED", "DISPUTED"}
DeliveredOrCompleted == {"DELIVERED", "COMPLETED", "WARRANTY_ACTIVE"}

(* The jobs that go on once transitionStatus has returned.  expireCorrection *)
(* would fine the store in Order.storeId, a column nothing ever sets.        *)
Unfinished == {"expirePayment", "delayPreparation", "failPreparation"}

TransitionWrite(c) ==
  LET r == call[c]
      o == r.order IN
  /\ At(c, "read") /\ r.op \in CronOps \cup {"transition"}
  /\ status' = [status EXCEPT ![o] = Landing(r)]
  /\ age' = [age EXCEPT ![o] = 0]
  /\ left' = [left EXCEPT ![o] = Deadlines(r, @)]
  /\ delivered' = IF NewlyDelivered(r)
                  THEN [delivered EXCEPT ![o] = Bump(@)] ELSE delivered
  /\ returns' = IF r.to \in NegativeOutcome /\ r.seen \in DeliveredOrCompleted
                THEN [returns EXCEPT ![o] = Bump(@)] ELSE returns
  /\ IF r.op \in Unfinished
     THEN Hold(c, [r EXCEPT !.stage = "after"])
     ELSE Done(c)
  /\ UNCHANGED <<rejections, acceptedOffer, renewals, offer, withdrawn,
                 editable, declined, fines, documented>>

(* What the job does once transitionStatus has returned: a fine, or the    *)
(* deadline of the delayed preparation in an update of its own.            *)
JobAfter(j) ==
  LET r == call[j]
      o == r.order IN
  /\ At(j, "after")
  /\ IF r.op = "delayPreparation"
     THEN SetLeft(o, "delayed", 1) /\ UNCHANGED fines
     ELSE fines' = fines \cup {<<r.op, o>>} /\ UNCHANGED left
  /\ Done(j)
  /\ UNCHANGED <<status, age, rejections, acceptedOffer, renewals, offer,
                 withdrawn, editable, declined, delivered, returns,
                 documented>>

(* WarrantyExpirationService and WarrantySchedulerService: list, then an    *)
(* update by id that validates nothing.                                     *)
WarrantyList(j, o) ==
  /\ Free(j)
  /\ status[o] = "WARRANTY_ACTIVE" /\ left[o]["warranty"] = 0
  /\ Hold(j, NewCall("read", "expireWarranty", o, NoOffer, "WARRANTY_EXPIRED"))
  /\ UNCHANGED rowVars

WarrantyWrite(j) ==
  LET o == call[j].order IN
  /\ At(j, "read") /\ call[j].op = "expireWarranty"
  /\ status' = [status EXCEPT ![o] = "WARRANTY_EXPIRED"]
  /\ age' = [age EXCEPT ![o] = 0]
  /\ Done(j)
  /\ UNCHANGED <<left, rejections, acceptedOffer, renewals, offer, withdrawn,
                 editable, declined, delivered, returns, fines, documented>>

-----------------------------------------------------------------------------
(* Preparation and verification: markAsPrepared, submitVerification,       *)
(* adminReviewVerification, submitCorrectionVerification.  None of them    *)
(* touches updatedAt.                                                      *)

Reviewable == {"VERIFICATION", "CORRECTION_SUBMITTED"}

(* What each request demands of the order it reads. *)
VerifyGuard(op, o) ==
  CASE op = "prepare" ->
         Accepted(o) # {} /\ CanTransition(status[o], "PREPARED")
    [] op = "submitVerification" ->
         Accepted(o) # {} /\ status[o] = "PREPARED"
    [] op \in {"approve", "disapprove"} ->
         status[o] \in Reviewable /\ o \in documented
    [] op = "correct" ->
         Accepted(o) # {} /\ status[o] \in {"CORRECTION_PERIOD", "NON_MATCHING"}

(* Bug: the rejections are counted one too late. *)
VerifyTargetLate(op, count) ==
  CASE op = "prepare"            -> "PREPARED"
    [] op = "submitVerification" -> "VERIFICATION"
    [] op = "approve"            -> "VERIFICATION_SUCCESS"
    [] op = "disapprove"         -> IF count > 1 THEN "CANCELLED" ELSE "NON_MATCHING"
    [] op = "correct"            -> "CORRECTION_SUBMITTED"

(* The status it writes; a second rejection cancels the order. *)
VerifyTarget(op, count) ==
  CASE op = "prepare"            -> "PREPARED"
    [] op = "submitVerification" -> "VERIFICATION"
    [] op = "approve"            -> "VERIFICATION_SUCCESS"
    [] op = "disapprove"         -> IF count >= 1 THEN "CANCELLED" ELSE "NON_MATCHING"
    [] op = "correct"            -> "CORRECTION_SUBMITTED"

VerifyRead(c, op, o) ==
  /\ Free(c)
  /\ VerifyGuard(op, o)
  /\ Hold(c, NewCall("read", op, o, NoOffer, VerifyTarget(op, rejections[o])))
  /\ UNCHANGED rowVars

(* Both submissions create a VerificationDocument with the new status. *)
Submits == {"submitVerification", "correct"}

VerifyWrite(c) ==
  LET r == call[c]
      o == r.order IN
  /\ At(c, "read") /\ r.op \in VerifyOps
  /\ status' = [status EXCEPT ![o] = r.to]
  /\ CASE r.op = "approve" ->
            SetLeft(o, "correction", Unset) /\ UNCHANGED rejections
       [] r.op = "disapprove" ->
            /\ SetLeft(o, "correction", IF r.to = "NON_MATCHING" THEN 2 ELSE Unset)
            /\ rejections' = [rejections EXCEPT ![o] = r.count + 1]
       [] OTHER -> UNCHANGED <<left, rejections>>
  /\ documented' = IF r.op \in Submits THEN documented \cup {o} ELSE documented
  /\ Done(c)
  /\ UNCHANGED <<age, acceptedOffer, renewals, offer, withdrawn, editable,
                 declined, delivered, returns, fines>>

-----------------------------------------------------------------------------
BidStep(c) ==
  \/ \E f \in Offer : \/ "bid" \in Ops /\ BidRead(c, f)
                      \/ "withdraw" \in Ops /\ WithdrawRead(c, f)
                      \/ "retract" \in Ops /\ RetractRead(c, f)
                      \/ "adminDelete" \in Ops /\ AdminDeleteRead(c, f)
  \/ BidWrite(c) \/ WithdrawWrite(c) \/ RetractWrite(c) \/ AdminDeleteWrite(c)

SelectStep(c) ==
  \/ \E f \in Offer : \/ "accept" \in Ops /\ AcceptRead(c, f)
                      \/ "acceptPart" \in Ops /\ AcceptPartRead(c, f)
                      \/ "reject" \in Ops /\ RejectRead(c, f)
  \/ "renew" \in Ops /\ \E o \in Order : RenewRead(c, o)
  \/ AcceptWrite(c) \/ AcceptPartWrite(c) \/ RejectWrite(c) \/ OfferWriteFails(c)
  \/ RenewWrite(c)

ManageStep(c) ==
  \/ "transition" \in Ops /\ \E o \in Order, to \in Targets : RequestTransition(c, o, to)
  \/ \E op \in VerifyOps \cap Ops, o \in Order : VerifyRead(c, op, o)
  \/ TransitionWrite(c) \/ VerifyWrite(c)

ClientStep(c) == BidStep(c) \/ SelectStep(c) \/ ManageStep(c)

JobStep(j) ==
  \/ \E op \in CronOps \cap Ops, o \in Order : JobList(j, op, o)
  \/ "expireWarranty" \in Ops /\ \E o \in Order : WarrantyList(j, o)
  \/ JobRecheck(j) \/ TransitionRead(j) \/ TransitionWrite(j) \/ JobAfter(j)
  \/ WarrantyWrite(j)

CallStep ==
  \/ \E c \in Client : ClientStep(c)
  \/ \E j \in Job : JobStep(j)
  \/ "crash" \in Ops /\ \E c \in Caller : Crash(c)

OrderStep == CallStep \/ Tick

Spec == Init /\ [][OrderStep]_orderVars

(* The jobs are run for ever and time passes: a day ends and a job that     *)
(* has something due gets its turn whatever the requests do, and a request  *)
(* that has started ends.                                                   *)
Fairness ==
  /\ SF_orderVars(Tick)
  /\ \A j \in Job : SF_orderVars(JobStep(j))
  /\ \A c \in Client : WF_orderVars(ClientStep(c) /\ ~Free(c))

FairSpec == Spec /\ Fairness

-----------------------------------------------------------------------------
(* Properties.                                                             *)

(* An order waiting for the customer's choice always has a selection       *)
(* deadline, whoever put it there and however requests and jobs            *)
(* interleave: without one expireAwaitingSelection would never find it.    *)
SelectionIsTimed ==
  \A o \in Order : status[o] = "AWAITING_SELECTION" =>
                     left[o]["selection"] # Unset

(* When requests run one at a time, every status change follows the table, *)
(* except the three that by-pass validateTransition (a renewal, accepting  *)
(* an offer, a correction sent before the correction period opened) and    *)
(* the completion of an order under warranty.                              *)
ByPass(from, to) ==
  \/ to = "AWAITING_OFFERS"
  \/ from = "NON_MATCHING" /\ to = "CORRECTION_SUBMITTED"
  \/ to = "WARRANTY_ACTIVE" /\ CanTransition(from, "COMPLETED")

StatusChangesAreLegal ==
  [][\A o \in Order : status'[o] # status[o] =>
       CanTransition(status[o], status'[o]) \/ ByPass(status[o], status'[o])]_orderVars

(* When requests run one at a time, an order whose verification was        *)
(* rejected twice is cancelled and only a renewal brings it back.          *)
SecondRejectionCancels ==
  \A o \in Order : rejections[o] >= 2 =>
                     status[o] = "CANCELLED" \/ renewals[o] > 0

(* Whatever requests race with the jobs, an order whose phase has a        *)
(* deadline does not stay in it for ever: the jobs move it on if nobody    *)
(* else does.  A job that looks for a deadline of its own finds an order   *)
(* only if that was set.  A transition by request sets no deadline for a   *)
(* delayed preparation or a correction period, nor the warranty's when it  *)
(* asks for WARRANTY_ACTIVE, and a review that lost a race takes the       *)
(* correction's away: such orders wait for a request, and are left out.    *)
DeadlineOf ==
  [ COLLECTING_OFFERS   |-> {"reveal"},
    AWAITING_SELECTION  |-> {"selection"},
    AWAITING_PAYMENT    |-> {},
    DELAYED_PREPARATION |-> {"delayed"},
    CORRECTION_PERIOD   |-> {"correction"},
    DELIVERED           |-> {},
    WARRANTY_ACTIVE     |-> {"warranty"} ]

HasDeadline(o) ==
  /\ status[o] \in DOMAIN DeadlineOf
  /\ \A t \in DeadlineOf[status[o]] : left[o][t] # Unset

PhasesEnd ==
  \A o \in Order :
    <>[]HasDeadline(o) => []<><<status'[o] # status[o]>>_orderVars
=============================================================================
