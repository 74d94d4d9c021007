------------------------------ MODULE Returns -------------------------------
(***************************************************************************)
(* The resolution center (ReturnsService and its hourly job): a customer   *)
(* asks to return an item or opens a dispute, the store answers, anybody   *)
(* escalates, an administrator gives a verdict, and a job escalates what   *)
(* the store left unanswered and closes what the customer never handed     *)
(* over.  Verdicts move the order, the escrow, the wallets and the label   *)
(* of the parcel; the shipping costs they impose are paid later.  The      *)
(* violations and statistics that follow are those of other components.    *)
(*                                                                         *)
(* A handler reads a case, waits (for uploads, or in the list of a job)    *)
(* and then updates it by id.  call[c] holds what it has read.             *)
(*                                                                         *)
(* The orders of an instance belong to one customer and one store.  Money  *)
(* is counted in shipping fees.  Time is counted in days; the limit of one *)
(* case per five minutes (checkRateLimit) is finer than that.              *)
(***************************************************************************)
EXTENDS Integers, FiniteSets, OrderFsm

CONSTANTS
  Order, Item,
  Case,         \* rows of ReturnRequest and Dispute
  OrderOf,      \* [Case -> Order]
  ItemOf,       \* [Case -> Item], a part or, for null, the whole order
  Disputes,     \* the cases that are disputes, the others are returns
  Covered,      \* the orders whose warranty_end_at is in the future
  Client,       \* requests in flight at once
  Job,          \* runs of the hourly job in flight at once
  Rulings,      \* the verdicts an administrator of this instance gives
  Targets,      \* the statuses the rest of the system moves orders to
  Opening,      \* what the store and the customer have in their wallets
  MaxVerdicts,  \* bound on the verdicts given: the code has none
  MaxTaken      \* bound on the shipping payments of a case: so has this

Caller == Client \cup Job
Payer == {"MERCHANT", "CUSTOMER"}
CaseStatus == {"none", "PENDING", "OPEN", "AWAITING_ADMIN", "ESCALATED",
               "APPROVED", "REFUNDED", "RESOLVED", "CLOSED"}

(* The body of a verdict, of which the controller requires nothing more.   *)
(* Without extra only statuses change.  fee: the shippingRefund is to be   *)
(* paid, is 0, or is not given; roundtrip: the shipping is charged now.    *)
Ruling == [verdict : {"REFUND", "RELEASE_FUNDS", "DENY"}, extra : BOOLEAN,
           fault : Payer \cup {"none"}, roundtrip : BOOLEAN,
           fee : {"due", "zero", "absent"}]
NoRuling == [verdict |-> "DENY", extra |-> FALSE, fault |-> "none",
             roundtrip |-> FALSE, fee |-> "absent"]

Unset == -1
Window == 2    \* days: the store must answer, a delivered order be returned
Handover == 3  \* days: the customer must hand the item over

ASSUME ReturnsAssumption ==
  /\ OrderOf \in [Case -> Order]
  /\ ItemOf \in [Case -> Item]
  /\ Disputes \subseteq Case
  /\ Covered \subseteq Order
  /\ Rulings \subseteq Ruling
  /\ Targets \subseteq Status
  /\ Opening \in [Payer -> Int]
  /\ MaxVerdicts \in Nat
  /\ MaxTaken \in Nat

VARIABLES
  status,      \* Order.status
  age,         \* days since Order.updatedAt, saturating at Window
  escrow,      \* EscrowTransaction.status of an order
  parcel,      \* Shipment.status of the newest shipment of an order
  case,        \* ReturnRequest.status and Dispute.status
  waited,      \* days since an unanswered case was opened, up to Window
  handover,    \* days left until the handoverDeadline of an approved return
  verdicts,    \* how many verdicts were given
  locked,      \* the cases with verdictLocked
  owes,        \* the cases with a shippingRefund
  payee,       \* shippingPayee
  shipping,    \* shippingPaymentStatus
  paying,      \* the cases with a shipping payment under way at Stripe
  taken,       \* how often its shipping was taken, since it was last asked for
  asked,       \* the cases whose last word on the shipping is that it is due
  wallet,      \* the balances of the store and of the customer
  call

orderVars == <<status, age, escrow, parcel>>
caseVars == <<case, waited, handover, verdicts, locked>>
debtVars == <<owes, payee, shipping, paying, taken, asked, wallet>>
returnVars == <<orderVars, caseVars, debtVars, call>>

-----------------------------------------------------------------------------
Idle == [stage |-> "idle"]

OpNames == {"return", "dispute", "respond", "escalate", "verdict", "pay",
            "lateJob", "handoverJob"}

Calls ==
  [stage : {"read"}, op : OpNames, case : Case, ruling : Ruling,
   held : BOOLEAN, poor : BOOLEAN, payer : Payer]
  \cup [stage : {"todo"}, op : OpNames, todo : SUBSET Case]

Began(op, k) ==
  [stage |-> "read", op |-> op, case |-> k, ruling |-> NoRuling,
   held |-> FALSE, poor |-> FALSE, payer |-> "CUSTOMER"]
Listed(op, K) == [stage |-> "todo", op |-> op, todo |-> K]

Free(c) == call[c] = Idle
At(c, stage, op) == call[c].stage = stage /\ call[c].op = op
Hold(c, r) == call' = [call EXCEPT ![c] = r]
Done(c) == call' = [call EXCEPT ![c] = Idle]

IsReturn(k) == k \notin Disputes
Unanswered(k) == case[k] \in {"PENDING", "OPEN"}
SetCase(k, s) == case' = [case EXCEPT ![k] = s]
SetOrder(o, s) == status' = [status EXCEPT ![o] = s]
SameItem(k) == {j \in Case : OrderOf[j] = OrderOf[k] /\ ItemOf[j] = ItemOf[k]
                             /\ IsReturn(j) = IsReturn(k)}

(* The statuses a case enters with the order in the hands of the resolution *)
(* center, and the statuses of a case that still wants somebody to act.     *)
CasePhases == {"RETURN_REQUESTED", "RETURN_APPROVED", "DISPUTED"}
Live == {"PENDING", "OPEN", "AWAITING_ADMIN", "ESCALATED", "APPROVED"}

ReturnTypeOK ==
  /\ status \in [Order -> Status]
  /\ age \in [Order -> 0..Window]
  /\ escrow \in [Order -> {"HELD", "RELEASED", "REFUNDED"}]
  /\ parcel \in [Order -> {"outbound", "RETURN_LABEL_ISSUED", "RETURN_STARTED"}]
  /\ case \in [Case -> CaseStatus]
  /\ waited \in [Case -> 0..Window]
  /\ handover \in [Case -> {Unset} \cup 0..Handover]
  /\ verdicts \in Nat
  /\ locked \subseteq Case
  /\ owes \subseteq Case
  /\ payee \in [Case -> Payer \cup {"none"}]
  /\ shipping \in [Case -> {"PENDING", "PAID", "INSUFFICIENT_FUNDS"}]
  /\ paying \subseteq Case
  /\ taken \in [Case -> Nat]
  /\ asked \subseteq Case
  /\ wallet \in [Payer -> Int]
  /\ call \in [Caller -> {Idle} \cup Calls]

(* Paid orders on the way, just delivered, or back under warranty.         *)
ReturnInit ==
  /\ status \in [Order -> {"SHIPPED", "DELIVERED", "WARRANTY_ACTIVE"}]
  /\ age = [o \in Order |-> 0]
  /\ escrow = [o \in Order |-> "HELD"]
  /\ parcel = [o \in Order |-> "outbound"]
  /\ case = [k \in Case |-> "none"]
  /\ waited = [k \in Case |-> 0]
  /\ handover = [k \in Case |-> Unset]
  /\ verdicts = 0
  /\ locked = {}
  /\ owes = {}
  /\ payee = [k \in Case |-> "none"]
  /\ shipping = [k \in Case |-> "PENDING"]
  /\ paying = {}
  /\ taken = [k \in Case |-> 0]
  /\ asked = {}
  /\ wallet = Opening
  /\ call = [c \in Caller |-> Idle]

-----------------------------------------------------------------------------
(* The clock and the rest of the system.                                   *)

Sooner(n) == IF n > 0 THEN n - 1 ELSE n
Later(n) == IF n < Window THEN n + 1 ELSE n

(* No handler runs for a day.                                              *)
Tick ==
  /\ \A c \in Caller : Free(c)
  /\ age' = [o \in Order |-> Later(age[o])]
  /\ waited' = [k \in Case |-> IF Unanswered(k) THEN Later(waited[k]) ELSE 0]
  /\ handover' = [k \in Case |-> IF case[k] = "APPROVED" THEN Sooner(handover[k])
                                 ELSE Unset]
  /\ UNCHANGED <<status, escrow, parcel, case, verdicts, locked,
                 debtVars, call>>

(* transitionStatus.  Its endpoint is open to every user who is logged in, *)
(* and asks for no case when the order goes to a phase of this component.  *)
Transition(o, to) ==
  /\ CanTransition(status[o], to)
  /\ SetOrder(o, to)
  /\ age' = [age EXCEPT ![o] = 0]
  /\ UNCHANGED <<escrow, parcel, caseVars, debtVars, call>>

(* The hourly release of the orders completed a day ago.                   *)
HourlyRelease(o) ==
  /\ status[o] = "COMPLETED"
  /\ age[o] > 0
  /\ escrow[o] = "HELD"
  /\ escrow' = [escrow EXCEPT ![o] = "RELEASED"]
  /\ UNCHANGED <<status, age, parcel, caseVars, debtVars, call>>

-----------------------------------------------------------------------------
(* Opening a case.                                                         *)

(* A return needs an order on its way or delivered at most 48 hours ago,   *)
(* and no other return of the item: no return is ever cancelled or         *)
(* rejected, so a closed one counts.                                       *)
ReturnRead(c, k) ==
  LET o == OrderOf[k] IN
  /\ Free(c)
  /\ IsReturn(k) /\ case[k] = "none"
  /\ status[o] \in {"SHIPPED", "DELIVERED"}
  /\ status[o] = "DELIVERED" => age[o] < Window
  /\ \A j \in SameItem(k) : case[j] = "none"
  /\ Hold(c, Began("return", k))
  /\ UNCHANGED <<orderVars, caseVars, debtVars>>

(* A dispute needs an order that is not closed, delivered less than a day  *)
(* ago if it is delivered, and no other dispute of the item in progress.   *)
DisputeRead(c, k) ==
  LET o == OrderOf[k] IN
  /\ Free(c)
  /\ ~IsReturn(k) /\ case[k] = "none"
  /\ status[o] \notin {"COMPLETED", "CANCELLED", "REFUNDED"}
  /\ status[o] = "DELIVERED" => age[o] = 0
  /\ \A j \in SameItem(k) : case[j] \in {"none", "CLOSED", "RESOLVED"}
  /\ Hold(c, Began("dispute", k))
  /\ UNCHANGED <<orderVars, caseVars, debtVars>>

(* One transaction after the uploads: the row, the order.                  *)
OpenCase(c, op, first, phase) ==
  LET k == call[c].case IN
  /\ At(c, "read", op)
  /\ case[k] = "none"
  /\ SetCase(k, first)
  /\ SetOrder(OrderOf[k], phase)
  /\ Done(c)
  /\ UNCHANGED <<age, escrow, parcel, waited, handover, verdicts, locked,
                 debtVars>>

ReturnWrite(c) == OpenCase(c, "return", "PENDING", "RETURN_REQUESTED")
DisputeWrite(c) == OpenCase(c, "dispute", "OPEN", "DISPUTED")

(* A warranty claim for a covered order would be approved at once, but the *)
(* label needs order.customer, which this query does not include: the      *)
(* transaction is rolled back.                                             *)
WarrantyClaimFails(c) ==
  /\ At(c, "read", "return")
  /\ OrderOf[call[c].case] \in Covered
  /\ Done(c)
  /\ UNCHANGED <<orderVars, caseVars, debtVars>>

-----------------------------------------------------------------------------
(* Answers and escalations: the status is checked when it is read.         *)

RespondRead(c, k) ==
  /\ Free(c)
  /\ Unanswered(k)
  /\ Hold(c, Began("respond", k))
  /\ UNCHANGED <<orderVars, caseVars, debtVars>>

RespondWrite(c) ==
  /\ At(c, "read", "respond")
  /\ SetCase(call[c].case, "AWAITING_ADMIN")
  /\ Done(c)
  /\ UNCHANGED <<orderVars, waited, handover, verdicts, locked, debtVars>>

EscalateRead(c, k) ==
  /\ Free(c)
  /\ case[k] \notin {"none", "RESOLVED", "CLOSED", "ESCALATED"}
  /\ Hold(c, Began("escalate", k))
  /\ UNCHANGED <<orderVars, caseVars, debtVars>>

EscalateWrite(c) ==
  /\ At(c, "read", "escalate")
  /\ SetCase(call[c].case, "ESCALATED")
  /\ Done(c)
  /\ UNCHANGED <<orderVars, waited, handover, verdicts, locked, debtVars>>

-----------------------------------------------------------------------------
(* Verdicts.                                                               *)

(* issueVerdict looks at no status.  What it reads and uses later: the     *)
(* balance of the store, and whether the escrow of the order is HELD (read *)
(* in the transaction, but nothing keeps it as it was read).               *)
VerdictRead(c, k, r) ==
  /\ Free(c)
  /\ case[k] # "none"
  /\ verdicts < MaxVerdicts
  /\ Hold(c, [Began("verdict", k) EXCEPT !.ruling = r,
                !.held = (escrow[OrderOf[k]] = "HELD"),
                !.poor = (wallet["MERCHANT"] < 1)])
  /\ UNCHANGED <<orderVars, caseVars, debtVars>>

(* updateVerdict: every verdict locks its case, so it can only be the first. *)
UpdateRead(c, k, r) == k \notin locked /\ VerdictRead(c, k, r)

Refunds(r) == r.verdict = "REFUND"

(* order.price is no column of the order: the sum of which the fees are    *)
(* deducted is 0, and processRefund is called for a positive sum only.     *)
OrderPrice == 0
NetRefund(r) == IF r.roundtrip /\ r.fault = "CUSTOMER" THEN OrderPrice - 1
                ELSE OrderPrice

ChargesStore(r) == r.extra /\ Refunds(r) /\ r.roundtrip /\ r.fault = "MERCHANT"

(* A verdict that names the party at fault says whether its shipping is due. *)
Names(r) == r.extra /\ r.fault # "none"
Asks(r) == Names(r) /\ r.fee = "due"

(* Bug: what an earlier verdict or payment settled stays settled. *)
ShippingKept(c, k) ==
  IF Names(call[c].ruling) /\ shipping[k] # "PAID"
  THEN IF Asks(call[c].ruling) THEN "PENDING" ELSE "PAID"
  ELSE shipping[k]

(* PAID also when no shipping is due: what was owed before is then forgiven. *)
ShippingAfter(c, k) ==
  LET r == call[c].ruling IN
  IF ChargesStore(r) THEN IF call[c].poor THEN "INSUFFICIENT_FUNDS" ELSE "PAID"
  ELSE IF Names(r) THEN IF Asks(r) THEN "PENDING" ELSE "PAID"
  ELSE shipping[k]

(* shippingRefund: a column that is not given keeps its value. *)
OwesAfter(c, k) ==
  LET r == call[c].ruling IN
  IF r.extra /\ r.fee = "due" THEN owes \cup {k}
  ELSE IF r.extra /\ r.fee = "zero" THEN owes \ {k}
  ELSE owes

EscrowAfter(c, o) ==
  LET r == call[c].ruling IN
  IF r.extra /\ ~Refunds(r) /\ call[c].held THEN "RELEASED"
  ELSE IF r.extra /\ Refunds(r) /\ NetRefund(r) > 0 THEN "REFUNDED"
  ELSE escrow[o]

(* A waybill from the customer to the store, and the shipment of the order *)
(* that carries it: there is always one to take over.                      *)
ReturnLabel(o) == parcel' = [parcel EXCEPT ![o] = "RETURN_LABEL_ISSUED"]

VerdictWrite(c) ==
  LET k == call[c].case
      o == OrderOf[k]
      r == call[c].ruling
      approves == IsReturn(k) /\ Refunds(r) IN
  /\ At(c, "read", "verdict")
  /\ SetCase(k, IF approves THEN "APPROVED"
                ELSE IF Refunds(r) THEN "REFUNDED" ELSE "RESOLVED")
  /\ SetOrder(o, IF approves THEN "RETURN_APPROVED"
                 ELSE IF Refunds(r) THEN "REFUNDED" ELSE "COMPLETED")
  /\ handover' = [handover EXCEPT ![k] = IF approves THEN Handover ELSE @]
  /\ IF approves THEN ReturnLabel(o) ELSE UNCHANGED parcel
  /\ escrow' = [escrow EXCEPT ![o] = EscrowAfter(c, o)]
  /\ locked' = locked \cup {k}
  /\ verdicts' = verdicts + 1
  /\ owes' = OwesAfter(c, k)
  /\ asked' = IF Asks(r) THEN asked \cup {k} ELSE IF Names(r) THEN asked \ {k} ELSE asked
  /\ payee' = [payee EXCEPT ![k] = IF Names(r) THEN r.fault ELSE @]
  /\ shipping' = [shipping EXCEPT ![k] = ShippingAfter(c, k)]
  /\ wallet' = [wallet EXCEPT !["MERCHANT"] = IF ChargesStore(r) THEN @ - 1 ELSE @]
  /\ taken' = [taken EXCEPT ![k] = (IF Asks(r) THEN 0 ELSE @)
                                 + (IF ChargesStore(r) THEN 1 ELSE 0)]
  /\ Done(c)
  /\ UNCHANGED <<age, waited, paying>>

-----------------------------------------------------------------------------
(* Shipping costs: from the wallet, or with Stripe.                        *)

PayerOf(k) == IF payee[k] = "MERCHANT" THEN "MERCHANT" ELSE "CUSTOMER"

PayRead(c, k) ==
  /\ Free(c)
  /\ k \in owes
  /\ shipping[k] # "PAID"
  /\ wallet[PayerOf(k)] >= 1
  /\ Hold(c, [Began("pay", k) EXCEPT !.payer = PayerOf(k)])
  /\ UNCHANGED <<orderVars, caseVars, debtVars>>

Settled(k) ==
  /\ shipping' = [shipping EXCEPT ![k] = "PAID"]
  /\ taken' = [taken EXCEPT ![k] = @ + 1]
  /\ parcel' = [parcel EXCEPT ![OrderOf[k]] = "RETURN_STARTED"]

PayWrite(c) ==
  LET k == call[c].case IN
  /\ At(c, "read", "pay")
  /\ Settled(k)
  /\ wallet' = [wallet EXCEPT ![call[c].payer] = @ - 1]
  /\ Done(c)
  /\ UNCHANGED <<status, age, escrow, caseVars, owes, payee, paying, asked>>

(* createShippingPaymentIntent looks whether the shipping is paid and has   *)
(* a payee; createShippingCheckoutSession does not.                         *)
BeginPayment(k) ==
  /\ k \in owes \ paying
  /\ taken[k] < MaxTaken
  /\ paying' = paying \cup {k}
  /\ UNCHANGED <<orderVars, caseVars, owes, payee, shipping, taken, asked, wallet,
                 call>>

ShippingIntent(k) == payee[k] # "none" /\ shipping[k] # "PAID" /\ BeginPayment(k)
ShippingSession(k) == BeginPayment(k)

(* The webhook.  The amount must still be the one the case asks for.       *)
ShippingFulfilled(k) ==
  /\ k \in paying \cap owes
  /\ paying' = paying \ {k}
  /\ Settled(k)
  /\ UNCHANGED <<status, age, escrow, caseVars, owes, payee, asked, wallet, call>>

-----------------------------------------------------------------------------
(* The hourly job: it lists the cases, then writes them one by one.        *)

(* Bug: the disputes are not listed. *)
LateReturn(k) == IsReturn(k) /\ case[k] = "PENDING" /\ waited[k] = Window
Late(k) == Unanswered(k) /\ waited[k] = Window
LateCases == {k \in Case : Late(k)}

LateList(c) ==
  /\ Free(c)
  /\ LateCases # {}
  /\ Hold(c, Listed("lateJob", LateCases))
  /\ UNCHANGED <<orderVars, caseVars, debtVars>>

Proceed(c, k) ==
  LET rest == call[c].todo \ {k} IN
  IF rest = {} THEN Done(c) ELSE Hold(c, [call[c] EXCEPT !.todo = rest])

LateEscalate(c, k) ==
  /\ At(c, "todo", "lateJob")
  /\ k \in call[c].todo
  /\ SetCase(k, "ESCALATED")
  /\ Proceed(c, k)
  /\ UNCHANGED <<orderVars, waited, handover, verdicts, locked, debtVars>>

(* Bug: only cases without a verdict are looked at. *)
ExpiredUndecided(k) == case[k] = "APPROVED" /\ handover[k] = 0 /\ k \notin locked
Expired(k) == case[k] = "APPROVED" /\ handover[k] = 0
ExpiredCases == {k \in Case : Expired(k)}

HandoverList(c) ==
  /\ Free(c)
  /\ ExpiredCases # {}
  /\ Hold(c, Listed("handoverJob", ExpiredCases))
  /\ UNCHANGED <<orderVars, caseVars, debtVars>>

(* Bug: the order is left where it was. *)
HandoverKeepsOrder(c, k) ==
  /\ At(c, "todo", "handoverJob")
  /\ k \in call[c].todo
  /\ SetCase(k, "CLOSED")
  /\ locked' = locked \cup {k}
  /\ Proceed(c, k)
  /\ UNCHANGED <<orderVars, waited, handover, verdicts, debtVars>>

HandoverWrite(c, k) ==
  /\ At(c, "todo", "handoverJob")
  /\ k \in call[c].todo
  /\ SetCase(k, "CLOSED")
  /\ locked' = locked \cup {k}
  /\ SetOrder(OrderOf[k], "COMPLETED")
  /\ Proceed(c, k)
  /\ UNCHANGED <<age, escrow, parcel, waited, handover, verdicts,
                 debtVars>>

-----------------------------------------------------------------------------
ClientStart(c) ==
  \E k \in Case :
    \/ ReturnRead(c, k) \/ DisputeRead(c, k)
    \/ RespondRead(c, k) \/ EscalateRead(c, k) \/ PayRead(c, k)
    \/ \E r \in Rulings : VerdictRead(c, k, r) \/ UpdateRead(c, k, r)

ClientEnd(c) ==
  \/ ReturnWrite(c) \/ DisputeWrite(c) \/ WarrantyClaimFails(c)
  \/ RespondWrite(c) \/ EscalateWrite(c) \/ VerdictWrite(c) \/ PayWrite(c)

JobStart(j) == LateList(j) \/ HandoverList(j)
JobWork(j) ==
  \E k \in Case : LateEscalate(j, k) \/ HandoverWrite(j, k)

ReturnNext ==
  \/ Tick
  \/ \E o \in Order : HourlyRelease(o) \/ \E to \in Targets : Transition(o, to)
  \/ \E k \in Case : ShippingIntent(k) \/ ShippingSession(k) \/ ShippingFulfilled(k)
  \/ \E c \in Client : ClientStart(c) \/ ClientEnd(c)
  \/ \E j \in Job : JobStart(j) \/ JobWork(j)

ReturnSpec == ReturnInit /\ [][ReturnNext]_returnVars

(* Days pass, the hourly job meets what it looks for, what has begun ends. *)
(* No customer, store or administrator is assumed to do anything.          *)
ReturnFairness ==
  /\ SF_returnVars(Tick)
  /\ \A j \in Job : /\ SF_returnVars(LateList(j))
                    /\ SF_returnVars(HandoverList(j))
                    /\ WF_returnVars(JobWork(j))
  /\ \A c \in Client : WF_returnVars(ClientEnd(c))

FairReturnSpec == ReturnSpec /\ ReturnFairness

-----------------------------------------------------------------------------
(* Properties.                                                             *)

(* An order in a phase of the resolution center has a case in which        *)
(* somebody still has to act, unless transitionStatus moved it there.      *)
InGoodHands(o) ==
  status[o] \in CasePhases => \E k \in Case : OrderOf[k] = o /\ case[k] \in Live

(* Although verdicts, answers and jobs write what they read long ago over  *)
(* each other's cases, none of them leaves an order behind in a phase of   *)
(* the resolution center without a case in which somebody must still act:  *)
(* only a transition asked for at its endpoint does.                       *)
OnlyTransitionsStrand ==
  [][\A o \in Order : InGoodHands(o) /\ ~InGoodHands(o)'
       => \E to \in Targets : Transition(o, to)]_returnVars

(* Where the last verdict to name a party made the shipping due, it is not *)
(* marked PAID before it was taken after that verdict, by the verdict      *)
(* itself, from a wallet or through Stripe, whatever payments and verdicts *)
(* came before and whichever of them are still under way.                  *)
DueIsTaken == \A k \in asked : shipping[k] = "PAID" => taken[k] > 0

(* Rows, wallets and requests in flight keep their types, and no shipping  *)
(* that is due counts as paid: see DueIsTaken.                             *)
ReturnInv == ReturnTypeOK /\ DueIsTaken

(* A store that never answers does not keep a case open: it leaves the     *)
(* store's hands, for the administrators or by a verdict.                  *)
SilenceEnds ==
  \A k \in Case : case[k] \in {"PENDING", "OPEN"} ~> case[k] \notin {"PENDING", "OPEN"}

(* An approved return does not stay approved when nobody hands it over.    *)
HandoverEnds == \A k \in Case : case[k] = "APPROVED" ~> case[k] # "APPROVED"
=============================================================================
