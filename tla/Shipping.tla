------------------------------ MODULE Shipping ------------------------------
(***************************************************************************)
(* From a paid order to its delivery: the assembly cart, the shipments and *)
(* waybills, and the jobs that empty a cart after seven days               *)
(* (OrdersService.requestShipping and its callers, ShipmentsService,       *)
(* WaybillsService, ShippingAutomationService).                            *)
(*                                                                         *)
(* The offers here are the accepted and paid ones of their order.  As in   *)
(* Orders, a handler is a record in call[c] that goes through stages, and  *)
(* every await between a decision and a write separates two of them.  Of   *)
(* transitionStatus only the status is kept: COMPLETED, which may land on  *)
(* another status, is not among the targets of this module.  A handler     *)
(* that dies is one that takes no further step, which ShipSpec allows.     *)
(***************************************************************************)
EXTENDS Naturals, Sequences, FiniteSets, OrderFsm

CONSTANTS
  Order, Offer,
  OrderOf,      \* [Offer -> Order]
  Waybill,      \* the waybills that can be issued
  NoWaybill,
  Client,       \* requests that can be in flight at once
  Job,          \* runs of scheduled jobs that can be in flight at once
  Targets,      \* the statuses its transition requests ask for
  Reports       \* the shipment statuses its administrators report

Caller == Client \cup Job
ShipmentStatus ==
  {"RECEIVED_AT_HUB", "PICKED_UP_BY_CARRIER", "DELIVERED_TO_CUSTOMER",
   "RETURN_COMPLETED_TO_CUSTOMER", "elsewhere"}

ASSUME ShippingAssumption ==
  /\ OrderOf \in [Offer -> Order]
  /\ IsFiniteSet(Offer)
  /\ NoWaybill \notin Waybill
  /\ Targets \subseteq Status \ {"COMPLETED"}
  /\ Reports \subseteq ShipmentStatus

VARIABLES
  status,    \* Order.status
  multiple,  \* the orders with requestType "multiple"
  shipped,   \* the offers with shippedFromCart
  box,       \* Offer.cartShipmentId, 0 when null
  shipment,  \* the shipments, in the order they were created
  waybill,   \* the order of a waybill, or "unissued"
  aged,      \* the offers paid seven days ago
  fined,     \* the orders for which LATE_PREPARATION_AUTO_CANCEL was issued
  call       \* the requests and jobs in flight

shipVars == <<status, multiple, shipped, box, shipment, waybill, aged, fined,
              call>>
rows == <<status, multiple, shipped, box, shipment, waybill, aged, fined>>

-----------------------------------------------------------------------------
Idle == [stage |-> "idle"]
CallOps == {"cart", "merchant", "confirm", "cancel", "transition", "issue",
            "post", "report"}
Stages == {"listed", "found", "create", "boxed", "marked", "checked", "read",
           "after", "issue", "issued", "follow"}
Calls ==
  [stage : Stages, op : CallOps, order : Order, batch : SUBSET Offer,
   to : Status,   \* it asks for; until the count of a cart, the one it read
   waybill : Waybill \cup {NoWaybill}, box : Nat]

Shipment == [order : Order, waybill : Waybill \cup {NoWaybill},
             status : ShipmentStatus]

ShipTypeOK ==
  /\ status \in [Order -> Status]
  /\ multiple \subseteq Order
  /\ shipped \subseteq Offer
  /\ box \in [Offer -> Nat]
  /\ shipment \in Seq(Shipment)
  /\ waybill \in [Waybill -> Order \cup {"unissued"}]
  /\ aged \subseteq Offer
  /\ fined \subseteq Order
  /\ call \in [Caller -> {Idle} \cup Calls]

(* Every order has just been paid. *)
ShipInit ==
  /\ status = [o \in Order |-> "PREPARATION"]
  /\ multiple \in SUBSET Order
  /\ shipped = {}
  /\ box = [f \in Offer |-> 0]
  /\ shipment = << >>
  /\ waybill = [w \in Waybill |-> "unissued"]
  /\ aged = {}
  /\ fined = {}
  /\ call = [c \in Caller |-> Idle]

Free(c) == call[c] = Idle
At(c, stage) == call[c].stage = stage
BeginWith(c, stage, op, o, B, to, w) ==
  call' = [call EXCEPT ![c] = [stage |-> stage, op |-> op, order |-> o,
             batch |-> B, to |-> to, waybill |-> w, box |-> 0]]
Begin(c, stage, op, o, B, to) == BeginWith(c, stage, op, o, B, to, NoWaybill)
AnyStatus == "PREPARATION"  \* in the place of a status that is not looked at
Goto(c, stage) == call' = [call EXCEPT ![c].stage = stage]
Done(c) == call' = [call EXCEPT ![c] = Idle]

OffersOf(o) == {f \in Offer : OrderOf[f] = o}
InCart(o) == OffersOf(o) \ shipped
CartPhases == {"PREPARATION", "PARTIALLY_SHIPPED", "VERIFICATION_SUCCESS"}

(* Seven days have passed since the payment of f. *)
Ages(f) ==
  /\ f \notin aged
  /\ aged' = aged \cup {f}
  /\ UNCHANGED <<status, multiple, shipped, box, shipment, waybill, fined, call>>

-----------------------------------------------------------------------------
(* requestShipping: the batch is what the customer, or a job, has asked    *)
(* for and is still in the cart of an order in the right phase.            *)

CartRead(c, o, B) ==
  /\ Free(c)
  /\ B # {} /\ B \subseteq InCart(o)
  /\ status[o] \in CartPhases
  /\ Begin(c, "found", "cart", o, B, status[o])
  /\ UNCHANGED rows

(* handleAutoShipping lists aged offers ... *)
AutoList(j, o) ==
  LET B == InCart(o) \cap aged IN
  /\ Free(j)
  /\ B # {}
  /\ status[o] \in CartPhases
  /\ Begin(j, "listed", "cart", o, B, status[o])
  /\ UNCHANGED rows

(* ... and so does handleAssemblyCartCron, for an order that asks for      *)
(* several parts; an order for a single part it cancels.                   *)
CartCron(j, o) ==
  /\ Free(j)
  /\ status[o] = "PREPARATION"
  /\ OffersOf(o) \cap aged # {}
  /\ IF o \in multiple
     THEN InCart(o) # {} /\ Begin(j, "listed", "cart", o, InCart(o), status[o])
     ELSE Begin(j, "checked", "cancel", o, {}, "CANCELLED")
  /\ UNCHANGED rows

(* Bug: a partially shipped order is not looked at any more. *)
ListedReadNarrow(j) ==
  LET o == call[j].order
      B == call[j].batch \ shipped IN
  /\ At(j, "listed")
  /\ IF B # {} /\ status[o] \in CartPhases \ {"PARTIALLY_SHIPPED"}
     THEN Begin(j, "found", "cart", o, B, status[o])
     ELSE Done(j)
  /\ UNCHANGED rows

(* requestShipping reads what a job has listed once more. *)
ListedRead(j) ==
  LET o == call[j].order
      B == call[j].batch \ shipped IN
  /\ At(j, "listed")
  /\ IF B # {} /\ status[o] \in CartPhases
     THEN Begin(j, "found", "cart", o, B, status[o])
     ELSE Done(j)
  /\ UNCHANGED rows

(* ShipmentsService.create: a shipment of the same order and waybill (none *)
(* for a cart) is taken as it is, whatever its status.                     *)
Matches(r, o, w) == r.order = o /\ r.waybill = w

(* Only a cart puts something in the shipment it gets. *)
Boxes(c, s) ==
  IF call[c].op = "cart"
  THEN call' = [call EXCEPT ![c].stage = "boxed", ![c].box = s]
  ELSE Done(c)

ShipmentFind(c) ==
  LET found == {s \in DOMAIN shipment :
                  Matches(shipment[s], call[c].order, call[c].waybill)} IN
  /\ At(c, "found")
  /\ IF found = {}
     THEN Goto(c, "create")
     ELSE \E s \in found : Boxes(c, s)
  /\ UNCHANGED rows

ShipmentCreate(c) ==
  /\ At(c, "create")
  /\ shipment' = Append(shipment, [order |-> call[c].order,
                   waybill |-> call[c].waybill, status |-> "RECEIVED_AT_HUB"])
  /\ Boxes(c, Len(shipment'))
  /\ UNCHANGED <<status, multiple, shipped, box, waybill, aged, fined>>

CartMark(c) ==
  LET r == call[c] IN
  /\ At(c, "boxed")
  /\ shipped' = shipped \cup r.batch
  /\ box' = [f \in Offer |-> IF f \in r.batch THEN r.box ELSE box[f]]
  /\ call' = [call EXCEPT ![c].stage = "marked", ![c].batch = {}, ![c].box = 0]
  /\ UNCHANGED <<status, multiple, shipment, waybill, aged, fined>>

(* Bug: off by one. *)
LeavesAtMostOne(c) == Cardinality(InCart(call[c].order)) <= 1

(* The accepted offers that are still in the cart, counted after the mark. *)
LeavesNothing(c) == InCart(call[c].order) = {}

(* The status to go to depends on what the batch has left in the cart.     *)
CartCount(c) ==
  /\ At(c, "marked")
  /\ IF LeavesNothing(c)
     THEN call' = [call EXCEPT ![c].stage = "checked", ![c].to = "SHIPPED"]
     ELSE IF call[c].to # "PARTIALLY_SHIPPED"
     THEN call' = [call EXCEPT ![c].stage = "checked", ![c].to = "PARTIALLY_SHIPPED"]
     ELSE Done(c)
  /\ UNCHANGED rows

-----------------------------------------------------------------------------
(* transitionStatus and its other callers: the merchant hands the order   *)
(* over, the customer confirms the delivery, any party asks for a legal    *)
(* transition.                                                             *)

MerchantRead(c, o) ==
  /\ Free(c)
  /\ status[o] = "VERIFICATION_SUCCESS"
  /\ Begin(c, "checked", "merchant", o, {}, "READY_FOR_SHIPPING")
  /\ UNCHANGED rows

ConfirmRead(c, o) ==
  /\ Free(c)
  /\ status[o] = "SHIPPED"
  /\ Begin(c, "checked", "confirm", o, {}, "DELIVERED")
  /\ UNCHANGED rows

RequestTransition(c, o, to) ==
  /\ Free(c)
  /\ CanTransition(status[o], to)
  /\ Begin(c, "read", "transition", o, {}, to)
  /\ UNCHANGED rows

TransitionRead(c) ==
  /\ At(c, "checked")
  /\ IF CanTransition(status[call[c].order], call[c].to)
     THEN Goto(c, "read") ELSE Done(c)
  /\ UNCHANGED rows

(* The merchant's shipment is created once the order has moved; the job    *)
(* that cancels an order then fines its store.                             *)
TransitionWrite(c) ==
  LET r == call[c] IN
  /\ At(c, "read")
  /\ status' = [status EXCEPT ![r.order] = r.to]
  /\ CASE r.op = "merchant" -> Goto(c, "found")
       [] r.op = "cancel"   -> Goto(c, "after")
       [] OTHER             -> Done(c)
  /\ UNCHANGED <<multiple, shipped, box, shipment, waybill, aged, fined>>

CancelAfter(j) ==
  /\ At(j, "after")
  /\ fined' = fined \cup {call[j].order}
  /\ Done(j)
  /\ UNCHANGED <<status, multiple, shipped, box, shipment, waybill, aged>>

-----------------------------------------------------------------------------
(* Waybills and shipments as administrators handle them.                   *)

(* The bound on the waybills: an issue starts while one is left for it. *)
WaybillLeft ==
  Cardinality({c \in Caller : At(c, "issue")})
    < Cardinality({w \in Waybill : waybill[w] = "unissued"})

(* Once per order; the labels of a return belong to the returns.           *)
IssueRead(c, o) ==
  /\ Free(c)
  /\ status[o] \in {"VERIFICATION_SUCCESS", "READY_FOR_SHIPPING"}
  /\ \A w \in Waybill : waybill[w] # o
  /\ WaybillLeft
  /\ Begin(c, "issue", "issue", o, {}, AnyStatus)
  /\ UNCHANGED rows

(* w is the first of the waybills of the parts. *)
IssueWrite(c, w) ==
  /\ At(c, "issue")
  /\ waybill[w] = "unissued"
  /\ waybill' = [waybill EXCEPT ![w] = call[c].order]
  /\ call' = [call EXCEPT ![c].stage = "issued", ![c].waybill = w]
  /\ UNCHANGED <<status, multiple, shipped, box, shipment, aged, fined>>

(* Only an order without any shipment gets one. *)
IssueFind(c) ==
  /\ At(c, "issued")
  /\ IF \E s \in DOMAIN shipment : shipment[s].order = call[c].order
     THEN Done(c) ELSE Goto(c, "found")
  /\ UNCHANGED rows

(* A request may name any waybill that exists, of this order or not. *)
PostShipment(c, o, w) ==
  /\ Free(c)
  /\ w # NoWaybill => waybill[w] # "unissued"
  /\ BeginWith(c, "found", "post", o, {}, AnyStatus, w)
  /\ UNCHANGED rows

(* Bug: a status the orders do not have. *)
FollowOnTheWay ==
  [PICKED_UP_BY_CARRIER         |-> "SHIPPED",
   DELIVERED_TO_CUSTOMER        |-> "DELIVERED_TO_CUSTOMER",
   RETURN_COMPLETED_TO_CUSTOMER |-> "COMPLETED"]

(* What updateStatus does to the order, without the transition table. *)
Follow ==
  [PICKED_UP_BY_CARRIER         |-> "SHIPPED",
   DELIVERED_TO_CUSTOMER        |-> "DELIVERED",
   RETURN_COMPLETED_TO_CUSTOMER |-> "COMPLETED"]

ReportWrite(c, s, st) ==
  /\ Free(c)
  /\ shipment' = [shipment EXCEPT ![s].status = st]
  /\ IF st \in DOMAIN Follow
     THEN Begin(c, "follow", "report", shipment[s].order, {}, Follow[st])
     ELSE UNCHANGED call
  /\ UNCHANGED <<status, multiple, shipped, box, waybill, aged, fined>>

(* The update of the order, by id. *)
OrderFollow(c) ==
  /\ At(c, "follow")
  /\ status' = [status EXCEPT ![call[c].order] = call[c].to]
  /\ Done(c)
  /\ UNCHANGED <<multiple, shipped, box, shipment, waybill, aged, fined>>

-----------------------------------------------------------------------------
Progress(c) ==
  \/ ListedRead(c) \/ ShipmentFind(c) \/ ShipmentCreate(c)
  \/ CartMark(c) \/ CartCount(c)
  \/ TransitionRead(c) \/ TransitionWrite(c) \/ CancelAfter(c)
  \/ (\E w \in Waybill : IssueWrite(c, w)) \/ IssueFind(c) \/ OrderFollow(c)

ClientStart(c) ==
  \/ \E o \in Order :
       \/ \E B \in SUBSET Offer : CartRead(c, o, B)
       \/ MerchantRead(c, o) \/ ConfirmRead(c, o) \/ IssueRead(c, o)
       \/ \E w \in Waybill \cup {NoWaybill} : PostShipment(c, o, w)
       \/ \E to \in Targets : RequestTransition(c, o, to)
  \/ \E s \in DOMAIN shipment, st \in Reports : ReportWrite(c, s, st)

JobStart(j) == \E o \in Order : AutoList(j, o) \/ CartCron(j, o)

ShipNext ==
  \/ \E f \in Offer : Ages(f)
  \/ \E c \in Client : ClientStart(c)
  \/ \E j \in Job : JobStart(j)
  \/ \E c \in Caller : Progress(c)

ShipSpec == ShipInit /\ [][ShipNext]_shipVars

(* handleAutoShipping runs every six hours and meets every order it lists,  *)
(* and what has started ends.                                               *)
ShipFairness ==
  /\ \A j \in Job, o \in Order : SF_shipVars(AutoList(j, o))
  /\ \A c \in Caller : WF_shipVars(Progress(c))

FairShipSpec == ShipSpec /\ ShipFairness

-----------------------------------------------------------------------------
(* Properties.                                                             *)

(* However customers and jobs empty the cart of an order together, it is   *)
(* marked SHIPPED for its cart only when nothing is left in it: whoever    *)
(* ships the last batch has seen all the others.                           *)
CartShipsWhole ==
  [][\A c \in Caller :
       At(c, "read") /\ call[c].op = "cart" /\ call[c].to = "SHIPPED"
       /\ ~At(c, "read")' => InCart(call[c].order) = {}]_shipVars

(* Nothing is forgotten in a cart: an offer paid seven days ago is shipped *)
(* unless its order leaves the phases that have a cart.                    *)
AgedLeavesCart ==
  \A f \in Offer : f \in aged ~> f \in shipped \/ status[OrderOf[f]] \notin CartPhases
=============================================================================
