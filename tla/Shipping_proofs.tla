--------------------------- MODULE Shipping_proofs --------------------------
(***************************************************************************)
(* For any orders, offers, requests and jobs: Shipping is type correct, and *)
(* an order is marked SHIPPED for its cart only when the cart is empty.     *)
(*                                                                         *)
(* The invariant behind the second: a handler that is about to ask for      *)
(* SHIPPED has counted an empty cart, and nothing puts an offer back.       *)
(***************************************************************************)
EXTENDS Shipping, SequenceTheorems, TLAPS

CountedEmpty(r) ==
  r # Idle /\ r.stage \in {"checked", "read"} /\ r.op = "cart" /\ r.to = "SHIPPED"
    => InCart(r.order) = {}

CountsHold == \A c \in Caller : CountedEmpty(call[c])

ShipInv == ShipTypeOK /\ CountsHold

CallsOK == call \in [Caller -> {Idle} \cup Calls] /\ CountsHold

(* A step that writes one record, and unships nothing, keeps CallsOK if the *)
(* record it writes is right.                                               *)
LEMMA OneCallMoves ==
  ASSUME ShipInv, NEW c \in Caller, NEW r,
         call' = [call EXCEPT ![c] = r], shipped \subseteq shipped',
         r \in {Idle} \cup Calls, CountedEmpty(r)'
  PROVE  CallsOK'
<1>1. call' \in [Caller -> {Idle} \cup Calls]
  BY DEF ShipInv, ShipTypeOK
<1>2. ASSUME NEW k \in Caller PROVE CountedEmpty(call[k])'
  <2>1. CASE k = c
    <3>1. call'[k] = r
      BY <2>1 DEF ShipInv, ShipTypeOK
    <3> QED
      BY <3>1 DEF CountedEmpty
  <2>2. CASE k # c
    <3>1. call'[k] = call[k] /\ CountedEmpty(call[k])
      BY <2>2 DEF ShipInv, ShipTypeOK, CountsHold
    <3> QED
      BY <3>1 DEF CountedEmpty, InCart, OffersOf
  <2> QED
    BY <2>1, <2>2
<1> QED
  BY <1>1, <1>2 DEF CallsOK, CountsHold

LEMMA CallsStay ==
  ASSUME ShipInv, UNCHANGED <<call, shipped>>
  PROVE  CallsOK'
BY DEF ShipInv, ShipTypeOK, CountsHold, CallsOK, CountedEmpty, InCart, OffersOf

LEMMA DoneKeepsCalls ==
  ASSUME ShipInv, NEW c \in Caller, Done(c), shipped \subseteq shipped'
  PROVE  CallsOK'
<1>1. CountedEmpty(Idle)'
  BY DEF CountedEmpty
<1> QED
  BY <1>1, OneCallMoves DEF Done

(* What a handler in flight holds. *)
LEMMA CallType ==
  ASSUME ShipInv, NEW c \in Caller, NEW s \in Stages, At(c, s)
  PROVE  /\ call[c] \in Calls
         /\ call[c].stage = s
         /\ call[c].order \in Order
         /\ call[c].batch \subseteq Offer
         /\ call[c].to \in Status
         /\ call[c].waybill \in Waybill \cup {NoWaybill}
         /\ call[c].box \in Nat
BY DEF ShipInv, ShipTypeOK, Calls, At, Idle, Stages

LEMMA BeginWithKeepsCalls ==
  ASSUME ShipInv, NEW c \in Caller, shipped \subseteq shipped',
         NEW s \in Stages, NEW op \in CallOps, NEW o \in Order,
         NEW B \in SUBSET Offer, NEW to \in Status,
         op = "cart" => s \in {"listed", "found"},
         NEW w \in Waybill \cup {NoWaybill},
         BeginWith(c, s, op, o, B, to, w)
  PROVE  CallsOK'
<1>1. PICK r : r = [stage |-> s, op |-> op, order |-> o, batch |-> B, to |-> to,
                    waybill |-> w, box |-> 0]
  OBVIOUS
<1>2. r \in Calls
  BY <1>1 DEF Calls
<1>3. CountedEmpty(r)'
  BY <1>1 DEF CountedEmpty
<1>4. call' = [call EXCEPT ![c] = r]
  BY <1>1 DEF BeginWith
<1> QED
  BY <1>2, <1>3, <1>4, OneCallMoves

LEMMA BeginKeepsCalls ==
  ASSUME ShipInv, NEW c \in Caller, shipped \subseteq shipped',
         NEW s \in Stages, NEW op \in CallOps, NEW o \in Order,
         NEW B \in SUBSET Offer, NEW to \in Status,
         op = "cart" => s \in {"listed", "found"},
         Begin(c, s, op, o, B, to)
  PROVE  CallsOK'
BY BeginWithKeepsCalls DEF Begin

LEMMA GotoKeepsCalls ==
  ASSUME ShipInv, NEW c \in Caller, shipped \subseteq shipped',
         NEW old \in Stages, At(c, old), NEW s \in Stages, Goto(c, s),
         s = "checked" => FALSE,
         s = "read" => old = "checked"
  PROVE  CallsOK'
<1>1. PICK k : k = call[c]
  OBVIOUS
<1>2. k \in Calls /\ k.stage = old
  BY <1>1, CallType
<1>3. CountedEmpty(k)
  BY <1>1 DEF ShipInv, CountsHold
<1>4. PICK r : r = [k EXCEPT !.stage = s]
  OBVIOUS
<1>5. r \in Calls /\ r.op = k.op /\ r.to = k.to /\ r.order = k.order /\ r.stage = s
  BY <1>2, <1>4 DEF Calls
<1>6. k # Idle
  BY <1>2 DEF Calls, Idle, Stages
<1>7. CountedEmpty(r)'
  BY <1>2, <1>3, <1>5, <1>6 DEF CountedEmpty, InCart, OffersOf
<1>8. call' = [call EXCEPT ![c] = r]
  BY <1>1, <1>4 DEF Goto
<1> QED
  BY <1>5, <1>7, <1>8, OneCallMoves

-----------------------------------------------------------------------------
(* The part of the type invariant that is not about calls. *)
RowsOK ==
  /\ status \in [Order -> Status]
  /\ multiple \subseteq Order
  /\ shipped \subseteq Offer
  /\ box \in [Offer -> Nat]
  /\ shipment \in Seq(Shipment)
  /\ waybill \in [Waybill -> Order \cup {"unissued"}]
  /\ aged \subseteq Offer
  /\ fined \subseteq Order

LEMMA PartsMake == RowsOK' /\ CallsOK' => ShipInv'
BY DEF RowsOK, CallsOK, ShipInv, ShipTypeOK

LEMMA RowsStay ==
  ASSUME ShipInv, UNCHANGED rows
  PROVE  RowsOK' /\ shipped \subseteq shipped'
BY DEF ShipInv, ShipTypeOK, RowsOK, rows

-----------------------------------------------------------------------------
LEMMA CartSteps ==
  ASSUME ShipInv, NEW c \in Caller,
         \/ \E o \in Order, B \in SUBSET Offer : CartRead(c, o, B)
         \/ \E o \in Order : AutoList(c, o) \/ CartCron(c, o)
         \/ ListedRead(c) \/ CartMark(c) \/ CartCount(c)
  PROVE  ShipInv'
<1> USE ShippingAssumption
<1>1. ASSUME NEW o \in Order, NEW B \in SUBSET Offer, CartRead(c, o, B)
      PROVE  ShipInv'
  <2>1. RowsOK' /\ shipped \subseteq shipped'
    BY <1>1, RowsStay DEF CartRead
  <2>2. status[o] \in Status
    BY DEF ShipInv, ShipTypeOK
  <2>3. CallsOK'
    BY <1>1, <2>1, <2>2, BeginKeepsCalls DEF CartRead, Stages, CallOps
  <2> QED
    BY <2>1, <2>3, PartsMake
<1>2. ASSUME NEW o \in Order, AutoList(c, o)
      PROVE  ShipInv'
  <2>1. RowsOK' /\ shipped \subseteq shipped'
    BY <1>2, RowsStay DEF AutoList
  <2>2. status[o] \in Status /\ InCart(o) \cap aged \in SUBSET Offer
    BY DEF ShipInv, ShipTypeOK
  <2>3. CallsOK'
    BY <1>2, <2>1, <2>2, BeginKeepsCalls DEF AutoList, Stages, CallOps
  <2> QED
    BY <2>1, <2>3, PartsMake
<1>3. ASSUME NEW o \in Order, CartCron(c, o)
      PROVE  ShipInv'
  <2>1. RowsOK' /\ shipped \subseteq shipped'
    BY <1>3, RowsStay DEF CartCron
  <2>2. status[o] \in Status /\ InCart(o) \in SUBSET Offer
        /\ "CANCELLED" \in Status
    BY DEF ShipInv, ShipTypeOK, InCart, OffersOf, Status
  <2>3. CASE o \in multiple
    <3>1. CallsOK'
      BY <1>3, <2>1, <2>2, <2>3, BeginKeepsCalls DEF CartCron, Stages, CallOps
    <3> QED
      BY <2>1, <3>1, PartsMake
  <2>4. CASE o \notin multiple
    <3>1. CallsOK'
      BY <1>3, <2>1, <2>2, <2>4, BeginKeepsCalls DEF CartCron, Stages, CallOps
    <3> QED
      BY <2>1, <3>1, PartsMake
  <2> QED
    BY <2>3, <2>4
<1>4. ASSUME ListedRead(c)
      PROVE  ShipInv'
  <2>1. RowsOK' /\ shipped \subseteq shipped'
    BY <1>4, RowsStay DEF ListedRead
  <2>2. call[c].order \in Order /\ call[c].batch \subseteq Offer
    BY <1>4, CallType DEF ListedRead, Stages
  <2>3. status[call[c].order] \in Status
        /\ call[c].batch \ shipped \in SUBSET Offer
    BY <2>2 DEF ShipInv, ShipTypeOK
  <2>4. \/ Begin(c, "found", "cart", call[c].order, call[c].batch \ shipped,
                 status[call[c].order])
        \/ Done(c)
    BY <1>4 DEF ListedRead
  <2>5. CallsOK'
    BY <2>1, <2>2, <2>3, <2>4, BeginKeepsCalls, DoneKeepsCalls DEF Stages, CallOps
  <2> QED
    BY <2>1, <2>5, PartsMake
<1>5. ASSUME CartMark(c)
      PROVE  ShipInv'
  <2>1. call[c].batch \subseteq Offer /\ call[c].box \in Nat
    BY <1>5, CallType DEF CartMark, Stages
  <2>2. RowsOK' /\ shipped \subseteq shipped'
    BY <1>5, <2>1 DEF CartMark, ShipInv, ShipTypeOK, RowsOK
  <2>3. PICK k \in Calls : k = call[c]
    BY <1>5, CallType DEF CartMark, Stages
  <2>4. PICK r : r = [k EXCEPT !.stage = "marked", !.batch = {}, !.box = 0]
    OBVIOUS
  <2>5. "marked" \in Stages
    BY DEF Stages
  <2>6. r \in Calls /\ r.stage = "marked"
    BY <2>3, <2>4, <2>5 DEF Calls
  <2>7. CountedEmpty(r)'
    BY <2>6 DEF CountedEmpty
  <2>8. call' = [call EXCEPT ![c] = r]
    BY <1>5, <2>3, <2>4 DEF CartMark
  <2>9. CallsOK'
    BY <2>2, <2>6, <2>7, <2>8, OneCallMoves
  <2> QED
    BY <2>2, <2>9, PartsMake
<1>6. ASSUME CartCount(c)
      PROVE  ShipInv'
  <2>1. RowsOK' /\ shipped \subseteq shipped' /\ shipped' = shipped
    BY <1>6, RowsStay DEF CartCount, rows
  <2>2. PICK k \in Calls : k = call[c]
    BY <1>6, CallType DEF CartCount, Stages
  <2>3. CASE LeavesNothing(c)
    <3>0. "checked" \in Stages /\ "SHIPPED" \in Status
      BY DEF Stages, Status
    <3>1. PICK r : r = [k EXCEPT !.stage = "checked", !.to = "SHIPPED"]
      OBVIOUS
    <3>2. r \in Calls /\ r.order = k.order
      BY <2>2, <3>0, <3>1 DEF Calls
    <3>3. CountedEmpty(r)'
      BY <2>1, <2>2, <2>3, <3>2 DEF CountedEmpty, LeavesNothing, InCart, OffersOf
    <3>4. call' = [call EXCEPT ![c] = r]
      BY <1>6, <2>2, <2>3, <3>1 DEF CartCount
    <3>5. CallsOK'
      BY <2>1, <3>2, <3>3, <3>4, OneCallMoves
    <3> QED
      BY <2>1, <3>5, PartsMake
  <2>4. CASE ~LeavesNothing(c) /\ call[c].to # "PARTIALLY_SHIPPED"
    <3>0. "checked" \in Stages /\ "PARTIALLY_SHIPPED" \in Status
      BY DEF Stages, Status
    <3>1. PICK r : r = [k EXCEPT !.stage = "checked", !.to = "PARTIALLY_SHIPPED"]
      OBVIOUS
    <3>2. r \in Calls /\ r.to = "PARTIALLY_SHIPPED"
      BY <2>2, <3>0, <3>1 DEF Calls
    <3>3. CountedEmpty(r)'
      BY <3>2 DEF CountedEmpty
    <3>4. call' = [call EXCEPT ![c] = r]
      BY <1>6, <2>2, <2>4, <3>1 DEF CartCount
    <3>5. CallsOK'
      BY <2>1, <3>2, <3>3, <3>4, OneCallMoves
    <3> QED
      BY <2>1, <3>5, PartsMake
  <2>5. CASE ~LeavesNothing(c) /\ call[c].to = "PARTIALLY_SHIPPED"
    <3>1. CallsOK'
      BY <1>6, <2>1, <2>5, DoneKeepsCalls DEF CartCount
    <3> QED
      BY <2>1, <3>1, PartsMake
  <2> QED
    BY <2>3, <2>4, <2>5
<1> QED
  BY <1>1, <1>2, <1>3, <1>4, <1>5, <1>6

LEMMA BoxesKeepsCalls ==
  ASSUME ShipInv, NEW c \in Caller, shipped \subseteq shipped',
         NEW k \in Calls, k = call[c], NEW s \in Nat, Boxes(c, s)
  PROVE  CallsOK'
<1>1. CASE Done(c)
  BY <1>1, DoneKeepsCalls
<1>2. CASE call' = [call EXCEPT ![c].stage = "boxed", ![c].box = s]
  <2>1. PICK r : r = [k EXCEPT !.stage = "boxed", !.box = s]
    OBVIOUS
  <2>2. "boxed" \in Stages
    BY DEF Stages
  <2>3. r \in Calls /\ r.stage = "boxed"
    BY <2>1, <2>2 DEF Calls
  <2>4. CountedEmpty(r)'
    BY <2>3 DEF CountedEmpty
  <2>5. call' = [call EXCEPT ![c] = r]
    BY <1>2, <2>1
  <2> QED
    BY <2>3, <2>4, <2>5, OneCallMoves
<1> QED
  BY <1>1, <1>2 DEF Boxes

LEMMA ShipmentSteps ==
  ASSUME ShipInv, NEW c \in Caller,
         \/ ShipmentFind(c) \/ ShipmentCreate(c)
         \/ \E o \in Order, w \in Waybill \cup {NoWaybill} : PostShipment(c, o, w)
  PROVE  ShipInv'
<1> USE ShippingAssumption
<1>1. ASSUME ShipmentFind(c)
      PROVE  ShipInv'
  <2>1. RowsOK' /\ shipped \subseteq shipped'
    BY <1>1, RowsStay DEF ShipmentFind
  <2>2. PICK k \in Calls : k = call[c]
    BY <1>1, CallType DEF ShipmentFind, Stages
  <2>3. CASE Goto(c, "create")
    <3>1. CallsOK'
      BY <1>1, <2>1, <2>3, GotoKeepsCalls DEF ShipmentFind, Stages
    <3> QED
      BY <2>1, <3>1, PartsMake
  <2>4. ASSUME NEW s \in DOMAIN shipment, Boxes(c, s)
        PROVE  ShipInv'
    <3>1. s \in Nat
      BY DEF ShipInv, ShipTypeOK
    <3>2. CallsOK'
      BY <2>1, <2>2, <2>4, <3>1, BoxesKeepsCalls
    <3> QED
      BY <2>1, <3>2, PartsMake
  <2> QED
    BY <1>1, <2>3, <2>4 DEF ShipmentFind
<1>2. ASSUME ShipmentCreate(c)
      PROVE  ShipInv'
  <2>1. PICK k \in Calls : k = call[c]
    BY <1>2, CallType DEF ShipmentCreate, Stages
  <2>2. PICK n : n = [order |-> k.order, waybill |-> k.waybill,
                      status |-> "RECEIVED_AT_HUB"]
    OBVIOUS
  <2>3. n \in Shipment /\ shipment \in Seq(Shipment)
        /\ shipment' = Append(shipment, n)
    BY <1>2, <2>1, <2>2
       DEF ShipmentCreate, Shipment, ShipmentStatus, Calls, ShipInv, ShipTypeOK
  <2>4. shipment' \in Seq(Shipment) /\ Len(shipment') \in Nat
    BY <2>3
  <2>5. RowsOK' /\ shipped \subseteq shipped'
    BY <1>2, <2>4 DEF ShipmentCreate, ShipInv, ShipTypeOK, RowsOK
  <2>6. PICK n2 \in Nat : Boxes(c, n2)
    BY <1>2, <2>4 DEF ShipmentCreate
  <2>7. CallsOK'
    BY <2>1, <2>5, <2>6, BoxesKeepsCalls
  <2> QED
    BY <2>5, <2>7, PartsMake
<1>3. ASSUME NEW o \in Order, NEW w \in Waybill \cup {NoWaybill},
             PostShipment(c, o, w)
      PROVE  ShipInv'
  <2>1. RowsOK' /\ shipped \subseteq shipped'
    BY <1>3, RowsStay DEF PostShipment
  <2>2. AnyStatus \in Status
    BY DEF AnyStatus, Status
  <2>3. CallsOK'
    BY <1>3, <2>1, <2>2, BeginWithKeepsCalls DEF PostShipment, Stages, CallOps
  <2> QED
    BY <2>1, <2>3, PartsMake
<1> QED
  BY <1>1, <1>2, <1>3

LEMMA TransitionSteps ==
  ASSUME ShipInv, NEW c \in Caller,
         \/ \E o \in Order :
              \/ MerchantRead(c, o) \/ ConfirmRead(c, o)
              \/ \E to \in Targets : RequestTransition(c, o, to)
         \/ TransitionRead(c) \/ TransitionWrite(c) \/ CancelAfter(c)
  PROVE  ShipInv'
<1> USE ShippingAssumption
<1>1. ASSUME NEW o \in Order, MerchantRead(c, o) \/ ConfirmRead(c, o)
      PROVE  ShipInv'
  <2>1. RowsOK' /\ shipped \subseteq shipped'
    BY <1>1, RowsStay DEF MerchantRead, ConfirmRead
  <2>2. "READY_FOR_SHIPPING" \in Status /\ "DELIVERED" \in Status
    BY DEF Status
  <2>3. CASE MerchantRead(c, o)
    <3>1. CallsOK'
      BY <2>1, <2>2, <2>3, BeginKeepsCalls DEF MerchantRead, Stages, CallOps
    <3> QED
      BY <2>1, <3>1, PartsMake
  <2>4. CASE ConfirmRead(c, o)
    <3>1. CallsOK'
      BY <2>1, <2>2, <2>4, BeginKeepsCalls DEF ConfirmRead, Stages, CallOps
    <3> QED
      BY <2>1, <3>1, PartsMake
  <2> QED
    BY <1>1, <2>3, <2>4
<1>2. ASSUME NEW o \in Order, NEW to \in Targets, RequestTransition(c, o, to)
      PROVE  ShipInv'
  <2>1. RowsOK' /\ shipped \subseteq shipped'
    BY <1>2, RowsStay DEF RequestTransition
  <2>2. CallsOK'
    BY <1>2, <2>1, BeginKeepsCalls DEF RequestTransition, Stages, CallOps
  <2> QED
    BY <2>1, <2>2, PartsMake
<1>3. ASSUME TransitionRead(c)
      PROVE  ShipInv'
  <2>1. RowsOK' /\ shipped \subseteq shipped'
    BY <1>3, RowsStay DEF TransitionRead
  <2>2. CASE Goto(c, "read")
    <3>1. CallsOK'
      BY <1>3, <2>1, <2>2, GotoKeepsCalls DEF TransitionRead, Stages
    <3> QED
      BY <2>1, <3>1, PartsMake
  <2>3. CASE Done(c)
    <3>1. CallsOK'
      BY <2>1, <2>3, DoneKeepsCalls
    <3> QED
      BY <2>1, <3>1, PartsMake
  <2> QED
    BY <1>3, <2>2, <2>3 DEF TransitionRead
<1>4. ASSUME TransitionWrite(c)
      PROVE  ShipInv'
  <2>1. call[c].to \in Status
    BY <1>4, CallType DEF TransitionWrite, Stages
  <2>2. RowsOK' /\ shipped \subseteq shipped'
    BY <1>4, <2>1 DEF TransitionWrite, ShipInv, ShipTypeOK, RowsOK
  <2>3. Goto(c, "found") \/ Goto(c, "after") \/ Done(c)
    BY <1>4 DEF TransitionWrite
  <2>4. CASE Goto(c, "found") \/ Goto(c, "after")
    <3>1. CallsOK'
      BY <1>4, <2>2, <2>4, GotoKeepsCalls DEF TransitionWrite, Stages
    <3> QED
      BY <2>2, <3>1, PartsMake
  <2>5. CASE Done(c)
    <3>1. CallsOK'
      BY <2>2, <2>5, DoneKeepsCalls
    <3> QED
      BY <2>2, <3>1, PartsMake
  <2> QED
    BY <2>3, <2>4, <2>5
<1>5. ASSUME CancelAfter(c)
      PROVE  ShipInv'
  <2>1. call[c].order \in Order
    BY <1>5, CallType DEF CancelAfter, Stages
  <2>2. RowsOK' /\ shipped \subseteq shipped'
    BY <1>5, <2>1 DEF CancelAfter, ShipInv, ShipTypeOK, RowsOK
  <2>3. CallsOK'
    BY <1>5, <2>2, DoneKeepsCalls DEF CancelAfter
  <2> QED
    BY <2>2, <2>3, PartsMake
<1> QED
  BY <1>1, <1>2, <1>3, <1>4, <1>5

LEMMA WaybillSteps ==
  ASSUME ShipInv, NEW c \in Caller,
         \/ \E o \in Order : IssueRead(c, o)
         \/ (\E w \in Waybill : IssueWrite(c, w)) \/ IssueFind(c)
  PROVE  ShipInv'
<1>1. ASSUME NEW o \in Order, IssueRead(c, o)
      PROVE  ShipInv'
  <2>1. RowsOK' /\ shipped \subseteq shipped'
    BY <1>1, RowsStay DEF IssueRead
  <2>2. AnyStatus \in Status
    BY DEF AnyStatus, Status
  <2>3. CallsOK'
    BY <1>1, <2>1, <2>2, BeginKeepsCalls DEF IssueRead, Stages, CallOps
  <2> QED
    BY <2>1, <2>3, PartsMake
<1>2. ASSUME NEW w \in Waybill, IssueWrite(c, w)
      PROVE  ShipInv'
  <2>1. PICK k \in Calls : k = call[c] /\ k.order \in Order
    BY <1>2, CallType DEF IssueWrite, Stages
  <2>2. RowsOK' /\ shipped \subseteq shipped'
    BY <1>2, <2>1 DEF IssueWrite, ShipInv, ShipTypeOK, RowsOK
  <2>3. PICK r : r = [k EXCEPT !.stage = "issued", !.waybill = w]
    OBVIOUS
  <2>4. r \in Calls /\ r.stage = "issued"
    BY <2>1, <2>3 DEF Calls, Stages
  <2>5. CountedEmpty(r)'
    BY <2>4 DEF CountedEmpty
  <2>6. call' = [call EXCEPT ![c] = r]
    BY <1>2, <2>1, <2>3 DEF IssueWrite
  <2>7. CallsOK'
    BY <2>2, <2>4, <2>5, <2>6, OneCallMoves
  <2> QED
    BY <2>2, <2>7, PartsMake
<1>3. ASSUME IssueFind(c)
      PROVE  ShipInv'
  <2>1. RowsOK' /\ shipped \subseteq shipped'
    BY <1>3, RowsStay DEF IssueFind
  <2>2. CASE Goto(c, "found")
    <3>1. CallsOK'
      BY <1>3, <2>1, <2>2, GotoKeepsCalls DEF IssueFind, Stages
    <3> QED
      BY <2>1, <3>1, PartsMake
  <2>3. CASE Done(c)
    <3>1. CallsOK'
      BY <2>1, <2>3, DoneKeepsCalls
    <3> QED
      BY <2>1, <3>1, PartsMake
  <2> QED
    BY <1>3, <2>2, <2>3 DEF IssueFind
<1> QED
  BY <1>1, <1>2, <1>3

(* Every status an order follows its shipment to is one of the orders'. *)
LEMMA FollowsToStatus ==
  \A st \in DOMAIN Follow : Follow[st] \in Status
BY DEF Follow, Status

LEMMA ReportSteps ==
  ASSUME ShipInv, NEW c \in Caller,
         \/ \E s \in DOMAIN shipment, st \in Reports : ReportWrite(c, s, st)
         \/ OrderFollow(c)
  PROVE  ShipInv'
<1> USE ShippingAssumption
<1>1. ASSUME NEW s \in DOMAIN shipment, NEW st \in Reports, ReportWrite(c, s, st)
      PROVE  ShipInv'
  <2>1. shipment \in Seq(Shipment) /\ shipment[s] \in Shipment
    BY DEF ShipInv, ShipTypeOK
  <2>2. shipment[s].order \in Order
        /\ [shipment[s] EXCEPT !.status = st] \in Shipment
    BY <2>1 DEF Shipment
  <2>3. shipment' = [shipment EXCEPT ![s] = [shipment[s] EXCEPT !.status = st]]
    BY <1>1 DEF ReportWrite
  <2>4. shipment' \in Seq(Shipment)
    BY <2>1, <2>2, <2>3
  <2>5. RowsOK' /\ shipped \subseteq shipped'
    BY <1>1, <2>4 DEF ReportWrite, ShipInv, ShipTypeOK, RowsOK
  <2>6. CASE st \in DOMAIN Follow
    <3>1. Begin(c, "follow", "report", shipment[s].order, {}, Follow[st])
          /\ Follow[st] \in Status
      BY <1>1, <2>6, FollowsToStatus DEF ReportWrite
    <3>2. CallsOK'
      BY <2>2, <2>5, <3>1, BeginKeepsCalls DEF Stages, CallOps
    <3> QED
      BY <2>5, <3>2, PartsMake
  <2>7. CASE st \notin DOMAIN Follow
    <3>1. CallsOK'
      BY <1>1, <2>7, CallsStay DEF ReportWrite
    <3> QED
      BY <2>5, <3>1, PartsMake
  <2> QED
    BY <2>6, <2>7
<1>2. ASSUME OrderFollow(c)
      PROVE  ShipInv'
  <2>1. call[c].to \in Status
    BY <1>2, CallType DEF OrderFollow, Stages
  <2>2. RowsOK' /\ shipped \subseteq shipped'
    BY <1>2, <2>1 DEF OrderFollow, ShipInv, ShipTypeOK, RowsOK
  <2>3. CallsOK'
    BY <1>2, <2>2, DoneKeepsCalls DEF OrderFollow
  <2> QED
    BY <2>2, <2>3, PartsMake
<1> QED
  BY <1>1, <1>2

-----------------------------------------------------------------------------
LEMMA InitHolds == ShipInit => ShipInv
<1> SUFFICES ASSUME ShipInit PROVE ShipInv
  OBVIOUS
<1>1. << >> \in Seq(Shipment) /\ "PREPARATION" \in Status
  BY DEF Status
<1>2. ShipTypeOK
  BY <1>1 DEF ShipInit, ShipTypeOK
<1>3. CountsHold
  BY DEF ShipInit, CountsHold, CountedEmpty
<1> QED
  BY <1>2, <1>3 DEF ShipInv

LEMMA StepKeeps == ShipInv /\ [ShipNext]_shipVars => ShipInv'
<1> SUFFICES ASSUME ShipInv, [ShipNext]_shipVars PROVE ShipInv'
  OBVIOUS
<1>1. ASSUME NEW f \in Offer, Ages(f) PROVE ShipInv'
  <2>1. RowsOK'
    BY <1>1 DEF Ages, ShipInv, ShipTypeOK, RowsOK
  <2>2. CallsOK'
    BY <1>1, CallsStay DEF Ages
  <2> QED
    BY <2>1, <2>2, PartsMake
<1>2. ASSUME NEW c \in Client, ClientStart(c) PROVE ShipInv'
  BY <1>2, CartSteps, ShipmentSteps, TransitionSteps, WaybillSteps, ReportSteps
     DEF ClientStart, Caller
<1>3. ASSUME NEW j \in Job, JobStart(j) PROVE ShipInv'
  BY <1>3, CartSteps DEF JobStart, Caller
<1>4. ASSUME NEW c \in Caller, Progress(c) PROVE ShipInv'
  BY <1>4, CartSteps, ShipmentSteps, TransitionSteps, WaybillSteps, ReportSteps
     DEF Progress
<1>5. CASE UNCHANGED shipVars
  <2>1. RowsOK'
    BY <1>5, RowsStay DEF shipVars, rows
  <2>2. CallsOK'
    BY <1>5, CallsStay DEF shipVars
  <2> QED
    BY <2>1, <2>2, PartsMake
<1> QED
  BY <1>1, <1>2, <1>3, <1>4, <1>5 DEF ShipNext

LEMMA ShipInvariant == ShipSpec => []ShipInv
BY InitHolds, StepKeeps, PTL DEF ShipSpec

(* Whatever customers, merchants, administrators and jobs do at once, the  *)
(* orders, shipments and waybills keep their types: in particular no order *)
(* follows its shipment to a status that orders do not have.               *)
THEOREM ShipTypeCorrect == ShipSpec => []ShipTypeOK
<1>1. ShipInv => ShipTypeOK
  BY DEF ShipInv
<1> QED
  BY <1>1, ShipInvariant, PTL

(* Whoever marks an order SHIPPED for its cart does so over an empty cart, *)
(* for any number of orders, offers, customers and jobs.                   *)
THEOREM CartAlwaysShipsWhole == ShipSpec => CartShipsWhole
<1> DEFINE ShipsWhole ==
      \A c \in Caller :
        At(c, "read") /\ call[c].op = "cart" /\ call[c].to = "SHIPPED"
        /\ ~At(c, "read")' => InCart(call[c].order) = {}
<1>1. ShipInv => ShipsWhole
  BY DEF ShipInv, CountsHold, CountedEmpty, At, Idle
<1>2. ShipInv /\ [ShipNext]_shipVars => [ShipsWhole]_shipVars
  BY <1>1
<1> QED
  BY <1>2, ShipInvariant, PTL DEF CartShipsWhole, ShipSpec
=============================================================================
