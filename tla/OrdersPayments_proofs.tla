----------------------- MODULE OrdersPayments_proofs ------------------------
(***************************************************************************)
(* Orders and Payments, for any set of orders, offers, intents, handlers   *)
(* and concurrent requests and jobs: types, the deadline of a choice, what *)
(* holds of one caller at a time, and then the money, up to the refinement *)
(* of Settlement.                                                          *)
(***************************************************************************)
EXTENDS Payments, TLAPS

(***************************************************************************)
(* The life of an order is well typed, and an order that waits for the     *)
(* customer's choice always has a deadline, for any set of orders, offers  *)
(* and concurrent requests and jobs.                                       *)
(*                                                                         *)
(* A write relies on what its read left in the call: an offer for the      *)
(* requests about an offer, a target that is not AWAITING_SELECTION for    *)
(* those that set no selection deadline.  CallsAgree states that.          *)
(*                                                                         *)
(* The second half is about one caller at a time (OneCaller): then what a  *)
(* call has read is still true when it writes (Fresh), and the changes of  *)
(* status and the rejections are right.                                    *)
(***************************************************************************)

OfferOps == {"bid", "withdraw", "retract", "adminDelete", "accept", "acceptPart",
             "reject"}

CallAgrees(r) ==
  r # Idle =>
    /\ r \in Calls
    /\ r.op \in OfferOps => r.offer \in Offer
    /\ r.op \in VerifyOps => r.to # "AWAITING_SELECTION"
    /\ r.stage = "after" => r.op \in CronOps

CallsAgree == \A c \in Caller : CallAgrees(call[c])

OrderInv == TypeOK /\ CallsAgree /\ SelectionIsTimed

LEMMA OrderInitInv == Init => OrderInv
<1> SUFFICES ASSUME Init PROVE OrderInv
  OBVIOUS
<1>1. TypeOK
  BY OrdersAssumption DEF Init, TypeOK, Status, Timer, Unset, MaxDays, OfferStatus, CronOps
<1>2. CallsAgree /\ SelectionIsTimed
  BY DEF Init, CallsAgree, CallAgrees, SelectionIsTimed
<1> QED
  BY <1>1, <1>2 DEF OrderInv

-----------------------------------------------------------------------------
(* Reads: a request or job keeps what it read and changes no row.          *)

LEMMA NewCallTyped ==
  ASSUME OrderInv, NEW stage \in {"listed", "checked", "read", "after"},
         NEW op \in OpNames, NEW o \in Order, NEW f \in Offer \cup {NoOffer},
         NEW to \in Status
  PROVE  /\ NewCall(stage, op, o, f, to) \in Calls
         /\ NewCall(stage, op, o, f, to).stage = stage
         /\ NewCall(stage, op, o, f, to).op = op
         /\ NewCall(stage, op, o, f, to).offer = f
         /\ NewCall(stage, op, o, f, to).to = to
BY DEF OrderInv, TypeOK, NewCall, Calls

LEMMA HoldInv ==
  ASSUME OrderInv, NEW c \in Caller, NEW r, CallAgrees(r), r \in Calls \cup {Idle},
         Hold(c, r), UNCHANGED rowVars
  PROVE  OrderInv'
<1>1. TypeOK'
  BY DEF OrderInv, TypeOK, Hold, rowVars
<1>2. CallsAgree'
  <2> SUFFICES ASSUME NEW d \in Caller PROVE CallAgrees(call'[d])
    BY DEF CallsAgree, CallAgrees
  <2>1. CASE d = c
    BY <2>1 DEF OrderInv, TypeOK, Hold
  <2>2. CASE d # c
    BY <2>2 DEF OrderInv, TypeOK, CallsAgree, Hold
  <2> QED
    BY <2>1, <2>2
<1>3. SelectionIsTimed'
  BY DEF OrderInv, SelectionIsTimed, rowVars
<1> QED
  BY <1>1, <1>2, <1>3 DEF OrderInv

LEMMA DoneInv ==
  ASSUME OrderInv, NEW c \in Caller, Done(c), UNCHANGED rowVars
  PROVE  OrderInv'
BY HoldInv DEF Done, Hold, CallAgrees

LEMMA OfferReadInv ==
  ASSUME OrderInv, NEW c \in Caller, NEW f \in Offer,
         BidRead(c, f) \/ WithdrawRead(c, f) \/ RetractRead(c, f)
           \/ AdminDeleteRead(c, f)
           \/ AcceptRead(c, f) \/ AcceptPartRead(c, f) \/ RejectRead(c, f)
  PROVE  OrderInv'
<1> DEFINE o == OrderOf[f]
<1>1. o \in Order /\ status[o] \in Status /\ "AWAITING_PAYMENT" \in Status
  BY OrdersAssumption DEF OrderInv, TypeOK, Status
<1>2. PICK op \in OfferOps, to \in Status :
        Hold(c, NewCall("read", op, o, f, to)) /\ UNCHANGED rowVars
  BY <1>1 DEF BidRead, WithdrawRead, RetractRead, AdminDeleteRead, AcceptRead,
              AcceptPartRead, RejectRead, OfferOps
<1>3. op \in OpNames /\ op \notin VerifyOps
  BY DEF OfferOps, OpNames, BidOps, VerifyOps
<1>4. CallAgrees(NewCall("read", op, o, f, to))
  BY <1>1, <1>3, NewCallTyped DEF CallAgrees
<1> QED
  BY <1>1, <1>2, <1>3, <1>4, NewCallTyped, HoldInv

(* What a call in flight carries. *)
LEMMA InFlight ==
  ASSUME OrderInv, NEW c \in Caller, call[c].stage # "idle"
  PROVE  /\ call[c] \in Calls /\ CallAgrees(call[c])
         /\ call[c].op \in OpNames /\ call[c].order \in Order
         /\ call[c].to \in Status /\ call[c].count \in Nat
         /\ call[c].op \in OfferOps => call[c].offer \in Offer
BY DEF OrderInv, TypeOK, CallsAgree, CallAgrees, Calls, Idle

LEMMA OrderReadInv ==
  ASSUME OrderInv, NEW c \in Caller, NEW o \in Order
  PROVE  /\ RenewRead(c, o) => OrderInv'
         /\ WarrantyList(c, o) => OrderInv'
         /\ \A op \in CronOps : JobList(c, op, o) => OrderInv'
         /\ \A op \in VerifyOps : VerifyRead(c, op, o) => OrderInv'
<1>1. ASSUME NEW stage \in {"listed", "checked", "read"}, NEW op \in OpNames,
             NEW to \in Status, op \notin OfferOps,
             op \in VerifyOps => to # "AWAITING_SELECTION",
             Hold(c, NewCall(stage, op, o, NoOffer, to)), UNCHANGED rowVars
      PROVE  OrderInv'
  <2>1. CallAgrees(NewCall(stage, op, o, NoOffer, to))
    BY <1>1, NewCallTyped DEF CallAgrees
  <2> QED
    BY <1>1, <2>1, NewCallTyped, HoldInv
<1>2. RenewRead(c, o) => OrderInv'
  BY <1>1 DEF RenewRead, OfferOps, VerifyOps, OpNames, BidOps, Status
<1>3. WarrantyList(c, o) => OrderInv'
  BY <1>1 DEF WarrantyList, OfferOps, VerifyOps, OpNames, Status
<1>4. ASSUME NEW op \in CronOps, JobList(c, op, o) PROVE OrderInv'
  <2>1. op \in OpNames /\ op \notin OfferOps /\ op \notin VerifyOps
    BY DEF CronOps, OpNames, OfferOps, VerifyOps
  <2>2. CronTarget[op] \in Status
    BY DEF CronOps, CronTarget, Status
  <2> QED
    BY <1>1, <1>4, <2>1, <2>2 DEF JobList
<1>5. ASSUME NEW op \in VerifyOps, VerifyRead(c, op, o) PROVE OrderInv'
  <2>1. op \in OpNames /\ op \notin OfferOps
    BY DEF OpNames, OfferOps, VerifyOps
  <2>2. /\ VerifyTarget(op, rejections[o]) \in Status
        /\ VerifyTarget(op, rejections[o]) # "AWAITING_SELECTION"
    BY DEF VerifyOps, VerifyTarget, Status
  <2> QED
    BY <1>1, <1>5, <2>1, <2>2 DEF VerifyRead
<1> QED
  BY <1>2, <1>3, <1>4, <1>5

LEMMA RequestTransitionInv ==
  ASSUME OrderInv, NEW c \in Caller, NEW o \in Order, NEW to \in Status,
         RequestTransition(c, o, to)
  PROVE  OrderInv'
<1> DEFINE n == NewCall("read", "transition", o, NoOffer, to)
           r == [n EXCEPT !.warranty = HasWarranty(o)]
<1>1. "transition" \in OpNames /\ "transition" \notin OfferOps \cup VerifyOps
  BY DEF OpNames, OfferOps, VerifyOps
<1>2. /\ n \in Calls /\ n.stage = "read" /\ n.op = "transition"
  BY <1>1, NewCallTyped
<1>3. HasWarranty(o) \in BOOLEAN
  BY DEF HasWarranty
<1>4. r \in Calls /\ r.stage = "read" /\ r.op = "transition"
  BY <1>2, <1>3 DEF Calls
<1>5. CallAgrees(r)
  BY <1>1, <1>4 DEF CallAgrees
<1> QED
  BY <1>4, <1>5, HoldInv DEF RequestTransition

LEMMA JobReadInv ==
  ASSUME OrderInv, NEW j \in Caller, JobRecheck(j) \/ TransitionRead(j)
  PROVE  OrderInv'
<1> DEFINE r == call[j]
           checked == [r EXCEPT !.stage = "checked"]
           seen == [r EXCEPT !.stage = "read", !.seen = status[r.order],
                             !.warranty = HasWarranty(r.order)]
<1>1. r \in Calls /\ CallAgrees(r) /\ r.order \in Order /\ r # Idle
  BY InFlight DEF JobRecheck, TransitionRead, At, Idle
<1>2. status[r.order] \in Status /\ HasWarranty(r.order) \in BOOLEAN
  BY <1>1 DEF OrderInv, TypeOK, HasWarranty
<1>3. checked \in Calls /\ checked.stage = "checked" /\ checked.op = r.op
      /\ checked.offer = r.offer /\ checked.to = r.to
  BY <1>1 DEF Calls
<1>4. seen \in Calls /\ seen.stage = "read" /\ seen.op = r.op
      /\ seen.offer = r.offer /\ seen.to = r.to
  BY <1>1, <1>2 DEF Calls
<1>5. CallAgrees(checked) /\ CallAgrees(seen)
  BY <1>1, <1>3, <1>4 DEF CallAgrees
<1> QED
  BY <1>3, <1>4, <1>5, HoldInv, DoneInv DEF JobRecheck, TransitionRead

-----------------------------------------------------------------------------
(* Writes.  The call ends, or goes on to the "after" stage.                *)

(* A deadline once set stays set, and only TransitionWrite makes an order  *)
(* wait for a selection.                                                   *)
LEMMA SelectionStays ==
  ASSUME SelectionIsTimed,
         \A o \in Order :
           /\ left[o]["selection"] # Unset => left'[o]["selection"] # Unset
           /\ status'[o] = "AWAITING_SELECTION" =>
                status[o] = "AWAITING_SELECTION" \/ left'[o]["selection"] # Unset
  PROVE  SelectionIsTimed'
BY DEF SelectionIsTimed

LEMMA DoneCalls ==
  ASSUME OrderInv, NEW c \in Caller, Done(c)
  PROVE  CallsAgree' /\ call' \in [Caller -> {Idle} \cup Calls]
<1>1. call' \in [Caller -> {Idle} \cup Calls]
  BY DEF OrderInv, TypeOK, Done
<1>2. ASSUME NEW d \in Caller PROVE CallAgrees(call'[d])
  <2>1. CASE d = c
    BY <2>1 DEF OrderInv, TypeOK, Done, CallAgrees
  <2>2. CASE d # c
    BY <2>2 DEF OrderInv, TypeOK, CallsAgree, Done
  <2> QED
    BY <2>1, <2>2
<1> QED
  BY <1>1, <1>2 DEF CallsAgree, CallAgrees

LEMMA BidWriteInv ==
  ASSUME OrderInv, NEW c \in Caller,
         BidWrite(c) \/ WithdrawWrite(c) \/ RetractWrite(c) \/ AdminDeleteWrite(c)
  PROVE  OrderInv'
<1> DEFINE f == call[c].offer
<1>1. f \in Offer
  BY InFlight DEF BidWrite, WithdrawWrite, RetractWrite, AdminDeleteWrite, At, OfferOps
<1>2. Done(c) /\ UNCHANGED <<status, left, age, rejections, renewals,
                             delivered, returns, fines, documented>>
  BY DEF BidWrite, WithdrawWrite, RetractWrite, AdminDeleteWrite, Deleted
<1>3. offer' \in [Offer -> OfferStatus]
  BY <1>1 DEF BidWrite, WithdrawWrite, RetractWrite, AdminDeleteWrite, Deleted, OrderInv,
         TypeOK, OfferStatus
<1>4. withdrawn' \subseteq Offer /\ editable' \subseteq Offer /\ declined' \subseteq Offer
  BY <1>1 DEF BidWrite, WithdrawWrite, RetractWrite, AdminDeleteWrite, Deleted, OrderInv,
         TypeOK
<1>5. acceptedOffer' \in [Order -> Offer \cup {NoOffer}]
  BY DEF BidWrite, WithdrawWrite, RetractWrite, AdminDeleteWrite, Deleted, OrderInv,
         TypeOK
<1>6. TypeOK'
  BY <1>2, <1>3, <1>4, <1>5, DoneCalls DEF OrderInv, TypeOK
<1>7. SelectionIsTimed'
  BY <1>2 DEF OrderInv, SelectionIsTimed
<1> QED
  BY <1>2, <1>6, <1>7, DoneCalls DEF OrderInv

LEMMA AcceptRowTyped ==
  ASSUME OrderInv, NEW f \in Offer, AcceptRow(f)
  PROVE  offer' \in [Offer -> OfferStatus]
BY DEF OrderInv, TypeOK, AcceptRow, OfferStatus

LEMMA SetLeftTyped ==
  ASSUME OrderInv, NEW o \in Order, NEW t \in Timer,
         NEW days \in {Unset} \cup 0..MaxDays, SetLeft(o, t, days)
  PROVE  /\ left' \in [Order -> [Timer -> {Unset} \cup 0..MaxDays]]
         /\ t # "selection" =>
              \A p \in Order : left'[p]["selection"] = left[p]["selection"]
<1>1. left \in [Order -> [Timer -> {Unset} \cup 0..MaxDays]]
  BY DEF OrderInv, TypeOK
<1>2. left' = [left EXCEPT ![o] = [left[o] EXCEPT ![t] = days]]
  BY DEF SetLeft
<1>3. [left[o] EXCEPT ![t] = days] \in [Timer -> {Unset} \cup 0..MaxDays]
  BY <1>1
<1>4. "selection" \in Timer
  BY DEF Timer
<1> QED
  BY <1>1, <1>2, <1>3, <1>4

LEMMA AcceptWriteInv ==
  ASSUME OrderInv, NEW c \in Caller, AcceptWrite(c) \/ AcceptPartWrite(c)
  PROVE  OrderInv'
<1> DEFINE f == call[c].offer
           o == call[c].order
<1>1. f \in Offer /\ o \in Order
  BY InFlight DEF AcceptWrite, AcceptPartWrite, At, OfferOps
<1>2. /\ Done(c) /\ AcceptRow(f)
      /\ UNCHANGED <<age, rejections, renewals, withdrawn, editable, declined,
                     delivered, returns, fines, documented>>
  BY DEF AcceptWrite, AcceptPartWrite
<1>3. "payment" \in Timer /\ 1 \in 0..MaxDays /\ "AWAITING_PAYMENT" \in Status
  BY DEF Timer, MaxDays, Status
<1>4. UNCHANGED left \/ SetLeft(o, "payment", 1)
  BY DEF AcceptWrite, AcceptPartWrite
<1>5. /\ left' \in [Order -> [Timer -> {Unset} \cup 0..MaxDays]]
      /\ \A p \in Order : left'[p]["selection"] = left[p]["selection"]
  BY <1>1, <1>3, <1>4, SetLeftTyped DEF OrderInv, TypeOK
<1>6. UNCHANGED status \/ status' = [status EXCEPT ![o] = "AWAITING_PAYMENT"]
  BY DEF AcceptWrite, AcceptPartWrite
<1>7. acceptedOffer' \in [Order -> Offer \cup {NoOffer}]
  BY <1>1 DEF AcceptWrite, AcceptPartWrite, OrderInv, TypeOK
<1>8. TypeOK'
  <2>1. status' \in [Order -> Status]
    BY <1>3, <1>6 DEF OrderInv, TypeOK
  <2>2. offer' \in [Offer -> OfferStatus]
    BY <1>1, <1>2, AcceptRowTyped
  <2>3. call' \in [Caller -> {Idle} \cup Calls]
    BY <1>2, DoneCalls
  <2> QED
    BY <1>2, <1>5, <1>7, <2>1, <2>2, <2>3 DEF OrderInv, TypeOK
<1>9. SelectionIsTimed'
  BY <1>5, <1>6, SelectionStays DEF OrderInv, TypeOK
<1> QED
  BY <1>2, <1>8, <1>9, DoneCalls DEF OrderInv

LEMMA RejectWriteInv ==
  ASSUME OrderInv, NEW c \in Caller, RejectWrite(c)
  PROVE  OrderInv'
<1>1. call[c].offer \in Offer
  BY InFlight DEF RejectWrite, At, OfferOps
<1>2. TypeOK'
  BY <1>1, DoneCalls DEF OrderInv, TypeOK, RejectWrite, OfferStatus
<1>3. SelectionIsTimed'
  BY DEF OrderInv, SelectionIsTimed, RejectWrite
<1> QED
  BY <1>2, <1>3, DoneCalls DEF OrderInv, RejectWrite

LEMMA RenewWriteInv ==
  ASSUME OrderInv, NEW c \in Caller, RenewWrite(c)
  PROVE  OrderInv'
<1> DEFINE o == call[c].order
<1>1. o \in Order /\ "AWAITING_OFFERS" \in Status
  BY InFlight DEF RenewWrite, At, Status
<1>2. renewals' \in [Order -> 0..MaxRenewals]
  <2>1. renewals[o] + 1 \in 0..MaxRenewals
    BY <1>1, OrdersAssumption DEF OrderInv, TypeOK, RenewWrite
  <2> QED
    BY <1>1, <2>1 DEF OrderInv, TypeOK, RenewWrite
<1>3. TypeOK'
  BY <1>1, <1>2, DoneCalls DEF OrderInv, TypeOK, RenewWrite
<1>4. SelectionIsTimed'
  BY SelectionStays DEF OrderInv, TypeOK, RenewWrite
<1> QED
  BY <1>3, <1>4, DoneCalls DEF OrderInv, RenewWrite

LEMMA WarrantyWriteInv ==
  ASSUME OrderInv, NEW c \in Caller, WarrantyWrite(c)
  PROVE  OrderInv'
<1> DEFINE o == call[c].order
<1>1. o \in Order /\ "WARRANTY_EXPIRED" \in Status /\ 0 \in 0..MaxDays
  BY InFlight DEF WarrantyWrite, At, Status, MaxDays
<1>2. TypeOK'
  BY <1>1, DoneCalls DEF OrderInv, TypeOK, WarrantyWrite
<1>3. SelectionIsTimed'
  BY SelectionStays DEF OrderInv, TypeOK, WarrantyWrite
<1> QED
  BY <1>2, <1>3, DoneCalls DEF OrderInv, WarrantyWrite

LEMMA VerifyWriteInv ==
  ASSUME OrderInv, NEW c \in Caller, VerifyWrite(c)
  PROVE  OrderInv'
<1> DEFINE r == call[c]
           o == r.order
<1>1. /\ o \in Order /\ r.to \in Status /\ r.to # "AWAITING_SELECTION"
      /\ r.count \in Nat
  BY InFlight DEF VerifyWrite, At, CallAgrees, Idle
<1>2. "correction" \in Timer /\ "correction" # "selection"
      /\ Unset \in {Unset} \cup 0..MaxDays /\ 2 \in {Unset} \cup 0..MaxDays
  BY DEF Timer, MaxDays
<1>3. UNCHANGED left \/ SetLeft(o, "correction", Unset) \/ SetLeft(o, "correction", 2)
  BY DEF VerifyWrite
<1>4. /\ left' \in [Order -> [Timer -> {Unset} \cup 0..MaxDays]]
      /\ \A p \in Order : left'[p]["selection"] = left[p]["selection"]
  BY <1>1, <1>2, <1>3, SetLeftTyped DEF OrderInv, TypeOK
<1>5. UNCHANGED rejections \/ rejections' = [rejections EXCEPT ![o] = r.count + 1]
  BY DEF VerifyWrite
<1>6. rejections' \in [Order -> Nat]
  BY <1>1, <1>5 DEF OrderInv, TypeOK
<1>7. /\ Done(c) /\ status' = [status EXCEPT ![o] = r.to]
      /\ UNCHANGED <<age, acceptedOffer, renewals, offer, withdrawn, editable,
                     declined, delivered, returns, fines>>
      /\ documented' = documented \/ documented' = documented \cup {o}
  BY DEF VerifyWrite
<1>8. TypeOK'
  BY <1>1, <1>4, <1>6, <1>7, DoneCalls DEF OrderInv, TypeOK
<1>9. SelectionIsTimed'
  BY <1>1, <1>4, <1>7, SelectionStays DEF OrderInv, TypeOK
<1> QED
  BY <1>7, <1>8, <1>9, DoneCalls DEF OrderInv

(* transitionStatus is the one that sets the selection deadline, together  *)
(* with the status that needs it.                                          *)
LEMMA TransitionWriteInv ==
  ASSUME OrderInv, NEW c \in Caller, TransitionWrite(c)
  PROVE  OrderInv'
<1> DEFINE r == call[c]
           o == r.order
           after == [r EXCEPT !.stage = "after"]
<1>1. /\ r \in Calls /\ CallAgrees(r) /\ r # Idle
      /\ o \in Order /\ r.to \in Status
  BY InFlight DEF TransitionWrite, At, Idle
<1>2. Landing(r) \in Status /\ (Landing(r) = "AWAITING_SELECTION" => r.to = Landing(r))
  BY <1>1 DEF Landing, Status
<1>3. status' = [status EXCEPT ![o] = Landing(r)] /\ age' = [age EXCEPT ![o] = 0]
      /\ UNCHANGED <<rejections, acceptedOffer, renewals, offer, withdrawn,
                     editable, declined, fines, documented>>
  BY DEF TransitionWrite
<1>4. PICK v \in [Timer -> {Unset} \cup 0..MaxDays] :
        /\ left' = [left EXCEPT ![o] = v]
        /\ r.to = "AWAITING_SELECTION" => v["selection"] = 1
        /\ r.to # "AWAITING_SELECTION" => v["selection"] = left[o]["selection"]
  <2> DEFINE v == Deadlines(r, left[o])
  <2>1. left[o] \in [Timer -> {Unset} \cup 0..MaxDays] /\ 1 \in 0..MaxDays
        /\ "selection" \in Timer /\ "warranty" \in Timer
    BY <1>1 DEF OrderInv, TypeOK, MaxDays, Timer
  <2>2. v \in [Timer -> {Unset} \cup 0..MaxDays]
    BY <2>1 DEF Deadlines
  <2>3. v["selection"] = IF r.to = "AWAITING_SELECTION" THEN 1 ELSE left[o]["selection"]
    BY <2>1 DEF Deadlines
  <2>4. left' = [left EXCEPT ![o] = v]
    BY DEF TransitionWrite
  <2> QED
    BY <2>2, <2>3, <2>4
<1>5. delivered' \in [Order -> 0..StatCap] /\ returns' \in [Order -> 0..StatCap]
  <2>1. \A n \in 0..StatCap : Bump(n) \in 0..StatCap
    BY OrdersAssumption DEF Bump
  <2> QED
    BY <1>1, <2>1 DEF TransitionWrite, OrderInv, TypeOK
<1>6. after \in Calls /\ after.op = r.op /\ after.offer = r.offer /\ after.to = r.to
  BY <1>1 DEF Calls
<1>7. call' \in [Caller -> {Idle} \cup Calls] /\ CallsAgree'
  <2>1. CASE Done(c)
    BY <2>1, DoneCalls
  <2>2. CASE Hold(c, after) /\ r.op \in CronOps
    <3>1. CallAgrees(after)
      BY <1>1, <1>6, <2>2 DEF CallAgrees
    <3>2. call' = [call EXCEPT ![c] = after]
      BY <2>2 DEF Hold
    <3>3. ASSUME NEW d \in Caller PROVE CallAgrees(call'[d])
      <4>1. CASE d = c
        BY <3>1, <3>2, <4>1 DEF OrderInv, TypeOK
      <4>2. CASE d # c
        BY <3>2, <4>2 DEF OrderInv, TypeOK, CallsAgree
      <4> QED
        BY <4>1, <4>2
    <3>4. call' \in [Caller -> {Idle} \cup Calls]
      BY <1>6, <3>2 DEF OrderInv, TypeOK
    <3> QED
      BY <3>3, <3>4 DEF CallsAgree, CallAgrees
  <2> QED
    BY <2>1, <2>2 DEF TransitionWrite, CronOps, Unfinished
<1>8. TypeOK'
  <2>1. status' \in [Order -> Status]
    BY <1>1, <1>2, <1>3 DEF OrderInv, TypeOK
  <2>2. left' \in [Order -> [Timer -> {Unset} \cup 0..MaxDays]]
    BY <1>1, <1>4 DEF OrderInv, TypeOK
  <2>3. age' \in [Order -> 0..MaxDays]
    <3>1. age \in [Order -> 0..MaxDays] /\ 0 \in 0..MaxDays
      BY DEF OrderInv, TypeOK, MaxDays
    <3> QED
      BY <1>3, <3>1
  <2> QED
    BY <1>3, <1>5, <1>7, <2>1, <2>2, <2>3 DEF OrderInv, TypeOK
<1>9. SelectionIsTimed'
  <2> SUFFICES ASSUME NEW p \in Order, status'[p] = "AWAITING_SELECTION"
               PROVE  left'[p]["selection"] # Unset
    BY DEF SelectionIsTimed
  <2>1. CASE p = o
    <3>1. status'[p] = Landing(r) /\ left'[p]["selection"] = 1
      BY <1>1, <1>2, <1>3, <1>4, <2>1 DEF OrderInv, TypeOK
    <3> QED
      BY <3>1 DEF Unset
  <2>2. CASE p # o
    BY <1>3, <1>4, <2>2 DEF OrderInv, TypeOK, SelectionIsTimed
  <2> QED
    BY <2>1, <2>2
<1> QED
  BY <1>7, <1>8, <1>9 DEF OrderInv

LEMMA JobAfterInv ==
  ASSUME OrderInv, NEW j \in Caller, JobAfter(j)
  PROVE  OrderInv'
<1> DEFINE r == call[j]
           o == r.order
<1>1. o \in Order /\ r.op \in CronOps
  BY InFlight DEF JobAfter, At, CallAgrees, Idle
<1>2. "delayed" \in Timer /\ "delayed" # "selection" /\ 1 \in {Unset} \cup 0..MaxDays
  BY DEF Timer, MaxDays
<1>3. UNCHANGED left \/ SetLeft(o, "delayed", 1)
  BY DEF JobAfter
<1>4. /\ left' \in [Order -> [Timer -> {Unset} \cup 0..MaxDays]]
      /\ \A p \in Order : left'[p]["selection"] = left[p]["selection"]
  BY <1>1, <1>2, <1>3, SetLeftTyped DEF OrderInv, TypeOK
<1>5. fines' \subseteq CronOps \X Order
  BY <1>1 DEF JobAfter, OrderInv, TypeOK
<1>6. TypeOK'
  BY <1>4, <1>5, DoneCalls DEF OrderInv, TypeOK, JobAfter
<1>7. SelectionIsTimed'
  BY <1>4, SelectionStays DEF OrderInv, JobAfter
<1> QED
  BY <1>6, <1>7, DoneCalls DEF OrderInv, JobAfter

LEMMA TickInv ==
  ASSUME OrderInv, Tick
  PROVE  OrderInv'
<1>1. \A n \in {Unset} \cup 0..MaxDays :
        LET m == IF n > 0 THEN n - 1 ELSE n IN
        m \in {Unset} \cup 0..MaxDays /\ (n # Unset => m # Unset)
  BY DEF Unset, MaxDays
<1>2. left' \in [Order -> [Timer -> {Unset} \cup 0..MaxDays]]
  BY <1>1 DEF OrderInv, TypeOK, Tick
<1>3. \A o \in Order : left[o]["selection"] # Unset => left'[o]["selection"] # Unset
  BY <1>1 DEF OrderInv, TypeOK, Tick, Timer
<1>4. age' \in [Order -> 0..MaxDays]
  BY DEF OrderInv, TypeOK, Tick, MaxDays
<1>5. TypeOK' /\ CallsAgree'
  BY <1>2, <1>4 DEF OrderInv, TypeOK, CallsAgree, CallAgrees, Tick
<1>6. SelectionIsTimed'
  BY <1>3, SelectionStays DEF OrderInv, Tick
<1> QED
  BY <1>5, <1>6 DEF OrderInv

-----------------------------------------------------------------------------
LEMMA ClientStepInv ==
  ASSUME OrderInv, NEW c \in Client, ClientStep(c)
  PROVE  OrderInv'
<1>1. c \in Caller
  BY DEF Caller
<1>2. CASE BidStep(c)
  BY <1>1, <1>2, OfferReadInv, BidWriteInv DEF BidStep
<1>3. CASE SelectStep(c)
  <2>1. CASE OfferWriteFails(c)
    BY <1>1, <2>1, DoneInv DEF OfferWriteFails
  <2> QED
    BY <1>1, <1>3, <2>1, OfferReadInv, OrderReadInv, AcceptWriteInv,
       RejectWriteInv, RenewWriteInv DEF SelectStep
<1>4. CASE ManageStep(c)
  BY <1>1, <1>4, OrdersAssumption, RequestTransitionInv, OrderReadInv,
     TransitionWriteInv, VerifyWriteInv DEF ManageStep
<1> QED
  BY <1>2, <1>3, <1>4 DEF ClientStep

LEMMA JobStepInv ==
  ASSUME OrderInv, NEW j \in Job, JobStep(j)
  PROVE  OrderInv'
<1>1. j \in Caller
  BY DEF Caller
<1> QED
  BY <1>1, OrderReadInv, JobReadInv, TransitionWriteInv, JobAfterInv,
     WarrantyWriteInv DEF JobStep

LEMMA OrderNextInv == OrderInv /\ [OrderStep]_orderVars => OrderInv'
<1> SUFFICES ASSUME OrderInv, [OrderStep]_orderVars PROVE OrderInv'
  OBVIOUS
<1>1. CASE UNCHANGED orderVars
  BY <1>1 DEF orderVars, OrderInv, TypeOK, CallsAgree, CallAgrees, SelectionIsTimed
<1>2. ASSUME NEW c \in Caller, Crash(c) PROVE OrderInv'
  BY <1>2, DoneInv DEF Crash, rowVars
<1> QED
  BY <1>1, <1>2, ClientStepInv, JobStepInv, TickInv DEF OrderStep, CallStep

LEMMA OrderInvariant == Spec => []OrderInv
<1> QED
  BY OrderInitInv, OrderNextInv, PTL DEF Spec

(* Every column and every call in flight keeps its type. *)
THEOREM OrdersTypeCorrect == Spec => []TypeOK
<1>1. OrderInv => TypeOK
  BY DEF OrderInv
<1> QED
  BY <1>1, OrderInvariant, PTL

(* However requests and jobs interleave and wherever they crash, an order  *)
(* that waits for its customer's choice has a deadline to expire by.       *)
THEOREM SelectionAlwaysTimed == Spec => []SelectionIsTimed
<1>1. OrderInv => SelectionIsTimed
  BY DEF OrderInv
<1> QED
  BY <1>1, OrderInvariant, PTL

-----------------------------------------------------------------------------
(* One caller at a time: what a request or job has read still holds when it *)
(* writes.  Fresh says what that is for each operation; time does not pass  *)
(* in between (Tick).                                                       *)

OneCaller == \A c, d \in Caller : c = d

CanMove(from, to) ==
  \/ CanTransition(from, to)
  \/ from = "NON_MATCHING" /\ to = "CORRECTION_SUBMITTED"

Fresh(r) ==
  r # Idle =>
    /\ r.stage = "checked" => r.op \in CronOps
    /\ r.stage = "read" =>
         /\ r.op \in CronOps \cup {"transition"} => CanTransition(status[r.order], r.to)
         /\ r.op = "accept" => CanTransition(status[r.order], "AWAITING_PAYMENT")
         /\ r.op = "acceptPart" => r.seen = status[r.order]
         /\ r.op = "expireWarranty" => status[r.order] = "WARRANTY_ACTIVE"
         /\ r.op \in VerifyOps => CanMove(status[r.order], r.to)
         /\ r.op = "disapprove" =>
              /\ r.count = rejections[r.order]
              /\ r.count >= 1 => r.to = "CANCELLED"

SerialInv ==
  /\ OrderInv
  /\ \A c \in Caller : Fresh(call[c])
  /\ SecondRejectionCancels

LegalStep ==
  \A o \in Order : status'[o] # status[o] =>
    CanTransition(status[o], status'[o]) \/ ByPass(status[o], status'[o])

(* The table leads nowhere from CANCELLED, and holds the moves that the    *)
(* other writes make.                                                      *)
LEMMA TableMoves ==
  ASSUME NEW s \in Status, NEW t \in Status
  PROVE  /\ ~CanMove("CANCELLED", t)
         /\ s \in {"AWAITING_OFFERS", "COLLECTING_OFFERS", "AWAITING_SELECTION"} =>
              CanMove(s, "AWAITING_PAYMENT")
         /\ CanMove("WARRANTY_ACTIVE", "WARRANTY_EXPIRED")
<1>1. ~CanTransition("CANCELLED", t)
  BY DEF CanTransition, TransitionRules, Status
<1>2. CanTransition("WARRANTY_ACTIVE", "WARRANTY_EXPIRED")
  BY DEF CanTransition, TransitionRules, Status
<1>3. s \in {"AWAITING_OFFERS", "COLLECTING_OFFERS", "AWAITING_SELECTION"} =>
        CanTransition(s, "AWAITING_PAYMENT")
  BY DEF CanTransition, TransitionRules, Status
<1> QED
  BY <1>1, <1>2, <1>3 DEF CanMove

LEMMA SerialInitInv == Init => SerialInv
<1> SUFFICES ASSUME Init PROVE SerialInv
  OBVIOUS
<1>1. \A c \in Caller : Fresh(call[c])
  BY DEF Init, Fresh
<1>2. SecondRejectionCancels
  BY DEF Init, SecondRejectionCancels
<1> QED
  BY <1>1, <1>2, OrderInitInv DEF SerialInv

(* With one caller every phase step is one of that caller. *)
LEMMA OnlyCall ==
  ASSUME OneCaller, OrderInv, NEW c \in Caller, NEW r, Hold(c, r)
  PROVE  \A d \in Caller : call'[d] = r
BY DEF OneCaller, OrderInv, TypeOK, Hold

LEMMA ReadKeeps ==
  ASSUME OneCaller, SerialInv, OrderInv', NEW c \in Caller, NEW r, Hold(c, r),
         Fresh(r), UNCHANGED rowVars
  PROVE  SerialInv' /\ LegalStep
<1>1. \A d \in Caller : call'[d] = r
  BY OnlyCall DEF SerialInv
<1>2. Fresh(r)'
  BY DEF Fresh, rowVars
<1>3. \A d \in Caller : Fresh(call[d])'
  BY <1>1, <1>2 DEF Fresh
<1>4. SecondRejectionCancels' /\ LegalStep
  BY DEF SerialInv, SecondRejectionCancels, LegalStep, rowVars
<1> QED
  BY <1>3, <1>4 DEF SerialInv

LEMMA EndKeeps ==
  ASSUME OneCaller, SerialInv, OrderInv', NEW c \in Caller, Done(c),
         UNCHANGED <<status, rejections, renewals>>
  PROVE  SerialInv' /\ LegalStep
<1>1. \A d \in Caller : call'[d] = Idle
  BY OnlyCall DEF SerialInv, Done, Hold
<1>2. \A d \in Caller : Fresh(call[d])'
  BY <1>1 DEF Fresh
<1>3. SecondRejectionCancels' /\ LegalStep
  BY DEF SerialInv, SecondRejectionCancels, LegalStep
<1> QED
  BY <1>2, <1>3 DEF SerialInv

(* A write that moves the order o to t. *)
LEMMA WriteKeeps ==
  ASSUME OneCaller, SerialInv, OrderInv', NEW c \in Caller, NEW r, Hold(c, r),
         r = Idle \/ r.stage = "after",
         NEW o \in Order, NEW t \in Status,
         status' = [status EXCEPT ![o] = t], UNCHANGED renewals,
         \/ CanMove(status[o], t)
         \/ t = "WARRANTY_ACTIVE" /\ CanTransition(status[o], "COMPLETED"),
         \/ UNCHANGED rejections
         \/ /\ rejections' = [rejections EXCEPT ![o] = @ + 1]
            /\ rejections[o] >= 1 => t = "CANCELLED"
  PROVE  SerialInv' /\ LegalStep
<1>1. \A d \in Caller : Fresh(call[d])'
  <2>1. \A d \in Caller : call'[d] = r
    BY OnlyCall DEF SerialInv
  <2> QED
    BY <2>1 DEF Fresh
<1>2. /\ status \in [Order -> Status] /\ rejections \in [Order -> Nat]
      /\ renewals \in [Order -> Nat]
  BY DEF SerialInv, OrderInv, TypeOK
<1>3. /\ status'[o] = t
      /\ \A p \in Order \ {o} : /\ status'[p] = status[p]
                                /\ rejections'[p] = rejections[p]
  BY <1>2
<1>4. LegalStep
  BY <1>3 DEF LegalStep, ByPass, CanMove
<1>5. status[o] # "CANCELLED"
  <2>1. /\ "CANCELLED" \in Status /\ ~CanMove("CANCELLED", t)
        /\ ~CanTransition("CANCELLED", "COMPLETED")
    BY TableMoves DEF Status, CanTransition, TransitionRules
  <2> QED
    BY <2>1
<1>6. SecondRejectionCancels'
  <2> SUFFICES ASSUME NEW p \in Order, rejections'[p] >= 2
               PROVE  status'[p] = "CANCELLED" \/ renewals'[p] > 0
    BY DEF SecondRejectionCancels
  <2>1. CASE p # o
    BY <1>3, <2>1 DEF SerialInv, SecondRejectionCancels
  <2>2. CASE p = o /\ UNCHANGED rejections
    BY <1>5, <2>2 DEF SerialInv, SecondRejectionCancels
  <2>3. CASE p = o /\ rejections' = [rejections EXCEPT ![o] = @ + 1]
                   /\ (rejections[o] >= 1 => t = "CANCELLED")
    BY <1>2, <1>3, <2>3
  <2> QED
    BY <2>1, <2>2, <2>3
<1> QED
  BY <1>1, <1>4, <1>6 DEF SerialInv

(* A call that has just read the order. *)
LEMMA NewFresh ==
  ASSUME OrderInv, NEW stage \in {"listed", "checked", "read"}, NEW op \in OpNames,
         NEW o \in Order, NEW f \in Offer \cup {NoOffer}, NEW to \in Status,
         stage = "checked" => op \in CronOps,
         stage = "read" =>
           /\ op \in CronOps \cup {"transition"} => CanTransition(status[o], to)
           /\ op = "accept" => CanTransition(status[o], "AWAITING_PAYMENT")
           /\ op = "expireWarranty" => status[o] = "WARRANTY_ACTIVE"
           /\ op \in VerifyOps => CanMove(status[o], to)
           /\ op = "disapprove" /\ rejections[o] >= 1 => to = "CANCELLED"
  PROVE  Fresh(NewCall(stage, op, o, f, to))
<1>1. PICK r : r = NewCall(stage, op, o, f, to)
  OBVIOUS
<1>2. /\ r.stage = stage /\ r.op = op /\ r.order = o /\ r.to = to
      /\ r.seen = status[o] /\ r.count = rejections[o]
  BY <1>1 DEF NewCall
<1>3. Fresh(r)
  BY <1>2 DEF Fresh
<1> QED
  BY <1>1, <1>3

LEMMA OfferReadKeeps ==
  ASSUME OneCaller, SerialInv, OrderInv', NEW c \in Caller, NEW f \in Offer,
         BidRead(c, f) \/ WithdrawRead(c, f) \/ RetractRead(c, f)
           \/ AdminDeleteRead(c, f)
           \/ AcceptRead(c, f) \/ AcceptPartRead(c, f) \/ RejectRead(c, f)
  PROVE  SerialInv' /\ LegalStep
<1> DEFINE o == OrderOf[f]
<1>1. o \in Order /\ status[o] \in Status /\ "AWAITING_PAYMENT" \in Status
  BY OrdersAssumption DEF SerialInv, OrderInv, TypeOK, Status
<1>2. PICK op \in OfferOps, to \in Status :
        /\ Hold(c, NewCall("read", op, o, f, to)) /\ UNCHANGED rowVars
        /\ op = "accept" => CanTransition(status[o], "AWAITING_PAYMENT")
  BY <1>1 DEF BidRead, WithdrawRead, RetractRead, AdminDeleteRead, AcceptRead,
              AcceptPartRead, RejectRead, OfferOps
<1>3. /\ op \in OpNames /\ op \notin VerifyOps /\ op \notin CronOps
      /\ op \notin {"transition", "expireWarranty", "disapprove"}
  BY DEF OfferOps, OpNames, BidOps, VerifyOps, CronOps
<1>4. Fresh(NewCall("read", op, o, f, to))
  BY <1>1, <1>2, <1>3, NewFresh DEF SerialInv
<1> QED
  BY <1>2, <1>4, ReadKeeps

LEMMA OrderReadKeeps ==
  ASSUME OneCaller, SerialInv, OrderInv', NEW c \in Caller, NEW o \in Order
  PROVE  /\ RenewRead(c, o) => SerialInv' /\ LegalStep
         /\ WarrantyList(c, o) => SerialInv' /\ LegalStep
         /\ \A op \in CronOps : JobList(c, op, o) => SerialInv' /\ LegalStep
         /\ \A op \in VerifyOps : VerifyRead(c, op, o) => SerialInv' /\ LegalStep
<1>1. status[o] \in Status /\ rejections[o] \in Nat
  BY DEF SerialInv, OrderInv, TypeOK
<1>2. CASE RenewRead(c, o)
  <2>1. "renew" \in OpNames /\ "AWAITING_OFFERS" \in Status
        /\ "renew" \notin CronOps \cup VerifyOps
    BY DEF OpNames, BidOps, Status, CronOps, VerifyOps
  <2>2. Fresh(NewCall("read", "renew", o, NoOffer, "AWAITING_OFFERS"))
    BY <2>1, NewFresh DEF SerialInv
  <2> QED
    BY <1>2, <2>2, ReadKeeps DEF RenewRead
<1>3. CASE WarrantyList(c, o)
  <2>1. /\ "expireWarranty" \in OpNames /\ "WARRANTY_EXPIRED" \in Status
        /\ "expireWarranty" \notin CronOps \cup VerifyOps
    BY DEF OpNames, Status, CronOps, VerifyOps
  <2>2. Fresh(NewCall("read", "expireWarranty", o, NoOffer, "WARRANTY_EXPIRED"))
    BY <1>3, <2>1, NewFresh DEF SerialInv, WarrantyList
  <2> QED
    BY <1>3, <2>2, ReadKeeps DEF WarrantyList
<1>4. ASSUME NEW op \in CronOps, JobList(c, op, o) PROVE SerialInv' /\ LegalStep
  <2>1. op \in OpNames /\ CronTarget[op] \in Status
    BY DEF OpNames, CronOps, CronTarget, Status
  <2>2. PICK stage \in {"listed", "checked"} :
          Hold(c, NewCall(stage, op, o, NoOffer, CronTarget[op]))
    BY <1>4 DEF JobList
  <2>3. Fresh(NewCall(stage, op, o, NoOffer, CronTarget[op]))
    BY <2>1, NewFresh DEF SerialInv
  <2> QED
    BY <1>4, <2>2, <2>3, ReadKeeps DEF JobList
<1>5. ASSUME NEW op \in VerifyOps, VerifyRead(c, op, o) PROVE SerialInv' /\ LegalStep
  <2> DEFINE to == VerifyTarget(op, rejections[o])
  <2>1. op \in OpNames /\ to \in Status /\ op \notin CronOps
        /\ op \notin {"transition", "accept", "expireWarranty"}
    BY DEF OpNames, VerifyOps, VerifyTarget, Status, CronOps
  <2>2. op = "disapprove" /\ rejections[o] >= 1 => to = "CANCELLED"
    BY DEF VerifyTarget
  <2>3. CanMove(status[o], to)
    <3>1. VerifyGuard(op, o)
      BY <1>5 DEF VerifyRead
    <3>2. CASE op = "prepare"
      BY <3>1, <3>2 DEF VerifyGuard, VerifyTarget, CanMove
    <3>3. CASE op = "submitVerification"
      BY <3>1, <3>3 DEF VerifyGuard, VerifyTarget, CanMove, CanTransition, TransitionRules
    <3>4. CASE op = "approve"
      BY <3>1, <3>4 DEF VerifyGuard, VerifyTarget, CanMove, CanTransition,
                        TransitionRules, Reviewable
    <3>5. CASE op = "disapprove"
      BY <3>1, <3>5 DEF VerifyGuard, VerifyTarget, CanMove, CanTransition,
                        TransitionRules, Reviewable
    <3>6. CASE op = "correct"
      BY <3>1, <3>6 DEF VerifyGuard, VerifyTarget, CanMove, CanTransition, TransitionRules
    <3> QED
      BY <3>2, <3>3, <3>4, <3>5, <3>6 DEF VerifyOps
  <2>4. Fresh(NewCall("read", op, o, NoOffer, to))
    BY <2>1, <2>2, <2>3, NewFresh DEF SerialInv
  <2> QED
    BY <1>5, <2>4, ReadKeeps DEF VerifyRead
<1> QED
  BY <1>2, <1>3, <1>4, <1>5

LEMMA TransitionReadKeeps ==
  ASSUME OneCaller, SerialInv, OrderInv', NEW c \in Caller
  PROVE  /\ \A o \in Order, to \in Status :
              RequestTransition(c, o, to) => SerialInv' /\ LegalStep
         /\ JobRecheck(c) \/ TransitionRead(c) => SerialInv' /\ LegalStep
<1>1. ASSUME NEW o \in Order, NEW to \in Status, RequestTransition(c, o, to)
      PROVE  SerialInv' /\ LegalStep
  <2>1. PICK r : r = [NewCall("read", "transition", o, NoOffer, to)
                        EXCEPT !.warranty = HasWarranty(o)]
    OBVIOUS
  <2>2. r.stage = "read" /\ r.op = "transition" /\ r.order = o /\ r.to = to
    BY <2>1 DEF NewCall
  <2>3. "transition" \notin VerifyOps
    BY DEF VerifyOps
  <2>4. CanTransition(status[o], to)
    BY <1>1 DEF RequestTransition
  <2>5. Fresh(r)
    BY <2>2, <2>3, <2>4 DEF Fresh
  <2> QED
    BY <1>1, <2>1, <2>5, ReadKeeps DEF RequestTransition
<1>2. ASSUME JobRecheck(c) \/ TransitionRead(c) PROVE SerialInv' /\ LegalStep
  <2>1. call[c] \in Calls /\ Fresh(call[c]) /\ call[c] # Idle
        /\ call[c].stage \in {"listed", "checked"}
    BY <1>2, InFlight DEF JobRecheck, TransitionRead, At, Idle, SerialInv
  <2>2. CASE Done(c) /\ UNCHANGED rowVars
    BY <2>2, EndKeeps DEF rowVars
  <2>3. CASE JobRecheck(c) /\ ~Done(c)
    <3>1. PICK r : r = [call[c] EXCEPT !.stage = "checked"]
      OBVIOUS
    <3>2. r.stage = "checked" /\ r.op = "autoComplete" /\ Hold(c, r) /\ UNCHANGED rowVars
      BY <2>1, <2>3, <3>1 DEF JobRecheck, Calls
    <3>3. Fresh(r)
      BY <3>2 DEF Fresh, CronOps
    <3> QED
      BY <3>2, <3>3, ReadKeeps
  <2>4. CASE TransitionRead(c) /\ ~Done(c)
    <3>1. PICK r : r = [call[c] EXCEPT !.stage = "read", !.seen = status[call[c].order],
                                       !.warranty = HasWarranty(call[c].order)]
      OBVIOUS
    <3>2. /\ r.stage = "read" /\ r.op = call[c].op /\ r.order = call[c].order
          /\ r.to = call[c].to /\ Hold(c, r) /\ UNCHANGED rowVars
          /\ r.seen = status[r.order]
          /\ CanTransition(status[r.order], r.to) /\ call[c].stage = "checked"
      BY <2>1, <2>4, <3>1 DEF TransitionRead, Calls, At
    <3>3. r.op \in CronOps
      BY <2>1, <3>2 DEF Fresh
    <3>4. r.op \notin VerifyOps
          /\ r.op \notin {"accept", "acceptPart", "expireWarranty", "disapprove"}
      BY <3>3 DEF CronOps, VerifyOps
    <3>5. Fresh(r)
      BY <3>2, <3>4 DEF Fresh
    <3> QED
      BY <3>2, <3>5, ReadKeeps
  <2> QED
    BY <1>2, <2>2, <2>3, <2>4 DEF JobRecheck, TransitionRead
<1> QED
  BY <1>1, <1>2

LEMMA OfferWriteKeeps ==
  ASSUME OneCaller, SerialInv, OrderInv', NEW c \in Caller,
         AcceptWrite(c) \/ AcceptPartWrite(c)
  PROVE  SerialInv' /\ LegalStep
<1> DEFINE o == call[c].order
<1>1. o \in Order /\ Fresh(call[c]) /\ call[c] # Idle /\ call[c].stage = "read"
      /\ status[o] \in Status /\ "AWAITING_PAYMENT" \in Status
  BY InFlight DEF AcceptWrite, AcceptPartWrite, At, Idle, SerialInv, OrderInv, TypeOK,
                  Status
<1>2. Done(c) /\ UNCHANGED <<renewals, rejections>>
  BY DEF AcceptWrite, AcceptPartWrite
<1>3. CASE UNCHANGED status
  BY <1>2, <1>3, EndKeeps
<1>4. CASE status' = [status EXCEPT ![o] = "AWAITING_PAYMENT"] /\ status' # status
  <2>1. CanMove(status[o], "AWAITING_PAYMENT")
    <3>1. CASE AcceptWrite(c)
      BY <1>1, <3>1 DEF AcceptWrite, Fresh, CanMove
    <3>2. CASE AcceptPartWrite(c)
      <4>1. call[c].op = "acceptPart" /\ call[c].seen = status[o]
        BY <1>1, <3>2 DEF AcceptPartWrite, Fresh
      <4>2. status[o] \in {"AWAITING_OFFERS", "COLLECTING_OFFERS", "AWAITING_SELECTION"}
        BY <1>4, <3>2, <4>1 DEF AcceptPartWrite
      <4> QED
        BY <1>1, <4>2, TableMoves
    <3> QED
      BY <3>1, <3>2
  <2> QED
    BY <1>1, <1>2, <1>4, <2>1, WriteKeeps DEF Done, Hold
<1> QED
  BY <1>3, <1>4 DEF AcceptWrite, AcceptPartWrite

LEMMA RenewWriteKeeps ==
  ASSUME OneCaller, SerialInv, OrderInv', NEW c \in Caller, RenewWrite(c)
  PROVE  SerialInv' /\ LegalStep
<1> DEFINE o == call[c].order
<1>1. o \in Order /\ Done(c) /\ UNCHANGED rejections
  BY InFlight DEF RenewWrite, At, SerialInv
<1>2. \A d \in Caller : Fresh(call[d])'
  <2>1. \A d \in Caller : call'[d] = Idle
    BY <1>1, OnlyCall DEF SerialInv, Done, Hold
  <2> QED
    BY <2>1 DEF Fresh
<1>3. /\ status \in [Order -> Status] /\ renewals \in [Order -> Nat]
  BY OrdersAssumption DEF SerialInv, OrderInv, TypeOK
<1>4. /\ status'[o] = "AWAITING_OFFERS" /\ renewals'[o] = renewals[o] + 1
      /\ \A p \in Order \ {o} : status'[p] = status[p] /\ renewals'[p] = renewals[p]
  BY <1>1, <1>3 DEF RenewWrite
<1>5. LegalStep
  BY <1>4 DEF LegalStep, ByPass
<1>6. SecondRejectionCancels'
  BY <1>1, <1>3, <1>4 DEF SerialInv, SecondRejectionCancels
<1> QED
  BY <1>2, <1>5, <1>6 DEF SerialInv

LEMMA TransitionWriteKeeps ==
  ASSUME OneCaller, SerialInv, OrderInv', NEW c \in Caller, TransitionWrite(c)
  PROVE  SerialInv' /\ LegalStep
<1> DEFINE r == call[c]
           o == r.order
           t == Landing(r)
<1>1. /\ o \in Order /\ Fresh(r) /\ r # Idle /\ r.stage = "read" /\ r \in Calls
      /\ status[o] \in Status /\ r.to \in Status
  BY InFlight DEF TransitionWrite, At, Idle, SerialInv, OrderInv, TypeOK
<1>2. t \in Status
  BY <1>1 DEF Landing, Status
<1>3. CanTransition(status[o], r.to)
  BY <1>1 DEF TransitionWrite, Fresh
<1>4. \/ CanMove(status[o], t)
      \/ t = "WARRANTY_ACTIVE" /\ CanTransition(status[o], "COMPLETED")
  BY <1>3 DEF Landing, CanMove
<1>5. PICK n : Hold(c, n) /\ (n = Idle \/ n.stage = "after")
  <2>1. CASE Done(c)
    BY <2>1 DEF Done, Hold
  <2>2. CASE Hold(c, [r EXCEPT !.stage = "after"])
    <3>1. [r EXCEPT !.stage = "after"].stage = "after"
      BY <1>1 DEF Calls
    <3> QED
      BY <2>2, <3>1
  <2> QED
    BY <2>1, <2>2 DEF TransitionWrite
<1>6. status' = [status EXCEPT ![o] = t] /\ UNCHANGED <<renewals, rejections>>
  BY DEF TransitionWrite
<1> HIDE DEF t
<1> QED
  BY <1>1, <1>2, <1>4, <1>5, <1>6, WriteKeeps

LEMMA WarrantyWriteKeeps ==
  ASSUME OneCaller, SerialInv, OrderInv', NEW c \in Caller, WarrantyWrite(c)
  PROVE  SerialInv' /\ LegalStep
<1> DEFINE o == call[c].order
<1>1. o \in Order /\ Fresh(call[c]) /\ call[c] # Idle /\ "WARRANTY_EXPIRED" \in Status
  BY InFlight DEF WarrantyWrite, At, Idle, SerialInv, Status
<1>2. status[o] = "WARRANTY_ACTIVE" /\ "WARRANTY_ACTIVE" \in Status
  BY <1>1 DEF WarrantyWrite, Fresh, At, Status
<1>3. CanMove(status[o], "WARRANTY_EXPIRED")
  BY <1>1, <1>2, TableMoves
<1> QED
  BY <1>1, <1>3, WriteKeeps DEF WarrantyWrite, Done, Hold

LEMMA VerifyWriteKeeps ==
  ASSUME OneCaller, SerialInv, OrderInv', NEW c \in Caller, VerifyWrite(c)
  PROVE  SerialInv' /\ LegalStep
<1> DEFINE r == call[c]
           o == r.order
<1>1. /\ o \in Order /\ Fresh(r) /\ r # Idle /\ r.stage = "read" /\ r.op \in VerifyOps
      /\ r.to \in Status
  BY InFlight DEF VerifyWrite, At, Idle, SerialInv
<1>2. CanMove(status[o], r.to)
  BY <1>1 DEF Fresh
<1>3. \/ UNCHANGED rejections
      \/ /\ rejections' = [rejections EXCEPT ![o] = @ + 1]
         /\ rejections[o] >= 1 => r.to = "CANCELLED"
  <2>1. CASE r.op = "disapprove"
    <3>1. r.count = rejections[o] /\ (r.count >= 1 => r.to = "CANCELLED")
      BY <1>1, <2>1 DEF Fresh
    <3>2. rejections' = [rejections EXCEPT ![o] = r.count + 1]
      BY <2>1 DEF VerifyWrite
    <3> QED
      BY <3>1, <3>2
  <2>2. CASE r.op # "disapprove"
    BY <2>2 DEF VerifyWrite
  <2> QED
    BY <2>1, <2>2
<1>4. /\ Done(c) /\ status' = [status EXCEPT ![o] = r.to]
      /\ UNCHANGED renewals
  BY DEF VerifyWrite
<1> QED
  BY <1>1, <1>2, <1>3, <1>4, WriteKeeps DEF Done, Hold

-----------------------------------------------------------------------------
LEMMA SerialClientStep ==
  ASSUME OneCaller, SerialInv, OrderInv', NEW c \in Client, ClientStep(c)
  PROVE  SerialInv' /\ LegalStep
<1>1. c \in Caller
  BY DEF Caller
<1>2. CASE BidStep(c)
  <2>1. CASE BidWrite(c) \/ WithdrawWrite(c) \/ RetractWrite(c) \/ AdminDeleteWrite(c)
    BY <1>1, <2>1, EndKeeps DEF BidWrite, WithdrawWrite, RetractWrite,
                               AdminDeleteWrite
  <2> QED
    BY <1>1, <1>2, <2>1, OfferReadKeeps DEF BidStep
<1>3. CASE SelectStep(c)
  <2>1. CASE OfferWriteFails(c) \/ RejectWrite(c)
    BY <1>1, <2>1, EndKeeps DEF OfferWriteFails, RejectWrite, rowVars
  <2> QED
    BY <1>1, <1>3, <2>1, OfferReadKeeps, OrderReadKeeps, OfferWriteKeeps,
       RenewWriteKeeps DEF SelectStep
<1>4. CASE ManageStep(c)
  BY <1>1, <1>4, OrdersAssumption, TransitionReadKeeps, OrderReadKeeps,
     TransitionWriteKeeps, VerifyWriteKeeps DEF ManageStep
<1> QED
  BY <1>2, <1>3, <1>4 DEF ClientStep

LEMMA SerialJobStep ==
  ASSUME OneCaller, SerialInv, OrderInv', NEW j \in Job, JobStep(j)
  PROVE  SerialInv' /\ LegalStep
<1>1. j \in Caller
  BY DEF Caller
<1>2. CASE JobAfter(j)
  BY <1>1, <1>2, EndKeeps DEF JobAfter
<1> QED
  BY <1>1, <1>2, OrderReadKeeps, TransitionReadKeeps, TransitionWriteKeeps,
     WarrantyWriteKeeps DEF JobStep

LEMMA SerialStep ==
  ASSUME OneCaller, SerialInv, [OrderStep]_orderVars
  PROVE  SerialInv' /\ [LegalStep]_orderVars
<1>1. OrderInv'
  BY OrderNextInv DEF SerialInv
<1>2. CASE UNCHANGED orderVars
  BY <1>1, <1>2 DEF orderVars, SerialInv, Fresh, SecondRejectionCancels
<1>3. CASE Tick
  <2>1. \A d \in Caller : call'[d] = Idle
    BY <1>3 DEF Tick, Free
  <2>2. \A d \in Caller : Fresh(call[d])'
    BY <2>1 DEF Fresh
  <2> QED
    BY <1>1, <1>3, <2>2 DEF Tick, SerialInv, SecondRejectionCancels,
                            LegalStep
<1>4. ASSUME NEW c \in Caller, Crash(c) PROVE SerialInv' /\ LegalStep
  BY <1>1, <1>4, EndKeeps DEF Crash
<1> QED
  BY <1>1, <1>2, <1>3, <1>4, SerialClientStep, SerialJobStep DEF OrderStep, CallStep

LEMMA SerialInvariant == ASSUME OneCaller PROVE Spec => []SerialInv
<1>1. Init => SerialInv
  BY SerialInitInv
<1>2. SerialInv /\ [OrderStep]_orderVars => SerialInv'
  BY SerialStep
<1> QED
  BY <1>1, <1>2, PTL DEF Spec

(* When requests and jobs run one at a time, whatever they are and wherever *)
(* they die: an order moves along the transition table, but for a renewal,  *)
(* a correction sent early and a completion under warranty;                 *)
THEOREM StatusAlwaysLegal ==
  ASSUME OneCaller
  PROVE  Spec => StatusChangesAreLegal
<1>1. SerialInv /\ [OrderStep]_orderVars => [LegalStep]_orderVars
  BY SerialStep
<1> QED
  BY <1>1, SerialInvariant, PTL DEF Spec, StatusChangesAreLegal, LegalStep

(* and an order whose verification was rejected twice is cancelled until   *)
(* it is renewed.                                                          *)
THEOREM SecondRejectionAlwaysCancels ==
  ASSUME OneCaller
  PROVE  Spec => []SecondRejectionCancels
<1>1. SerialInv => SecondRejectionCancels
  BY DEF SerialInv
<1> QED
  BY <1>1, SerialInvariant, PTL

-----------------------------------------------------------------------------
(***************************************************************************)
(* The money of Payments is safe for any set of orders, offers, intents    *)
(* and handlers: proofs of HeldWasCharged, BookedOnce and SuccessIsHeld,   *)
(* and of the refinement of Settlement.                                    *)
(*                                                                         *)
(* None of the three is inductive.  What they rest on is that the row, the *)
(* handlers and the events agree with Stripe on whose intent it is and for *)
(* how much, which PayInv states.                                          *)
(***************************************************************************)

(* A handler works for a real offer; past the look-up it knows the intent, *)
(* its offer and its amount.                                               *)
JobAgrees(r) ==
  r.stage # "idle" =>
    /\ r.offer \in Offer
    /\ r.stage \in {"asked", "unpaid"} => r.amount \in Price
    /\ r.stage \in {"found", "rechecked"} =>
         /\ r.intent \in Intent
         /\ <<r.kind, r.intent>> \in sent
         /\ intent[r.intent].offer = r.offer
         /\ intent[r.intent].amount = r.amount

JobsAgree == \A h \in Handler : JobAgrees(job[h])

(* A payment row names an intent of its offer, at the amount it records. *)
RowsAgree ==
  \A f \in Offer : row[f].intent # NoIntent =>
    /\ intent[row[f].intent].state # "unused"
    /\ intent[row[f].intent].offer = f
    /\ intent[row[f].intent].amount = row[f].amount

(* Stripe's own records: who an intent is for and what was said of it. *)
StripeAgrees ==
  /\ \A i \in Intent : intent[i].state # "unused" =>
       intent[i].offer \in Offer /\ intent[i].amount \in Price
  /\ \A i \in Intent : <<"succeeded", i>> \in sent => Charged(i)
  /\ \A i \in Intent, k \in Kind : <<k, i>> \in sent => intent[i].state # "unused"

PayInv ==
  /\ PayTypeOK
  /\ JobsAgree
  /\ RowsAgree
  /\ StripeAgrees
  /\ HeldWasCharged
  /\ BookedOnce
  /\ SuccessIsHeld

LEMMA PayInitInv == PayInit => PayInv
<1>1. SUFFICES ASSUME MoneyInit PROVE PayInv
  BY DEF PayInit
<1>2. PayTypeOK
  BY <1>1 DEF MoneyInit, PayTypeOK, NoRow, Unused, NoJob, RowStatus, MaxDays
<1>3. JobsAgree /\ RowsAgree /\ StripeAgrees
  BY <1>1 DEF MoneyInit, JobsAgree, JobAgrees, RowsAgree, StripeAgrees, NoRow, Unused, NoJob
<1>4. HeldWasCharged /\ BookedOnce /\ SuccessIsHeld
  BY <1>1 DEF MoneyInit, HeldWasCharged, BookedOnce, SuccessIsHeld, NoRow
<1> QED
  BY <1>2, <1>3, <1>4 DEF PayInv

-----------------------------------------------------------------------------
(* One lemma for each kind of step: it preserves PayInv.                   *)

LEMMA IdleStepInv ==
  ASSUME PayInv, UNCHANGED moneyVars
  PROVE  PayInv'
BY DEF PayInv, moneyVars, PayTypeOK, JobsAgree, JobAgrees, RowsAgree, StripeAgrees,
       HeldWasCharged, BookedOnce, SuccessIsHeld, Charged

(* A step that only moves the handler h on leaves the others in agreement. *)
LEMMA OneJobMoves ==
  ASSUME PayTypeOK, JobsAgree, NEW h \in Handler,
         job' = [job EXCEPT ![h] = job'[h]],
         UNCHANGED <<intent, sent>>,
         JobAgrees(job'[h])
  PROVE  JobsAgree'
<1> SUFFICES ASSUME NEW k \in Handler PROVE JobAgrees(job[k])'
  BY DEF JobsAgree
<1>1. CASE k = h
  BY <1>1 DEF JobAgrees
<1>2. CASE k # h
  <2>1. job'[k] = job[k] /\ JobAgrees(job[k])
    BY <1>2 DEF PayTypeOK, JobsAgree
  <2> QED
    BY <2>1 DEF JobAgrees
<1> QED
  BY <1>1, <1>2

LEMMA CheckoutReadInv ==
  ASSUME PayInv, NEW h \in Handler, NEW f \in Offer, CheckoutRead(h, f)
  PROVE  PayInv'
<1>1. PayTypeOK'
  BY PaymentsAssumption DEF PayInv, PayTypeOK, CheckoutRead
<1>2. JobsAgree'
  BY DEF PayInv, PayTypeOK, JobsAgree, JobAgrees, CheckoutRead
<1>3. (RowsAgree /\ StripeAgrees /\ HeldWasCharged /\ BookedOnce /\ SuccessIsHeld)'
  BY DEF PayInv, CheckoutRead, RowsAgree, StripeAgrees, HeldWasCharged,
         BookedOnce, SuccessIsHeld, Charged
<1> QED
  BY <1>1, <1>2, <1>3 DEF PayInv

LEMMA CheckoutCheckInv ==
  ASSUME PayInv, NEW h \in Handler, CheckoutCheck(h)
  PROVE  PayInv'
<1>1. job' = [job EXCEPT ![h] = job'[h]]
  BY DEF PayInv, PayTypeOK, CheckoutCheck, Return, Goto
<1>2. job'[h] = NoJob \/ job'[h] = [stage |-> "unpaid", kind |-> job[h].kind,
                                   offer |-> job[h].offer,
                                   intent |-> job[h].intent,
                                   amount |-> job[h].amount]
  BY DEF PayInv, PayTypeOK, CheckoutCheck, Return, Goto
<1>3. /\ PayTypeOK /\ JobsAgree
      /\ job[h].stage = "asked"
      /\ UNCHANGED <<price, row, intent, sent, acked, held, pending,
                     invoices>>
  BY DEF PayInv, CheckoutCheck, Doing
<1>4. PayTypeOK'
  BY <1>1, <1>2, <1>3 DEF PayTypeOK, NoJob
<1>5. JobsAgree'
  <2>1. JobAgrees(job[h])
    BY <1>3 DEF JobsAgree
  <2>2. JobAgrees(job'[h])
    BY <1>2, <1>3, <2>1 DEF JobAgrees, NoJob
  <2> QED
    BY <1>1, <1>3, <2>2, OneJobMoves
<1>6. (RowsAgree /\ StripeAgrees /\ HeldWasCharged /\ BookedOnce /\ SuccessIsHeld)'
  BY <1>3 DEF PayInv, RowsAgree, StripeAgrees, HeldWasCharged,
              BookedOnce, SuccessIsHeld, Charged
<1> QED
  BY <1>4, <1>5, <1>6 DEF PayInv

LEMMA CheckoutRecordInv ==
  ASSUME PayInv, NEW h \in Handler, NEW i \in Intent, CheckoutRecord(h, i)
  PROVE  PayInv'
<1> DEFINE f == job[h].offer
<1>1. f \in Offer /\ job[h].amount \in Price /\ job[h].amount \in Nat
  BY PaymentsAssumption DEF PayInv, JobsAgree, JobAgrees, CheckoutRecord, Doing
<1>2. PayTypeOK'
  BY <1>1 DEF PayInv, PayTypeOK, CheckoutRecord, Return, NoJob, RowStatus
<1>3. \A k \in Kind : <<k, i>> \notin sent
  BY DEF PayInv, StripeAgrees, CheckoutRecord, Unused
<1>4. JobsAgree'
  BY <1>3 DEF PayInv, PayTypeOK, JobsAgree, JobAgrees, CheckoutRecord, Return, NoJob
<1>5. RowsAgree'
  <2> SUFFICES ASSUME NEW g \in Offer, row'[g].intent # NoIntent
               PROVE  /\ intent'[row'[g].intent].state # "unused"
                      /\ intent'[row'[g].intent].offer = g
                      /\ intent'[row'[g].intent].amount = row'[g].amount
    BY DEF RowsAgree
  <2>1. CASE g = f
    BY <1>1, <2>1 DEF PayInv, PayTypeOK, CheckoutRecord
  <2>2. CASE g # f
    <3>1. row'[g] = row[g] /\ row[g].intent # i
      BY <2>2 DEF PayInv, PayTypeOK, RowsAgree, CheckoutRecord, Unused
    <3> QED
      BY <3>1 DEF PayInv, PayTypeOK, RowsAgree, CheckoutRecord
  <2> QED
    BY <2>1, <2>2
<1>6. StripeAgrees'
  BY <1>1, <1>3 DEF PayInv, PayTypeOK, StripeAgrees, CheckoutRecord, Charged, Kind
<1>7. HeldWasCharged'
  BY DEF PayInv, PayTypeOK, HeldWasCharged, CheckoutRecord, Charged, Unused
<1>8. BookedOnce' /\ SuccessIsHeld'
  BY DEF PayInv, PayTypeOK, BookedOnce, SuccessIsHeld, CheckoutRecord
<1> QED
  BY <1>2, <1>4, <1>5, <1>6, <1>7, <1>8 DEF PayInv

LEMMA CaptureInv ==
  ASSUME PayInv, NEW i \in Intent, Capture(i)
  PROVE  PayInv'
<1>1. PayTypeOK'
  BY DEF PayInv, PayTypeOK, Capture, Kind
<1>2. JobsAgree' /\ RowsAgree'
  BY DEF PayInv, PayTypeOK, JobsAgree, JobAgrees, RowsAgree, Capture
<1>3. StripeAgrees'
  BY DEF PayInv, PayTypeOK, StripeAgrees, Capture, Charged
<1>4. HeldWasCharged' /\ BookedOnce' /\ SuccessIsHeld'
  BY DEF PayInv, PayTypeOK, HeldWasCharged, BookedOnce, SuccessIsHeld, Capture,
         Charged
<1> QED
  BY <1>1, <1>2, <1>3, <1>4 DEF PayInv

LEMMA DeclineInv ==
  ASSUME PayInv, NEW i \in Intent, Decline(i)
  PROVE  PayInv'
<1>1. PayTypeOK'
  BY DEF PayInv, PayTypeOK, Decline, Kind
<1>2. JobsAgree' /\ RowsAgree' /\ StripeAgrees'
  BY DEF PayInv, PayTypeOK, JobsAgree, JobAgrees, RowsAgree, StripeAgrees, Decline, Charged
<1>3. HeldWasCharged' /\ BookedOnce' /\ SuccessIsHeld'
  BY DEF PayInv, HeldWasCharged, BookedOnce, SuccessIsHeld, Decline, Charged
<1> QED
  BY <1>1, <1>2, <1>3 DEF PayInv

LEMMA RefundInv ==
  ASSUME PayInv, NEW i \in Intent, Refund(i)
  PROVE  PayInv'
<1>1. PayTypeOK'
  <2>1. /\ sent' \subseteq Kind \X Intent
        /\ acked' \subseteq sent'
    BY DEF PayInv, PayTypeOK, Refund, Kind
  <2>2. intent' \in [Intent -> [state : {"unused", "open", "captured", "refunded"},
                               offer : Offer \cup {NoOffer}, amount : Nat]]
    <3>1. /\ intent' = [intent EXCEPT ![i] = [intent[i] EXCEPT !.state = "refunded"]]
          /\ intent[i] \in [state : {"unused", "open", "captured", "refunded"},
                            offer : Offer \cup {NoOffer}, amount : Nat]
      BY DEF PayInv, PayTypeOK, Refund
    <3>2. [intent[i] EXCEPT !.state = "refunded"]
            \in [state : {"unused", "open", "captured", "refunded"},
                 offer : Offer \cup {NoOffer}, amount : Nat]
      BY <3>1
    <3> QED
      BY <3>1, <3>2 DEF PayInv, PayTypeOK
  <2>3. PayTypeOK /\ UNCHANGED <<price, row, held, pending, invoices, job>>
    BY DEF PayInv, Refund
  <2> QED
    BY <2>1, <2>2, <2>3 DEF PayTypeOK
<1>2. JobsAgree' /\ RowsAgree'
  BY DEF PayInv, PayTypeOK, JobsAgree, JobAgrees, RowsAgree, Refund
<1>3. StripeAgrees'
  BY DEF PayInv, PayTypeOK, StripeAgrees, Refund, Charged
<1>4. HeldWasCharged' /\ BookedOnce' /\ SuccessIsHeld'
  BY DEF PayInv, PayTypeOK, HeldWasCharged, BookedOnce, SuccessIsHeld, Refund,
         Charged
<1> QED
  BY <1>1, <1>2, <1>3, <1>4 DEF PayInv

LEMMA DeliverInv ==
  ASSUME PayInv, NEW h \in Handler, NEW kind \in Kind, NEW i \in Intent,
         Deliver(h, kind, i)
  PROVE  PayInv'
<1>1. /\ PayTypeOK /\ JobsAgree /\ RowsAgree /\ NoIntent \notin Intent
      /\ UNCHANGED <<price, row, intent, sent, held, pending, invoices>>
      /\ acked' \subseteq sent
  BY PaymentsAssumption DEF PayInv, PayTypeOK, Deliver
<1>2. (RowsAgree /\ StripeAgrees /\ HeldWasCharged /\ BookedOnce /\ SuccessIsHeld)'
  BY <1>1 DEF PayInv, RowsAgree, StripeAgrees, HeldWasCharged, BookedOnce,
              SuccessIsHeld, Charged
<1>3. CASE UNCHANGED job
  BY <1>1, <1>2, <1>3 DEF PayInv, PayTypeOK, JobsAgree, JobAgrees
<1>4. CASE ~UNCHANGED job
  <2>1. PICK f \in Offer :
          /\ row[f].intent = i
          /\ job' = [job EXCEPT ![h] = [stage |-> "found", kind |-> kind,
                                        offer |-> f, intent |-> i,
                                        amount |-> row[f].amount]]
    BY <1>4 DEF Deliver
  <2>2. row[f].amount \in Nat
    BY <1>1 DEF PayTypeOK
  <2>3. PayTypeOK'
    BY <1>1, <2>1, <2>2 DEF PayTypeOK, Kind
  <2>4. job'[h] = [stage |-> "found", kind |-> kind, offer |-> f, intent |-> i,
                   amount |-> row[f].amount]
    BY <1>1, <2>1 DEF PayTypeOK
  <2>5. JobAgrees(job'[h])
    BY <1>1, <2>1, <2>4 DEF JobAgrees, RowsAgree, Deliver
  <2>6. job' = [job EXCEPT ![h] = job'[h]]
    BY <2>1, <2>4
  <2>7. JobsAgree'
    BY <1>1, <2>5, <2>6, OneJobMoves
  <2> QED
    BY <1>2, <2>3, <2>7 DEF PayInv
<1> QED
  BY <1>3, <1>4

LEMMA FulfilRecheckInv ==
  ASSUME PayInv, NEW h \in Handler, FulfilRecheck(h)
  PROVE  PayInv'
<1>1. /\ PayTypeOK /\ JobsAgree /\ job[h].stage = "found"
      /\ job[h].kind = "succeeded"
      /\ UNCHANGED <<price, row, intent, sent, held, pending, invoices>>
  BY DEF PayInv, FulfilRecheck, Doing
<1>2. JobAgrees(job[h])
  BY <1>1 DEF JobsAgree
<1>3. acked' \subseteq sent
  <2>1. <<"succeeded", job[h].intent>> \in sent
    BY <1>1, <1>2 DEF JobAgrees
  <2>2. acked' = acked \/ acked' = acked \cup {<<"succeeded", job[h].intent>>}
    BY DEF FulfilRecheck, Answer
  <2> QED
    BY <1>1, <2>1, <2>2 DEF PayTypeOK
<1>4. (RowsAgree /\ StripeAgrees /\ HeldWasCharged /\ BookedOnce /\ SuccessIsHeld)'
  BY <1>1 DEF PayInv, RowsAgree, StripeAgrees, HeldWasCharged, BookedOnce,
              SuccessIsHeld, Charged
<1>5. job' = [job EXCEPT ![h] = job'[h]]
  BY <1>1 DEF PayTypeOK, FulfilRecheck, Return, Goto
<1>6. job'[h] = NoJob \/ job'[h] = [stage |-> "rechecked", kind |-> job[h].kind,
                                   offer |-> job[h].offer,
                                   intent |-> job[h].intent,
                                   amount |-> job[h].amount]
  BY <1>1 DEF PayTypeOK, FulfilRecheck, Return, Goto
<1>7. PayTypeOK'
  <2>1. job' \in [Handler -> [stage : {"idle", "asked", "unpaid", "found", "rechecked"},
                             kind : Kind \cup {"none", "checkout"},
                             offer : Offer \cup {NoOffer},
                             intent : Intent \cup {NoIntent}, amount : Nat]]
    BY <1>1, <1>5, <1>6 DEF PayTypeOK, NoJob
  <2> QED
    BY <1>1, <1>3, <2>1 DEF PayTypeOK
<1>8. JobAgrees(job'[h])
  BY <1>1, <1>2, <1>6 DEF JobAgrees, NoJob
<1>9. JobsAgree'
  BY <1>1, <1>5, <1>8, OneJobMoves
<1> QED
  BY <1>4, <1>7, <1>9 DEF PayInv

(* The commit: what the handler read is what was charged, and the empty    *)
(* escrow of the order is what keeps the booking from being repeated.      *)
LEMMA FulfilCommitInv ==
  ASSUME PayInv, NEW h \in Handler, FulfilCommit(h)
  PROVE  PayInv'
<1> DEFINE f == job[h].offer
           i == job[h].intent
<1>1. /\ PayTypeOK /\ JobsAgree /\ RowsAgree /\ StripeAgrees
      /\ HeldWasCharged /\ BookedOnce /\ SuccessIsHeld
      /\ job[h].stage = "rechecked" /\ job[h].kind = "succeeded"
      /\ UNCHANGED <<price, intent, sent>>
  BY DEF PayInv, FulfilCommit, Doing
<1>2. JobAgrees(job[h])
  BY <1>1 DEF JobsAgree
<1>3. /\ f \in Offer /\ i \in Intent
      /\ <<"succeeded", i>> \in sent
      /\ intent[i].offer = f /\ intent[i].amount = job[h].amount
  BY <1>1, <1>2 DEF JobAgrees
<1>4. Charged(i) /\ job[h].amount \in Price
  BY <1>1, <1>3 DEF StripeAgrees, Charged
<1>5. job[h].amount \in Nat /\ job[h].amount # 0
  BY <1>4, PaymentsAssumption
<1>6. held[f] = 0 /\ pending[f] = 0 /\ invoices[f] = 0
  <2>1. f \in OffersOf(OrderOf[f])
    BY <1>3 DEF OffersOf
  <2> QED
    BY <1>1, <1>3, <2>1 DEF FulfilCommit, EscrowTaken, BookedOnce
<1>7. /\ held' = [held EXCEPT ![f] = job[h].amount]
      /\ pending' = [pending EXCEPT ![f] = job[h].amount]
      /\ invoices' = [invoices EXCEPT ![f] = 1]
  <2>1. pending[f] + job[h].amount = job[h].amount /\ invoices[f] + 1 = 1
    BY <1>5, <1>6
  <2>2. /\ held' = [held EXCEPT ![f] = job[h].amount]
        /\ pending' = [pending EXCEPT ![f] = pending[f] + job[h].amount]
        /\ invoices' = [invoices EXCEPT ![f] = invoices[f] + 1]
    BY DEF FulfilCommit, MerchantAmount
  <2> QED
    BY <2>1, <2>2
<1>8. /\ row' \in [Offer -> [status : RowStatus, intent : Intent \cup {NoIntent},
                             amount : Nat]]
      /\ \A g \in Offer : /\ row'[g].intent = row[g].intent
                          /\ row'[g].amount = row[g].amount
                          /\ g # f => row'[g] = row[g]
  BY <1>1, <1>3 DEF FulfilCommit, PayTypeOK, RowStatus
<1>9. job' = [job EXCEPT ![h] = NoJob] /\ acked' = acked \cup {<<"succeeded", i>>}
  BY DEF FulfilCommit, Return, Answer
<1>10. PayTypeOK'
  <2>1. /\ held' \in [Offer -> Nat] /\ pending' \in [Offer -> Nat]
        /\ invoices' \in [Offer -> Nat]
    BY <1>1, <1>5, <1>7 DEF PayTypeOK
  <2> QED
    BY <1>1, <1>3, <1>8, <1>9, <2>1 DEF PayTypeOK, NoJob
<1>11. JobsAgree'
  <2>1. job'[h] = NoJob
    BY <1>1, <1>9 DEF PayTypeOK
  <2>2. JobAgrees(job'[h])
    BY <2>1 DEF JobAgrees, NoJob
  <2>3. job' = [job EXCEPT ![h] = job'[h]]
    BY <1>9, <2>1
  <2> QED
    BY <1>1, <2>2, <2>3, OneJobMoves
<1>12. RowsAgree' /\ StripeAgrees'
  BY <1>1, <1>8 DEF RowsAgree, StripeAgrees, Charged
<1>13. HeldWasCharged'
  <2> SUFFICES ASSUME NEW g \in Offer, held'[g] # 0
               PROVE  \E k \in Intent : Charged(k)' /\ intent'[k].offer = g
                                        /\ intent'[k].amount = held'[g]
    BY DEF HeldWasCharged
  <2>1. CASE g = f
    BY <1>1, <1>3, <1>4, <1>7, <2>1 DEF PayTypeOK, Charged
  <2>2. CASE g # f
    <3>1. held'[g] = held[g]
      BY <1>1, <1>7, <2>2 DEF PayTypeOK
    <3> QED
      BY <1>1, <3>1 DEF HeldWasCharged, Charged
  <2> QED
    BY <2>1, <2>2
<1>14. BookedOnce'
  BY <1>1, <1>3, <1>5, <1>7 DEF BookedOnce, PayTypeOK
<1>15. SuccessIsHeld'
  BY <1>1, <1>3, <1>5, <1>7, <1>8 DEF SuccessIsHeld, PayTypeOK
<1> QED
  BY <1>10, <1>11, <1>12, <1>13, <1>14, <1>15 DEF PayInv

(* A step of h that ends its work and touches no other state but acked. *)
LEMMA ReturnInv ==
  ASSUME PayInv, NEW h \in Handler, Return(h),
         UNCHANGED <<price, row, intent, sent, acked, held, pending,
                     invoices>>
  PROVE  PayInv'
<1>1. PayTypeOK /\ JobsAgree
  BY DEF PayInv
<1>2. job'[h] = NoJob /\ job' = [job EXCEPT ![h] = job'[h]]
  BY <1>1 DEF PayTypeOK, Return
<1>3. JobAgrees(job'[h])
  BY <1>2 DEF JobAgrees, NoJob
<1>4. JobsAgree'
  BY <1>1, <1>2, <1>3, OneJobMoves
<1>5. PayTypeOK'
  BY <1>1 DEF PayTypeOK, Return, NoJob
<1>6. (RowsAgree /\ StripeAgrees /\ HeldWasCharged /\ BookedOnce /\ SuccessIsHeld)'
  BY DEF PayInv, RowsAgree, StripeAgrees, HeldWasCharged, BookedOnce,
         SuccessIsHeld, Charged
<1> QED
  BY <1>4, <1>5, <1>6 DEF PayInv

LEMMA OverwriteInv ==
  ASSUME PayInv, NEW h \in Handler, NEW kind \in Kind,
         NEW s \in {"FAILED", "REFUNDED"}, Overwrite(h, kind, s)
  PROVE  PayInv'
<1> DEFINE f == job[h].offer
<1>1. /\ PayTypeOK /\ JobsAgree /\ RowsAgree /\ StripeAgrees
      /\ HeldWasCharged /\ BookedOnce /\ SuccessIsHeld
      /\ job[h].stage = "found" /\ job[h].kind = kind
      /\ UNCHANGED <<price, intent, sent, held, pending, invoices>>
  BY DEF PayInv, Overwrite, Doing
<1>2. JobAgrees(job[h])
  BY <1>1 DEF JobsAgree
<1>3. f \in Offer /\ <<kind, job[h].intent>> \in sent
  BY <1>1, <1>2 DEF JobAgrees
<1>4. /\ row' \in [Offer -> [status : RowStatus, intent : Intent \cup {NoIntent},
                             amount : Nat]]
      /\ \A g \in Offer : /\ row'[g].intent = row[g].intent
                          /\ row'[g].amount = row[g].amount
                          /\ row'[g].status = "SUCCESS" => row[g].status = "SUCCESS"
  BY <1>1, <1>3 DEF Overwrite, PayTypeOK, RowStatus
<1>5. job' = [job EXCEPT ![h] = NoJob] /\ acked' = acked \cup {<<kind, job[h].intent>>}
  BY DEF Overwrite, Return, Answer
<1>6. PayTypeOK'
  BY <1>1, <1>3, <1>4, <1>5 DEF PayTypeOK, NoJob
<1>7. job'[h] = NoJob /\ job' = [job EXCEPT ![h] = job'[h]]
  BY <1>1, <1>5 DEF PayTypeOK
<1>8. JobAgrees(job'[h])
  BY <1>7 DEF JobAgrees, NoJob
<1>9. JobsAgree'
  BY <1>1, <1>7, <1>8, OneJobMoves
<1>10. (RowsAgree /\ StripeAgrees /\ HeldWasCharged /\ BookedOnce /\ SuccessIsHeld)'
  BY <1>1, <1>4 DEF RowsAgree, StripeAgrees, HeldWasCharged, BookedOnce,
                    SuccessIsHeld, Charged
<1> QED
  BY <1>6, <1>9, <1>10 DEF PayInv

LEMMA RepriceInv ==
  ASSUME PayInv, NEW f \in Offer, NEW p \in Price, Reprice(f, p)
  PROVE  PayInv'
<1>1. PayTypeOK'
  BY DEF PayInv, PayTypeOK, Reprice
<1>2. (JobsAgree /\ RowsAgree /\ StripeAgrees /\ HeldWasCharged /\ BookedOnce
       /\ SuccessIsHeld)'
  BY DEF PayInv, Reprice, JobsAgree, JobAgrees, RowsAgree, StripeAgrees,
         HeldWasCharged, BookedOnce, SuccessIsHeld, Charged
<1> QED
  BY <1>1, <1>2 DEF PayInv

LEMMA DayEndsInv ==
  ASSUME PayInv, DayEnds
  PROVE  PayInv'
<1>1. PayTypeOK'
  BY DEF PayInv, PayTypeOK, DayEnds, moneyVars
<1>2. (JobsAgree /\ RowsAgree /\ StripeAgrees /\ HeldWasCharged /\ BookedOnce
       /\ SuccessIsHeld)'
  BY DEF PayInv, DayEnds, moneyVars, JobsAgree, JobAgrees, RowsAgree, StripeAgrees,
         HeldWasCharged, BookedOnce, SuccessIsHeld, Charged
<1> QED
  BY <1>1, <1>2 DEF PayInv

-----------------------------------------------------------------------------
LEMMA MoneyStepInv ==
  ASSUME PayInv, MoneyStep
  PROVE  PayInv'
<1>1. ASSUME NEW h \in Handler, CheckoutStep(h) PROVE PayInv'
  BY <1>1, CheckoutReadInv, CheckoutCheckInv, CheckoutRecordInv DEF CheckoutStep
<1>2. ASSUME NEW h \in Handler, WebhookStep(h) PROVE PayInv'
  <2>1. CASE FulfilRecheck(h)
    BY <2>1, FulfilRecheckInv
  <2>2. CASE FulfilAbort(h)
    BY <2>2, ReturnInv DEF FulfilAbort
  <2>3. CASE FailureWrite(h)
    BY <2>3, OverwriteInv DEF FailureWrite, Kind
  <2>4. CASE RefundWrite(h)
    BY <2>4, OverwriteInv DEF RefundWrite, Kind
  <2> QED
    BY <1>2, <2>1, <2>2, <2>3, <2>4 DEF WebhookStep
<1>3. ASSUME NEW h \in Handler, HandlerCrash(h) PROVE PayInv'
  BY <1>3, ReturnInv DEF HandlerCrash
<1>4. CASE StripeStep
  BY <1>4, CaptureInv, DeclineInv, RefundInv DEF StripeStep
<1> QED
  BY <1>1, <1>2, <1>3, <1>4, DeliverInv, RepriceInv DEF MoneyStep

LEMMA PayNextInv == PayInv /\ [PayNext]_payVars => PayInv'
<1> SUFFICES ASSUME PayInv, [PayNext]_payVars PROVE PayInv'
  OBVIOUS
<1>1. CASE UNCHANGED moneyVars
  BY <1>1, IdleStepInv
<1>2. CASE MoneyStep
  BY <1>2, MoneyStepInv
<1>3. CASE \E h \in Handler : FulfilCommit(h)
  BY <1>3, FulfilCommitInv
<1>4. CASE DayEnds
  BY <1>4, DayEndsInv
<1> QED
  BY <1>1, <1>2, <1>3, <1>4 DEF PayNext, payVars

LEMMA PayInvariant == PaySpec => []PayInv
<1> QED
  BY PayInitInv, PayNextInv, PTL DEF PaySpec

(* Every variable of the money side keeps its type, for any constants. *)
THEOREM PayTypeCorrect == PaySpec => []PayTypeOK
<1>1. PayInv => PayTypeOK
  BY DEF PayInv
<1> QED
  BY <1>1, PayInvariant, PTL

(* Escrow only ever holds what the customer was charged for that offer. *)
THEOREM EscrowWasCharged == PaySpec => []HeldWasCharged
<1>1. PayInv => HeldWasCharged
  BY DEF PayInv
<1> QED
  BY <1>1, PayInvariant, PTL

(* However webhooks repeat and race, a payment is booked at most once. *)
THEOREM PaymentBookedOnce == PaySpec => []BookedOnce
<1>1. PayInv => BookedOnce
  BY DEF PayInv
<1> QED
  BY <1>1, PayInvariant, PTL

(* A payment shown as successful has its money in escrow. *)
THEOREM SuccessHasEscrow == PaySpec => []SuccessIsHeld
<1>1. PayInv => SuccessIsHeld
  BY DEF PayInv
<1> QED
  BY <1>1, PayInvariant, PTL

-----------------------------------------------------------------------------
(* Payments implements Settlement: a capture is a charge, a commit puts it *)
(* in escrow, and every other step leaves charges and escrow alone.        *)

LEMMA InitKeepsThePromise == PayInit => Promise!SInit
BY DEF PayInit, MoneyInit, Promise!SInit, ChargeOf, Charged, Unused, Promise!NoCharge

LEMMA CaptureCharges ==
  ASSUME PayInv, NEW i \in Intent, Capture(i)
  PROVE  Promise!Charge(i, intent[i].offer, intent[i].amount)
         /\ intent[i].offer \in Offer /\ intent[i].amount \in Price
<1>1. PayTypeOK /\ StripeAgrees /\ intent[i].state = "open"
  BY DEF PayInv, Capture
<1>2. intent[i].offer \in Offer /\ intent[i].amount \in Price
  BY <1>1 DEF StripeAgrees
<1>3. ChargeOf[i] = Promise!NoCharge
  BY <1>1 DEF ChargeOf, Charged, Promise!NoCharge
<1>4. \A k \in Intent : /\ k # i => intent'[k] = intent[k]
                        /\ intent'[i].state = "captured"
                        /\ intent'[i].offer = intent[i].offer
                        /\ intent'[i].amount = intent[i].amount
  BY <1>1 DEF Capture, PayTypeOK
<1>5. ChargeOf' = [ChargeOf EXCEPT ![i] = [offer |-> intent[i].offer,
                                          amount |-> intent[i].amount]]
  BY <1>4 DEF ChargeOf, Charged
<1> QED
  BY <1>2, <1>3, <1>5 DEF Promise!Charge, Capture

LEMMA CommitHolds ==
  ASSUME PayInv, NEW h \in Handler, FulfilCommit(h)
  PROVE  \E i \in Intent, f \in Offer : Promise!HoldFor(i, f)
<1> DEFINE f == job[h].offer
           i == job[h].intent
<1>1. /\ PayTypeOK /\ JobsAgree /\ StripeAgrees /\ BookedOnce
      /\ job[h].stage = "rechecked" /\ job[h].kind = "succeeded"
      /\ UNCHANGED intent
  BY DEF PayInv, FulfilCommit, Doing
<1>2. JobAgrees(job[h])
  BY <1>1 DEF JobsAgree
<1>3. /\ f \in Offer /\ i \in Intent
      /\ <<"succeeded", i>> \in sent
      /\ intent[i].offer = f /\ intent[i].amount = job[h].amount
  BY <1>1, <1>2 DEF JobAgrees
<1>4. Charged(i) /\ job[h].amount \in Price
  BY <1>1, <1>3 DEF StripeAgrees, Charged
<1>5. job[h].amount \in Nat /\ job[h].amount # 0
  BY <1>4, PaymentsAssumption
<1>6. ChargeOf[i] = [offer |-> f, amount |-> job[h].amount]
  BY <1>3, <1>4 DEF ChargeOf
<1>7. ChargeOf[i] # Promise!NoCharge /\ ChargeOf[i].offer = f
      /\ ChargeOf[i].amount = job[h].amount
  BY <1>5, <1>6 DEF Promise!NoCharge
<1>8. f \in OffersOf(OrderOf[f])
  BY <1>3 DEF OffersOf
<1>9. held[f] = 0 /\ pending[f] = 0
  BY <1>1, <1>3, <1>8 DEF FulfilCommit, EscrowTaken, BookedOnce
<1>10. pending[f] + job[h].amount = job[h].amount
  BY <1>5, <1>9
<1>11. /\ held' = [held EXCEPT ![f] = job[h].amount]
       /\ pending' = [pending EXCEPT ![f] = pending[f] + job[h].amount]
  BY DEF FulfilCommit, MerchantAmount
<1>12. UNCHANGED ChargeOf
  BY <1>1 DEF ChargeOf, Charged
<1>13. Promise!HoldFor(i, f)
  BY <1>7, <1>9, <1>10, <1>11, <1>12 DEF Promise!HoldFor
<1> QED
  BY <1>3, <1>13

(* A new intent is not charged yet; a refund does not undo the charge. *)
LEMMA CheckoutRecordStutters ==
  ASSUME PayInv, NEW h \in Handler, NEW i \in Intent, CheckoutRecord(h, i)
  PROVE  UNCHANGED <<ChargeOf, held, pending>>
<1>1. \A k \in Intent : k # i => intent'[k] = intent[k]
  BY DEF PayInv, PayTypeOK, CheckoutRecord
<1>2. intent[i].state = "unused" /\ intent'[i].state = "open"
  BY DEF PayInv, PayTypeOK, CheckoutRecord, Unused
<1> QED
  BY <1>1, <1>2 DEF ChargeOf, Charged, CheckoutRecord

LEMMA RefundStutters ==
  ASSUME PayInv, NEW i \in Intent, Refund(i)
  PROVE  UNCHANGED <<ChargeOf, held, pending>>
<1>1. \A k \in Intent : /\ k # i => intent'[k] = intent[k]
                        /\ intent'[i].state = "refunded"
                        /\ intent'[i].offer = intent[i].offer
                        /\ intent'[i].amount = intent[i].amount
  BY DEF PayInv, PayTypeOK, Refund
<1>2. intent[i].state = "captured"
  BY DEF Refund
<1> QED
  BY <1>1, <1>2 DEF ChargeOf, Charged, Refund

LEMMA StepKeepsThePromise ==
  ASSUME PayInv, [PayNext]_payVars
  PROVE  [Promise!SNext]_Promise!settlementVars
<1> USE DEF Promise!settlementVars
<1>1. ASSUME UNCHANGED <<intent, held, pending>>
      PROVE  UNCHANGED <<ChargeOf, held, pending>>
  BY <1>1 DEF ChargeOf, Charged
<1>2. CASE UNCHANGED moneyVars \/ DayEnds
  BY <1>1, <1>2 DEF moneyVars, DayEnds
<1>3. CASE \E h \in Handler : FulfilCommit(h)
  BY <1>3, CommitHolds DEF Promise!SNext
<1>4. CASE StripeStep
  <2>1. ASSUME NEW i \in Intent, Capture(i) PROVE Promise!SNext
    BY <2>1, CaptureCharges DEF Promise!SNext
  <2>2. ASSUME NEW i \in Intent, Decline(i) PROVE UNCHANGED <<ChargeOf, held, pending>>
    BY <1>1, <2>2 DEF Decline
  <2> QED
    BY <1>4, <2>1, <2>2, RefundStutters DEF StripeStep
<1>5. ASSUME NEW h \in Handler, CheckoutStep(h)
      PROVE  UNCHANGED <<ChargeOf, held, pending>>
  BY <1>1, <1>5, CheckoutRecordStutters DEF CheckoutStep, CheckoutRead, CheckoutCheck
<1>6. ASSUME NEW h \in Handler,
             WebhookStep(h) \/ HandlerCrash(h)
               \/ \E kind \in Kind, i \in Intent : Deliver(h, kind, i)
      PROVE  UNCHANGED <<ChargeOf, held, pending>>
  BY <1>1, <1>6 DEF WebhookStep, FulfilRecheck, FulfilAbort, FailureWrite,
                    RefundWrite, Overwrite, HandlerCrash, Deliver
<1>7. ASSUME NEW f \in Offer, NEW p \in Price, Reprice(f, p)
      PROVE  UNCHANGED <<ChargeOf, held, pending>>
  BY <1>1, <1>7 DEF Reprice
<1>8. CASE MoneyStep
  BY <1>4, <1>5, <1>6, <1>7, <1>8 DEF MoneyStep
<1> QED
  BY <1>2, <1>3, <1>8 DEF PayNext, payVars

(* The webhooks, rows and handlers implement the promise: money goes into  *)
(* escrow once per offer, at the amount of a charge for it.                *)
THEOREM PaymentsKeepThePromise == PaySpec => KeepsThePromise
<1> QED
  BY PayInvariant, InitKeepsThePromise, StepKeepsThePromise, PTL
     DEF PaySpec, KeepsThePromise, Promise!SettlementSpec
=============================================================================
