--------------------------- MODULE Returns_proofs ---------------------------
(***************************************************************************)
(* For any orders, cases, requests, verdicts and runs of the job: Returns  *)
(* is type correct; shipping that the last verdict made due is not PAID    *)
(* before it was taken; and no step but a transition asked for at its      *)
(* endpoint strands an order in a phase of the resolution center.          *)
(*                                                                         *)
(* Both are facts of one step once the types are known: a write overwrites *)
(* a case, but it writes the order of that case in the same transaction,   *)
(* and a verdict that asks for the shipping again undoes the mark.         *)
(***************************************************************************)
EXTENDS Returns, TLAPS

OrdersOK ==
  /\ status \in [Order -> Status]
  /\ age \in [Order -> 0..Window]
  /\ escrow \in [Order -> {"HELD", "RELEASED", "REFUNDED"}]
  /\ parcel \in [Order -> {"outbound", "RETURN_LABEL_ISSUED", "RETURN_STARTED"}]

CasesOK ==
  /\ case \in [Case -> CaseStatus]
  /\ waited \in [Case -> 0..Window]
  /\ handover \in [Case -> {Unset} \cup 0..Handover]
  /\ verdicts \in Nat
  /\ locked \subseteq Case

DebtsOK ==
  /\ owes \subseteq Case
  /\ payee \in [Case -> Payer \cup {"none"}]
  /\ shipping \in [Case -> {"PENDING", "PAID", "INSUFFICIENT_FUNDS"}]
  /\ paying \subseteq Case
  /\ taken \in [Case -> Nat]
  /\ asked \subseteq Case
  /\ wallet \in [Payer -> Int]

CallsOK == call \in [Caller -> {Idle} \cup Calls]

LEMMA Parts == ReturnTypeOK <=> OrdersOK /\ CasesOK /\ DebtsOK /\ CallsOK
BY DEF ReturnTypeOK, OrdersOK, CasesOK, DebtsOK, CallsOK

LEMMA PartsMake == OrdersOK' /\ CasesOK' /\ DebtsOK' /\ CallsOK' => ReturnTypeOK'
BY DEF ReturnTypeOK, OrdersOK, CasesOK, DebtsOK, CallsOK

(* The part of a state that a step leaves alone keeps its type. *)
LEMMA OrdersStay == ReturnTypeOK /\ UNCHANGED orderVars => OrdersOK'
BY DEF ReturnTypeOK, OrdersOK, orderVars

LEMMA CasesStay == ReturnTypeOK /\ UNCHANGED caseVars => CasesOK'
BY DEF ReturnTypeOK, CasesOK, caseVars

LEMMA DebtsStay == ReturnTypeOK /\ UNCHANGED debtVars => DebtsOK'
BY DEF ReturnTypeOK, DebtsOK, debtVars

LEMMA CallMoves ==
  ASSUME ReturnTypeOK, NEW c \in Caller, NEW r \in {Idle} \cup Calls, Hold(c, r)
  PROVE  CallsOK'
BY DEF ReturnTypeOK, CallsOK, Hold

LEMMA CallEnds ==
  ASSUME ReturnTypeOK, NEW c \in Caller, Done(c)
  PROVE  CallsOK'
BY DEF ReturnTypeOK, CallsOK, Done

LEMMA BeganType ==
  ASSUME NEW op \in OpNames, NEW k \in Case
  PROVE  Began(op, k) \in Calls
BY DEF Began, Calls, NoRuling, Ruling, Payer

LEMMA ReadsKeep ==
  ASSUME ReturnTypeOK, NEW c \in Caller, NEW r \in {Idle} \cup Calls, Hold(c, r),
         UNCHANGED <<orderVars, caseVars, debtVars>>
  PROVE  ReturnTypeOK'
BY OrdersStay, CasesStay, DebtsStay, CallMoves, PartsMake

LEMMA ReadCall ==
  ASSUME ReturnTypeOK, NEW c \in Caller, call[c].stage = "read"
  PROVE  /\ call[c].case \in Case
         /\ call[c].ruling \in Ruling
         /\ call[c].held \in BOOLEAN
         /\ call[c].poor \in BOOLEAN
         /\ call[c].payer \in Payer
BY DEF ReturnTypeOK, Calls, Idle

LEMMA StatusNames ==
  {"RETURN_REQUESTED", "RETURN_APPROVED", "DISPUTED", "COMPLETED", "REFUNDED"}
    \subseteq Status
BY DEF Status

-----------------------------------------------------------------------------
LEMMA OpenSteps ==
  ASSUME ReturnTypeOK, NEW c \in Caller,
         \/ \E k \in Case : ReturnRead(c, k) \/ DisputeRead(c, k)
         \/ ReturnWrite(c) \/ DisputeWrite(c) \/ WarrantyClaimFails(c)
  PROVE  ReturnTypeOK'
<1> USE ReturnsAssumption
<1>1. ASSUME NEW k \in Case, ReturnRead(c, k) \/ DisputeRead(c, k)
      PROVE  ReturnTypeOK'
  BY <1>1, BeganType, ReadsKeep DEF ReturnRead, DisputeRead, OpNames
<1>2. ASSUME NEW op, NEW first \in CaseStatus, NEW phase \in Status,
             OpenCase(c, op, first, phase)
      PROVE  ReturnTypeOK'
  <2>1. call[c].case \in Case
    BY <1>2, ReadCall DEF OpenCase, At
  <2>2. OrdersOK'
    BY <1>2, <2>1 DEF OpenCase, SetOrder, ReturnTypeOK, OrdersOK
  <2>3. CasesOK'
    BY <1>2, <2>1 DEF OpenCase, SetCase, ReturnTypeOK, CasesOK
  <2>4. DebtsOK' /\ CallsOK'
    BY <1>2, DebtsStay, CallEnds DEF OpenCase
  <2> QED
    BY <2>2, <2>3, <2>4, PartsMake
<1>3. CASE ReturnWrite(c) \/ DisputeWrite(c)
  BY <1>2, <1>3, StatusNames DEF ReturnWrite, DisputeWrite, CaseStatus
<1>4. CASE WarrantyClaimFails(c)
  BY <1>4, OrdersStay, CasesStay, DebtsStay, CallEnds, PartsMake
     DEF WarrantyClaimFails
<1> QED
  BY <1>1, <1>3, <1>4

LEMMA AnswerSteps ==
  ASSUME ReturnTypeOK, NEW c \in Caller,
         \/ \E k \in Case : RespondRead(c, k) \/ EscalateRead(c, k)
         \/ RespondWrite(c) \/ EscalateWrite(c)
  PROVE  ReturnTypeOK'
<1>1. ASSUME NEW k \in Case, RespondRead(c, k) \/ EscalateRead(c, k)
      PROVE  ReturnTypeOK'
  BY <1>1, BeganType, ReadsKeep DEF RespondRead, EscalateRead, OpNames
<1>2. CASE RespondWrite(c) \/ EscalateWrite(c)
  <2>1. call[c].case \in Case
    BY <1>2, ReadCall DEF RespondWrite, EscalateWrite, At
  <2>2. CasesOK'
    BY <1>2, <2>1 DEF RespondWrite, EscalateWrite, SetCase, ReturnTypeOK, CasesOK,
                      CaseStatus
  <2>3. OrdersOK' /\ DebtsOK' /\ CallsOK'
    BY <1>2, OrdersStay, DebtsStay, CallEnds DEF RespondWrite, EscalateWrite
  <2> QED
    BY <2>2, <2>3, PartsMake
<1> QED
  BY <1>1, <1>2

LEMMA VerdictReads ==
  ASSUME ReturnTypeOK, NEW c \in Caller, NEW k \in Case, NEW r \in Rulings,
         VerdictRead(c, k, r) \/ UpdateRead(c, k, r)
  PROVE  ReturnTypeOK'
<1> USE ReturnsAssumption
<1>1. VerdictRead(c, k, r)
  BY DEF UpdateRead
<1>2. PICK d : d = [Began("verdict", k) EXCEPT !.ruling = r,
                      !.held = (escrow[OrderOf[k]] = "HELD"),
                      !.poor = (wallet["MERCHANT"] < 1)]
  OBVIOUS
<1>3. /\ (escrow[OrderOf[k]] = "HELD") \in BOOLEAN
      /\ (wallet["MERCHANT"] < 1) \in BOOLEAN
  OBVIOUS
<1>4. d \in Calls
  <2>1. d = [stage |-> "read", op |-> "verdict", case |-> k, ruling |-> r,
             held |-> (escrow[OrderOf[k]] = "HELD"), poor |-> (wallet["MERCHANT"] < 1),
             payer |-> "CUSTOMER"]
    BY <1>2 DEF Began
  <2>2. r \in Ruling /\ "verdict" \in OpNames /\ "CUSTOMER" \in Payer
    BY DEF OpNames, Payer
  <2> QED
    BY <1>3, <2>1, <2>2 DEF Calls
<1>5. Hold(c, d)
  BY <1>1, <1>2 DEF VerdictRead
<1> QED
  BY <1>1, <1>4, <1>5, ReadsKeep DEF VerdictRead

LEMMA VerdictWrites ==
  ASSUME ReturnTypeOK, NEW c \in Caller, VerdictWrite(c)
  PROVE  ReturnTypeOK'
<1> USE ReturnsAssumption
<1>1. PICK k : k = call[c].case
  OBVIOUS
<1>2. PICK r : r = call[c].ruling
  OBVIOUS
<1>3. k \in Case /\ r \in Ruling /\ OrderOf[k] \in Order
  BY <1>1, <1>2, ReadCall DEF VerdictWrite, At
<1>4. PICK to \in Status : SetOrder(OrderOf[k], to)
  BY <1>1, StatusNames DEF VerdictWrite
<1>5. EscrowAfter(c, OrderOf[k]) \in {"HELD", "RELEASED", "REFUNDED"}
  BY <1>3 DEF EscrowAfter, ReturnTypeOK
<1>6. escrow' = [escrow EXCEPT ![OrderOf[k]] = EscrowAfter(c, OrderOf[k])]
  BY <1>1 DEF VerdictWrite
<1>7. parcel' \in [Order -> {"outbound", "RETURN_LABEL_ISSUED", "RETURN_STARTED"}]
  BY <1>1, <1>3 DEF VerdictWrite, ReturnLabel, ReturnTypeOK
<1>8. OrdersOK'
  <2>1. status' \in [Order -> Status]
    BY <1>3, <1>4 DEF SetOrder, ReturnTypeOK
  <2>2. escrow' \in [Order -> {"HELD", "RELEASED", "REFUNDED"}]
    BY <1>3, <1>5, <1>6 DEF ReturnTypeOK
  <2>3. age' \in [Order -> 0..Window]
    BY DEF VerdictWrite, ReturnTypeOK
  <2> QED
    BY <1>7, <2>1, <2>2, <2>3 DEF OrdersOK
<1>9. PICK s \in CaseStatus : SetCase(k, s)
  BY <1>1 DEF VerdictWrite, CaseStatus
<1>10. CasesOK'
  BY <1>1, <1>3, <1>9 DEF VerdictWrite, SetCase, ReturnTypeOK, CasesOK, Handover, Unset
<1>11. ShippingAfter(c, k) \in {"PENDING", "PAID", "INSUFFICIENT_FUNDS"}
  BY <1>3 DEF ShippingAfter, ReturnTypeOK
<1>12. shipping' = [shipping EXCEPT ![k] = ShippingAfter(c, k)]
  BY <1>1 DEF VerdictWrite
<1>13. PICK who \in Payer \cup {"none"} : payee' = [payee EXCEPT ![k] = who]
  BY <1>1, <1>2, <1>3 DEF VerdictWrite, Ruling, ReturnTypeOK
<1>14. owes' \subseteq Case /\ asked' \subseteq Case
  BY <1>1, <1>3 DEF VerdictWrite, OwesAfter, ReturnTypeOK
<1>15. taken' \in [Case -> Nat]
  BY <1>1, <1>3 DEF VerdictWrite, ReturnTypeOK
<1>16. wallet' \in [Payer -> Int]
  BY DEF VerdictWrite, ReturnTypeOK, Payer
<1>17. DebtsOK'
  BY <1>3, <1>11, <1>12, <1>13, <1>14, <1>15, <1>16
     DEF VerdictWrite, ReturnTypeOK, DebtsOK
<1>18. CallsOK'
  BY CallEnds DEF VerdictWrite
<1> QED
  BY <1>8, <1>10, <1>17, <1>18, PartsMake

LEMMA PaySteps ==
  ASSUME ReturnTypeOK, NEW c \in Caller,
         PayWrite(c) \/ \E k \in Case : PayRead(c, k)
  PROVE  ReturnTypeOK'
<1> USE ReturnsAssumption
<1>1. ASSUME NEW k \in Case, PayRead(c, k) PROVE ReturnTypeOK'
  <2>1. PICK p \in Payer : p = PayerOf(k)
    BY DEF PayerOf, Payer
  <2>2. PICK d : d = [Began("pay", k) EXCEPT !.payer = p]
    OBVIOUS
  <2>3. d = [stage |-> "read", op |-> "pay", case |-> k, ruling |-> NoRuling,
             held |-> FALSE, poor |-> FALSE, payer |-> p]
    BY <2>2 DEF Began
  <2>4. d \in Calls
    BY <2>3 DEF Calls, OpNames, NoRuling, Ruling, Payer
  <2> QED
    BY <1>1, <2>1, <2>2, <2>4, ReadsKeep DEF PayRead
<1>2. CASE PayWrite(c)
  <2>1. call[c].case \in Case /\ call[c].payer \in Payer
    BY <1>2, ReadCall DEF PayWrite, At
  <2>2. OrdersOK'
    BY <1>2, <2>1 DEF PayWrite, Settled, ReturnTypeOK, OrdersOK
  <2>3. DebtsOK'
    BY <1>2, <2>1 DEF PayWrite, Settled, ReturnTypeOK, DebtsOK
  <2>4. CasesOK' /\ CallsOK'
    BY <1>2, CasesStay, CallEnds DEF PayWrite
  <2> QED
    BY <2>2, <2>3, <2>4, PartsMake
<1> QED
  BY <1>1, <1>2

LEMMA StripeSteps ==
  ASSUME ReturnTypeOK, NEW k \in Case,
         ShippingIntent(k) \/ ShippingSession(k) \/ ShippingFulfilled(k)
  PROVE  ReturnTypeOK'
<1> USE ReturnsAssumption
<1>1. CallsOK' /\ CasesOK'
  BY CasesStay DEF ShippingIntent, ShippingSession, BeginPayment, ShippingFulfilled,
                   ReturnTypeOK, CallsOK
<1>2. CASE BeginPayment(k)
  BY <1>1, <1>2, OrdersStay, PartsMake DEF BeginPayment, ReturnTypeOK, DebtsOK
<1>3. CASE ShippingFulfilled(k)
  <2>1. OrdersOK'
    BY <1>3 DEF ShippingFulfilled, Settled, ReturnTypeOK, OrdersOK
  <2>2. DebtsOK'
    BY <1>3 DEF ShippingFulfilled, Settled, ReturnTypeOK, DebtsOK
  <2> QED
    BY <1>1, <2>1, <2>2, PartsMake
<1> QED
  BY <1>2, <1>3 DEF ShippingIntent, ShippingSession

LEMMA JobSteps ==
  ASSUME ReturnTypeOK, NEW j \in Caller,
         \/ LateList(j) \/ HandoverList(j)
         \/ \E k \in Case : LateEscalate(j, k) \/ HandoverWrite(j, k)
  PROVE  ReturnTypeOK'
<1> USE ReturnsAssumption
<1>1. ASSUME NEW op \in OpNames, NEW K \in SUBSET Case PROVE Listed(op, K) \in Calls
  BY DEF Listed, Calls
<1>2. CASE LateList(j) \/ HandoverList(j)
  BY <1>1, <1>2, ReadsKeep DEF LateList, HandoverList, LateCases, ExpiredCases, OpNames
<1>3. ASSUME NEW k \in Case, LateEscalate(j, k) \/ HandoverWrite(j, k)
      PROVE  ReturnTypeOK'
  <2>1. CasesOK'
    BY <1>3 DEF LateEscalate, HandoverWrite, SetCase, ReturnTypeOK, CasesOK, CaseStatus
  <2>2. OrdersOK'
    BY <1>3, StatusNames
       DEF LateEscalate, HandoverWrite, SetOrder, ReturnTypeOK, OrdersOK, orderVars
  <2>3. DebtsOK'
    BY <1>3, DebtsStay DEF LateEscalate, HandoverWrite
  <2>4. Proceed(j, k) /\ call[j].stage = "todo"
    BY <1>3 DEF LateEscalate, HandoverWrite, At
  <2>5. call[j] \in [stage : {"todo"}, op : OpNames, todo : SUBSET Case]
    BY <2>4 DEF ReturnTypeOK, Calls, Idle
  <2>6. [call[j] EXCEPT !.todo = call[j].todo \ {k}] \in Calls
    BY <2>5 DEF Calls
  <2>7. CallsOK'
    BY <2>4, <2>6, CallEnds, CallMoves DEF Proceed
  <2> QED
    BY <2>1, <2>2, <2>3, <2>7, PartsMake
<1> QED
  BY <1>2, <1>3

(* The clock, the rest of the system, and nothing at all. *)
LEMMA OtherSteps ==
  ASSUME ReturnTypeOK,
         \/ Tick \/ UNCHANGED returnVars
         \/ \E o \in Order : HourlyRelease(o) \/ \E to \in Targets : Transition(o, to)
  PROVE  ReturnTypeOK'
<1> USE ReturnsAssumption
<1>1. CASE Tick
  BY <1>1, DebtsStay, PartsMake
     DEF Tick, ReturnTypeOK, OrdersOK, CasesOK, CallsOK, Sooner, Later, Window,
         Handover, Unset
<1>2. ASSUME NEW o \in Order, HourlyRelease(o) PROVE ReturnTypeOK'
  BY <1>2, CasesStay, DebtsStay, PartsMake
     DEF HourlyRelease, ReturnTypeOK, OrdersOK, CallsOK
<1>3. ASSUME NEW o \in Order, NEW to \in Targets, Transition(o, to) PROVE ReturnTypeOK'
  BY <1>3, CasesStay, DebtsStay, PartsMake
     DEF Transition, SetOrder, ReturnTypeOK, OrdersOK, CallsOK, Window
<1>4. CASE UNCHANGED returnVars
  BY <1>4, OrdersStay, CasesStay, DebtsStay, PartsMake
     DEF returnVars, ReturnTypeOK, CallsOK
<1> QED
  BY <1>1, <1>2, <1>3, <1>4

LEMMA TypeInit == ReturnInit => ReturnTypeOK
BY ReturnsAssumption
   DEF ReturnInit, ReturnTypeOK, Window, Handover, Unset, CaseStatus, Status

LEMMA TypeStep == ReturnTypeOK /\ [ReturnNext]_returnVars => ReturnTypeOK'
<1> SUFFICES ASSUME ReturnTypeOK, [ReturnNext]_returnVars PROVE ReturnTypeOK'
  OBVIOUS
<1>1. ASSUME NEW c \in Client, ClientStart(c) \/ ClientEnd(c) PROVE ReturnTypeOK'
  BY <1>1, OpenSteps, AnswerSteps, VerdictReads, VerdictWrites, PaySteps
     DEF ClientStart, ClientEnd, Caller
<1>2. ASSUME NEW j \in Job, JobStart(j) \/ JobWork(j) PROVE ReturnTypeOK'
  BY <1>2, JobSteps DEF JobStart, JobWork, Caller
<1> QED
  BY <1>1, <1>2, OtherSteps, StripeSteps DEF ReturnNext

(* Whatever customers, stores, administrators and the job do at once, the  *)
(* rows of the resolution center keep their types.                         *)
THEOREM ReturnTypeCorrect == ReturnSpec => []ReturnTypeOK
BY TypeInit, TypeStep, PTL DEF ReturnSpec

-----------------------------------------------------------------------------
LEMMA DueStep ==
  ASSUME ReturnTypeOK, DueIsTaken, [ReturnNext]_returnVars
  PROVE  DueIsTaken'
<1> USE ReturnsAssumption
(* A verdict that asks for the shipping marks it PAID only when it takes it; *)
(* one that names nobody leaves the mark, and charges nobody. *)
<1>1. ASSUME NEW c \in Caller, VerdictWrite(c) PROVE DueIsTaken'
  <2>1. PICK k : k = call[c].case
    OBVIOUS
  <2>2. PICK r : r = call[c].ruling
    OBVIOUS
  <2>3. k \in Case /\ r \in Ruling /\ taken[k] \in Nat
    BY <1>1, <2>1, <2>2, ReadCall DEF VerdictWrite, At, ReturnTypeOK
  <2>4. /\ shipping' = [shipping EXCEPT ![k] = ShippingAfter(c, k)]
        /\ taken' = [taken EXCEPT ![k] = (IF Asks(r) THEN 0 ELSE @)
                                       + (IF ChargesStore(r) THEN 1 ELSE 0)]
        /\ asked' = IF Asks(r) THEN asked \cup {k}
                    ELSE IF Names(r) THEN asked \ {k} ELSE asked
    BY <1>1, <2>1, <2>2 DEF VerdictWrite
  <2>5. SUFFICES ASSUME NEW j \in asked', shipping'[j] = "PAID" PROVE taken'[j] > 0
    BY DEF DueIsTaken
  <2>6. CASE j # k
    BY <2>3, <2>4, <2>5, <2>6 DEF DueIsTaken, ReturnTypeOK
  <2>7. CASE j = k
    <3>1. shipping'[k] = ShippingAfter(c, k)
      BY <2>3, <2>4 DEF ReturnTypeOK
    <3>2. CASE ChargesStore(r)
      BY <2>3, <2>4, <2>7, <3>2 DEF ReturnTypeOK
    <3>3. CASE ~ChargesStore(r) /\ Names(r)
      BY <2>2, <2>3, <2>4, <2>5, <2>7, <3>1, <3>3 DEF ShippingAfter
    <3>4. CASE ~ChargesStore(r) /\ ~Names(r)
      <4>1. k \in asked /\ shipping[k] = "PAID" /\ ~Asks(r)
        BY <2>2, <2>4, <2>5, <2>7, <3>1, <3>4 DEF ShippingAfter, Asks
      <4>2. taken'[k] = taken[k]
        BY <2>3, <2>4, <3>4, <4>1 DEF ReturnTypeOK
      <4> QED
        BY <2>7, <4>1, <4>2 DEF DueIsTaken
    <3> QED
      BY <3>2, <3>3, <3>4
  <2> QED
    BY <2>6, <2>7
<1>2. ASSUME NEW k \in Case, Settled(k), UNCHANGED asked PROVE DueIsTaken'
  BY <1>2 DEF Settled, DueIsTaken, ReturnTypeOK
<1>3. ASSUME NEW c \in Caller, PayWrite(c) PROVE DueIsTaken'
  <2>1. call[c].case \in Case
    BY <1>3, ReadCall DEF PayWrite, At
  <2> QED
    BY <1>2, <1>3, <2>1 DEF PayWrite
<1>4. ASSUME NEW k \in Case, ShippingFulfilled(k) PROVE DueIsTaken'
  BY <1>2, <1>4 DEF ShippingFulfilled
<1>5. ASSUME UNCHANGED <<asked, shipping, taken>> PROVE DueIsTaken'
  BY <1>5 DEF DueIsTaken
<1> USE DEF debtVars
<1>6. ASSUME NEW c \in Client,
             \/ ClientStart(c) \/ ReturnWrite(c) \/ DisputeWrite(c)
             \/ WarrantyClaimFails(c) \/ RespondWrite(c) \/ EscalateWrite(c)
      PROVE  UNCHANGED <<asked, shipping, taken>>
  BY <1>6 DEF ClientStart, ReturnRead, DisputeRead, RespondRead, EscalateRead, PayRead,
              VerdictRead, UpdateRead, ReturnWrite, DisputeWrite, OpenCase,
              WarrantyClaimFails, RespondWrite, EscalateWrite
<1>7. ASSUME NEW j \in Job, JobStart(j) \/ JobWork(j)
      PROVE  UNCHANGED <<asked, shipping, taken>>
  BY <1>7 DEF JobStart, JobWork, LateList, HandoverList, LateEscalate, HandoverWrite
<1>8. ASSUME \/ \E k \in Case : ShippingIntent(k) \/ ShippingSession(k)
             \/ Tick \/ UNCHANGED returnVars
             \/ \E o \in Order :
                  HourlyRelease(o) \/ \E to \in Targets : Transition(o, to)
      PROVE  UNCHANGED <<asked, shipping, taken>>
  BY <1>8 DEF ShippingIntent, ShippingSession, BeginPayment, Tick, HourlyRelease,
              Transition, returnVars
<1> QED
  BY <1>1, <1>3, <1>4, <1>5, <1>6, <1>7, <1>8 DEF ReturnNext, ClientEnd, Caller

(* Whatever verdicts are given and however the shipping is charged, the    *)
(* shipping the last one made due is marked PAID only after it was taken.  *)
THEOREM DueAlwaysTaken == ReturnSpec => []ReturnInv
<1>1. ReturnInit => DueIsTaken
  BY DEF ReturnInit, DueIsTaken
<1>2. ReturnTypeOK /\ DueIsTaken /\ [ReturnNext]_returnVars => DueIsTaken'
  BY DueStep
<1>3. ReturnTypeOK /\ DueIsTaken => ReturnInv
  BY DEF ReturnInv
<1> QED
  BY <1>1, <1>2, <1>3, ReturnTypeCorrect, PTL DEF ReturnSpec

-----------------------------------------------------------------------------
LEMMA StrandStep ==
  ASSUME ReturnTypeOK, NEW o \in Order, InGoodHands(o), [ReturnNext]_returnVars
  PROVE  InGoodHands(o)' \/ \E to \in Targets : Transition(o, to)
<1> USE ReturnsAssumption
(* A case that stays live keeps its order in good hands. *)
<1>1. ASSUME status'[o] = status[o],
             \A k \in Case : case[k] \in Live => case'[k] \in Live
      PROVE  InGoodHands(o)'
  BY <1>1 DEF InGoodHands
(* A case is written with its order: the case is live, or the order leaves. *)
<1>2. ASSUME NEW k \in Case, NEW s, NEW to, SetCase(k, s), SetOrder(OrderOf[k], to),
             s \in Live \/ to \notin CasePhases
      PROVE  InGoodHands(o)'
  <2>1. SUFFICES ASSUME status'[o] \in CasePhases
                 PROVE  \E j \in Case : OrderOf[j] = o /\ case'[j] \in Live
    BY DEF InGoodHands
  <2>2. CASE o = OrderOf[k]
    BY <1>2, <2>1, <2>2 DEF SetCase, SetOrder, ReturnTypeOK
  <2>3. CASE o # OrderOf[k]
    <3>1. status[o] \in CasePhases
      BY <1>2, <2>1, <2>3 DEF SetOrder, ReturnTypeOK
    <3>2. PICK j \in Case : OrderOf[j] = o /\ case[j] \in Live
      BY <3>1 DEF InGoodHands
    <3> QED
      BY <1>2, <2>3, <3>2 DEF SetCase, ReturnTypeOK
  <2> QED
    BY <2>2, <2>3
(* The transition of another order touches no case. *)
<1>3. ASSUME NEW p \in Order, NEW to \in Targets, Transition(p, to), p # o
      PROVE  InGoodHands(o)'
  BY <1>1, <1>3 DEF Transition, SetOrder, caseVars, ReturnTypeOK
<1>4. ASSUME NEW c \in Caller, NEW op, NEW first \in Live, NEW phase,
             OpenCase(c, op, first, phase)
      PROVE  InGoodHands(o)'
  <2>1. call[c].case \in Case
    BY <1>4, ReadCall DEF OpenCase, At
  <2> QED
    BY <1>2, <1>4, <2>1 DEF OpenCase
<1>5. ASSUME NEW c \in Caller, VerdictWrite(c) PROVE InGoodHands(o)'
  <2>1. PICK k : k = call[c].case
    OBVIOUS
  <2>2. k \in Case
    BY <1>5, <2>1, ReadCall DEF VerdictWrite, At
  <2>3. \/ SetCase(k, "APPROVED") /\ SetOrder(OrderOf[k], "RETURN_APPROVED")
        \/ SetCase(k, "REFUNDED") /\ SetOrder(OrderOf[k], "REFUNDED")
        \/ SetCase(k, "RESOLVED") /\ SetOrder(OrderOf[k], "COMPLETED")
    BY <1>5, <2>1 DEF VerdictWrite
  <2> QED
    BY <1>2, <2>2, <2>3 DEF Live, CasePhases
<1>6. ASSUME NEW c \in Caller, RespondWrite(c) \/ EscalateWrite(c)
      PROVE  InGoodHands(o)'
  BY <1>1, <1>6 DEF RespondWrite, EscalateWrite, SetCase, orderVars, ReturnTypeOK, Live
<1>7. ASSUME NEW j \in Caller, NEW k \in Case, LateEscalate(j, k) \/ HandoverWrite(j, k)
      PROVE  InGoodHands(o)'
  <2>1. CASE LateEscalate(j, k)
    BY <1>1, <2>1 DEF LateEscalate, SetCase, orderVars, ReturnTypeOK, Live
  <2>2. CASE HandoverWrite(j, k)
    BY <1>2, <2>2 DEF HandoverWrite, CasePhases
  <2> QED
    BY <1>7, <2>1, <2>2
<1>8. ASSUME UNCHANGED <<status, case>> PROVE InGoodHands(o)'
  BY <1>8 DEF InGoodHands
<1> USE DEF orderVars, caseVars
<1>9. ASSUME NEW c \in Client, ClientStart(c) \/ WarrantyClaimFails(c) \/ PayWrite(c)
      PROVE  UNCHANGED <<status, case>>
  BY <1>9 DEF ClientStart, ReturnRead, DisputeRead, RespondRead, EscalateRead, PayRead,
              VerdictRead, UpdateRead, WarrantyClaimFails, PayWrite
<1>10. ASSUME NEW j \in Job, JobStart(j) PROVE UNCHANGED <<status, case>>
  BY <1>10 DEF JobStart, LateList, HandoverList
<1>11. ASSUME \/ \E k \in Case : ShippingIntent(k) \/ ShippingSession(k) \/ ShippingFulfilled(k)
              \/ Tick \/ UNCHANGED returnVars
              \/ \E p \in Order : HourlyRelease(p)
       PROVE  UNCHANGED <<status, case>>
  BY <1>11 DEF ShippingIntent, ShippingSession, BeginPayment, ShippingFulfilled, Tick,
               HourlyRelease, returnVars
<1>12. ASSUME NEW c \in Client, ReturnWrite(c) \/ DisputeWrite(c)
       PROVE  InGoodHands(o)'
  BY <1>4, <1>12 DEF ReturnWrite, DisputeWrite, Live, Caller
<1> QED
  BY <1>3, <1>5, <1>6, <1>7, <1>8, <1>9, <1>10, <1>11, <1>12
     DEF ReturnNext, ClientEnd, JobWork, Caller

(* However verdicts, answers and runs of the job overwrite each other, and *)
(* whatever statuses the rest of the system gives to orders, no step of    *)
(* this component leaves an order in one of its phases without a case in   *)
(* which somebody must still act.                                          *)
THEOREM OnlyTransitionsEverStrand == ReturnSpec => OnlyTransitionsStrand
<1>1. ReturnTypeOK /\ [ReturnNext]_returnVars =>
        [\A o \in Order : InGoodHands(o) /\ ~InGoodHands(o)'
           => \E to \in Targets : Transition(o, to)]_returnVars
  BY StrandStep
<1> QED
  BY <1>1, ReturnTypeCorrect, PTL DEF ReturnSpec, OnlyTransitionsStrand
=============================================================================
