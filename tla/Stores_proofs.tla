---------------------------- MODULE Stores_proofs ---------------------------
(***************************************************************************)
(* For any orders, ratings, scores and jobs: Stores is type correct with   *)
(* any number of clients, and with one client at a time the store is       *)
(* judged on what was published and spared for what it renewed.            *)
(*                                                                         *)
(* StandingFits says what a client that is under way knows: between the    *)
(* publication of a review and the verdict on the rating lie five steps,   *)
(* and the average a step has in hand must still be that of the reviews.   *)
(***************************************************************************)
EXTENDS Stores, Sums_proofs, TLAPS

Published == {o \in Order : review[o].status = "PUBLISHED"}

(* What follows the publication, until the verdict. *)
Judging(r) ==
  \/ r.stage \in {"impact", "ask"}
  \/ r.stage \in {"recalculate", "persist"} /\ r.next = "impact"

Judged(c) ==
  /\ call[c].stage = "published" => Published # {}
  /\ call[c].stage = "average" => call[c].rating = Average(Published)
  /\ Judging(call[c]) => rating = Average(Published)
  /\ call[c].stage = "expire" => document.status # "pending"

StandingFits == StoreTypeOK /\ \A c \in Client : Judged(c)

OneClient == \A c, d \in Client : c = d

-----------------------------------------------------------------------------
(* The average.                                                            *)

LEMMA Quotient ==
  ASSUME NEW n \in Nat, n # 0, NEW s \in 0..(5 * n)
  PROVE  (100 * s) \div n \in 0..500
<1> DEFINE q == (100 * s) \div n
<1>1. q \in Nat /\ n * q <= 100 * s
  OBVIOUS
<1>2. q > 500 => n * q > 500 * n
  <2> SUFFICES ASSUME q > 500 PROVE n * q > 500 * n
    OBVIOUS
  <2>1. \A a, b, c \in Nat : a # 0 /\ b > c => a * b > a * c
    OBVIOUS
  <2> HIDE DEF q
  <2>2. n * q > n * 500
    BY <1>1, <2>1
  <2> QED
    BY <2>2
<1> HIDE DEF q
<1>3. q <= 500
  BY <1>1, <1>2
<1> QED
  BY <1>1, <1>3 DEF q

(* Ratings of up to five stars have an average of up to five stars. *)
LEMMA AverageType ==
  ASSUME StoreTypeOK, NEW S \in SUBSET Order, S # {}
  PROVE  Average(S) \in 0..500
<1> DEFINE f == [o \in Order |-> review[o].rating]
<1>1. IsFiniteSet(S) /\ Cardinality(S) \in Nat /\ Cardinality(S) # 0
  BY StoresAssumption, FS_Subset, FS_CardinalityType, FS_EmptySet
<1>2. \A o \in S : f[o] \in 0..5
  BY DEF StoreTypeOK
<1> HIDE DEF f
<1>3. SumFunctionOnSet(f, S) \in 0..(5 * Cardinality(S))
  BY <1>1, <1>2, SumOfBounded
<1> QED
  BY <1>1, <1>3, Quotient DEF Average, f

(* The average of the published reviews is not touched by a step that      *)
(* leaves them as they are.                                                *)
LEMMA AverageStays ==
  ASSUME Published' = Published,
         \A o \in Published : review'[o].rating = review[o].rating
  PROVE  Average(Published)' = Average(Published)
<1> DEFINE f == [o \in Order |-> review[o].rating]
           g == [o \in Order |-> review'[o].rating]
<1>1. IsFiniteSet(Published) /\ Published \subseteq Order
  BY StoresAssumption, FS_Subset DEF Published
<1>2. \A o \in Published : f[o] = g[o]
  BY <1>1
<1> HIDE DEF f, g
<1>3. SumFunctionOnSet(f, Published) = SumFunctionOnSet(g, Published)
  BY <1>1, <1>2, SumsEqual
<1> QED
  BY <1>3 DEF Average, f, g

-----------------------------------------------------------------------------
(* Types.                                                                  *)

LEMMA CallTypes ==
  /\ Idle \in {Idle} \cup Calls
  /\ \A st \in {"activate", "upload", "expire", "published", "impact", "ask", "lift"} :
       [stage |-> st] \in Calls
  /\ \A n \in 0..500 : [stage |-> "average", rating |-> n] \in Calls
  /\ \A next \in {"idle", "impact"} :
       /\ [stage |-> "recalculate", next |-> next] \in Calls
       /\ \A t \in Tier : [stage |-> "persist", next |-> next, tier |-> t] \in Calls
       /\ [stage |-> next] \in {Idle} \cup Calls
BY DEF Calls, Idle

(* The fields of a request or a job, by its stage. *)
LEMMA CallFields ==
  ASSUME StoreTypeOK, NEW c \in Caller
  PROVE  /\ call[c].stage = "average" => call[c].rating \in 0..500
         /\ call[c].stage \in {"recalculate", "persist"} =>
              call[c].next \in {"idle", "impact"}
         /\ call[c].stage = "persist" => call[c].tier \in Tier
<1>1. call[c] \in {Idle} \cup Calls
  BY DEF StoreTypeOK
<1>2. Idle.stage = "idle"
  BY DEF Idle
<1> QED
  BY <1>1, <1>2 DEF Calls

LEMMA HoldType ==
  ASSUME StoreTypeOK, NEW c \in Caller, NEW r \in {Idle} \cup Calls, Hold(c, r)
  PROVE  call' \in [Caller -> {Idle} \cup Calls]
BY DEF StoreTypeOK, Hold

LEMMA DoneType ==
  ASSUME StoreTypeOK, NEW c \in Caller, Done(c)
  PROVE  call' \in [Caller -> {Idle} \cup Calls]
BY CallTypes, HoldType DEF Done

LEMMA RecalculateType ==
  ASSUME StoreTypeOK, NEW c \in Caller, NEW next \in {"idle", "impact"},
         Recalculate(c, next)
  PROVE  call' \in [Caller -> {Idle} \cup Calls]
BY CallTypes, HoldType DEF Recalculate

LEMMA DueType == StoreTypeOK => Due \in Tier
BY DEF StoreTypeOK, Due, AutoTier, Tier

LEMMA TermsType ==
  /\ Term \in 0..Term
  /\ \A n \in {Unset} \cup 0..Term : Sooner(n) \in {Unset} \cup 0..Term
BY DEF Term, Unset, Sooner

Documents == [status : {"pending", "approved", "rejected"}, left : {Unset} \cup 0..Term]

LEMMA DocumentTypes ==
  /\ Approved \in Documents
  /\ \A d \in Documents :
       /\ \A st \in {"pending", "rejected"} : [d EXCEPT !.status = st] \in Documents
       /\ [d EXCEPT !.left = Sooner(@)] \in Documents
BY TermsType DEF Documents, Approved

(* A request begins. *)
LEMMA StartType ==
  ASSUME StoreTypeOK, NEW c \in Caller, Start(c)
  PROVE  StoreTypeOK'
<1> USE DEF statusVars, ratingVars, tierVars
<1>1. ASSUME NEW to \in AdminStatus, NEW end \in BOOLEAN, UpdateStatus(c, to, end)
      PROVE  StoreTypeOK'
  <2>1. account' \in StoreStatus /\ until' \in {Unset} \cup 0..Term
    BY <1>1, StoresAssumption, TermsType DEF UpdateStatus, StoreTypeOK
  <2>2. call' \in [Caller -> {Idle} \cup Calls]
    BY <1>1, HoldType, CallTypes DEF UpdateStatus, StoreTypeOK
  <2> QED
    BY <1>1, <2>1, <2>2 DEF UpdateStatus, StoreTypeOK
<1>2. CASE Upload(c)
  <2>1. document' \in Documents
    BY <1>2, DocumentTypes DEF Upload, StoreTypeOK, Documents
  <2>2. call' \in [Caller -> {Idle} \cup Calls]
    BY <1>2, HoldType, CallTypes DEF Upload
  <2> QED
    BY <1>2, <2>1, <2>2 DEF Upload, StoreTypeOK, Documents
<1>3. CASE Visit(c)
  <2>1. call' \in [Caller -> {Idle} \cup Calls]
    BY <1>3, HoldType, CallTypes DEF Visit
  <2> QED
    BY <1>3, <2>1 DEF Visit, StoreTypeOK
<1>4. ASSUME NEW o \in Order, NEW to \in ReviewStatus \ {"PENDING"}, Moderate(c, o, to)
      PROVE  StoreTypeOK'
  <2>1. call' \in [Caller -> {Idle} \cup Calls]
    BY <1>4, HoldType, CallTypes DEF Moderate, StoreTypeOK
  <2>2. review' \in [Order -> [status : ReviewStatus \cup {NoReview}, rating : 0..5]]
    BY <1>4 DEF Moderate, StoreTypeOK
  <2> QED
    BY <1>4, <2>1, <2>2 DEF Moderate, StoreTypeOK
<1>5. ASSUME NEW s \in Subscription, UpdateSubscription(c, s) PROVE StoreTypeOK'
  <2>1. call' \in [Caller -> {Idle} \cup Calls]
    BY <1>5, RecalculateType DEF UpdateSubscription
  <2> QED
    BY <1>5, <2>1, StoresAssumption DEF UpdateSubscription, StoreTypeOK
<1>6. ASSUME NEW p \in PointSet, PointsChange(c, p) PROVE StoreTypeOK'
  <2>1. call' \in [Caller -> {Idle} \cup Calls]
    BY <1>6, RecalculateType DEF PointsChange
  <2> QED
    BY <1>6, <2>1, StoresAssumption DEF PointsChange, StoreTypeOK
<1>7. ASSUME NEW T \in SUBSET Track, OrderCounted(c, T) PROVE StoreTypeOK'
  <2>1. call' \in [Caller -> {Idle} \cup Calls]
    BY <1>7, RecalculateType DEF OrderCounted
  <2> QED
    BY <1>7, <2>1 DEF OrderCounted, StoreTypeOK
<1> QED
  BY <1>1, <1>2, <1>3, <1>4, <1>5, <1>6, <1>7 DEF Start

(* The tier is computed and written, by a request or a job. *)
LEMMA TierType ==
  ASSUME StoreTypeOK, NEW c \in Caller, TierRead(c) \/ TierWrite(c)
  PROVE  StoreTypeOK'
<1> USE DEF statusVars, ratingVars, tierVars
<1>1. CASE TierRead(c)
  <2>1. [stage |-> "persist", next |-> call[c].next, tier |-> Due] \in Calls
    BY <1>1, CallFields, CallTypes, DueType DEF TierRead, At
  <2>2. call' \in [Caller -> {Idle} \cup Calls]
    BY <1>1, <2>1, HoldType DEF TierRead
  <2> QED
    BY <1>1, <2>2 DEF TierRead, StoreTypeOK
<1>2. CASE TierWrite(c)
  <2>1. [stage |-> call[c].next] \in {Idle} \cup Calls /\ tier' \in Tier
    BY <1>2, CallFields, CallTypes DEF TierWrite, At
  <2>2. call' \in [Caller -> {Idle} \cup Calls]
    BY <1>2, <2>1, HoldType DEF TierWrite
  <2> QED
    BY <1>2, <2>1, <2>2 DEF TierWrite, StoreTypeOK
<1> QED
  BY <1>1, <1>2

(* A request goes on. *)
LEMMA EndType ==
  ASSUME StoreTypeOK, NEW c \in Caller, End(c)
  PROVE  StoreTypeOK'
<1> USE DEF statusVars, ratingVars, tierVars
<1>1. CASE ApproveDocuments(c)
  <2>1. document' \in Documents
    BY <1>1, DocumentTypes DEF ApproveDocuments, StoreTypeOK, Documents
  <2> QED
    BY <1>1, <2>1, DoneType DEF ApproveDocuments, StoreTypeOK, Documents
<1>2. CASE UploadSuspends(c) \/ VisitExpires(c)
  <2>1. account' \in StoreStatus
    BY <1>2 DEF UploadSuspends, VisitExpires, StoreStatus
  <2> QED
    BY <1>2, <2>1, DoneType DEF UploadSuspends, VisitExpires, StoreTypeOK
<1>3. CASE RatingRead(c)
  <2> DEFINE S == {o \in Order : Counted(o)}
  <2>1. S # {} => [stage |-> "average", rating |-> Average(S)] \in Calls
    BY AverageType, CallTypes
  <2>2. call' \in [Caller -> {Idle} \cup Calls]
    BY <1>3, <2>1, HoldType, CallTypes DEF RatingRead
  <2> QED
    BY <1>3, <2>2 DEF RatingRead, StoreTypeOK
<1>4. CASE RatingWrite(c)
  <2>1. rating' \in 0..500
    BY <1>4, CallFields DEF RatingWrite, At
  <2>2. call' \in [Caller -> {Idle} \cup Calls]
    BY <1>4, HoldType, CallTypes DEF RatingWrite
  <2> QED
    BY <1>4, <2>1, <2>2 DEF RatingWrite, StoreTypeOK
<1>5. CASE ImpactRead(c)
  <2>1. call' \in [Caller -> {Idle} \cup Calls]
    BY <1>5, HoldType, DoneType, CallTypes DEF ImpactRead
  <2> QED
    BY <1>5, <2>1 DEF ImpactRead, StoreTypeOK
<1>6. CASE ImpactWrite(c)
  BY <1>6, DoneType DEF ImpactWrite, StoreTypeOK
<1> QED
  BY <1>1, <1>2, <1>3, <1>4, <1>5, <1>6, TierType DEF End

(* The steps of nobody's request: time, reviewers, penalties, the decay. *)
LEMMA OthersType ==
  ASSUME StoreTypeOK, Tick \/ Others
  PROVE  StoreTypeOK'
<1> USE DEF statusVars, ratingVars, tierVars
<1>0. Term \in {Unset} \cup 0..Term
  BY TermsType
<1>1. CASE Tick
  <2>1. document' \in Documents
    BY <1>1, DocumentTypes DEF Tick, StoreTypeOK, Documents
  <2>2. until' \in {Unset} \cup 0..Term
    BY <1>1, TermsType DEF Tick, StoreTypeOK
  <2>3. sub' \in SubscriptionTier /\ earned' \subseteq Track
    BY <1>1 DEF Tick, StoreTypeOK, SubscriptionTier
  <2> QED
    BY <1>1, <2>1, <2>2, <2>3 DEF Tick, StoreTypeOK, Documents
<1>2. ASSUME NEW to \in {"approved", "rejected"}, ReviewDocument(to) PROVE StoreTypeOK'
  <2>1. document' \in Documents
    BY <1>2, DocumentTypes DEF ReviewDocument, StoreTypeOK, Documents
  <2> QED
    BY <1>2, <2>1 DEF ReviewDocument, StoreTypeOK, Documents
<1>3. CASE PenaltyApproved \/ FraudVerdict
  BY <1>0, <1>3 DEF PenaltyApproved, FraudVerdict, Suspend, StoreTypeOK, StoreStatus
<1>4. ASSUME NEW o \in Order, NEW stars \in Stars[o], CreateReview(o, stars)
      PROVE  StoreTypeOK'
  <2>1. stars \in 0..5 /\ "PENDING" \in ReviewStatus
    <3>1. Stars[o] \in SUBSET (1..5)
      BY StoresAssumption
    <3> QED
      BY <3>1 DEF ReviewStatus
  <2>2. review' \in [Order -> [status : ReviewStatus \cup {NoReview}, rating : 0..5]]
    BY <1>4, <2>1 DEF CreateReview, StoreTypeOK
  <2> QED
    BY <1>4, <2>2 DEF CreateReview, StoreTypeOK
<1>5. ASSUME NEW approve \in BOOLEAN, ReviewAsked(approve) PROVE StoreTypeOK'
  BY <1>0, <1>5 DEF ReviewAsked, Suspend, StoreTypeOK, StoreStatus
<1>6. ASSUME NEW p \in PointSet, Decay(p) PROVE StoreTypeOK'
  BY <1>6, StoresAssumption DEF Decay, StoreTypeOK
<1> QED
  BY <1>1, <1>2, <1>3, <1>4, <1>5, <1>6 DEF Others

LEMMA JobType ==
  ASSUME StoreTypeOK, NEW j \in Caller, JobStart(j) \/ JobEnd(j)
  PROVE  StoreTypeOK'
<1> USE DEF statusVars, ratingVars, tierVars
<1>1. CASE LiftList(j)
  <2>1. call' \in [Caller -> {Idle} \cup Calls]
    BY <1>1, HoldType, CallTypes DEF LiftList
  <2> QED
    BY <1>1, <2>1 DEF LiftList, StoreTypeOK
<1>2. CASE NightList(j)
  <2>1. call' \in [Caller -> {Idle} \cup Calls]
    BY <1>2, RecalculateType DEF NightList
  <2> QED
    BY <1>2, <2>1 DEF NightList, StoreTypeOK
<1>3. CASE LiftWrite(j)
  <2>1. account' \in StoreStatus /\ until' \in {Unset} \cup 0..Term
    BY <1>3 DEF LiftWrite, StoreStatus
  <2> QED
    BY <1>3, <2>1, DoneType DEF LiftWrite, StoreTypeOK
<1> QED
  BY <1>1, <1>2, <1>3, TierType DEF JobStart, JobEnd

LEMMA StoreTypeInit == StoreInit => StoreTypeOK
BY DEF StoreInit, StoreTypeOK, StoreStatus, SubscriptionTier, Tier

LEMMA StoreTypeStep == StoreTypeOK /\ [StoreNext]_storeVars => StoreTypeOK'
<1> SUFFICES ASSUME StoreTypeOK, [StoreNext]_storeVars PROVE StoreTypeOK'
  OBVIOUS
<1>1. UNCHANGED storeVars => StoreTypeOK'
  BY DEF storeVars, statusVars, ratingVars, tierVars, StoreTypeOK
<1>2. Client \subseteq Caller /\ Job \subseteq Caller
  BY DEF Caller
<1> QED
  BY <1>1, <1>2, StartType, EndType, OthersType, JobType DEF StoreNext

(* However many requests and jobs write the store at once, its row and     *)
(* what they have in flight keep their types.                              *)
THEOREM StoreTypeCorrect == StoreSpec => []StoreTypeOK
BY StoreTypeInit, StoreTypeStep, PTL DEF StoreSpec

-----------------------------------------------------------------------------
(* What a client knows.                                                    *)

(* A client that stands still, or is idle or in a stage that knows         *)
(* nothing, loses nothing when the published reviews and the rating stay.  *)
Knows(r) == r.stage \in {"published", "average", "expire"} \/ Judging(r)

LEMMA OtherKeeps ==
  ASSUME NEW c \in Client, Judged(c), call'[c] = call[c] \/ ~Knows(call'[c]),
         rating' = rating, Published' = Published,
         \A o \in Published : review'[o].rating = review[o].rating,
         document' = document \/ document'.status # "pending"
  PROVE  Judged(c)'
<1>1. Average(Published)' = Average(Published)
  BY AverageStays
<1>2. CASE ~Knows(call'[c])
  BY <1>2 DEF Knows, Judged, Judging
<1>3. CASE call'[c] = call[c]
  BY <1>1, <1>3 DEF Judged, Judging
<1> QED
  BY <1>2, <1>3

(* When it knows nothing, it can lose nothing. *)
LEMMA NothingKnown ==
  ASSUME NEW c \in Client, ~Knows(call'[c])
  PROVE  Judged(c)'
BY DEF Judged, Judging, Knows

LEMMA IdleKnows ==
  /\ Idle.stage = "idle" /\ ~Knows(Idle)
  /\ \A st \in {"activate", "upload", "lift", "idle"} : ~Knows([stage |-> st])
  /\ ~Knows([stage |-> "recalculate", next |-> "idle"])
  /\ \A t : ~Knows([stage |-> "persist", next |-> "idle", tier |-> t])
BY DEF Idle, Knows, Judging

LEMMA Holds ==
  ASSUME StoreTypeOK, NEW c \in Caller, NEW r, Hold(c, r)
  PROVE  call'[c] = r /\ \A d \in Caller : d # c => call'[d] = call[d]
BY DEF StoreTypeOK, Hold

LEMMA StartKnows ==
  ASSUME StoreTypeOK, NEW c \in Client, Start(c)
  PROVE  Judged(c)'
<1> USE DEF statusVars, ratingVars, tierVars
<1>0. c \in Caller
  BY DEF Caller
<1>1. ASSUME NEW to \in AdminStatus, NEW end \in BOOLEAN, UpdateStatus(c, to, end)
      PROVE  Judged(c)'
  <2>1. call'[c] \in {Idle, [stage |-> "activate"]}
    BY <1>0, <1>1, Holds DEF UpdateStatus, Free
  <2> QED
    BY <2>1, IdleKnows, NothingKnown
<1>2. CASE Upload(c)
  <2>1. call'[c] = [stage |-> "upload"]
    BY <1>0, <1>2, Holds DEF Upload
  <2> QED
    BY <2>1, IdleKnows, NothingKnown
<1>3. CASE Visit(c)
  <2>1. /\ call'[c] = [stage |-> "expire"]
        /\ document' = document /\ document.status = "approved"
    BY <1>0, <1>3, Holds DEF Visit, Overdue
  <2> QED
    BY <2>1 DEF Judged, Judging
<1>4. ASSUME NEW o \in Order, NEW to \in ReviewStatus \ {"PENDING"}, Moderate(c, o, to)
      PROVE  Judged(c)'
  <2>1. CASE to = "PUBLISHED"
    <3>1. call'[c] = [stage |-> "published"]
      BY <1>0, <1>4, <2>1, Holds DEF Moderate
    <3>2. review'[o].status = "PUBLISHED"
      BY <1>4, <2>1 DEF Moderate, StoreTypeOK
    <3>3. o \in Published'
      BY <3>2 DEF Published
    <3> QED
      BY <3>1, <3>3 DEF Judged, Judging
  <2>2. CASE to # "PUBLISHED"
    <3>1. call'[c] = Idle
      BY <1>4, <2>2 DEF Moderate, Free
    <3> QED
      BY <3>1, IdleKnows, NothingKnown
  <2> QED
    BY <2>1, <2>2
<1>5. ASSUME \/ \E s \in Subscription : UpdateSubscription(c, s)
             \/ \E p \in PointSet : PointsChange(c, p)
             \/ \E T \in SUBSET Track : OrderCounted(c, T)
      PROVE  Judged(c)'
  <2>1. Recalculate(c, "idle")
    BY <1>5 DEF UpdateSubscription, PointsChange, OrderCounted
  <2>2. call'[c] = [stage |-> "recalculate", next |-> "idle"]
    BY <1>0, <2>1, Holds DEF Recalculate
  <2> QED
    BY <2>2, IdleKnows, NothingKnown
<1> QED
  BY <1>1, <1>2, <1>3, <1>4, <1>5 DEF Start

(* The tier in between does not forget what comes next. *)
LEMMA TierKnows ==
  ASSUME StoreTypeOK, NEW c \in Client, Judged(c), TierRead(c) \/ TierWrite(c)
  PROVE  Judged(c)'
<1> USE DEF statusVars, ratingVars, tierVars
<1>1. c \in Caller /\ call[c].stage \in {"recalculate", "persist"}
  BY DEF Caller, TierRead, TierWrite, At
<1>2. call[c].next \in {"idle", "impact"} /\ UNCHANGED <<review, rating, document>>
  BY <1>1, CallFields DEF TierRead, TierWrite
<1>3. call'[c] \in {[stage |-> "persist", next |-> call[c].next, tier |-> Due],
                    [stage |-> call[c].next]}
  BY <1>1, Holds DEF TierRead, TierWrite
<1>4. CASE call[c].next = "idle"
  BY <1>3, <1>4, IdleKnows, NothingKnown
<1>5. CASE call[c].next = "impact"
  <2>1. rating = Average(Published)
    BY <1>1, <1>5 DEF Judged, Judging
  <2>2. rating' = Average(Published)'
    BY <1>2, <2>1 DEF Average, Published
  <2> QED
    BY <1>3, <1>5, <2>2 DEF Judged, Judging
<1> QED
  BY <1>2, <1>4, <1>5

LEMMA EndKnows ==
  ASSUME StoreTypeOK, NEW c \in Client, Judged(c), End(c)
  PROVE  Judged(c)'
<1> USE DEF statusVars, ratingVars, tierVars
<1>0. c \in Caller
  BY DEF Caller
<1>1. CASE \/ ApproveDocuments(c) \/ UploadSuspends(c) \/ VisitExpires(c)
           \/ ImpactWrite(c)
  <2>1. call'[c] = Idle
    BY <1>0, <1>1, Holds DEF ApproveDocuments, UploadSuspends, VisitExpires, ImpactWrite,
       Done
  <2> QED
    BY <2>1, IdleKnows, NothingKnown
<1>2. CASE RatingRead(c)
  <2>1. Published # {} /\ Published = {o \in Order : Counted(o)}
    BY <1>2 DEF RatingRead, At, Judged, Published, Counted
  <2>2. call'[c] = [stage |-> "average", rating |-> Average(Published)]
    BY <1>0, <1>2, <2>1, Holds DEF RatingRead
  <2>3. Average(Published)' = Average(Published)
    BY <1>2 DEF RatingRead, Average, Published
  <2> QED
    BY <2>2, <2>3 DEF Judged, Judging
<1>3. CASE RatingWrite(c)
  <2>1. rating' = Average(Published)
    BY <1>3 DEF RatingWrite, At, Judged
  <2>2. rating' = Average(Published)'
    BY <1>3, <2>1 DEF RatingWrite, Average, Published
  <2>3. call'[c] = [stage |-> "recalculate", next |-> "impact"]
    BY <1>0, <1>3, Holds DEF RatingWrite
  <2> QED
    BY <2>2, <2>3 DEF Judged, Judging
<1>4. CASE ImpactRead(c)
  <2>1. call'[c] \in {Idle, [stage |-> "ask"]}
    BY <1>0, <1>4, Holds DEF ImpactRead, Done
  <2>2. rating = Average(Published)
    BY <1>4 DEF ImpactRead, At, Judged, Judging
  <2>3. rating' = Average(Published)'
    BY <1>4, <2>2 DEF ImpactRead, Average, Published
  <2> QED
    BY <2>1, <2>3, IdleKnows, NothingKnown DEF Judged, Judging
<1> QED
  BY <1>1, <1>2, <1>3, <1>4, TierKnows DEF End

(* A job, time and the others leave a client what it knows. *)
LEMMA JobKnows ==
  ASSUME StoreTypeOK, NEW c \in Client, Judged(c), NEW j \in Job,
         JobStart(j) \/ JobEnd(j)
  PROVE  Judged(c)'
<1> USE DEF statusVars, ratingVars, tierVars
<1>0. c \in Caller /\ j \in Caller
  BY DEF Caller
<1>1. UNCHANGED <<review, rating, document>>
  BY DEF JobStart, JobEnd, LiftList, NightList, LiftWrite, TierRead, TierWrite
<1>2. Published' = Published
  BY <1>1 DEF Published
<1>3. CASE c # j
  <2>1. PICK r : Hold(j, r)
    BY DEF JobStart, JobEnd, LiftList, NightList, LiftWrite, TierRead, TierWrite,
       Recalculate, Done
  <2>2. call'[c] = call[c]
    BY <1>0, <1>3, <2>1, Holds
  <2> QED
    BY <1>1, <1>2, <2>2, OtherKeeps
<1>4. CASE c = j /\ (TierRead(j) \/ TierWrite(j))
  BY <1>4, TierKnows
<1>5. CASE c = j /\ (LiftList(j) \/ NightList(j) \/ LiftWrite(j))
  <2>1. call'[c] \in {Idle, [stage |-> "lift"],
                      [stage |-> "recalculate", next |-> "idle"]}
    BY <1>0, <1>5, Holds DEF LiftList, NightList, LiftWrite, Recalculate, Done
  <2> QED
    BY <2>1, IdleKnows, NothingKnown
<1> QED
  BY <1>3, <1>4, <1>5 DEF JobStart, JobEnd

LEMMA OthersKnow ==
  ASSUME StoreTypeOK, NEW c \in Client, Judged(c), Tick \/ Others
  PROVE  Judged(c)'
<1> USE DEF statusVars, ratingVars, tierVars
<1>0. c \in Caller
  BY DEF Caller
<1>1. CASE Tick
  <2>1. call'[c] = Idle
    BY <1>0, <1>1 DEF Tick, Free
  <2> QED
    BY <2>1, IdleKnows, NothingKnown
<1>2. ASSUME NEW to \in {"approved", "rejected"}, ReviewDocument(to) PROVE Judged(c)'
  <2>1. document'.status # "pending" /\ UNCHANGED <<review, rating, call>>
    BY <1>2 DEF ReviewDocument, Approved, StoreTypeOK
  <2>2. Published' = Published
    BY <2>1 DEF Published
  <2> QED
    BY <2>1, <2>2, OtherKeeps
<1>3. ASSUME NEW o \in Order, NEW stars \in Stars[o], CreateReview(o, stars)
      PROVE  Judged(c)'
  <2>1. /\ review[o].status = NoReview
        /\ review' = [review EXCEPT ![o] = [status |-> "PENDING", rating |-> stars]]
        /\ UNCHANGED <<rating, document, call>>
    BY <1>3 DEF CreateReview
  <2>2. \A p \in Order :
          \/ review'[p] = review[p]
          \/ p = o /\ o \notin Published /\ review'[p].status = "PENDING"
    BY <2>1 DEF StoreTypeOK, Published, NoReview
  <2>3. /\ Published' = Published
        /\ \A p \in Published : review'[p].rating = review[p].rating
    BY <2>2 DEF Published
  <2> QED
    BY <2>1, <2>3, OtherKeeps
<1>4. CASE UNCHANGED <<review, rating, document, call>>
  <2>1. Published' = Published
    BY <1>4 DEF Published
  <2> QED
    BY <1>4, <2>1, OtherKeeps
<1>5. ASSUME \/ PenaltyApproved \/ FraudVerdict
             \/ \E approve \in BOOLEAN : ReviewAsked(approve)
             \/ \E p \in PointSet : Decay(p)
      PROVE  UNCHANGED <<review, rating, document, call>>
  BY <1>5 DEF PenaltyApproved, FraudVerdict, ReviewAsked, Decay
<1> QED
  BY <1>1, <1>2, <1>3, <1>4, <1>5 DEF Others

LEMMA StandingStep ==
  ASSUME OneClient, StandingFits, [StoreNext]_storeVars
  PROVE  StandingFits'
<1>1. StoreTypeOK /\ StoreTypeOK' /\ \A c \in Client : Judged(c)
  BY StoreTypeStep DEF StandingFits
<1>2. ASSUME NEW c \in Client PROVE Judged(c)'
  <2>1. \A d \in Client : (Start(d) \/ End(d)) => Judged(c)'
    BY <1>1, StartKnows, EndKnows DEF OneClient
  <2>2. UNCHANGED storeVars => Judged(c)'
    <3> SUFFICES ASSUME UNCHANGED storeVars PROVE Judged(c)'
      OBVIOUS
    <3>1. UNCHANGED <<review, rating, document, call>>
      BY DEF storeVars, statusVars, ratingVars
    <3>2. Published' = Published
      BY <3>1 DEF Published
    <3> QED
      BY <1>1, <3>1, <3>2, OtherKeeps
  <2> QED
    BY <1>1, <2>1, <2>2, JobKnows, OthersKnow DEF StoreNext
<1> QED
  BY <1>1, <1>2 DEF StandingFits

LEMMA StandingAlways ==
  ASSUME OneClient
  PROVE  StoreSpec => []StandingFits
<1>1. StoreInit => StandingFits
  <2> SUFFICES ASSUME StoreInit PROVE StandingFits
    OBVIOUS
  <2>1. \A c \in Client : call[c].stage = "idle"
    BY IdleKnows DEF StoreInit, Caller
  <2> QED
    BY <2>1, StoreTypeInit DEF StandingFits, Judged, Judging
<1>2. StandingFits /\ [StoreNext]_storeVars => StandingFits'
  BY StandingStep
<1> QED
  BY <1>1, <1>2, PTL DEF StoreSpec

(* With one client at a time, whatever the jobs, the reviewers and time do *)
(* in between, the rules that follow a publication see its rating.         *)
THEOREM StoreAlwaysJudged ==
  ASSUME OneClient
  PROVE  StoreSpec => []StoreInv
<1>1. StandingFits => StoreInv
  BY DEF StandingFits, StoreInv, JudgedOnPublished, Judged, Judging, Published
<1> QED
  BY <1>1, StandingAlways, PTL

(* With one client at a time, the visit that closes a store for an expired *)
(* document does not find that a new one came in since.                    *)
THEOREM RenewalAlwaysSpared ==
  ASSUME OneClient
  PROVE  StoreSpec => RenewalIsSpared
<1>1. StandingFits =>
        [\A c \in Client : VisitExpires(c) => document.status # "pending"]_storeVars
  BY DEF StandingFits, Judged, VisitExpires, At
<1> QED
  BY <1>1, StandingAlways, PTL DEF RenewalIsSpared
=============================================================================
