------------------------------- MODULE Stores -------------------------------
(***************************************************************************)
(* The standing of one store: its status, from the legal documents it must *)
(* renew to the suspensions that end by themselves (StoresService,         *)
(* StoreSuspensionService, the approvals of ViolationsService), the        *)
(* reviews of its orders and its rating (ReviewsService), and the tier it  *)
(* earns (MerchantPerformanceService).  Store.performanceScore is a        *)
(* function of the tier and the rating written with the tier, and is left  *)
(* out.                                                                    *)
(*                                                                         *)
(* A request writes one row, waits, and goes on with what follows from it. *)
(* The nightly job and the job of every twelve minutes list the store and  *)
(* write it afterwards by id.                                              *)
(***************************************************************************)
EXTENDS Integers, FiniteSets, FiniteSetsExt

CONSTANTS
  Order,          \* orders of the store that may be reviewed
  Stars,          \* [Order -> SUBSET 1..5], the ratings its review may give
  Poor,           \* the ratings a SUSPEND rule covers, in hundredths
  PointSet,       \* the values of the owner's violationScore
  Track,          \* the tiers whose minimum of orders is looked at
  Subscription,   \* the subscriptions an administrator may set
  AdminStatus,    \* the statuses an administrator may set
  Client, Job     \* requests and runs of a job in flight at once

StoreStatus == {"PENDING_DOCUMENTS", "PENDING_REVIEW", "ACTIVE", "REJECTED",
                "SUSPENDED", "BLOCKED", "LICENSE_EXPIRED"}
SubscriptionTier == {"NONE", "STANDARD", "PREMIUM"}
Tier == {"BASIC", "SILVER", "GOLD", "VIP", "ELITE"}
ReviewStatus == {"PENDING", "PUBLISHED", "REJECTED"}
NoReview == "none"

ASSUME StoresAssumption ==
  /\ IsFiniteSet(Order)
  /\ Stars \in [Order -> SUBSET (1..5)]
  /\ Poor \subseteq 0..500
  /\ PointSet \subseteq Nat
  /\ Track \subseteq {"GOLD", "VIP"}
  /\ Subscription \subseteq SubscriptionTier
  /\ AdminStatus \subseteq StoreStatus

Caller == Client \cup Job

(* Time is counted in units after which a suspension has ended, and an     *)
(* approved document has expired and its fifteen days of grace are over.   *)
Term == 1
Unset == -1

VARIABLES
  account,    \* Store.status
  until,      \* time left until Store.suspendedUntil, or Unset
  document,   \* the legal document: its status, the time left for it
  review,     \* the Review of an order: its status and rating
  rating,     \* Store.rating, in hundredths
  asked,      \* suspensions the rating asked for, in PENDING_APPROVAL
  points,     \* User.violationScore of the owner
  sub,        \* the subscription in effect
  earned,     \* the tiers the store has the orders, and the age, for
  tier,       \* Store.loyaltyTier
  call

statusVars == <<account, until, document>>
ratingVars == <<review, rating, asked>>
tierVars == <<points, sub, earned, tier>>
storeVars == <<statusVars, ratingVars, tierVars, call>>

-----------------------------------------------------------------------------
Idle == [stage |-> "idle"]
Calls ==
  [stage : {"activate", "upload", "expire", "published", "impact", "ask", "lift"}]
  \cup [stage : {"average"}, rating : 0..500]
  \cup [stage : {"recalculate"}, next : {"idle", "impact"}]
  \cup [stage : {"persist"}, next : {"idle", "impact"}, tier : Tier]

Free(c) == call[c] = Idle
Hold(c, r) == call' = [call EXCEPT ![c] = r]
Done(c) == Hold(c, Idle)
At(c, stage) == call[c].stage = stage

StoreTypeOK ==
  /\ account \in StoreStatus
  /\ until \in {Unset} \cup 0..Term
  /\ document \in [status : {"pending", "approved", "rejected"},
                   left : {Unset} \cup 0..Term]
  /\ review \in [Order -> [status : ReviewStatus \cup {NoReview}, rating : 0..5]]
  /\ rating \in 0..500
  /\ asked \in Nat
  /\ points \in Nat
  /\ sub \in SubscriptionTier
  /\ earned \subseteq Track
  /\ tier \in Tier
  /\ call \in [Caller -> {Idle} \cup Calls]

StoreInit ==
  /\ account = "PENDING_REVIEW"
  /\ until = Unset
  /\ document = [status |-> "pending", left |-> Unset]
  /\ review = [o \in Order |-> [status |-> NoReview, rating |-> 0]]
  /\ rating = 0
  /\ asked = 0
  /\ points = 0
  /\ sub = "NONE"
  /\ earned = {}
  /\ tier = "BASIC"
  /\ call = [c \in Caller |-> Idle]

-----------------------------------------------------------------------------
Sooner(n) == IF n > 0 THEN n - 1 ELSE n

(* Time runs out for a suspension, a document, a subscription; the store   *)
(* grows old enough for GOLD.  No handler runs that long.                  *)
Tick ==
  /\ \A c \in Caller : Free(c)
  /\ until' = Sooner(until)
  /\ document' = [document EXCEPT !.left = Sooner(@)]
  /\ sub' \in {sub, "NONE"}
  /\ \E T \in SUBSET ({"GOLD"} \cap Track) : earned' = earned \cup T
  /\ UNCHANGED <<account, ratingVars, points, tier, call>>

-----------------------------------------------------------------------------
(* The status of the store.                                                *)

(* updateStatus: an end that is not sent is not written.  Activation       *)
(* approves afterwards the documents that are pending.                     *)
UpdateStatus(c, to, end) ==
  /\ Free(c)
  /\ account' = to
  /\ until' = IF to # "SUSPENDED" THEN Unset ELSE IF end THEN Term ELSE until
  /\ IF to = "ACTIVE" THEN Hold(c, [stage |-> "activate"]) ELSE UNCHANGED call
  /\ UNCHANGED <<document, ratingVars, tierVars>>

Approved == [status |-> "approved", left |-> Term]

ApproveDocuments(c) ==
  /\ At(c, "activate")
  /\ document' = IF document.status = "pending" THEN Approved ELSE document
  /\ Done(c)
  /\ UNCHANGED <<account, until, ratingVars, tierVars>>

(* updateDocumentStatus leaves the store alone.                            *)
ReviewDocument(to) ==
  /\ document' = IF to = "approved" THEN Approved
                 ELSE [document EXCEPT !.status = to]
  /\ UNCHANGED <<account, until, ratingVars, tierVars, call>>

(* uploadDocument of a CR or a LICENSE: the document, then the store,      *)
(* whatever its status.  expiresAt stays what it was.                      *)
Upload(c) ==
  /\ Free(c)
  /\ document' = [document EXCEPT !.status = "pending"]
  /\ Hold(c, [stage |-> "upload"])
  /\ UNCHANGED <<account, until, ratingVars, tierVars>>

UploadSuspends(c) ==
  /\ At(c, "upload")
  /\ account' = "PENDING_REVIEW"
  /\ Done(c)
  /\ UNCHANGED <<until, document, ratingVars, tierVars>>

(* getDashboardStats: the owner's own visit finds the expired document.    *)

(* Bug: the document that replaces it expires with it. *)
OverdueRenewed == document.left = 0
Overdue == document.status = "approved" /\ document.left = 0

Visit(c) ==
  /\ Free(c)
  /\ Overdue
  /\ account \in {"ACTIVE", "PENDING_REVIEW"}
  /\ Hold(c, [stage |-> "expire"])
  /\ UNCHANGED <<statusVars, ratingVars, tierVars>>

VisitExpires(c) ==
  /\ At(c, "expire")
  /\ account' = "LICENSE_EXPIRED"
  /\ Done(c)
  /\ UNCHANGED <<until, document, ratingVars, tierVars>>

(* An approved penalty, of a threshold or of the rating; the verdict for   *)
(* fraud sets no end.                                                      *)
Suspend(end) == account' = "SUSPENDED" /\ until' = end

PenaltyApproved ==
  /\ \/ Suspend(Term)
     \/ account' = "BLOCKED" /\ UNCHANGED until
  /\ UNCHANGED <<document, ratingVars, tierVars, call>>

FraudVerdict ==
  /\ Suspend(until)
  /\ UNCHANGED <<document, ratingVars, tierVars, call>>

(* The job of every twelve minutes.                                        *)

(* Bug: a suspension of a store with points is not looked at. *)
EndedUnpointed == account = "SUSPENDED" /\ until = 0 /\ points = 0
Ended == account = "SUSPENDED" /\ until = 0

LiftList(j) ==
  /\ Free(j)
  /\ Ended
  /\ Hold(j, [stage |-> "lift"])
  /\ UNCHANGED <<statusVars, ratingVars, tierVars>>

LiftWrite(j) ==
  /\ At(j, "lift")
  /\ account' = "ACTIVE"
  /\ until' = Unset
  /\ Done(j)
  /\ UNCHANGED <<document, ratingVars, tierVars>>

-----------------------------------------------------------------------------
(* Reviews and the rating.                                                 *)

CreateReview(o, stars) ==
  /\ review[o].status = NoReview
  /\ review' = [review EXCEPT ![o] = [status |-> "PENDING", rating |-> stars]]
  /\ UNCHANGED <<statusVars, rating, asked, tierVars, call>>

(* updateStatus of a review does not look at its status.                   *)
Moderate(c, o, to) ==
  /\ Free(c)
  /\ review[o].status # NoReview
  /\ review' = [review EXCEPT ![o].status = to]
  /\ IF to = "PUBLISHED" THEN Hold(c, [stage |-> "published"]) ELSE UNCHANGED call
  /\ UNCHANGED <<statusVars, rating, asked, tierVars>>

(* Bug: the reviews that wait for moderation count. *)
CountedEarly(o) == review[o].status \in {"PENDING", "PUBLISHED"}
Counted(o) == review[o].status = "PUBLISHED"

Average(S) ==
  (100 * SumFunctionOnSet([o \in Order |-> review[o].rating], S)) \div Cardinality(S)

(* updateStoreRating.                                                      *)
RatingRead(c) ==
  LET S == {o \in Order : Counted(o)} IN
  /\ At(c, "published")
  /\ IF S = {} THEN Hold(c, [stage |-> "recalculate", next |-> "impact"])
     ELSE Hold(c, [stage |-> "average", rating |-> Average(S)])
  /\ UNCHANGED <<statusVars, ratingVars, tierVars>>

RatingWrite(c) ==
  /\ At(c, "average")
  /\ rating' = call[c].rating
  /\ Hold(c, [stage |-> "recalculate", next |-> "impact"])
  /\ UNCHANGED <<statusVars, review, asked, tierVars>>

(* evaluateRatingImpact: a SUSPEND rule asks for one suspension at a time. *)
ImpactRead(c) ==
  /\ At(c, "impact")
  /\ IF rating \in Poor /\ asked = 0 THEN Hold(c, [stage |-> "ask"]) ELSE Done(c)
  /\ UNCHANGED <<statusVars, ratingVars, tierVars>>

ImpactWrite(c) ==
  /\ At(c, "ask")
  /\ asked' = asked + 1
  /\ Done(c)
  /\ UNCHANGED <<statusVars, review, rating, tierVars>>

(* reviewPenaltyAction of such a suspension.                               *)
ReviewAsked(approve) ==
  /\ asked > 0
  /\ asked' = asked - 1
  /\ IF approve THEN Suspend(Term) ELSE UNCHANGED <<account, until>>
  /\ UNCHANGED <<document, review, rating, tierVars, call>>

-----------------------------------------------------------------------------
(* The tier.                                                               *)

(* computeAutoTier, a tier at a time.                                      *)
Deserves ==
  [BASIC |-> TRUE,
   SILVER |-> sub # "NONE" /\ rating >= 350 /\ points < 40,
   GOLD |-> sub # "NONE" /\ rating >= 400 /\ points < 25 /\ "GOLD" \in earned,
   VIP |-> sub = "PREMIUM" /\ rating >= 450 /\ points < 10 /\ "VIP" \in earned]

AutoTier ==
  IF Deserves.VIP THEN "VIP"
  ELSE IF Deserves.GOLD THEN "GOLD"
  ELSE IF Deserves.SILVER THEN "SILVER" ELSE "BASIC"

Due == IF tier = "ELITE" THEN "ELITE" ELSE AutoTier

(* recalculateAndPersist, which ends the handlers that change what it      *)
(* reads, and the nightly job.                                             *)
Recalculate(c, next) == Hold(c, [stage |-> "recalculate", next |-> next])

TierRead(c) ==
  /\ At(c, "recalculate")
  /\ Hold(c, [stage |-> "persist", next |-> call[c].next, tier |-> Due])
  /\ UNCHANGED <<statusVars, ratingVars, tierVars>>

TierWrite(c) ==
  /\ At(c, "persist")
  /\ tier' = call[c].tier
  /\ Hold(c, [stage |-> call[c].next])
  /\ UNCHANGED <<statusVars, ratingVars, points, sub, earned>>

(* adminUpdateSubscription.                                                *)
UpdateSubscription(c, s) ==
  /\ Free(c)
  /\ sub' = s
  /\ Recalculate(c, "idle")
  /\ UNCHANGED <<statusVars, ratingVars, points, earned, tier>>

(* A violation, an accepted appeal or a drop (Penalties) ends with a       *)
(* recalculation; a decay does not.                                        *)
PointsChange(c, p) ==
  /\ Free(c)
  /\ points' = p
  /\ Recalculate(c, "idle")
  /\ UNCHANGED <<statusVars, ratingVars, sub, earned, tier>>

Decay(p) ==
  /\ p < points
  /\ points' = p
  /\ UNCHANGED <<statusVars, ratingVars, sub, earned, tier, call>>

(* The rewards of a completed order (Loyalty) count the order.             *)
OrderCounted(c, T) ==
  /\ Free(c)
  /\ earned' = earned \cup T
  /\ Recalculate(c, "idle")
  /\ UNCHANGED <<statusVars, ratingVars, points, sub, tier>>

(* Bug: only stores with a subscription are looked at. *)
SubscribedNightly == account = "ACTIVE" /\ sub # "NONE"
Nightly == account = "ACTIVE"

NightList(j) ==
  /\ Free(j)
  /\ Nightly
  /\ Recalculate(j, "idle")
  /\ UNCHANGED <<statusVars, ratingVars, tierVars>>

-----------------------------------------------------------------------------
Start(c) ==
  \/ \E to \in AdminStatus, end \in BOOLEAN : UpdateStatus(c, to, end)
  \/ Upload(c) \/ Visit(c)
  \/ \E o \in Order, to \in ReviewStatus \ {"PENDING"} : Moderate(c, o, to)
  \/ \E s \in Subscription : UpdateSubscription(c, s)
  \/ \E p \in PointSet : PointsChange(c, p)
  \/ \E T \in SUBSET Track : OrderCounted(c, T)

End(c) ==
  \/ ApproveDocuments(c) \/ UploadSuspends(c) \/ VisitExpires(c)
  \/ RatingRead(c) \/ RatingWrite(c) \/ ImpactRead(c) \/ ImpactWrite(c)
  \/ TierRead(c) \/ TierWrite(c)

JobStart(j) == LiftList(j) \/ NightList(j)
JobEnd(j) == LiftWrite(j) \/ TierRead(j) \/ TierWrite(j)

Others ==
  \/ \E to \in {"approved", "rejected"} : ReviewDocument(to)
  \/ PenaltyApproved \/ FraudVerdict
  \/ \E o \in Order : \E stars \in Stars[o] : CreateReview(o, stars)
  \/ \E approve \in BOOLEAN : ReviewAsked(approve)
  \/ \E p \in PointSet : Decay(p)

StoreNext ==
  \/ Tick
  \/ Others
  \/ \E c \in Client : Start(c) \/ End(c)
  \/ \E j \in Job : JobStart(j) \/ JobEnd(j)

StoreSpec == StoreInit /\ [][StoreNext]_storeVars

(* The jobs meet what they look for, and what has begun ends.              *)
StoreFairness ==
  /\ \A c \in Client : WF_storeVars(End(c))
  /\ \A j \in Job : /\ SF_storeVars(LiftList(j))
                    /\ SF_storeVars(NightList(j))
                    /\ WF_storeVars(JobEnd(j))

FairStoreSpec == StoreSpec /\ StoreFairness

-----------------------------------------------------------------------------
(* Properties.                                                             *)

(* The rules that judge a publication see the rating it brought about: the *)
(* average of the published reviews, and none that waits or was refused.   *)
JudgedOnPublished ==
  \A c \in Client : call[c].stage \in {"impact", "ask"} =>
    rating = Average({o \in Order : review[o].status = "PUBLISHED"})

(* The row of the store and the requests in flight keep their types, and a *)
(* store is judged on what was published: see JudgedOnPublished.           *)
StoreInv == StoreTypeOK /\ JudgedOnPublished

(* A store that has sent in the document that had expired is not closed    *)
(* for it while the new one waits.                                         *)
RenewalIsSpared ==
  [][\A c \in Client : VisitExpires(c) => document.status # "pending"]_storeVars

(* A store does not stay suspended past the end of its suspension.         *)
SuspensionEnds ==
  (account = "SUSPENDED" /\ until = 0) ~> ~(account = "SUSPENDED" /\ until = 0)

(* A store whose tier is out of date, for what decayed, lapsed or grew     *)
(* without a recalculation, or for a recalculation that two runs made at   *)
(* once, has the tier it deserves in the end, unless it is not active.     *)
TierCatchesUp == (account = "ACTIVE" /\ tier # Due) ~> (account # "ACTIVE" \/ tier = Due)
=============================================================================
