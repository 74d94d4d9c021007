------------------------------- MODULE Loyalty ------------------------------
(***************************************************************************)
(* What the completion of an order brings (LoyaltyService): the customer's *)
(* reward, spending and tier, the merchant's earnings, the commission of   *)
(* the user who referred the customer; and the review of the rewards of a  *)
(* customer after a severe violation (ViolationsService).                  *)
(*                                                                         *)
(* transitionStatus reads the status of an order, writes it by the id of   *)
(* the order, and starts the two runs of a completion without waiting for  *)
(* them: two requests may complete one order.  The runs read, wait and     *)
(* write on their own, beside those of the other requests, and are lost    *)
(* when the process stops.  All orders are worth the same, of one customer *)
(* and one store.                                                          *)
(***************************************************************************)
EXTENDS OrderFsm, Integers, FiniteSets, FiniteSetsExt

CONSTANTS
  Order,
  Run,             \* the requests in flight at once, each with its runs
  Target,          \* the statuses a delivered order is moved to
  Worth,           \* what is paid for an order
  TierStart,       \* [Tier -> Nat], the spending a tier begins at
  Reward,          \* [Tier -> Nat], the reward of an order, order caps applied
  Cap,             \* [Tier -> Nat], the monthly cap; the least one of PARTNER
  Commission,      \* what the referrer receives for an order
  MaxCompletions   \* bound on the completions: the code has none

Tier == {"BASIC", "SILVER", "GOLD", "VIP", "PARTNER"}
Decision == {"REWARDS_CANCELLED", "KEPT"}

ASSUME LoyaltyAssumption ==
  /\ IsFiniteSet(Order) /\ Order # {}
  /\ IsFiniteSet(Run) /\ Run # {}
  /\ Target \subseteq Status
  /\ Worth \in Nat /\ Commission \in Nat /\ MaxCompletions \in Nat
  /\ TierStart \in [Tier -> Nat] /\ TierStart["BASIC"] = 0
  /\ Reward \in [Tier -> Nat]
  /\ Cap \in [Tier -> Nat]

VARIABLES
  order,       \* status, whether it is warranted, whether it has a case
  completions, \* how often orders were completed, for the bound
  spent,       \* User.totalSpent
  tier,        \* User.loyaltyTier
  balance,     \* User.customerBalance, as the rewards change it
  profit,      \* [Order -> Nat], the ORDER_PROFIT rows of the order
  month,       \* the ORDER_PROFIT rows of the month
  window,      \* the referral window of the customer is open
  referrer,    \* customerBalance of the referrer
  referral,    \* [Order -> Nat], the REFERRAL_PROFIT rows of the order
  lifetime,    \* Store.lifetimeEarnings
  counted,     \* Store.completedOrdersCount
  reviewAlert, \* status of the LoyaltyReviewAlert, if any
  reward,      \* [Run -> a transition, and the reward run it starts]
  refer,       \* [Run -> the referral run it starts]
  admin        \* the decision being carried out

customerVars == <<spent, tier, balance, profit, month>>
referralVars == <<referrer, referral>>
storeVars == <<lifetime, counted>>
orderVars == <<order, completions, window>>
loyaltyVars == <<orderVars, customerVars, referralVars, storeVars, reviewAlert, reward,
                 refer, admin>>

-----------------------------------------------------------------------------
NoRun == [stage |-> "idle"]
Started(o) == [stage |-> "started", order |-> o]
RewardRun ==
  {NoRun}
  \cup [stage : {"move"}, order : Order, to : Target]
  \cup [stage : {"started"}, order : Order]
  \cup [stage : {"grant"}, order : Order, spent : Nat, gain : Nat, lifetime : Nat]
  \cup [stage : {"store"}, lifetime : Nat]
ReferralRun == {NoRun} \cup [stage : {"started", "pay"}, order : Order]
AdminRun == {NoRun} \cup [stage : {"cancel", "close"}, decision : Decision]

LoyaltyTypeOK ==
  /\ order \in [Order -> [status : Status, warranted : BOOLEAN, case : BOOLEAN]]
  /\ completions \in 0..MaxCompletions
  /\ spent \in Nat /\ tier \in Tier
  /\ balance \in Nat /\ profit \in [Order -> Nat] /\ month \in Nat
  /\ window \in BOOLEAN
  /\ referrer \in Nat /\ referral \in [Order -> Nat]
  /\ lifetime \in Nat /\ counted \in Nat
  /\ reviewAlert \in {"none", "PENDING_REVIEW"} \cup Decision
  /\ reward \in [Run -> RewardRun]
  /\ refer \in [Run -> ReferralRun]
  /\ admin \in AdminRun

LoyaltyInit ==
  /\ order \in [Order -> [status : {"DELIVERED"}, warranted : BOOLEAN, case : {FALSE}]]
  /\ completions = 0
  /\ spent = 0 /\ tier = "BASIC"
  /\ balance = 0 /\ profit = [o \in Order |-> 0] /\ month = 0
  /\ window = TRUE
  /\ referrer = 0 /\ referral = [o \in Order |-> 0]
  /\ lifetime = 0 /\ counted = 0
  /\ reviewAlert = "none"
  /\ reward = [r \in Run |-> NoRun]
  /\ refer = [r \in Run |-> NoRun]
  /\ admin = NoRun

-----------------------------------------------------------------------------
(* The orders.                                                             *)

(* transitionStatus: the status is read and validated, and written below   *)
(* whatever the order is by then.                                          *)
TransitionRead(r, o, to) ==
  /\ reward[r] = NoRun /\ refer[r] = NoRun
  /\ CanTransition(order[o].status, to)
  /\ reward' = [reward EXCEPT ![r] = [stage |-> "move", order |-> o, to |-> to]]
  /\ UNCHANGED <<orderVars, customerVars, referralVars, storeVars, reviewAlert, refer,
                 admin>>

SetStatus(r, status) == order' = [order EXCEPT ![reward[r].order].status = status]

TransitionWrite(r) ==
  /\ reward[r].stage = "move" /\ reward[r].to # "COMPLETED"
  /\ SetStatus(r, reward[r].to)
  /\ reward' = [reward EXCEPT ![r] = NoRun]
  /\ UNCHANGED <<completions, window, customerVars, referralVars, storeVars, reviewAlert,
                 refer, admin>>

(* A warranted order that is completed is under warranty instead, and both *)
(* runs are started all the same.                                          *)
Complete(r) ==
  LET o == reward[r].order IN
  /\ reward[r].stage = "move" /\ reward[r].to = "COMPLETED"
  /\ completions < MaxCompletions
  /\ SetStatus(r, IF order[o].warranted THEN "WARRANTY_ACTIVE" ELSE "COMPLETED")
  /\ completions' = completions + 1
  /\ reward' = [reward EXCEPT ![r] = Started(o)]
  /\ refer' = [refer EXCEPT ![r] = Started(o)]
  /\ UNCHANGED <<window, customerVars, referralVars, storeVars, reviewAlert, admin>>

(* A return or a dispute (Returns).                                        *)
OpenCase(o) ==
  /\ order[o].status \in {"DELIVERED", "WARRANTY_ACTIVE"}
  /\ \E to \in {"RETURN_REQUESTED", "DISPUTED"} :
       order' = [order EXCEPT ![o].status = to, ![o].case = TRUE]
  /\ UNCHANGED <<completions, window, customerVars, referralVars, storeVars, reviewAlert,
                 reward, refer, admin>>

NewMonth ==
  /\ month' = 0
  /\ UNCHANGED <<orderVars, spent, tier, balance, profit, referralVars, storeVars,
                 reviewAlert, reward, refer, admin>>

WindowCloses ==
  /\ window
  /\ window' = FALSE
  /\ UNCHANGED <<order, completions, customerVars, referralVars, storeVars, reviewAlert,
                 reward, refer, admin>>

(* The process stops: the runs are gone, and so is the decision.           *)
Restart ==
  /\ reward' = [r \in Run |-> NoRun]
  /\ refer' = [r \in Run |-> NoRun]
  /\ admin' = NoRun
  /\ UNCHANGED <<orderVars, customerVars, referralVars, storeVars, reviewAlert>>

-----------------------------------------------------------------------------
(* grantOrderCompletionRewards.                                            *)

Eligible(o) == order[o].status = "COMPLETED" /\ ~order[o].case

Completed == {o \in Order : order[o].status = "COMPLETED"}

(* The cap of PARTNER is a tenth of the spending of the month, if more.    *)
MonthlyCap ==
  LET tenth == (Worth * Cardinality(Completed)) \div 10 IN
  IF tier = "PARTNER" /\ tenth > Cap[tier] THEN tenth ELSE Cap[tier]

(* Bug: the cap is that of one order, not of the month. *)
CappedByOrder(amount) == IF amount > MonthlyCap + 1 THEN MonthlyCap ELSE amount
Capped(amount) ==
  IF month >= MonthlyCap THEN 0
  ELSE IF month + amount > MonthlyCap THEN MonthlyCap - month ELSE amount

RewardRead(r) ==
  LET o == reward[r].order IN
  /\ reward[r].stage = "started"
  /\ reward' = [reward EXCEPT ![r] =
       IF Eligible(o)
       THEN [stage |-> "grant", order |-> o, spent |-> spent,
             gain |-> Capped(Reward[tier]), lifetime |-> lifetime]
       ELSE NoRun]
  /\ UNCHANGED <<orderVars, customerVars, referralVars, storeVars, reviewAlert, refer,
                 admin>>

(* Bug: what was paid is added for the order and for its payment. *)
WithOrderTwice(n) == n + 2 * Worth
WithOrder(n) == n + Worth

TierOf(n) ==
  CHOOSE t \in Tier : /\ TierStart[t] <= n
                      /\ \A u \in Tier : TierStart[u] <= n => TierStart[u] <= TierStart[t]

Booked(o, gain) ==
  /\ profit' = [profit EXCEPT ![o] = @ + gain]
  /\ month' = month + gain

(* The spending and the tier as they were read; the balance as it is.      *)
Granted(r, now) ==
  LET run == reward[r] IN
  /\ run.stage = "grant"
  /\ spent' = WithOrder(run.spent)
  /\ tier' = TierOf(WithOrder(now))
  /\ balance' = balance + run.gain
  /\ Booked(run.order, run.gain)
  /\ reward' = [reward EXCEPT ![r] = [stage |-> "store", lifetime |-> run.lifetime]]
  /\ UNCHANGED <<orderVars, referralVars, storeVars, reviewAlert, refer, admin>>

(* Bug: the tier is that of the spending at the write. *)
GrantAnew(r) == Granted(r, spent)
RewardWrite(r) == Granted(r, reward[r].spent)

(* The store afterwards; its tier follows (OrderCounted of Stores).        *)
StoreWrite(r) ==
  /\ reward[r].stage = "store"
  /\ lifetime' = WithOrder(reward[r].lifetime)
  /\ counted' = counted + 1
  /\ reward' = [reward EXCEPT ![r] = NoRun]
  /\ UNCHANGED <<orderVars, customerVars, referralVars, reviewAlert, refer, admin>>

-----------------------------------------------------------------------------
(* processReferralReward: that the order has no row is found first, and    *)
(* nothing makes sure of it when the row is written.                       *)

(* Bug: that the order was rewarded before is not looked at. *)
ReferableAgain(o) == Eligible(o) /\ window
Referable(o) == Eligible(o) /\ window /\ referral[o] = 0

ReferralRead(r) ==
  LET o == refer[r].order IN
  /\ refer[r].stage = "started"
  /\ refer' = [refer EXCEPT ![r] =
       IF Referable(o) THEN [stage |-> "pay", order |-> o] ELSE NoRun]
  /\ UNCHANGED <<orderVars, customerVars, referralVars, storeVars, reviewAlert, reward,
                 admin>>

ReferralWrite(r) ==
  /\ refer[r].stage = "pay"
  /\ referrer' = referrer + Commission
  /\ referral' = [referral EXCEPT ![refer[r].order] = @ + 1]
  /\ refer' = [refer EXCEPT ![r] = NoRun]
  /\ UNCHANGED <<orderVars, customerVars, storeVars, reviewAlert, reward, admin>>

-----------------------------------------------------------------------------
(* A severe violation asks whether the customer keeps the rewards.         *)
AskReview ==
  /\ reviewAlert = "none"
  /\ reviewAlert' = "PENDING_REVIEW"
  /\ UNCHANGED <<orderVars, customerVars, referralVars, storeVars, reward, refer,
                 admin>>

(* decideLoyaltyAlert: the rewards first, the alert afterwards.            *)
Decide(d) ==
  /\ admin = NoRun
  /\ reviewAlert = "PENDING_REVIEW"
  /\ admin' = [stage |-> IF d = "KEPT" THEN "close" ELSE "cancel", decision |-> d]
  /\ UNCHANGED <<orderVars, customerVars, referralVars, storeVars, reviewAlert, reward,
                 refer>>

(* cancelAllRewards: the points and the tier; not the spending.            *)
CancelRewards ==
  /\ admin.stage = "cancel"
  /\ tier' = "BASIC"
  /\ admin' = [admin EXCEPT !.stage = "close"]
  /\ UNCHANGED <<orderVars, spent, balance, profit, month, referralVars, storeVars,
                 reviewAlert, reward, refer>>

CloseAlert ==
  /\ admin.stage = "close"
  /\ reviewAlert' = admin.decision
  /\ admin' = NoRun
  /\ UNCHANGED <<orderVars, customerVars, referralVars, storeVars, reward, refer>>

-----------------------------------------------------------------------------
LoyaltyNext ==
  \/ \E r \in Run :
       \/ \E o \in Order, to \in Target : TransitionRead(r, o, to)
       \/ TransitionWrite(r) \/ Complete(r)
       \/ RewardRead(r) \/ RewardWrite(r) \/ StoreWrite(r)
       \/ ReferralRead(r) \/ ReferralWrite(r)
  \/ \E o \in Order : OpenCase(o)
  \/ NewMonth \/ WindowCloses \/ Restart
  \/ AskReview \/ \E d \in Decision : Decide(d)
  \/ CancelRewards \/ CloseAlert

LoyaltySpec == LoyaltyInit /\ [][LoyaltyNext]_loyaltyVars

-----------------------------------------------------------------------------
(* Properties.                                                             *)

Total(f) == SumFunctionOnSet(f, Order)

(* Whatever overlaps or is lost, every amount the rewards added to a       *)
(* balance has its row in the ledger.                                      *)
BalanceIsLedger ==
  /\ balance = Total(profit)
  /\ referrer = Commission * Total(referral)

(* That an order was rewarded is looked for before the transaction, so     *)
(* that completions of one order that overlap pay its commission again;    *)
(* but never more often than there are requests in flight at once, however *)
(* often the order is completed.                                           *)
ReferralPaidPerOverlap == \A o \in Order : referral[o] <= Cardinality(Run)

(* The tier is what the spending gives, also when runs overwrite each      *)
(* other's totals, or BASIC since the rewards were cancelled.              *)
TierFitsSpent == tier \in {"BASIC", TierOf(spent)}

(* Runs in flight at once may each take the last of the month's cap, also  *)
(* those of one order; but the month passes the highest cap by no more     *)
(* than one reward for each of them but one.                               *)
Most(f) == CHOOSE n \in {f[t] : t \in Tier} : \A t \in Tier : f[t] <= n

HighestCap ==
  LET tenth == (Worth * Cardinality(Order)) \div 10 IN
  IF tenth > Most(Cap) THEN tenth ELSE Most(Cap)

CapIsNearlyKept == month <= HighestCap + (Cardinality(Run) - 1) * Most(Reward)

(* Overlapping completions may lose totals, but never invent them: neither *)
(* the customer's spending nor the store's earnings pass what the orders   *)
(* counted for the store are worth, but for the orders on their way to it. *)
NothingInvented ==
  /\ lifetime <= Worth * counted
  /\ spent <= Worth * completions

(* The rows and the runs in flight keep their types, and no money or       *)
(* progress comes from nowhere: see BalanceIsLedger and NothingInvented.   *)
LoyaltyInv == LoyaltyTypeOK /\ BalanceIsLedger /\ NothingInvented
=============================================================================
