----------------------------- MODULE Penalties ------------------------------
(***************************************************************************)
(* The violations of one account, a store or a customer: the points they   *)
(* add to User.violationScore, their appeals, their decay, and the         *)
(* penalties that a threshold of points asks an administrator to approve   *)
(* (ViolationsService and ViolationDecayService).  The fines are in        *)
(* Payouts, the status and the tier of the account in Stores.              *)
(*                                                                         *)
(* A request checks a row, waits, and writes by id in one transaction.     *)
(* The job lists rows and then writes them one by one, also by id.  The    *)
(* transactions are READ COMMITTED: each reads the score, and later writes *)
(* a number, so two that overlap may lose one change.  Rows nobody can     *)
(* tell apart are counted: the penalties of a threshold with a status, the *)
(* pending appeals of a violation.                                         *)
(***************************************************************************)
EXTENDS Integers, Sequences, FiniteSets, FiniteSetsExt

CONSTANTS
  Points,         \* the points a violation may have
  Key, NoKey,     \* uniqueKey: a code, an order and a target, or null
  Threshold,      \* the active PenaltyThresholds of the kind of account
  Level,          \* [Threshold -> Nat], thresholdPoints
  Ruling,         \* the statuses administrators give to penalties
  Client, Job,    \* requests and runs of a job in flight at once
  MaxViolations   \* bound on the violations: the code has none

ViolationStatus == {"ACTIVE", "APPEALED", "DROPPED", "DECAYED"}
PenaltyActionStatus == {"PENDING_APPROVAL", "APPROVED", "REJECTED", "DELAYED",
                        "EXECUTED"}

ASSUME PenaltiesAssumption ==
  /\ Points \subseteq Nat
  /\ Ruling \subseteq PenaltyActionStatus
  /\ NoKey \notin Key
  /\ Level \in [Threshold -> Nat]
  /\ MaxViolations \in Nat

Caller == Client \cup Job

(* Time is counted in the days after which a violation decays.             *)
Term == 1

VARIABLES
  score,        \* User.violationScore
  violations,   \* the rows of Violation
  penalties,    \* how many PenaltyActions a threshold has with a status
  alert,        \* the customer has a CustomerRiskAlert in PENDING_REVIEW
  call,
  revived       \* history: points of the score that a write over a newer one
                \* brought back

Violation == [points : Nat, status : ViolationStatus, left : 0..Term,
              key : Key \cup {NoKey}, appeals : Nat]

pointVars == <<score, violations, penalties, alert, revived>>
penaltyVars == <<pointVars, call>>

-----------------------------------------------------------------------------
Idle == [stage |-> "idle"]
OpNames == {"appeal", "review", "drop"}
Calls ==
  [stage : {"issue"}, points : Points, key : Key]
  \cup [stage : {"record"}, points : Points, key : Key \cup {NoKey}, seen : Nat,
         alert : BOOLEAN]
  \cup [stage : {"read"}, op : OpNames, row : Nat, ok : BOOLEAN]
  \cup [stage : {"score"}, op : {"review", "drop"}, row : Nat, seen : Nat]
  \cup [stage : {"alert"}]
  \cup [stage : {"decay"}, todo : SUBSET Nat]
  \cup [stage : {"fade"}, todo : SUBSET Nat, row : Nat, seen : Nat]

Free(c) == call[c] = Idle
Hold(c, r) == call' = [call EXCEPT ![c] = r]
Done(c) == Hold(c, Idle)
Began(op, v, ok) == [stage |-> "read", op |-> op, row |-> v, ok |-> ok]
At(c, op) == call[c].stage = "read" /\ call[c].op = op
Scored(c, op) == call[c].stage = "score" /\ call[c].op = op

Rows == DOMAIN violations
Standing(v) == violations[v].status \in {"ACTIVE", "APPEALED"}

PenaltyTypeOK ==
  /\ score \in Nat
  /\ violations \in Seq(Violation)
  /\ penalties \in [Threshold -> [PenaltyActionStatus -> Nat]]
  /\ alert \in BOOLEAN
  /\ call \in [Caller -> {Idle} \cup Calls]
  /\ \A c \in Caller : call[c].stage \in {"read", "score", "fade"} => call[c].row \in Rows
  /\ revived \in Nat

PenaltyInit ==
  /\ score = 0
  /\ violations = <<>>
  /\ penalties = [t \in Threshold |-> [s \in PenaltyActionStatus |-> 0]]
  /\ alert = FALSE
  /\ call = [c \in Caller |-> Idle]
  /\ revived = 0

-----------------------------------------------------------------------------
Sooner(n) == IF n > 0 THEN n - 1 ELSE n

(* A day may end under a handler.                                          *)
Tick ==
  /\ violations' = [v \in Rows |-> [violations[v] EXCEPT !.left = Sooner(@)]]
  /\ UNCHANGED <<score, penalties, alert, call, revived>>

-----------------------------------------------------------------------------
Lesser(m, n) == IF m < n THEN m ELSE n

(* A transaction that read the score as seen writes n, over what others    *)
(* committed meanwhile.                                                    *)
ScoreWrite(n, seen) ==
  /\ score' = n
  /\ revived' = Lesser(n, IF seen > score THEN revived + (seen - score) ELSE revived)

(* The job updates the violation first, and holds its row until it commits. *)
Locked(v) == \E j \in Caller : call[j].stage = "fade" /\ call[j].row = v

(* A transaction may fail: a deadlock of two that hold what the other      *)
(* waits for, or any error.  It leaves nothing; the job gives up its list. *)
RollBack(c) ==
  /\ call[c].stage \in {"record", "score", "fade"}
  /\ Done(c)
  /\ UNCHANGED pointVars

-----------------------------------------------------------------------------
(* A violation: by hand, or by a job or a verdict with a uniqueKey, which  *)
(* is looked up before the transaction and is a unique index in it.        *)

(* The bound on the rows counts those on their way.                        *)
Room ==
  Len(violations)
    + Cardinality({c \in Caller : call[c].stage \in {"issue", "alert", "record"}})
    < MaxViolations

KeyTaken(k) == \E v \in Rows : violations[v].key = k

(* The transaction inserts the row and reads the score.                    *)
Recording(p, k, ofAlert) ==
  [stage |-> "record", points |-> p, key |-> k, seen |-> score, alert |-> ofAlert]

IssueRead(c, p, k) ==
  /\ Free(c)
  /\ Room
  /\ ~KeyTaken(k)
  /\ Hold(c, [stage |-> "issue", points |-> p, key |-> k])
  /\ UNCHANGED pointVars

(* By hand nothing is looked up.                                           *)
IssueByHand(c, p) ==
  /\ Free(c)
  /\ Room
  /\ Hold(c, Recording(p, NoKey, FALSE))
  /\ UNCHANGED pointVars

(* Bug: a penalty put off is not one yet. *)
AnsweredPending(t) == penalties[t]["PENDING_APPROVAL"] + penalties[t]["EXECUTED"] > 0
Answered(t) ==
  \E s \in {"PENDING_APPROVAL", "EXECUTED", "DELAYED"} : penalties[t][s] > 0

(* Bug: a threshold is reached by more points only. *)
ReachedBeyond(points) == {t \in Threshold : Level[t] < points}
Reached(points) == {t \in Threshold : Level[t] <= points}

(* checkAndTriggerPenalty.                                                 *)
Triggered(points) ==
  [t \in Threshold |->
    IF t \in Reached(points) /\ ~Answered(t)
    THEN [penalties[t] EXCEPT !["PENDING_APPROVAL"] = @ + 1] ELSE penalties[t]]

(* An insert of a key waits for that of another transaction to commit.     *)
KeyHeld(k) ==
  \E c \in Caller : call[c].stage = "record" /\ call[c].key = k

IssueScore(c) ==
  /\ call[c].stage = "issue"
  /\ ~KeyTaken(call[c].key)
  /\ ~KeyHeld(call[c].key)
  /\ Hold(c, Recording(call[c].points, call[c].key, FALSE))
  /\ UNCHANGED pointVars

(* The key was taken since: the insert fails, and autoIssue logs it.       *)
IssueFails(c) ==
  /\ call[c].stage = "issue"
  /\ KeyTaken(call[c].key)
  /\ Done(c)
  /\ UNCHANGED pointVars

(* It writes the score, which locks the user, looks at the thresholds and  *)
(* commits.                                                                *)
IssueWrite(c) ==
  LET n == call[c].seen + call[c].points IN
  /\ call[c].stage = "record"
  /\ violations' = Append(violations, [points |-> call[c].points, status |-> "ACTIVE",
                                       left |-> Term, key |-> call[c].key, appeals |-> 0])
  /\ ScoreWrite(n, call[c].seen)
  /\ penalties' = Triggered(n)
  /\ alert' = (alert /\ ~call[c].alert)
  /\ Done(c)

(* The return rate of an account that is a customer raises one alert at a  *)
(* time; its review may be a violation, in the transaction that closes it  *)
(* and keeps its row locked.                                               *)
RaiseAlert ==
  /\ ~alert
  /\ Room
  /\ alert' = TRUE
  /\ UNCHANGED <<score, violations, penalties, call, revived>>

AlertLocked == \E c \in Caller : call[c].stage = "record" /\ call[c].alert

AlertRead(c) ==
  /\ Free(c)
  /\ alert
  /\ Room
  /\ Hold(c, [stage |-> "alert"])
  /\ UNCHANGED pointVars

AlertScore(c, p) ==
  /\ call[c].stage = "alert"
  /\ ~AlertLocked
  /\ Hold(c, Recording(p, NoKey, TRUE))
  /\ UNCHANGED pointVars

DismissAlert(c) ==
  /\ call[c].stage = "alert"
  /\ ~AlertLocked
  /\ alert' = FALSE
  /\ Done(c)
  /\ UNCHANGED <<score, violations, penalties, revived>>

-----------------------------------------------------------------------------
(* Bug: the points stay when the violation goes. *)
Keep(seen, points) == seen

Less(seen, points) == IF seen > points THEN seen - points ELSE 0

AppealRead(c, v) ==
  /\ Free(c)
  /\ violations[v].status = "ACTIVE"
  /\ Hold(c, Began("appeal", v, TRUE))
  /\ UNCHANGED pointVars

AppealWrite(c) ==
  /\ At(c, "appeal")
  /\ ~Locked(call[c].row)
  /\ violations' = [violations EXCEPT ![call[c].row].status = "APPEALED",
                                      ![call[c].row].appeals = @ + 1]
  /\ Done(c)
  /\ UNCHANGED <<score, penalties, alert, revived>>

(* An administrator reviews an appeal that getPendingAppeals lists.        *)
ReviewRead(c, v, ok) ==
  /\ Free(c)
  /\ violations[v].appeals > 0
  /\ Hold(c, Began("review", v, ok))
  /\ UNCHANGED pointVars

Sub(n) == IF n > 0 THEN n - 1 ELSE 0

(* Whatever has become of the violation: the appeal may have waited long.  *)
RejectAppeal(c) ==
  LET v == call[c].row IN
  /\ At(c, "review") /\ ~call[c].ok
  /\ ~Locked(v)
  /\ violations' = [violations EXCEPT ![v].status = "ACTIVE", ![v].appeals = Sub(@)]
  /\ Done(c)
  /\ UNCHANGED <<score, penalties, alert, revived>>

DropRead(c, v) ==
  /\ Free(c)
  /\ Standing(v)
  /\ Hold(c, Began("drop", v, TRUE))
  /\ UNCHANGED pointVars

(* Who takes points off reads the score first.  Two reviews of one appeal  *)
(* wait for each other; appeals are counted, so here they may overlap.     *)
ScoreRead(c) ==
  /\ At(c, "drop") \/ (At(c, "review") /\ call[c].ok)
  /\ Hold(c, [stage |-> "score", op |-> call[c].op, row |-> call[c].row, seen |-> score])
  /\ UNCHANGED pointVars

Dropped(c, appeals) ==
  LET v == call[c].row IN
  /\ ~Locked(v)
  /\ violations' = [violations EXCEPT ![v].status = "DROPPED", ![v].appeals = appeals]
  /\ ScoreWrite(Less(call[c].seen, violations[v].points), call[c].seen)
  /\ Done(c)
  /\ UNCHANGED <<penalties, alert>>

ReviewWrite(c) ==
  /\ Scored(c, "review")
  /\ Dropped(c, Sub(violations[call[c].row].appeals))

DropWrite(c) ==
  /\ Scored(c, "drop")
  /\ Dropped(c, violations[call[c].row].appeals)

(* The nightly job.                                                        *)

(* Bug: only a violation with an appeal is looked at. *)
RipeAppealed(v) ==
  violations[v].status = "ACTIVE" /\ violations[v].left = 0 /\ violations[v].appeals > 0
Ripe(v) == violations[v].status = "ACTIVE" /\ violations[v].left = 0

DecayList(j) ==
  LET R == {v \in Rows : Ripe(v)} IN
  /\ Free(j)
  /\ R # {}
  /\ Hold(j, [stage |-> "decay", todo |-> R])
  /\ UNCHANGED pointVars

(* One violation after another, each in a transaction of its own.          *)
DecayScore(j, v) ==
  /\ call[j].stage = "decay"
  /\ v \in call[j].todo
  /\ ~Locked(v)
  /\ Hold(j, [stage |-> "fade", todo |-> call[j].todo, row |-> v, seen |-> score])
  /\ UNCHANGED pointVars

DecayWrite(j, v) ==
  LET rest == call[j].todo \ {v} IN
  /\ call[j].stage = "fade" /\ call[j].row = v
  /\ violations' = [violations EXCEPT ![v].status = "DECAYED"]
  /\ ScoreWrite(Less(call[j].seen, violations[v].points), call[j].seen)
  /\ IF rest = {} THEN Done(j) ELSE Hold(j, [stage |-> "decay", todo |-> rest])
  /\ UNCHANGED <<penalties, alert>>

-----------------------------------------------------------------------------
(* An administrator decides on a penalty, whatever was decided before, and *)
(* in any status.  What an approval does to the account is PenaltyApproved *)
(* of Stores.                                                              *)
Moved(counts, from, to) ==
  IF from = to THEN counts ELSE [counts EXCEPT ![from] = @ - 1, ![to] = @ + 1]

ReviewPenalty(t, from, to) ==
  /\ penalties[t][from] > 0
  /\ penalties' = [penalties EXCEPT ![t] = Moved(@, from, to)]
  /\ UNCHANGED <<score, violations, alert, call, revived>>

-----------------------------------------------------------------------------
Start(c) ==
  \/ \E p \in Points : IssueByHand(c, p) \/ \E k \in Key : IssueRead(c, p, k)
  \/ AlertRead(c)
  \/ \E v \in Rows : \/ AppealRead(c, v) \/ DropRead(c, v)
                     \/ \E ok \in BOOLEAN : ReviewRead(c, v, ok)

End(c) ==
  \/ IssueScore(c) \/ IssueFails(c) \/ IssueWrite(c)
  \/ DismissAlert(c) \/ \E p \in Points : AlertScore(c, p)
  \/ AppealWrite(c) \/ RejectAppeal(c)
  \/ ScoreRead(c) \/ ReviewWrite(c) \/ DropWrite(c)
  \/ RollBack(c)

JobStart(j) ==
  \/ \E p \in Points, k \in Key : IssueRead(j, p, k)
  \/ DecayList(j)

JobWork(j) ==
  \/ IssueScore(j) \/ IssueFails(j) \/ IssueWrite(j)
  \/ \E v \in Rows : DecayScore(j, v) \/ DecayWrite(j, v)
  \/ RollBack(j)

Administer ==
  \/ RaiseAlert
  \/ \E t \in Threshold, from \in PenaltyActionStatus, to \in Ruling :
       ReviewPenalty(t, from, to)

PenaltyNext ==
  \/ Tick
  \/ Administer
  \/ \E c \in Client : Start(c) \/ End(c)
  \/ \E j \in Job : JobStart(j) \/ JobWork(j)

PenaltySpec == PenaltyInit /\ [][PenaltyNext]_penaltyVars

(* Time passes, the nightly job meets what it looks for, what has begun    *)
(* ends, and no violation is one whose transaction fails every night.      *)
PenaltyFairness ==
  /\ WF_penaltyVars(Tick)
  /\ \A c \in Client : WF_penaltyVars(End(c))
  /\ \A j \in Job :
       /\ SF_penaltyVars(DecayList(j))
       /\ WF_penaltyVars(JobWork(j))
       /\ \A v \in 1..MaxViolations : SF_penaltyVars(DecayWrite(j, v))

FairPenaltySpec == PenaltySpec /\ PenaltyFairness

-----------------------------------------------------------------------------
(* Properties.                                                             *)

StandingPoints ==
  SumFunctionOnSet([v \in Rows |-> violations[v].points], {v \in Rows : Standing(v)})

(* Appeals, drops and the decay job overwrite each other's violations, and *)
(* may take the same points off twice; but an account carries points for   *)
(* which it has no standing violation only where two transactions          *)
(* overlapped, and no more than the later one wrote back.                  *)
PointsAreOwed == score <= StandingPoints + revived

(* An account whose points have reached a threshold has been given to the  *)
(* administrators for its penalty.                                         *)
ThresholdAnswered ==
  \A t \in Threshold :
    Level[t] <= score => \E s \in PenaltyActionStatus : penalties[t][s] > 0

(* However often a threshold is reached again, no decision is asked for    *)
(* while another of the threshold is pending or put off: a second one is   *)
(* open only because an administrator took back one that was made.         *)
Open(t) == penalties[t]["PENDING_APPROVAL"] + penalties[t]["DELAYED"]
Decided(t) == penalties[t]["APPROVED"] + penalties[t]["REJECTED"] + penalties[t]["EXECUTED"]

AskedOnce ==
  [][\A t \in Threshold :
       Open(t)' > Open(t) /\ Open(t)' > 1 => Decided(t)' < Decided(t)]_penaltyVars

(* The points of a violation are not kept for ever: an active violation is *)
(* dropped, appealed or decayed in the end.                                *)
StatusOf(v) == IF v \in Rows THEN violations[v].status ELSE "DROPPED"
PointsDecay == \A v \in 1..MaxViolations : StatusOf(v) = "ACTIVE" ~> StatusOf(v) # "ACTIVE"
=============================================================================
