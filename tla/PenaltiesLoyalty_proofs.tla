---------------------- MODULE PenaltiesLoyalty_proofs -----------------------
(***************************************************************************)
(* Penalties and Loyalty: the points of a violation and the decisions they *)
(* ask for, and what a completed order brings, for any orders, points and  *)
(* requests, jobs and runs in flight.                                      *)
(***************************************************************************)
EXTENDS Penalties, Loyalty, Sums_proofs, SequenceTheorems, TLAPS

(***************************************************************************)
(* For any points, keys, thresholds, decisions, requests and jobs:         *)
(* Penalties is type correct.  The rows of Violation are only appended to, *)
(* so what a request has read names a row for as long as it runs.          *)
(***************************************************************************)

(* The part of PenaltyTypeOK that is not about requests in flight. *)
RowsOK ==
  /\ score \in Nat
  /\ violations \in Seq(Violation)
  /\ penalties \in [Threshold -> [PenaltyActionStatus -> Nat]]
  /\ alert \in BOOLEAN
  /\ revived \in Nat

HoldsRow == {"read", "score", "fade"}

CallsOK ==
  /\ call \in [Caller -> {Idle} \cup Calls]
  /\ \A c \in Caller : call[c].stage \in HoldsRow => call[c].row \in Rows

Parts == RowsOK /\ CallsOK

LEMMA PartsAreInv == Parts <=> PenaltyTypeOK
BY DEF Parts, PenaltyTypeOK, RowsOK, CallsOK, HoldsRow

(* What a call in a stage holds. *)
Recorder == [stage : {"record"}, points : Points, key : Key \cup {NoKey}, seen : Nat,
             alert : BOOLEAN]
Scorer == [stage : {"score"}, op : {"review", "drop"}, row : Nat, seen : Nat]
Fader == [stage : {"fade"}, todo : SUBSET Nat, row : Nat, seen : Nat]

LEMMA CallHolds ==
  ASSUME CallsOK, NEW c \in Caller
  PROVE  /\ call[c].stage = "issue" => call[c].points \in Points /\ call[c].key \in Key
         /\ call[c].stage = "record" => call[c] \in Recorder
         /\ call[c].stage = "read" => call[c].op \in OpNames
         /\ call[c].stage = "score" => call[c] \in Scorer
         /\ call[c].stage = "decay" => call[c].todo \in SUBSET Nat
         /\ call[c].stage = "fade" => call[c] \in Fader
BY DEF CallsOK, Calls, Idle, Recorder, Scorer, Fader

(* A step that writes one record keeps CallsOK if it loses no row. *)
LEMMA OneCallMoves ==
  ASSUME CallsOK, NEW c \in Caller, NEW r \in {Idle} \cup Calls,
         Hold(c, r), Rows \subseteq Rows',
         r.stage \in HoldsRow => r.row \in Rows
  PROVE  CallsOK'
BY DEF CallsOK, Hold

LEMMA DoneKeeps ==
  ASSUME CallsOK, NEW c \in Caller, Done(c), Rows \subseteq Rows'
  PROVE  CallsOK'
<1>1. Idle.stage \notin HoldsRow
  BY DEF Idle, HoldsRow
<1> QED
  BY <1>1, OneCallMoves DEF Done

LEMMA BeganKeeps ==
  ASSUME CallsOK, RowsOK, NEW c \in Caller, NEW op \in OpNames, NEW v \in Rows,
         NEW ok \in BOOLEAN, Hold(c, Began(op, v, ok)), Rows \subseteq Rows'
  PROVE  CallsOK'
<1>1. v \in Nat
  BY DEF RowsOK, Rows
<1>2. Began(op, v, ok) \in Calls /\ Began(op, v, ok).row = v
  BY <1>1 DEF Began, Calls
<1> QED
  BY <1>2, OneCallMoves

(* A request that reads leaves the rows alone. *)
LEMMA ReadKeeps ==
  ASSUME RowsOK, UNCHANGED pointVars
  PROVE  RowsOK' /\ Rows \subseteq Rows'
BY DEF RowsOK, Rows, pointVars

LEMMA RowType ==
  ASSUME RowsOK, NEW v \in Rows
  PROVE  violations[v] \in Violation /\ violations[v].points \in Nat
           /\ violations[v].appeals \in Nat
<1>1. violations[v] \in Violation
  BY DEF RowsOK, Rows
<1> QED
  BY <1>1 DEF Violation

LEMMA LessType ==
  ASSUME NEW m \in Nat, NEW n \in Nat
  PROVE  Less(m, n) \in Nat /\ Less(m, n) <= m
BY DEF Less

LEMMA ScoreType ==
  ASSUME RowsOK, NEW n \in Nat, NEW seen \in Nat, ScoreWrite(n, seen)
  PROVE  score' \in Nat /\ revived' \in Nat
BY DEF RowsOK, ScoreWrite, Lesser

LEMMA TriggeredType ==
  ASSUME RowsOK, NEW n \in Nat
  PROVE  Triggered(n) \in [Threshold -> [PenaltyActionStatus -> Nat]]
<1> USE DEF PenaltyActionStatus
<1>1. ASSUME NEW t \in Threshold
      PROVE  [penalties[t] EXCEPT !["PENDING_APPROVAL"] = penalties[t]["PENDING_APPROVAL"] + 1]
               \in [PenaltyActionStatus -> Nat]
  BY DEF RowsOK
<1> QED
  BY <1>1 DEF RowsOK, Triggered

(* One row is written, as a row; the penalties are as they were. *)
LEMMA RowWritten ==
  ASSUME RowsOK, NEW v \in Rows, NEW r \in Violation,
         violations' = [violations EXCEPT ![v] = r],
         score' \in Nat, revived' \in Nat, UNCHANGED <<penalties, alert>>
  PROVE  RowsOK' /\ Rows \subseteq Rows'
BY DEF RowsOK, Rows

-----------------------------------------------------------------------------
LEMMA RecordingType ==
  ASSUME RowsOK, NEW p \in Points, NEW k \in Key \cup {NoKey}, NEW b \in BOOLEAN
  PROVE  Recording(p, k, b) \in Calls /\ Recording(p, k, b).stage = "record"
BY DEF RowsOK, Recording, Calls

(* What the transaction of a violation writes. *)
LEMMA IssueWrites ==
  ASSUME RowsOK, CallsOK, NEW c \in Caller, IssueWrite(c)
  PROVE  /\ RowsOK' /\ Rows \subseteq Rows'
         /\ call[c].seen \in Nat /\ call[c].points \in Nat
<1> USE PenaltiesAssumption
<1>1. call[c] \in Recorder
  BY CallHolds DEF IssueWrite
<1>2. call[c].seen \in Nat /\ call[c].points \in Nat /\ call[c].key \in Key \cup {NoKey}
  BY <1>1 DEF Recorder
<1>3. PICK v : v = [points |-> call[c].points, status |-> "ACTIVE", left |-> Term,
                    key |-> call[c].key, appeals |-> 0]
  OBVIOUS
<1>4. v \in Violation
  BY <1>2, <1>3 DEF Violation, ViolationStatus, Term
<1>5. violations' = Append(violations, v)
  BY <1>3 DEF IssueWrite
<1>6. violations' \in Seq(Violation) /\ Rows \subseteq Rows'
  BY <1>4, <1>5 DEF RowsOK, Rows
<1>7. PICK n : n = call[c].seen + call[c].points
  OBVIOUS
<1>8. n \in Nat /\ ScoreWrite(n, call[c].seen) /\ penalties' = Triggered(n)
  BY <1>2, <1>7 DEF IssueWrite
<1>9. alert' \in BOOLEAN
  BY DEF IssueWrite
<1> QED
  BY <1>2, <1>6, <1>8, <1>9, ScoreType, TriggeredType DEF RowsOK

LEMMA IssueSteps ==
  ASSUME RowsOK, CallsOK, NEW c \in Caller,
         \/ \E p \in Points : IssueByHand(c, p) \/ \E k \in Key : IssueRead(c, p, k)
         \/ IssueScore(c) \/ IssueFails(c) \/ IssueWrite(c) \/ RollBack(c)
         \/ AlertRead(c) \/ DismissAlert(c) \/ \E p \in Points : AlertScore(c, p)
  PROVE  RowsOK' /\ CallsOK'
<1> USE PenaltiesAssumption
<1>0. "record" \notin HoldsRow /\ "issue" \notin HoldsRow /\ "alert" \notin HoldsRow
  BY DEF HoldsRow
<1>1. ASSUME NEW p \in Points, NEW k \in Key, IssueRead(c, p, k)
      PROVE  RowsOK' /\ CallsOK'
  <2>1. [stage |-> "issue", points |-> p, key |-> k] \in Calls
    BY DEF Calls
  <2> QED
    BY <1>0, <1>1, <2>1, ReadKeeps, OneCallMoves DEF IssueRead
<1>2. ASSUME NEW p \in Points, IssueByHand(c, p) PROVE RowsOK' /\ CallsOK'
  BY <1>0, <1>2, RecordingType, ReadKeeps, OneCallMoves DEF IssueByHand
<1>3. CASE IssueScore(c)
  <2>1. call[c].points \in Points /\ call[c].key \in Key \cup {NoKey}
    BY <1>3, CallHolds DEF IssueScore
  <2> QED
    BY <1>0, <1>3, <2>1, RecordingType, ReadKeeps, OneCallMoves DEF IssueScore
<1>4. CASE IssueFails(c)
  BY <1>4, ReadKeeps, DoneKeeps DEF IssueFails
<1>5. CASE IssueWrite(c)
  BY <1>5, IssueWrites, DoneKeeps DEF IssueWrite
<1>6. CASE RollBack(c)
  BY <1>6, ReadKeeps, DoneKeeps DEF RollBack
<1>7. CASE AlertRead(c)
  <2>1. [stage |-> "alert"] \in Calls
    BY DEF Calls
  <2> QED
    BY <1>0, <1>7, <2>1, ReadKeeps, OneCallMoves DEF AlertRead
<1>8. CASE DismissAlert(c)
  <2>1. RowsOK' /\ Rows \subseteq Rows'
    BY <1>8 DEF DismissAlert, RowsOK, Rows
  <2> QED
    BY <1>8, <2>1, DoneKeeps DEF DismissAlert
<1>9. ASSUME NEW p \in Points, AlertScore(c, p) PROVE RowsOK' /\ CallsOK'
  BY <1>0, <1>9, RecordingType, ReadKeeps, OneCallMoves DEF AlertScore
<1> QED
  BY <1>1, <1>2, <1>3, <1>4, <1>5, <1>6, <1>7, <1>8, <1>9

(* A violation is written with another status and count of appeals. *)
LEMMA RowChanged ==
  ASSUME RowsOK, NEW v \in Rows, NEW s \in ViolationStatus, NEW n \in Nat,
         violations' = [violations EXCEPT ![v].status = s, ![v].appeals = n]
  PROVE  \E r \in Violation :
           /\ violations' = [violations EXCEPT ![v] = r]
           /\ r.points = violations[v].points /\ r.status = s
<1>1. violations[v] \in Violation
  BY DEF RowsOK, Rows
<1>2. PICK r : r = [violations[v] EXCEPT !.status = s, !.appeals = n]
  OBVIOUS
<1>3. r \in Violation /\ r.points = violations[v].points /\ r.status = s
  BY <1>1, <1>2 DEF Violation
<1>4. violations' = [violations EXCEPT ![v] = r]
  BY <1>1, <1>2 DEF Violation
<1> QED
  BY <1>3, <1>4

(* What a call does to the row it has read: which statuses it writes, and  *)
(* what it takes off the score it has seen.                                *)
RowWrite(v, status, seen) ==
  \E r \in Violation :
    /\ violations' = [violations EXCEPT ![v] = r]
    /\ r.points = violations[v].points /\ r.status = status
    /\ \/ ScoreWrite(Less(seen, violations[v].points), seen)
       \/ status \in {"ACTIVE", "APPEALED"} /\ UNCHANGED <<score, revived>>
    /\ UNCHANGED <<penalties, alert>>

Taker(c) == AppealWrite(c) \/ RejectAppeal(c) \/ ReviewWrite(c) \/ DropWrite(c)

LEMMA TakerWrites ==
  ASSUME RowsOK, CallsOK, NEW c \in Caller, Taker(c)
  PROVE  /\ call[c].row \in Rows
         /\ \E s \in ViolationStatus :
              /\ RowWrite(call[c].row, s, call[c].seen)
              /\ \/ call[c].stage = "score"
                 \/ s \in {"ACTIVE", "APPEALED"} /\ UNCHANGED <<score, revived>>
         /\ call[c].stage = "score" \/ UNCHANGED <<score, revived>>
         /\ Done(c)
<1>1. PICK v : v = call[c].row
  OBVIOUS
<1>2. v \in Rows
  BY <1>1 DEF Taker, AppealWrite, RejectAppeal, ReviewWrite, DropWrite, At, Scored,
              CallsOK, HoldsRow
<1>3. violations[v].appeals \in Nat
  BY <1>2, RowType
<1>4. violations[v].appeals + 1 \in Nat /\ Sub(violations[v].appeals) \in Nat
  BY <1>3 DEF Sub
<1>5. CASE AppealWrite(c)
  <2>1. violations' = [violations EXCEPT ![v].status = "APPEALED",
                                         ![v].appeals = violations[v].appeals + 1]
    BY <1>1, <1>5 DEF AppealWrite
  <2>2. RowWrite(v, "APPEALED", call[c].seen)
    BY <1>2, <1>4, <1>5, <2>1, RowChanged DEF RowWrite, AppealWrite, ViolationStatus
  <2> QED
    BY <1>1, <1>2, <1>5, <2>2 DEF AppealWrite, ViolationStatus
<1>6. CASE RejectAppeal(c)
  <2>1. violations' = [violations EXCEPT ![v].status = "ACTIVE",
                                         ![v].appeals = Sub(violations[v].appeals)]
    BY <1>1, <1>6 DEF RejectAppeal
  <2>2. RowWrite(v, "ACTIVE", call[c].seen)
    BY <1>2, <1>4, <1>6, <2>1, RowChanged DEF RowWrite, RejectAppeal, ViolationStatus
  <2> QED
    BY <1>1, <1>2, <1>6, <2>2 DEF RejectAppeal, ViolationStatus
<1>7. ASSUME NEW n \in Nat, Dropped(c, n), call[c].stage = "score"
      PROVE  RowWrite(v, "DROPPED", call[c].seen) /\ Done(c)
  <2>1. violations' = [violations EXCEPT ![v].status = "DROPPED", ![v].appeals = n]
    BY <1>1, <1>7 DEF Dropped
  <2> QED
    BY <1>1, <1>2, <1>7, <2>1, RowChanged DEF RowWrite, Dropped, ViolationStatus
<1>8. CASE ReviewWrite(c)
  BY <1>1, <1>2, <1>4, <1>7, <1>8 DEF ReviewWrite, Scored, ViolationStatus
<1>9. CASE DropWrite(c)
  BY <1>1, <1>2, <1>3, <1>7, <1>9 DEF DropWrite, Scored, ViolationStatus
<1> QED
  BY <1>5, <1>6, <1>8, <1>9 DEF Taker

LEMMA RowWriteType ==
  ASSUME RowsOK, NEW v \in Rows, NEW s, NEW seen, RowWrite(v, s, seen),
         seen \in Nat \/ UNCHANGED <<score, revived>>
  PROVE  RowsOK' /\ Rows \subseteq Rows'
<1>1. violations[v].points \in Nat
  BY RowType
<1>2. score' \in Nat /\ revived' \in Nat
  BY <1>1, LessType, ScoreType DEF RowWrite, RowsOK
<1> QED
  BY <1>2, RowWritten DEF RowWrite

LEMMA AppealSteps ==
  ASSUME RowsOK, CallsOK, NEW c \in Caller,
         \/ \E v \in Rows : \/ AppealRead(c, v) \/ DropRead(c, v)
                            \/ \E ok \in BOOLEAN : ReviewRead(c, v, ok)
         \/ ScoreRead(c) \/ Taker(c)
  PROVE  RowsOK' /\ CallsOK'
<1>1. ASSUME NEW v \in Rows, AppealRead(c, v) PROVE RowsOK' /\ CallsOK'
  BY <1>1, ReadKeeps, BeganKeeps DEF AppealRead, OpNames
<1>2. ASSUME NEW v \in Rows, DropRead(c, v) PROVE RowsOK' /\ CallsOK'
  BY <1>2, ReadKeeps, BeganKeeps DEF DropRead, OpNames
<1>3. ASSUME NEW v \in Rows, NEW ok \in BOOLEAN, ReviewRead(c, v, ok) PROVE RowsOK' /\ CallsOK'
  BY <1>3, ReadKeeps, BeganKeeps DEF ReviewRead, OpNames
<1>4. CASE ScoreRead(c)
  <2>1. call[c].row \in Rows /\ call[c].op \in {"review", "drop"}
    BY <1>4 DEF ScoreRead, At, CallsOK, HoldsRow
  <2>2. call[c].row \in Nat /\ score \in Nat
    BY <2>1 DEF RowsOK, Rows
  <2>3. [stage |-> "score", op |-> call[c].op, row |-> call[c].row, seen |-> score] \in Calls
    BY <2>1, <2>2 DEF Calls
  <2> QED
    BY <1>4, <2>1, <2>3, ReadKeeps, OneCallMoves DEF ScoreRead
<1>5. CASE Taker(c)
  <2>1. PICK s \in ViolationStatus : RowWrite(call[c].row, s, call[c].seen)
    BY <1>5, TakerWrites
  <2>2. call[c].seen \in Nat \/ UNCHANGED <<score, revived>>
    BY <1>5, TakerWrites, CallHolds DEF Scorer
  <2>3. call[c].row \in Rows /\ Done(c)
    BY <1>5, TakerWrites
  <2> QED
    BY <2>1, <2>2, <2>3, RowWriteType, DoneKeeps
<1> QED
  BY <1>1, <1>2, <1>3, <1>4, <1>5

(* What the job writes for one violation. *)
LEMMA DecayWrites ==
  ASSUME RowsOK, CallsOK, NEW j \in Caller, NEW v \in Rows, DecayWrite(j, v)
  PROVE  RowWrite(v, "DECAYED", call[j].seen) /\ call[j].seen \in Nat
<1>1. violations' = [violations EXCEPT ![v].status = "DECAYED",
                                       ![v].appeals = violations[v].appeals]
  BY RowType DEF DecayWrite, Violation
<1>2. violations[v].appeals \in Nat
  BY RowType
<1>3. call[j].seen \in Nat
  BY CallHolds DEF DecayWrite, Fader
<1> QED
  BY <1>1, <1>2, <1>3, RowChanged DEF RowWrite, DecayWrite, ViolationStatus

LEMMA DecaySteps ==
  ASSUME RowsOK, CallsOK, NEW j \in Caller,
         DecayList(j) \/ \E v \in Rows : DecayScore(j, v) \/ DecayWrite(j, v)
  PROVE  RowsOK' /\ CallsOK'
<1>1. CASE DecayList(j)
  <2>1. PICK R : R = {v \in Rows : Ripe(v)}
    OBVIOUS
  <2>2. R \subseteq Nat
    BY <2>1 DEF RowsOK, Rows
  <2>3. [stage |-> "decay", todo |-> R] \in Calls
    BY <2>2 DEF Calls
  <2>4. Hold(j, [stage |-> "decay", todo |-> R])
    BY <1>1, <2>1 DEF DecayList
  <2> QED
    BY <1>1, <2>3, <2>4, ReadKeeps, OneCallMoves DEF DecayList, HoldsRow
<1>2. ASSUME NEW v \in Rows, DecayScore(j, v) PROVE RowsOK' /\ CallsOK'
  <2>1. call[j].todo \in SUBSET Nat /\ v \in Nat /\ score \in Nat
    BY <1>2, CallHolds DEF DecayScore, RowsOK, Rows
  <2>2. [stage |-> "fade", todo |-> call[j].todo, row |-> v, seen |-> score] \in Calls
    BY <2>1 DEF Calls
  <2> QED
    BY <1>2, <2>2, ReadKeeps, OneCallMoves DEF DecayScore
<1>3. ASSUME NEW v \in Rows, DecayWrite(j, v) PROVE RowsOK' /\ CallsOK'
  <2>1. RowsOK' /\ Rows \subseteq Rows'
    BY <1>3, DecayWrites, RowWriteType
  <2>2. PICK rest : rest = call[j].todo \ {v}
    OBVIOUS
  <2>3. call[j].todo \in SUBSET Nat
    BY <1>3, CallHolds DEF DecayWrite, Fader
  <2>4. [stage |-> "decay", todo |-> rest] \in Calls
    BY <2>2, <2>3 DEF Calls
  <2>5. Done(j) \/ Hold(j, [stage |-> "decay", todo |-> rest])
    BY <1>3, <2>2 DEF DecayWrite
  <2> QED
    BY <2>1, <2>4, <2>5, DoneKeeps, OneCallMoves DEF HoldsRow
<1> QED
  BY <1>1, <1>2, <1>3

(* A decision is moved from one status to another, or made. *)
LEMMA DecisionMoves ==
  ASSUME RowsOK, NEW t \in Threshold, NEW from \in PenaltyActionStatus,
         NEW to \in PenaltyActionStatus, ReviewPenalty(t, from, to)
  PROVE  /\ penalties[t] \in [PenaltyActionStatus -> Nat] /\ penalties[t][from] > 0
         /\ penalties' = [penalties EXCEPT ![t] = Moved(penalties[t], from, to)]
         /\ Moved(penalties[t], from, to) \in [PenaltyActionStatus -> Nat]
<1>1. penalties[t] \in [PenaltyActionStatus -> Nat] /\ penalties[t][from] > 0
  BY DEF RowsOK, ReviewPenalty
<1>2. Moved(penalties[t], from, to) \in [PenaltyActionStatus -> Nat]
  BY <1>1 DEF Moved
<1> QED
  BY <1>1, <1>2 DEF ReviewPenalty

LEMMA DecisionSteps ==
  ASSUME RowsOK, CallsOK, NEW t \in Threshold, NEW from \in PenaltyActionStatus,
         NEW to \in PenaltyActionStatus, ReviewPenalty(t, from, to)
  PROVE  RowsOK' /\ CallsOK'
<1>1. penalties' \in [Threshold -> [PenaltyActionStatus -> Nat]]
  BY DecisionMoves DEF RowsOK
<1> QED
  BY <1>1 DEF RowsOK, CallsOK, ReviewPenalty, Rows

LEMMA OtherSteps ==
  ASSUME RowsOK, CallsOK, Tick \/ RaiseAlert \/ UNCHANGED penaltyVars
  PROVE  RowsOK' /\ CallsOK'
<1>1. CASE Tick
  <2>1. ASSUME NEW v \in Rows
        PROVE  [violations[v] EXCEPT !.left = Sooner(violations[v].left)] \in Violation
    <3>1. violations[v] \in Violation
      BY DEF RowsOK, Rows
    <3>2. Sooner(violations[v].left) \in 0..Term
      BY <3>1 DEF Violation, Sooner, Term
    <3> QED
      BY <3>1, <3>2 DEF Violation
  <2>2. PICK n \in Nat : Rows = 1..n
    BY DEF RowsOK, Rows
  <2>3. violations' =
          [v \in Rows |-> [violations[v] EXCEPT !.left = Sooner(violations[v].left)]]
    BY <1>1 DEF Tick
  <2>4. violations' \in [1..n -> Violation]
    BY <2>1, <2>2, <2>3
  <2>5. violations' \in Seq(Violation) /\ Rows' = Rows
    BY <2>2, <2>4, SeqDef DEF Rows
  <2> QED
    BY <1>1, <2>5 DEF Tick, RowsOK, CallsOK
<1>2. CASE RaiseAlert
  BY <1>2 DEF RaiseAlert, RowsOK, CallsOK, Rows
<1>3. CASE UNCHANGED penaltyVars
  BY <1>3 DEF penaltyVars, pointVars, RowsOK, CallsOK, Rows
<1> QED
  BY <1>1, <1>2, <1>3

-----------------------------------------------------------------------------
LEMMA InitHolds == PenaltyInit => Parts
<1> SUFFICES ASSUME PenaltyInit PROVE Parts
  OBVIOUS
<1>1. << >> \in Seq(Violation)
  OBVIOUS
<1>2. RowsOK
  BY <1>1 DEF PenaltyInit, RowsOK
<1>3. CallsOK
  BY DEF PenaltyInit, CallsOK, Idle, HoldsRow
<1> QED
  BY <1>2, <1>3 DEF Parts

LEMMA StepKeeps == Parts /\ [PenaltyNext]_penaltyVars => Parts'
<1> USE PenaltiesAssumption
<1> SUFFICES ASSUME RowsOK, CallsOK, [PenaltyNext]_penaltyVars
             PROVE  RowsOK' /\ CallsOK'
  BY DEF Parts
<1>1. ASSUME NEW c \in Client, Start(c) \/ End(c) PROVE RowsOK' /\ CallsOK'
  BY <1>1, IssueSteps, AppealSteps DEF Start, End, Taker, Caller
<1>2. ASSUME NEW j \in Job, JobStart(j) \/ JobWork(j) PROVE RowsOK' /\ CallsOK'
  BY <1>2, IssueSteps, DecaySteps DEF JobStart, JobWork, Caller
<1>3. ASSUME Administer PROVE RowsOK' /\ CallsOK'
  BY <1>3, OtherSteps, DecisionSteps DEF Administer
<1> QED
  BY <1>1, <1>2, <1>3, OtherSteps DEF PenaltyNext

(* Whatever violations, appeals, drops, decays and decisions overlap, rows *)
(* keep their types, what a request has read goes on naming a row, and no  *)
(* score is negative.                                                      *)
THEOREM PenaltyTypeCorrect == PenaltySpec => []PenaltyTypeOK
BY InitHolds, StepKeeps, PartsAreInv, PTL DEF PenaltySpec

-----------------------------------------------------------------------------
(* Which steps write the penalties. *)
LEMMA PenaltyWriters ==
  ASSUME [PenaltyNext]_penaltyVars
  PROVE  \/ UNCHANGED penalties
         \/ \E c \in Caller : IssueWrite(c)
         \/ \E t \in Threshold, from \in PenaltyActionStatus, to \in PenaltyActionStatus :
              ReviewPenalty(t, from, to)
<1> USE PenaltiesAssumption
<1>1. ASSUME NEW c \in Caller, Start(c) \/ JobStart(c) PROVE UNCHANGED penalties
  BY <1>1 DEF Start, JobStart, IssueRead, IssueByHand, AlertRead, AppealRead, DropRead,
              ReviewRead, DecayList, pointVars
<1>2. ASSUME NEW c \in Caller, End(c) PROVE UNCHANGED penalties \/ IssueWrite(c)
  BY <1>2 DEF End, IssueScore, IssueFails, DismissAlert, AlertScore, AppealWrite,
              RejectAppeal, ScoreRead, ReviewWrite, DropWrite, Dropped, RollBack, pointVars
<1>3. ASSUME NEW j \in Caller, JobWork(j) PROVE UNCHANGED penalties \/ IssueWrite(j)
  BY <1>3 DEF JobWork, IssueScore, IssueFails, DecayScore, DecayWrite, RollBack, pointVars
<1>4. ASSUME Tick \/ RaiseAlert \/ UNCHANGED penaltyVars PROVE UNCHANGED penalties
  BY <1>4 DEF Tick, RaiseAlert, penaltyVars, pointVars
<1> QED
  BY <1>1, <1>2, <1>3, <1>4 DEF PenaltyNext, Administer, Caller

LEMMA AskedStep ==
  ASSUME RowsOK, CallsOK, [PenaltyNext]_penaltyVars, NEW t \in Threshold,
         Open(t)' > Open(t), Open(t)' > 1
  PROVE  Decided(t)' < Decided(t)
<1> USE DEF PenaltyActionStatus
<1>1. penalties[t] \in [PenaltyActionStatus -> Nat]
  BY DEF RowsOK
<1>2. CASE UNCHANGED penalties
  BY <1>1, <1>2 DEF Open
<1>3. ASSUME NEW c \in Caller, IssueWrite(c) PROVE FALSE
  <2>1. PICK n : penalties' = Triggered(n)
    BY <1>3 DEF IssueWrite
  <2>2. CASE Answered(t) \/ t \notin Reached(n)
    <3>1. penalties'[t] = penalties[t]
      BY <2>1, <2>2 DEF Triggered
    <3> QED
      BY <1>1, <3>1 DEF Open
  <2>3. CASE ~Answered(t) /\ t \in Reached(n)
    <3>1. penalties'[t] = [penalties[t] EXCEPT !["PENDING_APPROVAL"] = @ + 1]
      BY <2>1, <2>3 DEF Triggered
    <3>2. penalties[t]["PENDING_APPROVAL"] = 0 /\ penalties[t]["DELAYED"] = 0
      BY <1>1, <2>3 DEF Answered
    <3>3. penalties'[t]["PENDING_APPROVAL"] = 1 /\ penalties'[t]["DELAYED"] = 0
      BY <1>1, <3>1, <3>2
    <3> QED
      BY <3>3 DEF Open
  <2> QED
    BY <2>2, <2>3
<1>4. ASSUME NEW u \in Threshold, NEW from \in PenaltyActionStatus,
             NEW to \in PenaltyActionStatus, ReviewPenalty(u, from, to)
      PROVE  Decided(t)' < Decided(t)
  <2>1. CASE u # t
    <3>1. penalties'[t] = penalties[t]
      BY <1>4, <2>1, DecisionMoves DEF RowsOK
    <3> QED
      BY <1>1, <3>1 DEF Open
  <2>2. CASE u = t
    <3>1. penalties'[t] = Moved(penalties[t], from, to)
      BY <1>4, <2>2, DecisionMoves DEF RowsOK
    <3>2. from # to
      BY <1>1, <3>1 DEF Moved, Open
    <3>3. penalties'[t] = [penalties[t] EXCEPT ![from] = @ - 1, ![to] = @ + 1]
      BY <3>1, <3>2 DEF Moved
    <3>4. from \in {"APPROVED", "REJECTED", "EXECUTED"}
      <4>1. CASE from = "PENDING_APPROVAL"
        BY <1>1, <3>2, <3>3, <4>1 DEF Open
      <4>2. CASE from = "DELAYED"
        BY <1>1, <3>2, <3>3, <4>2 DEF Open
      <4> QED
        BY <4>1, <4>2
    <3>5. to \in {"PENDING_APPROVAL", "DELAYED"}
      <4>1. CASE to \in {"APPROVED", "REJECTED", "EXECUTED"}
        BY <1>1, <3>2, <3>3, <3>4, <4>1 DEF Open
      <4> QED
        BY <4>1
    <3>6. CASE from = "APPROVED"
      BY <1>1, <3>3, <3>5, <3>6 DEF Decided
    <3>7. CASE from = "REJECTED"
      BY <1>1, <3>3, <3>5, <3>7 DEF Decided
    <3>8. CASE from = "EXECUTED"
      BY <1>1, <3>3, <3>5, <3>8 DEF Decided
    <3> QED
      BY <3>4, <3>6, <3>7, <3>8
  <2> QED
    BY <2>1, <2>2
<1> QED
  BY <1>2, <1>3, <1>4, PenaltyWriters

(* checkAndTriggerPenalty asks for no decision while one of the threshold  *)
(* is pending or put off, however many transactions overlap: more than one *)
(* is open only after reviewPenaltyAction has taken back a decision.       *)
THEOREM DecisionsAskedOnce == PenaltySpec => AskedOnce
<1>1. Parts /\ [PenaltyNext]_penaltyVars
        => [\A t \in Threshold :
              Open(t)' > Open(t) /\ Open(t)' > 1 => Decided(t)' < Decided(t)]_penaltyVars
  BY AskedStep DEF Parts
<1> QED
  BY <1>1, PenaltyTypeCorrect, PartsAreInv, PTL DEF PenaltySpec, AskedOnce

-----------------------------------------------------------------------------
(* ThresholdAnswered is not inductive: a transaction that has read a score *)
(* may write it, or less, after the score has changed.  What a transaction *)
(* has seen must have been answered too.                                   *)
Asked(n) ==
  \A t \in Threshold :
    Level[t] <= n => \E s \in PenaltyActionStatus : penalties[t][s] > 0

HoldsScore == {"record", "score", "fade"}

AnswersInv ==
  /\ Asked(score)
  /\ \A c \in Caller : call[c].stage \in HoldsScore => Asked(call[c].seen)

LEMMA AskedIsAnswered == Asked(score) <=> ThresholdAnswered
BY DEF Asked, ThresholdAnswered

LEMMA FewerAsked ==
  ASSUME NEW m \in Nat, NEW n \in Nat, n <= m, Asked(m)
  PROVE  Asked(n)
BY PenaltiesAssumption DEF Asked

(* No step takes the last penalty of a threshold away. *)
LEMMA AskedStays ==
  ASSUME RowsOK, [PenaltyNext]_penaltyVars, NEW n, Asked(n)
  PROVE  Asked(n)'
<1> USE DEF PenaltyActionStatus
<1>1. SUFFICES ASSUME NEW t \in Threshold, \E s \in PenaltyActionStatus : penalties[t][s] > 0
               PROVE  \E s \in PenaltyActionStatus : penalties'[t][s] > 0
  BY DEF Asked
<1>2. penalties[t] \in [PenaltyActionStatus -> Nat]
  BY DEF RowsOK
<1>3. CASE UNCHANGED penalties
  BY <1>1, <1>3
<1>4. ASSUME NEW c \in Caller, IssueWrite(c)
      PROVE  \E s \in PenaltyActionStatus : penalties'[t][s] > 0
  <2>1. PICK m : penalties' = Triggered(m)
    BY <1>4 DEF IssueWrite
  <2>2. \/ penalties'[t] = penalties[t]
        \/ penalties'[t] = [penalties[t] EXCEPT !["PENDING_APPROVAL"] = @ + 1]
    BY <2>1 DEF Triggered
  <2>3. CASE penalties'[t] = penalties[t]
    BY <1>1, <2>3
  <2>4. CASE penalties'[t] = [penalties[t] EXCEPT !["PENDING_APPROVAL"] = @ + 1]
    <3>1. penalties'[t]["PENDING_APPROVAL"] > 0
      BY <1>2, <2>4
    <3> QED
      BY <3>1
  <2> QED
    BY <2>2, <2>3, <2>4
<1>5. ASSUME NEW u \in Threshold, NEW from \in PenaltyActionStatus,
             NEW to \in PenaltyActionStatus, ReviewPenalty(u, from, to)
      PROVE  \E s \in PenaltyActionStatus : penalties'[t][s] > 0
  <2>1. CASE u # t
    <3>1. penalties'[t] = penalties[t]
      BY <1>5, <2>1, DecisionMoves DEF RowsOK
    <3> QED
      BY <1>1, <3>1
  <2>2. CASE u = t
    <3>1. penalties'[t] = Moved(penalties[t], from, to) /\ penalties[t][from] > 0
      BY <1>5, <2>2, DecisionMoves DEF RowsOK
    <3>2. penalties'[t][to] > 0
      BY <1>2, <3>1 DEF Moved
    <3> QED
      BY <3>2
  <2> QED
    BY <2>1, <2>2
<1> QED
  BY <1>3, <1>4, <1>5, PenaltyWriters

(* checkAndTriggerPenalty asks for what the new score has reached. *)
LEMMA AskedMade ==
  ASSUME RowsOK, NEW n, penalties' = Triggered(n)
  PROVE  Asked(n)'
<1> USE DEF PenaltyActionStatus
<1>1. SUFFICES ASSUME NEW t \in Threshold, Level[t] <= n
               PROVE  \E s \in PenaltyActionStatus : penalties'[t][s] > 0
  BY DEF Asked
<1>2. penalties[t] \in [PenaltyActionStatus -> Nat]
  BY DEF RowsOK
<1>3. CASE Answered(t)
  BY <1>3 DEF Triggered, Answered
<1>4. CASE ~Answered(t)
  <2>1. penalties'[t] = [penalties[t] EXCEPT !["PENDING_APPROVAL"] = @ + 1]
    BY <1>1, <1>4 DEF Triggered, Reached
  <2>2. penalties'[t]["PENDING_APPROVAL"] > 0
    BY <1>2, <2>1
  <2> QED
    BY <2>2
<1> QED
  BY <1>3, <1>4

(* Which steps write the score, and what they write. *)
ScoreWriters ==
  \/ UNCHANGED <<score, revived>>
  \/ \E c \in Caller : IssueWrite(c)
  \/ \E c \in Caller : \E v \in Rows :
       /\ call[c].stage \in HoldsScore
       /\ ScoreWrite(Less(call[c].seen, violations[v].points), call[c].seen)

LEMMA ScoresWritten ==
  ASSUME RowsOK, CallsOK, [PenaltyNext]_penaltyVars
  PROVE  ScoreWriters
<1> USE PenaltiesAssumption
<1>1. ASSUME NEW c \in Caller, Start(c) \/ JobStart(c) PROVE UNCHANGED <<score, revived>>
  BY <1>1 DEF Start, JobStart, IssueRead, IssueByHand, AlertRead, AppealRead, DropRead,
              ReviewRead, DecayList, pointVars
<1>2. ASSUME NEW c \in Caller, Taker(c) PROVE ScoreWriters
  <2>1. call[c].stage = "score" \/ UNCHANGED <<score, revived>>
    BY <1>2, TakerWrites
  <2>2. PICK s : RowWrite(call[c].row, s, call[c].seen)
    BY <1>2, TakerWrites
  <2> QED
    BY <1>2, <2>1, <2>2, TakerWrites DEF RowWrite, ScoreWriters, HoldsScore
<1>3. ASSUME NEW c \in Caller, End(c), ~Taker(c) PROVE ScoreWriters
  BY <1>3 DEF End, Taker, IssueScore, IssueFails, DismissAlert, AlertScore, ScoreRead,
              RollBack, pointVars, ScoreWriters
<1>4. ASSUME NEW j \in Caller, NEW v \in Rows, DecayWrite(j, v) PROVE ScoreWriters
  BY <1>4 DEF DecayWrite, ScoreWriters, HoldsScore
<1>5. ASSUME NEW j \in Caller, JobWork(j), ~\E v \in Rows : DecayWrite(j, v)
      PROVE  ScoreWriters
  BY <1>5 DEF JobWork, IssueScore, IssueFails, DecayScore, RollBack, pointVars, ScoreWriters
<1>6. ASSUME Tick \/ Administer \/ UNCHANGED penaltyVars PROVE UNCHANGED <<score, revived>>
  BY <1>6 DEF Tick, Administer, RaiseAlert, ReviewPenalty, penaltyVars, pointVars
<1> QED
  BY <1>1, <1>2, <1>3, <1>4, <1>5, <1>6 DEF PenaltyNext, Caller, ScoreWriters

(* A call reads the score that is, or goes on with the one it has read. *)
LEMMA SeenIsScore ==
  ASSUME RowsOK, CallsOK, [PenaltyNext]_penaltyVars,
         NEW c \in Caller, call'[c].stage \in HoldsScore
  PROVE  \/ call[c].stage \in HoldsScore /\ call'[c].seen = call[c].seen
         \/ call'[c].seen = score
<1> USE PenaltiesAssumption DEF HoldsScore
<1>0. ASSUME NEW d \in Caller, NEW r, Hold(d, r)
      PROVE  call'[c] = IF c = d THEN r ELSE call[c]
  BY <1>0 DEF Hold, CallsOK
<1>1. Idle.stage \notin HoldsScore
  BY DEF Idle
<1>2. ASSUME NEW d \in Caller, Done(d) PROVE call'[c] = call[c]
  BY <1>0, <1>1, <1>2 DEF Done
<1>3. ASSUME NEW d \in Caller, Start(d) \/ JobStart(d)
      PROVE  call'[c] = call[c] \/ call'[c].seen = score
  <2>1. ASSUME NEW p \in Points, IssueByHand(d, p)
        PROVE  call'[c] = call[c] \/ call'[c].seen = score
    BY <1>0, <2>1 DEF IssueByHand, Recording
  <2>2. ASSUME NEW p, NEW k, IssueRead(d, p, k) PROVE call'[c] = call[c]
    BY <1>0, <2>2 DEF IssueRead
  <2>3. ASSUME AlertRead(d) PROVE call'[c] = call[c]
    BY <1>0, <2>3 DEF AlertRead
  <2>4. ASSUME NEW op, NEW v, NEW ok, Hold(d, Began(op, v, ok)) PROVE call'[c] = call[c]
    BY <1>0, <2>4 DEF Began
  <2>5. ASSUME DecayList(d) PROVE call'[c] = call[c]
    <3>1. PICK R : Hold(d, [stage |-> "decay", todo |-> R])
      BY <2>5 DEF DecayList
    <3> QED
      BY <1>0, <3>1
  <2> QED
    BY <1>3, <2>1, <2>2, <2>3, <2>4, <2>5
       DEF Start, JobStart, AppealRead, DropRead, ReviewRead
<1>4. ASSUME NEW d \in Caller, End(d)
      PROVE  call'[c] = call[c] \/ call'[c].seen = score
  <2>1. ASSUME IssueScore(d) \/ \E p \in Points : AlertScore(d, p)
        PROVE  call'[c] = call[c] \/ call'[c].seen = score
    <3>1. PICK p, k, b : Hold(d, Recording(p, k, b))
      BY <2>1 DEF IssueScore, AlertScore
    <3> QED
      BY <1>0, <3>1 DEF Recording
  <2>2. ASSUME ScoreRead(d) PROVE call'[c] = call[c] \/ call'[c].seen = score
    BY <1>0, <2>2 DEF ScoreRead
  <2>3. ASSUME \/ IssueFails(d) \/ IssueWrite(d) \/ DismissAlert(d) \/ AppealWrite(d)
               \/ RejectAppeal(d) \/ ReviewWrite(d) \/ DropWrite(d) \/ RollBack(d)
        PROVE  Done(d)
    BY <2>3 DEF IssueFails, IssueWrite, DismissAlert, AppealWrite, RejectAppeal,
                ReviewWrite, DropWrite, Dropped, RollBack
  <2> QED
    BY <1>2, <1>4, <2>1, <2>2, <2>3 DEF End
<1>5. ASSUME NEW d \in Caller, JobWork(d)
      PROVE  call'[c] = call[c] \/ call'[c].seen = score
  <2>1. ASSUME IssueScore(d) PROVE call'[c] = call[c] \/ call'[c].seen = score
    BY <1>0, <2>1 DEF IssueScore, Recording
  <2>2. ASSUME NEW v, DecayScore(d, v) PROVE call'[c] = call[c] \/ call'[c].seen = score
    BY <1>0, <2>2 DEF DecayScore
  <2>3. ASSUME NEW v, DecayWrite(d, v) PROVE call'[c] = call[c]
    <3>1. PICK R : Done(d) \/ Hold(d, [stage |-> "decay", todo |-> R])
      BY <2>3 DEF DecayWrite
    <3> QED
      BY <1>0, <1>2, <3>1
  <2>4. ASSUME IssueFails(d) \/ IssueWrite(d) \/ RollBack(d) PROVE Done(d)
    BY <2>4 DEF IssueFails, IssueWrite, RollBack
  <2> QED
    BY <1>2, <1>5, <2>1, <2>2, <2>3, <2>4 DEF JobWork
<1>6. ASSUME Tick \/ Administer \/ UNCHANGED penaltyVars PROVE call' = call
  BY <1>6 DEF Tick, Administer, RaiseAlert, ReviewPenalty, penaltyVars
<1> QED
  BY <1>3, <1>4, <1>5, <1>6 DEF PenaltyNext, Caller

LEMMA SeenType ==
  ASSUME CallsOK, NEW c \in Caller, call[c].stage \in HoldsScore
  PROVE  call[c].seen \in Nat
BY CallHolds DEF HoldsScore, Recorder, Scorer, Fader

LEMMA AnswerStep ==
  ASSUME RowsOK, CallsOK, AnswersInv, [PenaltyNext]_penaltyVars
  PROVE  AnswersInv'
<1>1. Asked(score)'
  <2>1. CASE UNCHANGED <<score, revived>>
    <3>1. PICK n : n = score
      OBVIOUS
    <3>2. Asked(n)'
      BY <3>1, AskedStays DEF AnswersInv
    <3> QED
      BY <2>1, <3>1, <3>2 DEF Asked
  <2>2. ASSUME NEW c \in Caller, IssueWrite(c) PROVE Asked(score)'
    <3>1. PICK n : n = call[c].seen + call[c].points
      OBVIOUS
    <3>2. Asked(n)' /\ score' = n
      BY <2>2, <3>1, AskedMade DEF IssueWrite, ScoreWrite
    <3> QED
      BY <3>2 DEF Asked
  <2>3. ASSUME NEW c \in Caller, NEW v \in Rows, call[c].stage \in HoldsScore,
               ScoreWrite(Less(call[c].seen, violations[v].points), call[c].seen)
        PROVE  Asked(score)'
    <3>1. PICK n : n = Less(call[c].seen, violations[v].points)
      OBVIOUS
    <3>2. n \in Nat /\ call[c].seen \in Nat /\ n <= call[c].seen
      BY <2>3, <3>1, SeenType, RowType, LessType
    <3>3. Asked(n)
      BY <2>3, <3>2, FewerAsked DEF AnswersInv
    <3>4. Asked(n)' /\ score' = n
      BY <2>3, <3>1, <3>3, AskedStays DEF ScoreWrite
    <3> QED
      BY <3>4 DEF Asked
  <2> QED
    BY <2>1, <2>2, <2>3, ScoresWritten DEF ScoreWriters
<1>2. ASSUME NEW c \in Caller, call'[c].stage \in HoldsScore PROVE Asked(call[c].seen)'
  <2>1. PICK n : n = call'[c].seen
    OBVIOUS
  <2>2. Asked(n)
    BY <1>2, <2>1, SeenIsScore DEF AnswersInv
  <2>3. Asked(n)'
    BY <2>2, AskedStays
  <2> QED
    BY <2>1, <2>3 DEF Asked
<1> QED
  BY <1>1, <1>2 DEF AnswersInv

(* Every threshold the points of an account have reached was put before    *)
(* the administrators, however points came, went and came back, and also   *)
(* when a write over a newer score brought them back; if none is reached   *)
(* by no points at all, for checkAndTriggerPenalty waits for some.         *)
THEOREM ThresholdAlwaysAnswered ==
  ASSUME \A t \in Threshold : Level[t] > 0
  PROVE  PenaltySpec => []ThresholdAnswered
<1>1. PenaltyInit => AnswersInv
  BY PenaltiesAssumption DEF PenaltyInit, AnswersInv, Asked, HoldsScore, Idle
<1>2. Parts /\ AnswersInv /\ [PenaltyNext]_penaltyVars => AnswersInv'
  BY AnswerStep DEF Parts
<1>3. AnswersInv => ThresholdAnswered
  BY AskedIsAnswered DEF AnswersInv
<1> QED
  BY <1>1, <1>2, <1>3, PenaltyTypeCorrect, PartsAreInv, PTL DEF PenaltySpec

-----------------------------------------------------------------------------
(* The points an account carries are owed.                                 *)

PointsOf == [v \in Rows |-> violations[v].points]
Standers == {v \in Rows : Standing(v)}

Counted ==
  /\ IsFiniteSet(Rows) /\ IsFiniteSet(Standers)
  /\ \A v \in Rows : PointsOf[v] \in Nat
  /\ StandingPoints = SumFunctionOnSet(PointsOf, Standers)
  /\ StandingPoints \in Nat

LEMMA RowsCounted == RowsOK => Counted
<1> SUFFICES ASSUME RowsOK PROVE Counted
  OBVIOUS
<1>1. Rows = 1..Len(violations) /\ Len(violations) \in Nat
  BY DEF RowsOK, Rows
<1>2. IsFiniteSet(Rows)
  BY <1>1, FS_Interval
<1>3. IsFiniteSet(Standers)
  BY <1>2, FS_Subset DEF Standers
<1>4. ASSUME NEW v \in Rows PROVE PointsOf[v] \in Nat
  <2>1. violations[v] \in Violation
    BY <1>1 DEF RowsOK
  <2> QED
    BY <2>1 DEF PointsOf, Violation
<1>5. StandingPoints = SumFunctionOnSet(PointsOf, Standers)
  BY DEF StandingPoints, PointsOf, Standers
<1>6. \A v \in Standers : PointsOf[v] \in Nat
  BY <1>4 DEF Standers
<1> QED
  BY <1>2, <1>3, <1>4, <1>5, <1>6, SumOfNat DEF Counted

(* The status of one row moves: what stands changes by its points at most. *)
LEMMA OneRowMoves ==
  ASSUME RowsOK, RowsOK', Rows' = Rows, NEW w \in Rows,
         \A v \in Rows : violations'[v].points = violations[v].points,
         \A v \in Rows \ {w} : violations'[v].status = violations[v].status
  PROVE  /\ StandingPoints' >= StandingPoints - violations[w].points
         /\ Standing(w)' => StandingPoints' >= StandingPoints
<1> DEFINE rest == SumFunctionOnSet(PointsOf, Standers \ {w})
           restNext == SumFunctionOnSet(PointsOf', Standers' \ {w})
           p == violations[w].points
<1>1. Counted /\ Counted'
  BY RowsCounted, PTL
<1>2. PointsOf' = PointsOf /\ PointsOf[w] = p /\ p \in Nat
  BY <1>1 DEF PointsOf, Counted
<1>3. Standers' \ {w} = Standers \ {w}
  BY DEF Standers, Standing
<1>4. rest \in Nat /\ restNext = rest
  <2>1. IsFiniteSet(Standers \ {w}) /\ \A v \in Standers \ {w} : PointsOf[v] \in Nat
    BY <1>1, FS_RemoveElement DEF Standers, Counted
  <2> QED
    BY <1>2, <1>3, <2>1, SumOfNat
<1>5. StandingPoints = IF w \in Standers THEN p + rest ELSE rest
  <2>1. CASE w \in Standers
    <3>1. \A v \in Standers : PointsOf[v] \in Nat
      BY <1>1 DEF Standers, Counted
    <3> QED
      BY <1>1, <1>2, <2>1, <3>1, SumOfOther DEF Counted
  <2>2. CASE w \notin Standers
    <3>1. Standers \ {w} = Standers
      BY <2>2
    <3> QED
      BY <1>1, <2>2, <3>1 DEF Counted
  <2> QED
    BY <2>1, <2>2
<1>6. StandingPoints' = IF w \in Standers' THEN p + rest ELSE rest
  <2>1. CASE w \in Standers'
    <3>1. \A v \in Standers' : PointsOf'[v] \in Nat
      BY <1>1, <1>2 DEF Standers, Counted
    <3>2. StandingPoints' = PointsOf'[w] + restNext
      BY <1>1, <2>1, <3>1, SumOfOther DEF Counted
    <3> QED
      BY <1>2, <1>4, <2>1, <3>2
  <2>2. CASE w \notin Standers'
    <3>1. Standers' \ {w} = Standers'
      BY <2>2
    <3> QED
      BY <1>1, <1>4, <2>2, <3>1 DEF Counted
  <2> QED
    BY <2>1, <2>2
<1>7. Standing(w)' <=> w \in Standers'
  BY DEF Standers
<1> HIDE DEF rest, restNext, p
<1>8. p = violations[w].points
  BY DEF p
<1> QED
  BY <1>1, <1>2, <1>4, <1>5, <1>6, <1>7, <1>8 DEF Counted

LEMMA NoLess == ASSUME NEW m \in Nat, NEW n \in Nat PROVE n <= m + n
OBVIOUS

(* What a write leaves is owed, if what stands leaves it so. *)
LEMMA WriteOwed ==
  ASSUME RowsOK, PointsAreOwed, NEW n \in Nat, NEW seen \in Nat, ScoreWrite(n, seen),
         StandingPoints \in Nat, StandingPoints' \in Nat,
         NEW d \in Int, n <= seen + d \/ n = 0, StandingPoints' >= StandingPoints + d
  PROVE  PointsAreOwed'
<1> DEFINE r == IF seen > score THEN revived + (seen - score) ELSE revived
<1>1. score \in Nat /\ revived \in Nat /\ r \in Nat /\ r + score >= revived + seen
  BY DEF RowsOK
<1>2. score' = n /\ revived' = Lesser(n, r)
  BY DEF ScoreWrite
<1>3. score <= StandingPoints + revived
  BY DEF PointsAreOwed
<1>6. PICK before \in Nat, after \in Nat :
        before = StandingPoints /\ after = StandingPoints'
  OBVIOUS
<1> HIDE DEF r
<1>4. CASE n < r
  <2>1. revived' = n
    BY <1>2, <1>4 DEF Lesser
  <2>2. n <= after + n
    BY NoLess
  <2>3. after = StandingPoints' /\ score' = n
    BY <1>2, <1>6
  <2> QED
    BY <2>1, <2>2, <2>3 DEF PointsAreOwed
<1>5. CASE ~(n < r)
  <2>1. revived' = r
    BY <1>2, <1>5 DEF Lesser
  <2>2. n <= after + r
    <3>1. score <= before + revived /\ after >= before + d
      BY <1>3, <1>6
    <3>2. r >= 0 /\ r + score >= revived + seen
      BY <1>1
    <3> QED
      BY <1>1, <3>1, <3>2
  <2> QED
    BY <1>2, <1>6, <2>1, <2>2 DEF PointsAreOwed
<1> QED
  BY <1>4, <1>5

(* A violation is recorded with the points it adds. *)
LEMMA IssueOwed ==
  ASSUME RowsOK, CallsOK, RowsOK', PointsAreOwed, NEW c \in Caller, IssueWrite(c)
  PROVE  PointsAreOwed'
<1> DEFINE n == Len(violations) + 1
           p == call[c].points
<1>1. Counted /\ Counted'
  BY RowsCounted, PTL
<1>2. Len(violations) \in Nat /\ Rows = 1..Len(violations)
  BY DEF RowsOK, Rows
<1>3. /\ Rows' = Rows \cup {n} /\ n \notin Rows
      /\ \A v \in Rows : violations'[v] = violations[v]
      /\ violations'[n].points = p /\ violations'[n].status = "ACTIVE"
  BY <1>2 DEF RowsOK, Rows, IssueWrite
<1>4. p \in Nat /\ call[c].seen \in Nat /\ ScoreWrite(call[c].seen + p, call[c].seen)
  BY IssueWrites DEF IssueWrite
<1> HIDE DEF n, p
<1>5. Standers' = Standers \cup {n} /\ n \notin Standers
  BY <1>3 DEF Standers, Standing
<1>6. \A v \in Standers : PointsOf'[v] = PointsOf[v]
  BY <1>3 DEF PointsOf, Standers
<1>7. PointsOf'[n] = p
  BY <1>3 DEF PointsOf
<1>8. Standers' \ {n} = Standers
  BY <1>5
<1>9. \A v \in Standers' : PointsOf'[v] \in Nat
  BY <1>1 DEF Counted, Standers
<1>10. SumFunctionOnSet(PointsOf', Standers')
         = PointsOf'[n] + SumFunctionOnSet(PointsOf', Standers)
  BY <1>1, <1>5, <1>8, <1>9, SumOfOther DEF Counted
<1>11. SumFunctionOnSet(PointsOf', Standers) = SumFunctionOnSet(PointsOf, Standers)
  BY <1>1, <1>6, SumsEqual DEF Counted
<1>12. StandingPoints' = p + StandingPoints
  BY <1>1, <1>7, <1>10, <1>11 DEF Counted
<1>13. PICK m : m = call[c].seen + p
  OBVIOUS
<1>14. m \in Nat /\ ScoreWrite(m, call[c].seen) /\ m <= call[c].seen + p /\ p \in Int
  BY <1>4, <1>13
<1>15. StandingPoints \in Nat /\ StandingPoints' \in Nat /\ StandingPoints' >= StandingPoints + p
  BY <1>1, <1>4, <1>12 DEF Counted
<1> QED
  BY <1>4, <1>14, <1>15, WriteOwed

(* A row is written over, and its points are taken off unless it stands.   *)
LEMMA RowWriteOwed ==
  ASSUME RowsOK, RowsOK', PointsAreOwed, NEW w \in Rows, NEW s, NEW seen,
         RowWrite(w, s, seen),
         seen \in Nat \/ (s \in {"ACTIVE", "APPEALED"} /\ UNCHANGED <<score, revived>>)
  PROVE  PointsAreOwed'
<1>1. Counted /\ Counted'
  BY RowsCounted, PTL
<1>2. StandingPoints \in Nat /\ StandingPoints' \in Nat
  BY <1>1 DEF Counted
<1>3. violations[w].points \in Nat
  BY RowType
<1>4. PICK r \in Violation : /\ violations' = [violations EXCEPT ![w] = r]
                            /\ r.points = violations[w].points /\ r.status = s
  BY DEF RowWrite
<1>5. /\ Rows' = Rows /\ violations'[w] = r
      /\ \A v \in Rows \ {w} : violations'[v] = violations[v]
  BY <1>4 DEF RowsOK, Rows
<1>6. \A v \in Rows : violations'[v].points = violations[v].points
  BY <1>4, <1>5
<1>7. /\ StandingPoints' >= StandingPoints - violations[w].points
      /\ Standing(w)' => StandingPoints' >= StandingPoints
  BY <1>5, <1>6, OneRowMoves
<1>8. CASE UNCHANGED <<score, revived>> /\ s \in {"ACTIVE", "APPEALED"}
  <2>1. Standing(w)'
    BY <1>4, <1>5, <1>8 DEF Standing
  <2> QED
    BY <1>2, <1>7, <1>8, <2>1 DEF PointsAreOwed, RowsOK
<1>9. CASE ScoreWrite(Less(seen, violations[w].points), seen) /\ seen \in Nat
  <2>1. PICK n : n = Less(seen, violations[w].points)
    OBVIOUS
  <2>2. n \in Nat /\ (n <= seen + (- violations[w].points) \/ n = 0)
    BY <1>3, <1>9, <2>1 DEF Less
  <2>3. StandingPoints' >= StandingPoints + (- violations[w].points)
    BY <1>2, <1>3, <1>7
  <2>4. PICK d \in Int : d = - violations[w].points
    BY <1>3
  <2>5. seen \in Nat /\ n \in Nat /\ (n <= seen + d \/ n = 0)
    BY <1>9, <2>2, <2>4
  <2>6. StandingPoints' >= StandingPoints + d
    BY <2>3, <2>4
  <2>7. ScoreWrite(n, seen)
    BY <1>9, <2>1
  <2> QED
    BY <1>2, <2>5, <2>6, <2>7, WriteOwed
<1> QED
  BY <1>8, <1>9 DEF RowWrite

(* Neither rows nor points change. *)
LEMMA NothingWrittenOwed ==
  ASSUME RowsOK, RowsOK', PointsAreOwed, Rows' = Rows, UNCHANGED <<score, revived>>,
         \A v \in Rows : /\ violations'[v].points = violations[v].points
                         /\ violations'[v].status = violations[v].status
  PROVE  PointsAreOwed'
<1>1. PointsOf' = PointsOf /\ Standers' = Standers
  BY DEF PointsOf, Standers, Standing
<1> QED
  BY <1>1 DEF PointsAreOwed, StandingPoints, PointsOf, Standers

LEMMA PointsStep ==
  ASSUME RowsOK, CallsOK, RowsOK', PointsAreOwed, [PenaltyNext]_penaltyVars
  PROVE  PointsAreOwed'
<1> USE PenaltiesAssumption
<1>1. ASSUME NEW c \in Caller, IssueWrite(c) PROVE PointsAreOwed'
  BY <1>1, IssueOwed
<1>2. ASSUME NEW c \in Caller, Taker(c) PROVE PointsAreOwed'
  <2>1. PICK s \in ViolationStatus :
          /\ RowWrite(call[c].row, s, call[c].seen)
          /\ \/ call[c].stage = "score"
             \/ s \in {"ACTIVE", "APPEALED"} /\ UNCHANGED <<score, revived>>
    BY <1>2, TakerWrites
  <2>2. \/ call[c].seen \in Nat
        \/ s \in {"ACTIVE", "APPEALED"} /\ UNCHANGED <<score, revived>>
    BY <2>1, SeenType DEF HoldsScore
  <2>3. PICK v, m : v = call[c].row /\ m = call[c].seen
    OBVIOUS
  <2>4. v \in Rows
    BY <1>2, <2>3, TakerWrites
  <2>5. /\ RowWrite(v, s, m)
        /\ m \in Nat \/ (s \in {"ACTIVE", "APPEALED"} /\ UNCHANGED <<score, revived>>)
    BY <2>1, <2>2, <2>3
  <2> QED
    BY <2>4, <2>5, RowWriteOwed
<1>3. ASSUME NEW j \in Caller, NEW v \in Rows, DecayWrite(j, v) PROVE PointsAreOwed'
  <2>1. PICK m : m = call[j].seen
    OBVIOUS
  <2>2. RowWrite(v, "DECAYED", m) /\ m \in Nat
    BY <1>3, <2>1, DecayWrites
  <2> QED
    BY <2>2, RowWriteOwed
<1>4. ASSUME Tick PROVE PointsAreOwed'
  <2>1. ASSUME NEW v \in Rows PROVE violations[v] \in Violation
    BY RowType
  <2>2. /\ Rows' = Rows /\ UNCHANGED <<score, revived>>
        /\ \A v \in Rows : /\ violations'[v].points = violations[v].points
                           /\ violations'[v].status = violations[v].status
    BY <1>4, <2>1 DEF Tick, Rows, Violation
  <2> QED
    BY <2>2, NothingWrittenOwed
<1>5. ASSUME UNCHANGED <<score, violations, revived>> PROVE PointsAreOwed'
  <2>1. /\ Rows' = Rows /\ UNCHANGED <<score, revived>>
        /\ \A v \in Rows : violations'[v] = violations[v]
    BY <1>5 DEF Rows
  <2> QED
    BY <2>1, NothingWrittenOwed
<1>6. ASSUME NEW c \in Caller, Start(c) \/ JobStart(c)
      PROVE  UNCHANGED <<score, violations, revived>>
  BY <1>6 DEF Start, JobStart, IssueRead, IssueByHand, AlertRead, AppealRead, DropRead,
              ReviewRead, DecayList, pointVars
<1>7. ASSUME NEW c \in Caller, End(c), ~Taker(c), ~IssueWrite(c)
      PROVE  UNCHANGED <<score, violations, revived>>
  BY <1>7 DEF End, Taker, IssueScore, IssueFails, DismissAlert, AlertScore, ScoreRead,
              RollBack, pointVars
<1>8. ASSUME NEW j \in Caller, JobWork(j), ~IssueWrite(j), ~\E v \in Rows : DecayWrite(j, v)
      PROVE  UNCHANGED <<score, violations, revived>>
  BY <1>8 DEF JobWork, IssueScore, IssueFails, DecayScore, RollBack, pointVars
<1>9. ASSUME Administer \/ UNCHANGED penaltyVars
      PROVE  UNCHANGED <<score, violations, revived>>
  BY <1>9 DEF Administer, RaiseAlert, ReviewPenalty, penaltyVars, pointVars
<1> QED
  BY <1>1, <1>2, <1>3, <1>4, <1>5, <1>6, <1>7, <1>8, <1>9 DEF PenaltyNext, Caller

(* Whatever appeals, drops and decays overwrite, and however often the     *)
(* points of one violation are taken off, User.violationScore carries no   *)
(* points without a standing violation but those that a transaction wrote  *)
(* back over a score committed after its read.                             *)
THEOREM PointsAlwaysOwed == PenaltySpec => []PointsAreOwed
<1>1. PenaltyInit => PointsAreOwed
  <2> SUFFICES ASSUME PenaltyInit PROVE PointsAreOwed
    OBVIOUS
  <2>1. score = 0 /\ Rows = {} /\ revived = 0
    BY DEF PenaltyInit, Rows
  <2>2. {v \in Rows : Standing(v)} = {}
    BY <2>1
  <2>3. StandingPoints = 0
    BY <2>2, SumOfNone DEF StandingPoints
  <2> QED
    BY <2>1, <2>3 DEF PointsAreOwed
<1>2. Parts /\ Parts' /\ PointsAreOwed /\ [PenaltyNext]_penaltyVars => PointsAreOwed'
  BY PointsStep DEF Parts
<1> QED
  BY <1>1, <1>2, PenaltyTypeCorrect, PartsAreInv, PTL DEF PenaltySpec

-----------------------------------------------------------------------------
(***************************************************************************)
(* For any orders, rewards, tiers and requests: the balances are those of  *)
(* the ledger, and completions that overlap, also those of one order, pay  *)
(* a referral no more often than there are requests in flight, keep the    *)
(* tier to the spending and the month near its cap, and invent no totals.  *)
(*                                                                         *)
(* All are about runs that nobody waits for, and follow from what a run    *)
(* has in hand.  The rows of an order and the referral runs that are about *)
(* to add one are no more than the requests (ReferralInv).  What the       *)
(* reward runs are about to add to the month fits in the cap with it, but  *)
(* for one reward for each run but one (GainsFit); the spending they read  *)
(* is worth no more than the completions settled by then (SpentFits), and  *)
(* the earnings no more than the orders counted for the store              *)
(* (LifetimeFits).                                                         *)
(***************************************************************************)

(* The runs that found no row of the order. *)
Paying(o) == {r \in Run : refer[r].stage = "pay" /\ refer[r].order = o}

ReferralInv ==
  /\ referral \in [Order -> Nat]
  /\ refer \in [Run -> ReferralRun]
  /\ \A o \in Order : referral[o] + Cardinality(Paying(o)) <= Cardinality(Run)

LEMMA RunsCounted == Cardinality(Run) \in Nat /\ Cardinality(Run) >= 1
<1>1. Cardinality(Run) \in Nat /\ Cardinality(Run) # 0
  BY LoyaltyAssumption, FS_CardinalityType, FS_EmptySet
<1> QED
  BY <1>1

LEMMA RunsFew ==
  ASSUME NEW S \in SUBSET Run
  PROVE  /\ IsFiniteSet(S) /\ Cardinality(S) \in Nat
         /\ Cardinality(S) <= Cardinality(Run)
         /\ \A T \in SUBSET S : Cardinality(T) \in Nat /\ Cardinality(T) <= Cardinality(S)
         /\ \A r \in S : Cardinality(S \ {r}) = Cardinality(S) - 1
BY LoyaltyAssumption, FS_Subset, FS_CardinalityType, FS_RemoveElement

LEMMA IdleRuns ==
  /\ NoRun \in RewardRun /\ NoRun \in ReferralRun /\ NoRun \in AdminRun
  /\ NoRun.stage = "idle"
  /\ \A o \in Order : /\ Started(o) \in ReferralRun /\ Started(o).stage = "started"
                      /\ Started(o) \in RewardRun /\ Started(o).order = o
BY DEF NoRun, Started, RewardRun, ReferralRun, AdminRun

(* The order a run is about. *)
LEMMA RewardOrder ==
  ASSUME LoyaltyTypeOK, NEW r \in Run,
         reward[r].stage \in {"move", "started", "grant"}
  PROVE  /\ reward[r].order \in Order
         /\ reward[r].stage = "move" => reward[r].to \in Target
<1>1. reward[r] \in RewardRun
  BY DEF LoyaltyTypeOK
<1> QED
  BY <1>1, IdleRuns DEF RewardRun

LEMMA ReferralOrder ==
  ASSUME refer \in [Run -> ReferralRun], NEW r \in Run, refer[r].stage # "idle"
  PROVE  refer[r].order \in Order
<1>1. refer[r] \in ReferralRun
  OBVIOUS
<1> QED
  BY <1>1, IdleRuns DEF ReferralRun

LEMMA ReferralInit == LoyaltyInit => ReferralInv
<1> SUFFICES ASSUME LoyaltyInit PROVE ReferralInv
  OBVIOUS
<1>1. referral \in [Order -> Nat] /\ refer \in [Run -> ReferralRun]
  BY IdleRuns DEF LoyaltyInit
<1>2. ASSUME NEW o \in Order
      PROVE  referral[o] + Cardinality(Paying(o)) <= Cardinality(Run)
  <2>1. referral[o] = 0 /\ Paying(o) \in SUBSET Run
    BY DEF LoyaltyInit, Paying
  <2> QED
    BY <2>1, RunsFew
<1> QED
  BY <1>1, <1>2 DEF ReferralInv

(* What a step leaves to an order whose rows stay. *)
LEMMA FewerPay ==
  ASSUME ReferralInv, NEW o \in Order, referral'[o] = referral[o],
         Paying(o)' \subseteq Paying(o)
  PROVE  referral'[o] + Cardinality(Paying(o)') <= Cardinality(Run)
<1>1. Paying(o) \in SUBSET Run /\ referral[o] \in Nat
  BY DEF Paying, ReferralInv
<1>2. PICK S \in SUBSET Paying(o) : S = Paying(o)'
  OBVIOUS
<1>3. /\ Cardinality(S) \in Nat /\ Cardinality(Paying(o)) \in Nat
      /\ Cardinality(S) <= Cardinality(Paying(o))
  BY <1>1, RunsFew
<1>4. referral[o] + Cardinality(Paying(o)) <= Cardinality(Run)
  BY DEF ReferralInv
<1> QED
  BY <1>1, <1>2, <1>3, <1>4, RunsCounted

LEMMA ReferralStep ==
  LoyaltyTypeOK /\ ReferralInv /\ [LoyaltyNext]_loyaltyVars => ReferralInv'
<1> SUFFICES ASSUME LoyaltyTypeOK, ReferralInv, [LoyaltyNext]_loyaltyVars
             PROVE  ReferralInv'
  OBVIOUS
<1> USE DEF referralVars
<1>0. referral \in [Order -> Nat] /\ refer \in [Run -> ReferralRun]
  BY DEF ReferralInv
<1>a. ASSUME UNCHANGED referral, refer' \in [Run -> ReferralRun],
             \A o \in Order : Paying(o)' \subseteq Paying(o)
      PROVE  ReferralInv'
  BY <1>0, <1>a, FewerPay DEF ReferralInv
<1>1. ASSUME NEW r \in Run, Complete(r) PROVE ReferralInv'
  <2>0. reward[r].order \in Order
    BY <1>1, RewardOrder DEF Complete
  <2>1. refer' \in [Run -> ReferralRun] /\ UNCHANGED referral
    BY <1>0, <1>1, <2>0, IdleRuns DEF Complete
  <2>2. \A o \in Order : Paying(o)' \subseteq Paying(o)
    BY <1>0, <1>1, <2>0, IdleRuns DEF Complete, Paying
  <2> QED
    BY <1>a, <2>1, <2>2
<1>2. ASSUME NEW r \in Run, ReferralRead(r) PROVE ReferralInv'
  <2>a. refer[r].stage = "started" /\ refer[r].order \in Order /\ UNCHANGED referral
    BY <1>0, <1>2, ReferralOrder DEF ReferralRead
  <2>0. PICK o \in Order : o = refer[r].order
    BY <2>a
  <2> DEFINE pay == [stage |-> "pay", order |-> o]
  <2>1. CASE Referable(o)
    <3>1. referral[o] = 0 /\ refer' = [refer EXCEPT ![r] = pay]
      BY <1>2, <2>0, <2>1 DEF ReferralRead, Referable
    <3>2. pay \in ReferralRun
      BY <2>0 DEF ReferralRun
    <3>3. refer' \in [Run -> ReferralRun]
      BY <1>0, <3>1, <3>2
    <3>4. referral'[o] + Cardinality(Paying(o)') <= Cardinality(Run)
      <4>1. PICK S \in SUBSET Run : S = Paying(o)'
        BY DEF Paying
      <4> QED
        BY <2>a, <3>1, <4>1, RunsFew
    <3>5. \A p \in Order \ {o} : Paying(p)' \subseteq Paying(p)
      BY <1>0, <3>1 DEF Paying
    <3>6. \A p \in Order : referral'[p] + Cardinality(Paying(p)') <= Cardinality(Run)
      BY <2>a, <3>4, <3>5, FewerPay
    <3> QED
      BY <1>0, <2>a, <3>3, <3>6 DEF ReferralInv
  <2>2. CASE ~Referable(o)
    <3>1. refer' = [refer EXCEPT ![r] = NoRun]
      BY <1>2, <2>0, <2>2 DEF ReferralRead
    <3>2. refer' \in [Run -> ReferralRun]
      BY <1>0, <3>1, IdleRuns
    <3>3. \A p \in Order : Paying(p)' \subseteq Paying(p)
      BY <1>0, <3>1, IdleRuns DEF Paying
    <3> QED
      BY <1>a, <2>a, <3>2, <3>3
  <2> QED
    BY <2>1, <2>2
<1>3. ASSUME NEW r \in Run, ReferralWrite(r) PROVE ReferralInv'
  <2>a. PICK o \in Order : o = refer[r].order
    BY <1>0, <1>3, IdleRuns, ReferralOrder DEF ReferralWrite
  <2>0. r \in Paying(o) /\ Paying(o) \in SUBSET Run
    BY <1>3, <2>a DEF ReferralWrite, Paying
  <2>1. refer' = [refer EXCEPT ![r] = NoRun] /\ refer' \in [Run -> ReferralRun]
    BY <1>0, <1>3, IdleRuns DEF ReferralWrite
  <2>2. /\ referral' \in [Order -> Nat] /\ referral'[o] = referral[o] + 1
        /\ \A p \in Order \ {o} : referral'[p] = referral[p]
    BY <1>0, <1>3, <2>a DEF ReferralWrite
  <2>3. Paying(o)' = Paying(o) \ {r} /\ \A p \in Order : Paying(p)' \subseteq Paying(p)
    BY <1>0, <2>1, IdleRuns DEF Paying
  <2>4. referral'[o] + Cardinality(Paying(o)') <= Cardinality(Run)
    <3>1. PICK n \in Nat : n = Cardinality(Paying(o))
      BY <2>0, RunsFew
    <3>2. Cardinality(Paying(o)') = n - 1
      BY <2>0, <2>3, <3>1, RunsFew
    <3>3. referral[o] \in Nat /\ referral[o] + n <= Cardinality(Run)
      BY <1>0, <2>0, <3>1 DEF ReferralInv
    <3> QED
      BY <2>2, <3>2, <3>3, RunsCounted
  <2>5. \A p \in Order : referral'[p] + Cardinality(Paying(p)') <= Cardinality(Run)
    BY <2>2, <2>3, <2>4, FewerPay
  <2> QED
    BY <2>1, <2>2, <2>5 DEF ReferralInv
<1>4. CASE Restart
  <2>1. refer' \in [Run -> ReferralRun] /\ UNCHANGED referral
    BY <1>4, IdleRuns DEF Restart
  <2>2. \A p \in Order : Paying(p)' \subseteq Paying(p)
    BY <1>4, IdleRuns DEF Restart, Paying
  <2> QED
    BY <1>a, <2>1, <2>2
<1>5. CASE UNCHANGED <<referral, refer>>
  <2>1. \A p \in Order : Paying(p)' \subseteq Paying(p)
    BY <1>5 DEF Paying
  <2> QED
    BY <1>0, <1>5, <1>a, <2>1
<1>6. ASSUME NEW r \in Run,
             \/ \E o \in Order, to \in Target : TransitionRead(r, o, to)
             \/ TransitionWrite(r)
             \/ RewardRead(r) \/ RewardWrite(r) \/ StoreWrite(r)
      PROVE  UNCHANGED <<referral, refer>>
  BY <1>6 DEF TransitionRead, TransitionWrite, RewardRead, RewardWrite, Granted,
              StoreWrite
<1>7. ASSUME \/ \E o \in Order : OpenCase(o)
             \/ NewMonth \/ WindowCloses \/ AskReview
             \/ \E d \in Decision : Decide(d)
             \/ CancelRewards \/ CloseAlert
      PROVE  UNCHANGED <<referral, refer>>
  BY <1>7 DEF OpenCase, NewMonth, WindowCloses, AskReview, Decide, CancelRewards,
              CloseAlert
<1>8. UNCHANGED loyaltyVars => UNCHANGED <<referral, refer>>
  BY DEF loyaltyVars
<1> QED
  BY <1>1, <1>2, <1>3, <1>4, <1>5, <1>6, <1>7, <1>8 DEF LoyaltyNext

-----------------------------------------------------------------------------
LEMMA TierStep == TierFitsSpent /\ [LoyaltyNext]_loyaltyVars => TierFitsSpent'
<1> SUFFICES ASSUME TierFitsSpent, [LoyaltyNext]_loyaltyVars PROVE TierFitsSpent'
  OBVIOUS
<1> USE DEF customerVars
<1>1. ASSUME NEW r \in Run, RewardWrite(r) PROVE TierFitsSpent'
  BY <1>1 DEF RewardWrite, Granted, TierFitsSpent, TierOf, WithOrder
<1>2. CASE CancelRewards
  BY <1>2 DEF CancelRewards, TierFitsSpent
<1>3. CASE UNCHANGED <<spent, tier>>
  BY <1>3 DEF TierFitsSpent
<1>4. ASSUME NEW r \in Run,
             \/ \E o \in Order, to \in Target : TransitionRead(r, o, to)
             \/ TransitionWrite(r) \/ Complete(r)
             \/ RewardRead(r) \/ StoreWrite(r) \/ ReferralRead(r) \/ ReferralWrite(r)
      PROVE  UNCHANGED <<spent, tier>>
  BY <1>4 DEF Complete, TransitionRead, TransitionWrite, RewardRead, StoreWrite, ReferralRead,
              ReferralWrite
<1>5. ASSUME \/ \E o \in Order : OpenCase(o)
             \/ NewMonth \/ WindowCloses \/ Restart \/ AskReview \/ CloseAlert
             \/ \E d \in Decision : Decide(d)
      PROVE  UNCHANGED <<spent, tier>>
  BY <1>5 DEF OpenCase, NewMonth, WindowCloses, Restart, AskReview, Decide, CloseAlert
<1>6. UNCHANGED loyaltyVars => UNCHANGED <<spent, tier>>
  BY DEF loyaltyVars
<1> QED
  BY <1>1, <1>2, <1>3, <1>4, <1>5, <1>6 DEF LoyaltyNext

(* Completions that overwrite each other's totals, and cancellations, leave *)
(* the customer the tier of the spending on record, or BASIC.               *)
THEOREM TierAlwaysFits == LoyaltySpec => []TierFitsSpent
<1>1. LoyaltyInit => TierFitsSpent
  BY DEF LoyaltyInit, TierFitsSpent
<1> QED
  BY <1>1, TierStep, PTL DEF LoyaltySpec

-----------------------------------------------------------------------------
(* The operators of Loyalty.                                               *)

(* Of finitely many naturals there is a largest: Most is one of the values. *)
LEMMA MostIsMost ==
  ASSUME NEW f \in [Tier -> Nat]
  PROVE  /\ Most(f) \in {f[t] : t \in Tier} /\ Most(f) \in Nat
         /\ \A t \in Tier : f[t] <= Most(f)
<1>1. \A a, b, c, d, e \in Nat : \E n \in {a, b, c, d, e} :
        a <= n /\ b <= n /\ c <= n /\ d <= n /\ e <= n
  OBVIOUS
<1>2. \E n \in {f[t] : t \in Tier} : \A t \in Tier : f[t] <= n
  <2>1. {f[t] : t \in Tier} =
          {f["BASIC"], f["SILVER"], f["GOLD"], f["VIP"], f["PARTNER"]}
    BY DEF Tier
  <2>2. \A t \in Tier : f[t] \in Nat
    OBVIOUS
  <2> QED
    BY <1>1, <2>1, <2>2 DEF Tier
<1>3. Most(f) \in {f[t] : t \in Tier} /\ \A t \in Tier : f[t] <= Most(f)
  BY <1>2 DEF Most
<1> QED
  BY <1>3

(* BASIC begins at no spending, so that every spending has a tier. *)
LEMMA TierOfType == ASSUME NEW n \in Nat PROVE TierOf(n) \in Tier
<1> DEFINE h == [t \in Tier |-> IF TierStart[t] <= n THEN TierStart[t] ELSE 0]
<1>1. h \in [Tier -> Nat]
  BY LoyaltyAssumption
<1>2. Most(h) \in {h[t] : t \in Tier}
  BY <1>1, MostIsMost
<1>3. \A t \in Tier : h[t] <= Most(h)
  BY <1>1, MostIsMost
<1>4. PICK t \in Tier : Most(h) = h[t]
  BY <1>2
<1>5. "BASIC" \in Tier /\ TierStart["BASIC"] = 0
  BY LoyaltyAssumption DEF Tier
<1>6. \E u \in Tier : TierStart[u] <= n /\ TierStart[u] = Most(h)
  <2>1. CASE TierStart[t] <= n
    BY <1>4, <2>1
  <2>2. CASE ~(TierStart[t] <= n)
    BY <1>4, <1>5, <2>2
  <2> QED
    BY <2>1, <2>2
<1>7. \A u \in Tier : TierStart[u] <= n => TierStart[u] <= Most(h)
  BY <1>3
<1> QED
  BY <1>6, <1>7 DEF TierOf

(* Products of naturals, which the provers do not find by themselves. *)
LEMMA Times ==
  \A a, m, n \in Nat : m <= n => a * m <= a * n /\ a * m \in Nat
OBVIOUS

LEMMA TimesOneMore == \A a, n \in Nat : a * (n + 1) = a * n + a
OBVIOUS

LEMMA CapBound ==
  ASSUME tier \in Tier
  PROVE  MonthlyCap \in Nat /\ HighestCap \in Nat /\ MonthlyCap <= HighestCap
<1> DEFINE n == Cardinality(Completed)
           m == Cardinality(Order)
<1>1. n \in Nat /\ m \in Nat /\ n <= m
  <2>1. Completed \subseteq Order
    BY DEF Completed
  <2> QED
    BY <2>1, LoyaltyAssumption, FS_Subset, FS_CardinalityType
<1> HIDE DEF n, m
<1>2. Worth * n \in Nat /\ Worth * m \in Nat /\ Worth * n <= Worth * m
  BY <1>1, Times, LoyaltyAssumption
<1>3. /\ (Worth * n) \div 10 \in Nat /\ (Worth * m) \div 10 \in Nat
      /\ (Worth * n) \div 10 <= (Worth * m) \div 10
  <2>1. \A a, b \in Nat : a <= b =>
          a \div 10 \in Nat /\ b \div 10 \in Nat /\ a \div 10 <= b \div 10
    OBVIOUS
  <2> QED
    BY <1>2, <2>1
<1>4. Cap[tier] \in Nat /\ Most(Cap) \in Nat /\ Cap[tier] <= Most(Cap)
  BY MostIsMost, LoyaltyAssumption
<1> QED
  BY <1>3, <1>4, LoyaltyAssumption DEF MonthlyCap, HighestCap, n, m

(* What a run may grant: no more than the reward, and no more than is left *)
(* of the month.                                                           *)
LEMMA CappedFits ==
  ASSUME tier \in Tier, month \in Nat, NEW amount \in Nat
  PROVE  /\ Capped(amount) \in 0..amount
         /\ Capped(amount) # 0 => month + Capped(amount) <= MonthlyCap
BY CapBound DEF Capped

-----------------------------------------------------------------------------
(* Types.                                                                  *)

(* The fields of a run, by its stage. *)
LEMMA RunFields ==
  ASSUME LoyaltyTypeOK, NEW r \in Run
  PROVE  /\ reward[r].stage = "grant" =>
              reward[r].spent \in Nat /\ reward[r].gain \in Nat
              /\ reward[r].lifetime \in Nat
         /\ reward[r].stage = "store" => reward[r].lifetime \in Nat
<1>1. reward[r] \in RewardRun
  BY DEF LoyaltyTypeOK
<1> QED
  BY <1>1, IdleRuns DEF RewardRun

LEMMA RunTypes ==
  /\ \A o \in Order : /\ [stage |-> "pay", order |-> o] \in ReferralRun
                      /\ \A to \in Target :
                           [stage |-> "move", order |-> o, to |-> to] \in RewardRun
  /\ \A n \in Nat : [stage |-> "store", lifetime |-> n] \in RewardRun
  /\ \A o \in Order : \A m, g, n \in Nat :
       [stage |-> "grant", order |-> o, spent |-> m, gain |-> g, lifetime |-> n]
         \in RewardRun
BY DEF RewardRun, ReferralRun

(* The grant that RewardRead gives an eligible order. *)
Grant(o) == [stage |-> "grant", order |-> o, spent |-> spent,
             gain |-> Capped(Reward[tier]), lifetime |-> lifetime]

LEMMA GrantFits ==
  ASSUME LoyaltyTypeOK, NEW o \in Order
  PROVE  /\ Grant(o) \in RewardRun
         /\ Capped(Reward[tier]) \in 0..Most(Reward)
         /\ Capped(Reward[tier]) # 0 => month + Capped(Reward[tier]) <= HighestCap
<1>1. tier \in Tier /\ month \in Nat /\ spent \in Nat /\ lifetime \in Nat
  BY DEF LoyaltyTypeOK
<1>2. Reward[tier] \in Nat /\ Reward[tier] <= Most(Reward) /\ Most(Reward) \in Nat
  BY <1>1, MostIsMost, LoyaltyAssumption
<1>3. MonthlyCap \in Nat /\ HighestCap \in Nat /\ MonthlyCap <= HighestCap
  BY <1>1, CapBound
<1>4. /\ Capped(Reward[tier]) \in 0..Reward[tier]
      /\ Capped(Reward[tier]) # 0 => month + Capped(Reward[tier]) <= MonthlyCap
  BY <1>1, <1>2, CappedFits
<1>5. Capped(Reward[tier]) \in Nat
  BY <1>2, <1>4
<1>6. Grant(o) \in RewardRun
  BY <1>1, <1>5, RunTypes DEF Grant
<1> QED
  BY <1>1, <1>2, <1>3, <1>4, <1>6

LEMMA WithOrderType == \A n \in Nat : WithOrder(n) \in Nat
BY LoyaltyAssumption DEF WithOrder

LEMMA LoyaltyTypeStep == LoyaltyTypeOK /\ [LoyaltyNext]_loyaltyVars => LoyaltyTypeOK'
<1> SUFFICES ASSUME LoyaltyTypeOK, [LoyaltyNext]_loyaltyVars PROVE LoyaltyTypeOK'
  OBVIOUS
<1> USE DEF orderVars, customerVars, referralVars, storeVars
<1> DEFINE OrderRow == [status : Status, warranted : BOOLEAN, case : BOOLEAN]
<1>0. \A row \in OrderRow : \A to \in Status :
        /\ [row EXCEPT !.status = to] \in OrderRow
        /\ [row EXCEPT !.status = to, !.case = TRUE] \in OrderRow
  OBVIOUS
<1>a. order \in [Order -> OrderRow] /\ \A o \in Order : order[o] \in OrderRow
  BY DEF LoyaltyTypeOK
<1>b. ASSUME NEW o \in Order, NEW to \in Status,
             order' = [order EXCEPT ![o] = [@ EXCEPT !.status = to]]
      PROVE  order' \in [Order -> OrderRow]
  BY <1>0, <1>a, <1>b
<1>1. ASSUME NEW r \in Run, Complete(r) PROVE LoyaltyTypeOK'
  <2> DEFINE o == reward[r].order
  <2>0. o \in Order
    BY <1>1, RewardOrder DEF Complete
  <2>1. order' \in [Order -> OrderRow]
    <3>1. "WARRANTY_ACTIVE" \in Status /\ "COMPLETED" \in Status
      BY DEF Status
    <3>2. PICK to \in Status : order' = [order EXCEPT ![o] = [@ EXCEPT !.status = to]]
      BY <1>1, <3>1 DEF Complete, SetStatus
    <3> QED
      BY <1>b, <2>0, <3>2
  <2>2. completions' \in 0..MaxCompletions
    BY <1>1, LoyaltyAssumption DEF Complete, LoyaltyTypeOK
  <2>3. reward' \in [Run -> RewardRun] /\ refer' \in [Run -> ReferralRun]
    BY <1>1, <2>0, IdleRuns DEF Complete, LoyaltyTypeOK
  <2>4. UNCHANGED <<window, customerVars, referralVars, storeVars, reviewAlert, admin>>
    BY <1>1 DEF Complete
  <2> QED
    BY <2>1, <2>2, <2>3, <2>4 DEF LoyaltyTypeOK
<1>2. ASSUME NEW r \in Run, NEW o \in Order, NEW to \in Target, TransitionRead(r, o, to)
      PROVE  LoyaltyTypeOK'
  BY <1>2, RunTypes DEF TransitionRead, LoyaltyTypeOK
<1>c. ASSUME NEW r \in Run, TransitionWrite(r) PROVE LoyaltyTypeOK'
  <2> DEFINE o == reward[r].order
             to == reward[r].to
  <2>0. o \in Order /\ to \in Status
    BY <1>c, RewardOrder, LoyaltyAssumption DEF TransitionWrite
  <2>1. order' = [order EXCEPT ![o] = [@ EXCEPT !.status = to]]
    BY <1>c DEF TransitionWrite, SetStatus
  <2>2. order' \in [Order -> OrderRow]
    BY <1>b, <2>0, <2>1
  <2> QED
    BY <1>c, <2>2, IdleRuns DEF TransitionWrite, LoyaltyTypeOK
<1>3. ASSUME NEW o \in Order, OpenCase(o) PROVE LoyaltyTypeOK'
  <2>1. order' \in [Order -> OrderRow]
    <3>1. order[o] \in OrderRow /\ order \in [Order -> OrderRow]
      BY DEF LoyaltyTypeOK
    <3>2. "RETURN_REQUESTED" \in Status /\ "DISPUTED" \in Status
      BY DEF Status
    <3>3. PICK to \in Status :
            order' = [order EXCEPT ![o] = [@ EXCEPT !.status = to, !.case = TRUE]]
      BY <1>3, <3>1, <3>2 DEF OpenCase
    <3> QED
      BY <1>0, <3>1, <3>3
  <2> QED
    BY <1>3, <2>1 DEF OpenCase, LoyaltyTypeOK
<1>4. ASSUME NEW r \in Run, RewardRead(r) PROVE LoyaltyTypeOK'
  <2>0. reward[r].order \in Order
    BY <1>4, RewardOrder DEF RewardRead
  <2>1. PICK run \in RewardRun : reward' = [reward EXCEPT ![r] = run]
    BY <1>4, <2>0, GrantFits, IdleRuns DEF RewardRead, Grant
  <2> QED
    BY <1>4, <2>1 DEF RewardRead, LoyaltyTypeOK
<1>5. ASSUME NEW r \in Run, RewardWrite(r) PROVE LoyaltyTypeOK'
  <2>1. /\ reward[r].spent \in Nat /\ reward[r].gain \in Nat
        /\ reward[r].lifetime \in Nat /\ reward[r].order \in Order
    BY <1>5, RunFields, RewardOrder DEF RewardWrite, Granted
  <2>2. spent' \in Nat /\ tier' \in Tier
    BY <1>5, <2>1, WithOrderType, TierOfType DEF RewardWrite, Granted
  <2>3. balance' \in Nat /\ month' \in Nat /\ profit' \in [Order -> Nat]
    BY <1>5, <2>1 DEF RewardWrite, Granted, Booked, LoyaltyTypeOK
  <2>4. reward' \in [Run -> RewardRun]
    BY <1>5, <2>1, RunTypes DEF RewardWrite, Granted, LoyaltyTypeOK
  <2> QED
    BY <1>5, <2>2, <2>3, <2>4 DEF RewardWrite, Granted, LoyaltyTypeOK
<1>6. ASSUME NEW r \in Run, StoreWrite(r) PROVE LoyaltyTypeOK'
  <2>1. reward[r].lifetime \in Nat
    BY <1>6, RunFields DEF StoreWrite
  <2>2. lifetime' \in Nat /\ counted' \in Nat
    BY <1>6, <2>1, WithOrderType DEF StoreWrite, LoyaltyTypeOK
  <2>3. reward' \in [Run -> RewardRun]
    BY <1>6, IdleRuns DEF StoreWrite, LoyaltyTypeOK
  <2> QED
    BY <1>6, <2>2, <2>3 DEF StoreWrite, LoyaltyTypeOK
<1>7. ASSUME NEW r \in Run, ReferralRead(r) PROVE LoyaltyTypeOK'
  <2>1. refer[r].order \in Order
    BY <1>7, IdleRuns, ReferralOrder DEF ReferralRead, LoyaltyTypeOK
  <2>2. refer' \in [Run -> ReferralRun]
    BY <1>7, <2>1, RunTypes, IdleRuns DEF ReferralRead, LoyaltyTypeOK
  <2> QED
    BY <1>7, <2>2 DEF ReferralRead, LoyaltyTypeOK
<1>8. ASSUME NEW r \in Run, ReferralWrite(r) PROVE LoyaltyTypeOK'
  <2>1. refer[r].order \in Order
    BY <1>8, IdleRuns, ReferralOrder DEF ReferralWrite, LoyaltyTypeOK
  <2>2. refer' \in [Run -> ReferralRun] /\ referral' \in [Order -> Nat]
    BY <1>8, <2>1, IdleRuns DEF ReferralWrite, LoyaltyTypeOK
  <2> QED
    BY <1>8, <2>2, LoyaltyAssumption DEF ReferralWrite, LoyaltyTypeOK
<1>9. CASE NewMonth
  BY <1>9 DEF NewMonth, LoyaltyTypeOK
<1>10. CASE WindowCloses
  BY <1>10 DEF WindowCloses, LoyaltyTypeOK
<1>11. CASE Restart
  BY <1>11, IdleRuns DEF Restart, LoyaltyTypeOK
<1>12. CASE AskReview
  BY <1>12 DEF AskReview, LoyaltyTypeOK
<1>13. ASSUME NEW d \in Decision, Decide(d) PROVE LoyaltyTypeOK'
  <2>1. admin' \in AdminRun
    BY <1>13 DEF Decide, AdminRun
  <2> QED
    BY <1>13, <2>1 DEF Decide, LoyaltyTypeOK
<1>14. CASE CancelRewards
  <2>1. admin' \in AdminRun /\ tier' \in Tier
    BY <1>14 DEF CancelRewards, LoyaltyTypeOK, AdminRun, NoRun, Tier
  <2> QED
    BY <1>14, <2>1 DEF CancelRewards, LoyaltyTypeOK
<1>15. CASE CloseAlert
  <2>1. reviewAlert' \in Decision
    BY <1>15 DEF CloseAlert, LoyaltyTypeOK, AdminRun, NoRun
  <2> QED
    BY <1>15, <2>1, IdleRuns DEF CloseAlert, LoyaltyTypeOK
<1>16. CASE UNCHANGED loyaltyVars
  BY <1>16 DEF loyaltyVars, LoyaltyTypeOK
<1> QED
  BY <1>1, <1>2, <1>c, <1>3, <1>4, <1>5, <1>6, <1>7, <1>8, <1>9, <1>10, <1>11, <1>12,
     <1>13, <1>14, <1>15, <1>16 DEF LoyaltyNext

-----------------------------------------------------------------------------
(* The ledger.                                                             *)

LEMMA LedgerStep ==
  LoyaltyTypeOK /\ BalanceIsLedger /\ [LoyaltyNext]_loyaltyVars => BalanceIsLedger'
<1> SUFFICES ASSUME LoyaltyTypeOK, BalanceIsLedger, [LoyaltyNext]_loyaltyVars
             PROVE  BalanceIsLedger'
  OBVIOUS
<1> USE DEF customerVars, referralVars
<1>0. IsFiniteSet(Order) /\ Commission \in Nat
  BY LoyaltyAssumption
<1>1. ASSUME NEW r \in Run, RewardWrite(r) PROVE BalanceIsLedger'
  <2> DEFINE o == reward[r].order
  <2>1. reward[r].gain \in Nat /\ profit \in [Order -> Nat] /\ o \in Order
    BY <1>1, RunFields, RewardOrder DEF RewardWrite, Granted, LoyaltyTypeOK
  <2>2. \A p \in Order :
          profit'[p] = IF p = o THEN profit[o] + reward[r].gain ELSE profit[p]
    BY <1>1, <2>1 DEF RewardWrite, Granted, Booked
  <2>3. \A p \in Order : profit[p] \in Nat
    BY <2>1
  <2> DEFINE gain == reward[r].gain
  <2>4. Total(profit') = Total(profit) + gain
    <3>1. gain \in Nat /\ \A p \in Order :
            profit'[p] = IF p = o THEN profit[o] + gain ELSE profit[p]
      BY <2>1, <2>2
    <3>2. o \in Order
      BY <2>1
    <3> HIDE DEF gain, o
    <3> QED
      BY <1>0, <2>3, <3>1, <3>2, SumGrows DEF Total
  <2>5. balance' = balance + reward[r].gain
    BY <1>1 DEF RewardWrite, Granted
  <2>6. UNCHANGED <<referrer, referral>>
    BY <1>1 DEF RewardWrite, Granted
  <2> QED
    BY <2>4, <2>5, <2>6 DEF BalanceIsLedger
<1>2. ASSUME NEW r \in Run, ReferralWrite(r) PROVE BalanceIsLedger'
  <2> DEFINE o == refer[r].order
  <2>1. referral \in [Order -> Nat] /\ o \in Order
    BY <1>2, IdleRuns, ReferralOrder DEF ReferralWrite, LoyaltyTypeOK
  <2>2. \A p \in Order : referral'[p] = IF p = o THEN referral[o] + 1 ELSE referral[p]
    BY <1>2, <2>1 DEF ReferralWrite
  <2>3. \A p \in Order : referral[p] \in Nat
    BY <2>1
  <2>4. Total(referral') = Total(referral) + 1 /\ Total(referral) \in Nat
    <3>1. o \in Order
      BY <2>1
    <3> HIDE DEF o
    <3> QED
      BY <1>0, <2>2, <2>3, <3>1, SumGrows, SumOfNat DEF Total
  <2>5. Commission * Total(referral') = Commission * Total(referral) + Commission
    BY <1>0, <2>4, TimesOneMore
  <2>6. referrer' = referrer + Commission /\ UNCHANGED <<balance, profit>>
    BY <1>2 DEF ReferralWrite
  <2> QED
    BY <2>5, <2>6 DEF BalanceIsLedger
<1>3. CASE UNCHANGED <<balance, profit, referrer, referral>>
  BY <1>3 DEF BalanceIsLedger, Total
<1>4. ASSUME NEW r \in Run,
             \/ \E o \in Order, to \in Target : TransitionRead(r, o, to)
             \/ TransitionWrite(r) \/ Complete(r)
             \/ RewardRead(r) \/ StoreWrite(r) \/ ReferralRead(r)
      PROVE  UNCHANGED <<balance, profit, referrer, referral>>
  BY <1>4 DEF Complete, TransitionRead, TransitionWrite, RewardRead, StoreWrite,
              ReferralRead
<1>5. ASSUME \/ \E o \in Order : OpenCase(o)
             \/ NewMonth \/ WindowCloses \/ Restart \/ AskReview
             \/ \E d \in Decision : Decide(d)
             \/ CancelRewards \/ CloseAlert
      PROVE  UNCHANGED <<balance, profit, referrer, referral>>
  BY <1>5 DEF OpenCase, NewMonth, WindowCloses, Restart, AskReview, Decide, CancelRewards,
              CloseAlert
<1>6. UNCHANGED loyaltyVars => UNCHANGED <<balance, profit, referrer, referral>>
  BY DEF loyaltyVars
<1> QED
  BY <1>1, <1>2, <1>3, <1>4, <1>5, <1>6 DEF LoyaltyNext

-----------------------------------------------------------------------------
(* The cap.  The month and what the runs in flight are about to add to it  *)
(* fit in the cap together, but for one reward for each run but one: a run *)
(* that reads when the month has room leaves the others their reward.      *)
Pending == [r \in Run |-> IF reward[r].stage = "grant" THEN reward[r].gain ELSE 0]
TotalPending == SumFunctionOnSet(Pending, Run)

GainsFit ==
  /\ \A r \in Run : Pending[r] <= Most(Reward)
  /\ month + TotalPending <= HighestCap + (Cardinality(Run) - 1) * Most(Reward)

PendingOK == Pending \in [Run -> Nat] /\ TotalPending \in Nat

LEMMA PendingType == LoyaltyTypeOK => PendingOK
<1> SUFFICES ASSUME LoyaltyTypeOK PROVE PendingOK
  OBVIOUS
<1>1. Pending \in [Run -> Nat]
  BY RunFields DEF Pending
<1>2. \A r \in Run : Pending[r] \in Nat
  BY <1>1
<1> QED
  BY <1>1, <1>2, LoyaltyAssumption, SumOfNat DEF PendingOK, TotalPending

LEMMA MostBounds ==
  /\ Most(Reward) \in Nat
  /\ (Cardinality(Run) - 1) * Most(Reward) \in Nat
<1>1. Most(Reward) \in Nat /\ Cardinality(Run) - 1 \in Nat
  BY MostIsMost, LoyaltyAssumption, RunsCounted
<1>2. \A a, b \in Nat : a * b \in Nat
  OBVIOUS
<1> QED
  BY <1>1, <1>2

(* Steps of a run that hold no grant afterwards. *)
Idles(r) == \E run : run.stage # "grant" /\ reward' = [reward EXCEPT ![r] = run]

LEMMA IdleSteps ==
  ASSUME LoyaltyTypeOK, NEW r \in Run
  PROVE  /\ \A o \in Order, to \in Target : TransitionRead(r, o, to) => Idles(r)
         /\ TransitionWrite(r) \/ Complete(r) \/ StoreWrite(r) => Idles(r)
<1>1. ASSUME NEW o \in Order, NEW to \in Target, TransitionRead(r, o, to)
      PROVE  Idles(r)
  BY <1>1 DEF TransitionRead, Idles
<1>2. ASSUME TransitionWrite(r) \/ StoreWrite(r) PROVE Idles(r)
  BY <1>2, IdleRuns DEF TransitionWrite, StoreWrite, Idles
<1>3. ASSUME Complete(r) PROVE Idles(r)
  <2>1. reward[r].order \in Order
    BY <1>3, RewardOrder DEF Complete
  <2> QED
    BY <1>3, <2>1, IdleRuns DEF Complete, Idles
<1> QED
  BY <1>1, <1>2, <1>3

(* Steps that add nothing to the month or to what is pending. *)
LEMMA LessFits ==
  ASSUME LoyaltyTypeOK, LoyaltyTypeOK', GainsFit,
         month' <= month, \A r \in Run : Pending'[r] <= Pending[r]
  PROVE  GainsFit'
<1>1. Pending \in [Run -> Nat] /\ TotalPending \in Nat
  BY PendingType DEF PendingOK
<1>2. Pending' \in [Run -> Nat] /\ TotalPending' \in Nat
  <2>1. PendingOK'
    BY PendingType, PTL
  <2> QED
    BY <2>1 DEF PendingOK
<1>3. \A r \in Run : Pending[r] \in Nat /\ Pending'[r] \in Nat
  BY <1>1, <1>2
<1>4. TotalPending' <= TotalPending
  BY <1>3, SumAtMost, LoyaltyAssumption DEF TotalPending
<1>5. month \in Nat /\ month' \in Nat
  BY DEF LoyaltyTypeOK
<1>6. HighestCap \in Nat
  BY CapBound DEF LoyaltyTypeOK
<1>7. UNCHANGED HighestCap
  BY DEF HighestCap
<1> QED
  BY <1>1, <1>2, <1>3, <1>4, <1>5, <1>6, <1>7, MostBounds DEF GainsFit

LEMMA CapStep ==
  ASSUME LoyaltyTypeOK, LoyaltyTypeOK', GainsFit, [LoyaltyNext]_loyaltyVars
  PROVE  GainsFit'
<1> USE DEF customerVars
<1>0. /\ IsFiniteSet(Run) /\ month \in Nat /\ month' \in Nat
      /\ HighestCap \in Nat /\ UNCHANGED HighestCap
  BY LoyaltyAssumption, CapBound DEF LoyaltyTypeOK, HighestCap
<1>a. Pending \in [Run -> Nat] /\ TotalPending \in Nat
  BY PendingType DEF PendingOK
<1>b. Pending' \in [Run -> Nat] /\ TotalPending' \in Nat
  <2>1. PendingOK'
    BY PendingType, PTL
  <2> QED
    BY <2>1 DEF PendingOK
<1>c. \A q \in Run : Pending[q] \in Nat /\ Pending'[q] \in Nat
  BY <1>a, <1>b
<1>d. reward \in [Run -> RewardRun]
  BY DEF LoyaltyTypeOK
<1>1. ASSUME NEW r \in Run, RewardRead(r), Eligible(reward[r].order),
             Capped(Reward[tier]) # 0
      PROVE  GainsFit'
  <2> DEFINE gain == Capped(Reward[tier])
             Rest == Run \ {r}
  <2>1. /\ Pending'[r] = gain
        /\ \A q \in Run : q # r => Pending'[q] = Pending[q]
        /\ month' = month
    BY <1>1, <1>d DEF RewardRead, Pending
  <2>2. gain \in 0..Most(Reward) /\ month + gain <= HighestCap
    BY <1>1, RewardOrder, GrantFits DEF RewardRead
  <2>3. \A q \in Run : Pending'[q] \in 0..Most(Reward)
    BY <1>c, <2>1, <2>2, MostBounds DEF GainsFit
  <2>4. IsFiniteSet(Rest) /\ Cardinality(Rest) = Cardinality(Run) - 1
    BY <1>0, FS_RemoveElement
  <2>5. SumFunctionOnSet(Pending', Rest) \in 0..(Most(Reward) * Cardinality(Rest))
    BY <2>3, <2>4, SumOfBounded, MostBounds
  <2>6. TotalPending' = Pending'[r] + SumFunctionOnSet(Pending', Rest)
    BY <1>0, <1>c, SumOfOther DEF TotalPending
  <2>7. Most(Reward) * (Cardinality(Run) - 1) = (Cardinality(Run) - 1) * Most(Reward)
    BY MostBounds, RunsCounted
  <2>8. gain \in Nat
    BY <2>2, MostBounds
  <2> HIDE DEF gain, Rest
  <2>9. month' + TotalPending' <= HighestCap + (Cardinality(Run) - 1) * Most(Reward)
    BY <1>0, <2>1, <2>2, <2>4, <2>5, <2>6, <2>7, <2>8, MostBounds
  <2> QED
    BY <1>0, <1>c, <2>3, <2>9, MostBounds DEF GainsFit
<1>2. ASSUME NEW r \in Run, RewardRead(r),
             ~(Eligible(reward[r].order) /\ Capped(Reward[tier]) # 0)
      PROVE  GainsFit'
  <2>1. NoRun.stage # "grant"
    BY DEF NoRun
  <2>2. Pending'[r] = 0 /\ \A q \in Run : q # r => Pending'[q] = Pending[q]
    BY <1>2, <1>c, <1>d, <2>1 DEF RewardRead, Pending
  <2>3. \A q \in Run : Pending'[q] <= Pending[q]
    BY <1>c, <2>2
  <2>4. month' <= month
    BY <1>0, <1>2 DEF RewardRead
  <2> QED
    BY <2>3, <2>4, LessFits
<1>3. ASSUME NEW r \in Run, RewardWrite(r) PROVE GainsFit'
  <2>1. month' = month + reward[r].gain /\ Pending[r] = reward[r].gain
    BY <1>3 DEF RewardWrite, Granted, Booked, Pending
  <2>2. Pending'[r] = 0 /\ \A q \in Run : q # r => Pending'[q] = Pending[q]
    BY <1>3, <1>d DEF RewardWrite, Granted, Pending
  <2>3. \A q \in Run :
          Pending[q] = IF q = r THEN Pending'[r] + Pending[r] ELSE Pending'[q]
    BY <1>c, <2>2
  <2>4. TotalPending = TotalPending' + Pending[r]
    BY <1>0, <1>c, <2>3, SumGrows DEF TotalPending
  <2>5. month' + TotalPending' = month + TotalPending
    BY <1>0, <1>a, <1>b, <1>c, <2>1, <2>4
  <2>6. \A q \in Run : Pending'[q] <= Most(Reward)
    BY <1>c, <2>2, MostBounds DEF GainsFit
  <2> QED
    BY <1>0, <2>5, <2>6 DEF GainsFit
<1>4. ASSUME NEW r \in Run, Idles(r), UNCHANGED month PROVE GainsFit'
  <2>1. month' <= month
    BY <1>0, <1>4
  <2>2. Pending'[r] = 0 /\ \A q \in Run : q # r => Pending'[q] = Pending[q]
    BY <1>4, <1>d DEF Idles, Pending
  <2>3. \A q \in Run : Pending'[q] <= Pending[q]
    BY <1>c, <2>2
  <2> QED
    BY <2>1, <2>3, LessFits
<1>5. CASE Restart
  <2>1. \A q \in Run : Pending'[q] = 0
    BY <1>5 DEF Restart, Pending, NoRun
  <2>2. \A q \in Run : Pending'[q] <= Pending[q]
    BY <1>c, <2>1
  <2>3. month' <= month
    BY <1>0, <1>5 DEF Restart
  <2> QED
    BY <2>2, <2>3, LessFits
<1>6. CASE month' <= month /\ UNCHANGED reward
  <2>1. \A q \in Run : Pending'[q] <= Pending[q]
    BY <1>6, <1>c DEF Pending
  <2> QED
    BY <1>6, <2>1, LessFits
<1>7. CASE NewMonth
  BY <1>0, <1>6, <1>7 DEF NewMonth
<1>8. CASE UNCHANGED <<month, reward>>
  BY <1>0, <1>6, <1>8
<1>e. ASSUME NEW r \in Run,
             \/ \E o \in Order, to \in Target : TransitionRead(r, o, to)
             \/ TransitionWrite(r) \/ Complete(r) \/ StoreWrite(r)
      PROVE  Idles(r) /\ UNCHANGED month
  BY <1>e, IdleSteps DEF TransitionRead, TransitionWrite, Complete, StoreWrite
<1>9. ASSUME NEW r \in Run, ReferralRead(r) \/ ReferralWrite(r)
      PROVE  UNCHANGED <<month, reward>>
  BY <1>9 DEF ReferralRead, ReferralWrite
<1>10. ASSUME \/ \E o \in Order : OpenCase(o)
              \/ WindowCloses \/ AskReview \/ \E d \in Decision : Decide(d)
              \/ CancelRewards \/ CloseAlert
       PROVE  UNCHANGED <<month, reward>>
  BY <1>10 DEF OpenCase, WindowCloses, AskReview, Decide, CancelRewards, CloseAlert
<1>11. UNCHANGED loyaltyVars => UNCHANGED <<month, reward>>
  BY DEF loyaltyVars
<1> QED
  BY <1>1, <1>2, <1>3, <1>4, <1>5, <1>7, <1>8, <1>e, <1>9, <1>10, <1>11 DEF LoyaltyNext

-----------------------------------------------------------------------------
(* The totals.  A run writes the spending it read before: what it read is  *)
(* worth no more than the completions settled by then, those whose run     *)
(* wrote or is lost, and that number never falls.                          *)
Owing == {r \in Run : reward[r].stage \in {"started", "grant"}}
Settled == completions - Cardinality(Owing)

SpentFits ==
  /\ Settled \in Nat
  /\ spent <= Worth * Settled
  /\ \A r \in Run : reward[r].stage = "grant" => reward[r].spent <= Worth * Settled

LEMMA OwingCounted ==
  /\ IsFiniteSet(Owing) /\ Cardinality(Owing) \in Nat
  /\ \A r \in Owing : Cardinality(Owing \ {r}) = Cardinality(Owing) - 1
  /\ \A r \in Run \ Owing : Cardinality(Owing \cup {r}) = Cardinality(Owing) + 1
<1>1. IsFiniteSet(Owing) /\ Cardinality(Owing) \in Nat
  <2>1. Owing \subseteq Run
    BY DEF Owing
  <2> QED
    BY <2>1, LoyaltyAssumption, FS_Subset, FS_CardinalityType
<1> QED
  BY <1>1, FS_AddElement, FS_RemoveElement

(* What is below the worth of n completions is below that of more. *)
LEMMA WorthMore ==
  ASSUME NEW a \in Nat, NEW m \in Nat, NEW n \in Nat, a <= Worth * m, m <= n
  PROVE  a <= Worth * n
<1>1. Worth * m <= Worth * n /\ Worth * m \in Nat /\ Worth * n \in Nat
  BY Times, LoyaltyAssumption
<1> QED
  BY <1>1

LEMMA WorthOneMore ==
  ASSUME NEW a \in Nat, NEW m \in Nat, a <= Worth * m
  PROVE  WithOrder(a) <= Worth * (m + 1)
<1>1. Worth * (m + 1) = Worth * m + Worth /\ Worth * m \in Nat /\ Worth \in Nat
  BY Times, TimesOneMore, LoyaltyAssumption
<1> QED
  BY <1>1 DEF WithOrder

(* Steps that write no spending, and start no grant but from it. *)
LEMMA SpentStays ==
  ASSUME LoyaltyTypeOK, SpentFits, Settled' \in Nat, Settled <= Settled',
         spent' = spent,
         \A r \in Run : reward'[r].stage = "grant" =>
           \/ reward[r].stage = "grant" /\ reward'[r].spent = reward[r].spent
           \/ reward'[r].spent = spent
  PROVE  SpentFits'
<1>1. spent \in Nat /\ Settled \in Nat /\ spent <= Worth * Settled
  BY DEF LoyaltyTypeOK, SpentFits
<1>2. spent <= Worth * Settled'
  BY <1>1, WorthMore
<1>3. ASSUME NEW r \in Run, reward'[r].stage = "grant"
      PROVE  reward'[r].spent <= Worth * Settled'
  <2>1. CASE reward[r].stage = "grant" /\ reward'[r].spent = reward[r].spent
    <3>1. reward[r].spent \in Nat /\ reward[r].spent <= Worth * Settled
      BY <2>1, RunFields DEF SpentFits
    <3>2. reward[r].spent <= Worth * Settled'
      BY <1>1, <3>1, WorthMore
    <3> QED
      BY <2>1, <3>2
  <2>2. CASE reward'[r].spent = spent
    BY <1>2, <2>2
  <2> QED
    BY <1>3, <2>1, <2>2
<1> QED
  BY <1>2, <1>3 DEF SpentFits

(* Steps of a run that owes no spending, before and afterwards. *)
Waits(r) ==
  \E run : /\ reward[r].stage \notin {"started", "grant"}
          /\ run.stage \notin {"started", "grant"}
          /\ reward' = [reward EXCEPT ![r] = run]

LEMMA WaitSteps ==
  ASSUME NEW r \in Run
  PROVE  /\ \A o \in Order, to \in Target : TransitionRead(r, o, to) => Waits(r)
         /\ TransitionWrite(r) \/ StoreWrite(r) => Waits(r)
<1>1. ASSUME NEW o \in Order, NEW to \in Target, TransitionRead(r, o, to)
      PROVE  Waits(r)
  BY <1>1, IdleRuns DEF TransitionRead, Waits
<1>2. ASSUME TransitionWrite(r) \/ StoreWrite(r) PROVE Waits(r)
  BY <1>2, IdleRuns DEF TransitionWrite, StoreWrite, Waits
<1> QED
  BY <1>1, <1>2

LEMMA SpentStep ==
  ASSUME LoyaltyTypeOK, SpentFits, [LoyaltyNext]_loyaltyVars
  PROVE  SpentFits'
<1> USE DEF orderVars, customerVars
<1>0. /\ reward \in [Run -> RewardRun] /\ completions \in Nat /\ spent \in Nat
      /\ Settled \in Nat /\ Cardinality(Owing) \in Nat
  BY OwingCounted, LoyaltyAssumption DEF LoyaltyTypeOK, SpentFits
<1>a. NoRun.stage = "idle"
  BY IdleRuns
<1>b. ASSUME Owing' = Owing, completions' = completions PROVE Settled' = Settled
  BY <1>b DEF Settled
<1>c. ASSUME NEW r \in Owing, Owing' = Owing \ {r}, completions' = completions
      PROVE  Settled' = Settled + 1
  BY <1>0, <1>c, OwingCounted DEF Settled
<1>1. ASSUME NEW r \in Run, Complete(r) PROVE SpentFits'
  <2>0. reward[r].order \in Order
    BY <1>1, RewardOrder DEF Complete
  <2>1. PICK run : /\ reward[r].stage = "move" /\ run.stage = "started"
                   /\ reward' = [reward EXCEPT ![r] = run]
    BY <1>1, <2>0, IdleRuns DEF Complete
  <2>2. Owing' = Owing \cup {r} /\ r \notin Owing
    BY <1>0, <2>1 DEF Owing
  <2>3. completions' = completions + 1 /\ spent' = spent
    BY <1>1 DEF Complete
  <2>4. Settled' = Settled
    BY <1>0, <2>2, <2>3, OwingCounted DEF Settled
  <2>5. \A q \in Run : reward'[q].stage = "grant" => reward'[q] = reward[q]
    BY <1>0, <1>a, <2>1
  <2> QED
    BY <1>0, <2>3, <2>4, <2>5, SpentStays
<1>2. ASSUME NEW r \in Run, RewardRead(r), Eligible(reward[r].order) PROVE SpentFits'
  <2> DEFINE o == reward[r].order
  <2>1. /\ reward[r].stage = "started" /\ reward' = [reward EXCEPT ![r] = Grant(o)]
        /\ completions' = completions /\ spent' = spent
    BY <1>2, <1>a DEF RewardRead, Grant
  <2>2. Grant(o).stage = "grant" /\ Grant(o).spent = spent
    BY DEF Grant
  <2>3. Owing' = Owing
    BY <1>0, <2>1, <2>2 DEF Owing
  <2>4. \A q \in Run : reward'[q].stage = "grant" =>
          reward'[q] = reward[q] \/ reward'[q].spent = spent
    BY <1>0, <2>1, <2>2
  <2> QED
    BY <1>0, <1>b, <2>1, <2>3, <2>4, SpentStays
<1>3. ASSUME NEW r \in Run, RewardRead(r), ~Eligible(reward[r].order) PROVE SpentFits'
  <2>1. /\ reward[r].stage = "started" /\ reward' = [reward EXCEPT ![r] = NoRun]
        /\ completions' = completions /\ spent' = spent
    BY <1>3, <1>a DEF RewardRead
  <2>2. Owing' = Owing \ {r} /\ r \in Owing
    BY <1>0, <1>a, <2>1 DEF Owing
  <2>3. \A q \in Run : reward'[q].stage = "grant" => reward'[q] = reward[q]
    BY <1>0, <1>a, <2>1
  <2>4. Settled' = Settled + 1
    BY <1>c, <2>1, <2>2
  <2> QED
    BY <1>0, <2>1, <2>3, <2>4, SpentStays
<1>4. ASSUME NEW r \in Run, RewardWrite(r) PROVE SpentFits'
  <2> DEFINE run == [stage |-> "store", lifetime |-> reward[r].lifetime]
  <2>1. /\ reward[r].stage = "grant" /\ reward' = [reward EXCEPT ![r] = run]
        /\ completions' = completions /\ spent' = WithOrder(reward[r].spent)
    BY <1>4 DEF RewardWrite, Granted
  <2>2. Owing' = Owing \ {r} /\ r \in Owing
    BY <1>0, <2>1 DEF Owing
  <2>3. Settled' = Settled + 1
    BY <1>c, <2>1, <2>2
  <2>4. reward[r].spent \in Nat /\ reward[r].spent <= Worth * Settled
    BY <2>1, RunFields DEF SpentFits
  <2>5. spent' <= Worth * Settled'
    BY <1>0, <2>1, <2>3, <2>4, WorthOneMore
  <2>6. ASSUME NEW q \in Run, reward'[q].stage = "grant"
        PROVE  reward'[q].spent <= Worth * Settled'
    <3>1. reward'[q] = reward[q] /\ reward[q].stage = "grant"
      BY <1>0, <2>1, <2>6
    <3>2. reward[q].spent \in Nat /\ reward[q].spent <= Worth * Settled
      BY <3>1, RunFields DEF SpentFits
    <3>3. Settled <= Settled' /\ Settled' \in Nat
      BY <1>0, <2>3
    <3> QED
      BY <1>0, <3>1, <3>2, <3>3, WorthMore
  <2> QED
    BY <1>0, <2>3, <2>5, <2>6 DEF SpentFits
<1>5. ASSUME NEW r \in Run, Waits(r), completions' = completions, spent' = spent
      PROVE  SpentFits'
  <2>1. PICK run : /\ reward[r].stage \notin {"started", "grant"}
                   /\ run.stage \notin {"started", "grant"}
                   /\ reward' = [reward EXCEPT ![r] = run]
    BY <1>5 DEF Waits
  <2>2. Owing' = Owing
    BY <1>0, <2>1 DEF Owing
  <2>3. \A q \in Run : reward'[q].stage = "grant" => reward'[q] = reward[q]
    BY <1>0, <2>1
  <2> QED
    BY <1>0, <1>5, <1>b, <2>2, <2>3, SpentStays
<1>6. CASE Restart
  <2>1. \A r \in Run : reward'[r].stage = "idle"
    BY <1>6, <1>a DEF Restart
  <2>2. Owing' = {} /\ completions' = completions /\ spent' = spent
    BY <1>6, <2>1 DEF Restart, Owing
  <2>3. Settled' = completions
    BY <1>0, <2>2, FS_EmptySet DEF Settled
  <2>4. Settled <= Settled' /\ Settled' \in Nat
    BY <1>0, <2>3 DEF Settled
  <2> QED
    BY <2>1, <2>2, <2>4, SpentStays
<1>7. CASE UNCHANGED <<completions, spent, reward>>
  <2>1. Owing' = Owing
    BY <1>7 DEF Owing
  <2> QED
    BY <1>0, <1>7, <1>b, <2>1, SpentStays
<1>d. ASSUME NEW r \in Run,
             \/ \E o \in Order, to \in Target : TransitionRead(r, o, to)
             \/ TransitionWrite(r) \/ StoreWrite(r)
      PROVE  Waits(r) /\ completions' = completions /\ spent' = spent
  BY <1>d, WaitSteps DEF TransitionRead, TransitionWrite, StoreWrite
<1>8. ASSUME NEW r \in Run, ReferralRead(r) \/ ReferralWrite(r)
      PROVE  UNCHANGED <<completions, spent, reward>>
  BY <1>8 DEF ReferralRead, ReferralWrite
<1>9. ASSUME \/ \E o \in Order : OpenCase(o)
             \/ NewMonth \/ WindowCloses \/ AskReview \/ \E d \in Decision : Decide(d)
             \/ CancelRewards \/ CloseAlert
      PROVE  UNCHANGED <<completions, spent, reward>>
  BY <1>9 DEF OpenCase, NewMonth, WindowCloses, AskReview, Decide, CancelRewards,
              CloseAlert
<1>10. UNCHANGED loyaltyVars => UNCHANGED <<completions, spent, reward>>
  BY DEF loyaltyVars
<1> QED
  BY <1>1, <1>2, <1>3, <1>4, <1>5, <1>d, <1>6, <1>7, <1>8, <1>9, <1>10 DEF LoyaltyNext

(* The same for the store, whose count every write of its earnings raises. *)
LifetimeFits ==
  /\ lifetime <= Worth * counted
  /\ \A r \in Run : reward[r].stage \in {"grant", "store"} =>
       reward[r].lifetime <= Worth * counted

LEMMA LifetimeStep ==
  ASSUME LoyaltyTypeOK, LifetimeFits, [LoyaltyNext]_loyaltyVars
  PROVE  LifetimeFits'
<1> USE DEF storeVars
<1>0. /\ reward \in [Run -> RewardRun] /\ counted \in Nat /\ lifetime \in Nat
  BY DEF LoyaltyTypeOK
<1>a. NoRun.stage = "idle"
  BY IdleRuns
<1>b. ASSUME UNCHANGED storeVars,
             \A r \in Run : reward'[r].stage \in {"grant", "store"} =>
               \/ /\ reward[r].stage \in {"grant", "store"}
                  /\ reward'[r].lifetime = reward[r].lifetime
               \/ reward'[r].lifetime = lifetime
      PROVE  LifetimeFits'
  BY <1>b DEF LifetimeFits
<1>1. ASSUME NEW r \in Run,
             \/ \E o \in Order, to \in Target : TransitionRead(r, o, to)
             \/ TransitionWrite(r) \/ Complete(r)
      PROVE  LifetimeFits'
  <2>1. UNCHANGED storeVars
    BY <1>1 DEF TransitionRead, TransitionWrite, Complete
  <2>2. PICK run : /\ run.stage \notin {"grant", "store"}
                   /\ reward' = [reward EXCEPT ![r] = run]
    <3>1. CASE Complete(r)
      <4>1. reward[r].order \in Order
        BY <3>1, RewardOrder DEF Complete
      <4> QED
        BY <3>1, <4>1, IdleRuns DEF Complete
    <3>2. CASE TransitionWrite(r)
      BY <3>2, <1>a DEF TransitionWrite
    <3>3. CASE \E o \in Order, to \in Target : TransitionRead(r, o, to)
      BY <3>3 DEF TransitionRead
    <3> QED
      BY <1>1, <3>1, <3>2, <3>3
  <2>3. \A q \in Run : reward'[q].stage \in {"grant", "store"} => reward'[q] = reward[q]
    BY <1>0, <2>2
  <2> QED
    BY <1>b, <2>1, <2>3
<1>2. ASSUME NEW r \in Run, RewardRead(r) PROVE LifetimeFits'
  <2> DEFINE o == reward[r].order
  <2>1. PICK run \in {Grant(o), NoRun} : reward' = [reward EXCEPT ![r] = run]
    BY <1>2 DEF RewardRead, Grant
  <2>2. Grant(o).lifetime = lifetime
    BY DEF Grant
  <2>3. run.stage \in {"grant", "store"} => run.lifetime = lifetime
    BY <1>a, <2>1, <2>2
  <2>4. UNCHANGED storeVars
    BY <1>2 DEF RewardRead
  <2> QED
    BY <1>0, <1>b, <2>1, <2>3, <2>4
<1>3. ASSUME NEW r \in Run, RewardWrite(r) PROVE LifetimeFits'
  <2> DEFINE run == [stage |-> "store", lifetime |-> reward[r].lifetime]
  <2>1. /\ reward[r].stage = "grant" /\ reward' = [reward EXCEPT ![r] = run]
        /\ UNCHANGED storeVars
    BY <1>3 DEF RewardWrite, Granted
  <2> QED
    BY <1>0, <1>b, <2>1
<1>4. ASSUME NEW r \in Run, StoreWrite(r) PROVE LifetimeFits'
  <2>1. /\ reward[r].stage = "store" /\ reward' = [reward EXCEPT ![r] = NoRun]
        /\ lifetime' = WithOrder(reward[r].lifetime) /\ counted' = counted + 1
    BY <1>4 DEF StoreWrite
  <2>2. lifetime' <= Worth * counted'
    <3>1. reward[r].lifetime \in Nat /\ reward[r].lifetime <= Worth * counted
      BY <2>1, RunFields DEF LifetimeFits
    <3> QED
      BY <1>0, <2>1, <3>1, WorthOneMore
  <2>3. ASSUME NEW q \in Run, reward'[q].stage \in {"grant", "store"}
        PROVE  reward'[q].lifetime <= Worth * counted'
    <3>1. reward'[q] = reward[q] /\ reward[q].stage \in {"grant", "store"}
      BY <1>0, <1>a, <2>1, <2>3
    <3>2. reward[q].lifetime \in Nat /\ reward[q].lifetime <= Worth * counted
      BY <3>1, RunFields DEF LifetimeFits
    <3>3. counted <= counted' /\ counted' \in Nat
      BY <1>0, <2>1
    <3> QED
      BY <1>0, <3>1, <3>2, <3>3, WorthMore
  <2> QED
    BY <2>2, <2>3 DEF LifetimeFits
<1>5. CASE Restart
  BY <1>5, <1>a, <1>b DEF Restart
<1>6. CASE UNCHANGED <<storeVars, reward>>
  BY <1>6, <1>b
<1>7. ASSUME NEW r \in Run, ReferralRead(r) \/ ReferralWrite(r)
      PROVE  UNCHANGED <<storeVars, reward>>
  BY <1>7 DEF ReferralRead, ReferralWrite
<1>8. ASSUME \/ \E o \in Order : OpenCase(o)
             \/ NewMonth \/ WindowCloses \/ AskReview \/ \E d \in Decision : Decide(d)
             \/ CancelRewards \/ CloseAlert
      PROVE  UNCHANGED <<storeVars, reward>>
  BY <1>8 DEF OpenCase, NewMonth, WindowCloses, AskReview, Decide, CancelRewards,
              CloseAlert
<1>9. UNCHANGED loyaltyVars => UNCHANGED <<storeVars, reward>>
  BY DEF loyaltyVars
<1> QED
  BY <1>1, <1>2, <1>3, <1>4, <1>5, <1>6, <1>7, <1>8, <1>9 DEF LoyaltyNext

-----------------------------------------------------------------------------
LoyaltyFits == LoyaltyTypeOK /\ BalanceIsLedger /\ GainsFit /\ SpentFits /\ LifetimeFits

LEMMA LoyaltyFitsInit == LoyaltyInit => LoyaltyFits
<1> SUFFICES ASSUME LoyaltyInit PROVE LoyaltyFits
  OBVIOUS
<1>0. \A r \in Run : reward[r].stage = "idle"
  BY IdleRuns DEF LoyaltyInit
<1>1. LoyaltyTypeOK
  <2>1. "DELIVERED" \in Status /\ "BASIC" \in Tier /\ 0 \in 0..MaxCompletions
    BY LoyaltyAssumption DEF Status, Tier
  <2>2. order \in [Order -> [status : Status, warranted : BOOLEAN, case : BOOLEAN]]
    BY <2>1 DEF LoyaltyInit
  <2> QED
    BY <2>1, <2>2, IdleRuns DEF LoyaltyInit, LoyaltyTypeOK
<1>2. \A S : IsFiniteSet(S) =>
        \A f : (\A x \in S : f[x] = 0) => SumFunctionOnSet(f, S) = 0
  <2> SUFFICES ASSUME NEW S, IsFiniteSet(S), NEW f, \A x \in S : f[x] = 0
               PROVE  SumFunctionOnSet(f, S) = 0
    OBVIOUS
  <2>1. \A x \in S : f[x] \in 0..0
    OBVIOUS
  <2>2. SumFunctionOnSet(f, S) \in 0..(0 * Cardinality(S))
    BY <2>1, SumOfBounded
  <2> QED
    BY <2>2, FS_CardinalityType
<1>3. BalanceIsLedger
  <2>1. \A o \in Order : profit[o] = 0 /\ referral[o] = 0
    BY DEF LoyaltyInit
  <2>2. Total(profit) = 0 /\ Total(referral) = 0
    BY <1>2, <2>1, LoyaltyAssumption DEF Total
  <2>3. balance = 0 /\ referrer = 0 /\ Commission * 0 = 0
    BY LoyaltyAssumption DEF LoyaltyInit
  <2> QED
    BY <2>2, <2>3 DEF BalanceIsLedger
<1>4. GainsFit
  <2>1. \A r \in Run : Pending[r] = 0
    BY <1>0 DEF Pending
  <2>2. TotalPending = 0 /\ month = 0
    BY <1>2, <2>1, LoyaltyAssumption DEF TotalPending, LoyaltyInit
  <2>3. HighestCap \in Nat
    BY <1>1, CapBound DEF LoyaltyTypeOK
  <2> QED
    BY <2>1, <2>2, <2>3, MostBounds DEF GainsFit
<1>5. SpentFits
  <2>1. Owing = {} /\ completions = 0
    BY <1>0 DEF Owing, LoyaltyInit
  <2>2. Settled = 0
    BY <2>1, FS_EmptySet DEF Settled
  <2>3. spent <= Worth * Settled
    BY <2>2, LoyaltyAssumption DEF LoyaltyInit
  <2> QED
    BY <1>0, <2>2, <2>3 DEF SpentFits
<1>6. LifetimeFits
  <2>1. lifetime <= Worth * counted
    BY LoyaltyAssumption DEF LoyaltyInit
  <2> QED
    BY <1>0, <2>1 DEF LifetimeFits
<1> QED
  BY <1>1, <1>3, <1>4, <1>5, <1>6 DEF LoyaltyFits

LEMMA LoyaltyFitsStep == LoyaltyFits /\ [LoyaltyNext]_loyaltyVars => LoyaltyFits'
<1> SUFFICES ASSUME LoyaltyFits, [LoyaltyNext]_loyaltyVars PROVE LoyaltyFits'
  OBVIOUS
<1>1. /\ LoyaltyTypeOK /\ BalanceIsLedger /\ GainsFit /\ SpentFits /\ LifetimeFits
  BY DEF LoyaltyFits
<1>2. LoyaltyTypeOK'
  BY <1>1, LoyaltyTypeStep
<1> QED
  BY <1>1, <1>2, LedgerStep, CapStep, SpentStep, LifetimeStep DEF LoyaltyFits

LEMMA LoyaltyAlwaysFits == LoyaltySpec => []LoyaltyFits
BY LoyaltyFitsInit, LoyaltyFitsStep, PTL DEF LoyaltySpec

(* Completions of the same customer and store that overlap, or are lost    *)
(* with the process, keep the balances equal to their ledger, and bring no *)
(* more spending and earnings than the orders are worth.                   *)
THEOREM LoyaltyAlwaysInv == LoyaltySpec => []LoyaltyInv
<1>1. LoyaltyFits => LoyaltyInv
  <2> SUFFICES ASSUME LoyaltyFits PROVE LoyaltyInv
    OBVIOUS
  <2>1. /\ LoyaltyTypeOK /\ BalanceIsLedger /\ SpentFits /\ LifetimeFits
    BY DEF LoyaltyFits
  <2>2. /\ spent \in Nat /\ completions \in Nat /\ Settled \in Nat
        /\ spent <= Worth * Settled
    BY <2>1, LoyaltyAssumption DEF LoyaltyTypeOK, SpentFits
  <2>3. Settled <= completions
    BY <2>2, OwingCounted DEF Settled
  <2>4. spent <= Worth * completions
    BY <2>2, <2>3, WorthMore
  <2> QED
    BY <2>1, <2>4 DEF LoyaltyInv, NothingInvented, LifetimeFits
<1> QED
  BY <1>1, LoyaltyAlwaysFits, PTL

(* Completions that read the month before any of them writes pass its cap  *)
(* by no more than a reward for each of them but one.                      *)
THEOREM CapAlwaysNearlyKept == LoyaltySpec => []CapIsNearlyKept
<1>1. LoyaltyFits => CapIsNearlyKept
  <2> SUFFICES ASSUME LoyaltyFits PROVE CapIsNearlyKept
    OBVIOUS
  <2>1. LoyaltyTypeOK /\ GainsFit
    BY DEF LoyaltyFits
  <2>2. TotalPending \in Nat /\ month \in Nat /\ HighestCap \in Nat
    BY <2>1, PendingType, CapBound DEF PendingOK, LoyaltyTypeOK
  <2>3. month <= HighestCap + (Cardinality(Run) - 1) * Most(Reward)
    BY <2>1, <2>2, MostBounds DEF GainsFit
  <2> QED
    BY <2>3 DEF CapIsNearlyKept
<1> QED
  BY <1>1, LoyaltyAlwaysFits, PTL

(* However often an order is completed, and whatever runs overlap or are   *)
(* lost, processReferralReward pays its commission no more often than      *)
(* there are requests in flight at once.                                   *)
THEOREM ReferralPerOverlap == LoyaltySpec => []ReferralPaidPerOverlap
<1>1. LoyaltyFits => LoyaltyTypeOK
  BY DEF LoyaltyFits
<1>2. ReferralInv => ReferralPaidPerOverlap
  <2> SUFFICES ASSUME ReferralInv, NEW o \in Order
               PROVE  referral[o] <= Cardinality(Run)
    BY DEF ReferralPaidPerOverlap
  <2>1. PICK n \in Nat : n = Cardinality(Paying(o))
    <3>1. Paying(o) \in SUBSET Run
      BY DEF Paying
    <3> QED
      BY <3>1, RunsFew
  <2> QED
    BY <2>1, RunsCounted DEF ReferralInv
<1> QED
  BY <1>1, <1>2, LoyaltyAlwaysFits, ReferralInit, ReferralStep, PTL DEF LoyaltySpec
=============================================================================
