-------------------------- MODULE Inspection_proofs -------------------------
(***************************************************************************)
(* For any officers, tasks, links and jobs, any transitions asked for at   *)
(* the endpoint, and requests that come one at a time and may die: the     *)
(* four properties of Inspection hold.                                     *)
(*                                                                         *)
(* A request writes what it read, so the invariant says of a request that  *)
(* has read (Informed) that its copy of the task is the task, and that the *)
(* status it read tells of the document and of the deadline what a status  *)
(* does that was not set by hand.  A job or a transition between the two   *)
(* steps moves the order; it leaves the task, the document and the         *)
(* deadline alone.                                                         *)
(***************************************************************************)
EXTENDS Inspection, SequenceTheorems, TLAPS

OneClient == \A c, d \in Client : c = d

Underway == {"IN_PROGRESS", "AWAITING_ADMIN_APPROVAL", "AWAITING_CORRECTION"}
Decided(r) == r.status \in Underway => r.officer = r.starter

(* What a status tells of the deadline and of the document, unless it was  *)
(* set by hand. *)
Timed(s, who) ==
  s \in {"NON_MATCHING", "CORRECTION_PERIOD"} => correction # Unset \/ who = "endpoint"
Approves(s, who) ==
  s \in {"VERIFICATION_SUCCESS", "READY_FOR_SHIPPING"} => document = "APPROVED" \/ who = "endpoint"

DeskOK ==
  /\ status \in Status
  /\ rejections \in Nat
  /\ correction \in {Unset} \cup 0..Correction
  /\ document \in {"none", "PENDING", "APPROVED", "REJECTED"}
  /\ setBy \in Setter
  /\ Timed(status, setBy) /\ Approves(status, setBy)

FieldOK ==
  /\ current \in 0..Len(tasks)
  /\ tasks \in Seq(Task)
  /\ \A t \in TaskIds : Decided(tasks[t])
  /\ links \in Seq(Link)
  /\ \A l \in DOMAIN links : links[l].task \in TaskIds

Known(r) == r # Idle => r.task \in 0..Len(tasks) /\ r.link \in 0..Len(links)

CallsOK ==
  /\ call \in [Caller -> {Idle} \cup Calls]
  /\ \A c \in Caller : Known(call[c])

FieldOps == {"link", "activate", "start", "upload", "complete", "field"}

Informed(r) ==
  r.stage = "read" =>
    /\ r.row = Row(r.task)
    /\ Timed(r.status, r.setBy) /\ Approves(r.status, r.setBy)
    /\ r.op \in FieldOps => r.task # 0
    /\ r.op \in {"activate", "start"} => r.row.status \notin Closed
    /\ r.op = "assign" => r.task = 0 \/ r.row.status \notin Closed
    /\ r.op = "start" => r.officer = r.row.officer
    /\ r.op \in {"upload", "complete"} => r.row.status = "IN_PROGRESS"
    /\ r.op = "field" => r.row.status = "AWAITING_ADMIN_APPROVAL"

ClientsOK == \A c \in Client : Informed(call[c])

IInv == DeskOK /\ FieldOK /\ CallsOK /\ ClientsOK

(* What ClosedStaysClosed says of a step. *)
ClosedKept == \A t \in TaskIds : tasks[t].status \in Closed => tasks'[t].status \in Closed

LEMMA InvGives ==
  IInv => InspectionInv /\ CurrentApproved /\ DecidedByStarter
BY DEF IInv, DeskOK, FieldOK, CallsOK, Timed, Approves, Known, Decided, Underway,
       InspectionInv, InspectionTypeOK, CorrectionIsTimed, CurrentApproved,
       DecidedByStarter, TaskIds

-----------------------------------------------------------------------------
(* Tasks. *)

LEMMA RowType ==
  ASSUME FieldOK, NEW t \in 0..Len(tasks)
  PROVE  Row(t) \in Task /\ (t # 0 => t \in TaskIds /\ Row(t) = tasks[t])
<1>1. NoTask \in Task
  BY DEF NoTask, Task, TaskStatus, Closed
<1> QED
  BY <1>1 DEF Row, FieldOK, TaskIds

LEMMA NewTaskType ==
  ASSUME NEW w \in Officer \cup {NoOfficer}, NEW n \in Nat
  PROVE  NewTask(w, n) \in Task /\ Decided(NewTask(w, n))
BY DEF NewTask, NoTask, Task, TaskStatus, Decided, Underway

LEMMA TaskWritten ==
  ASSUME FieldOK, NEW t \in TaskIds, NEW r \in Task, Decided(r),
         tasks[t].status \in Closed => r.status \in Closed,
         tasks' = [tasks EXCEPT ![t] = r],
         links' \in Seq(Link), \A l \in DOMAIN links' : links'[l].task \in TaskIds,
         current' \in 0..Len(tasks)
  PROVE  FieldOK' /\ ClosedKept /\ Len(tasks') = Len(tasks)
<1>1. tasks' \in Seq(Task) /\ Len(tasks') = Len(tasks)
  BY DEF FieldOK, TaskIds
<1>2. ASSUME NEW u \in TaskIds
      PROVE  Decided(tasks'[u]) /\ (tasks[u].status \in Closed => tasks'[u].status \in Closed)
  BY DEF FieldOK, TaskIds
<1> QED
  BY <1>1, <1>2 DEF FieldOK, TaskIds, ClosedKept

LEMMA TaskAdded ==
  ASSUME FieldOK, NEW r \in Task, Decided(r), tasks' = Append(tasks, r),
         UNCHANGED links, current' \in 0..Len(tasks')
  PROVE  FieldOK' /\ ClosedKept /\ Len(tasks') = Len(tasks) + 1
<1>1. tasks' \in Seq(Task) /\ Len(tasks') = Len(tasks) + 1
  BY DEF FieldOK
<1>2. tasks'[Len(tasks) + 1] = r /\ \A u \in TaskIds : tasks'[u] = tasks[u]
  BY DEF FieldOK, TaskIds
<1>3. \A u \in TaskIds' : Decided(tasks'[u])
  BY <1>1, <1>2 DEF FieldOK, TaskIds
<1>4. \A l \in DOMAIN links' : links'[l].task \in TaskIds'
  BY <1>1 DEF FieldOK, TaskIds
<1> QED
  BY <1>1, <1>2, <1>3, <1>4 DEF FieldOK, ClosedKept

LEMMA FieldStays ==
  ASSUME FieldOK, UNCHANGED <<tasks, links>>, current' \in 0..Len(tasks)
  PROVE  FieldOK' /\ ClosedKept
BY DEF FieldOK, ClosedKept, TaskIds

LEMMA LinksClosed ==
  ASSUME FieldOK, NEW t,
         links' = [l \in DOMAIN links |->
                     IF links[l].task = t THEN [links[l] EXCEPT !.active = FALSE]
                     ELSE links[l]]
  PROVE  /\ links' \in Seq(Link) /\ Len(links') = Len(links)
         /\ \A l \in DOMAIN links' : links'[l].task \in TaskIds
<1>1. links \in [1..Len(links) -> Link] /\ Len(links) \in Nat
  BY DEF FieldOK
<1>2. \A l \in 1..Len(links) : links'[l] \in Link /\ links'[l].task = links[l].task
  BY <1>1 DEF Link
<1>3. links' \in [1..Len(links) -> Link]
  BY <1>1, <1>2
<1> QED
  BY <1>1, <1>2, <1>3, SeqDef DEF FieldOK

-----------------------------------------------------------------------------
(* Requests. *)

LEMMA Busy ==
  ASSUME IInv, NEW c \in Caller, call[c] # Idle
  PROVE  /\ call[c] \in Calls
         /\ call[c].task \in 0..Len(tasks)
         /\ call[c].status \in Status
         /\ call[c].setBy \in Setter
         /\ call[c].rejections \in Nat
         /\ call[c].row \in Task
         /\ call[c].officer \in Officer \cup {NoOfficer}
         /\ call[c].approve \in BOOLEAN
BY DEF IInv, CallsOK, Known, Calls

(* What a client that has read knows of its task. *)
LEMMA HasRead ==
  ASSUME IInv, NEW c \in Client, NEW op \in OpNames, At(c, "read", op)
  PROVE  /\ call[c] # Idle /\ c \in Caller
         /\ call[c].op = op /\ call[c].stage = "read"
         /\ Informed(call[c])
         /\ call[c].row = Row(call[c].task)
BY DEF IInv, ClientsOK, Informed, At, Idle, Caller

(* A write of the only client leaves no client that has read. *)
LEMMA WriterForgets ==
  ASSUME IInv, OneClient, NEW c \in Client, NEW r \in {Idle} \cup Calls,
         call' = [call EXCEPT ![c] = r], r.stage # "read", Known(r)',
         Len(tasks) <= Len(tasks'), Len(links) <= Len(links'), FieldOK'
  PROVE  CallsOK' /\ ClientsOK'
<1>1. c \in Caller /\ call'[c] = r
  BY DEF IInv, CallsOK, Caller
<1>2. call' \in [Caller -> {Idle} \cup Calls]
  BY <1>1 DEF IInv, CallsOK
<1>3. ASSUME NEW d \in Caller PROVE Known(call[d])'
  <2>1. CASE d = c
    BY <1>1, <2>1 DEF Known
  <2>2. CASE d # c
    <3>1. call'[d] = call[d] /\ Known(call[d])
      BY <2>2 DEF IInv, CallsOK
    <3>2. Len(tasks) \in Nat /\ Len(tasks') \in Nat /\ Len(links) \in Nat /\ Len(links') \in Nat
      BY DEF IInv, FieldOK
    <3> QED
      BY <3>1, <3>2 DEF Known
  <2> QED
    BY <2>1, <2>2
<1>4. ClientsOK'
  BY <1>1 DEF OneClient, ClientsOK, Informed
<1> QED
  BY <1>2, <1>3, <1>4 DEF CallsOK

LEMMA WriterEnds ==
  ASSUME IInv, OneClient, NEW c \in Client, Done(c),
         Len(tasks) <= Len(tasks'), Len(links) <= Len(links'), FieldOK'
  PROVE  CallsOK' /\ ClientsOK'
<1>1. Idle.stage # "read" /\ Known(Idle)'
  BY DEF Idle, Known
<1> QED
  BY <1>1, WriterForgets DEF Done

(* A step that leaves the task, the document and the deadline alone leaves *)
(* everybody informed. *)
LEMMA InformedStays ==
  ASSUME NEW r, Informed(r), UNCHANGED <<tasks, correction, document>>
  PROVE  Informed(r)'
BY DEF Informed, Timed, Approves, Row

LEMMA ReadKeeps ==
  ASSUME IInv, NEW c \in Caller, NEW r \in {Idle} \cup Calls,
         call' = [call EXCEPT ![c] = r], Known(r), c \in Client => Informed(r),
         UNCHANGED <<tasks, links, correction, document>>
  PROVE  CallsOK' /\ ClientsOK'
<1>1. call' \in [Caller -> {Idle} \cup Calls]
  BY DEF IInv, CallsOK
<1>2. ASSUME NEW d \in Caller PROVE Known(call[d])'
  BY DEF IInv, CallsOK, Known
<1>3. ASSUME NEW d \in Client PROVE Informed(call[d])'
  <2>1. d \in Caller
    BY DEF Caller
  <2>2. call'[d] = IF d = c THEN r ELSE call[d]
    BY <2>1 DEF IInv, CallsOK
  <2>3. Informed(call'[d])
    BY <2>2 DEF IInv, ClientsOK
  <2>4. PICK q : q = call'[d]
    OBVIOUS
  <2>5. Informed(q)'
    BY <2>3, <2>4, InformedStays
  <2> QED
    BY <2>4, <2>5 DEF Informed
<1> QED
  BY <1>1, <1>2, <1>3 DEF CallsOK, ClientsOK

LEMMA DeskStays ==
  ASSUME DeskOK, UNCHANGED <<status, rejections, correction, setBy, document>>
  PROVE  DeskOK'
BY DEF DeskOK, Setter, Timed, Approves

(* Begin reads the task, the status and the rejections. *)
Fresh(op, t, l, w, ok) ==
  [stage |-> "read", op |-> op, status |-> status, setBy |-> setBy,
   rejections |-> rejections, task |-> t, row |-> Row(t), link |-> l, officer |-> w, approve |-> ok]

LEMMA BeginKeeps ==
  ASSUME IInv, NEW c \in Caller, NEW op \in OpNames, NEW t \in 0..Len(tasks),
         NEW l \in 0..Len(links), NEW w \in Officer \cup {NoOfficer},
         NEW ok \in BOOLEAN, Begin(c, op, t, l, w, ok),
         UNCHANGED <<deskVars, fieldVars>>,
         op \in FieldOps => t # 0,
         op \in {"activate", "start"} => Row(t).status \notin Closed,
         op = "assign" => t = 0 \/ Row(t).status \notin Closed,
         op = "start" => w = Row(t).officer,
         op \in {"upload", "complete"} => Row(t).status = "IN_PROGRESS",
         op = "field" => Row(t).status = "AWAITING_ADMIN_APPROVAL"
  PROVE  IInv' /\ ClosedKept
<1>1. PICK r : r = Fresh(op, t, l, w, ok)
  OBVIOUS
<1>2. t \in Nat /\ l \in Nat
  BY DEF IInv, FieldOK
<1>3. Row(t) \in Task
  BY RowType DEF IInv
<1>4. r \in Calls
  BY <1>1, <1>2, <1>3 DEF Fresh, Calls, IInv, DeskOK
<1>5. Known(r) /\ Informed(r)
  BY <1>1 DEF Fresh, Known, Informed, IInv, DeskOK
<1>6. call' = [call EXCEPT ![c] = r]
  BY <1>1 DEF Begin, Fresh
<1>7. CallsOK' /\ ClientsOK'
  BY <1>4, <1>5, <1>6, ReadKeeps DEF deskVars, fieldVars
<1>8. DeskOK'
  BY DeskStays DEF IInv, deskVars
<1>9. FieldOK' /\ ClosedKept
  BY FieldStays DEF IInv, deskVars, fieldVars, FieldOK
<1> QED
  BY <1>7, <1>8, <1>9 DEF IInv

-----------------------------------------------------------------------------
LEMMA Reads ==
  ASSUME IInv, NEW c \in Caller,
         \/ \E w \in Officer \cup {NoOfficer} : SubmitRead(c, w) \/ AssignRead(c, w)
         \/ CorrectRead(c) \/ \E ok \in BOOLEAN : DeskRead(c, ok)
         \/ \E t \in TaskIds : LinkRead(c, t) \/ StartRead(c, t) \/ UploadRead(c, t)
         \/ \E t \in TaskIds, ok \in BOOLEAN : CompleteRead(c, t, ok) \/ FieldRead(c, t, ok)
         \/ \E l \in DOMAIN links, w \in Officer : ActivateRead(c, l, w)
         \/ MismatchList(c) \/ ExpireList(c)
  PROVE  IInv' /\ ClosedKept
<1> USE DEF OpNames, FieldOps
<1>1. /\ Len(tasks) \in Nat /\ Len(links) \in Nat
      /\ TaskIds = 1..Len(tasks)
      /\ current \in 0..Len(tasks)
      /\ 0 \in 0..Len(tasks) /\ 0 \in 0..Len(links) /\ Len(tasks) \in 0..Len(tasks)
      /\ TaskIds \subseteq 0..Len(tasks)
  BY DEF IInv, FieldOK, TaskIds
<1>2. ASSUME NEW t \in TaskIds
      PROVE  t # 0 /\ Row(t) = tasks[t] /\ tasks[t].officer \in Officer \cup {NoOfficer}
  <2>1. t # 0 /\ tasks[t] \in Task
    BY <1>1 DEF IInv, FieldOK
  <2> QED
    BY <2>1 DEF Row, Task
<1>3. ASSUME NEW w \in Officer \cup {NoOfficer}, SubmitRead(c, w)
      PROVE  IInv' /\ ClosedKept
  BY <1>1, <1>3, BeginKeeps DEF SubmitRead
<1>4. ASSUME NEW w \in Officer \cup {NoOfficer}, AssignRead(c, w)
      PROVE  IInv' /\ ClosedKept
  <2>1. PICK t \in OpenTask : Begin(c, "assign", t, 0, w, TRUE)
    BY <1>4 DEF AssignRead
  <2>2. t = 0 \/ (t \in TaskIds /\ tasks[t].status \notin Closed)
    BY DEF OpenTask, Open
  <2>3. t \in 0..Len(tasks) /\ (t = 0 \/ Row(t).status \notin Closed)
    BY <1>1, <1>2, <2>2
  <2> QED
    BY <1>1, <1>4, <2>1, <2>3, BeginKeeps DEF AssignRead
<1>5. CASE CorrectRead(c)
  BY <1>1, <1>5, BeginKeeps DEF CorrectRead
<1>6. ASSUME NEW ok \in BOOLEAN, DeskRead(c, ok) PROVE IInv' /\ ClosedKept
  BY <1>1, <1>6, BeginKeeps DEF DeskRead
<1>7. ASSUME NEW t \in TaskIds, LinkRead(c, t) PROVE IInv' /\ ClosedKept
  BY <1>1, <1>2, <1>7, BeginKeeps DEF LinkRead
<1>8. ASSUME NEW t \in TaskIds, StartRead(c, t) PROVE IInv' /\ ClosedKept
  BY <1>1, <1>2, <1>8, BeginKeeps DEF StartRead, Closed
<1>9. ASSUME NEW t \in TaskIds, UploadRead(c, t) PROVE IInv' /\ ClosedKept
  BY <1>1, <1>2, <1>9, BeginKeeps DEF UploadRead
<1>10. ASSUME NEW t \in TaskIds, NEW ok \in BOOLEAN, CompleteRead(c, t, ok)
       PROVE  IInv' /\ ClosedKept
  BY <1>1, <1>2, <1>10, BeginKeeps DEF CompleteRead
<1>11. ASSUME NEW t \in TaskIds, NEW ok \in BOOLEAN, FieldRead(c, t, ok)
       PROVE  IInv' /\ ClosedKept
  <2>1. tasks[t].status = "AWAITING_ADMIN_APPROVAL"
        /\ Begin(c, "field", t, 0, NoOfficer, ok)
        /\ UNCHANGED <<deskVars, fieldVars>>
    BY <1>11 DEF FieldRead
  <2>2. t \in 0..Len(tasks) /\ t # 0 /\ Row(t).status = "AWAITING_ADMIN_APPROVAL"
    BY <1>1, <1>2, <2>1
  <2>3. 0 \in 0..Len(links) /\ NoOfficer \in Officer \cup {NoOfficer}
    BY <1>1
  <2> QED
    BY <2>1, <2>2, <2>3, BeginKeeps
<1>12. ASSUME NEW l \in DOMAIN links, NEW w \in Officer, ActivateRead(c, l, w)
       PROVE  IInv' /\ ClosedKept
  <2>1. links[l].task \in TaskIds /\ l \in 0..Len(links)
    BY DEF IInv, FieldOK
  <2>2. tasks[links[l].task].status \notin Closed
    BY <1>12 DEF ActivateRead, Usable
  <2> QED
    BY <1>1, <1>2, <1>12, <2>1, <2>2, BeginKeeps DEF ActivateRead
<1>13. CASE MismatchList(c) \/ ExpireList(c)
  BY <1>1, <1>13, BeginKeeps DEF MismatchList, ExpireList
<1> QED
  BY <1>3, <1>4, <1>5, <1>6, <1>7, <1>8, <1>9, <1>10, <1>11, <1>12, <1>13

-----------------------------------------------------------------------------
(* The store. *)

LEMMA StoreWrites ==
  ASSUME IInv, OneClient, NEW c \in Client,
         SubmitTask(c) \/ SubmitWrite(c) \/ CorrectWrite(c) \/ CorrectPoint(c)
  PROVE  IInv' /\ ClosedKept
<1> USE DEF OpNames
<1>1. c \in Caller /\ Len(tasks) \in Nat /\ Len(links) \in Nat
  BY DEF Caller, IInv, FieldOK
(* Whoever adds a task goes on with its number. *)
<1>2. ASSUME NEW op \in OpNames, At(c, "read", op), NEW w \in Officer \cup {NoOfficer},
             NEW n \in Nat, tasks' = Append(tasks, NewTask(w, n)),
             UNCHANGED <<links, current>>, DeskOK',
             call' = [call EXCEPT ![c].stage = "written", ![c].task = Len(tasks')]
      PROVE  IInv' /\ ClosedKept
  <2>1. FieldOK' /\ ClosedKept /\ Len(tasks') = Len(tasks) + 1
    <3>1. NewTask(w, n) \in Task /\ Decided(NewTask(w, n))
      BY NewTaskType
    <3>2. Len(tasks') = Len(tasks) + 1
      BY <1>2 DEF IInv, FieldOK
    <3>3. current' \in 0..Len(tasks')
      BY <1>1, <1>2, <3>2 DEF IInv, FieldOK
    <3> QED
      BY <1>2, <3>1, <3>3, TaskAdded DEF IInv
  <2>2. call[c] \in Calls /\ call[c].link \in 0..Len(links)
    BY <1>1, <1>2, HasRead DEF IInv, CallsOK, Known
  <2>3. PICK k : k = Len(tasks')
    OBVIOUS
  <2>4. k \in Nat
    BY <1>1, <2>1, <2>3
  <2>5. PICK r : r = [call[c] EXCEPT !.stage = "written", !.task = k]
    OBVIOUS
  <2>6. r \in Calls /\ r.stage = "written" /\ r.task = k /\ r.link = call[c].link
    BY <2>2, <2>4, <2>5 DEF Calls
  <2>7. call' = [call EXCEPT ![c] = r]
    BY <1>2, <2>3, <2>5
  <2>8. Known(r)'
    BY <1>1, <1>2, <2>1, <2>2, <2>3, <2>4, <2>6 DEF Known
  <2>9. Len(tasks) <= Len(tasks') /\ Len(links) <= Len(links')
    BY <1>1, <1>2, <2>1
  <2>10. CallsOK' /\ ClientsOK'
    BY <2>1, <2>6, <2>7, <2>8, <2>9, WriterForgets
  <2> QED
    BY <1>2, <2>1, <2>10 DEF IInv
<1>3. CASE SubmitTask(c)
  <2>1. call[c].officer \in Officer \cup {NoOfficer}
    BY <1>1, <1>3, HasRead, Busy DEF SubmitTask
  <2>2. DeskOK'
    BY <1>3, DeskStays DEF SubmitTask, deskVars, IInv
  <2> QED
    BY <1>2, <1>3, <2>1, <2>2 DEF SubmitTask, deskVars
<1>4. CASE SubmitWrite(c)
  <2>1. call[c].task \in 0..Len(tasks)
    BY <1>1, <1>4, Busy DEF SubmitWrite, At, Idle
  <2>2. FieldOK' /\ ClosedKept
    BY <1>4, <2>1, FieldStays DEF SubmitWrite, fieldVars, IInv
  <2>3. DeskOK'
    BY <1>4 DEF SubmitWrite, IInv, DeskOK, Setter, Timed, Approves, Status
  <2>4. CallsOK' /\ ClientsOK'
    BY <1>1, <1>4, <2>2, WriterEnds DEF SubmitWrite, fieldVars
  <2> QED
    BY <2>2, <2>3, <2>4 DEF IInv
<1>5. CASE CorrectWrite(c)
  <2>1. PICK n : n = IF call[c].task = 0 THEN 2 ELSE call[c].row.cycle + 1
    OBVIOUS
  <2>2. n \in Nat
    <3>1. call[c].row \in Task
      BY <1>1, <1>5, HasRead, Busy DEF CorrectWrite
    <3> QED
      BY <2>1, <3>1 DEF Task
  <2>3. DeskOK'
    BY <1>5 DEF CorrectWrite, IInv, DeskOK, Setter, Timed, Approves, Status
  <2> QED
    BY <1>2, <1>5, <2>1, <2>2, <2>3 DEF CorrectWrite
<1>6. CASE CorrectPoint(c)
  <2>1. call[c].task \in 0..Len(tasks)
    BY <1>1, <1>6, Busy DEF CorrectPoint, At, Idle
  <2>2. FieldOK' /\ ClosedKept
    BY <1>6, <2>1, FieldStays DEF CorrectPoint, fieldVars, IInv
  <2>3. DeskOK'
    BY <1>6, DeskStays DEF CorrectPoint, IInv
  <2>4. CallsOK' /\ ClientsOK'
    BY <1>1, <1>6, <2>2, WriterEnds DEF CorrectPoint, fieldVars
  <2> QED
    BY <2>2, <2>3, <2>4 DEF IInv
<1> QED
  BY <1>3, <1>4, <1>5, <1>6

(* A request that has read one task ends by writing that task.             *)
LEMMA OneTaskWritten ==
  ASSUME IInv, OneClient, NEW c \in Client, NEW op \in OpNames, At(c, "read", op),
         NEW r \in Task, Decided(r), call[c].task # 0,
         call[c].row.status \in Closed => r.status \in Closed,
         tasks' = [tasks EXCEPT ![call[c].task] = r],
         links' \in Seq(Link), Len(links) <= Len(links'),
         \A l \in DOMAIN links' : links'[l].task \in TaskIds,
         current' \in 0..Len(tasks), DeskOK', Done(c)
  PROVE  IInv' /\ ClosedKept
<1>1. c \in Caller /\ Len(tasks) \in Nat
  BY DEF Caller, IInv, FieldOK
<1>2. PICK t : t = call[c].task
  OBVIOUS
<1>3. t \in TaskIds /\ call[c].row = tasks[t]
  <2>1. t \in 0..Len(tasks) /\ t # 0
    BY <1>1, <1>2, HasRead, Busy
  <2>2. Row(t) = tasks[t]
    BY <2>1 DEF Row
  <2> QED
    BY <1>1, <1>2, <2>1, <2>2, HasRead DEF TaskIds
<1>4. FieldOK' /\ ClosedKept /\ Len(tasks') = Len(tasks)
  BY <1>2, <1>3, TaskWritten DEF IInv
<1>5. CallsOK' /\ ClientsOK'
  BY <1>1, <1>4, WriterEnds
<1> QED
  BY <1>4, <1>5 DEF IInv

-----------------------------------------------------------------------------
(* Administrators. *)

LEMMA DeskWrites ==
  ASSUME IInv, OneClient, NEW c \in Client, DeskWrite(c)
  PROVE  IInv' /\ ClosedKept
<1> USE DEF OpNames
<1>1. c \in Caller /\ call[c].rejections \in Nat /\ call[c].row \in Task
  BY HasRead, Busy DEF DeskWrite, Caller
<1>2. DeskOK'
  BY <1>1 DEF DeskWrite, Struck, IInv, DeskOK, Setter, Timed, Approves, Status, Correction, Unset
<1>3. CASE call[c].task = 0
  <2>1. FieldOK' /\ ClosedKept
    BY <1>3, FieldStays DEF DeskWrite, IInv, FieldOK
  <2>2. CallsOK' /\ ClientsOK'
    <3>1. Len(tasks) <= Len(tasks') /\ Len(links) <= Len(links')
      BY <1>3 DEF DeskWrite, IInv, FieldOK
    <3> QED
      BY <2>1, <3>1, WriterEnds DEF DeskWrite
  <2> QED
    BY <1>2, <2>1, <2>2 DEF IInv
<1>4. CASE call[c].task # 0
  <2>1. PICK st \in {"ADMIN_APPROVED", "ADMIN_REJECTED"} :
          tasks' = [tasks EXCEPT ![call[c].task].status = st]
    BY <1>4 DEF DeskWrite
  <2>2. call[c].row = tasks[call[c].task]
    BY <1>4, HasRead DEF DeskWrite, Row
  <2>3. PICK r : r = [tasks[call[c].task] EXCEPT !.status = st]
    OBVIOUS
  <2>4. r \in Task /\ Decided(r) /\ r.status \in Closed
    BY <1>1, <2>2, <2>3 DEF Task, TaskStatus, Closed, Decided, Underway
  <2>5. tasks' = [tasks EXCEPT ![call[c].task] = r]
    BY <2>1, <2>3
  <2>6. /\ links' \in Seq(Link) /\ Len(links) <= Len(links')
        /\ \A l \in DOMAIN links' : links'[l].task \in TaskIds
        /\ current' \in 0..Len(tasks)
    BY DEF DeskWrite, IInv, FieldOK
  <2> QED
    BY <1>2, <1>4, <2>4, <2>5, <2>6, OneTaskWritten DEF DeskWrite
<1> QED
  BY <1>3, <1>4

LEMMA AssignWrites ==
  ASSUME IInv, OneClient, NEW c \in Client, AssignWrite(c)
  PROVE  IInv' /\ ClosedKept
<1> USE DEF OpNames
<1>1. /\ c \in Caller /\ call[c].row \in Task /\ call[c].task \in 0..Len(tasks)
      /\ call[c].officer \in Officer \cup {NoOfficer} /\ Len(tasks) \in Nat
  BY HasRead, Busy DEF AssignWrite, Caller, IInv, FieldOK
<1>2. DeskOK'
  BY DeskStays DEF AssignWrite, IInv
<1>3. CASE call[c].task = 0
  <2>1. tasks' = Append(tasks, NewTask(call[c].officer, 1)) /\ current' = Len(tasks')
    BY <1>3 DEF AssignWrite
  <2>2. Len(tasks') = Len(tasks) + 1
    BY <2>1 DEF IInv, FieldOK
  <2>3. FieldOK' /\ ClosedKept
    BY <1>1, <2>1, <2>2, NewTaskType, TaskAdded DEF AssignWrite, IInv
  <2>4. CallsOK' /\ ClientsOK'
    <3>1. Len(tasks) <= Len(tasks') /\ Len(links) <= Len(links')
      BY <1>1, <2>2 DEF AssignWrite, IInv, FieldOK
    <3> QED
      BY <2>3, <3>1, WriterEnds DEF AssignWrite
  <2> QED
    BY <1>2, <2>3, <2>4 DEF IInv
<1>4. CASE call[c].task # 0
  <2>1. PICK t : t = call[c].task
    OBVIOUS
  <2>2. call[c].row = tasks[t] /\ tasks[t].status \notin Closed /\ Decided(tasks[t])
    <3>1. call[c].row = tasks[t] /\ call[c].row.status \notin Closed
      BY <1>4, <2>1, HasRead DEF AssignWrite, Row, Informed
    <3>2. t \in TaskIds
      BY <1>1, <1>4, <2>1 DEF TaskIds
    <3> QED
      BY <3>1, <3>2 DEF IInv, FieldOK
  <2>3. PICK r : r = Reassigned(c, tasks[t])
    OBVIOUS
  <2>4. r \in Task /\ Decided(r)
    BY <1>1, <2>2, <2>3 DEF Reassigned, Task, TaskStatus, Decided, Underway
  <2>5. tasks' = [tasks EXCEPT ![t] = r] /\ current' = t
    BY <1>4, <2>1, <2>3 DEF AssignWrite
  <2>6. /\ links' \in Seq(Link) /\ Len(links) <= Len(links')
        /\ \A l \in DOMAIN links' : links'[l].task \in TaskIds
    BY DEF AssignWrite, IInv, FieldOK
  <2> QED
    BY <1>1, <1>2, <1>4, <2>1, <2>2, <2>4, <2>5, <2>6, OneTaskWritten DEF AssignWrite
<1> QED
  BY <1>3, <1>4

LEMMA LinkWrites ==
  ASSUME IInv, OneClient, NEW c \in Client, LinkWrite(c)
  PROVE  IInv' /\ ClosedKept
<1> USE DEF OpNames
<1>1. PICK t : t = call[c].task
  OBVIOUS
<1>2. c \in Caller /\ t \in TaskIds /\ call[c].row = tasks[t] /\ tasks[t] \in Task
  <2>1. c \in Caller /\ t \in 0..Len(tasks) /\ t # 0
    BY <1>1, HasRead, Busy DEF LinkWrite, Caller, Informed, FieldOps
  <2>2. t \in TaskIds
    BY <2>1 DEF TaskIds, IInv, FieldOK
  <2> QED
    BY <1>1, <2>1, <2>2, HasRead DEF LinkWrite, Row, IInv, FieldOK, TaskIds
<1>3. DeskOK'
  BY DeskStays DEF LinkWrite, deskVars, IInv
<1>4. PICK L : L = [l \in DOMAIN links |->
                      IF links[l].task = t THEN [links[l] EXCEPT !.active = FALSE]
                      ELSE links[l]]
  OBVIOUS
<1>5. L \in Seq(Link) /\ Len(L) = Len(links) /\ \A l \in DOMAIN L : L[l].task \in TaskIds
  <2>1. links \in [1..Len(links) -> Link] /\ Len(links) \in Nat
    BY DEF IInv, FieldOK
  <2>2. \A l \in 1..Len(links) : L[l] \in Link /\ L[l].task = links[l].task
    BY <1>4, <2>1 DEF Link
  <2>3. L \in [1..Len(links) -> Link]
    BY <1>4, <2>1, <2>2
  <2> QED
    BY <2>1, <2>2, <2>3, SeqDef DEF IInv, FieldOK
<1>6. PICK n : n = [task |-> t, active |-> TRUE, expired |-> FALSE]
  OBVIOUS
<1>7. n \in Link /\ n.task = t
  BY <1>2, <1>6 DEF Link, TaskIds
<1>8. links' = Append(L, n)
  BY <1>1, <1>4, <1>6 DEF LinkWrite
<1>9. /\ links' \in Seq(Link) /\ Len(links) <= Len(links')
      /\ \A l \in DOMAIN links' : links'[l].task \in TaskIds
  BY <1>2, <1>5, <1>7, <1>8
<1>10. current' \in 0..Len(tasks)
  BY DEF LinkWrite, deskVars, IInv, FieldOK
<1>11. PICK r : r = IF tasks[t].status \in {"ASSIGNED", "PENDING_ASSIGNMENT"}
                    THEN [tasks[t] EXCEPT !.status = "LINK_SENT"] ELSE tasks[t]
  OBVIOUS
<1>12. r \in Task /\ Decided(r) /\ (tasks[t].status \in Closed => r.status \in Closed)
  BY <1>2, <1>11 DEF Task, TaskStatus, Decided, Underway, Closed, IInv, FieldOK
<1>13. tasks' = [tasks EXCEPT ![t] = r]
  <2>1. tasks \in [1..Len(tasks) -> Task]
    BY DEF IInv, FieldOK
  <2> QED
    BY <1>1, <1>2, <1>11, <2>1 DEF LinkWrite
<1>14. t # 0
  BY <1>2 DEF TaskIds
<1> QED
  BY <1>1, <1>2, <1>3, <1>9, <1>10, <1>12, <1>13, <1>14, OneTaskWritten DEF LinkWrite

-----------------------------------------------------------------------------
(* Officers, and the review of what they decide. *)

LEMMA TaskOf ==
  ASSUME IInv, NEW c \in Client, NEW op \in FieldOps, At(c, "read", op)
  PROVE  /\ c \in Caller /\ op \in OpNames
         /\ call[c].task \in TaskIds /\ call[c].task # 0
         /\ call[c].row = tasks[call[c].task] /\ call[c].row \in Task
         /\ Decided(call[c].row)
<1>1. op \in OpNames
  BY DEF FieldOps, OpNames
<1>2. c \in Caller /\ call[c].task \in 0..Len(tasks) /\ call[c].task # 0
  BY <1>1, HasRead, Busy DEF Informed
<1>3. Len(tasks) \in Nat
  BY DEF IInv, FieldOK
<1>4. call[c].task \in TaskIds
  BY <1>2, <1>3 DEF TaskIds
<1>5. call[c].row = tasks[call[c].task]
  BY <1>1, <1>2, HasRead DEF Row
<1> QED
  BY <1>1, <1>2, <1>4, <1>5 DEF IInv, FieldOK, TaskIds

LEMMA TaskWriteEnds ==
  ASSUME IInv, OneClient, NEW c \in Client, NEW op \in FieldOps, At(c, "read", op),
         NEW r \in Task, Decided(r), call[c].row.status \in Closed => r.status \in Closed,
         tasks' = [tasks EXCEPT ![call[c].task] = r],
         UNCHANGED <<links, current>>, DeskOK', Done(c)
  PROVE  IInv' /\ ClosedKept
<1>1. op \in OpNames /\ call[c].task # 0
  BY TaskOf
<1>2. /\ links' \in Seq(Link) /\ Len(links) <= Len(links')
      /\ \A l \in DOMAIN links' : links'[l].task \in TaskIds
      /\ current' \in 0..Len(tasks)
  BY DEF IInv, FieldOK
<1> QED
  BY <1>1, <1>2, OneTaskWritten

LEMMA OfficerWrites ==
  ASSUME IInv, OneClient, NEW c \in Client,
         ActivateWrite(c) \/ StartWrite(c) \/ UploadWrite(c)
  PROVE  IInv' /\ ClosedKept
<1> USE DEF FieldOps
<1>1. PICK t : t = call[c].task
  OBVIOUS
<1>2. PICK w : w = call[c].officer
  OBVIOUS
<1>3. DeskOK'
  BY DeskStays DEF ActivateWrite, StartWrite, UploadWrite, deskVars, IInv
<1>4. CASE ActivateWrite(c)
  <2>1. /\ t \in TaskIds /\ call[c].row = tasks[t] /\ tasks[t] \in Task /\ Decided(tasks[t])
        /\ c \in Caller /\ "activate" \in OpNames
    BY <1>1, <1>4, TaskOf DEF ActivateWrite
  <2>2. w \in Officer \cup {NoOfficer} /\ call[c].row.status \notin Closed
    BY <1>2, <1>4, <2>1, HasRead, Busy DEF ActivateWrite, Informed
  <2>3. PICK r : r = IF tasks[t].officer # NoOfficer THEN tasks[t]
                     ELSE [tasks[t] EXCEPT !.officer = w, !.status = "ASSIGNED"]
    OBVIOUS
  <2>4. r \in Task /\ Decided(r)
    BY <2>1, <2>2, <2>3 DEF Task, TaskStatus, Decided, Underway
  <2>5. tasks' = [tasks EXCEPT ![t] = r]
    <3>1. tasks \in [1..Len(tasks) -> Task]
      BY DEF IInv, FieldOK
    <3> QED
      BY <1>1, <1>2, <1>4, <2>1, <2>3, <3>1 DEF ActivateWrite, TaskIds
  <2> QED
    BY <1>1, <1>3, <1>4, <2>2, <2>4, <2>5, TaskWriteEnds DEF ActivateWrite, deskVars
<1>5. CASE StartWrite(c)
  <2>1. /\ t \in TaskIds /\ call[c].row = tasks[t] /\ tasks[t] \in Task
        /\ c \in Caller /\ "start" \in OpNames
    BY <1>1, <1>5, TaskOf DEF StartWrite
  <2>2. /\ w \in Officer \cup {NoOfficer} /\ call[c].row.status \notin Closed
        /\ w = tasks[t].officer
    BY <1>2, <1>5, <2>1, HasRead, Busy DEF StartWrite, Informed
  <2>3. PICK r : r = [tasks[t] EXCEPT !.status = "IN_PROGRESS", !.starter = w]
    OBVIOUS
  <2>4. r \in Task /\ Decided(r)
    BY <2>1, <2>2, <2>3 DEF Task, TaskStatus, Decided
  <2>5. tasks' = [tasks EXCEPT ![t] = r]
    <3>1. tasks \in [1..Len(tasks) -> Task]
      BY DEF IInv, FieldOK
    <3> QED
      BY <1>1, <1>2, <1>5, <2>1, <2>3, <3>1 DEF StartWrite, TaskIds
  <2> QED
    BY <1>1, <1>3, <1>5, <2>2, <2>4, <2>5, TaskWriteEnds DEF StartWrite, deskVars
<1>6. CASE UploadWrite(c)
  <2>1. /\ t \in TaskIds /\ call[c].row = tasks[t] /\ tasks[t] \in Task /\ Decided(tasks[t])
        /\ c \in Caller /\ "upload" \in OpNames
    BY <1>1, <1>6, TaskOf DEF UploadWrite
  <2>2. PICK r : r = [tasks[t] EXCEPT !.photos = TRUE]
    OBVIOUS
  <2>3. r \in Task /\ Decided(r) /\ r.status = tasks[t].status
    BY <2>1, <2>2 DEF Task, Decided
  <2>4. tasks' = [tasks EXCEPT ![t] = r]
    BY <1>1, <1>6, <2>2 DEF UploadWrite
  <2> QED
    BY <1>1, <1>3, <1>6, <2>1, <2>3, <2>4, TaskWriteEnds DEF UploadWrite, deskVars
<1> QED
  BY <1>4, <1>5, <1>6

(* The decision ends the reading; the links are closed afterwards. *)
LEMMA Completes ==
  ASSUME IInv, OneClient, NEW c \in Client, CompleteWrite(c)
  PROVE  IInv' /\ ClosedKept
<1> USE DEF FieldOps
<1>1. PICK t : t = call[c].task
  OBVIOUS
<1>2. /\ t \in TaskIds /\ call[c].row = tasks[t] /\ tasks[t] \in Task /\ Decided(tasks[t])
      /\ c \in Caller /\ "complete" \in OpNames
  BY <1>1, TaskOf DEF CompleteWrite
<1>3. tasks[t].status = "IN_PROGRESS"
  BY <1>2, HasRead DEF CompleteWrite, Informed
<1>4. PICK st \in {"AWAITING_ADMIN_APPROVAL", "AWAITING_CORRECTION"} :
        tasks' = [tasks EXCEPT ![t] = [tasks[t] EXCEPT !.status = st]]
  BY <1>1 DEF CompleteWrite
<1>5. PICK r : r = [tasks[t] EXCEPT !.status = st]
  OBVIOUS
<1>6. r \in Task /\ Decided(r)
  BY <1>2, <1>3, <1>5 DEF Task, TaskStatus, Decided, Underway
<1>7. tasks[t].status \notin Closed
  BY <1>3 DEF Closed
<1>8. FieldOK' /\ ClosedKept /\ Len(tasks') = Len(tasks)
  <2>1. /\ links' \in Seq(Link) /\ \A l \in DOMAIN links' : links'[l].task \in TaskIds
        /\ current' \in 0..Len(tasks) /\ FieldOK
    BY DEF CompleteWrite, IInv, FieldOK
  <2> QED
    BY <1>2, <1>4, <1>5, <1>6, <1>7, <2>1, TaskWritten
<1>9. DeskOK'
  BY DEF CompleteWrite, CorrectionStart, Correction, Unset, IInv, DeskOK, Setter, Timed,
         Approves, Status
<1>10. call[c] \in Calls /\ Known(call[c])
  BY <1>2, HasRead DEF CompleteWrite, IInv, CallsOK
<1>11. PICK q : q = [call[c] EXCEPT !.stage = "written"]
  OBVIOUS
<1>12. q \in Calls /\ q.stage = "written" /\ q.task = call[c].task /\ q.link = call[c].link
  BY <1>10, <1>11 DEF Calls
<1>13. call' = [call EXCEPT ![c] = q]
  BY <1>11 DEF CompleteWrite, Advance
<1>14. Known(q)'
  <2>1. call[c] # Idle
    BY <1>2, HasRead DEF CompleteWrite
  <2> QED
    BY <1>8, <1>10, <1>12, <2>1 DEF Known, CompleteWrite
<1>15. Len(tasks) <= Len(tasks') /\ Len(links) <= Len(links')
  BY <1>8 DEF CompleteWrite, IInv, FieldOK
<1>16. CallsOK' /\ ClientsOK'
  BY <1>8, <1>12, <1>13, <1>14, <1>15, WriterForgets
<1> QED
  BY <1>8, <1>9, <1>16 DEF IInv

LEMMA ClosesLinks ==
  ASSUME IInv, OneClient, NEW c \in Client, CompleteLinks(c)
  PROVE  IInv' /\ ClosedKept
<1>1. /\ links' \in Seq(Link) /\ Len(links') = Len(links)
      /\ \A l \in DOMAIN links' : links'[l].task \in TaskIds
  BY LinksClosed DEF CompleteLinks, IInv
<1>2. FieldOK' /\ ClosedKept
  BY <1>1 DEF CompleteLinks, deskVars, IInv, FieldOK, ClosedKept, TaskIds
<1>3. DeskOK'
  BY DeskStays DEF CompleteLinks, deskVars, IInv
<1>4. Len(tasks) <= Len(tasks') /\ Len(links) <= Len(links')
  BY <1>1 DEF CompleteLinks, IInv, FieldOK
<1> QED
  BY <1>2, <1>3, <1>4, WriterEnds DEF CompleteLinks, IInv

(* An approval writes the status that was read, which tells of a document  *)
(* and a deadline that are still the ones there were.                      *)
LEMMA FieldWrites ==
  ASSUME IInv, OneClient, NEW c \in Client, FieldWrite(c)
  PROVE  IInv' /\ ClosedKept
<1> USE DEF FieldOps
<1>1. PICK t : t = call[c].task
  OBVIOUS
<1>2. /\ t \in TaskIds /\ call[c].row = tasks[t] /\ tasks[t] \in Task
      /\ c \in Caller /\ "field" \in OpNames
  BY <1>1, TaskOf DEF FieldWrite
<1>3. PICK st \in {"ADMIN_APPROVED", "ADMIN_REJECTED"} :
        tasks' = [tasks EXCEPT ![t].status = st]
  BY <1>1 DEF FieldWrite
<1>4. PICK r : r = [tasks[t] EXCEPT !.status = st]
  OBVIOUS
<1>5. r \in Task /\ Decided(r) /\ r.status \in Closed
  BY <1>2, <1>4 DEF Task, TaskStatus, Closed, Decided, Underway
<1>6. tasks' = [tasks EXCEPT ![t] = r]
  BY <1>3, <1>4
<1>7. /\ Timed(call[c].status, call[c].setBy) /\ Approves(call[c].status, call[c].setBy)
      /\ call[c].setBy \in Setter /\ call[c].status \in Status /\ call[c].rejections \in Nat
  BY <1>2, HasRead, Busy DEF FieldWrite, Informed
<1>8. DeskOK'
  <2>1. CASE call[c].approve
    <3>1. /\ status' = FieldApproves(call[c].status)
          /\ correction' = IF status' # "READY_FOR_SHIPPING" THEN correction ELSE Unset
          /\ rejections' = call[c].rejections /\ document' = document
          /\ setBy' = call[c].setBy
      BY <2>1 DEF FieldWrite
    <3>2. /\ status' \in Status
          /\ status' # "READY_FOR_SHIPPING" => status' = call[c].status
          /\ status' = "READY_FOR_SHIPPING" =>
               call[c].status \in {"VERIFICATION_SUCCESS", "READY_FOR_SHIPPING"}
      BY <1>7, <3>1 DEF FieldApproves, Status
    <3>3. Timed(status, setBy)'
      BY <1>7, <3>1, <3>2 DEF Timed
    <3>4. Approves(status, setBy)'
      BY <1>7, <3>1, <3>2 DEF Approves
    <3> QED
      BY <1>7, <3>1, <3>2, <3>3, <3>4 DEF IInv, DeskOK
  <2>2. CASE ~call[c].approve
    BY <1>7, <2>2 DEF FieldWrite, Struck, IInv, DeskOK, Setter, Timed, Approves, Status,
                      Correction, Unset
  <2> QED
    BY <2>1, <2>2
<1> QED
  BY <1>1, <1>5, <1>6, <1>8, TaskWriteEnds DEF FieldWrite

-----------------------------------------------------------------------------
(* The jobs, the rest of the system, the clock, and requests that die. *)

LEMMA WaysIn ==
  ASSUME NEW s \in Status
  PROVE  /\ CanTransition(s, "READY_FOR_SHIPPING") => s = "VERIFICATION_SUCCESS"
         /\ CanTransition(s, "CORRECTION_PERIOD") => s = "NON_MATCHING"
BY DEF Status, CanTransition, TransitionRules

LEMMA EndKeeps ==
  ASSUME IInv, NEW c \in Caller, Done(c), UNCHANGED <<tasks, links, correction, document>>
  PROVE  CallsOK' /\ ClientsOK'
<1>1. PICK r : r = Idle
  OBVIOUS
<1>2. r \in {Idle} \cup Calls /\ Known(r) /\ Informed(r)
  BY <1>1 DEF Idle, Known, Informed
<1> QED
  BY <1>1, <1>2, ReadKeeps DEF Done

LEMMA JobMoves ==
  ASSUME IInv, NEW j \in Job, JobWrite(j)
  PROVE  IInv' /\ ClosedKept
<1>1. PICK to \in {"CORRECTION_PERIOD", "CANCELLED"} :
        /\ status' = IF CanTransition(status, to) THEN to ELSE status
        /\ Done(j)
        /\ UNCHANGED <<rejections, correction, current, setBy, document, fieldVars>>
  BY DEF JobWrite, JobMove
<1>2. DeskOK'
  <2>1. status \in Status /\ (CanTransition(status, "CORRECTION_PERIOD") => status = "NON_MATCHING")
    BY WaysIn DEF IInv, DeskOK
  <2>2. status' \in Status
    BY <1>1, <2>1 DEF Status
  <2>3. status' = status \/ status' = "CANCELLED"
        \/ (status' = "CORRECTION_PERIOD" /\ status = "NON_MATCHING")
    BY <1>1, <2>1
  <2>4. UNCHANGED <<rejections, correction, setBy, document>> /\ DeskOK
    BY <1>1 DEF IInv
  <2> QED
    BY <2>2, <2>3, <2>4 DEF DeskOK, Timed, Approves
<1>3. FieldOK' /\ ClosedKept
  BY <1>1, FieldStays DEF fieldVars, IInv, FieldOK
<1>4. CallsOK' /\ ClientsOK'
  BY <1>1, EndKeeps DEF fieldVars, Caller
<1> QED
  BY <1>2, <1>3, <1>4 DEF IInv

LEMMA OthersMove ==
  ASSUME IInv, NEW to \in Targets, Transition(to)
  PROVE  IInv' /\ ClosedKept
<1>1. DeskOK'
  <2>1. to \in Status
    BY InspectionAssumption
  <2>2. to = "READY_FOR_SHIPPING" => status = "VERIFICATION_SUCCESS"
    BY WaysIn DEF Transition, IInv, DeskOK
  <2>3. to \in Decisions => setBy' = "endpoint"
    BY DEF Transition
  <2> QED
    BY <2>1, <2>2, <2>3 DEF Transition, Decisions, IInv, DeskOK, Setter, Timed, Approves
<1>2. FieldOK' /\ ClosedKept
  BY FieldStays DEF Transition, fieldVars, IInv, FieldOK
<1>3. CallsOK' /\ ClientsOK'
  BY DEF Transition, fieldVars, IInv, CallsOK, ClientsOK, Known, Informed, Row, Timed,
         Approves
<1> QED
  BY <1>1, <1>2, <1>3 DEF IInv

LEMMA Ticks ==
  ASSUME IInv, Tick
  PROVE  IInv' /\ ClosedKept
<1>1. DeskOK'
  BY DEF Tick, Sooner, IInv, DeskOK, Setter, Timed, Approves, Unset, Correction
<1>2. links' \in Seq(Link) /\ \A l \in DOMAIN links' : links'[l].task \in TaskIds
  <2>1. links \in [1..Len(links) -> Link] /\ Len(links) \in Nat
    BY DEF IInv, FieldOK
  <2>2. \A l \in 1..Len(links) : links'[l] \in Link /\ links'[l].task = links[l].task
    BY <2>1 DEF Tick, Link
  <2>3. links' \in [1..Len(links) -> Link]
    BY <2>1, <2>2 DEF Tick
  <2> QED
    BY <2>1, <2>2, <2>3, SeqDef DEF IInv, FieldOK
<1>3. FieldOK' /\ ClosedKept
  BY <1>2 DEF Tick, IInv, FieldOK, ClosedKept, TaskIds
<1>4. CallsOK' /\ ClientsOK'
  BY DEF Tick, Free, IInv, CallsOK, ClientsOK, Known, Informed, Idle, Caller
<1> QED
  BY <1>1, <1>3, <1>4 DEF IInv

LEMMA Crashes ==
  ASSUME IInv, NEW c \in Caller, Crash(c)
  PROVE  IInv' /\ ClosedKept
<1>1. DeskOK'
  BY DeskStays DEF Crash, deskVars, IInv
<1>2. FieldOK' /\ ClosedKept
  BY FieldStays DEF Crash, deskVars, fieldVars, IInv, FieldOK
<1>3. CallsOK' /\ ClientsOK'
  BY EndKeeps DEF Crash, deskVars, fieldVars
<1> QED
  BY <1>1, <1>2, <1>3 DEF IInv

-----------------------------------------------------------------------------
LEMMA InitHolds == InspectionInit => IInv
<1> SUFFICES ASSUME InspectionInit PROVE IInv
  OBVIOUS
<1>1. DeskOK
  BY DEF InspectionInit, DeskOK, Setter, Timed, Approves, Status
<1>2. FieldOK
  BY DEF InspectionInit, FieldOK, TaskIds
<1>3. CallsOK /\ ClientsOK
  BY DEF InspectionInit, CallsOK, ClientsOK, Known, Informed, Idle, Caller
<1> QED
  BY <1>1, <1>2, <1>3 DEF IInv

LEMMA StepKeeps ==
  ASSUME IInv, OneClient, [InspectionNext]_inspectionVars
  PROVE  IInv' /\ ClosedKept
<1>1. ASSUME NEW c \in Client, StoreStep(c) \/ AdminStep(c) \/ OfficerStep(c)
      PROVE  IInv' /\ ClosedKept
  <2>1. c \in Caller
    BY DEF Caller
  <2>2. CASE StoreStep(c)
    BY <2>1, <2>2, Reads, StoreWrites DEF StoreStep
  <2>3. CASE AdminStep(c)
    BY <2>1, <2>3, Reads, DeskWrites, FieldWrites, AssignWrites, LinkWrites DEF AdminStep
  <2>4. CASE OfficerStep(c)
    BY <2>1, <2>4, Reads, OfficerWrites, Completes, ClosesLinks DEF OfficerStep
  <2> QED
    BY <1>1, <2>2, <2>3, <2>4
<1>2. ASSUME NEW j \in Job, MismatchList(j) \/ ExpireList(j) \/ JobWrite(j)
      PROVE  IInv' /\ ClosedKept
  BY <1>2, Reads, JobMoves DEF Caller
<1>3. CASE UNCHANGED inspectionVars
  BY <1>3 DEF inspectionVars, deskVars, fieldVars, IInv, DeskOK, FieldOK, CallsOK,
              ClientsOK, Known, Informed, Row, Timed, Approves, TaskIds, ClosedKept
<1> QED
  BY <1>1, <1>2, <1>3, Ticks, OthersMove, Crashes DEF InspectionNext

(* When the requests come one at a time, every request that has read is    *)
(* informed.  From there on                                                *)
THEOREM AlwaysInformed ==
  ASSUME OneClient
  PROVE  InspectionSpec => []IInv
<1>1. InspectionInit => IInv
  BY InitHolds
<1>2. IInv /\ [InspectionNext]_inspectionVars => IInv'
  BY StepKeeps
<1> QED
  BY <1>1, <1>2, PTL DEF InspectionSpec

(* an order is verified or ready for the carrier only with its newest      *)
(* document approved, for adminReviewFieldVerification approves no more    *)
(* than the status it read had of it, unless the status was set by hand,   *)
THEOREM CurrentAlwaysApproved ==
  ASSUME OneClient
  PROVE  InspectionSpec => []CurrentApproved
BY AlwaysInformed, InvGives, PTL

(* rows keep their types and a correction period that was not set by hand  *)
(* has a deadline for the job that ends it (CorrectionIsTimed),            *)
THEOREM CorrectionAlwaysTimed ==
  ASSUME OneClient
  PROVE  InspectionSpec => []InspectionInv
BY AlwaysInformed, InvGives, PTL

(* the officer of a task under way or decided is the one who started it,   *)
(* through links, assignments and reassignments,                           *)
THEOREM StarterAlwaysDecides ==
  ASSUME OneClient
  PROVE  InspectionSpec => []DecidedByStarter
BY AlwaysInformed, InvGives, PTL

(* and no step opens a task again that an administrator closed. *)
THEOREM ClosedAlwaysStays ==
  ASSUME OneClient
  PROVE  InspectionSpec => ClosedStaysClosed
<1>1. IInv /\ [InspectionNext]_inspectionVars => [ClosedKept]_inspectionVars
  BY StepKeeps
<1> QED
  BY <1>1, AlwaysInformed, PTL DEF InspectionSpec, ClosedStaysClosed, ClosedKept
=============================================================================
