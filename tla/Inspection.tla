----------------------------- MODULE Inspection -----------------------------
(***************************************************************************)
(* The verification of one prepared order (VerificationTasksService and    *)
(* the verification requests of OrdersService).  The store hands the part  *)
(* in with a document.  An administrator at a desk reviews the document;   *)
(* at the same time an officer in the field works on a task: he is         *)
(* assigned or lets himself in with a link, starts, uploads photos and     *)
(* decides, and an administrator reviews his decision.  Either way a       *)
(* mismatch gives the store 48 hours for a correction, which is a new      *)
(* document and a new task.                                                *)
(*                                                                         *)
(* A request reads, checks, and writes by id; call[c] holds what it read.  *)
(* Time is counted in units of two days, and no request runs that long: a  *)
(* link made before (durationHours = 24) has expired after one.            *)
(***************************************************************************)
EXTENDS Integers, Sequences, FiniteSets, OrderFsm

CONSTANTS
  Officer,
  NoOfficer,   \* officerId = null
  Client,      \* requests in flight at once
  Job,         \* runs of the scheduled jobs in flight at once
  MaxTasks,    \* bound on the tasks: corrections and assignments make new ones
  MaxLinks,    \* bound on the links: an administrator makes new ones
  Targets      \* the statuses the rest of the system moves the order to

ASSUME InspectionAssumption ==
  /\ NoOfficer \notin Officer
  /\ MaxTasks \in Nat
  /\ MaxLinks \in Nat
  /\ Targets \subseteq Status

Caller == Client \cup Job
Unset == -1
Correction == 1   \* time a store has for a correction

Setter == {"inspection", "endpoint"}
Closed == {"ADMIN_APPROVED", "ADMIN_REJECTED", "CANCELLED"}
TaskStatus == {"PENDING_ASSIGNMENT", "ASSIGNED", "LINK_SENT", "IN_PROGRESS",
               "AWAITING_ADMIN_APPROVAL", "AWAITING_CORRECTION"} \cup Closed

VARIABLES
  status,       \* Order.status
  rejections,   \* Order.rejectionCount
  correction,   \* time left until Order.correctionDeadlineAt, or Unset
  current,      \* Order.verificationTaskId, 0 if null
  setBy,        \* "endpoint" once it had a status from there, until it is decided on
  document,     \* adminStatus of the newest VerificationDocument, or "none"
  tasks,        \* the rows of VerificationTask, in the order of their creation
  links,        \* the rows of VerificationLink
  call

(* starter is the officer of the newest VERIFICATION_STARTED of the task's *)
(* activity log; photos: there are rows of VerificationTaskPhoto for it.   *)
Task == [status : TaskStatus, officer : Officer \cup {NoOfficer},
         cycle : Nat, photos : BOOLEAN, starter : Officer \cup {NoOfficer}]
Link == [task : Nat, active : BOOLEAN, expired : BOOLEAN]

fieldVars == <<tasks, links>>
deskVars == <<status, rejections, correction, current, setBy, document>>
inspectionVars == <<deskVars, fieldVars, call>>

-----------------------------------------------------------------------------
OpNames == {"submit", "correct", "desk", "assign", "link", "activate", "start",
            "upload", "complete", "field", "mismatchJob", "expireJob"}

(* What a request has read: the order's status and rejections, the number  *)
(* of the task it is about (0: none) and that task, and its own arguments. *)
Idle == [stage |-> "idle"]
Calls == [stage : {"read", "written"}, op : OpNames, status : Status,
          setBy : Setter, rejections : Nat, task : Nat, row : Task, link : Nat,
          officer : Officer \cup {NoOfficer}, approve : BOOLEAN]

NoTask == [status |-> "CANCELLED", officer |-> NoOfficer, cycle |-> 0,
           photos |-> FALSE, starter |-> NoOfficer]
Row(t) == IF t = 0 THEN NoTask ELSE tasks[t]

Free(c) == call[c] = Idle
At(c, stage, op) == call[c].stage = stage /\ call[c].op = op
Begin(c, op, t, l, w, ok) ==
  call' = [call EXCEPT ![c] =
    [stage |-> "read", op |-> op, status |-> status, setBy |-> setBy,
     rejections |-> rejections, task |-> t, row |-> Row(t), link |-> l,
     officer |-> w, approve |-> ok]]
Advance(c) == call' = [call EXCEPT ![c].stage = "written"]
Done(c) == call' = [call EXCEPT ![c] = Idle]

TaskIds == 1..Len(tasks)
NewTask(w, n) == [NoTask EXCEPT !.status = IF w = NoOfficer THEN "PENDING_ASSIGNMENT"
                                           ELSE "ASSIGNED",
                                !.officer = w, !.cycle = n]
InspectionTypeOK ==
  /\ status \in Status
  /\ rejections \in Nat
  /\ correction \in {Unset} \cup 0..Correction
  /\ current \in 0..Len(tasks)
  /\ setBy \in Setter
  /\ document \in {"none", "PENDING", "APPROVED", "REJECTED"}
  /\ tasks \in Seq(Task)
  /\ links \in Seq(Link)
  /\ \A l \in DOMAIN links : links[l].task \in TaskIds
  /\ call \in [Caller -> {Idle} \cup Calls]
  /\ \A c \in Caller : call[c] # Idle => call[c].task \in 0..Len(tasks)
                                        /\ call[c].link \in 0..Len(links)

InspectionInit ==
  /\ status = "PREPARED"
  /\ rejections = 0
  /\ correction = Unset
  /\ current = 0
  /\ setBy = "inspection"
  /\ document = "none"
  /\ tasks = <<>>
  /\ links = <<>>
  /\ call = [c \in Caller |-> Idle]

-----------------------------------------------------------------------------
(* The clock, the rest of the system, and requests that die.               *)

Sooner(n) == IF n > 0 THEN n - 1 ELSE n

Tick ==
  /\ \A c \in Caller : Free(c)
  /\ correction' = Sooner(correction)
  /\ links' = [l \in DOMAIN links |-> [links[l] EXCEPT !.expired = TRUE]]
  /\ UNCHANGED <<status, rejections, current, setBy, document, tasks, call>>

(* transitionStatus.  Its endpoint is open to every user who is logged in: *)
(* it gives an order the statuses of the inspection without a document,    *)
(* and without the deadline of a correction.                               *)
Decisions == {"VERIFICATION_SUCCESS", "NON_MATCHING", "CORRECTION_PERIOD"}

Transition(to) ==
  /\ CanTransition(status, to)
  /\ status' = to
  /\ setBy' = IF to \in Decisions THEN "endpoint" ELSE setBy
  /\ UNCHANGED <<rejections, correction, current, document, fieldVars, call>>

(* A request that dies before its first write has done nothing.            *)
Crash(c) ==
  /\ call[c] # Idle /\ call[c].stage = "written"
  /\ Done(c)
  /\ UNCHANGED <<deskVars, fieldVars>>

-----------------------------------------------------------------------------
(* The store.                                                              *)

SubmitRead(c, w) ==
  /\ Free(c)
  /\ status = "PREPARED"
  /\ Len(tasks) < MaxTasks
  /\ Begin(c, "submit", 0, 0, w, TRUE)
  /\ UNCHANGED <<deskVars, fieldVars>>

(* The task is inserted before the transaction that tells the order of it. *)
SubmitTask(c) ==
  /\ At(c, "read", "submit")
  /\ Len(tasks) < MaxTasks
  /\ tasks' = Append(tasks, NewTask(call[c].officer, 1))
  /\ call' = [call EXCEPT ![c].stage = "written", ![c].task = Len(tasks')]
  /\ UNCHANGED <<deskVars, links>>

SubmitWrite(c) ==
  /\ At(c, "written", "submit")
  /\ status' = "VERIFICATION"
  /\ document' = "PENDING"
  /\ setBy' = "inspection"
  /\ current' = call[c].task
  /\ Done(c)
  /\ UNCHANGED <<rejections, correction, fieldVars>>

MayCorrect == {"CORRECTION_PERIOD", "NON_MATCHING"}

CorrectRead(c) ==
  /\ Free(c)
  /\ status \in MayCorrect
  /\ Len(tasks) < MaxTasks
  /\ Begin(c, "correct", Len(tasks), 0, NoOfficer, TRUE)
  /\ UNCHANGED <<deskVars, fieldVars>>

(* The document, the task of the next cycle and the status are one         *)
(* transaction; the pointer to the task is an update of its own.           *)
CorrectWrite(c) ==
  /\ At(c, "read", "correct")
  /\ Len(tasks) < MaxTasks
  /\ tasks' = Append(tasks, NewTask(NoOfficer,
                IF call[c].task = 0 THEN 2 ELSE call[c].row.cycle + 1))
  /\ status' = "CORRECTION_SUBMITTED"
  /\ setBy' = "inspection"
  /\ document' = "PENDING"
  /\ call' = [call EXCEPT ![c].stage = "written", ![c].task = Len(tasks')]
  /\ UNCHANGED <<rejections, correction, current, links>>

CorrectPoint(c) ==
  /\ At(c, "written", "correct")
  /\ current' = call[c].task
  /\ Done(c)
  /\ UNCHANGED <<status, rejections, correction, setBy, document, fieldVars>>

-----------------------------------------------------------------------------
(* The desk: the document, the order and the order's task are one          *)
(* transaction, whatever the officer is doing.                             *)

DeskRead(c, ok) ==
  /\ Free(c)
  /\ status \in {"VERIFICATION", "CORRECTION_SUBMITTED"}
  /\ document # "none"
  /\ Begin(c, "desk", current, 0, NoOfficer, ok)
  /\ UNCHANGED <<deskVars, fieldVars>>

Struck(c) == call[c].rejections + 1

DeskWrite(c) ==
  LET ok == call[c].approve
      t == call[c].task IN
  /\ At(c, "read", "desk")
  /\ document' = IF ok THEN "APPROVED" ELSE "REJECTED"
  /\ status' = IF ok THEN "VERIFICATION_SUCCESS"
               ELSE IF Struck(c) >= 2 THEN "CANCELLED" ELSE "NON_MATCHING"
  /\ setBy' = "inspection"
  /\ correction' = IF ok \/ Struck(c) >= 2 THEN Unset ELSE Correction
  /\ rejections' = IF ok THEN call[c].rejections ELSE Struck(c)
  /\ tasks' = IF t = 0 THEN tasks
              ELSE [tasks EXCEPT ![t].status = IF ok THEN "ADMIN_APPROVED"
                                               ELSE "ADMIN_REJECTED"]
  /\ Done(c)
  /\ UNCHANGED <<current, links>>

-----------------------------------------------------------------------------
(* Administrators: assignment and links.                                   *)

Open == {t \in TaskIds : tasks[t].status \notin Closed}

(* The open task of the highest cycle, or 0. *)
OpenTask ==
  IF Open = {} THEN {0}
  ELSE {t \in Open : \A u \in Open : tasks[u].cycle <= tasks[t].cycle}

AssignRead(c, w) ==
  /\ Free(c)
  /\ Open = {} => Len(tasks) < MaxTasks
  /\ \E t \in OpenTask : Begin(c, "assign", t, 0, w, TRUE)
  /\ UNCHANGED <<deskVars, fieldVars>>

(* Bug: another officer takes over a task in progress. *)
TakenOver(c, row) ==
  IF call[c].officer = NoOfficer THEN row ELSE [row EXCEPT !.officer = call[c].officer]

Reassigned(c, row) ==
  IF call[c].officer = NoOfficer THEN [row EXCEPT !.officer = call[c].row.officer,
                                                  !.status = call[c].row.status]
  ELSE [row EXCEPT !.officer = call[c].officer, !.status = "ASSIGNED"]

(* The task is updated with what was read where the request names no       *)
(* officer; a new task is of cycle 1 again.                                *)
AssignWrite(c) ==
  LET t == call[c].task IN
  /\ At(c, "read", "assign")
  /\ t = 0 => Len(tasks) < MaxTasks
  /\ tasks' = IF t = 0 THEN Append(tasks, NewTask(call[c].officer, 1))
              ELSE [tasks EXCEPT ![t] = Reassigned(c, @)]
  /\ current' = IF t = 0 THEN Len(tasks') ELSE t
  /\ Done(c)
  /\ UNCHANGED <<status, rejections, correction, setBy, document, links>>

LinkRead(c, t) ==
  /\ Free(c)
  /\ Len(links) < MaxLinks
  /\ Begin(c, "link", t, 0, NoOfficer, TRUE)
  /\ UNCHANGED <<deskVars, fieldVars>>

LinkWrite(c) ==
  LET t == call[c].task IN
  /\ At(c, "read", "link")
  /\ Len(links) < MaxLinks
  /\ links' = Append([l \in DOMAIN links |->
                        IF links[l].task = t THEN [links[l] EXCEPT !.active = FALSE]
                        ELSE links[l]],
                     [task |-> t, active |-> TRUE, expired |-> FALSE])
  /\ tasks' = IF call[c].row.status \in {"ASSIGNED", "PENDING_ASSIGNMENT"}
              THEN [tasks EXCEPT ![t].status = "LINK_SENT"] ELSE tasks
  /\ Done(c)
  /\ UNCHANGED deskVars

-----------------------------------------------------------------------------
(* The officer.                                                            *)

(* Bug: a link opens a task that was closed. *)
UsableAlways(l) == links[l].active /\ ~links[l].expired
Usable(l) ==
  /\ links[l].active
  /\ ~links[l].expired
  /\ tasks[links[l].task].status \notin Closed

ActivateRead(c, l, w) ==
  LET t == links[l].task IN
  /\ Free(c)
  /\ Usable(l)
  /\ tasks[t].officer \in {w, NoOfficer}
  /\ Begin(c, "activate", t, l, w, TRUE)
  /\ UNCHANGED <<deskVars, fieldVars>>

ActivateWrite(c) ==
  /\ At(c, "read", "activate")
  /\ tasks' = IF call[c].row.officer # NoOfficer THEN tasks
              ELSE [tasks EXCEPT ![call[c].task].officer = call[c].officer,
                                 ![call[c].task].status = "ASSIGNED"]
  /\ Done(c)
  /\ UNCHANGED <<deskVars, links>>

StartRead(c, t) ==
  /\ Free(c)
  /\ tasks[t].officer # NoOfficer
  /\ tasks[t].status \in {"ASSIGNED", "LINK_SENT"}
  /\ Begin(c, "start", t, 0, tasks[t].officer, TRUE)
  /\ UNCHANGED <<deskVars, fieldVars>>

StartWrite(c) ==
  /\ At(c, "read", "start")
  /\ tasks' = [tasks EXCEPT ![call[c].task].status = "IN_PROGRESS",
                            ![call[c].task].starter = call[c].officer]
  /\ Done(c)
  /\ UNCHANGED <<deskVars, links>>

(* Photos go to the storage one by one, then into the table.               *)
UploadRead(c, t) ==
  /\ Free(c)
  /\ tasks[t].officer # NoOfficer
  /\ tasks[t].status = "IN_PROGRESS"
  /\ ~tasks[t].photos
  /\ Begin(c, "upload", t, 0, tasks[t].officer, TRUE)
  /\ UNCHANGED <<deskVars, fieldVars>>

UploadWrite(c) ==
  /\ At(c, "read", "upload")
  /\ tasks' = [tasks EXCEPT ![call[c].task].photos = TRUE]
  /\ Done(c)
  /\ UNCHANGED <<deskVars, links>>

CompleteRead(c, t, ok) ==
  /\ Free(c)
  /\ tasks[t].officer # NoOfficer
  /\ tasks[t].status = "IN_PROGRESS"
  /\ tasks[t].photos
  /\ Begin(c, "complete", t, 0, tasks[t].officer, ok)
  /\ UNCHANGED <<deskVars, fieldVars>>

(* Bug: the deadline of the correction is not set. *)
CorrectionUntimed == correction
CorrectionStart == Correction

(* A mismatch moves the order, whatever its status.  The links are closed  *)
(* after the transaction.                                                  *)
CompleteWrite(c) ==
  LET ok == call[c].approve IN
  /\ At(c, "read", "complete")
  /\ tasks' = [tasks EXCEPT ![call[c].task] = [@ EXCEPT
       !.status = IF ok THEN "AWAITING_ADMIN_APPROVAL" ELSE "AWAITING_CORRECTION"]]
  /\ status' = IF ok THEN status ELSE "CORRECTION_PERIOD"
  /\ setBy' = IF ok THEN setBy ELSE "inspection"
  /\ correction' = IF ok THEN correction ELSE CorrectionStart
  /\ Advance(c)
  /\ UNCHANGED <<rejections, current, document, links>>

CompleteLinks(c) ==
  /\ At(c, "written", "complete")
  /\ links' = [l \in DOMAIN links |->
                 IF links[l].task = call[c].task THEN [links[l] EXCEPT !.active = FALSE]
                 ELSE links[l]]
  /\ Done(c)
  /\ UNCHANGED <<deskVars, tasks>>

-----------------------------------------------------------------------------
(* The review of an officer's decision.  The order gets the status and the *)
(* rejections that were read, or those computed from them.                 *)

FieldRead(c, t, ok) ==
  /\ Free(c)
  /\ tasks[t].status = "AWAITING_ADMIN_APPROVAL"
  /\ Begin(c, "field", t, 0, NoOfficer, ok)
  /\ UNCHANGED <<deskVars, fieldVars>>

(* Bug: the review of the officer's decision stands in for the desk's. *)
FieldApprovesAll(read) == "READY_FOR_SHIPPING"
FieldApproves(read) ==
  IF read = "VERIFICATION_SUCCESS" THEN "READY_FOR_SHIPPING" ELSE read

FieldWrite(c) ==
  LET ok == call[c].approve
      to == IF ok THEN FieldApproves(call[c].status)
            ELSE IF Struck(c) >= 2 THEN "CANCELLED" ELSE "CORRECTION_PERIOD" IN
  /\ At(c, "read", "field")
  /\ tasks' = [tasks EXCEPT ![call[c].task].status =
                 IF ok THEN "ADMIN_APPROVED" ELSE "ADMIN_REJECTED"]
  /\ status' = to
  /\ setBy' = IF ok THEN call[c].setBy ELSE "inspection"
  /\ rejections' = IF ok THEN call[c].rejections ELSE Struck(c)
  /\ correction' = IF to = "CORRECTION_PERIOD" /\ ~ok THEN Correction
                   ELSE IF ok /\ to # "READY_FOR_SHIPPING" THEN correction
                   ELSE Unset
  /\ Done(c)
  /\ UNCHANGED <<current, document, links>>

-----------------------------------------------------------------------------
(* The jobs list the order and then ask for a transition of what they find *)
(* by then: transitionStatus reads the status anew.                        *)

MismatchList(j) ==
  /\ Free(j)
  /\ status = "NON_MATCHING"
  /\ Begin(j, "mismatchJob", 0, 0, NoOfficer, TRUE)
  /\ UNCHANGED <<deskVars, fieldVars>>

ExpireList(j) ==
  /\ Free(j)
  /\ status = "CORRECTION_PERIOD"
  /\ correction = 0
  /\ Begin(j, "expireJob", 0, 0, NoOfficer, TRUE)
  /\ UNCHANGED <<deskVars, fieldVars>>

JobMove(j, op, to) ==
  /\ At(j, "read", op)
  /\ status' = IF CanTransition(status, to) THEN to ELSE status
  /\ Done(j)
  /\ UNCHANGED <<rejections, correction, current, setBy, document, fieldVars>>

JobWrite(j) ==
  \/ JobMove(j, "mismatchJob", "CORRECTION_PERIOD")
  \/ JobMove(j, "expireJob", "CANCELLED")

-----------------------------------------------------------------------------
StoreStep(c) ==
  \/ \E w \in Officer \cup {NoOfficer} : SubmitRead(c, w)
  \/ SubmitTask(c) \/ SubmitWrite(c)
  \/ CorrectRead(c) \/ CorrectWrite(c) \/ CorrectPoint(c)

AdminStep(c) ==
  \/ \E ok \in BOOLEAN : DeskRead(c, ok) \/ \E t \in TaskIds : FieldRead(c, t, ok)
  \/ \E w \in Officer \cup {NoOfficer} : AssignRead(c, w)
  \/ \E t \in TaskIds : LinkRead(c, t)
  \/ DeskWrite(c) \/ FieldWrite(c) \/ AssignWrite(c) \/ LinkWrite(c)

OfficerStep(c) ==
  \/ \E l \in DOMAIN links, w \in Officer : ActivateRead(c, l, w)
  \/ \E t \in TaskIds : \/ StartRead(c, t) \/ UploadRead(c, t)
                        \/ \E ok \in BOOLEAN : CompleteRead(c, t, ok)
  \/ ActivateWrite(c) \/ StartWrite(c) \/ UploadWrite(c)
  \/ CompleteWrite(c) \/ CompleteLinks(c)

InspectionNext ==
  \/ Tick
  \/ \E to \in Targets : Transition(to)
  \/ \E c \in Client : StoreStep(c) \/ AdminStep(c) \/ OfficerStep(c)
  \/ \E j \in Job : MismatchList(j) \/ ExpireList(j) \/ JobWrite(j)
  \/ \E c \in Caller : Crash(c)

InspectionSpec == InspectionInit /\ [][InspectionNext]_inspectionVars

-----------------------------------------------------------------------------
(* Properties.  They hold when the requests run one at a time, beside a    *)
(* job and any use of transitionStatus, and may die after any write.       *)

(* Whatever the officers and the field reviews do, an order is verified or *)
(* ready for the carrier only with its newest document approved, unless it *)
(* was declared verified at the endpoint of transitionStatus.              *)
CurrentApproved ==
  status \in {"VERIFICATION_SUCCESS", "READY_FOR_SHIPPING"} =>
    document = "APPROVED" \/ setBy = "endpoint"

(* All three ways of the inspection into the correction period (a field    *)
(* decision, a field review, a desk rejection and then the job) leave the  *)
(* deadline for which the job that ends it looks.  An order that was sent  *)
(* there at the endpoint of transitionStatus may have none.                *)
CorrectionIsTimed ==
  status = "CORRECTION_PERIOD" => correction # Unset \/ setBy = "endpoint"

(* Rows and requests in flight keep their types and name rows that exist,  *)
(* and the correction period has its deadline: see CorrectionIsTimed.      *)
InspectionInv == InspectionTypeOK /\ CorrectionIsTimed

(* The officer of a task that is under way or decided is the one who       *)
(* started it: nobody decides in the place of an officer who was replaced. *)
DecidedByStarter ==
  \A t \in TaskIds :
    tasks[t].status \in {"IN_PROGRESS", "AWAITING_ADMIN_APPROVAL", "AWAITING_CORRECTION"}
    => tasks[t].officer = tasks[t].starter

(* A task closed by an administrator, at the desk or in the field review,  *)
(* is never opened again by a link, an assignment or its officer.          *)
ClosedStaysClosed ==
  [][\A t \in TaskIds : tasks[t].status \in Closed => tasks'[t].status \in Closed]_inspectionVars
=============================================================================
