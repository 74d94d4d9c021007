--------------------------- MODULE Payouts_proofs ---------------------------
(***************************************************************************)
(* For any escrows, requests, accounts and handlers: Payouts is type       *)
(* correct; as long as no fine is written no update of a balance is lost   *)
(* (with fines, as long as handlers run one at a time); and as long as no  *)
(* verdict releases an escrow, whatever is recorded as released was        *)
(* transferred.                                                            *)
(*                                                                         *)
(* Type correctness rests on JobsAgree: what a handler works on is of the  *)
(* kind its operation needs, and the request it processes exists.          *)
(***************************************************************************)
EXTENDS Payouts, TLAPS

JobAgrees(r) ==
  r # Idle =>
    /\ r \in Jobs
    /\ r.op \in Releasing => r.item \in Escrow
    /\ r.op \in {"approve", "reject"} => /\ r.item \in Request
                                         /\ request[r.item] # NoRequest
    /\ r.op \in {"payout", "fine"} => r.item = NoItem

JobsAgree == \A h \in Handler : JobAgrees(job[h])

PayoutInv == PayoutTypeOK /\ JobsAgree

(* The part of the type invariant that a step of a handler's own record    *)
(* can disturb, with the agreement it must keep.                           *)
JobsOK == job \in [Handler -> {Idle} \cup Jobs] /\ JobsAgree

RequestsStay == \A r \in Request : request[r] # NoRequest => request'[r] # NoRequest

(* A step that writes one record, and loses no request, keeps JobsOK if    *)
(* the record it writes is right.                                          *)
LEMMA OneJobMoves ==
  ASSUME PayoutInv, NEW h \in Handler, NEW r,
         job' = [job EXCEPT ![h] = r], RequestsStay,
         r \in {Idle} \cup Jobs, JobAgrees(r)'
  PROVE  JobsOK'
<1>1. job' \in [Handler -> {Idle} \cup Jobs]
  BY DEF PayoutInv, PayoutTypeOK
<1>2. ASSUME NEW k \in Handler PROVE JobAgrees(job[k])'
  <2>1. CASE k = h
    <3>1. job'[k] = r
      BY <2>1 DEF PayoutInv, PayoutTypeOK
    <3> QED
      BY <3>1 DEF JobAgrees
  <2>2. CASE k # h
    <3>1. job'[k] = job[k] /\ JobAgrees(job[k])
      BY <2>2 DEF PayoutInv, PayoutTypeOK, JobsAgree
    <3> QED
      BY <3>1 DEF JobAgrees, RequestsStay
  <2> QED
    BY <2>1, <2>2
<1> QED
  BY <1>1, <1>2 DEF JobsOK, JobsAgree

LEMMA DoneKeepsJobs ==
  ASSUME PayoutInv, NEW h \in Handler, Done(h), RequestsStay
  PROVE  JobsOK'
<1>1. JobAgrees(Idle)'
  BY DEF JobAgrees
<1> QED
  BY <1>1, OneJobMoves DEF Done

LEMMA GotoKeepsJobs ==
  ASSUME PayoutInv, NEW h \in Handler, ~Free(h), NEW s \in {"read", "funds", "sent"},
         Goto(h, s), UNCHANGED request
  PROVE  JobsOK'
<1>1. PICK j \in Jobs : job[h] = j
  BY DEF PayoutInv, PayoutTypeOK, Free
<1>2. JobAgrees(j)
  BY <1>1 DEF PayoutInv, JobsAgree
<1> DEFINE r == [j EXCEPT !.stage = s]
<1>3. r \in Jobs /\ r.op = j.op /\ r.item = j.item
  BY DEF Jobs
<1>4. j # Idle
  BY <1>1 DEF Free
<1>5. JobAgrees(r)'
  BY <1>2, <1>3, <1>4 DEF JobAgrees
<1>6. RequestsStay
  BY DEF RequestsStay
<1>7. job' = [job EXCEPT ![h] = r]
  BY <1>1 DEF Goto
<1> HIDE DEF r
<1> QED
  BY <1>3, <1>5, <1>6, <1>7, OneJobMoves

LEMMA BeginKeepsJobs ==
  ASSUME PayoutInv, NEW h \in Handler, UNCHANGED request,
         NEW s \in {"due", "read", "funds", "sent"}, NEW op \in JobOps,
         NEW x \in Item \cup {NoItem}, NEW a \in Account, NEW n \in Nat,
         NEW seen \in Int,
         op \in Releasing => x \in Escrow,
         op \in {"approve", "reject"} => x \in Request /\ request[x] # NoRequest,
         op \in {"payout", "fine"} => x = NoItem,
         Begin(h, s, op, x, a, n, seen)
  PROVE  JobsOK'
<1> DEFINE r == [stage |-> s, op |-> op, item |-> x, account |-> a,
                 amount |-> n, seen |-> seen]
<1>1. r \in Jobs /\ r.op = op /\ r.item = x
  BY DEF Jobs
<1>2. JobAgrees(r)'
  BY <1>1 DEF JobAgrees
<1>3. RequestsStay
  BY DEF RequestsStay
<1>4. job' = [job EXCEPT ![h] = r]
  BY DEF Begin
<1> HIDE DEF r
<1> QED
  BY <1>1, <1>2, <1>3, <1>4, OneJobMoves

(* What a handler in flight works on. *)
LEMMA JobType ==
  ASSUME PayoutInv, NEW h \in Handler, ~Free(h)
  PROVE  /\ job[h] \in Jobs
         /\ JobAgrees(job[h])
         /\ job[h].account \in Account
         /\ job[h].amount \in Nat
         /\ job[h].seen \in Int
         /\ job[h].item \in Item \cup {NoItem}
BY DEF PayoutInv, PayoutTypeOK, JobsAgree, JobAgrees, Free, Jobs

LEMMA PayoutInitInv == PayoutInit => PayoutInv
BY PayoutsAssumption
   DEF PayoutInit, PayoutInv, PayoutTypeOK, JobsAgree, JobAgrees

-----------------------------------------------------------------------------
(* One lemma for each kind of step: it preserves PayoutInv.                *)

LEMMA IdleStepInv ==
  ASSUME PayoutInv, UNCHANGED payoutVars
  PROVE  PayoutInv'
BY DEF payoutVars, wallet, PayoutInv, PayoutTypeOK, JobsAgree, JobAgrees

LEMMA OutsideInv ==
  ASSUME PayoutInv,
         \/ \E e \in Escrow : Ripen(e)
         \/ \E r \in Request, a \in Account, n \in Amount : RequestWithdrawal(r, a, n)
         \/ \E a \in Account : SetFrozen(a)
  PROVE  PayoutInv'
<1>1. CASE \E e \in Escrow : Ripen(e)
  BY <1>1 DEF Ripen, wallet, PayoutInv, PayoutTypeOK, JobsAgree, JobAgrees
<1>2. ASSUME NEW r \in Request, NEW a \in Account, NEW n \in Amount,
             RequestWithdrawal(r, a, n)
      PROVE  PayoutInv'
  <2>1. n \in Nat
    BY PayoutsAssumption
  <2>2. PayoutTypeOK'
    BY <1>2, <2>1 DEF RequestWithdrawal, wallet, PayoutInv, PayoutTypeOK
  <2>3. \A q \in Request : request[q] # NoRequest => request'[q] # NoRequest
    BY <1>2 DEF RequestWithdrawal, PayoutInv, PayoutTypeOK
  <2>4. JobsAgree'
    BY <1>2, <2>3 DEF RequestWithdrawal, PayoutInv, JobsAgree, JobAgrees
  <2> QED
    BY <2>2, <2>4 DEF PayoutInv
<1>3. CASE \E a \in Account : SetFrozen(a)
  BY <1>3 DEF SetFrozen, wallet, PayoutInv, PayoutTypeOK, JobsAgree, JobAgrees
<1> QED
  BY <1>1, <1>2, <1>3

LEMMA CronInv ==
  ASSUME PayoutInv, CronStep
  PROVE  PayoutInv'
<1>1. CASE CronList
  BY <1>1 DEF CronList, Held, wallet, PayoutInv, PayoutTypeOK, JobsAgree,
              JobAgrees
<1>2. ASSUME NEW e \in Escrow, CronNext(e) PROVE PayoutInv'
  <2>1. JobsOK'
    <3>1. CASE e \in ripe
      <4>1. /\ OwnerOf[e] \in Account /\ Share[e] \in Nat /\ Cron \in Handler
            /\ e \in Item /\ e # NoItem /\ "auto" \in JobOps /\ "auto" \in Releasing
        BY PayoutsAssumption DEF Item, JobOps, Releasing
      <4>2. Begin(Cron, "due", "auto", e, OwnerOf[e], Share[e], 0) /\ UNCHANGED request
        BY <1>2, <3>1 DEF CronNext
      <4> QED
        BY <4>1, <4>2, BeginKeepsJobs
    <3>2. CASE e \notin ripe
      BY <1>2, <3>2 DEF CronNext, PayoutInv, PayoutTypeOK, JobsOK, JobsAgree, JobAgrees
    <3> QED
      BY <3>1, <3>2
  <2> QED
    BY <1>2, <2>1 DEF CronNext, wallet, PayoutInv, PayoutTypeOK, JobsOK
<1>3. CASE CronFind
  <2>1. Cron \in Handler /\ ~Free(Cron)
    BY <1>3, PayoutsAssumption DEF CronFind, At
  <2>2. RequestsStay
    BY <1>3 DEF CronFind, RequestsStay
  <2>3. JobsOK'
    BY <1>3, <2>1, <2>2, DoneKeepsJobs, GotoKeepsJobs DEF CronFind, Throw
  <2>4. (todo \subseteq Escrow)'
    BY <1>3 DEF CronFind, Throw, PayoutInv, PayoutTypeOK
  <2> QED
    BY <1>3, <2>3, <2>4 DEF CronFind, wallet, PayoutInv, PayoutTypeOK, JobsOK
<1> QED
  BY <1>1, <1>2, <1>3 DEF CronStep, CronLoop

LEMMA StartInv ==
  ASSUME PayoutInv, NEW h \in Handler, Start(h)
  PROVE  PayoutInv'
<1>1. ASSUME NEW e \in Escrow, ReleaseFind(h, e) \/ VerdictFind(h, e)
      PROVE  PayoutInv'
  <2>1. /\ OwnerOf[e] \in Account /\ Share[e] \in Nat
        /\ e \in Item /\ e # NoItem
        /\ {"release", "verdict"} \subseteq JobOps \cap Releasing
    BY PayoutsAssumption DEF Item, JobOps, Releasing
  <2>2. JobsOK'
    BY <1>1, <2>1, BeginKeepsJobs DEF ReleaseFind, VerdictFind
  <2> QED
    BY <1>1, <2>2 DEF ReleaseFind, VerdictFind, wallet, PayoutInv,
                      PayoutTypeOK, JobsOK
<1>2. ASSUME NEW r \in Request, NEW op \in {"approve", "reject"}, ProcessRead(h, op, r)
      PROVE  PayoutInv'
  <2>1. /\ request[r] # NoRequest
        /\ request[r].account \in Account /\ request[r].amount \in Nat
    BY <1>2 DEF ProcessRead, PayoutInv, PayoutTypeOK, NoRequest
  <2>2. /\ r \in Item \cup {NoItem} /\ r # NoItem
        /\ op \in JobOps /\ op \notin Releasing
    BY PayoutsAssumption DEF Item, JobOps, Releasing, Paying
  <2>3. \A a \in Account, n \in Nat :
          Begin(h, "read", op, r, a, n, 0) => JobsOK'
    BY <1>2, <2>1, <2>2, BeginKeepsJobs DEF ProcessRead
  <2>4. JobsOK'
    BY <1>2, <2>1, <2>3 DEF ProcessRead
  <2> QED
    BY <1>2, <2>4 DEF ProcessRead, wallet, PayoutInv, PayoutTypeOK, JobsOK
<1>3. ASSUME NEW a \in Account, NEW n \in Amount, PayoutRead(h, a, n)
      PROVE  PayoutInv'
  <2>1. n \in Nat /\ balance[a] \in Int
    BY PayoutsAssumption DEF PayoutInv, PayoutTypeOK
  <2>2. "payout" \in JobOps /\ "payout" \notin Releasing
    BY DEF JobOps, Paying, Releasing
  <2>3. \A b \in Int : Begin(h, "funds", "payout", NoItem, a, n, b) => JobsOK'
    BY <1>3, <2>1, <2>2, BeginKeepsJobs DEF PayoutRead
  <2>4. JobsOK'
    BY <1>3, <2>1, <2>3 DEF PayoutRead
  <2> QED
    BY <1>3, <2>4 DEF PayoutRead, wallet, PayoutInv, PayoutTypeOK, JobsOK
<1>4. ASSUME NEW a \in Account, FineRead(h, a)
      PROVE  PayoutInv'
  <2>1. Fine \in Nat /\ balance[a] \in Int
    BY PayoutsAssumption DEF PayoutInv, PayoutTypeOK
  <2>2. "fine" \in JobOps /\ "fine" \notin Releasing
    BY DEF JobOps, Releasing
  <2>3. \A b \in Int : Begin(h, "read", "fine", NoItem, a, Fine, b) => JobsOK'
    BY <1>4, <2>1, <2>2, BeginKeepsJobs DEF FineRead
  <2>4. JobsOK'
    BY <1>4, <2>1, <2>3 DEF FineRead
  <2> QED
    BY <1>4, <2>4 DEF FineRead, wallet, PayoutInv, PayoutTypeOK, JobsOK
<1> QED
  BY <1>1, <1>2, <1>3, <1>4 DEF Start

LEMMA TransferInv ==
  ASSUME PayoutInv, NEW h \in Handler, Transfer(h)
  PROVE  PayoutInv'
<1>1. ~Free(h)
  BY DEF Transfer, TransferNext, At
<1>2. JobsOK'
  BY <1>1, GotoKeepsJobs DEF Transfer
<1>3. transfers' \in [Item \cup {NoItem} -> 0..MaxTransfers]
  <2>1. /\ job[h].item \in Item \cup {NoItem}
        /\ transfers[job[h].item] \in 0..MaxTransfers
        /\ MaxTransfers \in Nat
    BY <1>1, JobType, PayoutsAssumption DEF PayoutInv, PayoutTypeOK
  <2>2. Counted(transfers[job[h].item]) \in 0..MaxTransfers
    BY <2>1 DEF Counted
  <2> QED
    BY <2>1, <2>2 DEF Transfer, PayoutInv, PayoutTypeOK
<1> QED
  BY <1>2, <1>3 DEF Transfer, wallet, PayoutInv, PayoutTypeOK, JobsOK

(* An exception, at Stripe or later: nothing but the record is lost. *)
LEMMA ThrowInv ==
  ASSUME PayoutInv, NEW h \in Handler, ~Free(h), Throw(h),
         UNCHANGED <<escrow, ripe, frozen, request, wallet, transfers>>
  PROVE  PayoutInv'
<1>1. RequestsStay
  BY DEF RequestsStay
<1>2. JobsOK'
  BY <1>1, DoneKeepsJobs DEF Throw
<1>3. (todo \subseteq Escrow)'
  BY DEF Throw, PayoutInv, PayoutTypeOK
<1> QED
  BY <1>2, <1>3 DEF wallet, PayoutInv, PayoutTypeOK, JobsOK

LEMMA ReleaseCommitInv ==
  ASSUME PayoutInv, NEW h \in Handler, ReleaseCommit(h)
  PROVE  PayoutInv'
<1>1. ~Free(h)
  BY DEF ReleaseCommit, At
<1>2. RequestsStay
  BY DEF ReleaseCommit, RequestsStay
<1>3. JobsOK'
  BY <1>2, DoneKeepsJobs DEF ReleaseCommit
<1>4. job[h].account \in Account /\ job[h].amount \in Nat
  BY <1>1, JobType
<1>5. /\ pending' \in [Account -> Int] /\ balance' \in [Account -> Int]
      /\ earned' \in [Account -> Nat]
  <2>1. /\ pending[job[h].account] - job[h].amount \in Int
        /\ balance[job[h].account] + job[h].amount \in Int
        /\ earned[job[h].account] + job[h].amount \in Nat
    BY <1>4 DEF PayoutInv, PayoutTypeOK
  <2> QED
    BY <1>4, <2>1 DEF ReleaseCommit, PayoutInv, PayoutTypeOK
<1>6. escrow' \in [Escrow -> {"HELD", "RELEASED"}]
  BY DEF ReleaseCommit, Released, PayoutInv, PayoutTypeOK
<1> QED
  BY <1>3, <1>5, <1>6 DEF ReleaseCommit, PayoutInv, PayoutTypeOK, JobsOK

LEMMA PayRowsInv ==
  ASSUME PayoutInv, NEW h \in Handler, NEW op \in Paying, ~Free(h), job[h].op = op,
         PayRows(h)
  PROVE  PayoutInv'
<1>1. /\ job[h].account \in Account /\ job[h].amount \in Nat
      /\ JobAgrees(job[h])
  BY JobType
<1>2. job[h].item \in Request => request[job[h].item] # NoRequest
  BY <1>1, PayoutsAssumption DEF JobAgrees, Free, Paying, Item
<1>3. ASSUME NEW q \in Request
      PROVE  /\ request'[q] \in {NoRequest} \cup
                  [status : {"PENDING", "COMPLETED", "REJECTED"},
                   account : Account, amount : Nat]
             /\ request[q] # NoRequest => request'[q] # NoRequest
  <2>1. CASE q = job[h].item
    <3>1. request[q] \in [status : {"PENDING", "COMPLETED", "REJECTED"},
                          account : Account, amount : Nat]
      BY <1>2, <2>1 DEF PayoutInv, PayoutTypeOK
    <3>2. request'[q] = [request[q] EXCEPT !.status = "COMPLETED"]
      BY <2>1 DEF PayRows
    <3> QED
      BY <3>1, <3>2 DEF NoRequest
  <2>2. CASE q # job[h].item
    BY <2>2 DEF PayRows, PayoutInv, PayoutTypeOK
  <2> QED
    BY <2>1, <2>2
<1>4. request' \in [Request -> {NoRequest} \cup
        [status : {"PENDING", "COMPLETED", "REJECTED"}, account : Account, amount : Nat]]
  BY <1>3 DEF PayRows
<1>5. JobsOK'
  BY <1>3, DoneKeepsJobs DEF PayRows, RequestsStay
<1>6. balance' \in [Account -> Int] /\ paidOut' \in [Account -> Nat]
  BY <1>1 DEF PayRows, Debited, PayoutInv, PayoutTypeOK
<1> QED
  BY <1>4, <1>5, <1>6 DEF PayRows, PayoutInv, PayoutTypeOK, JobsOK

LEMMA RejectInv ==
  ASSUME PayoutInv, NEW h \in Handler, RejectWrite(h)
  PROVE  PayoutInv'
<1>1. ~Free(h) /\ job[h].op = "reject"
  BY DEF RejectWrite, At
<1>2. job[h].item \in Request /\ request[job[h].item] # NoRequest
  BY <1>1, JobType DEF JobAgrees, Free
<1>3. request[job[h].item] \in [status : {"PENDING", "COMPLETED", "REJECTED"},
                                account : Account, amount : Nat]
  BY <1>2 DEF PayoutInv, PayoutTypeOK
<1>4. /\ request' \in [Request -> {NoRequest} \cup
           [status : {"PENDING", "COMPLETED", "REJECTED"}, account : Account,
            amount : Nat]]
      /\ RequestsStay
  BY <1>2, <1>3 DEF RejectWrite, PayoutInv, PayoutTypeOK, RequestsStay, NoRequest
<1>5. JobsOK'
  BY <1>4, DoneKeepsJobs DEF RejectWrite
<1> QED
  BY <1>4, <1>5 DEF RejectWrite, wallet, PayoutInv, PayoutTypeOK, JobsOK

LEMMA ApproveFundsInv ==
  ASSUME PayoutInv, NEW h \in Handler, ApproveFunds(h)
  PROVE  PayoutInv'
<1>1. ~Free(h)
  BY DEF ApproveFunds, At
<1>2. PICK j \in Jobs, b \in Int : job[h] = j /\ balance[job[h].account] = b
  BY <1>1, JobType DEF PayoutInv, PayoutTypeOK
<1>3. RequestsStay
  BY DEF ApproveFunds, RequestsStay
<1>4. JobsOK'
  <2>1. CASE Sufficient(h)
    <3> DEFINE r == [j EXCEPT !.stage = "funds", !.seen = b]
    <3>1. r \in Jobs /\ r.op = j.op /\ r.item = j.item
      BY DEF Jobs
    <3>2. j # Idle /\ JobAgrees(j)
      BY <1>1, <1>2 DEF Free, PayoutInv, JobsAgree
    <3>3. JobAgrees(r)'
      BY <3>1, <3>2 DEF JobAgrees, ApproveFunds
    <3>4. job' = [job EXCEPT ![h] = r]
      BY <1>2, <2>1 DEF ApproveFunds
    <3> HIDE DEF r
    <3> QED
      BY <1>3, <3>1, <3>3, <3>4, OneJobMoves
  <2>2. CASE ~Sufficient(h)
    BY <1>3, <2>2, DoneKeepsJobs DEF ApproveFunds
  <2> QED
    BY <2>1, <2>2
<1> QED
  BY <1>4 DEF ApproveFunds, wallet, PayoutInv, PayoutTypeOK, JobsOK

LEMMA FineCommitInv ==
  ASSUME PayoutInv, NEW h \in Handler, FineCommit(h)
  PROVE  PayoutInv'
<1>1. ~Free(h)
  BY DEF FineCommit, At
<1>2. RequestsStay
  BY DEF FineCommit, RequestsStay
<1>3. JobsOK'
  BY <1>2, DoneKeepsJobs DEF FineCommit
<1>4. job[h].account \in Account /\ job[h].amount \in Nat /\ job[h].seen \in Int
  BY <1>1, JobType
<1>5. balance' \in [Account -> Int] /\ fined' \in [Account -> Nat]
  BY <1>4 DEF FineCommit, PayoutInv, PayoutTypeOK
<1> QED
  BY <1>3, <1>5 DEF FineCommit, PayoutInv, PayoutTypeOK, JobsOK

LEMMA WorkInv ==
  ASSUME PayoutInv, NEW h \in Handler, Work(h)
  PROVE  PayoutInv'
<1>1. CASE PayCommit(h) \/ BankCommit(h)
  BY <1>1, PayRowsInv DEF PayCommit, BankCommit, At
<1> QED
  BY <1>1, TransferInv, ReleaseCommitInv, RejectInv, ApproveFundsInv, FineCommitInv
     DEF Work

LEMMA PayoutStepInv ==
  ASSUME PayoutInv, [PayoutNext]_payoutVars
  PROVE  PayoutInv'
<1>1. ASSUME NEW h \in Handler, TransferFails(h) \/ Crash(h) PROVE PayoutInv'
  BY <1>1, ThrowInv DEF TransferFails, TransferNext, Crash, At
<1> QED
  BY <1>1, IdleStepInv, OutsideInv, CronInv, StartInv, WorkInv DEF PayoutNext

(* Every reachable state is well typed: whatever requests, jobs and        *)
(* failures interleave, no balance, request or list takes a value the      *)
(* tables do not have.                                                     *)
THEOREM PayoutTypeCorrect == PayoutSpec => []PayoutTypeOK
<1>1. PayoutInit => PayoutInv
  BY PayoutInitInv
<1>2. PayoutInv /\ [PayoutNext]_payoutVars => PayoutInv'
  BY PayoutStepInv
<1>3. PayoutInv => PayoutTypeOK
  BY DEF PayoutInv
<1> QED
  BY <1>1, <1>2, <1>3, PTL DEF PayoutSpec

-----------------------------------------------------------------------------
(* The books.                                                              *)

NoFineInFlight == \A h \in Handler : ~Free(h) => job[h].op # "fine"

BooksInv == PayoutInv /\ NoFineInFlight /\ NoUpdateLost

(* A handler in flight is one that was, or one that has just begun an      *)
(* operation of Ops.                                                       *)
LEMMA FinesNeverStart ==
  ASSUME "fine" \notin Ops, PayoutInv, NoFineInFlight, PayoutNext
  PROVE  NoFineInFlight'
<1> SUFFICES ASSUME NEW k \in Handler, job'[k] # Idle
             PROVE  job'[k].op # "fine"
  BY DEF NoFineInFlight, Free
<1>1. CASE job'[k] = job[k]
  BY <1>1 DEF NoFineInFlight, Free
<1>2. CASE job'[k] # job[k]
  <2>1. CASE CronStep
    <3>1. Cron \in Handler
      BY PayoutsAssumption
    <3>2. CASE CronList
      BY <1>2, <3>2 DEF CronList
    <3>3. ASSUME NEW e \in Escrow, CronNext(e) PROVE job'[k].op # "fine"
      BY <1>2, <3>1, <3>3 DEF CronNext, Begin, PayoutInv, PayoutTypeOK
    <3>4. CASE CronFind
      BY <1>2, <3>1, <3>4 DEF CronFind, At, Goto, Throw, Done, PayoutInv,
                              PayoutTypeOK, NoFineInFlight, Free, Jobs
    <3> QED
      BY <2>1, <3>2, <3>3, <3>4 DEF CronStep, CronLoop
  <2>2. ASSUME NEW h \in Handler, Start(h) PROVE job'[k].op # "fine"
    <3>1. \E s, op, x, a, n, seen : op # "fine" /\ Begin(h, s, op, x, a, n, seen)
      BY <2>2 DEF Start, ReleaseFind, VerdictFind, ProcessRead, PayoutRead
    <3> QED
      BY <1>2, <3>1 DEF Begin, PayoutInv, PayoutTypeOK
  <2>3. ASSUME NEW h \in Handler, Work(h) \/ TransferFails(h) \/ Crash(h)
        PROVE  job'[k].op # "fine"
    <3>1. \/ job' = [job EXCEPT ![h] = Idle]
          \/ ~Free(h) /\ \E s : job' = [job EXCEPT ![h].stage = s]
          \/ ~Free(h) /\ \E s, b : job' = [job EXCEPT ![h].stage = s, ![h].seen = b]
      BY <2>3 DEF Work, Transfer, TransferNext, ReleaseCommit, PayCommit, BankCommit,
                  PayRows, RejectWrite, ApproveFunds, FineCommit, TransferFails,
                  Crash, At, Throw, Done, Goto
    <3>2. k = h /\ job[h] \in {Idle} \cup Jobs
      BY <1>2, <3>1 DEF PayoutInv, PayoutTypeOK
    <3>3. job'[h] # Idle => job[h] \in Jobs /\ job'[h].op = job[h].op
      <4>1. CASE job' = [job EXCEPT ![h] = Idle]
        BY <4>1 DEF PayoutInv, PayoutTypeOK
      <4>2. ASSUME ~Free(h), NEW s, job' = [job EXCEPT ![h].stage = s]
            PROVE  job[h] \in Jobs /\ job'[h].op = job[h].op
        BY <3>2, <4>2 DEF PayoutInv, PayoutTypeOK, Free, Jobs
      <4>3. ASSUME ~Free(h), NEW s, NEW b,
                   job' = [job EXCEPT ![h].stage = s, ![h].seen = b]
            PROVE  job[h] \in Jobs /\ job'[h].op = job[h].op
        BY <3>2, <4>3 DEF PayoutInv, PayoutTypeOK, Free, Jobs
      <4> QED
        BY <3>1, <4>1, <4>2, <4>3
    <3>4. CASE ~Free(h)
      BY <3>2, <3>3, <3>4 DEF NoFineInFlight
    <3>5. CASE Free(h)
      BY <1>2, <3>1, <3>2, <3>5 DEF Free, PayoutInv, PayoutTypeOK
    <3> QED
      BY <3>4, <3>5
  <2>4. CASE UNCHANGED job
    BY <1>2, <2>4
  <2> QED
    BY <2>1, <2>2, <2>3, <2>4 DEF PayoutNext, Ripen, RequestWithdrawal, SetFrozen
<1> QED
  BY <1>1, <1>2

(* A step keeps the books if a fine is written over the balance it read.   *)
LEMMA BooksStep ==
  ASSUME PayoutInv, NoUpdateLost, PayoutNext,
         \A h \in Handler : FineCommit(h) => job[h].seen = balance[job[h].account]
  PROVE  NoUpdateLost'
<1>1. CASE UNCHANGED wallet
  BY <1>1 DEF wallet, NoUpdateLost
<1>2. ASSUME NEW h \in Handler, ReleaseCommit(h) PROVE NoUpdateLost'
  <2>1. job[h].account \in Account /\ job[h].amount \in Nat
    BY <1>2, JobType DEF ReleaseCommit, At
  <2> SUFFICES ASSUME NEW a \in Account
               PROVE  /\ balance'[a] = Opening[a] + earned'[a] - paidOut'[a] - fined'[a]
                      /\ pending'[a] = Owed[a] - earned'[a]
    BY DEF NoUpdateLost
  <2>2. /\ balance[a] = Opening[a] + earned[a] - paidOut[a] - fined[a]
        /\ pending[a] = Owed[a] - earned[a]
        /\ Opening[a] \in Int /\ Owed[a] \in Int /\ earned[a] \in Int
        /\ paidOut[a] \in Int /\ fined[a] \in Int
    BY PayoutsAssumption DEF NoUpdateLost, PayoutInv, PayoutTypeOK
  <2>3. CASE a = job[h].account
    BY <1>2, <2>1, <2>2, <2>3 DEF ReleaseCommit, PayoutInv, PayoutTypeOK
  <2>4. CASE a # job[h].account
    BY <1>2, <2>1, <2>2, <2>4 DEF ReleaseCommit, PayoutInv, PayoutTypeOK
  <2> QED
    BY <2>3, <2>4
<1>3. ASSUME NEW h \in Handler, ~Free(h), PayRows(h) PROVE NoUpdateLost'
  <2>1. job[h].account \in Account /\ job[h].amount \in Nat
    BY <1>3, JobType
  <2> SUFFICES ASSUME NEW a \in Account
               PROVE  /\ balance'[a] = Opening[a] + earned'[a] - paidOut'[a] - fined'[a]
                      /\ pending'[a] = Owed[a] - earned'[a]
    BY DEF NoUpdateLost
  <2>2. /\ balance[a] = Opening[a] + earned[a] - paidOut[a] - fined[a]
        /\ pending[a] = Owed[a] - earned[a]
        /\ Opening[a] \in Int /\ Owed[a] \in Int /\ earned[a] \in Int
        /\ paidOut[a] \in Int /\ fined[a] \in Int
    BY PayoutsAssumption DEF NoUpdateLost, PayoutInv, PayoutTypeOK
  <2>3. CASE a = job[h].account
    BY <1>3, <2>1, <2>2, <2>3 DEF PayRows, Debited, PayoutInv, PayoutTypeOK
  <2>4. CASE a # job[h].account
    BY <1>3, <2>1, <2>2, <2>4 DEF PayRows, PayoutInv, PayoutTypeOK
  <2> QED
    BY <2>3, <2>4
<1>4. ASSUME NEW h \in Handler, FineCommit(h) PROVE NoUpdateLost'
  <2>1. job[h].account \in Account /\ job[h].amount \in Nat
    BY <1>4, JobType DEF FineCommit, At
  <2> SUFFICES ASSUME NEW a \in Account
               PROVE  /\ balance'[a] = Opening[a] + earned'[a] - paidOut'[a] - fined'[a]
                      /\ pending'[a] = Owed[a] - earned'[a]
    BY DEF NoUpdateLost
  <2>2. /\ balance[a] = Opening[a] + earned[a] - paidOut[a] - fined[a]
        /\ pending[a] = Owed[a] - earned[a]
        /\ Opening[a] \in Int /\ Owed[a] \in Int /\ earned[a] \in Int
        /\ paidOut[a] \in Int /\ fined[a] \in Int
    BY PayoutsAssumption DEF NoUpdateLost, PayoutInv, PayoutTypeOK
  <2>5. job[h].seen = balance[job[h].account]
    BY <1>4
  <2>3. CASE a = job[h].account
    BY <1>4, <2>1, <2>2, <2>5, <2>3 DEF FineCommit, PayoutInv, PayoutTypeOK
  <2>4. CASE a # job[h].account
    BY <1>4, <2>1, <2>2, <2>4 DEF FineCommit, PayoutInv, PayoutTypeOK
  <2> QED
    BY <2>3, <2>4
<1>5. ASSUME NEW h \in Handler, Work(h) PROVE NoUpdateLost'
  BY <1>5, <1>1, <1>2, <1>3, <1>4
     DEF Work, Transfer, PayCommit, BankCommit, RejectWrite, ApproveFunds, At
<1>6. ASSUME NEW h \in Handler, Start(h) \/ TransferFails(h) \/ Crash(h)
      PROVE  UNCHANGED wallet
  BY <1>6 DEF Start, ReleaseFind, VerdictFind, ProcessRead, PayoutRead, FineRead,
              TransferFails, Crash
<1> QED
  BY <1>1, <1>5, <1>6 DEF PayoutNext, Ripen, CronStep, CronLoop, CronList, CronNext, CronFind,
                         RequestWithdrawal, SetFrozen

(* Releases, withdrawals and payouts update a balance by increments, so    *)
(* however they interleave and die, balance and pendingBalance are what    *)
(* those that committed have added and taken.                              *)
THEOREM UpdatesNeverLost ==
  ASSUME "fine" \notin Ops
  PROVE  PayoutSpec => []NoUpdateLost
<1>1. PayoutInit => BooksInv
  <2>1. PayoutInit => NoFineInFlight
    BY DEF PayoutInit, NoFineInFlight, Free
  <2>2. PayoutInit => NoUpdateLost
    BY PayoutsAssumption DEF PayoutInit, NoUpdateLost
  <2> QED
    BY <2>1, <2>2, PayoutInitInv DEF BooksInv
<1>2. BooksInv /\ [PayoutNext]_payoutVars => BooksInv'
  <2>1. ASSUME BooksInv, PayoutNext PROVE BooksInv'
    <3>1. \A h \in Handler : ~FineCommit(h)
      BY <2>1 DEF FineCommit, At, BooksInv, NoFineInFlight
    <3> QED
      BY <2>1, <3>1, PayoutStepInv, FinesNeverStart, BooksStep DEF BooksInv
  <2>2. ASSUME BooksInv, UNCHANGED payoutVars PROVE BooksInv'
    BY <2>2, PayoutStepInv DEF BooksInv, NoFineInFlight, NoUpdateLost, Free,
                               payoutVars, wallet
  <2> QED
    BY <2>1, <2>2
<1>3. BooksInv => NoUpdateLost
  BY DEF BooksInv
<1> QED
  BY <1>1, <1>2, <1>3, PTL DEF PayoutSpec

-----------------------------------------------------------------------------
(* What is recorded as released was transferred.                           *)

(* A release that is past its transfer has one to show. *)
SentIsCounted ==
  \A h \in Handler : ~Free(h) =>
    /\ job[h].op # "verdict"
    /\ job[h].op \in Releasing /\ job[h].stage = "sent" => transfers[job[h].item] > 0

SentInv == PayoutInv /\ SentIsCounted /\ RecordedWasSent

(* The handlers but for h stand where they stood. *)
LEMMA OthersStand ==
  ASSUME PayoutInv, SentIsCounted, NEW h \in Handler, NEW r,
         job' = [job EXCEPT ![h] = r],
         \A x \in Item \cup {NoItem} : transfers'[x] >= transfers[x],
         transfers' \in [Item \cup {NoItem} -> 0..MaxTransfers],
         r # Idle => /\ r.op # "verdict"
                     /\ r.op \in Releasing /\ r.stage = "sent"
                          => transfers'[r.item] > 0
  PROVE  SentIsCounted'
<1> SUFFICES ASSUME NEW k \in Handler, job'[k] # Idle
             PROVE  /\ job'[k].op # "verdict"
                    /\ job'[k].op \in Releasing /\ job'[k].stage = "sent"
                         => transfers'[job'[k].item] > 0
  BY DEF SentIsCounted, Free
<1>1. CASE k = h
  BY <1>1 DEF PayoutInv, PayoutTypeOK
<1>2. CASE k # h
  <2>1. job'[k] = job[k] /\ ~Free(k)
    BY <1>2 DEF PayoutInv, PayoutTypeOK, Free
  <2>2. job[k].item \in Item \cup {NoItem}
    BY <2>1, JobType
  <2>3. transfers[job[k].item] \in Nat /\ transfers'[job[k].item] \in Nat
    BY <2>2, PayoutsAssumption DEF PayoutInv, PayoutTypeOK
  <2> QED
    BY <2>1, <2>2, <2>3 DEF SentIsCounted
<1> QED
  BY <1>1, <1>2

LEMMA TransferCounts ==
  ASSUME SentInv, NEW h \in Handler, Transfer(h)
  PROVE  SentIsCounted' /\ RecordedWasSent'
<1>1. ~Free(h)
  BY DEF Transfer, TransferNext, At
<1>2. PICK j \in Jobs : job[h] = j
  BY <1>1, JobType DEF SentInv
<1>3. j.item \in Item \cup {NoItem} /\ j.op # "verdict"
  BY <1>1, <1>2, JobType DEF SentInv, SentIsCounted
<1>4. /\ transfers \in [Item \cup {NoItem} -> Nat]
      /\ transfers' = [transfers EXCEPT ![j.item] = Counted(@)]
      /\ transfers' \in [Item \cup {NoItem} -> 0..MaxTransfers]
  <2>1. transfers' \in [Item \cup {NoItem} -> 0..MaxTransfers]
    BY TransferInv DEF SentInv, PayoutInv, PayoutTypeOK
  <2>2. transfers' = [transfers EXCEPT ![j.item] = Counted(@)]
    BY <1>2 DEF Transfer
  <2>3. transfers \in [Item \cup {NoItem} -> Nat]
    BY PayoutsAssumption DEF SentInv, PayoutInv, PayoutTypeOK
  <2> QED
    BY <2>1, <2>2, <2>3
<1>5. /\ \A x \in Item \cup {NoItem} : transfers'[x] >= transfers[x]
      /\ transfers'[j.item] > 0
  BY <1>3, <1>4, PayoutsAssumption DEF Counted
<1> DEFINE r == [j EXCEPT !.stage = "sent"]
<1>6. job' = [job EXCEPT ![h] = r]
  BY <1>2 DEF Transfer, Goto
<1>7. r.op = j.op /\ r.item = j.item
  BY DEF Jobs
<1> HIDE DEF r
<1>8. SentIsCounted'
  BY <1>3, <1>4, <1>5, <1>6, <1>7, OthersStand DEF SentInv
<1>9. ASSUME NEW e \in Escrow, escrow'[e] = "RELEASED" PROVE transfers'[e] > 0
  <2>1. transfers[e] > 0 /\ e \in Item \cup {NoItem}
    BY <1>9 DEF Transfer, SentInv, RecordedWasSent, Item
  <2> QED
    BY <1>4, <1>5, <2>1
<1> QED
  BY <1>8, <1>9 DEF RecordedWasSent

LEMMA ReleaseRecords ==
  ASSUME SentInv, NEW h \in Handler, ReleaseCommit(h)
  PROVE  SentIsCounted' /\ RecordedWasSent'
<1>1. ~Free(h) /\ job[h].op \in Releasing /\ job[h].stage = "sent"
  BY DEF ReleaseCommit, At
<1>2. transfers[job[h].item] > 0
  BY <1>1 DEF SentInv, SentIsCounted
<1>3. RecordedWasSent'
  BY <1>2 DEF ReleaseCommit, Released, SentInv, RecordedWasSent, PayoutInv,
              PayoutTypeOK
<1>4. SentIsCounted'
  <2>1. /\ \A x \in Item \cup {NoItem} : transfers'[x] >= transfers[x]
        /\ transfers' \in [Item \cup {NoItem} -> 0..MaxTransfers]
    BY PayoutsAssumption DEF ReleaseCommit, SentInv, PayoutInv, PayoutTypeOK
  <2>2. job' = [job EXCEPT ![h] = Idle]
    BY DEF ReleaseCommit, Done
  <2> QED
    BY <2>1, <2>2, OthersStand DEF SentInv
<1> QED
  BY <1>3, <1>4

(* Every other step releases nothing, transfers nothing and puts no        *)
(* release past its transfer.                                              *)
LEMMA OtherStepsSend ==
  ASSUME SentInv, UNCHANGED <<escrow, transfers>>, NEW h \in Handler,
         NEW r, job' = [job EXCEPT ![h] = r],
         r # Idle => /\ r.op # "verdict"
                     /\ ~(r.op \in Releasing /\ r.stage = "sent")
  PROVE  SentIsCounted' /\ RecordedWasSent'
<1>1. /\ \A x \in Item \cup {NoItem} : transfers'[x] >= transfers[x]
      /\ transfers' \in [Item \cup {NoItem} -> 0..MaxTransfers]
  BY PayoutsAssumption DEF SentInv, PayoutInv, PayoutTypeOK
<1>2. SentIsCounted'
  BY <1>1, OthersStand DEF SentInv
<1> QED
  BY <1>2 DEF SentInv, RecordedWasSent

LEMMA SentStep ==
  ASSUME "verdict" \notin Ops, SentInv, PayoutNext
  PROVE  SentIsCounted' /\ RecordedWasSent'
<1>1. ASSUME UNCHANGED <<escrow, transfers, job>>
      PROVE  SentIsCounted' /\ RecordedWasSent'
  BY <1>1 DEF SentInv, SentIsCounted, RecordedWasSent, Free
<1>2. ASSUME NEW h \in Handler, Done(h), UNCHANGED <<escrow, transfers>>
      PROVE  SentIsCounted' /\ RecordedWasSent'
  BY <1>2, OtherStepsSend DEF Done
<1>3. CASE CronStep
  <2>1. Cron \in Handler
    BY PayoutsAssumption
  <2>2. CASE CronList
    BY <1>1, <2>2 DEF CronList
  <2>3. ASSUME NEW e \in Escrow, CronNext(e)
        PROVE  SentIsCounted' /\ RecordedWasSent'
    <3>1. CASE e \in ripe
      BY <2>1, <2>3, <3>1, OtherStepsSend DEF CronNext, Begin
    <3>2. CASE e \notin ripe
      BY <1>1, <2>3, <3>2 DEF CronNext
    <3> QED
      BY <3>1, <3>2
  <2>4. CASE CronFind
    <3>1. CASE IsHeld(job[Cron].item) /\ OwnerOf[job[Cron].item] \in Connected
      <4>1. ~Free(Cron) /\ job[Cron].op = "auto"
        BY <2>4 DEF CronFind, At
      <4>2. PICK j \in Jobs : job[Cron] = j
        BY <2>1, <4>1, JobType DEF SentInv
      <4> DEFINE r == [j EXCEPT !.stage = "read"]
      <4>3. r.op = "auto" /\ r.stage = "read"
        BY <4>1, <4>2 DEF Jobs
      <4>4. job' = [job EXCEPT ![Cron] = r] /\ UNCHANGED <<escrow, transfers>>
        BY <2>4, <3>1, <4>2 DEF CronFind, Goto
      <4> HIDE DEF r
      <4> QED
        BY <2>1, <4>3, <4>4, OtherStepsSend
    <3>2. CASE ~(IsHeld(job[Cron].item) /\ OwnerOf[job[Cron].item] \in Connected)
      BY <1>2, <2>1, <2>4, <3>2 DEF CronFind, Throw
    <3> QED
      BY <3>1, <3>2
  <2> QED
    BY <1>3, <2>2, <2>3, <2>4 DEF CronStep, CronLoop
<1>4. ASSUME NEW h \in Handler, Start(h) PROVE SentIsCounted' /\ RecordedWasSent'
  <2>1. ASSUME NEW e \in Escrow, ReleaseFind(h, e)
        PROVE  SentIsCounted' /\ RecordedWasSent'
    BY <2>1, OtherStepsSend DEF ReleaseFind, Begin
  <2>2. ASSUME NEW q \in Request, NEW op \in {"approve", "reject"}, ProcessRead(h, op, q)
        PROVE  SentIsCounted' /\ RecordedWasSent'
    <3>1. \A a, n : Begin(h, "read", op, q, a, n, 0)
                     => SentIsCounted' /\ RecordedWasSent'
      BY <2>2, OtherStepsSend DEF ProcessRead, Begin
    <3> QED
      BY <2>2, <3>1 DEF ProcessRead
  <2>3. ASSUME NEW a \in Account, NEW n \in Amount, PayoutRead(h, a, n)
        PROVE  SentIsCounted' /\ RecordedWasSent'
    <3>1. \A b : Begin(h, "funds", "payout", NoItem, a, n, b)
                  => SentIsCounted' /\ RecordedWasSent'
      BY <2>3, OtherStepsSend DEF PayoutRead, Begin
    <3> QED
      BY <2>3, <3>1 DEF PayoutRead
  <2>4. ASSUME NEW a \in Account, FineRead(h, a)
        PROVE  SentIsCounted' /\ RecordedWasSent'
    <3>1. \A b : Begin(h, "read", "fine", NoItem, a, Fine, b)
                  => SentIsCounted' /\ RecordedWasSent'
      BY <2>4, OtherStepsSend DEF FineRead, Begin
    <3> QED
      BY <2>4, <3>1 DEF FineRead
  <2> QED
    BY <1>4, <2>1, <2>2, <2>3, <2>4 DEF Start
<1>5. ASSUME NEW h \in Handler, ApproveFunds(h) PROVE SentIsCounted' /\ RecordedWasSent'
  <2>1. CASE Sufficient(h)
    <3>1. ~Free(h) /\ job[h].op = "approve"
      BY <1>5 DEF ApproveFunds, At
    <3>2. PICK j \in Jobs, b \in Int : job[h] = j /\ balance[job[h].account] = b
      BY <3>1, JobType DEF SentInv, PayoutInv, PayoutTypeOK
    <3> DEFINE r == [j EXCEPT !.stage = "funds", !.seen = b]
    <3>3. r.op = "approve" /\ r.stage = "funds"
      BY <3>1, <3>2 DEF Jobs
    <3>4. job' = [job EXCEPT ![h] = r] /\ UNCHANGED <<escrow, transfers>>
      BY <1>5, <2>1, <3>2 DEF ApproveFunds
    <3> HIDE DEF r
    <3> QED
      BY <3>3, <3>4, OtherStepsSend
  <2>2. CASE ~Sufficient(h)
    BY <1>2, <1>5, <2>2 DEF ApproveFunds
  <2> QED
    BY <2>1, <2>2
<1>6. ASSUME NEW h \in Handler, Work(h) PROVE SentIsCounted' /\ RecordedWasSent'
  BY <1>2, <1>5, <1>6, TransferCounts, ReleaseRecords
     DEF Work, PayCommit, BankCommit, PayRows, RejectWrite, FineCommit
<1>7. ASSUME NEW h \in Handler, TransferFails(h) \/ Crash(h)
      PROVE  SentIsCounted' /\ RecordedWasSent'
  BY <1>2, <1>7 DEF TransferFails, Crash, Throw
<1> QED
  BY <1>1, <1>3, <1>4, <1>6, <1>7
     DEF PayoutNext, Ripen, RequestWithdrawal, SetFrozen

(* An escrow is recorded as released only after Stripe made the transfer,  *)
(* whatever handlers interleave and wherever they die, as long as verdicts *)
(* release none.                                                           *)
THEOREM ReleasesWereSent ==
  ASSUME "verdict" \notin Ops
  PROVE  PayoutSpec => []RecordedWasSent
<1>1. PayoutInit => SentInv
  <2>1. PayoutInit => SentIsCounted /\ RecordedWasSent
    BY DEF PayoutInit, SentIsCounted, RecordedWasSent, Free
  <2> QED
    BY <2>1, PayoutInitInv DEF SentInv
<1>2. SentInv /\ [PayoutNext]_payoutVars => SentInv'
  <2>1. ASSUME SentInv, PayoutNext PROVE SentInv'
    BY <2>1, PayoutStepInv, SentStep DEF SentInv
  <2>2. ASSUME SentInv, UNCHANGED payoutVars PROVE SentInv'
    BY <2>2, PayoutStepInv DEF SentInv, SentIsCounted, RecordedWasSent, Free,
                               payoutVars
  <2> QED
    BY <2>1, <2>2
<1>3. SentInv => RecordedWasSent
  BY DEF SentInv
<1> QED
  BY <1>1, <1>2, <1>3, PTL DEF PayoutSpec

-----------------------------------------------------------------------------
(* When handlers run one at a time.  A handler that has looked at a balance *)
(* finds it again when it writes: FundsThere.                               *)

OneHandler == \A g, h \in Handler : g = h

FundsThere(r) ==
  r # Idle =>
    /\ r.op \in Paying /\ r.stage \in {"funds", "sent"} => r.amount <= balance[r.account]
    /\ r.op = "fine" => r.seen = balance[r.account]

CoveredInv ==
  /\ PayoutInv
  /\ \A h \in Handler : FundsThere(job[h])
  /\ OverdrawnByFinesOnly

LEMMA OnlyJob ==
  ASSUME OneHandler, PayoutInv, NEW h \in Handler, NEW r, job' = [job EXCEPT ![h] = r]
  PROVE  \A g \in Handler : job'[g] = r
BY DEF OneHandler, PayoutInv, PayoutTypeOK

(* A step that leaves the balances alone.                                  *)
LEMMA FundsStay ==
  ASSUME OneHandler, CoveredInv, NEW h \in Handler, NEW r, job' = [job EXCEPT ![h] = r],
         FundsThere(r), UNCHANGED <<balance, fined>>
  PROVE  OverdrawnByFinesOnly' /\ \A g \in Handler : FundsThere(job[g])'
BY OnlyJob DEF CoveredInv, FundsThere, OverdrawnByFinesOnly

LEMMA FundsEnd ==
  ASSUME OneHandler, CoveredInv, NEW h \in Handler, Done(h), OverdrawnByFinesOnly'
  PROVE  OverdrawnByFinesOnly' /\ \A g \in Handler : FundsThere(job[g])'
<1>1. \A g \in Handler : job'[g] = Idle
  BY OnlyJob DEF Done, CoveredInv
<1> QED
  BY <1>1 DEF FundsThere

LEMMA FundsStart ==
  ASSUME OneHandler, CoveredInv, NEW h \in Handler,
         NEW s, NEW op, NEW x, NEW a, NEW n, NEW seen,
         Begin(h, s, op, x, a, n, seen), UNCHANGED <<balance, fined>>,
         op \in Paying => s = "read" \/ n <= balance[a],
         op = "fine" => seen = balance[a]
  PROVE  OverdrawnByFinesOnly' /\ \A g \in Handler : FundsThere(job[g])'
<1>1. PICK r : r = [stage |-> s, op |-> op, item |-> x, account |-> a,
                    amount |-> n, seen |-> seen]
  OBVIOUS
<1>2. FundsThere(r) /\ job' = [job EXCEPT ![h] = r]
  BY <1>1 DEF FundsThere, Begin
<1> QED
  BY <1>2, FundsStay

LEMMA CoveredStart ==
  ASSUME OneHandler, CoveredInv, NEW h \in Handler, Start(h)
  PROVE  OverdrawnByFinesOnly' /\ \A g \in Handler : FundsThere(job[g])'
<1> USE DEF Paying, wallet
<1>1. ASSUME NEW e \in Escrow, ReleaseFind(h, e) \/ VerdictFind(h, e)
      PROVE  OverdrawnByFinesOnly' /\ \A g \in Handler : FundsThere(job[g])'
  BY <1>1, FundsStart DEF ReleaseFind, VerdictFind
<1>2. ASSUME NEW q \in Request, NEW op, ProcessRead(h, op, q), op # "fine"
      PROVE  OverdrawnByFinesOnly' /\ \A g \in Handler : FundsThere(job[g])'
  <2>1. PICK a, n : Begin(h, "read", op, q, a, n, 0)
    BY <1>2 DEF ProcessRead
  <2> QED
    BY <1>2, <2>1, FundsStart DEF ProcessRead
<1>3. ASSUME NEW a \in Account, NEW n \in Amount, PayoutRead(h, a, n)
      PROVE  OverdrawnByFinesOnly' /\ \A g \in Handler : FundsThere(job[g])'
  <2>1. n <= balance[a]
    BY <1>3, PayoutsAssumption DEF PayoutRead, CoveredInv, PayoutInv, PayoutTypeOK
  <2>2. PICK b : Begin(h, "funds", "payout", NoItem, a, n, b)
    BY <1>3 DEF PayoutRead
  <2> QED
    BY <1>3, <2>1, <2>2, FundsStart DEF PayoutRead
<1>4. ASSUME NEW a \in Account, FineRead(h, a)
      PROVE  OverdrawnByFinesOnly' /\ \A g \in Handler : FundsThere(job[g])'
  <2>1. PICK b : b = balance[a]
    OBVIOUS
  <2>2. Begin(h, "read", "fine", NoItem, a, Fine, b) /\ UNCHANGED <<balance, fined>>
    BY <1>4, <2>1 DEF FineRead
  <2> QED
    BY <2>1, <2>2, FundsStart
<1> QED
  BY <1>1, <1>2, <1>3, <1>4 DEF Start

LEMMA CoveredCron ==
  ASSUME OneHandler, CoveredInv, CronStep
  PROVE  OverdrawnByFinesOnly' /\ \A g \in Handler : FundsThere(job[g])'
<1> USE DEF Paying, wallet
<1>1. Cron \in Handler
  BY PayoutsAssumption
<1>2. ASSUME UNCHANGED <<balance, fined, job>>
      PROVE  OverdrawnByFinesOnly' /\ \A g \in Handler : FundsThere(job[g])'
  BY <1>2 DEF CoveredInv, FundsThere, OverdrawnByFinesOnly
<1>3. ASSUME NEW e \in Escrow, CronNext(e)
      PROVE  OverdrawnByFinesOnly' /\ \A g \in Handler : FundsThere(job[g])'
  <2>1. CASE e \in ripe
    BY <1>1, <1>3, <2>1, FundsStart DEF CronNext
  <2>2. CASE e \notin ripe
    BY <1>2, <1>3, <2>2 DEF CronNext
  <2> QED
    BY <2>1, <2>2
<1>4. CASE CronFind
  <2>1. UNCHANGED <<balance, fined>>
    BY <1>4 DEF CronFind
  <2>2. OverdrawnByFinesOnly'
    BY <2>1 DEF CoveredInv, OverdrawnByFinesOnly
  <2>3. CASE Done(Cron)
    BY <1>1, <2>2, <2>3, FundsEnd
  <2>4. CASE Goto(Cron, "read")
    <3>1. ~Free(Cron) /\ job[Cron].op = "auto"
      BY <1>4 DEF CronFind, At
    <3>2. PICK j \in Jobs : job[Cron] = j
      BY <1>1, <3>1, JobType DEF CoveredInv
    <3>3. PICK r : r = [j EXCEPT !.stage = "read"]
      OBVIOUS
    <3>4. r.op = "auto" /\ job' = [job EXCEPT ![Cron] = r]
      BY <2>4, <3>1, <3>2, <3>3 DEF Jobs, Goto
    <3> QED
      BY <1>1, <2>1, <3>4, FundsStay DEF FundsThere
  <2> QED
    BY <1>4, <2>3, <2>4 DEF CronFind, Throw
<1> QED
  BY <1>2, <1>3, <1>4 DEF CronStep, CronLoop, CronList

LEMMA CoveredWork ==
  ASSUME OneHandler, CoveredInv, NEW h \in Handler, Work(h) \/ TransferFails(h) \/ Crash(h)
  PROVE  OverdrawnByFinesOnly' /\ \A g \in Handler : FundsThere(job[g])'
<1> USE DEF Paying, wallet
<1>1. ASSUME Done(h), UNCHANGED <<balance, fined>>
      PROVE  OverdrawnByFinesOnly' /\ \A g \in Handler : FundsThere(job[g])'
  BY <1>1, FundsEnd DEF CoveredInv, OverdrawnByFinesOnly
<1>2. \A a \in Account : /\ balance[a] + fined[a] >= 0
                          /\ balance[a] \in Int /\ fined[a] \in Int
  BY DEF CoveredInv, OverdrawnByFinesOnly, PayoutInv, PayoutTypeOK
<1>3. /\ balance \in [Account -> Int]
      /\ fined \in [Account -> Nat]
  BY DEF CoveredInv, PayoutInv, PayoutTypeOK
<1>4. ASSUME ~Free(h)
      PROVE  /\ job[h] \in Jobs /\ FundsThere(job[h])
             /\ job[h].account \in Account /\ job[h].amount \in Nat
             /\ job[h].seen \in Int
  BY <1>4, JobType DEF CoveredInv
<1>5. CASE Transfer(h)
  <2>1. ~Free(h)
    BY <1>5 DEF Transfer, TransferNext, At
  <2>2. PICK j \in Jobs : job[h] = j /\ FundsThere(j)
    BY <1>4, <2>1
  <2>3. PICK r : r = [j EXCEPT !.stage = "sent"]
    OBVIOUS
  <2>4. /\ r.op = j.op /\ r.stage = "sent" /\ r.amount = j.amount
        /\ r.account = j.account /\ job' = [job EXCEPT ![h] = r]
    BY <1>5, <2>2, <2>3 DEF Transfer, Goto, Jobs
  <2>5. j.op \in {"auto", "release"} \/ (j.op \in Paying /\ j.stage = "funds")
    BY <1>5, <2>2 DEF Transfer, TransferNext, At
  <2>6. FundsThere(r)
    BY <2>1, <2>2, <2>4, <2>5 DEF FundsThere, Free
  <2> QED
    BY <1>5, <2>4, <2>6, FundsStay DEF Transfer
<1>6. CASE ReleaseCommit(h)
  <2>1. ~Free(h)
    BY <1>6 DEF ReleaseCommit, At
  <2>2. OverdrawnByFinesOnly'
    BY <1>2, <1>3, <1>4, <1>6, <2>1 DEF ReleaseCommit, OverdrawnByFinesOnly
  <2> QED
    BY <1>6, <2>2, FundsEnd DEF ReleaseCommit
<1>7. CASE PayCommit(h) \/ BankCommit(h)
  <2>1. ~Free(h) /\ job[h].op \in Paying /\ job[h].stage \in {"funds", "sent"} /\ PayRows(h)
    BY <1>7 DEF PayCommit, BankCommit, At
  <2>2. job[h].amount <= balance[job[h].account]
    BY <1>4, <2>1 DEF FundsThere, Free
  <2>3. OverdrawnByFinesOnly'
    BY <1>2, <1>3, <1>4, <2>1, <2>2 DEF PayRows, Debited, OverdrawnByFinesOnly
  <2> QED
    BY <2>1, <2>3, FundsEnd DEF PayRows
<1>8. CASE FineCommit(h)
  <2>1. ~Free(h) /\ job[h].op = "fine"
    BY <1>8 DEF FineCommit, At
  <2>2. job[h].seen = balance[job[h].account]
    BY <1>4, <2>1 DEF FundsThere, Free
  <2>3. OverdrawnByFinesOnly'
    BY <1>2, <1>3, <1>4, <1>8, <2>1, <2>2 DEF FineCommit, OverdrawnByFinesOnly
  <2> QED
    BY <1>8, <2>3, FundsEnd DEF FineCommit
<1>9. CASE ApproveFunds(h)
  <2>1. ~Free(h) /\ job[h].op = "approve"
    BY <1>9 DEF ApproveFunds, At
  <2>2. CASE Sufficient(h)
    <3>1. PICK j \in Jobs, b \in Int : job[h] = j /\ balance[job[h].account] = b
      BY <1>3, <1>4, <2>1
    <3>2. PICK r : r = [j EXCEPT !.stage = "funds", !.seen = b]
      OBVIOUS
    <3>3. /\ r.op = "approve" /\ r.amount = j.amount /\ r.account = j.account
          /\ job' = [job EXCEPT ![h] = r]
      BY <1>9, <2>1, <2>2, <3>1, <3>2 DEF ApproveFunds, Jobs
    <3>4. r.amount <= balance[r.account]
      BY <1>3, <1>4, <2>1, <2>2, <3>1, <3>3 DEF Sufficient
    <3> QED
      BY <1>9, <3>3, <3>4, FundsStay DEF ApproveFunds, FundsThere
  <2>3. CASE ~Sufficient(h)
    BY <1>1, <1>9, <2>3 DEF ApproveFunds
  <2> QED
    BY <2>2, <2>3
<1>10. CASE RejectWrite(h) \/ TransferFails(h) \/ Crash(h)
  BY <1>1, <1>10 DEF RejectWrite, TransferFails, Crash, Throw
<1> QED
  BY <1>5, <1>6, <1>7, <1>8, <1>9, <1>10 DEF Work

LEMMA CoveredInit == PayoutInit => CoveredInv
BY PayoutInitInv, PayoutsAssumption
   DEF PayoutInit, CoveredInv, FundsThere, OverdrawnByFinesOnly

LEMMA CoveredStep ==
  ASSUME OneHandler, CoveredInv, [PayoutNext]_payoutVars
  PROVE  CoveredInv'
<1>1. CASE PayoutNext
  <2>1. OverdrawnByFinesOnly' /\ \A g \in Handler : FundsThere(job[g])'
    <3>1. CASE UNCHANGED <<balance, fined, job>>
      BY <3>1 DEF CoveredInv, FundsThere, OverdrawnByFinesOnly
    <3> QED
      BY <1>1, <3>1, CoveredCron, CoveredStart, CoveredWork
         DEF PayoutNext, Ripen, RequestWithdrawal, SetFrozen, wallet
  <2> QED
    BY <1>1, <2>1, PayoutStepInv DEF CoveredInv
<1>2. CASE UNCHANGED payoutVars
  BY <1>2, PayoutStepInv
     DEF CoveredInv, FundsThere, OverdrawnByFinesOnly, payoutVars, wallet
<1> QED
  BY <1>1, <1>2

(* When handlers run one at a time, whatever pending withdrawals, payouts  *)
(* and fines follow one another, only fines overdraw a balance: a request  *)
(* reserves nothing, and its approval looks at the balance again.          *)
THEOREM OnlyFinesOverdraw ==
  ASSUME OneHandler
  PROVE  PayoutSpec => []OverdrawnByFinesOnly
<1>1. CoveredInv /\ [PayoutNext]_payoutVars => CoveredInv'
  BY CoveredStep
<1>2. CoveredInv => OverdrawnByFinesOnly
  BY DEF CoveredInv
<1> QED
  BY <1>1, <1>2, CoveredInit, PTL DEF PayoutSpec

(* With fines as well: when handlers run one at a time, a fine subtracts    *)
(* from a balance nobody has changed since it was read, and loses nothing. *)
THEOREM UpdatesNeverLostSerially ==
  ASSUME OneHandler
  PROVE  PayoutSpec => []NoUpdateLost
<1>1. PayoutInit => CoveredInv /\ NoUpdateLost
  BY CoveredInit, PayoutsAssumption DEF PayoutInit, NoUpdateLost
<1>2. CoveredInv /\ NoUpdateLost /\ [PayoutNext]_payoutVars
        => (CoveredInv /\ NoUpdateLost)'
  <2>1. ASSUME CoveredInv, NoUpdateLost, PayoutNext PROVE NoUpdateLost'
    <3>1. \A h \in Handler : FineCommit(h) => job[h].seen = balance[job[h].account]
      BY <2>1 DEF FineCommit, At, Free, CoveredInv, FundsThere
    <3> QED
      BY <2>1, <3>1, BooksStep DEF CoveredInv
  <2>2. ASSUME NoUpdateLost, UNCHANGED payoutVars PROVE NoUpdateLost'
    BY <2>2 DEF NoUpdateLost, payoutVars, wallet
  <2> QED
    BY <2>1, <2>2, CoveredStep
<1> QED
  BY <1>1, <1>2, PTL DEF PayoutSpec

-----------------------------------------------------------------------------
(* The refinement of Wallet.  What a handler works on is still as it was   *)
(* when it was read: the escrow held, the request pending.                 *)

Current(r) ==
  r # Idle =>
    /\ r.op \in Releasing => /\ r.account = OwnerOf[r.item]
                             /\ r.amount = Share[r.item]
                             /\ r.stage # "due" => IsHeld(r.item)
    /\ r.op \in {"approve", "reject"} =>
         /\ request[r.item].status = "PENDING"
         /\ request[r.item].account = r.account
         /\ request[r.item].amount = r.amount
    /\ r.op = "payout" => r.amount \in Amount
    /\ r.op = "fine" => r.amount = Fine

AllCurrent == \A h \in Handler : Current(job[h])

CurrentInv == CoveredInv /\ AllCurrent

LEMMA OpKinds ==
  /\ Releasing = {"auto", "release", "verdict"}
  /\ Paying = {"approve", "payout"}
BY DEF Releasing, Paying

(* The only handler writes its own record and leaves the rows alone. *)
LEMMA CurrentMoves ==
  ASSUME OneHandler, CurrentInv, NEW h \in Handler, NEW r, job' = [job EXCEPT ![h] = r],
         UNCHANGED <<escrow, request>>, Current(r)
  PROVE  AllCurrent'
<1>1. \A g \in Handler : job'[g] = r
  BY OnlyJob DEF CurrentInv, CoveredInv
<1> QED
  BY <1>1 DEF AllCurrent, Current, IsHeld

LEMMA CurrentEnds ==
  ASSUME OneHandler, CurrentInv, NEW h \in Handler, Done(h)
  PROVE  AllCurrent'
<1>1. \A g \in Handler : job'[g] = Idle
  BY OnlyJob DEF Done, CurrentInv, CoveredInv
<1> QED
  BY <1>1 DEF AllCurrent, Current

LEMMA CurrentGoes ==
  ASSUME OneHandler, CurrentInv, NEW h \in Handler, NEW s, Goto(h, s), ~Free(h),
         UNCHANGED <<escrow, request>>,
         job[h].op \in Releasing /\ job[h].stage = "due" => IsHeld(job[h].item)
  PROVE  AllCurrent'
<1>1. PICK j \in Jobs : job[h] = j /\ Current(j)
  BY JobType DEF CurrentInv, CoveredInv, AllCurrent
<1>2. PICK r : r = [j EXCEPT !.stage = s]
  OBVIOUS
<1>3. /\ r.op = j.op /\ r.item = j.item /\ r.account = j.account /\ r.amount = j.amount
      /\ job' = [job EXCEPT ![h] = r]
  BY <1>1, <1>2 DEF Jobs, Goto
<1>4. Current(r)
  BY <1>1, <1>3 DEF Current, Free
<1> QED
  BY <1>3, <1>4, CurrentMoves

LEMMA CurrentBegins ==
  ASSUME OneHandler, CurrentInv, NEW h \in Handler,
         NEW s, NEW op, NEW x, NEW a, NEW n, NEW seen,
         Begin(h, s, op, x, a, n, seen), UNCHANGED <<escrow, request>>,
         op \in Releasing => a = OwnerOf[x] /\ n = Share[x] /\ (s # "due" => IsHeld(x)),
         op \in {"approve", "reject"} => /\ request[x].status = "PENDING"
                                         /\ request[x].account = a
                                         /\ request[x].amount = n,
         op = "payout" => n \in Amount,
         op = "fine" => n = Fine
  PROVE  AllCurrent'
<1>1. PICK r : r = [stage |-> s, op |-> op, item |-> x, account |-> a,
                    amount |-> n, seen |-> seen]
  OBVIOUS
<1>2. Current(r) /\ job' = [job EXCEPT ![h] = r]
  BY <1>1 DEF Current, Begin
<1> QED
  BY <1>2, CurrentMoves

(* Starting a handler writes no row; it finds what it works on as it is. *)
LEMMA CurrentStart ==
  ASSUME OneHandler, CurrentInv, NEW h \in Handler, Start(h)
  PROVE  AllCurrent' /\ UNCHANGED <<escrow, request, balance>>
<1> USE DEF wallet
<1>1. ASSUME NEW e \in Escrow, ReleaseFind(h, e) \/ VerdictFind(h, e)
      PROVE  AllCurrent' /\ UNCHANGED <<escrow, request, balance>>
  BY <1>1, CurrentBegins, OpKinds DEF ReleaseFind, VerdictFind
<1>2. ASSUME NEW q \in Request, NEW op \in {"approve", "reject"}, ProcessRead(h, op, q)
      PROVE  AllCurrent' /\ UNCHANGED <<escrow, request, balance>>
  <2>1. PICK a, n : a = request[q].account /\ n = request[q].amount
    OBVIOUS
  <2>2. Begin(h, "read", op, q, a, n, 0) /\ request[q].status = "PENDING"
    BY <1>2, <2>1 DEF ProcessRead
  <2> QED
    BY <1>2, <2>1, <2>2, CurrentBegins, OpKinds DEF ProcessRead
<1>3. ASSUME NEW a \in Account, NEW n \in Amount, PayoutRead(h, a, n)
      PROVE  AllCurrent' /\ UNCHANGED <<escrow, request, balance>>
  <2>1. PICK b : Begin(h, "funds", "payout", NoItem, a, n, b)
    BY <1>3 DEF PayoutRead
  <2> QED
    BY <1>3, <2>1, CurrentBegins, OpKinds DEF PayoutRead
<1>4. ASSUME NEW a \in Account, FineRead(h, a)
      PROVE  AllCurrent' /\ UNCHANGED <<escrow, request, balance>>
  <2>1. PICK b : Begin(h, "read", "fine", NoItem, a, Fine, b)
    BY <1>4 DEF FineRead
  <2> QED
    BY <1>4, <2>1, CurrentBegins, OpKinds DEF FineRead
<1> QED
  BY <1>1, <1>2, <1>3, <1>4 DEF Start

LEMMA CurrentCron ==
  ASSUME OneHandler, CurrentInv, CronStep
  PROVE  AllCurrent' /\ UNCHANGED <<escrow, request, balance>>
<1> USE DEF wallet
<1>1. Cron \in Handler
  BY PayoutsAssumption
<1>2. ASSUME UNCHANGED <<escrow, request, job>> PROVE AllCurrent'
  BY <1>2 DEF CurrentInv, AllCurrent, Current, IsHeld
<1>3. CASE CronList
  BY <1>2, <1>3 DEF CronList
<1>4. ASSUME NEW e \in Escrow, CronNext(e)
      PROVE  AllCurrent' /\ UNCHANGED <<escrow, request, balance>>
  <2>1. CASE e \in ripe
    BY <1>1, <1>4, <2>1, CurrentBegins, OpKinds DEF CronNext
  <2>2. CASE e \notin ripe
    BY <1>2, <1>4, <2>2 DEF CronNext
  <2> QED
    BY <2>1, <2>2
<1>5. CASE CronFind
  <2>1. ~Free(Cron) /\ UNCHANGED <<escrow, request, balance>>
    BY <1>5 DEF CronFind, At
  <2>2. CASE IsHeld(job[Cron].item) /\ Goto(Cron, "read")
    BY <1>1, <2>1, <2>2, CurrentGoes
  <2>3. CASE Done(Cron)
    BY <1>1, <2>1, <2>3, CurrentEnds
  <2> QED
    BY <1>5, <2>1, <2>2, <2>3 DEF CronFind, Throw
<1> QED
  BY <1>3, <1>4, <1>5 DEF CronStep, CronLoop

(* The commit of a handler is the step of Wallet for what it works on.     *)
LEMMA CommitKeepsTheWallet ==
  ASSUME OneHandler, CurrentInv, NEW h \in Handler,
         ReleaseCommit(h) \/ PayCommit(h) \/ BankCommit(h) \/ RejectWrite(h) \/ FineCommit(h)
  PROVE  AllCurrent' /\ Purse!WalletNext
<1>1. ~Free(h)
  BY DEF ReleaseCommit, PayCommit, BankCommit, RejectWrite, FineCommit, At
<1>2. /\ job[h] \in Jobs /\ JobAgrees(job[h]) /\ Current(job[h]) /\ FundsThere(job[h])
      /\ job[h] # Idle /\ job[h].account \in Account /\ job[h].amount \in Nat
  BY <1>1, JobType DEF CurrentInv, CoveredInv, AllCurrent, Free
<1>3. AllCurrent'
  BY CurrentEnds DEF ReleaseCommit, PayCommit, BankCommit, PayRows, RejectWrite, FineCommit
<1> DEFINE x == job[h].item
           a == job[h].account
           n == job[h].amount
<1>4. CASE ReleaseCommit(h)
  <2>1. job[h].op \in Releasing /\ job[h].stage = "sent"
    BY <1>4 DEF ReleaseCommit, At
  <2>2. x \in Escrow /\ a = OwnerOf[x] /\ n = Share[x] /\ escrow[x] = "HELD"
    BY <1>2, <2>1 DEF JobAgrees, Current, IsHeld
  <2>3. Purse!Credit(x)
    BY <1>4, <2>2 DEF ReleaseCommit, Released, Purse!Credit
  <2> QED
    BY <1>3, <2>2, <2>3 DEF Purse!WalletNext
<1>5. CASE PayCommit(h) \/ BankCommit(h)
  <2>1. /\ job[h].op \in Paying /\ job[h].stage \in {"funds", "sent"} /\ PayRows(h)
        /\ n <= balance[a]
    BY <1>2, <1>5 DEF PayCommit, BankCommit, At, FundsThere
  <2>2. balance' = [balance EXCEPT ![a] = @ - n] /\ UNCHANGED escrow
    BY <1>2, <2>1 DEF PayRows, Debited
  <2>3. CASE job[h].op = "approve"
    <3>1. /\ x \in Request /\ request[x].status = "PENDING"
          /\ request[x].account = a /\ request[x].amount = n
      BY <1>2, <2>3 DEF JobAgrees, Current
    <3>2. request' = [request EXCEPT ![x].status = "COMPLETED"]
      <4>1. request = [q \in Request |-> request[q]]
        BY DEF CurrentInv, CoveredInv, PayoutInv, PayoutTypeOK
      <4>2. request' = [q \in Request |->
                         IF q = x THEN [request[q] EXCEPT !.status = "COMPLETED"]
                         ELSE request[q]]
        BY <2>1 DEF PayRows
      <4> QED
        BY <3>1, <4>1, <4>2
    <3>3. Purse!Withdraw(x)
      BY <2>1, <2>2, <3>1, <3>2 DEF Purse!Withdraw
    <3> QED
      BY <1>3, <3>1, <3>3 DEF Purse!WalletNext
  <2>4. CASE job[h].op = "payout"
    <3>1. x = NoItem /\ n \in Amount
      BY <1>2, <2>4 DEF JobAgrees, Current
    <3>2. request' = request
      <4>1. request = [q \in Request |-> request[q]] /\ x \notin Request
        BY <3>1, PayoutsAssumption DEF CurrentInv, CoveredInv, PayoutInv, PayoutTypeOK, Item
      <4> QED
        BY <2>1, <4>1 DEF PayRows
    <3>3. Purse!PayOut(a, n)
      BY <2>1, <2>2, <3>2 DEF Purse!PayOut
    <3> QED
      BY <1>2, <1>3, <3>1, <3>3 DEF Purse!WalletNext
  <2> QED
    BY <2>1, <2>3, <2>4, OpKinds
<1>6. CASE RejectWrite(h)
  <2>1. x \in Request /\ request[x].status = "PENDING"
    BY <1>2, <1>6 DEF RejectWrite, At, JobAgrees, Current
  <2>2. Purse!Refuse(x)
    BY <1>6, <2>1 DEF RejectWrite, Purse!Refuse, wallet
  <2> QED
    BY <1>3, <2>1, <2>2 DEF Purse!WalletNext
<1>7. CASE FineCommit(h)
  <2>1. job[h].seen = balance[a] /\ n = Fine
    BY <1>2, <1>7 DEF FineCommit, At, FundsThere, Current
  <2>2. Purse!TakeFine(a)
    BY <1>7, <2>1 DEF FineCommit, Purse!TakeFine
  <2> QED
    BY <1>2, <1>3, <2>2 DEF Purse!WalletNext
<1> QED
  BY <1>4, <1>5, <1>6, <1>7

(* The other steps of a handler write no row. *)
LEMMA CurrentWork ==
  ASSUME OneHandler, CurrentInv, NEW h \in Handler,
         Transfer(h) \/ ApproveFunds(h) \/ TransferFails(h) \/ Crash(h)
  PROVE  AllCurrent' /\ UNCHANGED <<escrow, request, balance>>
<1> USE DEF wallet
<1>1. CASE Transfer(h)
  <2>1. ~Free(h) /\ job[h].stage # "due"
    BY <1>1 DEF Transfer, TransferNext, At
  <2> QED
    BY <1>1, <2>1, CurrentGoes DEF Transfer
<1>2. CASE ApproveFunds(h) /\ Sufficient(h)
  <2>1. PICK j \in Jobs : job[h] = j /\ Current(j) /\ j.op = "approve" /\ j # Idle
    BY <1>2, JobType DEF CurrentInv, CoveredInv, AllCurrent, ApproveFunds, At, Free
  <2>2. PICK b : b = balance[job[h].account]
    OBVIOUS
  <2>3. PICK r : r = [j EXCEPT !.stage = "funds", !.seen = b]
    OBVIOUS
  <2>4. /\ r.op = j.op /\ r.item = j.item /\ r.account = j.account
        /\ r.amount = j.amount /\ job' = [job EXCEPT ![h] = r]
    BY <1>2, <2>1, <2>2, <2>3 DEF Jobs, ApproveFunds
  <2>5. Current(r)
    BY <2>1, <2>4, OpKinds DEF Current
  <2> QED
    BY <1>2, <2>4, <2>5, CurrentMoves DEF ApproveFunds
<1>3. CASE \/ ApproveFunds(h) /\ ~Sufficient(h)
           \/ TransferFails(h) \/ Crash(h)
  BY <1>3, CurrentEnds DEF ApproveFunds, TransferFails, Crash, Throw
<1> QED
  BY <1>1, <1>2, <1>3

(* So do the users who ask, the orders that ripen and the freezes, but for *)
(* the request that is new.                                                *)
LEMMA CurrentOutside ==
  ASSUME OneHandler, CurrentInv,
         \/ \E e \in Escrow : Ripen(e)
         \/ \E r \in Request, a \in Account, n \in Amount : RequestWithdrawal(r, a, n)
         \/ \E a \in Account : SetFrozen(a)
  PROVE  AllCurrent' /\ [Purse!WalletNext]_(Purse!walletVars)
<1> USE DEF wallet
<1>1. CASE UNCHANGED <<escrow, request, balance, job>>
  BY <1>1 DEF CurrentInv, AllCurrent, Current, IsHeld, Purse!walletVars
<1>2. ASSUME NEW r \in Request, NEW a \in Account, NEW n \in Amount,
             RequestWithdrawal(r, a, n)
      PROVE  AllCurrent' /\ Purse!WalletNext
  <2>1. n <= balance[a]
    BY <1>2, PayoutsAssumption
       DEF RequestWithdrawal, CurrentInv, CoveredInv, PayoutInv, PayoutTypeOK
  <2>2. Purse!Ask(r, a, n)
    BY <1>2, <2>1 DEF RequestWithdrawal, Purse!Ask
  <2>3. Purse!WalletNext
    BY <2>2 DEF Purse!WalletNext
  <2>4. \A q \in Request : q # r => request'[q] = request[q]
    BY <1>2 DEF RequestWithdrawal, CurrentInv, CoveredInv, PayoutInv, PayoutTypeOK
  <2>5. request[r].status # "PENDING" /\ UNCHANGED <<escrow, job>>
    BY <1>2 DEF RequestWithdrawal, NoRequest
  <2>6. ASSUME NEW g \in Handler PROVE Current(job[g])'
    <3>1. JobAgrees(job[g]) /\ Current(job[g]) /\ job'[g] = job[g]
      BY <2>5 DEF CurrentInv, CoveredInv, PayoutInv, JobsAgree, AllCurrent
    <3> QED
      BY <2>4, <2>5, <3>1 DEF Current, JobAgrees, IsHeld
  <2> QED
    BY <2>3, <2>6 DEF AllCurrent
<1>3. ASSUME NEW e \in Escrow, Ripen(e) PROVE UNCHANGED <<escrow, request, balance, job>>
  BY <1>3 DEF Ripen
<1>4. ASSUME NEW a \in Account, SetFrozen(a)
      PROVE  UNCHANGED <<escrow, request, balance, job>>
  BY <1>4 DEF SetFrozen
<1> QED
  BY <1>1, <1>2, <1>3, <1>4

LEMMA WalletStep ==
  ASSUME OneHandler, CurrentInv, [PayoutNext]_payoutVars
  PROVE  CurrentInv' /\ [Purse!WalletNext]_(Purse!walletVars)
<1>1. CoveredInv'
  BY CoveredStep DEF CurrentInv
<1>2. CASE PayoutNext
  <2>1. UNCHANGED <<escrow, request, balance>> => UNCHANGED Purse!walletVars
    BY DEF Purse!walletVars
  <2>2. AllCurrent' /\ [Purse!WalletNext]_(Purse!walletVars)
    BY <1>2, <2>1, CurrentOutside, CurrentCron, CurrentStart, CurrentWork,
       CommitKeepsTheWallet DEF PayoutNext, Work
  <2> QED
    BY <1>1, <2>2 DEF CurrentInv
<1>3. CASE UNCHANGED payoutVars
  BY <1>1, <1>3 DEF payoutVars, wallet, CurrentInv, AllCurrent, Current, IsHeld,
                    Purse!walletVars
<1> QED
  BY <1>2, <1>3

(* One handler at a time, which may fail and die: every write of a balance *)
(* is the credit of an escrow that was held, the payment of a request that *)
(* was pending, a payout that is covered, or a fine.                       *)
THEOREM WalletAlwaysKept ==
  ASSUME OneHandler
  PROVE  PayoutSpec => KeepsTheWallet
<1>1. PayoutInit => CurrentInv /\ Purse!WalletInit
  <2>1. PayoutInit => CoveredInv
    BY CoveredInit
  <2>2. PayoutInit => AllCurrent /\ Purse!WalletInit
    BY DEF PayoutInit, AllCurrent, Current, Purse!WalletInit
  <2> QED
    BY <2>1, <2>2 DEF CurrentInv
<1>2. CurrentInv /\ [PayoutNext]_payoutVars =>
        CurrentInv' /\ [Purse!WalletNext]_(Purse!walletVars)
  BY WalletStep
<1> QED
  BY <1>1, <1>2, PTL DEF PayoutSpec, KeepsTheWallet, Purse!WalletSpec

-----------------------------------------------------------------------------
(* What was transferred was recorded, or the handler that transferred it   *)
(* is about to record it; what was not even sent shows no transfer.        *)

Sending(r, x) == r # Idle /\ r.stage = "sent" /\ r.item = x
Unsent(r) ==
  r # Idle /\ r.stage \in {"read", "funds"} /\ r.item \in Item => transfers[r.item] = 0

Settled(x) ==
  \/ transfers[x] = 0
  \/ x \in Escrow /\ escrow[x] = "RELEASED"
  \/ x \in Request /\ request[x].status = "COMPLETED"

Accounted ==
  /\ \A x \in Item : transfers[x] <= 1
  /\ \A x \in Item : Settled(x) \/ \E h \in Handler : Sending(job[h], x)
  /\ \A h \in Handler : Unsent(job[h])

OnceInv == PayoutInv /\ Accounted

LEMMA OnceGives == OnceInv => TransferredOnce
<1> SUFFICES ASSUME OnceInv, NEW e \in Escrow, transfers[e] = 1,
                    ~\E h \in Handler : ~Free(h) /\ job[h].item = e
             PROVE  escrow[e] = "RELEASED"
  BY DEF OnceInv, Accounted, TransferredOnce
<1>1. e \in Item /\ e \notin Request
  BY PayoutsAssumption DEF Item
<1> QED
  BY <1>1 DEF OnceInv, Accounted, Settled, Sending, Free

(* A step of the only handler that sends nothing and settles nothing else. *)
LEMMA OnceMoves ==
  ASSUME OneHandler, OnceInv, NEW h \in Handler, NEW r, job' = [job EXCEPT ![h] = r],
         UNCHANGED transfers, Unsent(r),
         \A x \in Item : Settled(x) \/ Sending(job[h], x) => Settled(x)' \/ Sending(r, x)
  PROVE  Accounted'
<1>1. \A g \in Handler : job'[g] = r
  BY OnlyJob DEF OnceInv
<1>2. \A g \in Handler : job[g] = job[h]
  BY DEF OneHandler
<1>3. \A g \in Handler : Unsent(job[g])'
  BY <1>1 DEF Unsent
<1>4. ASSUME NEW x \in Item
      PROVE  Settled(x)' \/ \E g \in Handler : Sending(job[g], x)'
  <2>1. Settled(x) \/ Sending(job[h], x)
    BY <1>2 DEF OnceInv, Accounted
  <2>2. Settled(x)' \/ Sending(r, x)
    BY <2>1
  <2> QED
    BY <1>1, <2>2 DEF Sending
<1> QED
  BY <1>3, <1>4 DEF OnceInv, Accounted

LEMMA SettledStays ==
  ASSUME NEW x, Settled(x), UNCHANGED <<escrow, request, transfers>>
  PROVE  Settled(x)'
BY DEF Settled

(* A handler that does not send yet.                                       *)
LEMMA OnceGoes ==
  ASSUME OneHandler, OnceInv, NEW h \in Handler, NEW r, job' = [job EXCEPT ![h] = r],
         UNCHANGED <<escrow, request, transfers>>, Unsent(r),
         job[h] = Idle \/ job[h].stage # "sent"
  PROVE  Accounted'
<1>1. \A x : ~Sending(job[h], x)
  BY DEF Sending
<1> QED
  BY <1>1, OnceMoves, SettledStays

(* With the only handler free or not past its transfer, what is not        *)
(* settled was not transferred.                                            *)
LEMMA NotSentYet ==
  ASSUME OneHandler, OnceInv, NEW h \in Handler, job[h] = Idle \/ job[h].stage # "sent",
         NEW x \in Item,
         (x \in Escrow /\ IsHeld(x)) \/ (x \in Request /\ request[x].status = "PENDING")
  PROVE  transfers[x] = 0
<1>1. \A g \in Handler : ~Sending(job[g], x)
  BY DEF OneHandler, Sending
<1>2. Settled(x)
  BY <1>1 DEF OnceInv, Accounted
<1> QED
  BY <1>2, PayoutsAssumption DEF Settled, IsHeld

LEMMA OnceStarts ==
  ASSUME OneHandler, OnceInv, NEW h \in Handler, Free(h),
         NEW s, NEW op, NEW x, NEW a, NEW n, NEW seen,
         Begin(h, s, op, x, a, n, seen), UNCHANGED <<escrow, request, transfers>>,
         s = "due" \/ s = "sent" \/ x \notin Item \/ transfers[x] = 0
  PROVE  Accounted'
<1>1. PICK r : r = [stage |-> s, op |-> op, item |-> x, account |-> a,
                    amount |-> n, seen |-> seen]
  OBVIOUS
<1>2. Unsent(r) /\ job' = [job EXCEPT ![h] = r] /\ job[h] = Idle
  BY <1>1 DEF Unsent, Begin, Free
<1> QED
  BY <1>2, OnceGoes

LEMMA OnceStart ==
  ASSUME OneHandler, OnceInv, NEW h \in Handler, Start(h)
  PROVE  Accounted'
<1>1. ASSUME NEW e \in Escrow, ReleaseFind(h, e) \/ VerdictFind(h, e)
      PROVE  Accounted'
  <2>1. e \in Item /\ Free(h) /\ IsHeld(e)
    BY <1>1 DEF Item, ReleaseFind, VerdictFind
  <2>2. transfers[e] = 0
    BY <2>1, NotSentYet DEF Free
  <2> QED
    BY <1>1, <2>1, <2>2, OnceStarts DEF ReleaseFind, VerdictFind
<1>2. ASSUME NEW q \in Request, NEW op, ProcessRead(h, op, q)
      PROVE  Accounted'
  <2>1. q \in Item /\ Free(h) /\ request[q].status = "PENDING"
    BY <1>2 DEF Item, ProcessRead
  <2>2. transfers[q] = 0
    BY <2>1, NotSentYet DEF Free
  <2>3. PICK a, n : Begin(h, "read", op, q, a, n, 0)
    BY <1>2 DEF ProcessRead
  <2> QED
    BY <1>2, <2>1, <2>2, <2>3, OnceStarts DEF ProcessRead
<1>3. ASSUME NEW a \in Account, NEW n \in Amount, PayoutRead(h, a, n)
      PROVE  Accounted'
  <2>1. PICK b : Begin(h, "funds", "payout", NoItem, a, n, b)
    BY <1>3 DEF PayoutRead
  <2>2. NoItem \notin Item
    BY PayoutsAssumption
  <2> QED
    BY <1>3, <2>1, <2>2, OnceStarts DEF PayoutRead
<1>4. ASSUME NEW a \in Account, FineRead(h, a)
      PROVE  Accounted'
  <2>1. PICK b : Begin(h, "read", "fine", NoItem, a, Fine, b)
    BY <1>4 DEF FineRead
  <2>2. NoItem \notin Item
    BY PayoutsAssumption
  <2> QED
    BY <1>4, <2>1, <2>2, OnceStarts DEF FineRead
<1> QED
  BY <1>1, <1>2, <1>3, <1>4 DEF Start

LEMMA OnceCron ==
  ASSUME OneHandler, OnceInv, CronStep
  PROVE  Accounted'
<1>1. Cron \in Handler
  BY PayoutsAssumption
<1>2. ASSUME UNCHANGED <<escrow, request, transfers, job>> PROVE Accounted'
  BY <1>2 DEF OnceInv, Accounted, Settled, Unsent, Sending
<1>3. ASSUME NEW e \in Escrow, CronNext(e) PROVE Accounted'
  <2>1. CASE e \in ripe
    BY <1>1, <1>3, <2>1, OnceStarts DEF CronNext
  <2>2. CASE e \notin ripe
    BY <1>2, <1>3, <2>2 DEF CronNext
  <2> QED
    BY <2>1, <2>2
<1>4. CASE CronFind
  <2>1. /\ ~Free(Cron) /\ job[Cron].op = "auto" /\ job[Cron].stage = "due"
        /\ UNCHANGED <<escrow, request, transfers>>
    BY <1>4 DEF CronFind, At
  <2>2. CASE Done(Cron)
    BY <1>1, <2>1, <2>2, OnceGoes DEF Done, Unsent
  <2>3. CASE Goto(Cron, "read") /\ IsHeld(job[Cron].item)
    <3>1. PICK j \in Jobs : job[Cron] = j
      BY <1>1, <2>1, JobType DEF OnceInv
    <3>2. j.item \in Escrow /\ j.item \in Item
      BY <1>1, <2>1, <3>1, JobType DEF OnceInv, JobAgrees, Free, Releasing, Item
    <3>3. transfers[j.item] = 0
      BY <1>1, <2>1, <2>3, <3>1, <3>2, NotSentYet
    <3>4. PICK r : r = [j EXCEPT !.stage = "read"]
      OBVIOUS
    <3>5. r.item = j.item /\ job' = [job EXCEPT ![Cron] = r]
      BY <2>3, <3>1, <3>4 DEF Jobs, Goto
    <3>6. Unsent(r)
      BY <3>3, <3>5 DEF Unsent
    <3> QED
      BY <1>1, <2>1, <3>5, <3>6, OnceGoes
  <2> QED
    BY <1>4, <2>2, <2>3 DEF CronFind, Throw
<1> QED
  BY <1>2, <1>3, <1>4 DEF CronStep, CronLoop, CronList

LEMMA OnceTransfer ==
  ASSUME OneHandler, OnceInv, NEW h \in Handler, Transfer(h)
  PROVE  Accounted'
<1>1. ~Free(h) /\ job[h].stage \in {"read", "funds"}
  BY DEF Transfer, TransferNext, At
<1>2. PICK j \in Jobs : job[h] = j
  BY <1>1, JobType DEF OnceInv
<1>3. PICK r : r = [j EXCEPT !.stage = "sent"]
  OBVIOUS
<1>4. r.stage = "sent" /\ r.item = j.item /\ r \in Jobs /\ job' = [job EXCEPT ![h] = r]
  BY <1>2, <1>3 DEF Transfer, Goto, Jobs
<1>5. r # Idle
  BY <1>4 DEF Idle
<1>6. \A g \in Handler : job'[g] = r
  BY <1>4, OnlyJob DEF OnceInv
<1>7. j.item \in Item => transfers[j.item] = 0
  BY <1>1, <1>2 DEF OnceInv, Accounted, Unsent, Free
<1>8. \A x \in Item : transfers'[x] = IF x = j.item THEN Counted(transfers[x])
                                              ELSE transfers[x]
  BY <1>2 DEF Transfer, OnceInv, PayoutInv, PayoutTypeOK
<1>9. \A x \in Item : transfers'[x] <= 1
  BY <1>7, <1>8, PayoutsAssumption DEF Counted, OnceInv, Accounted
<1>10. \A g \in Handler : Unsent(job[g])'
  BY <1>4, <1>6 DEF Unsent
<1>11. ASSUME NEW x \in Item
       PROVE  Settled(x)' \/ \E g \in Handler : Sending(job[g], x)'
  <2>1. CASE x = j.item
    BY <1>4, <1>5, <1>6, <2>1 DEF Sending
  <2>2. CASE x # j.item
    <3>1. \A g \in Handler : ~Sending(job[g], x)
      BY <1>1 DEF OneHandler, Sending
    <3>2. Settled(x)
      BY <3>1 DEF OnceInv, Accounted
    <3> QED
      BY <1>8, <2>2, <3>2 DEF Settled, Transfer
  <2> QED
    BY <2>1, <2>2
<1> QED
  BY <1>9, <1>10, <1>11 DEF Accounted

(* The end of a handler settles what it was sending. *)
LEMMA OnceEnds ==
  ASSUME OneHandler, OnceInv, NEW h \in Handler, Done(h), UNCHANGED transfers,
         \A x \in Item : Settled(x) \/ Sending(job[h], x) => Settled(x)'
  PROVE  Accounted'
<1>1. PICK r : r = Idle
  OBVIOUS
<1>2. Unsent(r) /\ job' = [job EXCEPT ![h] = r]
  BY <1>1 DEF Unsent, Done
<1> QED
  BY <1>2, OnceMoves

LEMMA OnceWork ==
  ASSUME OneHandler, OnceInv, NEW h \in Handler, Work(h)
  PROVE  Accounted'
<1>1. CASE ReleaseCommit(h)
  <2>1. ~Free(h) /\ job[h].op \in Releasing
    BY <1>1 DEF ReleaseCommit, At
  <2>2. job[h].item \in Escrow
    BY <2>1, JobType DEF OnceInv, JobAgrees, Free
  <2>3. escrow' = [escrow EXCEPT ![job[h].item] = "RELEASED"]
        /\ UNCHANGED <<request, transfers>> /\ Done(h)
    BY <1>1 DEF ReleaseCommit, Released
  <2>4. ASSUME NEW x \in Item, Settled(x) \/ Sending(job[h], x) PROVE Settled(x)'
    BY <2>2, <2>3, <2>4 DEF Settled, Sending, OnceInv, PayoutInv, PayoutTypeOK
  <2> QED
    BY <2>3, <2>4, OnceEnds
<1>2. CASE PayCommit(h) \/ BankCommit(h)
  <2>1. ~Free(h) /\ job[h].op \in Paying /\ PayRows(h)
    BY <1>2 DEF PayCommit, BankCommit, At
  <2>2. job[h].item \in Request \/ job[h].item = NoItem
    BY <2>1, JobType DEF OnceInv, JobAgrees, Free, Paying
  <2>3. UNCHANGED <<escrow, transfers>> /\ Done(h)
    BY <2>1 DEF PayRows
  <2>4. ASSUME NEW q \in Request, request[q].status = "COMPLETED" \/ job[h].item = q
        PROVE  request'[q].status = "COMPLETED"
    <3>1. request'[q] = IF q = job[h].item THEN [request[q] EXCEPT !.status = "COMPLETED"]
                        ELSE request[q]
      BY <2>1 DEF PayRows
    <3>2. request[q] \in {NoRequest} \cup [status : {"PENDING", "COMPLETED", "REJECTED"},
                                            account : Account, amount : Nat]
      BY DEF OnceInv, PayoutInv, PayoutTypeOK
    <3> QED
      BY <2>4, <3>1, <3>2 DEF NoRequest
  <2>5. ASSUME NEW x \in Item, Settled(x) \/ Sending(job[h], x) PROVE Settled(x)'
    BY <2>2, <2>3, <2>4, <2>5, PayoutsAssumption DEF Settled, Sending, Item
  <2> QED
    BY <2>3, <2>5, OnceEnds
<1>3. CASE RejectWrite(h)
  <2>1. /\ ~Free(h) /\ job[h].op = "reject" /\ job[h].stage = "read"
        /\ request' = [request EXCEPT ![job[h].item].status = "REJECTED"]
        /\ UNCHANGED <<escrow, transfers>> /\ Done(h)
    BY <1>3 DEF RejectWrite, At
  <2>2. job[h].item \in Request /\ job[h].item \in Item
    BY <2>1, JobType DEF OnceInv, JobAgrees, Free, Item
  <2>3. transfers[job[h].item] = 0
    BY <2>1, <2>2 DEF OnceInv, Accounted, Unsent, Free
  <2>4. ASSUME NEW x \in Item, Settled(x) \/ Sending(job[h], x) PROVE Settled(x)'
    BY <2>1, <2>2, <2>3, <2>4 DEF Settled, Sending, OnceInv, PayoutInv, PayoutTypeOK
  <2> QED
    BY <2>1, <2>4, OnceEnds
<1>4. CASE FineCommit(h)
  <2>1. /\ ~Free(h) /\ job[h].stage = "read"
        /\ UNCHANGED <<escrow, request, transfers>> /\ Done(h)
    BY <1>4 DEF FineCommit, At
  <2> QED
    BY <2>1, OnceGoes DEF Done, Unsent
<1>5. CASE ApproveFunds(h)
  <2>1. /\ ~Free(h) /\ job[h].op = "approve" /\ job[h].stage = "read"
        /\ UNCHANGED <<escrow, request, transfers>>
    BY <1>5 DEF ApproveFunds, At
  <2>2. CASE Sufficient(h)
    <3>1. PICK j \in Jobs : job[h] = j
      BY <2>1, JobType DEF OnceInv
    <3>2. PICK b : b = balance[job[h].account]
      OBVIOUS
    <3>3. PICK r : r = [j EXCEPT !.stage = "funds", !.seen = b]
      OBVIOUS
    <3>4. r.item = j.item /\ job' = [job EXCEPT ![h] = r]
      BY <1>5, <2>2, <3>1, <3>2, <3>3 DEF ApproveFunds, Jobs
    <3>5. Unsent(r)
      BY <2>1, <3>1, <3>4 DEF OnceInv, Accounted, Unsent, Free
    <3> QED
      BY <2>1, <3>4, <3>5, OnceGoes
  <2>3. CASE ~Sufficient(h)
    BY <1>5, <2>1, <2>3, OnceGoes DEF ApproveFunds, Done, Unsent
  <2> QED
    BY <2>2, <2>3
<1> QED
  BY <1>1, <1>2, <1>3, <1>4, <1>5, OnceTransfer DEF Work

LEMMA OnceOutside ==
  ASSUME OneHandler, OnceInv,
         \/ \E e \in Escrow : Ripen(e)
         \/ \E r \in Request, a \in Account, n \in Amount : RequestWithdrawal(r, a, n)
         \/ \E a \in Account : SetFrozen(a)
         \/ UNCHANGED payoutVars
  PROVE  Accounted'
<1>1. ASSUME UNCHANGED <<escrow, request, transfers, job>> PROVE Accounted'
  BY <1>1 DEF OnceInv, Accounted, Settled, Unsent, Sending
<1>2. ASSUME NEW r \in Request, NEW a \in Account, NEW n \in Amount,
             RequestWithdrawal(r, a, n)
      PROVE  Accounted'
  <2>1. /\ request[r] = NoRequest /\ \A q \in Request : q # r => request'[q] = request[q]
        /\ UNCHANGED <<escrow, transfers, job>>
    BY <1>2 DEF RequestWithdrawal, OnceInv, PayoutInv, PayoutTypeOK
  <2>2. request[r].status # "COMPLETED"
    BY <2>1 DEF NoRequest
  <2>3. ASSUME NEW x \in Item, Settled(x) PROVE Settled(x)'
    BY <2>1, <2>2, <2>3 DEF Settled
  <2> QED
    BY <2>1, <2>3 DEF OnceInv, Accounted, Unsent, Sending
<1> QED
  BY <1>1, <1>2 DEF Ripen, SetFrozen, payoutVars

(* When handlers run one at a time, and none dies or is refused by Stripe, *)
(* neither the hourly job nor an administrator transfers an escrow or a    *)
(* withdrawal a second time, and a transferred escrow is on record as      *)
(* released once its handler has ended.                                    *)
THEOREM TransfersAlwaysOnce ==
  ASSUME OneHandler, "fail" \notin Ops, "crash" \notin Ops
  PROVE  PayoutSpec => []TransferredOnce
<1>1. PayoutInit => OnceInv
  BY PayoutInitInv DEF PayoutInit, OnceInv, Accounted, Settled, Unsent, Item
<1>2. OnceInv /\ [PayoutNext]_payoutVars => OnceInv'
  <2> SUFFICES ASSUME OnceInv, [PayoutNext]_payoutVars PROVE OnceInv'
    OBVIOUS
  <2>1. Accounted'
    BY OnceOutside, OnceCron, OnceStart, OnceWork DEF PayoutNext
  <2> QED
    BY <2>1, PayoutStepInv DEF OnceInv
<1> QED
  BY <1>1, <1>2, OnceGives, PTL DEF PayoutSpec
=============================================================================
