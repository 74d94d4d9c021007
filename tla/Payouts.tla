------------------------------- MODULE Payouts ------------------------------
(***************************************************************************)
(* Money leaving the platform: the release of escrows by the hourly job,   *)
(* by an administrator or by a verdict, withdrawal requests and their      *)
(* processing, manual payouts, and the fines taken from the same balances. *)
(*                                                                         *)
(* An account is the wallet of a store (Store.balance) or of a customer    *)
(* (User.customerBalance); the handlers treat the two alike.  A handler is *)
(* a record in job[h].  Its database transaction runs at READ COMMITTED:   *)
(* what it reads is not locked, the row it has updated is locked until it  *)
(* ends, and its writes appear when it ends.  Only the transactions that   *)
(* call Stripe after their first update hold that lock for longer than a   *)
(* step.  A transfer at Stripe stays when the transaction is rolled back.  *)
(*                                                                         *)
(* The share of the platform, shipping and the amounts below a whole unit  *)
(* are left out, and so are the rows of the wallet log: a payment and a    *)
(* shipping payment write rows that change no balance, and the release     *)
(* writes a second row for its escrow, so the rows do not add up to it.    *)
(***************************************************************************)
EXTENDS Integers

CONSTANTS
  Escrow,      \* the EscrowTransactions, one per order
  Request,     \* the WithdrawalRequests that can be made
  Account,
  Customers,   \* the accounts that are customer wallets
  OwnerOf,     \* [Escrow -> Account], the store of an escrow
  Share,       \* [Escrow -> Nat], EscrowTransaction.merchantAmount
  Opening,     \* [Account -> Nat], the balance before anything below
  Owed,        \* [Account -> Nat], pendingBalance before anything below
  Connected,   \* the accounts with a stripeAccountId
  Amount,      \* the amounts users and administrators ask for
  Fine,        \* the fine of a violation
  NoItem,
  Handler,     \* requests and jobs that can be in flight at once
  Cron,        \* the handler that runs handleAutoRelease
  Rank,        \* [Escrow -> Nat], the order in which findMany returns them
  Ops,         \* the operations this instance offers
  MaxTransfers, \* how far the transfers of one item are counted
  MaxDebit     \* bound on the manual payouts and fines of an account

Item == Escrow \cup Request

ASSUME PayoutsAssumption ==
  /\ OwnerOf \in [Escrow -> Account]
  /\ Share \in [Escrow -> Nat]
  /\ Opening \in [Account -> Nat]
  /\ Owed \in [Account -> Nat]
  /\ Amount \subseteq Nat \ {0}
  /\ Fine \in Nat
  /\ NoItem \notin Item
  /\ Escrow \cap Request = {}
  /\ Cron \in Handler
  /\ Rank \in [Escrow -> Nat]
  /\ MaxTransfers \in Nat \ {0}
  /\ MaxDebit \in Nat

VARIABLES
  escrow,     \* EscrowTransaction.status
  ripe,       \* the escrows whose order has been COMPLETED for a day
  pending,    \* Store.pendingBalance
  balance,    \* Store.balance or User.customerBalance
  frozen,     \* the accounts with withdrawalsFrozen
  request,    \* the WithdrawalRequests
  earned,     \* history: what committed releases have added to an account
  paidOut,    \* history: what committed withdrawals and payouts have taken
  fined,      \* history: what committed violations have taken
  transfers,  \* how many transfers Stripe made for an escrow, a request or,
              \* under NoItem, for manual payouts, up to MaxTransfers
  todo,       \* the escrows handleAutoRelease has listed and not yet seen
  job         \* the handlers in flight

payoutVars == <<escrow, ripe, pending, balance, frozen, request, earned,
                paidOut, fined, transfers, todo, job>>
wallet == <<pending, balance, earned, paidOut, fined>>

NoRequest == [status |-> "NONE", account |-> NoItem, amount |-> 0]
Idle == [stage |-> "idle"]
Releasing == {"auto", "release", "verdict"}
Paying == {"approve", "payout"}
JobOps == Releasing \cup Paying \cup {"reject", "fine"}
Jobs == [stage : {"due", "read", "funds", "sent"}, op : JobOps,
         item : Item \cup {NoItem}, account : Account, amount : Nat, seen : Int]

PayoutTypeOK ==
  /\ escrow \in [Escrow -> {"HELD", "RELEASED"}]
  /\ ripe \subseteq Escrow
  /\ pending \in [Account -> Int]
  /\ balance \in [Account -> Int]
  /\ frozen \subseteq Account
  /\ request \in [Request -> {NoRequest} \cup
       [status : {"PENDING", "COMPLETED", "REJECTED"}, account : Account,
        amount : Nat]]
  /\ earned \in [Account -> Nat]
  /\ paidOut \in [Account -> Nat]
  /\ fined \in [Account -> Nat]
  /\ transfers \in [Item \cup {NoItem} -> 0..MaxTransfers]
  /\ todo \subseteq Escrow
  /\ job \in [Handler -> {Idle} \cup Jobs]

(* Every order has been paid, its escrow is held and its share stands in   *)
(* the pending balance; no withdrawal yet.  The history starts here.       *)
PayoutInit ==
  /\ escrow = [e \in Escrow |-> "HELD"]
  /\ ripe = {}
  /\ pending = Owed
  /\ balance = Opening
  /\ frozen = {}
  /\ request = [r \in Request |-> NoRequest]
  /\ earned = [a \in Account |-> 0]
  /\ paidOut = [a \in Account |-> 0]
  /\ fined = [a \in Account |-> 0]
  /\ transfers = [x \in Item \cup {NoItem} |-> 0]
  /\ todo = {}
  /\ job = [h \in Handler |-> Idle]

Free(h) == job[h] = Idle
At(h, op, stage) == ~Free(h) /\ job[h].op = op /\ job[h].stage = stage
Begin(h, stage, op, x, a, n, seen) ==
  job' = [job EXCEPT ![h] = [stage |-> stage, op |-> op, item |-> x,
                             account |-> a, amount |-> n, seen |-> seen]]
Goto(h, stage) == job' = [job EXCEPT ![h].stage = stage]
Done(h) == job' = [job EXCEPT ![h] = Idle]
(* An exception in releaseFunds ends the loop of the hourly job. *)
Throw(h) == Done(h) /\ todo' = IF job[h].op = "auto" THEN {} ELSE todo

(* The row of the account is locked by a transaction that is at Stripe. *)
Locked(a) == \E h \in Handler : /\ ~Free(h) /\ job[h].stage = "sent"
                                /\ job[h].op \in Paying /\ job[h].account = a

-----------------------------------------------------------------------------
(* Releasing an escrow: handleAutoRelease, releaseEscrowManually and the   *)
(* verdicts RELEASE_FUNDS and DENY.                                        *)

(* The order is COMPLETED and a day passes without another update.         *)
Ripen(e) ==
  /\ e \notin ripe
  /\ ripe' = ripe \cup {e}
  /\ UNCHANGED <<escrow, frozen, request, wallet, transfers, todo, job>>

IsHeld(e) == escrow[e] = "HELD"

(* Bug: findMany without its condition on the status. *)
HeldOrReleased == Escrow

Held == {e \in Escrow : IsHeld(e)}

CronList ==
  /\ Free(Cron) /\ todo = {}
  /\ Held # {}
  /\ todo' = Held
  /\ UNCHANGED <<escrow, ripe, frozen, request, wallet, transfers, job>>

(* The status of the order, read for each escrow of the list. *)
CronNext(e) ==
  /\ Free(Cron) /\ e \in todo
  /\ \A d \in todo : Rank[e] <= Rank[d]
  /\ todo' = todo \ {e}
  /\ IF e \in ripe
     THEN Begin(Cron, "due", "auto", e, OwnerOf[e], Share[e], 0)
     ELSE UNCHANGED job
  /\ UNCHANGED <<escrow, ripe, frozen, request, wallet, transfers>>

(* releaseFunds: the escrow must be held and its store connected. *)
CronFind ==
  LET e == job[Cron].item IN
  /\ At(Cron, "auto", "due")
  /\ IF IsHeld(e) /\ OwnerOf[e] \in Connected
     THEN Goto(Cron, "read") /\ UNCHANGED todo
     ELSE Throw(Cron)
  /\ UNCHANGED <<escrow, ripe, frozen, request, wallet, transfers>>

ReleaseFind(h, e) ==
  /\ Free(h)
  /\ IsHeld(e)
  /\ OwnerOf[e] \in Connected
  /\ Begin(h, "read", "release", e, OwnerOf[e], Share[e], 0)
  /\ UNCHANGED <<escrow, ripe, frozen, request, wallet, transfers, todo>>

(* A verdict releases the escrow in the database and transfers nothing. *)
VerdictFind(h, e) ==
  /\ Free(h)
  /\ IsHeld(e)
  /\ Begin(h, "sent", "verdict", e, OwnerOf[e], Share[e], 0)
  /\ UNCHANGED <<escrow, ripe, frozen, request, wallet, transfers, todo>>

-----------------------------------------------------------------------------
(* Withdrawals and payouts.                                                *)

(* A request reserves nothing, so what its check read may be stale as well. *)
RequestWithdrawal(r, a, n) ==
  /\ request[r] = NoRequest
  /\ a \notin frozen
  /\ balance[a] >= n
  /\ request' = [request EXCEPT ![r] = [status |-> "PENDING", account |-> a,
                                        amount |-> n]]
  /\ UNCHANGED <<escrow, ripe, frozen, wallet, transfers, todo, job>>

SetFrozen(a) ==
  /\ frozen' = IF a \in frozen THEN frozen \ {a} ELSE frozen \cup {a}
  /\ UNCHANGED <<escrow, ripe, request, wallet, transfers, todo, job>>

ProcessRead(h, op, r) ==
  /\ Free(h)
  /\ request[r].status = "PENDING"
  /\ Begin(h, "read", op, r, request[r].account, request[r].amount, 0)
  /\ UNCHANGED <<escrow, ripe, frozen, request, wallet, transfers, todo>>

RejectWrite(h) ==
  /\ At(h, "reject", "read")
  /\ request' = [request EXCEPT ![job[h].item].status = "REJECTED"]
  /\ Done(h)
  /\ UNCHANGED <<escrow, ripe, frozen, wallet, transfers, todo>>

(* Bug: the balance is not looked at again. *)
SufficientAlways(h) == TRUE

(* The balance as the transaction reads it. *)
Sufficient(h) == balance[job[h].account] >= job[h].amount

ApproveFunds(h) ==
  LET a == job[h].account IN
  /\ At(h, "approve", "read")
  /\ IF Sufficient(h)
     THEN job' = [job EXCEPT ![h].stage = "funds", ![h].seen = balance[a]]
     ELSE Done(h)
  /\ UNCHANGED <<escrow, ripe, frozen, request, wallet, transfers, todo>>

(* sendManualPayout checks the balance before its transaction begins. *)
PayoutRead(h, a, n) ==
  /\ Free(h)
  /\ paidOut[a] + n <= MaxDebit
  /\ balance[a] >= n
  /\ Begin(h, "funds", "payout", NoItem, a, n, balance[a])
  /\ UNCHANGED <<escrow, ripe, frozen, request, wallet, transfers, todo>>

-----------------------------------------------------------------------------
(* The transfer at Stripe: before the transaction of releaseFunds, inside  *)
(* the transaction of the others, after the row was decremented.           *)

Counted(n) == IF n < MaxTransfers THEN n + 1 ELSE n

TransferNext(h) ==
  \/ At(h, "auto", "read") \/ At(h, "release", "read")
  \/ /\ At(h, "approve", "funds") \/ At(h, "payout", "funds")
     /\ ~Locked(job[h].account)

(* Bug: the error of the transfer is caught, logged and forgotten. *)
TransferForgotten(h) ==
  /\ TransferNext(h)
  /\ Goto(h, "sent")
  /\ UNCHANGED <<escrow, ripe, frozen, request, wallet, transfers, todo>>

Transfer(h) ==
  LET x == job[h].item
      a == job[h].account IN
  /\ TransferNext(h)
  /\ a \in Connected
  /\ transfers' = [transfers EXCEPT ![x] = Counted(@)]
  /\ Goto(h, "sent")
  /\ UNCHANGED <<escrow, ripe, frozen, request, wallet, todo>>

(* Stripe refuses, or there is no account to transfer to. *)
TransferFails(h) ==
  /\ TransferNext(h)
  /\ Throw(h)
  /\ UNCHANGED <<escrow, ripe, frozen, request, wallet, transfers>>

(* Bug: the escrow is not looked up by status, and stays as it is. *)
ReleasedStays(e) == escrow

Released(e) == [escrow EXCEPT ![e] = "RELEASED"]

(* The transaction of a release; the escrow is updated by id only. *)
ReleaseCommit(h) ==
  LET e == job[h].item
      a == job[h].account
      n == job[h].amount IN
  /\ \E op \in Releasing : At(h, op, "sent")
  /\ ~Locked(a)
  /\ escrow' = Released(e)
  /\ pending' = [pending EXCEPT ![a] = @ - n]
  /\ balance' = [balance EXCEPT ![a] = @ + n]
  /\ earned' = [earned EXCEPT ![a] = @ + n]
  /\ Done(h)
  /\ UNCHANGED <<ripe, frozen, request, paidOut, fined, transfers, todo>>

(* Bug: the new balance is computed from the one that was read. *)
DebitedFromSeen(h) == job[h].seen - job[h].amount

(* { decrement: amount } *)
Debited(h) == balance[job[h].account] - job[h].amount

(* The rest of an approval or a manual payout: the decrement, the DEBIT    *)
(* row and the request.                                                    *)
PayRows(h) ==
  LET r == job[h].item
      a == job[h].account IN
  /\ balance' = [balance EXCEPT ![a] = Debited(h)]
  /\ paidOut' = [paidOut EXCEPT ![a] = @ + job[h].amount]
  /\ request' = [q \in Request |->
                   IF q = r THEN [request[q] EXCEPT !.status = "COMPLETED"]
                   ELSE request[q]]
  /\ Done(h)
  /\ UNCHANGED <<escrow, ripe, frozen, pending, earned, fined, transfers, todo>>

PayCommit(h) ==
  /\ \E op \in Paying : At(h, op, "sent")
  /\ PayRows(h)

(* BANK_TRANSFER: an administrator moves the money by hand, the system     *)
(* writes its rows only.                                                   *)
BankCommit(h) ==
  /\ \E op \in Paying : At(h, op, "funds")
  /\ ~Locked(job[h].account)
  /\ PayRows(h)

-----------------------------------------------------------------------------
(* issueViolation reads the balance and writes the difference back.  Its   *)
(* transaction locks the row of the user first, so two fines of a store    *)
(* wait for one another; a customer's balance was read before that lock.   *)
FineRead(h, a) ==
  /\ Free(h)
  /\ fined[a] + Fine <= MaxDebit
  /\ a \notin Customers =>
       ~\E g \in Handler : At(g, "fine", "read") /\ job[g].account = a
  /\ Begin(h, "read", "fine", NoItem, a, Fine, balance[a])
  /\ UNCHANGED <<escrow, ripe, frozen, request, wallet, transfers, todo>>

FineCommit(h) ==
  LET a == job[h].account IN
  /\ At(h, "fine", "read")
  /\ ~Locked(a)
  /\ balance' = [balance EXCEPT ![a] = job[h].seen - job[h].amount]
  /\ fined' = [fined EXCEPT ![a] = @ + job[h].amount]
  /\ Done(h)
  /\ UNCHANGED <<escrow, ripe, frozen, request, pending, earned, paidOut, transfers,
                 todo>>

(* The handler dies or its transaction is rolled back: a notification or   *)
(* the audit log fails, or the transaction has run for five seconds.       *)
Crash(h) ==
  /\ ~Free(h)
  /\ Throw(h)
  /\ UNCHANGED <<escrow, ripe, frozen, request, wallet, transfers>>

-----------------------------------------------------------------------------
AutoRun == ~Free(Cron) /\ job[Cron].op = "auto"
CronLoop == CronList \/ \E e \in Escrow : CronNext(e)
CronStep == CronLoop \/ CronFind

Work(h) ==
  \/ Transfer(h) \/ ReleaseCommit(h) \/ PayCommit(h)
  \/ RejectWrite(h) \/ ApproveFunds(h) \/ FineCommit(h)
  \/ "bank" \in Ops /\ BankCommit(h)

Start(h) ==
  \/ \E e \in Escrow : \/ "release" \in Ops /\ ReleaseFind(h, e)
                       \/ "verdict" \in Ops /\ VerdictFind(h, e)
  \/ \E r \in Request, op \in {"approve", "reject"} \cap Ops : ProcessRead(h, op, r)
  \/ "payout" \in Ops /\ \E a \in Account, n \in Amount : PayoutRead(h, a, n)
  \/ "fine" \in Ops /\ \E a \in Account : FineRead(h, a)

PayoutNext ==
  \/ \E e \in Escrow : Ripen(e)
  \/ "auto" \in Ops /\ CronStep
  \/ \E r \in Request, a \in Account, n \in Amount : RequestWithdrawal(r, a, n)
  \/ "freeze" \in Ops /\ \E a \in Account : SetFrozen(a)
  \/ \E h \in Handler :
       \/ Start(h)
       \/ Work(h)
       \/ "fail" \in Ops /\ TransferFails(h)
       \/ "crash" \in Ops /\ Crash(h)

PayoutSpec == PayoutInit /\ [][PayoutNext]_payoutVars

(* The hourly job gets its turn whatever the requests do, and what has     *)
(* started ends.  A step of the job may fail or die any number of times,   *)
(* but not each time it is tried: a transfer that Stripe refused for ever  *)
(* would end every loop at its escrow.                                     *)
PayoutFairness ==
  /\ SF_payoutVars(CronLoop)
  /\ SF_payoutVars(CronFind)
  /\ SF_payoutVars(AutoRun /\ Transfer(Cron))
  /\ []<>At(Cron, "auto", "sent") =>
       []<><<AutoRun /\ ReleaseCommit(Cron)>>_payoutVars
  /\ \A h \in Handler : SF_payoutVars(Work(h))

FairPayoutSpec == PayoutSpec /\ PayoutFairness

-----------------------------------------------------------------------------
(* Properties.                                                             *)

(* No update of a balance is lost: whatever releases, withdrawals and      *)
(* payouts run together, and whichever of them die half-way, a balance is  *)
(* what each of them that committed has added or taken.  This is what      *)
(* increment and decrement promise; fines, which write what they computed  *)
(* from an earlier read, are left out of the claim.                        *)
NoUpdateLost ==
  \A a \in Account :
    /\ balance[a] = Opening[a] + earned[a] - paidOut[a] - fined[a]
    /\ pending[a] = Owed[a] - earned[a]

(* An escrow is recorded as released only after Stripe made the transfer.  *)
(* Verdicts are left out of the claim.                                     *)
RecordedWasSent ==
  \A e \in Escrow : escrow[e] = "RELEASED" => transfers[e] > 0

(* When handlers run one at a time, several pending withdrawals of one     *)
(* account never take more than there is: only fines overdraw it.          *)
OverdrawnByFinesOnly ==
  \A a \in Account : balance[a] + fined[a] >= 0

(* When handlers run one at a time and none fails, each escrow and each    *)
(* request is transferred at most once, and an escrow that is not in       *)
(* flight only if it is released.                                          *)
TransferredOnce ==
  /\ \A x \in Item : transfers[x] <= 1
  /\ \A e \in Escrow :
       /\ transfers[e] = 1
       /\ ~\E h \in Handler : ~Free(h) /\ job[h].item = e
       => escrow[e] = "RELEASED"

(* Every escrow whose order was completed a day ago is released, by the    *)
(* hourly job if nobody else does it, although an exception at an earlier  *)
(* escrow of the list ends the job's loop: a refused transfer, a release   *)
(* by an administrator since the list was made, a handler that died.       *)
(* Every store is connected.                                               *)
RipeIsReleased ==
  \A e \in Escrow : e \in ripe ~> escrow[e] = "RELEASED"

(* When handlers run one at a time, whatever fails and whoever dies, the   *)
(* wallets keep their promise: each write of a balance settles one escrow  *)
(* or one request as it stands, at its own amount.                         *)
Purse == INSTANCE Wallet
KeepsTheWallet == Purse!WalletSpec
=============================================================================
