# A TLA+ model of the marketplace backend

The backend (NestJS, Prisma over PostgreSQL, Stripe) runs a marketplace for
spare parts. A customer posts an order, stores bid, the customer accepts offers
and pays, the money is held in escrow while the store prepares, verifies and
ships the part, and is released to the store once the order is complete. Jobs
run by the clock end every phase that takes too long.

Two things make this code hard to test. No handler takes a lock: each reads
rows, awaits, decides and then updates *by id*, at READ COMMITTED, with requests,
webhooks and jobs of several instances in between. And money moves outside the
database (Stripe), where a rollback does not reach. The specifications here keep
every await between a decision and its write as a step of its own, let any
handler die there, and state what must hold all the same.

Contents: [inventory](#inventory), [the modules](#the-modules),
[the runs](#the-runs), [fairness](#fairness), [proofs](#proofs),
[what the code does](#what-the-models-showed),
[what is not modelled](#what-is-not-modelled), [plan](#plan).

## Inventory

Paths are under `src/src/`; the tables are in `src/prisma/schema.prisma`.

| Component | State it keeps | Operations | Talks to | What is hard |
|---|---|---|---|---|
| Order state machine `orders/fsm` | none: a table of legal transitions | `validateTransition` | called by Orders | several updates by-pass it |
| Orders `orders/orders.service.ts` | `Order`: status, deadlines, rejections, accepted offer; customer statistics | `create`, `acceptOffer`, `acceptOfferForPart`, `rejectOffer`, `renewOrder`, `transitionStatus`, `markAsPrepared`, `submitVerification`, `adminReviewVerification`, `submitCorrectionVerification`, `requestShipping`, `confirmDelivery` | Offers, Payments, Shipments, statistics in Users | decision and write apart; a renewal starts an order's life again |
| Offers `offers/` | `Offer`: status, price, edit window; `OfferRejection` | `create`, `withdraw`, `cancelByVendor`, `adminUpdate`, `adminDelete` | Orders (the window for bids) | offers deleted or repriced under a request that read them |
| Order jobs `scheduler/order-cleanup.service.ts`, `scheduler/warranty-expiration.service.ts`, `orders/warranty-scheduler.service.ts` | none but the deadlines in `Order` | eight jobs over phases, two over warranties, the assembly-cart job | `transitionStatus`, Violations | lists of due orders get stale; the second update of a job may never happen; two schedulers do the same job |
| Payments `payments/payments.service.ts`, `stripe/` | `PaymentTransaction` (unique by offer), `Invoice`, `WalletTransaction` | `createPaymentIntent`; webhooks succeeded, failed, refunded | Stripe, Escrow, Orders | events repeated, reordered, concurrent; rows overwritten between checkout and webhook |
| Escrow `payments/escrow.service.ts`, `scheduler/escrow-cron.service.ts` | `EscrowTransaction` (unique by order), `Store.balance`, `Store.pendingBalance` | `holdFunds`, `releaseFunds`, `processRefund`, the hourly release | Stripe transfers | the transfer precedes the transaction that records it |
| Withdrawals `payments/payments.service.ts` | `WithdrawalRequest`, the balances, the wallet rows | request, process, manual payout, freeze | Stripe transfers | check and decrement apart; a transfer inside a transaction that may roll back |
| Violations `violations/`, `scheduler/violation-decay.service.ts` | `Violation`, `PenaltyAction`, `ViolationAppeal`, `CustomerRiskAlert`, `User.violationScore`; fines on the balances | `issueViolation`, `autoIssue`, `submitAppeal`, `reviewAppeal`, `dropViolation`, `reviewPenaltyAction`, `resolveRiskAlert`, `decideLoyaltyAlert`, the nightly decay | Orders' jobs and Returns issue violations; balances, the store's status, its tier | reviews look at no status; points and balances written as absolute values |
| Returns and disputes `returns/` | `ReturnRequest`, `Dispute`, shipping debts | request, dispute, respond, escalate, `issueVerdict`, `updateVerdict`, `payShippingFee`, the hourly job | Escrow, Orders, Payments, Shipments, Violations | verdicts look at neither the status nor the lock of a case; four ways to charge one shipping |
| Shipments and carts `shipments/`, `waybills/`, `orders/shipping-automation.service.ts` | `Shipment`, `ShippingWaybill`, the assembly cart | create, status updates, automatic shipping | Orders | writes the order's status without the table |
| Verification tasks `verification-tasks/` | `VerificationTask`, its photos and log, `VerificationLink`; `Order.verificationTaskId` | assign, link, activate, start, upload, complete, review | Orders, whose desk reviews the document of the same order | two verifications of one order through different rows |
| Stores `stores/`, `scheduler/store-suspension.service.ts` | `Store`: status, `suspendedUntil`, documents, subscription | `updateStatus`, `uploadDocument`, `updateDocumentStatus`, `getDashboardStats`, the job that ends suspensions | Violations, Performance | five writers of one status, none of which looks at it |
| Reviews `reviews/` | `Review`, `Store.rating` | create, moderate, rating rules | Stores, Violations (a suspension to approve), Performance | average computed, stored and judged in separate steps |
| Merchant performance `merchant-performance/` | `Store.loyaltyTier`, the score | `recalculateAndPersist`, subscription, nightly batch | Violations, Reviews, Loyalty call it | a tier is stale until somebody recalculates it |
| Loyalty `loyalty/` | `User.totalSpent`, `loyaltyTier`, `customerBalance`; `WalletTransaction`; `Store.lifetimeEarnings` | completion rewards, referral, cancellation | started by `transitionStatus`, not awaited | overlapping completions; runs lost at a restart |
| Chat, auth, notifications, invoices, settings, catalogue, uploads | their own rows | mostly create, read, update | | see [what is not modelled](#what-is-not-modelled) |

What makes each of the modelled components correct:

* **Orders** – the status moves along the table but for named by-passes; a
  order that waits for a selection carries the deadline the job looks for; no order
  stays for ever in a phase whose deadline is set; rejections count right over a
  renewal.
* **Payments** – what is in escrow for an offer was charged for that offer, in
  that amount; it is booked once; a charge always reaches the escrow.
* **Shipping** – an order is SHIPPED for its cart only when the cart is empty; an
  item paid seven days ago does not stay in a cart; an empty cart ends the phases
  that have one.
* **Payouts** – no update of a balance is lost; nothing is recorded as released
  without a transfer; nothing is transferred twice; withdrawals do not overdraw;
  what is due is released.
* **Returns** – no verdict, answer or job leaves an order in a phase of the
  resolution center without a case in which somebody must still act; a shipping that
  is due is PAID only when it was taken from somebody; a store's silence and a return
  nobody hands over both end.
* **Verification** – an order is verified only with its newest document approved; a
  correction has its deadline; who started an inspection decides it; a closed task
  stays closed.
* **Penalties** – an account carries no points without a violation behind them, but
  for what two overlapping transactions bring back; a threshold reached is put before
  an administrator, and not again while a decision is open; active violations end.
* **Stores** – a store is judged on its published reviews; a renewed document is not
  held against it; suspensions with an end do end; the tier catches up.
* **Loyalty** – a balance is what its ledger says; a referral is paid no more often than
  there are requests at once; the tier fits the spending; totals are never invented; the cap of the month is nearly kept.

`PROJECT.json` lists the hazards of the code one by one, each at its line with
the properties that watch it.

## The modules

| Module | What it is | Code |
|---|---|---|
| `OrderFsm` | the statuses and the transition table | `orders/fsm/order-state-machine.service.ts` |
| `Orders` | the life of orders and offers: requests, jobs, days | `orders`, `offers`, `scheduler` |
| `Settlement` | what the payment side promises, without webhooks and rows | abstract |
| `Wallet` | what the payout side promises: each escrow credited once, each request settled once | abstract |
| `Payments` | EXTENDS `Orders`; checkout, Stripe, webhooks, `holdFunds` | `payments`, `stripe` |
| `Payouts` | releases, withdrawals, payouts, fines on balances | `payments`, `scheduler/escrow-cron.service.ts`, `violations` |
| `Shipping` | carts, shipments, waybills and the seven-day jobs of paid orders | `orders.service.ts` (`requestShipping` and its callers), `shipments`, `waybills`, `orders/shipping-automation.service.ts`, `scheduler` (assembly cart) |
| `Returns` | cases from request to verdict, shipping debts, the hourly job | `returns` with its cron, shipping payments in `payments` |
| `Inspection` | the verification of one order, at the desk and in the field | `verification-tasks`, the verification requests of `orders.service.ts` |
| `Penalties` | points, thresholds, appeals, decay, risk alerts of one account | `violations`, the decay job |
| `Stores` | status, documents, suspensions, reviews, rating and tier of one store | `stores`, `reviews`, `merchant-performance`, `scheduler` (suspensions), approvals in `violations` |
| `Loyalty` | what a completed order brings the customer, the store, the referrer | `loyalty`, `decideLoyaltyAlert` in `violations` |
| `MC_*` | constants for TLC | |
| `OrdersPayments_proofs`, `Payouts_proofs`, `Shipping_proofs`, `Returns_proofs`, `Inspection_proofs`, `PenaltiesLoyalty_proofs`, `Stores_proofs` | theorems and proofs | |
| `Sums_proofs` | lemmas on sums over finite sets, used by the last two | |

**How a handler is modelled.** `call[c]` (in `Payments` and `Payouts`, `job[h]`; in
`Loyalty` a request's two runs, `reward[r]` and `refer[r]`) holds one
request, webhook or job in flight: its operation, how far it got, and what it has
read. A guard looks at the row in the step that reads it;
the write uses what the record holds. `transitionStatus` is `TransitionRead`
(or `RequestTransition`, where the controller calls it) and `TransitionWrite`;
a scheduled job is `JobList` (its WHERE clause, `Due`), for the return window
`JobRecheck`, then `TransitionRead`, `TransitionWrite` and `JobAfter`, the
update or fine that follows. A database transaction is one step where what it reads
and writes is on rows it has locked or is an increment. Two kinds are not. Those that
wait for Stripe: `Payouts` shows that the row they have updated stays locked
(`Locked`) and that their reads do not lock. And those of the violations, which read
the score and write a number: `Penalties` has the read (`IssueScore`, `ScoreRead`,
`DecayScore`) and the write as steps, with the locks in between and a `RollBack`. Notifications and audit rows are not
in the state; that they can throw is in `Crash`. `Shipping` has no `Crash`: there
a handler that dies is one that takes no further step, and nothing waits for it; the
same goes for `Returns`, `Penalties` and `Stores`, whose handlers keep nothing locked
(their liveness runs assume that what has begun ends). `Inspection` has a `Crash`
between its separate writes, `Loyalty` a `Restart`, which loses every run.

**What the state stands for.** In `Returns`, `case` is the status of a `ReturnRequest`
or `Dispute`, `status`, `escrow` and `parcel` are the order, its escrow and its newest
shipment; `owes`, `payee` and `shipping` are the columns of the shipping debt, `taken`
counts how often it was collected. A verdict is one transaction (`VerdictWrite`): case,
order, escrow, wallet, debt and return label. In `Inspection`, `document` is the desk's
row, `tasks` the field's, `current` the pointer that ties them. In `Penalties` rows
that nobody can tell apart are counted (`penalties`, the appeals of a violation).
History variables remember what no column does: `revived`, the points a write over a
newer score brought back; `setBy`, whether the endpoint of `transitionStatus` declared
an order inspected; `asked`, whether the last verdict to name a party made the shipping
due; `earned`, `paidOut` and `fined`, what committed handlers did to a balance. They
are in no guard. In `Payouts` the rows of the wallet log are left out, for they do not
add up to the balances: a payment and a shipping payment write rows that change none,
and the release of an escrow writes a second row for it. In
`Stores` the handlers that change what the tier is computed from all end with
`TierRead` and `TierWrite`, as the services call `recalculateAndPersist`.

**Time** is counted in days in `Orders.left` (a deadline column: days left, 0
once passed, `Unset` when null) and `Orders.age` (days since `updatedAt`, which
only `transitionStatus` and the warranty jobs set). No handler is in flight when
a day ends. `Payouts` needs of time only that an order was completed a day ago
(`Ripen`), `Shipping` that an offer was paid seven days ago (`Ages`). `Returns`
counts days again; `Inspection`, `Penalties` and `Stores` count units of the only
interval that matters there (a correction, a decay, a suspension or a period of grace).

**Composition.** `Payments` extends `Orders`: its `PayNext` interleaves the
order's steps with the payment's, and `FulfilCommit` changes both, as the
fulfilment transaction does when it moves the order to PREPARATION.
`ChargeOf` maps it to `Settlement`; the run `Payments_webhooks` checks the
refinement and `PaymentsKeepThePromise` proves it. `Payouts` has its own abstract
specification, `Wallet`, whose variables are three of its own; the run
`Payouts_serial` checks that refinement and `WalletAlwaysKept` proves it. `Payouts` starts where
`Payments` ends: escrows held, `pendingBalance` owed. `Shipping` starts there too,
on the side of the order: PREPARATION, every accepted offer paid and in the cart.
It shares the table `OrderFsm` with `Orders`, and its transition requests are the
controller's, so that the order moves under the handlers as it does there. `Returns`,
`Inspection` and `Loyalty` share the table too; `Targets` (`Target`) says which
transitions the rest of the system makes meanwhile. They include those that
`PATCH /orders/:id/transition` offers to every user who is logged in, with no case, no
document and no deadline. `Penalties` and `Stores` split the
handlers they share: an approved penalty is `ReviewPenalty` in one and
`PenaltyApproved` in the other, and every change of the score is `PointsChange`.

**External code.** Stripe is modelled by how the code uses it: an intent can be
declined any number of times, captured once and refunded; an event is delivered
at least once, in any order, to any handler, until one answers 200. A transfer
happens or fails; it survives the rollback of the transaction around it.

## The runs

| Run | Instance | Shows |
|---|---|---|
| `Orders_lifecycle` | one order, one offer (with warranty), one caller at a time, which may die between steps; every transition a request can ask for; one renewal; every operation but `withdraw` and `acceptOfferForPart`, which `Orders_live` has | `StatusChangesAreLegal`, `SecondRejectionCancels` |
| `Orders_live` | a request races with a job, fair, no crash; transitions by request into every phase that has a deadline; every operation but renewals, rejections, `cancelByVendor` and `adminDelete`, which `Orders_lifecycle` has | `SelectionIsTimed`, `PhasesEnd` |
| `Payments_webhooks` | one offer, two intents, two handlers, two prices; declines, refunds, crashes, price edits | `BookedOnce`, `HeldWasCharged`, `SuccessIsHeld`, the refinement `KeepsThePromise` |
| `Payments_live` | one intent, two handlers, the payment window may expire | `ChargeIsHeld` |
| `Payouts_races` | two escrows of a store, a request, the job and an administrator; transfers fail, handlers die | `NoUpdateLost`, `RecordedWasSent`, `RipeIsReleased` |
| `Payouts_serial` | one handler at a time; a store and a customer, two requests, verdicts, fines, freezes | `OverdrawnByFinesOnly`, `TransferredOnce`, the refinement `KeepsTheWallet` |
| `Shipping_cart` | one order with two offers, one waybill; a request and a job at every await of each other | `ShipTypeOK`, `CartShipsWhole`, `AgedLeavesCart` |
| `Returns_cases` | one order with a return and a dispute of the same item; a request and the job at every await of each other; two verdicts, with and without charges; the transition endpoint | `ReturnInv`, `OnlyTransitionsStrand`, `SilenceEnds`, `HandoverEnds` |
| `Inspection_order` | two officers, two tasks, a link; one request at a time beside a job and the transition endpoint; requests die between their writes | `InspectionInv`, `CurrentApproved`, `DecidedByStarter`, `ClosedStaysClosed` |
| `Penalties_points` | two violations and one threshold, which each of them reaches; a request beside the nightly job, transactions that overlap and roll back; penalties approved, put off and taken back | `AskedOnce`, `PointsAreOwed`, `ThresholdAnswered`, `PointsDecay` |
| `Stores_standing` | a review for a suspension and one that leaves the tier open; scores with and without a tier; no growth, so that the two upper tiers do not occur; a request beside a job | `StoreInv`, `RenewalIsSpared`, `SuspensionEnds`, `TierCatchesUp` |
| `Loyalty_rewards` | one order, completed up to three times by two requests that may overlap; it reaches a tier whose cap grows with the month; restarts | `LoyaltyInv`, `ReferralPaidPerOverlap`, `TierFitsSpent`, `CapIsNearlyKept` |

An invariant named `XInv` joins the type invariant of a module with a safety property
of its own: `ReturnInv` adds `DueIsTaken`, `InspectionInv` `CorrectionIsTimed`, `StoreInv`
`JudgedOnPublished`, `LoyaltyInv` `BalanceIsLedger` and `NothingInvented`. The type
invariants of `Orders`, `Payments`, `Payouts` and `Penalties` are proved instead of run.

**Why the instances are large enough.** The decisions of a handler look at one
order (or escrow, request) and its offers, so the state of one order with one or
two offers holds every conflict between handlers; two callers are enough for a
stale read, because a handler conflicts with what happened between its read and
its write, whoever did it. Two prices tell a stale amount from a fresh one. Two
cases of one item are enough for `Returns`, where everything that conflicts does so
through the order; two completions and two violations are the fewest that can
overwrite each other. One
renewal gives the rejections a second life to be wrong in. The two escrows of
`Payouts_races` are the fewest of which the first can end the loop before the second.

**Bounds**, all of them named constants or in the guards: `MaxRenewals`
(`renewOrder` may be called for ever), `StatCap` (the statistics saturate there; no
property is about them), `MaxDays` (ages saturate at the longest wait, three
days), `Intent` (checkouts start while an intent is left), `MaxTransfers`
(transfers of one item are counted up to there and made beyond), `MaxDebit` (payouts and fines per account), `Waybill` (an issue starts while a
waybill is left for it), `MaxVerdicts` and `MaxTaken` (verdicts in a case, shipping
payments begun for it), `MaxTasks` and `MaxLinks` (a task or a link is made while
there is room), `MaxViolations` (rows and those on their way), `MaxCompletions`. The shipments need no bound: one is created only when
none matches, so there are at most as many as callers that look at once. One
`Reports` status, DELIVERED_TO_CUSTOMER, stands for the three that an order
follows, which differ in the value alone. `Targets` and `Ops` choose the
operations a run offers. The targets of `Orders_lifecycle` are all statuses. Those
of `Orders_live` leave out NON_MATCHING, with which rejections grow without bound, and
what requests and jobs lead to in any case; those of `Returns_cases` and
`Inspection_order` what comes before a case or an inspection, or ends it like another
that is in.

**Serial runs.** `Orders_lifecycle` and `Payouts_serial` run one handler at a
time, `Inspection_order` one request beside a job. In `Penalties_points`, `Stores_standing`
and `Returns_cases` one request races with one run of a job. The properties of the
serial runs, of `Inspection_order` and of `Stores_standing` are those that the code keeps
only then; the comments at
the properties say so. Which of them fail when two handlers overlap is listed
[below](#what-the-models-showed).

**Deadlock** is checked for `Orders` and `Payments`, where some step is always
possible. It is for the other
modules too, whose clocks go on, but not for `Payouts`, where every escrow may be
released and every request processed.

## Fairness

* `Orders.Fairness`: days pass (`SF` of `Tick`, which waits until no handler is
  in flight); each job gets its turn (`SF` of `JobStep`: the code runs them every
  minute or hour, and a job whose order is due again and again will meet it);
  a request that has begun ends (`WF`). Requests themselves are never assumed.
* `Payments.PayFairness`: handlers that have begun end (`WF`); Stripe delivers
  an event again as long as it is not answered (`SF` per event, because a
  handler must be free). No fairness for customers, captures or administrators.
* `Shipping.ShipFairness`: `handleAutoShipping`, every six hours, meets every order
  it lists (`SF` of `AutoList`, whose job must be free), and handlers that have
  begun end (`WF` of `Progress`). Nobody is assumed to request anything.
* `Returns.ReturnFairness`: days pass, the hourly job meets what it lists (`SF` of
  `Tick`, `LateList` and `HandoverList`, which wait until handlers are free), and what
  has begun ends (`WF`). No customer, store or administrator is assumed to act, so
  `SilenceEnds` and `HandoverEnds` are about the job.
* `Penalties.PenaltyFairness`: the same for the nightly decay (`DecayList`); and a
  transaction of the job that is tried night after night commits some night (`SF` of
  `DecayWrite` for each violation), for it may be rolled back any number of times.
* `Stores.StoreFairness`: the job of every twelve minutes and the nightly batch (`SF` of
  `LiftList` and `NightList`), and what has begun ends.
* `Payouts.PayoutFairness`: the hourly job gets its turn (`SF` of `CronLoop` and
  `CronFind`), and a row lock is granted in turn (`SF` of `Work` for each handler). A
  transfer of the job may be refused and the job may die any number of times, but not
  every time: its transfer succeeds when it is tried for ever (`SF` of `Transfer`), and
  its release commits when it gets there for ever. Of an escrow Stripe refuses for
  ever, or of a store without an account, this says nothing: they stop the loop for good.

Where the code has no retry, crashes are left out of the liveness run: in `Orders_live`
a job that dies between its two updates would leave an order without the deadline of its
new phase. `PhasesEnd` is about orders that have the deadline their job looks for: a
request that moves an order to DELAYED_PREPARATION, CORRECTION_PERIOD or WARRANTY_ACTIVE
sets none, and such orders, which the run has, wait for another request.

## Proofs

TLAPS proves, for every value of the constants allowed by the assumptions of the
modules (`OrdersAssumption`, `PaymentsAssumption`, `PayoutsAssumption`,
`ShippingAssumption`, `ReturnsAssumption`, `InspectionAssumption`,
`PenaltiesAssumption`, `LoyaltyAssumption`, `StoresAssumption`, of which the last two
say that the orders of an instance, and in `Loyalty` its requests, are finitely many):

| Theorem | States | For |
|---|---|---|
| `OrdersPayments_proofs!OrdersTypeCorrect` | `TypeOK` | |
| `OrdersPayments_proofs!SelectionAlwaysTimed` | `SelectionIsTimed` | |
| `OrdersPayments_proofs!StatusAlwaysLegal` | `StatusChangesAreLegal` | one caller |
| `OrdersPayments_proofs!SecondRejectionAlwaysCancels` | `SecondRejectionCancels` | one caller |
| `OrdersPayments_proofs!PayTypeCorrect` | `PayTypeOK` | |
| `OrdersPayments_proofs!EscrowWasCharged` | `HeldWasCharged` | |
| `OrdersPayments_proofs!PaymentBookedOnce` | `BookedOnce` | |
| `OrdersPayments_proofs!SuccessHasEscrow` | `SuccessIsHeld` | |
| `OrdersPayments_proofs!PaymentsKeepThePromise` | the refinement of `Settlement` | |
| `Payouts_proofs!PayoutTypeCorrect` | `PayoutTypeOK` | |
| `Payouts_proofs!UpdatesNeverLost` | `NoUpdateLost` | no fines |
| `Payouts_proofs!UpdatesNeverLostSerially` | `NoUpdateLost` | one handler |
| `Payouts_proofs!WalletAlwaysKept` | the refinement of `Wallet` | one handler |
| `Payouts_proofs!ReleasesWereSent` | `RecordedWasSent` | no verdicts |
| `Payouts_proofs!OnlyFinesOverdraw` | `OverdrawnByFinesOnly` | one handler |
| `Payouts_proofs!TransfersAlwaysOnce` | `TransferredOnce` | one handler that neither fails nor dies |
| `Shipping_proofs!ShipTypeCorrect` | `ShipTypeOK` | |
| `Shipping_proofs!CartAlwaysShipsWhole` | `CartShipsWhole` | |
| `Returns_proofs!ReturnTypeCorrect` | `ReturnTypeOK` | |
| `Returns_proofs!DueAlwaysTaken` | `ReturnInv` (`DueIsTaken`) | |
| `Returns_proofs!OnlyTransitionsEverStrand` | `OnlyTransitionsStrand` | |
| `Inspection_proofs!CurrentAlwaysApproved` | `CurrentApproved` | one client beside the jobs |
| `Inspection_proofs!CorrectionAlwaysTimed` | `InspectionInv` | the same |
| `Inspection_proofs!StarterAlwaysDecides` | `DecidedByStarter` | the same |
| `Inspection_proofs!ClosedAlwaysStays` | `ClosedStaysClosed` | the same |
| `PenaltiesLoyalty_proofs!PenaltyTypeCorrect` | `PenaltyTypeOK` | |
| `PenaltiesLoyalty_proofs!DecisionsAskedOnce` | `AskedOnce` | |
| `PenaltiesLoyalty_proofs!ThresholdAlwaysAnswered` | `ThresholdAnswered` | thresholds above 0 |
| `PenaltiesLoyalty_proofs!PointsAlwaysOwed` | `PointsAreOwed` | |
| `PenaltiesLoyalty_proofs!ReferralPerOverlap` | `ReferralPaidPerOverlap` | |
| `PenaltiesLoyalty_proofs!TierAlwaysFits` | `TierFitsSpent` | |
| `PenaltiesLoyalty_proofs!LoyaltyAlwaysInv` | `LoyaltyInv` (`BalanceIsLedger`, `NothingInvented`) | |
| `PenaltiesLoyalty_proofs!CapAlwaysNearlyKept` | `CapIsNearlyKept` | |
| `Stores_proofs!StoreTypeCorrect` | `StoreTypeOK` | |
| `Stores_proofs!StoreAlwaysJudged` | `StoreInv` (`JudgedOnPublished`) | one client beside the jobs |
| `Stores_proofs!RenewalAlwaysSpared` | `RenewalIsSpared` | one client beside the jobs |

The last column names what a theorem assumes beyond its module: the circumstances in
which the code keeps the property, which are those of the run that checks it. An
empty entry means any number of handlers, in any interleaving, dying anywhere.

* *Orders.* `SelectionIsTimed` is not inductive with the type alone: a call in
  flight that is about to write AWAITING_SELECTION must be one whose write sets
  the deadline. `OrderInv` adds that only `transitionStatus` carries that target
  and that nothing clears a selection deadline. With one caller, `Fresh` says for each
  operation that what its call has read is still so: the status allows the target, and
  a review has the number of rejections. The other writers move along the table too
  (`TableMoves`).
* *Payments.* `PayInv` ties together what the database and Stripe know apart: a
  payment row and a handler that has read it name an intent that was created for
  that offer, at the amount they carry; an event was sent only of a captured
  intent; an order has at most one escrow, and a row that says SUCCESS has it. A
  fulfilment writes the amount its handler holds, which is therefore that of the
  charge. The refinement uses the same invariant: `FulfilCommit` is `HoldFor`,
  `Capture` is `Charge`, everything else stutters.
* *Payouts.* `BooksInv`: the balance of an account is what it opened with plus what
  releases have added minus what withdrawals, payouts and fines have taken. It needs of a
  handler only that its amount is a number: all writes but the fine's are increments.
  `SentInv`: a release that is past its transfer has one counted for its escrow. With one
  handler, `FundsThere`: the balance that was enough when it was looked at still is when
  it is debited, and the balance a fine is about to write over is the one it read, so
  `UpdatesNeverLostSerially` needs no exception for fines. `OnceInv`: what was transferred
  is settled, or its handler is still in the transaction that will settle it. For the
  refinement of `Wallet`, `CurrentInv` adds that the escrow or the request a handler works
  on is still as it was read: held or pending, of that account, at that amount. A commit
  is then `Credit`, `Withdraw`, `PayOut`, `Refuse` or `TakeFine`; every other step
  stutters, failures and deaths included. With two handlers the refinement fails: an
  escrow is credited twice.
* *Shipping.* `CartShipsWhole` is about the write; between the count and the write
  two awaits pass. `CountsHold` says of every handler in between that the cart it
  counted empty still is: items only leave carts.
* *Returns.* Both facts are about one step, once the types are known. A verdict that
  asks for the shipping again undoes the mark in the write in which it names a party
  (`DueStep`); every other write that marks PAID counts the taking with it. A handler may
  overwrite whatever happened to its case, but it writes the order in the same
  transaction, so a case decided and an order in its phase cannot come from one write
  (`StrandStep`).
* *Inspection.* `Informed`: with one client, the copy of the task that a request works
  on is the task, and the status it read tells what became of the document and of the
  deadline, as the order's own status does, unless the endpoint set that status by hand
  (`setBy`). The jobs and the endpoint move the order beside it, but leave task, document
  and deadline alone.
* *Penalties.* Rows are only appended, so what a request has read names a row; a
  threshold is asked for by the transaction that counts what is open (`AskedStep`). That
  every threshold reached has a penalty is not inductive: a transaction may write a score
  it has seen long ago, so what a transaction has seen must have been answered too
  (`AnswersInv`). The score is compared with a sum over the violations that stand. A
  step moves one row, which changes the sum by the points of that row at most
  (`OneRowMoves`); whoever takes a row out of the sum takes as much off the score it has
  seen, and what the score it has seen exceeds the score by, `revived` records
  (`WriteOwed`). Taking points off twice only widens the distance.
* *Loyalty.* `ReferralInv`: the rows of an order and the runs about to add one are
  together no more than there are requests, for a run that finds a row ends. The tier is
  computed from the total that is written with it. The balance and its ledger rows are
  written together. The other sums are about runs that have read and not yet written:
  `GainsFit` says that the month and the gains in hand fit in the cap but for one reward
  for each run but one, for a run that sees no room takes nothing; `SpentFits` that the
  spending a run has read is worth no more than the completions settled by then, which
  never get fewer; `LifetimeFits` the same of the store's earnings and the orders counted.
* *Stores.* Between the publication of a review and the verdict on the rating lie five
  steps. `StandingFits` says what the client has in hand at each: the average it
  computed, or a rating already stored, is that of the published reviews, and a visit
  that is about to close the store has seen no renewal waiting. The jobs beside it
  touch neither the reviews, nor the rating, nor the document.
* *Sums.* `SumFunctionOnSet` is defined by recursion over sets, and the induction rule
  for finite sets takes an operator as a parameter, which the provers cannot
  instantiate. The lemmas use what they can: among the subsets of a finite set that
  violate a claim, one contains no other (`SmallestSet`, from the library's theorem on
  well-founded relations), and taking an element from that one leaves a set for which
  the claim holds.

Only model-checked are the liveness properties: `PhasesEnd`, `ChargeIsHeld`,
`RipeIsReleased`, `AgedLeavesCart`, `SilenceEnds`, `HandoverEnds`, `PointsDecay`,
`SuspensionEnds`, `TierCatchesUp`. They hold by fairness, and the prover has no ENABLED.
Every invariant, every action property and both refinements that the runs check are
proved, with the restrictions of the last column.

## What the models showed

None of this fails a run: the models do what the code does, and the properties are
those that survive it.

Money:

* `createPaymentIntent` looks for a SUCCESS row and records the intent later,
  overwriting the row: two checkouts of one offer can both be charged.
* An order with two accepted offers can settle only one, for
  `EscrowTransaction.orderId` is unique; the webhook of the other fails for ever.
* Two administrators process one withdrawal twice. Two withdrawals processed together
  overdraw a balance; a fine written from a stale balance loses a release.
* An escrow is transferred to Stripe *and* credited to the balance from which
  withdrawals are transferred.
* `releaseFunds` by the job and by an administrator transfers twice; a rollback
  after the transfer is followed by another transfer the next hour.
* One store without a Stripe account ends the hourly release loop for all the
  stores after it.
* The rows of the wallet log do not add up to the balances: a payment writes a CREDIT row
  for money that goes to `pendingBalance`, the release of its escrow a second one, and a
  shipping payment a DEBIT row for money that never was in the wallet.
* The rows of a rejected offer count as paid when the fulfilment compares the
  number of paid rows with the number of accepted offers, and the fulfilment
  revives a cancelled order.

Orders and shipping:

* `transitionStatus` overwrites what was committed after its read: the expiry of
  the selection cancels an order whose customer has just chosen. The expiry of
  the payment window likewise cancels, and fines, a customer whose payment
  commits meanwhile.
* `requestShipping` takes items of orders in PREPARATION and VERIFICATION_SUCCESS,
  from which the table does not lead to SHIPPED: the items are marked, the
  transition is refused, and the order keeps an empty cart.
* Every batch of a cart looks for a shipment of its order without a waybill: the
  second batch is put into the shipment of the first, which may be delivered by
  then. Of two overlapping batches the first may write PARTIALLY_SHIPPED after the
  second wrote SHIPPED; its cart is empty, so no job looks at it again.
* A shipment's status is copied to the order without the table: a late report
  makes a cancelled or completed order SHIPPED or DELIVERED.
* `acceptOfferForPart` looks at neither the offer's nor the order's status: two
  offers for a part can be accepted one after the other.
* `adminDelete` looks at no status either: deleting the accepted offer leaves its
  order in AWAITING_PAYMENT without one, until the payment window expires (once a
  payment refers to the offer, the foreign key refuses the deletion).
* `renewOrder` looks at no status, and moves `offersDeadlineAt` but not
  `offersStopAt`, so a renewed order refuses bids.
* COMPLETED with a warranted offer becomes WARRANTY_ACTIVE and later
  WARRANTY_EXPIRED, so the automatic release and the rewards, which wait for
  COMPLETED, skip it.
* The 48 hours of preparation count from `updatedAt`: the payments are filtered
  by a status, COMPLETED, that no row has.
* Deliveries are counted too often: by two overlapping transitions to DELIVERED, and by
  `confirmDelivery` after a late shipment report took a COMPLETED order back to SHIPPED.
* `PATCH /orders/:id/transition` is open to every user who is logged in and asks only the
  table. It moves an order to DISPUTED or RETURN_APPROVED without a case, after which
  neither job nor verdict finds it; to DELAYED_PREPARATION, CORRECTION_PERIOD or
  WARRANTY_ACTIVE without the deadline of that phase; to VERIFICATION_SUCCESS without a
  document.
* A review that races with the move to CORRECTION_PERIOD can leave the order
  there without a deadline.

Returns and disputes:

* A verdict computes the refund from `caseRecord.order?.price`. The order has no such
  column, so the net refund is never positive and `processRefund` is never called.
  `freezeFunds` has no caller: the hourly release pays an escrow whose order is
  completed by one case while another is open.
* `issueVerdict` looks at neither the status nor the lock of a case, and
  `updateVerdict` can only be the first verdict. Without `extra` it throws after its
  transaction has committed, and what should follow is lost.
* A second verdict that names a party but no fee keeps the amount the first one left and
  marks it PAID: the debt is forgiven.
* An automatically approved warranty claim always rolls back: its label needs a
  relation the query does not include.
* A late answer or escalation reopens a decided case; the job escalates, and fines,
  over an answer that came after its list.
* A store without funds is debited all the same, marked INSUFFICIENT_FUNDS, and can
  be charged again; `createShippingCheckoutSession` does not look whether the
  shipping is paid.
* Nothing records that an item was handed over, so every approved return is closed
  by the job, with its order completed.

Verification:

* With two requests at once all four properties of `Inspection_order` fail: a field
  approval writes back the status it read; the desk's decision and the field's
  overwrite each other's; of two officers who activate one link the second wins.
* A field decision NON_MATCHING moves the order whatever its status is.
* `submitVerification` creates its task before its transaction, and
  `submitCorrectionVerification` sets the pointer after: a stop in between leaves a
  task the order does not know.
* A task in AWAITING_CORRECTION that is assigned again starts over, and its next
  mismatch renews the 48 hours. The job that ends a correction may cancel over a
  fresh one.

Penalties and stores:

* The reviews of appeals and of penalties look at no status. A violation dropped
  while its appeal waits is subtracted twice; rejecting the appeal of a dropped or
  decayed violation makes it active again.
* A penalty counts as already asked for while it is PENDING, DELAYED or EXECUTED;
  approval writes APPROVED, and nothing writes EXECUTED, so the threshold asks again
  with the next violation.
* The score is read and then written as a number, at READ COMMITTED. Of two overlapping
  transactions the later one undoes the other: a decay beside a new violation brings back
  the points that had decayed, or loses the new ones.
* A decided penalty can be set back to PENDING or DELAYED, beside a newer one.
* The second part of the decay job looks for an expiry that nothing writes: a
  customer's suspension does not end. A suspension for fraud has no end, or keeps
  that of an earlier one.
* A legal upload makes a suspended or blocked store PENDING_REVIEW; a suspension of
  a store in PENDING_REVIEW ends in ACTIVE, with its document unreviewed. The job
  that lifts suspensions writes ACTIVE by id over what was decided after its list.
* Activation approves pending documents only: a store closed for an approved,
  overdue one is closed again at its owner's next visit. Had the owner two requests
  in flight, the visit could close the store over the document just sent in.
* A decay of points leaves the tier to the nightly batch, which looks at active
  stores only; refusing a published review leaves the rating as it was.

Loyalty:

* An order completed twice is rewarded twice; only the referral looks for an earlier
  row, and it looks before its transaction: two overlapping completions of one order both
  pay, although the comment says that an order can only be rewarded once. Overlapping completions lose spending and earnings, and pass the monthly cap.
* `cancelAllRewards` keeps the spending, so the next completion restores the tier. A
  stop between it and the update of the alert leaves an alert that can then be KEPT.
* The rewards of an order are lost when the process stops before they are written.

## What is not modelled

* Within modelled components: the checkout data, admin notes and queries of
  Orders; a vendor's edit of an offer, daily quotas; the simulated card payment,
  the platform's own shipping payments and onboarding; platform fees, commissions
  and amounts below a unit; texts, notifications, audit rows, sockets.
* In `Shipping`: carrier and tracking data and the status log. In `Returns`:
  messages and attachments, the limit of one case per five minutes, and the fines
  and statistics that follow a verdict, which are in `Payouts`, `Penalties` and
  `Stores`. In `Inspection`: one-time codes, devices and the sessions of officers,
  whose deadline no code enforces. In `Stores`: the ranking score, a function of the
  tier and the rating that no decision reads.
* The deletion of an offer under a request that is accepting it
  (`OfferWriteFails`, first case) is in `Orders` but needs a second client: none of
  the runs has one, while `SelectionAlwaysTimed` is proved for any number.
* Not at all: authentication and recovery, chat, catalogue, settings, invoices,
  uploads, notifications. They are single-row updates or queries, or guarded by
  libraries, with no state another component's decision depends on.

## Plan

1. *Done*: all modules above, their runs and theorems.
2. Narrower hypotheses than *one client* where the code bears it: `StoreAlwaysJudged`
   needs only that publications do not overlap.
3. An abstract `Case` for `Returns` to refine, with one outcome, once a verdict
   looks at the status of its case: as the code is, it has none to refine.
4. Larger instances: a second client in `Orders_live`, a second store in `Payouts`.
