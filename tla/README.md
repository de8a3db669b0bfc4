# Verification of the money, stock and dispatch paths

TLA+ models of the parts of this repository where orders, stock, payments,
credits and the therapists' time are kept consistent, the TLC configurations
that check them on small instances, and proofs checked by TLAPS. Paths below are relative to the repository root.

## The system

The repository is a set of Cloudflare Workers around one Airtable base. Airtable
holds the records (orders, order items, inventory batches, stock movements,
payments, sessions) and offers no transaction: a worker that changes two records
makes two HTTP calls, and either may be refused, fail, or succeed with its
answer lost. What atomicity there is comes from Durable Objects: one instance
per name, single-threaded between awaits, with storage of its own and an alarm,
and evicted at any time.

| part | state it keeps | operations | talks to |
|---|---|---|---|
| shop checkout (`himai-chat-worker/src/mmd-shop-checkout.js`, `shop-checkout-idempotency.js`, `shared/shop-checkout-once.mjs`) | one row per idempotency key in a Durable Object: state, stage, cart fingerprint, stored response; expiry alarm | claim or replay, validate, create customer, order and items, reserve, create the intent, compensate, settle, tombstone | stock coordinator, payments-worker, Airtable |
| shop stock (`shared/mmd-shop-stock-reservation.mjs`, `himai-chat-worker/src/mmd-shop-stock-coordinator.js`) | units left per batch, movement records, a reservation line in the notes of each order; the coordinator's promise tail, in memory | reserve, release, claim for review, abort, commit, expiry sweep (cron, every five minutes) | Airtable, payments-worker (expiry of intents) |
| shop payment (`payments-worker/shop-payment-v1.js`, `index.review-wrapper.js`) | payment intent (pending, paid, refunded, cancelled), payment status of the order | create, review preflight, settle or abort after verification, expire, refund | stock coordinator, Airtable |
| shop orders, admin (`admin-worker/src/mmd-shop-orders-admin.js`, `shared/mmd-shop-stock-reconciliation.mjs`) | order status, fulfilment and shipping lines in the notes | cancel, fulfil, ship, manual orders; stock inspection | stock coordinator, Airtable |
| payment intents and links (`payments-worker/index.js`, `unified-payment-proof.js`, `canonical-confirm-link.js`) | a payment row per reference, payment status of a session | intent, official verification, confirm link | session projection, Airtable |
| session paid projection (`payments-worker/session-paid-projection.js`, `verified-session-balance.js`) | a durable task and alarm per session, last result; the cached paid amount on the session | request, process, retry with backoff, give up to a person | Airtable |
| final payment (`payments-worker/final-payment-flow.js`) | the session's final payment reference | ensure the row, activate, derive the balance | Airtable |
| Double Moment credits (`payments-worker/double-moment-v2.js`, `double-moment-checkout.js`, `double-moment-approvals.js`) | per client, in a Durable Object with a promise tail: journals of activation, extension, redemption, discounts, approvals and final intents; four credit rows per claim in Airtable | activate, extend, redeem, check out, bill the rest, approve, discount, resolve | final payment, confirm link and coupon (which call back into it), Airtable |
| therapist dispatch (`mms-worker/src/my-mms-dispatch-runtime.mjs`, `my-mms-therapist-schedule-store.mjs`, `shared-booking-state.mjs`) | a Durable Object per job (state, winner, offers, answered keys), another per therapist (windows), and rows in Airtable that the handlers read first | match, accept, decline, start, complete, cancel | each other, Airtable |
| job lifecycle (`events-worker`), member requests and bookings, birthday wishes, calendar holds, promotion benefits, live rooms | Durable Object coordinators and Airtable rows of their own | see `PROJECT.json` | |
| chat, pages, identity, messaging, AI operations | conversations, rendering, tokens | see `PROJECT.json` | |

A purchase goes through the first four parts:

    customer -> checkout -> coordinator: reserve -> payments-worker: intent
    customer pays, sends a proof
    reviewer -> payments-worker: preflight -> coordinator: claim
             -> verification -> coordinator: commit -> order marked paid
                (or not verified -> coordinator: abort)
    every five minutes -> coordinator: sweep -> release, cancel the order,
                          tell payments-worker that the intent expired
    admin -> coordinator: release -> order cancelled

A session (a booking) is paid by a deposit and a final payment. Each passes
through intent, proof, review and official verification, which changes the
payment row and the session and then asks the session's coordinator to bring the
cached amount up to date; the arrival of the model activates the final payment.
A client who bought a Double Moment pays part of it with credits, which go
through the coordinator of their claims.

A massage is dispatched to the therapists that match; the first to accept has
it, starts it and completes it:

    operator  -> rows of the job and of its offers -> job coordinator: initialize
    therapist -> Airtable: read -> schedule: reserve -> job coordinator: accept
              -> schedule: release (if lost) -> Airtable: project

### What is hard about it

- *No transactions.* A batch is patched and then its movement is recorded; a
  refund patches the payment and then the order; a checkout writes up to six
  records before it can answer.
- *Reservations travel by value.* The reservation is a line of JSON in the notes
  of the order. Checkout, reviewers and admins read it, hold it across awaits,
  pass it to the coordinator, and write the notes back from it.
- *Answers get lost.* A write that timed out may have been made. The code can
  look for a movement already recorded, and cannot look for a batch already
  patched.
- *Lookup, then write.* A payment row is looked for and then made or patched,
  with nothing to exclude another caller in between.
- *Evictions.* The queue of the coordinator and the running job exist in memory
  only; the row of a checkout survives its execution.
- *Two owners of one fact.* A therapist's window and the job it is for live in
  two Durable Objects, and Airtable has a copy of both that is read first: a
  handler crosses the three, others run in between, and any may stop half way.
- *Request keys.* A coordinator answers a key it has seen as it did then, even
  when the state has moved on.
- *Time.* A reservation expires while its customer pays, is under review, or
  retries the checkout.

### What makes each part correct

- Checkout: a key places at most one order; an answer from the key's row is true of
  the records at that moment, the replayed ones included, unless an admin has begun
  to cancel the order; a failed run is compensated. A call refused before the row is
  looked at is told nothing about the key, although it may be allowed a new attempt.
- Stock: no unit is lost, sold twice or given back twice; movements explain
  batches; a hold ends; a verified payment keeps its units.
- Session projection: the cached amount is the verified sum, or somebody knows
  that it is not; no reference is counted twice; an interrupted update is
  finished or left to a person, never repeated as an increment.
- Final payment: one row per session, whatever is clicked at once.
- Credits: a claim pays for two jobs, a job is paid for once and not also
  discounted; a debit, an activation or an extension cut off anywhere is neither
  repeated nor lost; the final bill is for what the credits leave.
- Dispatch: nobody has two jobs at one time; who has a job holds its window, and
  in service blocks everything; windows of lost jobs are given back; Airtable
  never runs ahead of the coordinators.
- Fulfilment: an order only moves forward, and the lines different workers keep
  in its notes survive each other's rewrites.

`PROJECT.json` lists every component, the hazards at their lines, and which
properties cover them.

## Modules

| module | what it is |
|---|---|
| `OnceOnly` | abstract: what a checkout key promises |
| `ShopCheckout` | one key: the durable row, its checkpoints and replays, the writes of the checkout and their compensation |
| `ShopCheckoutProofs` | proofs about `ShopCheckout`: the key, its row and the promise |
| `ShopCheckoutWorldProofs` | proofs about `ShopCheckout`: the row, the writes and the answers together |
| `ShopStockLedger` | abstract: what the stock promises, in terms of movements |
| `ShopStock` | the coordinator's jobs write by write, the sweep, and the callers: checkouts, reviews, admins |
| `ShopStockProofs` | proofs about `ShopStock`: types, and that reservations are backed by movements |
| `ShopStockUnitsProofs` | proofs about `ShopStock`: where the units are, and the orders, payments and reviews that depend on it |
| `DerivedAmount` | abstract: an amount shown beside the money it is derived from |
| `SessionPaidProjection` | the payments of one session, the calls that write them, and the coordinator of the cached sum |
| `SessionPaidProjectionProofs` | proofs about `SessionPaidProjection` |
| `DispatchAssignment` | abstract: who has which job |
| `Dispatch` | the coordinators of jobs and therapists, the rows in Airtable, and the handlers between them |
| `DispatchProofs` | proofs about `Dispatch` |
| `MomentWallet` | abstract: what a claim may pay for |
| `DoubleMoment` | the coordinator of a client's credits, its journals and the Airtable rows it writes |
| `DoubleMomentProofs` | proofs about `DoubleMoment` |
| `SumTheorems` | lemmas about sums over finite sets, for the proofs about stock and payments |
| `MCShopCheckout`, `MCShopStock`, `MCSessionPaidProjection`, `MCDispatch`, `MCDoubleMoment` | values of the constants for TLC |

### ShopCheckout

`row` is the record `receipt` in the Durable Object's storage: `state`
(`processing`, `complete`, `failed`, `expired`), `stage`, the fingerprint
(`cart`) and what the stored response amounts to (`reply`). `call[r]` is one HTTP
request: its program counter and the variables of the running closure (the stage
in memory, whether the order is known, whether the reservation is held, the
status it will answer). `written`, `placed`, `order` and `stock` are the outside
world, and `admin` is where a cancellation of the order by an admin is.

| action | code |
|---|---|
| `Refuse`, `Arrive`, `Unreached` | the worker in front of the object (`handleReplaySafeShopCheckout`): a body that does not normalise is refused, with a new attempt allowed, before the object is asked; the others are sent on, and may be lost |
| `Claim`, `ClaimFails`, `Replay` | the claiming transaction and the answers to a row found, `runCheckoutOnce` |
| `Validate`, `Checkpoint`, `Write`, `Note` | the checkout in order; `Checkpoint` is the callback that stores the stage before each group of writes |
| `Release`, `Cancel` | the `catch` of the checkout: release, then cancel, each best effort |
| `Settle`, `SettleFails` | the outcome and its storage |
| `Age`, `Lapse`, `Tombstone` | 120 seconds, 45 minutes, and the object's alarm |
| `Sweep`, `Confirm` | the effects of `ShopStock`'s sweep and of a confirmed payment on this order |
| `AdminReads`, `AdminReleases`, `AdminCancels` | a cancellation by an admin (`updateFulfillment`), at any time: the notes are read, the stock given back, the order cancelled |
| `Evict` | the object disappears, its storage stays |

Data is abstracted: a cart is the fingerprint of the normalised body and the
member's identity, or a body that does not normalise (`Malformed`); an HTTP status
is a class (`2xx`, `4xx`, `5xx`), a record is the name of its kind. The model is of
one key: a call without one (428), or whose header and body name different keys
(400), is not in it.

### ShopStock

Units, movements and notes are kept apart, as in Airtable: `remaining[b]` is the
batch, `moved[kind][o][b]` the movement records, `notes[o]` the reservation line,
`order`, `paid` and `intent` the statuses. `job` is the one job of the
coordinator with its locals (the reservation passed to it, the allocations to
process, the batch in hand); `round` is what is left of a sweep, with the orders
as the sweep read them; `copy[c]` is the reservation caller `c` holds.

| actions | code |
|---|---|
| `Reserve`, `Take`, `Record`, `Undo`, `Shortage`, `Allocated`, `Note` | reservation: patch a batch, record it, put it back if the record fails, write the notes, roll back |
| `Release`, `Give`, `Given`, `Freed` | release: for each allocation without a release movement, patch and record |
| `Claim`, `Abort`, `Save` | begin and abandon a payment review |
| `Commit`, `Out`, `Sold` | the out movements of a paid order |
| `Answer` | the answer of the coordinator, and what each caller does on success and failure |
| `Sweep`, `Expire`, `Close`, `Void`, `Sync`, `SweepEnds` | the sweep: one listing, then order by order, then the calls to payments-worker |
| `Place`, `Pay`, `Jot`, `Cancel` | the checkout of an order, coarsely (`ShopCheckout` has it step by step) |
| `Preflight`, `Notify`, `Settle`, `Confirm`, `Abandon` | a review of a payment proof |
| `AdminCancel` | a cancellation by an admin |
| `Tick`, `Evict`, `CoordinatorEvicted` | 45 minutes; evictions |

Each write has three outcomes: made and answered, not made and refused, made and
the answer lost. The last two spend the budget `MaxFaults`.

Abstractions: an order has one line of one product (the code merges equal lines
and handles products one after the other); `Void` and `Sync` are one step each
where the code reads and then patches, which nothing else writes in between
because intents are created long before; a failing call to payments-worker that
throws ends the rest of a sweep, which has the effect of `CoordinatorEvicted`.
The lines of the notes other than the reservation are not modelled here.

The two models meet at the hold on one order: `ShopCheckout` sees the coordinator
as two writes (reserve, release), and the sweep and the confirmation of a payment as
one step each; `ShopStock` sees a checkout as `Place`, `Pay`, `Jot`, `Cancel`.

### SessionPaidProjection

`rows` are the payment rows of one session in Airtable, named by the call that
made them; `payStatus` and `shown` are two fields of the session, written by
different workers. `call[c]` is one HTTP request, with what it learnt before its
last await. `pending`, `alarm` and `lastResult` are the coordinator's storage,
`job` the request or alarm it is serving, `flight` the sums in writes that timed
out and may still be made.

| actions | code |
|---|---|
| `Seek`, `Find`, `Write` | an intent (`handleVerify`) looks for its row; `createOrUpdatePaymentIntent`, for intents and verifications, looks again and patches or creates |
| `Session` | `updateSessionFromPayment` |
| `Balance`, `Look`, `Create` | the activation of the final payment: read the ledger, look for the row, create it |
| `Accept`, `Arm`, `AlarmFires`, `Begin` | `fetch`, `alarm` and the start of `process`: task, alarm, attempt |
| `ReadFirst`, `ReadFresh`, `Patch`, `ReadBack` | `reconcile` |
| `Conclude`, `Fail`, `Rearm`, `Clear`, `Disarm` | the end of `process`, each storage operation a step of its own |
| `Land` | a write that timed out is made after all |
| `Reverse` | a person marks a payment reversed |
| `CallerEvicted`, `Evict` | evictions; a handler that is evicted while serving an alarm is called again |

Any read or write may fail at any step. Abstractions: the session and the ledger
are read at once, because nobody else writes the cached sum of a session in this
lane; a blank sum is 0; the two storage writes that open `process` are one step,
since nothing outside can tell them apart; `MaxAttempts` stands for the six of
the code. Left out: lanes other than the service's (the coordinator skips them),
the report beside the sum (off unless its fields are configured), applied
credits, and membership renewals, which upsert.

### Dispatch

`job`, `offer` and `answered` are the three tables of the job's coordinator,
`window` those of the therapists' coordinators: a row is `HELD` for its service
time, `SEEDED` (the code's `ACTIVE` with the service time, of a job found in
Airtable), `ACTIVE` for all time while in service, or `RELEASED` for good. `rows`,
`row` and `offerRows` are Airtable: how many rows a job has, what they say, how
many rows each offer has. `call[r]` is the handler of a request; a request is an
operation, a job, a therapist and a key, and may be sent again for ever.

| actions | code |
|---|---|
| `MatchLook`, `CreateJob`, `CreateOffer`, `Initialize` | `dispatchPrebooking`: look for the job, create it and its offers row by row, then tell the coordinator |
| `Open`, `List`, `Reserve` | the beginning of accept and start: read, list the therapist's jobs, reserve |
| `Mark` | `markInProgress`, for a start |
| `Accept`, `Transition`, `Decline`, `Cancel` | the methods of the job's coordinator, each remembering its answer |
| `CompleteOpen` | the reads before a completion |
| `Settle`, `Project` | the schedule, then Airtable, after the coordinator has answered |
| `Expire`, `Stop` | the offers lapse; a handler is evicted, or the answer of a call is lost |

Each Durable Object method is one step: they are synchronous over their SQLite
tables. Abstractions: times are a relation (`Overlaps`) and one flag per job; the
reads of `readSharedMmsJob` and of the offer are one step with the guards they
lead to; the offers' statuses in Airtable, prices and addresses are left out; a
window of unknown length (`BLOCKED`, of old records) is left out.

### DoubleMoment

The variables of the first group are the keys of the coordinator's storage, with
the code's names; those of the second are Airtable. `run` is the one handler that
runs: the promise tail admits no other until it ends. A `PATCH` is made when it is
sent or not at all; a create whose sender stopped may still land (`late`, `Land`).

| actions | code |
|---|---|
| `Activate`, `AttemptCredit`, `CreateCredit`, `ApplyClaim`, `ActivateDone` | `activate`: each create is journalled before it is sent, and never sent twice |
| `Extend`, `ExtendCredit`, `ExtendClaim`, `ExtendDone` | `extend`: the pending request, four credits, the claim, then three journals at once |
| `Checkout`, `RedeemDirect`, `Debit`, `DebitDone` | `checkout` and `redeem`: the allocation and the job's claim in one put, the debits, the completion |
| `FinalIntent`, `ReadFinal`, `CreateFinal`, `FinalDone` | `finalIntent` with `ensureFinalPaymentIntentUnlocked` |
| `Approve`, `Revoke` | approvals of a job, bound to the hash of its rows |
| `Mutate`, `DiscountBegin`, `PromoRefused`, `SetPrice`, `DiscountDone`, `Resolve` | a change of price, run inside the coordinator, and its resolution by a person |
| `JobMoves`, `Month`, `Stop`, `Land` | other writers of the job, time, evictions, late creates |

Abstractions: months since the purchase stand for dates, and a handler reads the
clock when it begins; amounts are left out except which of the two possible final
amounts was billed; `Changing` and `Billable` name the jobs whose rows change and
that the staff bill, to keep the instance small. The redeem action is called by no
other worker of the repository; it is modelled for a job that nobody bills.

## Checks

Every cfg gives the constants their values and says `CHECK_DEADLOCK FALSE`: the
systems come to rest when every call is answered and every order or task has
ended.

| run | instance | shows |
|---|---|---|
| `shop_checkout` | four calls with one key, two with the same cart and one whose body does not normalise, 2 faults, a sweep, a confirmed payment, an admin; about 0.64 million states | at most one order per key; the row says "start over" only if the key wrote nothing, and the worker in front of it never to a call with the cart that was bought; the stored stage covers every record written; calls agree, and only about their own cart; a run that fails without a fault is undone; "ok" is said only while the order stands, or when an admin has begun to cancel it; every call is answered; `OnceOnly` is implemented |
| `shop_stock` | two orders that both want two units of three, three reviews (two of one order), no faults; about 12 thousand states | movements explain batches, notes account for every unit, money keeps its order, a paid order has its units, a review holds its stock, a committed reservation is final, holds end, intents follow, `ShopStockLedger` is implemented |
| `shop_stock_faults` | two orders, a review, a cancellation by an admin, 2 faults; about 1.6 million states | no reservation exceeds its reserve movements, no movement is made twice |
| `shop_stock_review_cancelled` | one review, one admin, no fault | a disagreement with the code's promise, see below |
| `session_projection` | a deposit and a final payment verified, the final payment activated, either reversed, one eviction, failures anywhere; about 1.2 million states | a sum that is not current is known not to be; "ok" covers every payment the coordinator was told of; `DerivedAmount` is implemented, so that the sum shown is always one of those that were right |
| `session_late` | the deposit verified twice at once, an intent, writes made late, one eviction; about 0.26 million states | never more is shown than was paid, even of a reference with two rows; one intent does not set back what is verified; every task with an alarm ends |
| `session_intent_resets` | two intents, one verification | a disagreement, see below |
| `dispatch` | one therapist, two jobs at one time, every operation on the first; three handlers at once, one stops; about 0.63 million states | no double booking; whoever has a job holds its window and blocks the others in service; Airtable is never ahead |
| `dispatch_race` | two therapists after one job, one of them with a job from before the coordinators; three handlers at once, one stops; about 0.15 million states | `DispatchAssignment` is implemented; windows of lost or finished jobs are released |
| `dispatch_second_key`, `dispatch_stuck` | one therapist, one handler at a time | disagreements, see below |
| `double_moment` | two claims (one active), three jobs, two discounts and a plain change, two extensions and one too long, one month, one stop anywhere | credits follow the journals; expiries agree; the final payment is billed once and for the rest; what stopped can be resumed; `MomentWallet` is implemented |

### Bounds

Four calls are enough for an owner, a retry, another cart and a body that is
refused; two faults cover a failure and a failure of its compensation. In the stock runs a second
order is needed for competition and a third review for one that follows an
aborted one; one order draws on two batches, so that a reservation can fail half
way; units are short for the second order, so that the roll-back happens. The
budget of faults is the only bound on a counter.

In the session runs the two payments have the amounts 1 and 2, so that counting
one twice shows; two attempts are enough for a retry and for giving up; one
eviction is tried at every step. Failures need no budget: an attempt that fails
is counted by the code itself. The eviction bound also limits the repeats of an
alarm.

In the dispatch runs two overlapping jobs are what double booking needs, and two
therapists what a race needs; three handlers at once let one be between a
reservation and a claim, one between a claim and a projection, and a third
release. `MaxInFlight` bounds the handlers at one time, never how many there are
in all. In `double_moment` two claims compete for one job, three jobs for the two
moments of one claim; the clock passes the first expiry and not the extended
ones; one stop is tried at every step, with or without its create landing later.

### Where the properties stop

The checkout's answers have two exceptions, which their properties name. A body that
does not normalise is answered with `new_attempt_allowed: true` by
`shop-checkout-idempotency.js:51` without a look at the key's row, also while the key
is executing or after it placed an order. `NewAttemptIsSafe` and `OnceOnly` therefore
promise "nothing was written" of what the row says, and of a refusal in front of it
only that nothing was written for the body refused; if all calls of a key send one
body nothing was written at all (`OneBodyStartsOverSafely`). The shop's pages keep to
that: they save the body with its key and send it again as saved
(`webflow/shared/shop-checkout-safety.js`; the bridge worker refuses another body
while an attempt is unresolved). And an order that an admin cancelled within the 45
minutes is still answered "ok" from its stored receipt, because
`shop-checkout-once.mjs:26` looks only at `expires_at`: `OkWhileOrderStands` holds
until an admin begins to cancel.

The stock properties were tried under all three sources of trouble, one at a
time, and the configurations above are the ones in which each holds:

| | one fault | an admin | overlapping reviews |
|---|---|---|---|
| `LedgerReconciles` | violated | holds | holds |
| `AllocationsBacked`, `MovedOnce` | hold | hold | hold |
| `UnitsAccountedFor`, `MoneyKeepsOrder`, `PaidOrderHasUnits` | violated | violated | violated |
| `ReviewHoldsStock` | violated | violated | holds |
| `CommittedIsFinal` | holds | violated | violated |
| `KeepsLedger` | violated | violated | violated |

`CommittedIsFinal` is violated by two faults and three reviews of one order: one
reviewer stops while it commits, one while it aborts, and a third goes on with
the copy of the second. An admin who cancels only an order nobody reviews breaks
`UnitsAccountedFor` alone. One of the violations contradicts something the repository says, and is kept as
a run and a finding: an admin who read the reservation before its review began
releases the units of an order under payment review. Another is a limit worth
knowing: an answer lost between the patch of a batch and its movement leaves a
batch its movements do not explain.

In the session model an intent that found a pending row sets it back to pending
after it was verified, which a comment of the code rules out
(`session_intent_resets`); that is why the runs with an intent have one only, and
no reversals. Two limits besides, which no run is kept for: a `PATCH` that timed
out is repaired by a fresh reconciliation only if it arrives before that
reconciliation reads back, and otherwise overwrites the newer sum, so that
`NeverSilentlyStale` fails with `LatePatches` (`NeverOverstated` holds all the
same: the sum was true once); and two activations of the final payment at once
make two rows of one reference.

In dispatch two statements of the repository are contradicted. A therapist who
accepts with a new key a job already in service is answered `IN_PROGRESS`, and the
handler then releases the window (`dispatch_second_key`); keys are drawn per page,
so a second page is enough. All other dispatch properties are therefore stated for
one key per operation, job and therapist. And an accept that stops before its
projection leaves a row without its winner, which every later read takes for an
inconsistency, the read of the retried accept included (`dispatch_stuck`). Further
limits: a window whose handler stopped is freed by a retry only, and a retry for a
cancelled job is refused before that; the row of a job may stay behind when
projections arrive out of order; a job from before the coordinators may be seeded
again after its release; two dispatches at once create two rows, after which the
job cannot be read; a dispatch that stops before the coordinator is told cannot be
repeated.

A deposit notified again after the final payment sets the session's payment status back
from paid to partial: `Session` has the step, the code and its documents do not say
which should win, and no property claims either.

In the credits nothing of the kind was found. Their limits: a create that was
journalled and whose answer was lost is left to a person; a debit half done when
its credits expire, or an extension half done when its new date passes, cannot be
resumed; a person can resolve as applied the discount of a job that was redeemed
since.

`NeverSilentlyStale` has exceptions, and they are part of the statement: after a
reversal the coordinator refuses to sum and asks for a person, and a
verification whose worker was evicted, or failed, before it reached the
coordinator leaves a row nobody was told of, until its retry.

### Fairness

A step of a call, a job or a caller that can go on does go on: an `await`
resolves or rejects. The coordinator serves its queue (its promise tail catches
the errors of each job) and its sweep is scheduled every five minutes. The
runtime delivers the alarms of the session's coordinator and the requests waiting
for it. A dispatch handler that can go on does, and a client sends an accept, a
start or a completion again until it is answered (weak fairness of the steps,
strong fairness of the repeated beginnings, because what it reads may change in
between); nobody has to decline or to cancel. The model of the credits states no
fairness and no liveness: what stops there is resumed by people and pages, so
`Resumable` says that it can be. Nothing is
assumed of the calls to payments-worker, which may stop anywhere, nor of customers, reviewers, admins, clocks or failures. Faults are bounded,
so a retried sweep eventually gets through.

## Proofs

Checked by TLAPS for every value of the constants: any number of calls, carts,
orders, batches, reviews, admins, verifications, activations, jobs, therapists,
claims, requests, faults and evictions. Every safety property, action property
and refinement that a passing run checks is a theorem.

Every theorem rests on the assumptions its module states, which are those of the
data the code can be given: each call carries one body, and any of the bodies may be
malformed; the kinds of
caller are disjoint; each review and cancellation is of an order; quantities,
amounts and budgets are numbers; there are finitely many orders and calls
(`OrdersAssumption`, `SizesAssumption`: sums are taken over them); overlapping is
symmetric, a job has candidates, and nobody held two overlapping jobs before the
coordinators existed; terms and months are in order. Some need more, and say so
in an `ASSUME` of their own, because TLC shows that they fail without it:

| assumed | where | without it |
|---|---|---|
| either all the calls of a key normalise or none does | `OneBodyStartsOverSafely` | a malformed body is allowed a new attempt under a key that has placed an order; `NewAttemptLeavesNothing` says what holds then |
| `MaxFaults = 0` | `InspectionAgrees` | a lost answer between a batch and its movement (see the table above) |
| `Apart`: no faults, and no admin cancels an order that is under review by anyone | `ReviewKeepsUnits` | `shop_stock_review_cancelled`; a fault breaks it too |
| `Calm`: `Apart`, and no overlapping reviews | `MoneyNeverLosesItsOrder`, `PaidMeansSold`, `SoldStaysSold`, `NotesAccountForUnits`, `MovementsKeepLedger` | a fault, an admin at an order under review and overlapping reviews each break each of them, but for `SoldStaysSold` under one fault (see the table above) |
| `Calm`, and no admin cancels anything | `NotesAccountForUnits` | an admin who cancels an order that nobody reviews writes the copy it read, whatever the checkout of the order does meanwhile; the stock itself stays right (`InspectionAgrees`, `MovementsKeepLedger`) |
| `Alone`: an intent shares its reference with verifications only, and where there are intents nothing is reversed | all theorems about the session but `TypeCorrect` and `RetryHasAlarm` | a second intent sets a verified payment back (`session_intent_resets`), and then even `NeverOverstated` fails: what is shown was verified once |
| `LatePatches = FALSE`: a write is made in time or not at all | `StaleIsKnown`, `OkShowsAll`, `ProjectionKeepsAmount` | a late write puts an older sum over a newer one |
| `OneKey`: a therapist accepts a job with one request key, and a job from before the coordinators has been accepted already | `NeverDoubleBooked`, `WindowStaysWithOwner`, `AssignmentKept` | `dispatch_second_key` |
| `UnbilledDirect`: the redeem route is not called for a job the staff bill | `BilledOnceForAll` | the route does not compare the bill with the credits as the checkout does; no worker calls it |

| theorem | states |
|---|---|
| `ShopCheckoutProofs!TypeCorrect` | the types of `ShopCheckout` |
| `NeverTwice` | `AtMostOneOrder` |
| `NewAttemptLeavesNothing` | `NewAttemptIsSafe`: told by the row, nothing was written for the key; refused in front of it, nothing for the body refused |
| `OneBodyStartsOverSafely` | where the calls of a key send one body, nothing was written for the key when anybody is told to start over |
| `PromiseKept` | `ShopCheckout` implements `OnceOnly`, which excepts the calls that cannot be read |
| `StageCoversWrites` | `StageAheadOfWrites` |
| `AnswersAgree` | `OneOutcome` |
| `FailureIsUndone` | `FailureUndone` |
| `OkIsTrueWhenSaid` | `OkWhileOrderStands`: open and held, or paid and sold, or an admin has begun to cancel |
| `StockTypeCorrect` | the types of `ShopStock`; in particular no batch falls below zero |
| `NothingUnbacked` | `AllocationsBacked`, with failures anywhere and overlapping reviews |
| `MovementsOnce` | `MovedOnce`, likewise |
| `InspectionAgrees` | `LedgerReconciles`, with cancellations and overlapping reviews |
| `MoneyNeverLosesItsOrder` | `MoneyKeepsOrder`, with admins who cancel other orders |
| `UnreviewedNeverSold` | an order that no review is about is neither paid nor sold, and its reservation never committed, whatever fails and whoever cancels: the payment of one order is never settled by the proof of another |
| `ReviewKeepsUnits` | `ReviewHoldsStock`, with overlapping reviews and with admins who cancel other orders |
| `PaidMeansSold` | `PaidOrderHasUnits`, with admins who cancel other orders |
| `SoldStaysSold` | `CommittedIsFinal`, with admins who cancel other orders |
| `NotesAccountForUnits` | `UnitsAccountedFor` |
| `MovementsKeepLedger` | `ShopStock` implements `ShopStockLedger`, with admins who cancel orders nobody reviews |
| `SessionPaidProjectionProofs!TypeCorrect` | the types of `SessionPaidProjection` |
| `RetryHasAlarm` | what `PendingEnds` rests on: between two jobs, a task that was tried, and a result that promises an attempt, have the task stored and its alarm set |
| `TruthStays` | `MoneyTruthStays`, with writes as late as may be |
| `NeverTooMuch` | `NeverOverstated`, likewise |
| `StaleIsKnown` | `NeverSilentlyStale` |
| `OkShowsAll` | `OkIsCurrent` |
| `ProjectionKeepsAmount` | `SessionPaidProjection` implements `DerivedAmount` |
| `DispatchTypeCorrect` | the types of `Dispatch`, with any keys |
| `NeverDoubleBooked` | `NoDoubleBooking` |
| `WindowStaysWithOwner` | `OwnerKeepsWindow` |
| `AirtableFollows` | `RowFollows`, likewise |
| `StrayWindowsInHand` | what `LosersLetGo` rests on: while no handler has stopped, a window that blocks time for a job that is not the therapist's to do has a handler in charge of it; with any keys |
| `AssignmentKept` | `Dispatch` implements `DispatchAssignment` |
| `DoubleMomentProofs!TypeCorrect` | the types of `DoubleMoment` |
| `OneExpiryForAll` | `ExpiriesAgree` |
| `CreditsFollow` | `CreditsFollowJournal` |
| `WalletKept` | `DoubleMoment` implements `MomentWallet` |
| `BilledOnceForAll` | `BilledOnceForTheRest` |
| `StoppedIsAccepted` | what the guards say in `Resumable`: once nothing runs, a job whose credits are promised may be redeemed again, and a pending extension to a later month has a request that may go on with it |

*Checkout.* `AtMostOneOrder` is not inductive: one has to know that a call that
executes is the only one, that while it has not reached the order write nothing
was placed, and that once the row exists nobody can start again. The inductive
invariant adds exactly that: at most one executing call; no execution and no
write without a row; the writes made are those before the owner's position; the
owner's stage in memory agrees with its position, so that "claimed" means
that nothing was written; a row that stores `new_attempt` belongs to a key that
wrote nothing and has no execution. `ReadFirst` adds that only a body that normalises
gets to the row, and only another is refused in front of it. `PromiseKept` follows with one lemma per
action: each step of the checkout is `Take`, `Write`, `Finish`, `Abandon`,
`Answer` or a stutter of `OnceOnly`.

*What a checkout leaves.* The other properties relate what the row says to what was
done, and each is inductive only together with the position of the execution.
While nothing has been thrown, the stage in the row and in memory, the writes, the
order and the stock are functions of that position (`OnCourse`), except for what an
admin has undone. After a throw the
handler no longer knows: what remains is that both stages still cover the writes,
and that, if there was no fault, what is still to be undone is what the handler
remembers and has yet to undo (`OffCourse`). A row whose execution is over stores an
answer that is true of the world (`StoredIsTrue`) until it expires or an admin
cancels, and an outcome
told is the one stored (`ToldIsStored`), which gives `OneOutcome`; and nothing
expires, and no payment is confirmed, under an execution (`NotDueAtWork`).

*Stock.* `AllocationsBacked` speaks of notes and copies; a job writes what it has
in its locals, and a sweep what it read earlier. The inductive invariant
therefore backs all the places a reservation can be in (`NotesBacked`,
`CopiesBacked`, `RoundBacked`, and the job's copy in `WorkOK`), and says what the
locals mean: an allocation enters the job's copy only after its movement, and the
batch in hand is one of the allocations being processed. Movements only grow,
which is what keeps the stale copies backed.

*Units.* `ShopStockUnitsProofs` goes on in five layers, each under the weakest
conditions it was found to need. `MovesInv` holds whatever happens: wherever a copy of a
reservation has a batch, it has all the units its order reserved there
(`CopiesExact`); nothing moves before the checkout of the order reserves; and what
a job has still to give back or to sell was not moved before, while the rest was
(`JobInStep`), so that giving back twice the same copy moves nothing twice.
`ShelfInv` is that of a bookkeeper: without faults a batch has what the movements
say, but for the units in the hands of the job. `UnreviewedInv`, which needs no
condition either, follows the copies of an order that nobody reviews: only a commit
sells, and only a review asks for one. `CalmInv` needs to know who does
what: for each order that no admin cancels (`Quiet`), what its notes say against where its checkout and its
reviews are (`NotesFollow`, `ReviewFollows`), against its movements
(`UnitsFollow`) and against its payment (`PaymentFollows`); that what the sweep
read of the orders it ends is still so when it ends them (`SweepFollows`); and
what each kind of job has in its copy at each of its steps (`JobFollows`). Most of
the proof is that a step at one order leaves all this as it is for the others
(`AtOneOrder`). Of the orders that admins cancel, `CalmInv` says only where their
checkouts are; a job about one of them touches no other order (`JobElsewhere`), and
what the theorems say of it follows from `UnreviewedInv`. `HoldInv` is what remains where reviews overlap: the
units of a reviewed order are kept until its time is up, and a claim is saved only
while they are; the sweep frees only orders whose time is up and whose notes are
not under review; and a review that aborts gives units back only then too, in the
job that also writes its claim out of the notes (`Returning`). That there is one
job at a time is what makes this inductive.

*Session.* `RowsInv` says which rows a call may be about to write: the row it found
is of its reference, and an intent that found one knows it was verified. Hence what
is paid only grows, and a ledger that can be summed at all, that is without
reversals, has exactly what was ever paid (`ReceivedIsPaid`): each reference
counts once, whichever of its rows are there. `ShownInv` then bounds by it whatever is shown, on
its way in a late write, or about to be written, which is `NeverOverstated`.
`RisingInv`, with writes in time, adds that a sum is written to show more than
before and that the sum read back has all the coordinator was told of; it gives
`OkIsCurrent` and, with `ShownInv`, the refinement. `Current` is about what nobody
was told: between the read-back and the last step of a job the sum may be
outdated by a verification that has written its row and not been answered. It says
for the whole stretch from the read-back on, and for as long as the result "ok"
stands without a task: if every verification is heard of (not begun to write,
answered, or the one being answered) and nothing is reversed, the sum shown is
that of the rows. Two facts carry it: a verification leaves the set of those heard
of with the very step that writes its row, and comes back only at the end of a job
that read the ledger afterwards; and while a job is on its task is stored
(`TaskOK`), so that a job cut off in the middle does not look finished. `TypeOK`
bounds the attempts and needs `AttemptsOK`: one for each try, and one more for
each eviction, whose alarm comes again without being counted by the code. `Armed`
follows the alarm: only the last step of a job takes it away, after the task is
cleared, and a job that clears its task has written a result that promises nothing.
With `TaskOK` it is inductive without any condition, and gives `RetryHasAlarm`.

*Credits.* `CreditInv` follows each create from its journal entry on: a credit was
journalled before it is sent, is sent once, and is not in its table while it is on
its way, landing late or not (`RowOK`); so a complete journal has one row per
credit. An extension has made the new expiry of all the rows it is done with
(`ExtensionOK`), and whoever is not in an extension sees one date (`OneExpiry`).
`WalletInv` says that the allocations of the claims and the claims of the jobs are one
relation (`ClaimedOnce`) and that a debit has its allocation (`DebitsFollow`); with
it each step is `Give`, `Settle` or `Discount` of `MomentWallet`, or a stutter. `BillInv` follows the
creates of the final payment in the same way, with the amount each was sent for:
the credits of a job cannot change once a bill is on its way, because the checkout,
behind the same promise tail, first looks for a bill (`Comparable`).
`Resumable` itself speaks of `ENABLED`, but `Redeem` and `Extend` only assign beyond
their guards `MayRedeem` and `MayExtend`, and `StoppedIsAccepted` says of these what
`Resumable` says of the actions. What
could stand in the way is what the stopped handler wrote itself, and `ResumeInv` says
what that may be. While an extension is pending (`Held`), each row has the old
expiry or the new one, the journal has the old one, a credit is unused, and a
request for just this extension exists; and a request with a receipt asked for no
later an expiry than was reached (`ReceiptsPast`), so that the receipts do not
answer the one that is pending. A claim with an allocation is complete and
applied (`ClaimResumes`). The handlers between two awaits are held to the same (`RunResumes`).

*Sums.* The sum over a set in the community modules is a fold, and what a fold computes is
proved by induction over the set. The library's induction theorems take an
operator, which the provers cannot instantiate; `SumTheorems` does without them, by
a least counterexample among the subsets (`SmallestSet`). It proves that
the sums exist, that any element may be taken out first (`AnyFirst`), and from that
how a change of one value changes a sum, that equal values have equal sums and larger values larger
ones, and that a set that maps injectively into another with the same values has
no larger sum (`SumInto`).

*Dispatch.* No handler holds two coordinators at once, so what it learned from one
may be old when it speaks to the next. The proof rests on what cannot become old.
A therapist is `Gone` from a job when another has it, it is over, or its offer is
no longer open; no step undoes that (`GoneForGood`), nor what an answer said
(`SoundForGood`), whether it is on its way or remembered for a retry. A window is
released only on such an answer, so a released window means `Gone` (`WindowOK`):
a claim that succeeds does so under a window that still blocks, however long ago
it was reserved. `Holds` is having such a window, or a job from before, and not
being `Gone`; two overlapping jobs are never both held, because a reservation
looks at the windows and, through the jobs listed (`ListOK`), at those from before
that have no window yet. An owner holds its jobs, which gives `NoDoubleBooking`,
and the guard of `Take` in the refinement. `OneKey` enters in one place
(`WinnerAnswered`): the retry of the winner's accept finds the answer remembered,
where a new key would be told the state of the job and release the window. What
needs it stands in the invariant under `OneKey =>`, so that `TypeOK` and `RowFollows`
need it not. With one key it
follows that `restoreScheduledWindow` is never reached: a start of the owner is
answered `IN_PROGRESS`, `COMPLETED` or `CANCELLED`. There is one lemma per action,
and one for all that leave the coordinators, the schedules, or both, alone. `LetGo`
adds whose turn it is, with any keys, as long as no handler has stopped: a window of
somebody who has not the job belongs to an accept at the coordinator or on its way to
the release, and one of a job that is over to whoever completed or cancelled it
(`InCharge`). It needs that an accept only asks about a job that was offered, so that
it is never sent away undecided, nor is that answer remembered for its retry.

*Only model-checked.* Liveness, which the prover does not do: `EveryCallAnswered`,
`HoldsEnd`, `IntentFollows`, `PendingEnds` and `LosersLetGo`; and `Resumable`,
which speaks of `ENABLED`. What three of them rest on is safety and proved: that a
task has its alarm (`RetryHasAlarm`), a window somebody in charge
(`StrayWindowsInHand`), and the guards that `Resumable` is about
(`StoppedIsAccepted`); what remains to TLC is that the steps are then taken.

## Not modelled, and why

- Parsing, formatting, prices, addresses, messages, authentication: data that no
  property tells apart.
- Listings that stop after 2000 records and notes cut at 16000 characters: noted
  as hazards.
- Language-model conversations, page rendering, one-off migrations: no protocol.
- Everything `PROJECT.json` marks as planned.

## Plan

1. `ShopFulfilment`: the transitions of an order, refunds (two writes), and the
   lines of the notes that different workers rewrite.
2. `CalHolds`: the read-back and retry of calendar holds.
3. `ConfirmLinks`: the canonical confirm link (a lookup and a patch of session
   and payment, unconditional), its tokens, and the reissue of confirmations.
4. The purchase of a Double Moment; the departure of a therapist.
5. Member coordinators, the job lifecycle of events-worker, promotion benefits,
   live rooms.
