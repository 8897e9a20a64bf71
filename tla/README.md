# Loyable, specified in TLA+

Loyable (`src/src`, TypeScript on Express, Postgres through Prisma, Redis and
BullMQ) is a multi-tenant retention platform: shops award points for visits,
customers spend them on rewards, and the platform sends WhatsApp campaigns on the
shops' behalf. This directory holds TLA+ models of its core, the TLC runs that
check them and TLAPS proofs of what matters most.

Contents: [1. The system](#1-the-system) ·
[2. Plan](#2-plan) · [3. PointsLedger](#3-pointsledger) ·
[4. MessageDelivery](#4-messagedelivery) · [5. Redemptions](#5-redemptions) ·
[6. Campaign](#6-campaign) · [7. Sales](#7-sales) · [8. Billing](#8-billing) ·
[9. WhatsAppSession](#9-whatsappsession) · [10. Sessions](#10-sessions) ·
[11. Proofs](#11-proofs) ·
[12. Disagreements](#12-disagreements-of-code-and-docs) ·
[13. Not modelled](#13-not-modelled) · [14. Running](#14-running)

## 1. The system

One Node process serves HTTP, runs the BullMQ workers and runs the cron jobs, and
may be started several times; the only state the processes share is Postgres
and Redis. Nothing holds a lock across an `await` except a database transaction,
so every `await` is a point where another request, job or cron run may act. All
the transactions run at Postgres' default isolation, READ COMMITTED.

| component | state | operations | what is hard | what makes it correct |
|---|---|---|---|---|
| Points ledger (`loyalty-service`, and callers in the POS, portal, customers, cron, automation code) | append-only `RewardPointsLedger`; `Customer.currentPointsBalance`, a cache of its sum; `Visit.pointsEarned` | credit, debit, accrue, backfill, reconcile, expire, e-mail bonus, feedback reward, initial points, automation award and deduction | balance read and written back absolutely; one visit accrued from three places; a unique index as the only guard | a visit is credited once, the balance is the ledger's sum, and below zero only by what automations deducted |
| Message delivery (`messaging-queue`, `messaging-worker`, `messaging-gateway`, `whatsapp-reliability`) | `MessageQueue` rows, BullMQ jobs, Redis quota, pause flag, warm-up counter, pacing stamp, consent flags | enqueue, process a job, route, acknowledge, reap, opt out | five jobs at a time, at-least-once jobs, retries, failing calls in the middle, midnight | no unexplained duplicate, opt-out obeyed, quota conserved, cap kept, every row ends |
| Campaigns (`campaign-service`) | `Campaign.status`, `sentCount`, the rows of a launch, the launch job | create, edit, approve, schedule, pause, launch | launches race; a chunk of rows is found again by its time window; a job is retried, its id kept for days | everyone is queued, twice only for a reason; a scheduled campaign goes out |
| Rewards and gift cards (`loyalty-engine-service`) | reward stock, redemptions, gift-card balance, status and holder, the money wallet | redeem, issue, claim, transfer, delete, spend | checks outside the transaction that acts on them | a card is paid once, moves by its holder, stock and wallet hold without overlaps |
| Coupons, referrals, birthday (`loyalty-service`, `cron-service`) | coupon status, referral row, ledger | issue, redeem under `FOR UPDATE` or in the portal, convert, void | two tills at once; a portal without the lock | a till honours an unspent coupon only, a referral is paid once |
| POS webhook, check-in (`webhook-pos`, POS, portal and loyalty controllers) | `PosWebhookLog`, `Visit`, the customer's counters | process a sale, check in, start a milestone automation | redelivery, a crash after the log row is written, limits checked before they are used up | a sale is booked at most once and lost only by a fault, limits hold without overlaps |
| Billing (`stripe-service`, `lemonsqueezy-service`, `entitlement-service`) | `Subscription`, `ProcessedWebhook`, Redis tier and quota | apply an event, override the features, pause and resume the tenant | events out of order or twice, Redis written after the row, key by key | quota and features follow the plan, a paid tenant is not left paused |
| Sessions (`token-service`, `auth-service`, `totp-service`; the browser's cookie and local storage) | `UserSession` rows, a fallback hash on the user, reset links in Redis, denied tokens | log in, rotate, log out, reset the password, force out, deactivate, terminate | two requests with one token; a device that does not know its session id; two places for a token; a reset while a log-in is half done | a token is rotated once, a request ends the session of its own device, a reset ends them all |
| Tenant scope (`tenant-scope-middleware`, `super-admin`) | cached active flag | check, suspend | the cache outlives the suspension | a suspended shop stops within the cache's life |
| WhatsApp sessions (`baileys-service`; `circuit-breaker`, health loop) | session map, flags and timers of one process, credentials in Redis; failure window | start, stop, close, reconnect, log out; open the breaker | close events that come late, a flag per business and not per socket | a lost connection is reconnected, a bounded number of times |
| Automations (`automation-service`, `automation-compiler`) | workflows, runs, delayed jobs | trigger, run, retry | actions repeated by a retry | an action is applied once per run |
| Tiers, segments (`loyalty-service`, `segment-builder-service`, cron) | tier and segment of a customer | evaluate, rebuild | boundary values | the rules are total and monotone |
| Consent (`gdpr-service`, `messaging-gateway`) | consent flags, audit rows, erasure state | opt out, update, erase | several writers of one flag | the last decision of the customer stands |
| Portal log-in | one-time code, attempts | request, verify | attempts counted in Redis | a code is used once |

The components meet at these places. Campaigns, automations, birthday bonuses
and the like produce `MessageQueue` rows and jobs for the message worker
(`Campaign` ends where `MessageDelivery` begins: a job of a row). The check-in,
the POS webhook, the portal and the rewards call the points ledger (`Sales` and
`Redemptions` call what `PointsLedger` models as one step that may be
refused). A `STOP` message, sentiment and delivery receipts come back from the
gateway and change the customer flags and row status the worker reads. Billing
writes the quota the worker decrements and the flag that pauses it (`Billing`
has the worker as far as these two keys go). The erasure of a customer reaches
into coupons, wallets and referrals (`Redemptions`). A session that is not
connected is a rejected send.

`PROJECT.json` lists every component, and under "hazards" the places where each of
them is hard to test.

## 2. Plan

Most important behaviour first. A module is written so that it can be proved
about: constants with named assumptions, an action per statement or operation, no
RECURSIVE operator.

1. **PointsLedger** (done): what writes balance and ledger, except the erasure
   of a customer, which deletes the ledger (section 13). Proofs: `PointsLedger_proofs`.
2. **MessageDelivery** (done): the message worker and all that acts around it.
   Proofs: `MessageDelivery_proofs`.
3. **Redemptions** (done): coupons, gift cards, the wallet, rewards,
   referrals, erasure; the coupons implement the abstract **Vouchers**.
   Proofs: `Redemptions_proofs`.
4. **Campaign** (done): approval, schedule, pause and launch, with the launch
   job and its retries. Proofs: `Campaign_proofs`.
5. **Sales** (done): a sale under redelivery and crash, and the check-ins; the
   webhook implements the abstract **Inbox**. Proofs: `Sales_proofs`.
6. **Billing** (done): Stripe and Lemon Squeezy events in any order, twice or
   lost; plan, quota and features in Postgres and Redis; Lemon Squeezy's webhook
   implements **Inbox** too. Proofs: `Billing_proofs`.
7. **WhatsAppSession** (done): one Baileys session. Proofs:
   `WhatsAppSession_proofs`.
8. **Sessions** (done): log-in, rotation, log-out, reset, forced log-out,
   deactivation and termination of one user. Proofs: `Sessions_proofs`.
9. **TenantGate**, **PortalCodes** (open): the active-flag cache of the tenant
   scope; the one-time codes of the portal.
10. **Breaker** (open): the circuit breaker, session health and fail-over.
11. **Segments** (open): the RFM rules and tier evaluation as pure operators,
    against a reference definition over bounded inputs.
12. **Automations**, consent (open).

The runs are few on purpose, one per question or per component: a run asks
all the safety questions about one instance at once, and liveness with them
where the instance is small enough. The type invariant is a theorem of every
module (section 11), and no run spends time on it. A configuration
named in parentheses in the sections below is no run of `PROJECT.json`: it
reproduces a disagreement of section 12.

## 3. PointsLedger

*Variables.* Of the tables the model keeps what the code reads of them. `balance`
is `Customer.currentPointsBalance`; `posted` the signed sum of a customer's
ledger rows; `rows` how many of them carry each unique key (customer, reason,
reference); `oldest`, `newest`, `fed` the age of the first and the last credit and
today's feedback rows; `visits`, `earned`, `email` the visits, those with
`pointsEarned` set, and the customers with an address. `op` is what each request
asks for and `pc` the statement it is at; `seen` the balance it has read, `todo`
the visits it has still to credit, `cur` the key in hand, `found` what a backfill
set out to heal. `stale`, `owed` and `tainted` are history that only properties
read: a request was overtaken, a bonus is half written, an update was lost; so is
`deducted`, what automations have taken from a customer.

*Isolation.* A transaction's uncommitted writes are invisible to others. What
Postgres gives on its own, and the model takes as external, is: an `UPDATE` of
a row that another open transaction has updated waits (`VisitRowFree`,
`CustomerRowFree`), an `INSERT` of a unique key that another open transaction
has inserted waits (`KeyFree`) and then conflicts if that one committed
(`Unique`, `Conflict`). A SELECT never waits.

*Actions.* `Begin*` starts a handler with the request a caller may make;
`Read`, `InsertRow`, `UpdateCustomer`, `CreditAges`, `Commit` are the
statements of `creditPoints`, `debitPoints`, `reconcilePointsBalance` and
`pointsExpiryJob`; `Scan` and `NextVisit` are the loop of `backfillVisitPoints`;
`ReadEmail` ... `IncrementBalance` the e-mail bonus, which is not a transaction, and
the last two of them, after `BeginWelcome`, the initial points of a customer created by
hand (`createCustomerHandler`), which are not one either. An AUTOMATION request
is `awardAutomationPoints`, a credit under the key of the workflow: its points are
negative when the action is DEDUCT_POINTS, and nobody asks whether the balance
covers them;
`Refuse` an insufficient balance, `Fail` any failing statement; `RecordVisit`
and `TimePasses` the environment.

| run | question | bounds |
|---|---|---|
| `ledger_wallet` | is each visit credited once, does a backfill heal all it found, how far below zero can the balance fall, and when can it leave the ledger? | 3 requests, each any of 14 calls (every kind, two workflows that deduct 1 and 3), 1 customer who starts new or with 2 points, 2 visits, failures at any step: two writers overlap and a third comes in between |
| `ledger_locks` | is there always one of the requests that wait for rows and keys that can go on, and do they end? | 3 requests of the kinds that lock, 1 visit, weak fairness on the statements of a started request |
| `ledger_lostupdate` | is the balance the sum of the ledger, as a comment says? No: see section 12 | 2 requests suffice |

One customer is enough: a request touches one customer, and two customers share
no row and no key. Three requests are enough for a third to meet a state that two
have left half done; the theorems of section 11 need neither bound.

*What it shows.* Two overlapping credits lose one update of the balance;
two debits spend the same points; the nightly job looks at the oldest credit
instead of the last. (Two overlapping feedback calls are also both rewarded: the
model has that behaviour, but no property is stated about it.) What nevertheless
holds, and is proved: no visit is credited twice; the balance can be negative,
as DEDUCT_POINTS checks nothing, but falls below zero by no more than automations
deducted (`DebtIsDeducted`), whatever debits, expiries, reconciliations and lost
updates do; it differs from the ledger only after an overlap, a torn bonus or a
reconciliation that clamped a negative sum; and
no requests wait for each other in a circle (`NobodyStuck`): keys and visit rows
are taken before the customer row, by all of them.

*Fairness.* `ledger_locks` assumes that a started request goes on when its next
statement can run: Node resumes a promise once the database answers, and
Postgres wakes the waiter of a lock. Nothing is assumed about new requests.

## 4. MessageDelivery

*Variables.* `row` is `MessageQueue.status`; `recent`, `known`, `overdue` say of
a row what its `sentAt`, `providerMessageId` and `createdAt` are compared with;
`job`, `attempts`, `stalls`, `ending` are BullMQ's; `suppressed`, `consent`,
`resting` the customer flags; `paused`, `quota`, `warmed`, `pace` the Redis keys
of the tenant; `pc`, `msg`, `answer`, `paid`, `slot` a worker slot (there are
`WORKER_CONCURRENCY` of them). The rest are bounds and history variables that
only properties read.

*Actions.* `Take` to `Throw` are `processMessageJob` and the BullMQ worker around
it, one step per `await`: eight pre-flight checks (`Check` is the reads among
them), the quota (`ReadQuota`, `Decrement`), the warm-up place (`ConsumeSlot`,
`GiveSlotBack`, `ReadWarmed`, `ReleaseSlot`), the pacing (`ReadPace`, `Stamp`), the
send (`Mark`, `Route`, `RecordSent`, `CountUsage`) and its failure (`Refund`,
`RecordFailed`). Around them `CreateRow` and `Enqueue` (a row without a job is a
lost enqueue), `Finalize` (the `failed` event), `Reap`, `Ack`, `OptOut`,
`ChangeConsent`, `Rest`, `NewDay`. `CallFails` lets a statement outside every try
block reject, `FailOpen` one whose error the code swallows, and `Crash` kills the
process at any await.

*Abstractions.* Time is reduced to what is compared: a stamp is fresh or not, a
row recent or not, overdue or not, and the steps that age them may come at any
moment. `waiting` includes BullMQ's delayed jobs, since a delay only says when a
job may be taken. The gateway accepts, rejects or throws; a rejected message may
have been delivered (`sendText` turns a timeout into a rejection). The provider
chain, an open circuit breaker and an unconfigured session are such rejections.
The monthly quota reset, the expiry of the quota key and the growth of the
warm-up cap with the age of the number are left out: the cap is a constant
within a behaviour and the quota starts at the plan.

| run | question | bounds |
|---|---|---|
| `message_delivery` | duplicates, quota, warm-up cap, fate of completed jobs | 2 promotional messages, 2 slots, 2 attempts, a plan and a cap of one unit, one mishap |
| `message_optout` | does an opt-out stop a queue? | opt-out, consent and marketing pause at any moment of two sends and their retries, no mishap |
| `message_resolved` | does every row end, and is a message delivered no more often than its job is tried? | 2 messages, 1 slot, lost enqueues, acknowledgements after the fact, one mishap, with the reaper |

*Bounds.* `MaxMishaps` bounds the events that are rare and cut a job short: a failing
call, a crash, a midnight. One is enough for every single such event to strike at
every await, together with the retry it causes; gateway rejections, timeouts and
throws are not counted and may come every time. What several mishaps do together
is covered by the theorems, which hold for every bound. Two slots and two
messages make every race between two jobs, over the quota, the cap, the
cooldown and the job itself. `Attempts` is 2 instead of the code's 3: a retry and
the last attempt are both there. A plan and a cap of one unit make the second
message meet the limit. `Movers` and `AckKinds` say which customers act and which
receipts come; they are empty where a run does not ask about them.

*Fairness.* `FairSpec`: a worker slot goes on, BullMQ hands it the jobs there
are, a sleep ends, and cron runs the reaper and time passes. Not assumed: that an
enqueue succeeds, that the `failed` handler runs, that a receipt arrives. These
may all be lost, and `EventuallyAllResolved` holds because of the reaper alone.

*What it shows.* The quota can fall from 1 to -1, which means unlimited;
the cooldown does not hold between concurrent workers; the reaper fails rows
whose job is merely delayed; a failed usage update sends a message twice. The
model also shows, as behaviours without a property of their own, that concurrent
workers can pass one pacing stamp together, that a failure between the decrement
and the send loses a quota unit (`leaked` counts them), and that receipts out of
order move a row backwards. What nevertheless holds, and is proved but for the
last: a duplicate always has a fault behind it, a message is delivered no more
often than its job may be attempted (`DeliveriesBounded`), a suppressed
customer gets at most the one message each slot had already checked, no quota
unit appears or vanishes unaccounted, the cap is exceeded only by places today's
counter could not see, and no row stays pending.

## 5. Redemptions

*Variables.* `coupon`, `owner`, `uses`, `logs` are the status, customer,
`redemptionCount` and redemption log of a coupon; `card`, `money`, `holder` the
status, balance and customer of a gift card, `paid` how often it was cashed (its
`redeemedByCustomerId` is set if ever); `wallet` the cached wallet balance and
`entered` the sum of its ledger; `stock`, `bought`, `pending` the stock of a
reward, the unique points-ledger keys of its buyers and the redemptions staff
has still to hand out; `referred`, `credited` the referrer on a customer and the
unique key of the referrer's bonus. `op`, `pc`, `seen`, `purse` are the requests
and what they have read. `stale` and `overrun` are history: what a call has read
and others have written since, and what was written by such a call.

*Actions.* A call reads (`TillLock`, `PortalRead`, `ClaimRead`, `ReadPurse`,
`EditRead`, `RewardRead`, `ReferralRead`) and writes later (`TillCommit`,
`PortalUse`, `ClaimCommit`, `SpendCommit`, `EditWrite`, `RewardCommit`,
`ReferralCommit`), with other calls in between; a transaction's writes are one
step. The till reads its coupon under `SELECT ... FOR UPDATE`, so no other
update of the row comes in between (`Unlocked`); nobody else locks. `Erase` is
`purgeCustomerData`, `Lapse` marks a card found expired, `Fail` any refusal or
error after the read. `IssueGiftCard`, `GrantCoupon`, `Fulfill`, `ExpiryPasses`
are the environment. What `debitPoints` does to the points is in
`PointsLedger`; here it may refuse, and its unique key is kept in `bought`.

*Refinement.* `Vouchers` says what coupons promise without tills, locks and
tables: a voucher is honoured while it is unspent; a claimant that has looked at
it unspent without a lock may be honoured late. `CouponsAreVouchers` is
`V!Spec` under the mapping of `Redemptions` (`VoucherStatus`, `PortalReaders`),
checked by TLC and proved. It says that two tills cannot honour one coupon
twice, and that the only way to a second use is a portal call that saw the
coupon unspent.

| run | question | bounds |
|---|---|---|
| `redemptions_all` | what can be paid or handed out twice, and by what overlap? | 3 calls, each any of 17 requests of all 13 kinds; 3 customers, one of whom is granted things, 2 coupons, 1 card, a cashback and a coupon reward with a stock of 1; symmetry of the calls |

Three calls are two that overlap and one that overtakes or undoes; a chain such
as "claim, ask for deletion, decline" fits. One card suffices, since no call
touches two. The free item reward differs from the coupon only in not minting
one, and is covered by the theorems.

*What it shows.* `WalletLedger` has no unique key, so two overlapping claims pay
one card twice; a redemption beyond the stock, a second referrer and a wallet
that is not its ledger's sum need such overlaps too, or, for wallet and
referral, an erasure, which keeps the cached balance. A card that was paid never
holds money again and leaves its holder only by the holder's transfer. By the
points-ledger key a customer can redeem a given reward once ever. The till does
not look at `expiresAt` and nothing marks a coupon EXPIRED.

## 6. Campaign

*Variables.* `status`, `content`, `sentCount` of one campaign (`content` counts
its edits); `eligible` who of the segment may be written to; `row`, `job` the
`MessageQueue` row and the BullMQ job each launch made for each customer;
`timer`, `tries` the delayed job `launch-<id>`; `text`, `left`, `chunk`,
`picked` what a launch holds in memory. `gated` says that the owner has to
approve. `approved`, `audience`, `excuses`, `mute` are history.

*Actions.* Edits, decisions and schedules check the status (`Check`) and write
in a later statement (`Update`, `Decide`, `ScheduleWrite`, `ScheduleAdd`;
`ScheduleLost` is the failure between the last two, in which Redis refuses the job
or the process stops); `Pause` writes at once. A launch goes through `LaunchRead`, `LaunchResolve`, then chunk by
chunk `LaunchInsert` and `LaunchFetch` (which finds the rows again by campaign
and time, also those of another launch), `LaunchEnqueue`, `LaunchActivate`; it
can die between any two (`LaunchDies`), and a launch job is then run again while
attempts are left (`AfterFailure`). `WorkerSends`, `WorkerDrops`, `OptOut` and
`JobForgotten` are the environment; the life of a message after its job was
added is in `MessageDelivery`.

| run | question | bounds |
|---|---|---|
| `campaign_all` | is everyone queued, who is queued twice and why, is the counter right, does a scheduled campaign go out? | 4 calls: a schedule with two attempts of its job and a pause, an edit, an approval or a rejection, or two launches with the jobs; 2 customers in chunks of 1, a quota of 3, 1 death |

Two chunks of one row each are the least that interleave chunk by chunk; with a
quota of 3 a second launch of two can be refused. Two attempts instead of three
have a retry and a last attempt.

*Fairness.* A launch that is under way goes on, and BullMQ runs the launch job
when it is due; a schedule that has written its row adds the job or fails to
(`ScheduleLost`, bounded by the deaths): it does not hang. Nothing is
assumed about new requests, the workers or the clock of the kept job.
`ScheduledGoesOut` says that a SCHEDULED campaign leaves that status unless its
job was never added, was ignored, gave up or found nobody (`mute`).

*What it shows.* The job id is kept a day after success and a week after a
failure, and a new schedule under it is silently ignored; pausing does not stop
what is queued; an empty audience leaves the campaign SCHEDULED. A launch
overwrites `sentCount` after the workers may have begun to increment it: the
model shows it can end at twice the sends, `NeverUnderreports` that it never
ends below them. All requests of a behaviour may be over, so deadlock is not
checked here, nor in the next four modules.

## 7. Sales

*Variables.* `log` is `PosWebhookLog.status` of a transaction id, `known` the
people with a customer row, `whose` the record a call books to; `spent`,
`visits`, `counted`, `credited` the calls whose amount, visit, visit count and
points were written; `triggers` the milestone jobs; `today` the calls whose
visit is of today (the built-in till's, which no limit looks at, left out), `recent`
who had a QR_CHECKIN less than six hours ago, be it yesterday. `hurt`, `packed`,
`skewed` are history: calls that died, people with two check-ins of one source at
once, people whose milestone was disturbed.

*Actions.* `processTransaction` statement by statement: `LogLookup`, `LogCreate`,
`WebhookFind`, `AddSpend` or `CreateCustomer`, `CreateVisit`, `AddVisitCount`,
`Accrue`, `CheckMilestone`, `Processed`; the built-in till shares the middle ones
from `SaleFind`. Staff and portal check-ins look (`StaffLook`, `PortalLook`) and
book (`StaffBook`, `PortalBook`). A visit has a source: staff give one of three
with the request and look for a visit of that source of today, a self check-in
is a QR_CHECKIN and counts those, the webhook's visit is a POS_WEBHOOK, dated by
the till and so of today or not. `Dies` stops any call between two statements;
only the staff check-in is a transaction. A redelivery is another call of the
same transaction id.

*Refinement.* `Inbox` says what a webhook promises that records an event before
it handles it: an event is taken once however often it is delivered, one handler
does its effects, each once, and what it leaves undone when it stops is lost and
never made up for. Here an event is a trade, its effects are the amount, the
visit, the visit count and the points, and it is taken when it has a row in
`PosWebhookLog`. `TradesAreInbox` is `I!Spec` under the mapping `Taken`, `Open`,
`Done`, `Lost`, checked by TLC and proved. An event that could not be recorded
(`Miss`) is lost unless it is delivered again. A delivery that dies before it has
its row changes nothing in this mapping; that its trade may be lost, for the provider
has been answered 200 by then, is in `LostSaleExplained`. `Inbox` is implemented
once more in section 8.

| run | question | bounds |
|---|---|---|
| `sales_all` | does the webhook keep the promise of the inbox, is anything booked twice, lost, over a limit, or celebrated at the wrong visit? | 5 scenarios of 4 calls: a trade delivered twice against another and a sale; counts around a milestone of 2; four check-ins around a limit of 2, all QR_CHECKIN; the same with staff giving MANUAL; calls without a customer; 2 transaction ids, 2 deaths, 1 midnight |
| (`Sales_midnight`, `Sales_sources`, `Sales_retry`) | are self check-ins six hours apart, may staff check a customer in once a day, is every transaction processed? No: see section 12 | 2 calls |

The limits are 2 instead of the code's 3 check-ins a day and milestones of 5, 10,
...: four calls meet and pass them. Two deaths let a delivery and its retry die.

*What it shows.* A trade is booked at most once however it is delivered, and
lost only when a delivery died half-way: its PENDING log makes every later
delivery a DUPLICATE. The milestone, and the limits of the check-ins, hold
except for calls that overlap, but the limits are narrower than they sound: each
looks at the visits of one source and of today. So PerDay bounds the QR_CHECKIN
visits of a day, by the customer and by staff together, and the gap of six hours
those of one day; staff may check a customer in once a day under each of three
sources, and a self check-in just after midnight finds no gap to keep. A self check-in never adds to `visitCount`, and a
sale at the built-in till adds to it without looking for a milestone; such a
customer counts as `skewed`.

## 8. Billing

*Variables.* `tier`, `status`, `linked` of the `Subscription`; `features`,
`quota`, `left` the Redis keys `tenant:features` and `tenant:msg_quota` (which
plan they were written for, and whether messages are left); `paused`, `worker`
the pause flag and a worker about to set it; `handled` the `ProcessedWebhook`
rows; `plan`, `todo` what a handler read and has still to write to Redis.
`wrote`, `lost`, `alone`, `mirrored`, `stranded` are history.

*Actions.* A Stripe event is read (`StripeRead`), written to the row
(`StripeWrite`), mirrored by `syncTierToRedis` (`SetQuota` beside `DelFeatures` and
`AddFeatures`, `SyncDone`) and, for a paid invoice, lifts the pause (`Resume`); if
it fails (`Fails`) Stripe delivers it again. A Lemon Squeezy event is recorded
(`LemonLog`) and written (`LemonWrite`), or dropped for want of a tenant
(`LemonDrop`, the events `Foreign`), and is not delivered again when it fails: any
failure of the insert in `LemonLog`, not only the unique key's, is answered 200.
`Promo` writes the row only, `Override` the features only. The worker as far as
these keys go takes the last unit (`UseUp`) and may put it back (`GiveBack`: the
warm-up refuses the message, or the gateway throws or rejects it), finds none
and pauses in a later statement (`WorkerFindsEmpty`, `WorkerPauses`); the flag ends
by itself (`PauseExpires`). `GiveBack` also stands for the unit two workers take at
once, which leaves -1, unlimited (section 12). Whether messages are left is a
Boolean: of the number only zero matters here. The quota key itself expires after 35
days (`stripe-service.ts:102`, `382`), and no quota is unlimited too: that expiry is
left out.

| run | question | bounds |
|---|---|---|
| `billing_all` | do row, features and quota agree, is a paid tenant paused, does Lemon Squeezy's webhook keep the promise of the inbox, do missing features come back? | 13 scenarios of 3 calls: a checkout between Stripe events, an invoice against a change of plan and a cancellation, failed payment, override or promo code, Lemon Squeezy events delivered twice, one without a tenant; 3 plans, 1 failure |

Three calls are two that cross and one that comes after; one failure strikes at
any statement, and its redelivery crosses the others. The theorems need no
bound.

*Refinement.* The webhook of Lemon Squeezy is another inbox (section 7), of
events with one effect, the plan: `EventsAreInbox`, checked by TLC and proved.
Stripe's is none: it records nothing, and applies an event as often as it comes.

*Fairness.* A handler goes on, and Stripe delivers an event again that was
answered with an error: `WindowCloses` (the features key comes back) needs
both, and excepts an override that failed half-way or names no feature.

*What it shows.* Stripe events are applied in the order they arrive; the keys
agree with the row after a call that nobody crossed, and need not after two
that crossed. Without the features key every feature is granted. A tenant is
left paused for up to 24 hours by the race of the worker with an invoice, by a
unit that comes back after another message found none, by an
event other than an invoice that fills the quota, or by a failure. A Lemon
Squeezy event is applied once, or lost: by a failure of its handler, or by one of the
insert that was to record it. Stripe events
of an unlinked customer are answered and dropped; Lemon Squeezy and promo codes
change the row but not Redis.

## 9. WhatsAppSession

*Variables.* `session` is the socket in the map of `baileys-service`, `start`,
`fresh`, `linked` the start that is under way (`starting` has the business
unless it is idle), `saved` the credentials in Redis; per socket `net` its
connection, `status` the status of its session object, `handler` the await its
close handler is at; `manualStop`, `releases`, `loggingOut`, `timer`, `attempts`
the flags, timers and counters of the business. `skipped`, `late`, `fired` are
history.

*Actions.* `Connect`, `Disconnect` and the timer (`TimerFires`) begin a start or a
stop, which run up to their first await in one step; `ClearAuth`, `ReadAuth`,
`Make` go on. `Qr`, `Pair`, `Opens`, `Drops`, `EndedCloses` are the events of a
socket; a close is handled up to its first await by `OnClose` and after it by
`LogOutEnds`, which leaves the credentials when Redis fails, or `Resumes`. `Release` lowers the deliberate-stop flag after its
two seconds, `Restart` is the death and boot of the process.

| run | question | bounds |
|---|---|---|
| `whatsapp_session` | when is a business left with a dead session, and how often is a failing one tried again? | 5 sockets, 4 drops, 2 clicks, 1 fault (a call to Redis that fails, or a restart), 2 reconnects instead of the code's 5 |
| (`WhatsAppSession_dead`) | is a lost session always reconnected, as the comments say? No: see section 12 | the same |

Two clicks make a start over a start and a stop during a start; five sockets are
one more than two clicks and two reconnects need; four drops exhaust the
reconnects and leave one over.

*What it shows.* A session dies unnoticed only because its close was taken for
that of a replaced socket, or a replaced socket cancelled its reconnect. A
late close of a replaced socket sets reconnects of its own: with it the bound
on reconnects is not kept, without it it is. The model also has that a reconnect
may be set after the user has disconnected, and that a late close may remove
the entry of a newer socket.

## 10. Sessions

*Variables.* A token pair is named by the call that issued it. `rows` are the
tokens with a `UserSession` row, `serial` when each row was made (`lastUsedAt` is
never updated), `legacy` is `User.refreshTokenHash`, the token on the user;
`unbound` the pairs without a session id; `active`, `password`, `links` the
user's flag, the resets so far and the reset links in Redis. On a device,
`cookie`, `sid`, `access` are what the browser has stored. `sent` and `found` are
what a call carries and the row it goes by. `proof`, `slipped`, `raced`,
`reused`, `shared`, `forced`, `upset` are history.

*Actions.* A refresh reads the user (`Refresh`), the row and its hash
(`FindRow`), deletes the row (`TakeRow`, or `DropRow` when the token is not the
row's) or falls back to the token on the user (`ReadLegacy`, `ClearLegacy`), makes
a new row (`Issue`, or `Fallback` when that fails) and answers (`Answer`). `Login`
joins it at `Issue`. `Logout`, `EndSession`, `LoggedOut` are the log-out; `Reset`,
`SetPassword`, `SpendLink` the reset by a link; `ForceLogout`, `SetActive`,
`Terminate` and `Purge` what others do to the user. `Fails` lets a statement fail
that the code catches, `Dies` any other, or loses the answer. Any token the
device was given once is a value of the model; verifying a hash is comparing
tokens. A device that registered or accepted an invitation starts without a
session id, since those answers carry none.

| run | question | bounds |
|---|---|---|
| `sessions` | who is signed out and by whom, how often do a token and a link work, what outlives a reset? | 6 scenarios of 4 calls on 2 devices: one device in three tabs against the other, two resets of one link against a refresh and a log-in, refreshes against log-out, forced log-out, deactivation and termination; each device with or without its session id, in any order of log-in; 1 failure |
| (`Sessions_forced`) | does the next refresh of a user who was forced out fail, as the answer says? No: see section 12 | 2 calls, 1 device would do |
| (`Sessions_devices`) | does each device refresh independently, as the comment says? No: see section 12 | 2 refreshes, 2 devices, no failure |

Two tabs that race and a third that comes after are three calls, the other device
a fourth; one failure strikes at any statement of any of them.

*What it shows.* A device that knows its session is refused only by an overlap
or failure of its own (two tabs with one cookie, a lost answer), by a reset or a
termination, or by a device that does not know its session id: that one is
judged by the session used last and deletes it, and its log-out deletes all. A
token rotates twice only in an overlap. A reset link works twice in an overlap, or
when its deletion fails. A refresh or log-in that was verified before a reset
leaves a session after it. A forced log-out clears a hash that is no
longer used.

## 11. Proofs

Every proof module extends the component's module and assumes only its
`ConstantsAssumption`: the sets of customers, messages, visits, requests are
arbitrary (the worker slots finite, in `Campaign` calls and customers, in `Sales` the calls, in `Sessions` calls and devices),
keys belong to customers, bounds are naturals. `PointsLedger` and `Redemptions`
need of an operation only that it is `WellFormed`. Each invariant below is `Init => I`, `TypeInv /\ I /\ [Next]_vars => I'` and `I =>`
the property, one step per action.

**PointsLedger_proofs**

| theorem | property | what makes it inductive, and why |
|---|---|---|
| `TypeCorrect` | `TypeOK` | `CurInv`: inside a transaction the key in hand is one the request has to credit; otherwise the points of a row would be undefined |
| `AtMostOnce` | `CreditedAtMostOnce` | `KeyInv`: between insert and commit a request holds its key alone, and no committed row has it: the insert checked the index, the commit happens later |
| `DebtOnlyDeducted` | `DebtIsDeducted` | `SeenInv`: what a request read was no further below zero than was deducted by now, and covers its debit; the balance written is computed from it, not from the balance of the moment |
| `DriftOnlyByOverlap` | `DriftNeedsOverlap` | `FreshInv`: a request that is not stale still holds the value in the table, so an absolute write adds just its own row |
| `NoCircularWait` | `NobodyStuck` | `OwnInv`: a request has only visits of its own customer to credit, and one when it is about to begin a transaction. Hence two that hold or want one key are of one customer (`KeyOwner`), locks are taken in the order visit row, key, customer row, and the holder of the last waits for nothing (`OwnedIsFree`) |
| `BackfillHeals` | `BackfillComplete` | `HealInv`: a visit a backfill has crossed off has a row, and a row comes with `pointsEarned`, in one commit; uses `AtMostOnce` |

**MessageDelivery_proofs**

| theorem | property | what makes it inductive, and why |
|---|---|---|
| `TypeCorrect` | `TypeOK` | `LockInv`: an active job is in one slot and has an attempt left; otherwise `attempts` could outgrow its type |
| `OptOutObeyed` | `OptOutStopsQueue` | `OptOutInv`: a slot past the consent check that is bound for a suppressed customer has not sent to that customer since the opt-out |
| `QuotaAccounted` | `QuotaConserved` | `QuotaInv`: a slot holds a unit only at the labels `Paying`, where success, refund or failure will account for it; a unit is never taken twice |
| `WarmupCapKept` | `WarmupOverrunExplained` | `WarmupInv`: the counter (and `slack`) covers the recorded sends, the places held and the places refused but not yet taken off again (`Covered`); `PlaceInv` says where a place is held |
| `NoUnexplainedDuplicate` | `DuplicatesOnlyFromFaults` | `DuplicateInv`: a message that is not completed and not known to be accepted (`Spare`) was delivered no more often than faults explain, so one more delivery stays within `1 + faults` |
| `DeliveriesAreBounded` | `DeliveriesBounded` | `BoundInv`: a message was delivered at most once more than its job has failed or stalled (`Runs`), and once more (`Ahead`) only while the slot that sent it is past the send (`Carried`) or after the job has completed |
| `CompletedIsResolved` | `CompletedJobResolved` | `CompletedInv`: a slot about to complete has just written an outcome, and only the holder of the job, of which there is one, writes PENDING |

**Redemptions_proofs**

| theorem | property | what makes it inductive, and why |
|---|---|---|
| `TypeCorrect` | `TypeOK` | `KindInv`: a call is at a step of its own kind |
| `CouponsImplementVouchers` | `CouponsAreVouchers` | `LockInv`: a till that holds the row lock is alone and its coupon still active, so its commit is an `Honour`; a portal commit is a `HonourLate` of an admitted claimant, an erasure a `Void`, the rest stutters or grants |
| `PaidCardsStayEmpty`, `CardsPaidOnce` | `PaidCardStaysEmpty`, `CardPaidOnce` | `CardInv` and `FreshInv`: a claim that is not stale still has an unpaid card before it; a declined deletion writes the balance of the moment |
| `StockHolds`, `ReferralsPaidOnce`, `WalletsMatch` | `OversoldNeedsOverlap`, `ReferralPaidOnce`, `WalletDriftNeedsOverlap` | `FreshInv`: what a call has read and nobody has written since is still so, hence its write is right |
| `CardsMoveByTheirHolders` | `HeldCardMovesByHolder` | `HolderInv`: a transfer that was not overtaken is that of the present holder |

**Campaign_proofs**

| theorem | property | what makes it inductive, and why |
|---|---|---|
| `TypeCorrect` | `TypeOK` | `KindInv`: steps belong to their kind, and the launch job waits only while attempts are left |
| `LaunchesQueueEveryone` | `LaunchedAllQueued` | `QueueInv`: whoever of the audience is neither still to insert nor in the chunk in hand has a job or is picked for one |
| `RepeatsAreExcused` | `RepeatNeedsExcuse` | `AloneInv`: without an excuse one launch runs or has rows, and a finished one has left the campaign ACTIVE |
| `CountersKeepUp` | `NeverUnderreports` | `RowInv`: a launch inserts each row once, and only a row gets a job; `CountInv`: of a campaign launched once, a chunk that was only inserted has no job, an inserted row is in that chunk or picked, and the rows sent are no more than `sentCount` |
| `SchedulesStayInHand` | (`ScheduledInHand`) | `HandInv`: the job is marked active exactly while one worker runs it, and it is kept only when the campaign became ACTIVE or was muted; a schedule that fails before its job mutes too |

**Sales_proofs**

| theorem | property | what makes it inductive, and why |
|---|---|---|
| `TypeCorrect` | `TypeOK` | `AtInv`: a call past its look-up knows whom it books to |
| `BookedOnce` | (`SaleBookedOnce`) | `OwnerInv`: one delivery owns the log row of a trade, and only the owner books |
| `WebhookIsInbox` | `TradesAreInbox` | `OwnerInv` again: only the owner is at work and only it has done anything, so its steps are `Work`, the creation of the log row is `Take`, and its end is `Work` or `Lose` by whether it has done everything; the rest stutters |
| `LostSalesExplained` | `LostSaleExplained` | `ProgressInv`: at each step what comes before it is written; `HolderInv`: a log row has or had an owner |
| `CheckInsAreSpaced`, `DailyLimitKept` | `CheckInsSpaced`, `DailyLimit` | `TodayInv`: a visit of today has a customer and is not the built-in till's; `PackInv`: two check-ins of one customer and source about to book are known to be packed, and a lone one has seen all visits of its source that are of today; `LimitInv` counts them, by source |
| `MilestonesOnce` | `MilestoneOnce` | `CountedAt`: where a call that has counted can be; `TriggerInv`: of an undisturbed customer at most one call is between its count and its look, and the automation has started once if the count is past the milestone, or at it and nobody has still to look |

**Billing_proofs**

| theorem | property | what makes it inductive, and why |
|---|---|---|
| `TypeCorrect` | `TypeOK` | `AtInv`: a call is at a step of its own kind |
| `MirrorKept` | `MirrorHolds` | `MirrorInv`: while a call syncs alone, what it has done so far is the row's plan |
| `PausesAreExplained` | `PauseExplained` | inductive with the types: each step that raises the flag or fills the quota, a returned unit among them, either is followed by `Resume` or marks `stranded` |
| `WindowStaysInHand` | (`WindowInHand`) | `WindowInv`: a Stripe event gets past its reading only for a linked row, and is mirrored only when it syncs, so that the next delivery of one that failed half-way does so again |
| `LemonHandledOnce` | (`LemonOnce`) | `LemonInv`: of the calls that have written an event or are about to there is one, and it recorded the event; `DeliveredInv`: a delivery that was answered left its event recorded or failed, and a recorded event with a tenant has a delivery at work, applied or failed |
| `LemonIsInbox` | `EventsAreInbox` | `LemonInv`: the write is a `Work` that completes, a failure before it or a missing tenant a `Lose`, a failing insert a `Miss` |

**WhatsAppSession_proofs**

| theorem | property | what makes it inductive, and why |
|---|---|---|
| `TypeCorrect` | `TypeOK` | inductive as it stands |
| `ReconnectsAreBounded` | `ReconnectsBounded` | `Shape`: how map, connections and handlers fit together; `Counted`: while no close came late only the session in the map is connected, and every reconnect has a failure counted |
| `DeadSessionsExplained` | `DeadSessionExplained` | `Shape`, `Waiting`: a closed session that no handler looks after has a timer or was skipped |

**Sessions_proofs**

| theorem | property | what makes it inductive, and why |
|---|---|---|
| `TypeCorrect` | `TypeOK` | `AtInv`: a call is at a step of its own kind and goes by what it sent; `HeldInv`: what a device holds was issued to it, its call is over; `IssuedInv`: what the server knows has been issued. Together: no row a device names can become unbound |
| `SessionsApart` | `OnlyOwnSession` | the same three: the row a refresh goes by is the one it named, which is its device's |
| `TokenRotatedOnce` | `RotatedOnce` | `TakenInv`: a row that let a call through is deleted, or about to be by this call, or known to be raced |
| `ResetEndsSessions` | `StaleSessionExplained` | `StaleInv`: tokens on the server, and calls past their verification, stem from the password of today or were verified before a reset |
| `LinkWorksOnce` | `LinkSpentOnce` | `LinkInv`: one reset at a time holds a link, and between setting the password and deleting the link it still does |
| `RefusalsExplained` | `RefusedForAReason` | `AloneInv`: of a device that nothing happened to, one call is under way; before it has found its row, cookie and session id name the same row, and it is there |

A property in parentheses is proved and checked by no run of its own.
`SaleBookedOnce` and `LemonOnce` say of a webhook what the refinement, which a
run checks, says too (the first also of the till: one sale of a transaction id
makes a visit). `ScheduledInHand` and `WindowInHand` are defined beside their
proofs: they say that what `ScheduledGoesOut` and `WindowCloses` wait for is
always under way, which leaves to TLC, and to fairness, that it arrives.

`QuotaAccounted`, `WarmupCapKept`, `DailyLimitKept`, `CountersKeepUp` and
`MilestonesOnce` count finite sets, hence the
assumptions that the slots and the calls are finite and the cited facts of
`FiniteSetTheorems`. The history variables are updated together with what they
record and no guard reads them, so they constrain no behaviour.

Every safety property that a passing run checks is a theorem. Only model-checked
is liveness under fairness (`RequestsEnd`, `EventuallyAllResolved`,
`ScheduledGoesOut`, `WindowCloses`), which is out of the prover's reach;
`NoCircularWait` is the safety half of `RequestsEnd`. The disagreements of
section 12 are counterexamples of TLC.

## 12. Disagreements of code and docs

One run of `PROJECT.json` expects a violation, and "findings" quotes what it
contradicts: `ledger_lostupdate`, in which two overlapping credits lose an update of
the balance, which `loyalty-service.ts:9-10` says is "updated atomically".

Fourteen further configurations reproduce disagreements that were met while
modelling. Each checks one property, and TLC reports it violated:

| configuration | property | the text | what the code does |
|---|---|---|---|
| `PointsLedger_overspend` | `NoOverspend` | `loyalty-service.ts:89-90` "Throws INSUFFICIENT_POINTS_BALANCE if the customer cannot cover the redemption" | two debits read the same balance and both pass |
| `PointsLedger_expiry` | `ExpiresOnlyDormant` | `cron-service.ts:583-585` "their last CREDIT ledger entry is older than Business.pointsExpiryDays" | looks at the oldest credit |
| `MessageDelivery_unlimited` | `NeverUnlimited` | `messaging-worker.ts:231` "DECR is atomic in Redis — no race condition between concurrent workers" | GET, then DECR: the last unit taken twice leaves -1, which means unlimited |
| `MessageDelivery_cooldown` | `CooldownRespected` | `README.md:257`, a promotional message within the cooldown is dropped | two workers look before either has recorded its send |
| `MessageDelivery_reaper` | `ReapedOnlyLost` | `cron-service.ts:93-95` "rows whose BullMQ job was lost" | also fails rows whose job is delayed |
| `MessageDelivery_usage` | `SentNotUndone` | `messaging-worker.ts:321` "failure here doesn't undo the sent status" | the job throws, is retried, and sends again |
| `Redemptions_double` | `CouponSpentOnce` | `loyalty-service.ts:358-360` "Double-spending is structurally impossible" | the portal updates a coupon it has read without a lock, whatever it is by then |
| `Campaign_approval` | `OnlyApprovedSent` | `client/src/CRM.tsx:6382`, a campaign that needs approval must be approved before launch | a launch refuses only ACTIVE and COMPLETED |
| `Sales_retry` | `ProcessedExactlyOnce` | `webhook-pos.ts:461` "Each transactionId is processed exactly once" | the retry of a delivery that died is a DUPLICATE |
| `Sales_midnight` | `GapKept` | `customer-portal-controller.ts:613` "up to 3 per day, and at least 6 hours between each" | the look starts at midnight, so a check-in of the late evening is not seen in the morning |
| `Sales_sources` | `StaffOnceADay` | `loyalty-controller.ts:320` "prevent same customer checking in twice today" | the look is for the source the request names, one of three |
| `WhatsAppSession_dead` | `LostSessionReconnects` | `baileys-service.ts:227` "Transient disconnect on a \*linked\* session — bounded reconnect" | a connection lost within two seconds of a restart of its session is taken for the deliberate close of the old socket, and never reconnected |
| `Sessions_forced` | `NextRefreshFails` | `super-admin.ts:335` "forced out. Their next refresh will fail." | a forced log-out clears the fallback hash and leaves the rows a refresh goes by |
| `Sessions_devices` | `RefreshIndependently` | `auth-controller.ts:258-259`, with the session id "30 concurrent devices can each refresh independently" | a registration or an accepted invitation is answered without one: the first refresh then goes by the newest session, and ends it when it is another device's |

Run one with `tlc -config Redemptions_double.cfg MCRedemptions`, and the others
likewise.

## 13. Not modelled

The "components" of `PROJECT.json` say for each part why. Of the modelled
components these operations are left out: the birthday cron job; the deletion of a
customer's points ledger by an erasure (`gdpr-service.ts:149`, which keeps the
balance: what section 3 says is about customers who have not been erased); challenges and
signed QR codes; the A/B split of a campaign and its clone (a new draft); the
tax submission and the signature check of a sale; checkout and portal pages of
the payment providers, the simulated checkout, the new quota keys after a
pricing update and the expiry of the quota key; the circuit breaker, the WAHA provider, the health sweep and the
fail-over of WhatsApp sessions; registration, invitations, second factor, OAuth,
impersonation, lock-out and the list of denied access tokens.

Still to be modelled, in the order of the plan: the active-flag cache and the
portal's one-time codes; the circuit breaker; the segment rules; the automation
worker; all writers of the consent flags.

Not worth a model: the client (but for what `Sessions` needs of its storage),
the vendored WAHA gateway with its generated protocol code (together about three
quarters of the source lines of the repository), the copies of source files at
its root (older than those under `src/src`, and not part of the build),
read-only dashboards, prompts to external models, and single-row CRUD. They hold
no state whose interleavings matter. No model composes two components in one
state space: where they meet, the one has the other as a step that may fail, and
section 1 says where.

## 14. Running

    tlc -config PointsLedger_wallet.cfg MCPointsLedger
    tlapm PointsLedger_proofs.tla

`PROJECT.json` names module and configuration of every run. Definitions called
`X_Fault` are plausible bugs in `X`; no action uses them. Putting one in the
place of `X` makes TLC report the property that "mutants" names with it, which shows
that the property can fail. The largest runs, `redemptions_all`, `campaign_all`,
`sales_all` and `billing_all`, take one to two and a half minutes each.
