# A TLA+ model of new-api: money, tasks and the pages that show them

new-api is a gateway in front of many AI providers.  It authenticates a client
by an API key, chooses an upstream channel, relays the request, and charges the
client's quota.  What is hardest to get right in it, and what this project is
about, is state that several actors change with failures in between:

* the money of a request: reserved before it is dispatched, corrected
  afterwards, given back when it fails, over several rows written one after the
  other, with consume logs that have to tell the customer what was taken;
* the money of a customer: top-up orders, redemption codes and crypto invoices
  that callbacks, sweeps and chain watchers complete, repeatedly and late;
* work that outlives a request: asynchronous tasks with their refunds, and the
  background tasks that nodes take from each other by leases;
* the pages of the web interface in which answers arrive late, twice, or in the
  wrong order while the user goes on.

| module | models | kind |
|---|---|---|
| `BillingSession` | `service/billing_session.go`, `funding_source.go`, the quota statements of `model/billing_quota.go`, the subscription transactions of `model/subscription.go` | component |
| `SessionLedger` | what `BillingSettler` (`relay/common/billing.go`) promises its callers | abstract specification |
| `BillingLedger` | the refinement mapping from `BillingSession` to `SessionLedger` | composition |
| `RelayBilling` | `controller/relay.go` with `service/auto_billing.go`, `quota.go`, `text_quota.go`, `violation_fee.go`: one request from reserve to last log | component |
| `BillingOutbox` | the log events of `model/billing_outbox.go` | component |
| `AsyncTask` | `service/task_polling.go`, `task_billing.go`, `model/task.go`, `task_refund.go`, the refund events of `model/billing_outbox.go`, `tryRealtimeFetch` of `relay/relay_task.go` | component |
| `SystemTask` | `model/system_task.go`, `service/system_task.go` | component |
| `TopUp` | `model/topup.go`, `model/redemption.go` | component |
| `Invoice` | what a crypto invoice promises its buyer and whoever reads its status | abstract specification |
| `DirectCrypto` | `model/direct_crypto_payment.go`, `direct_crypto_reconciliation.go` and the watchers in `service/`; implements `Invoice` | component |
| `StreamAccumulator` | `features/playground/lib/message`: chunks to message text and reasoning | algorithm |
| `PlaygroundChat` | `features/playground/hooks` and `lib`: the conversation | component |
| `SettingsForm` | `features/system-settings/hooks` | component |
| `BillingHistory` | `features/wallet/hooks/use-billing-history.ts` and its dialog | component |
| `CryptoPaymentPage` | `features/wallet/components/direct-crypto-payment-page.tsx`, on top of `Invoice` | component |
| `WebPages` | a tab with one of the last three open | composition |
| `BillingLedgerProofs` | theorems about the first three | proofs |
| `RelayBillingProofs`, `BillingOutboxProofs`, `AsyncTaskProofs`, `SystemTaskProofs`, `TopUpProofs`, `DirectCryptoProofs` | theorems about the module each is named after | proofs |
| `WebProofs` | theorems about `WebPages` with its three pages and about `PlaygroundChat` | proofs |
| `MC*` | instances for TLC | |

`PROJECT.json` maps every definition to the lines it models and lists runs,
mutants, hazards, theorems and findings.

## 1. Inventory

**Billing session.**  One object per request: the quota it holds
(`preConsumedQuota`, `tokenConsumed`, `extraReserved`, `unresolvedFunding`), its
funding source (wallet or subscription) and the flags of its life.  Operations:
`NewBillingSession` (with a preference and a fallback source), `Reserve`,
`Settle`, `Refund`, `RemainingHolds`.  Each is two or three database writes, any
of which may fail; sessions of one user share all ledgers and only their own
calls are serialised.  Correct: the fields always say what was really taken; a
session is charged once or returned completely; reservations never overdraw.

**Quota ledgers.**  A user's quota, the quota of an API key, and the usage of
each subscription with a pre-consume record per request.  Contention for the last
units, a refund in another period than its hold, retried refunds.

**Relay attempt loop.**  `RelayInfo`: `Billing`, `FinalPreConsumedQuota`,
`BillingSettled`, the `Attempt...` fields.  It reserves, tries groups ("auto") or
channels, classifies a failed attempt, settles, writes the log, and in a deferred
function refunds.  Evidence about a failed attempt contradicts itself; a failed
settlement leaves a hold that somebody has to keep and somebody has to report.

**Violation fee.**  The base request is refunded and a fee charged instead.

**Billing outbox.**  A table of events (consume logs and task refunds).  The main
database and `LOG_DB` have no common transaction, claims expire without being
renewed, the payload may be replaced during a delivery.

**Asynchronous tasks.**  A row per task with status and progress, moved to a
terminal status by polling passes, a timeout sweep, a bulk update and a user's
fetch.  Who wins the compare-and-set decides about the charge; a refund is an
event worked off in stages.

**System tasks.**  Rows of `system_tasks` and one lock row per type.  Nodes claim
a task by taking the lock and then moving the row, renew the lease, stall, crash.

**Top-ups and redemption codes.**  Orders completed by callbacks that are
repeated, late and concurrent with expiry, rejection and reconciliation.

**Direct crypto payments.**  Invoices identified by an exact amount, which is
reused after a quarantine; a watcher per process that reads the chain in passes
and credits a transfer, lists it as late, or sets it aside.

**Playground.**  A conversation in the browser with one generation, an
accumulator that splits text from reasoning, a timer that batches updates,
another that saves, and an editor that keeps what it was opened with.

**Settings form, billing history, payment page.**  Pages fed by GETs that
`lib/api.ts` shares between callers, with saves and buttons that ask again.

**Not modelled** (section 9): subscription orders, quota caches, channel choice
and health, rate limiter, system update, pricing, adaptors, accounts, the rest of
the interface.

```
 controller.Relay ── PreConsumeBilling ──> BillingSession ──> wallet, key, subscription
        ├── attempt (adaptor, upstream)
        ├── RecordConsumeLog ──────────> LOG_DB, or outbox when that fails
        ├── charged error, violation ──> outbox (main DB) ──> workers ──> LOG_DB
        └── RelayTask ──> task row <── passes (SystemTask) ──> settlement, or refund event
 callbacks, sweeps ──> TopUp        watchers ──> DirectCrypto = Invoice <── payment page
```

`RelayBilling` uses the session through its contract; `BillingLedger` shows, and
`BillingLedgerProofs` proves, that the session keeps it.  `RelayBilling` counts a
log as recorded once it is durable in the outbox; `BillingOutbox` shows what
becomes of it.  `AsyncTask` lets passes overlap because `SystemTask` shows that a
runner which lost its lease goes on for a while.  `CryptoPaymentPage` polls an
`Invoice`, which `DirectCrypto` implements.

The hazards of this code are in `PROJECT.json`, each at its line with the
properties that would catch it going wrong.

### Settings of one run

Several components behave differently under settings that do not change while
they run: the platform of a task, a database that serialises transactions, how
many watchers there are.  Such a setting is a variable (`world`, `bound`,
`timing`, `serialised`, `section`) that `Init` chooses from a set and no action
changes, so that one run covers all of them and a property can say under which
it holds.

## 2. The billing session and its contract

One user, one API key, `NSubs` subscriptions and a set of `Sessions`.  The
ledgers are `wallet`, `key`, `subUsed`, `subActive`, `resetDue` and `record`.
`sess[s]` is the record of a session's Go fields; its `pc` is the database write
it executes next, or the state it rests in (`fundingSettled`, `settled` and
`refunded` are values of `pc`).  `posted[s]` is a history variable: the net quota
that the writes of `s` took from each ledger.

| code | actions |
|---|---|
| `NewBillingSession`, `tryWallet`, `trySubscription` | `NewBillingSession`, `CheckWallet`, `CheckFails` |
| `preConsume` | `PreConsumeToken(Fails)`, `PreConsumeFunding(Fails)`, `PreConsumeRollback(Fails)` |
| `Reserve` | `ReserveFunding`, `ReserveToken(Fails)`, `ReserveRollback(Fails)` |
| `Settle` | `SettleFunding`, `SettleExceeds`, `SettleOverage(Fails)`, `SettleToken(Fails)` |
| `SettleBilling` without a session | `SettleWithoutSession` |
| `Refund` | `Refund`, `RefundWalletLeg`, `RefundSubscriptionLeg`, `RefundSubscriptionRetry`, `RefundExtraLeg`, `RefundTokenLeg`, `RefundLegFails`, `RefundDone` |
| subscription maintenance | `PeriodEnds`, `ResetDueSubscription`, `SubscriptionEnds` |

A write that changes nothing and returns an error to a caller who may call again
is a stuttering step.

Assumptions:

* The transactions on a subscription are serialised, as SQLite does it.  The
  code asks for `FOR UPDATE` with `tx.Set("gorm:query_option", ...)`, which gorm
  v1.25 does not act on; with MySQL or PostgreSQL this is a hazard of its own and
  a module of the plan.
* A wallet or key write that reports an error left its ledger alone.  For the
  retried subscription refund the model also has the other case.
* Request ids are unique; `Settle` and `Reserve` are not called after `Refund`.
* Every production caller sets `ForcePreConsume`, so the trust bypass is off; run
  `billing_reset` switches it on because `shouldTrust` still implements it.

Properties: `BooksMatchLedger` is the central one: what a session's fields say
(and `RemainingHolds` reports) equals what its writes took, between any two
writes and after any failures.  `QuotaConserved` is its sum over all sessions and
all ledgers, `NoPhantomUsage` the half that survives a reset of the period.
`WalletOverdraftBounded`: only settlements above their reserve overdraw.
`PlanNotOversold`: within a period, what concurrent requests hold of a limited
plan and what was charged to it never adds up to more than the plan's total.  It
adds up the requests, not the row's `amount_used`, which each transaction checks
before it stores it and which a lost update would therefore not show above the
total.  Like the other properties of a subscription it is claimed under the first
assumption above.
`FinishedIsFinal`: nobody moves quota for a request that has ended.

`SessionLedger` has a phase, the funds and the bill per request: idle, refused,
held, charged, returning or returned.  A charge takes exactly the bill, whatever
was held; a return only gives back and is over when nothing is held; nothing
leads from a charge to a return.  `BillingLedger` maps a session to it and states
`ImplementsLedger`.  The key's quota is not part of the contract: the code gives
it up where it must (`keyHeld`, `tokErr`), and `BooksMatchLedger` says what it
then amounts to.

## 3. A request: RelayBilling

`pc` is the step its goroutine takes next; `att` holds the `Attempt...` fields
and what the classification reads of the error; `info` the billing fields; `ses`
the session as its contract; `logs` the quota each consume log reports.  Four
kinds of request: auto or fixed group, HTTP or realtime.  What an upstream does
is nondeterministic: `FailedAttempts` is the set of combinations of evidence a
failed handler can leave, `StreamUsage` a usage report on an open socket,
`HandlerSucceeds` a result of any cost.  Every call that can fail does, and
`Crash` may come at any point.  Assumptions: consume logs are enabled, the outbox
table exists, a violation is an answer to an HTTP request.

`ReportedWasTaken` compares the logs of a finished request with what was taken,
in both directions.  `IntentCoversTaken`: the staged intent covers what is taken
at every moment at which a crash could leave it as the only trace.
`UnbilledFailureIsFree`, `AtMostOneSpentAttempt`, `FeeOnlyAfterBaseReturned`: an
uncertain attempt is refunded, an attempt that was billed or shown is not followed
by another, the fee replaces the price.  The second counts an attempt that ended in
a usage violation (`breached`) in a fixed group only: Auto forces the outcome of
such an attempt to nonbillable and tries the next group (section 9).  `Terminates` is liveness, under
weak fairness of `Step`: the goroutine keeps running and its calls return.

## 4. The billing outbox

An event is an intent that is staged and finalized, or a final log queued after
`LOG_DB` refused it.  Per event: what its request has done, the payload of its
row, whether it is due, and the rows of `LOG_DB` with its request id.  Per worker:
the statement it executes next and what it has read.  A worker may fail or die
before each statement, and a write to `LOG_DB` may commit and report an error.
`ClaimFails` reschedules the event whether or not somebody else holds it, as
`recordBillingOutboxFailure` does.
`timing` says whether a settlement ends within the delay of its intent and a
delivery within its claim, each of which is 60 seconds in the code and enforced
by nothing.

`NothingLost` holds whatever the timing: an intent leaves only when its log was
written, and a payload that replaced it does not leave with it.  `FinalLogStays`:
with settlements in time the final log and no preliminary one remains, and with
deliveries in time too exactly one.  `EventuallyDelivered` assumes that the
periodic task runs for ever (`Claim`), time passes (`Tick`), a settlement ends, and
a statement that is tried again and again for an event succeeds in the end (strong
fairness of each, since a failure in between disables it).

## 5. Tasks

**AsyncTask** is one task after its submission.  `poll` holds, per polling pass
and per user's fetch, its step, the status it read, the answer and the delta;
`event` and `work` the refund event and its deliveries; `taken` what the task
holds of each source and of the key; `bills` how often somebody decided about the
charge; `funds` whether the sources can take their parts back: they cover them, the
subscription is used less than its part since its period was reset (`UsageReset`,
`UsageGrows`), or the user or subscription is gone (`SourceDeleted`).  In the last
two cases the funding transaction is rolled back by its own guards
(`FundingRefused`, `task_refund.go:41-80`) and tried again later.  `UpdateSuccess`, `UpdateRetained`, `UpdateRefunded`, `SweepTimedOut` and
`UpdateUnfinished` compare and set the status; `BulkFailure` and `UserUpdates`
write it as the code does, the former without any comparison.  The settings:
platform, how the charge was split, whether the channel is lost or asked in real
time, whether the database serialises, whether deliveries overlap.

`BilledOnce`: one actor decides about a charge, and none is moved without a
decision.  `StageTellsRefund`: the stage of the event says exactly what was
returned, each source its own part.  `RefundCompletes`: a refund that was decided
is paid and logged once, to the end when its funding stage is done, and from the
start if the sources cover it from some time on.  Without that it may be refused
for ever, as `task_billing_test.go:612-638` shows for a reset subscription.
`TaskEnds`: a task ends or is marked complete.
Fairness: the poll runs for ever, a pass ends, the sweep of a task that stays open
wins in the end, deliveries continue and from some moment on their statements do
not fail (a database that is up again; a refusal by a guard is not such a failure).

**SystemTask** is one type of task.  Every statement of `ClaimSystemTask`,
`acquireSystemTaskLock`, `ExpireStaleSystemTaskLocks`, the heartbeat and
`FinishSystemTask` is a step; a lease is the time left, and a function keeps the
`now` it began with.  The update to running may be written and its answer lost.  `OneRunnerPerTask`: a task is started once.
`LoserRecordsNothing`: a runner that lost its lease records no success.
`TaskEnds`, under fairness of the clock, of the periodic scan, of claims and of
handlers on nodes that stay up, excepts two mishaps (section 9).  Runners crash for
good; one stays up.

## 6. Payments

**TopUp** is an order and a code with transactions that are a read and a commit.
Those that ask for the row with `clause.Locking` hold it; those that use the
ignored query option do not.  `CreditedOnce` holds with and without serialised
transactions for orders, and for codes where the database serialises them;
`CreditedIsSuccess` where it serialises; `ExpiredNotCredited` always, except that a
YooKassa order may be reconciled.  `SettleFails` also stands for
`ErrTopUpSettlementAmbiguous`.

**DirectCrypto** has the clock, the orders (a payment row and its top-up row,
which change in one transaction everywhere), the metadata and reconciliation
rows, the chain, and a pass per watcher: candidates, fetched transfers, the one
being judged.  What the code reads outside a transaction is a step of its own.
`OneVerdict`: a credited transfer is on no list of uncredited ones.
A transfer is made by a buyer for an order (`Pay`, in time or late), in a wrong
amount, or for no order in an amount that one is given afterwards (`PayEarly`, at
most `maxEarly` of them).
`PaidInTimeByItsBuyer`: an order is paid by a transfer its buyer made for it before
its deadline, and a transfer pays one order; a transfer for no order pays one only
if it was mined in the second in which the order was created, which the code cannot
tell apart.  `DoneIsJudged`: a pass leaves no transfer it went over without a
verdict, except that one mined before the order with its amount is skipped and
listed nowhere (`direct_crypto_payment.go:898-900`, permanent for the watcher,
243-257; `TestPollDirectUSDTTRC20OnceSkipsOldEventAndSettlesLaterEvent`).
`TimelyIsPaid`: once a pass is done with a timely transfer its order is paid.
`ImplementsInvoice`: the refinement.  `RecordLate` goes on after the unique
violation of a metadata row (1193-1229), which works on SQLite and MySQL;
PostgreSQL has aborted the transaction by then, and the pass fails instead.
Assumption: users are not deleted, so that no invoice becomes "failed".

## 7. The web interface

**StreamAccumulator.**  Text is a sequence of symbols in which the tags overlap as
`<think>` and `</think>` do.  `ParseThinkTags` on the whole text is the reference;
`AnswerExact` says that accumulator and message agree with it for every way to cut
the answer, `NoTagFragmentShown` that no beginning of a tag is shown.  A
repetition that the code takes for a cumulative chunk is recorded in `misread`.  An
answer comes in one of the fields `content` and `reasoning_content`; one that mixes
them is not modelled.

**PlaygroundChat.**  Each handler is an operator from the state of the hooks to the
next, so that one that calls another reads as in the code; handlers run to their
end and their order is free.  The events of a source come in batches, since sse.js
dispatches all messages of one network read, closed or not.  `rendered` is what the
event handlers close over.  `PendingIsOwned`: a message that shows a spinner is the
last one, of the current request, with Stop on the screen.  `NothingDropped`: a
message is exactly the chunks of its own stream.  `StoredLoads`: what is shown is
stored once the timer has run, unless that save or the load before it threw
(`swallowed`), and loads without pending messages.  `disks` of a setting says what
the store does: it works, refuses to be written (a quota exceeded, a message the
schema refuses) or does not load; the code catches the error, logs it and goes on
(`storage.ts:365-384`).  The setting in
which a closed source goes on assumes a user slower than the 50 ms flush.

**SettingsForm, BillingHistory, CryptoPaymentPage** model the three hooks with the
shared GET of `lib/api.ts`: a fetch is answered by the request in flight, which
the server may have read before.  **WebPages** opens one of them in a tab.
`ShownIsTrue`: clean fields show what is stored, the list is that of the newest
fetch, the payment page says paid or cancelled only of an invoice that is.  For the
fields there are two kinds of sections.  A "fresh" one builds its defaults in its
own render (`system-info-section.tsx`) and shows what is stored.  A "stable" one gets
defaults that change only with the query's data (the quota and referral sections,
for instance), and shows what is stored or, in all clean fields together, what its
own last save submitted: when the answer read after the save equals the data the
query held before, nothing renders and the form is not reset.
`OnlyTypedIsSent`: a save never writes back a field nobody touched.
`EveryWaitEnds`: skeletons and pressed buttons come to an end and the payment page
learns of payment and cancellation, under weak fairness of the browser's timers
and of requests, which end with an answer or an error.

## 8. Runs and bounds

| run | instance | distinct states | why it is enough |
|---|---|---|---|
| `billing_session` | two sessions, one subscription of total 2, wallet and key 3, amounts 0..2, all preferences, playground or not | 1,153,000 | together the sessions want more than each ledger has, so every conditional update is refused in some state and passes in another; settling below, at and above the reserve, and 0 |
| `billing_reset` | two subscriptions, two ends of a period, trust bypass | 252,000 | a hold of one period is returned in the next, before and after the reset, with a second subscription to fall to |
| `relay_billing` | all four kinds, quotas 0..2, three attempts, two usage reports | 252,000 | price below, at and above the reserve, a retry after a retry, a raise after a raise, a violation after bytes were shown |
| `relay_fixed_realtime` | one kind | | the finding |
| `billing_outbox` | one event, three workers, at most 3 copies of a log, all timings | 28,000 | events do not interact except through a worker; three workers allow an overlap of an overlap |
| `system_task` | two runners; one task and functions that stall for two leases, or two tasks and stalls of one | 106,000 | a takeover in the middle of a claim, and a task that replaces another |
| `async_task` | two passes, a user, two deliveries, four settings, recalculation to less and to as much or more, sources that cease to cover the refund | 293,000 | every pair of writers of a row meets, and a refund is refused before, between and after its attempts |
| `top_up` | three transactions, one order, one code | 24,000 | a callback, its repetition and a closing writer at once |
| `direct_crypto` | two orders, two amounts, two transfers, two watchers, TTL 1, one early transfer; five settings | 3,681,000 | a late and a timely transfer of one order, an amount used twice or paid before it is issued, a transfer judged by both watchers |
| `playground_chat` | two or three requests, one or two chunks, a reload, two edits; five settings, one with stores that fail | 786,000 | an answer, the next, and an editor open over both |
| `stream_accumulator` | texts of up to four pieces (letters, `<`, half a tag, whole tags) | 177,000 | two sections, nested and broken tags, every cut |
| `web_pages` | two options with three values, two edits and saves; two pages and filters; one invoice; one or two faults; both kinds of sections | 396,000 | a save over another administrator's write, two fetches of one query, a cancellation between two polls |

Bounds are constants named in the modules (`MaxPeriods`, `MaxUse`, `MaxLogs`,
`MaxTransfers`, `MaxEdits`, ...), in the settings (`maxNow`, `stall`,
`maxRequests`, ...), or `MaxBills` of `AsyncTask`, which stops a reopened task
from being billed without end.  Symmetry is used in runs without liveness only.
Deadlock is checked in `relay_billing` and `direct_crypto`; elsewhere everything may
have ended.

Each property of a passing run has a mutant in `PROJECT.json`: a version of a
definition with a plausible mistake under which TLC finds that property violated.
The mutants are defined beside the definitions they replace and used by nothing
else.

### Proofs

The theorems of `BillingLedgerProofs` are about `Spec` of `BillingSession` for any
finite set of sessions, any number of subscriptions, any totals, amounts and initial
balances, under `ConstantsAssumption` only.

* `Inductive`: `Spec => []IndInv`.  `BooksMatchLedger` is not inductive: that
  `RefundExtraLeg` gives back what is held, for instance, needs to know that
  `preConsumedQuota + unresolvedFunding` is the hold of an open session, that
  `extraReserved` is part of it, and that the record of the request says
  `consumed` exactly as long as the funding leg of the refund is open.  `IndInv` is
  `TypeOK` with, for each session, `SessionInv(sess[s], posted[s], record[s])`: its
  books match, and a part for each stretch of its life (`StartingInv`,
  `ReservedInv`, `ChargedInv`, `RefundingInv`, with `SourceInv` on what a
  wallet-funded and a subscription-funded session cannot have).  It speaks about
  one session at a time: `SessionMoves` lifts the lemma about a session (one per
  action) to the state.
* `TypeCorrect`: in particular holds never become negative although rollbacks
  and refunds subtract.
* `BooksCorrect`: `BooksMatchLedger`, the trust bypass included.
* `FinishedStaysFinished`: `FinishedIsFinal`, from `StepsAlone`: a step writes the
  record, the fields and the history of one session, and that one has not ended.
* `NoOversale`: `PlanNotOversold`.  The lemma `CounterWithin`, one lemma per
  transaction, says that the row's counter is within the total; that the counter is
  the sum over the requests comes from `LedgerInv` below, and that a request's part
  of the sum is what its fields say, from `BooksMatchLedger`.
* `Implements`: `Spec => ImplementsLedger`.  `IndInv`
  determines the funds of a session in each phase; the `...Places` lemmas say
  which phases an action leads between and how it moves the funds;
  `StepIsLedgerStep` collects them, and `StepImplements` turns each into a step of
  the contract or a stutter.
* `Conserved` and `NoPhantom` state `QuotaConserved` and
  `NoPhantomUsage`.  The invariant is `LedgerInv`: the wallet and the key with the
  sums of all histories are what they were at the start, and a subscription's usage
  is at most, and as long as no period has ended exactly, the sum over the sessions
  that were charged to it.  Every step makes one of five writes (`StepWrites`) and
  moves one term of a sum (`SumMoves`); that the clamp at zero loses nothing needs
  that no session's usage is negative (`SubUsageNat`, the part `r.over <= r.arg` of
  `ChargedInv`), and that the usage of all plans is the usage of all sessions is
  `SumOfParts`.
* `OverdraftBounded` states `WalletOverdraftBounded`, from
  `StepCovered`: a step leaves the wallet at or above zero, or takes no more than it
  adds to the overrun of its session.

The sums need induction.  The library's induction theorems take an operator, which
the provers cannot instantiate; `WFMin` quantifies over sets and can be used.  From
it come `LeastElement`, `SetInduction` and `SubsetInduction`, that the recursion of
`SumFunction` has a solution (`SumRecExists`), and the facts about sums.

The theorems of `TopUpProofs` are about `Spec` of `TopUp` for any set of concurrent
transactions, with and without a database that serialises them.

* `OneCredit`, `PaidStaysPaid`, `NoLateCredit`: `CreditedOnce`, `CreditedIsSuccess`
  and `ExpiredNotCredited`.  Their invariant adds that a transaction which locks
  the row is alone and read what is still there (`LockedInv`), that reconciliations
  are YooKassa's and closing callbacks are not (`KindInv`), so that no `expired`
  order a reconciliation may settle was credited before a stale save
  (`MoneyInv`), and that a serialising database has one open transaction, which
  read the present (`SerialInv`).  `OpenInv` and `EndInv` are the two things a
  transaction can do; every action is an instance of one of them.

The theorems of `RelayBillingProofs` are about `Spec` of `RelayBilling` for any
reserves, prices and fee, any number of attempts and any length of a realtime
connection.

* `LogsMatchMoney`, `IntentCovers`, `UnbilledIsFree`, `OneSpentAttempt` and
  `FeeAfterRefund` state `ReportedWasTaken`, `IntentCoversTaken`,
  `UnbilledFailureIsFree`, `AtMostOneSpentAttempt` and `FeeOnlyAfterBaseReturned`.
  A request runs in one goroutine, so the strengthening (`PlaceInv`) says of each
  `pc` what money, session and logs are there: the session holds what `RelayInfo`
  says until a settlement (`Holding`), exactly the reserve unless a realtime
  connection raised it (`Reserved`), and whoever settles leaves a log of what is
  held and takes away the session the deferred refund would return (`Settled`).
  For `OneSpentAttempt` it says that the attempts before the present one spent
  nothing, violations included in a fixed group.
  A first attempt at this proof failed at `ClassifyAttempt`, which was a `CASE` with
  overlapping guards; it is now the chain of early returns the code has.

The theorems of `BillingOutboxProofs` are for any number of events and workers.

* `IntentsArrive` and `FinalLogOnly` state `NothingLost` and `FinalLogStays`.  The
  first needs that a delivery deletes only a payload it sent itself
  (`DeletesSent`).  The second needs that nobody touches an intent while its
  settlement runs (`SettlesAlone`) and that claims of an event exclude each other,
  so that the count a delivery read is still true when it writes
  (`DeliversAlone`).

The theorems of `AsyncTaskProofs` are for any number of passes, requests and
deliveries and any quotas.

* `OneDecision` and `StageTells` state `BilledOnce` and `StageTellsRefund`.  A
  decision is taken by whoever moves the row from an open to a terminal status;
  passes compare with an open one only (`ListedOpen`), and what was decided shows
  in the row (`DecidedInv`).  That no stage is repeated needs that a transaction
  between its read and its write finds the stage it read (`WritesInTurn`), because
  the database serialises or because there is one delivery at a time
  (`OneDelivery`), and that nobody settles the same charge (`SettlesAlone`).

The theorems of `SystemTaskProofs` are for any number of nodes and tasks, any lease
and any delay.

* `OneRunner` and `LosersAreSilent` state `OneRunnerPerTask` and
  `LoserRecordsNothing`.  The first rests on the status, which leaves "pending" for
  ever when a task is started (`RanInv`), not on the lock, which may be taken over
  in the middle of a claim, and holds when the answer to the update is lost: the
  task is then nobody's.  The second needs that a lost lease does not come back:
  a runner locks only what it read as pending (`ClaimInv`), so that the lock and
  the runner of a lost task differ for good (`LostInv`).

The theorems of `DirectCryptoProofs` are for any orders, amounts, transfers and
watchers, on every chain.

* `IsInvoice`: `Spec => ImplementsInvoice`; every step of an order is one the
  invoice allows (`BillStep`).
* `PaidByItsBuyer` and `VerdictsAgree` state `PaidInTimeByItsBuyer` and `OneVerdict`.
  `OrderInv` says that the exact amount of an order is its own for ever, so that
  what matches a transfer made for an order is that order (`MatchIsOwn`), and what
  matches one made for none was created no earlier (`ChainInv`), however stale the
  candidates of a pass are.  `PassInv` says that what a pass has found
  out is still true, and `MetaInv` that only what can never be credited is listed
  as late.  Both survive the steps of the others because a deadline and a
  cancellation do not change (`PassKept`, `ClosedKept`): that is the reason why
  reading the row outside of the transaction does no harm here.
* `PassesJudge` and `TimelyTransfersPay` state the action properties `DoneIsJudged`
  and `TimelyIsPaid`, from `StepVerdict`: whatever ends a watcher's work on a
  transfer leaves the order paid, or the transfer set aside or listed as late, or
  the transfer is older than the order that has its amount.
  The second needs that only transfers of paid orders remain without a match where
  every order is looked up (`TimelyInv`).

The first theorems of `WebProofs` are about `Spec` of `WebPages`, for any options,
values, filters and orders.

* `PagesInductive`: `Spec => []PagesInv`, the invariant of the page that is open.
  In `SettingsInv` a form is based on the options the query holds or, in a stable
  section, on what its last save submitted, and a field that differs from its
  default is one the user typed into (`FormBased`); and what the query holds, or the server has read for it, is
  what is stored unless the table was written since (`CacheRead`).  In `HistoryInv`
  a fetch that carries the value of the counter is the newest one.  In `PaymentInv`
  what the server read for the poll in flight and what it told the cancel button
  are still true when they arrive, except for "pending" and "expired":
  `InvoiceIsFinal` says that nothing leaves "paid" and "cancelled".
* `PagesShowTheTruth` and `SavesSendTyped` state `ShownIsTrue` and the action
  property `OnlyTypedIsSent`.

The others are about `ChatSpec` of `PlaygroundChat`, for any number of requests,
chunks, edits and reloads, any limits of the store, with streams and without, and
whether or not a closed source goes on dispatching.

* `ChatInductive`: `ChatSpec => []ChatInv`.  None of the three properties is
  inductive.  `ListOf`: the keys of a list are of requests that were sent and no
  two are the same, so that an update by key or of the last message touches one
  message.  `StreamInv`: the only source that is open is the one the hook holds,
  of the newest request, whose message is the last; chunks wait without a source
  only after an error that the message shows.  It is what makes the clearing of
  the batch at the next submission harmless.  `PlainInv` and `PendingRequested`
  say the same of an answer that is not streamed, which the abort controller and
  the request number decide about.  `ExactIn` carries the chunks.
  `RenderedInv`: what the event handlers closed over is an older state of the
  same messages, and is the state when nothing streams; without it an edit or a
  regeneration could write anything.  `EditingInv` and `LeftInv` say that the
  editor is not open on the message that streams, and that text is held back
  without a source only after an error.  `StoredInv`: what is on disk has at most
  its last message pending, which is the one `sanitizeMessagesOnLoad` settles.
* `PendingOwned`, `ChunksExact` and `SavedLoads` state `PendingIsOwned`,
  `NothingDropped` and `StoredLoads`.  Their exceptions are those of the properties:
  a message that an edit from an older render has set back (`overwritten`), an
  answer that failed, for the chunks the time after a reload, and for the store a
  save or load that threw (`swallowed`).
* The lists of messages need lemmas about the end of a list (`LastIs`,
  `WithLastIs`, `SuffixIs`), its truncation by count and by size (`LastOfIs`,
  `TrimmedIs`) and the greatest element of a bounded set (`MaxIs`), which follows
  from the well-foundedness of the natural numbers.

Each of these inductive invariants was checked with TLC on the instance of the
component's run before it was proved.

Checked by TLC only, and why:

* liveness (`Terminates`, `EventuallyDelivered`, `TaskEnds`, `RefundCompletes`,
  `EveryWaitEnds`): fairness and ENABLED are beyond the prover;
* `AnswerExact` and `NoTagFragmentShown` of `StreamAccumulator`: the parser is a
  recursive operator, and that cutting the text anywhere gives the same result is
  an induction over the text.

## 9. Where code and its own words part

**Finding** (run `relay_fixed_realtime`): a fixed-group realtime request reports a
reserve it gives back (`controller/relay.go:413-431`).  When the funding write of
`PostWssConsumeQuota` fails, the consume log and the usage counters record the
reserve as kept.  The auto branch of the loop then drops `relayInfo.Billing`; the
fixed branch does not, and the deferred refund returns the reserve.

The properties of the passing runs say under which condition they hold.  What
happens outside it was looked at with TLC too; in each case the model has the
behaviour and the condition is what leaves it out:

* `BillingSession`: the subscription transactions read the row, compute and save
  all of it; the lock they ask for (`subscription.go:1765, 1960`) is not taken under
  gorm v1.25, so that on MySQL and PostgreSQL two of them can lose an update and a
  plan be used above its total.  `PlanNotOversold`, `QuotaConserved` and
  `NoPhantomUsage` are about transactions that are serialised; this one behaviour
  the model does not have.
* `RelayBilling`: a usage violation is made nonbillable (`relay.go:375-391`) before
  `ShouldRetryAutoAttempt` looks at it, so that Auto tries the next group even after
  billing evidence, or bytes shown to the client.  The error itself is normalised
  with "skip-retry is enabled" before the retry decision (`violation_fee.go:57-61`),
  and that a violation may come with billing evidence is a case of
  `violation_fee_test.go:49`.  Condition:
  `AtMostOneSpentAttempt` counts violations in a fixed group only.
* `BillingOutbox`: a claim that fails after another worker's claim cuts that one's
  minute to 15 seconds (`billing_outbox.go:346-354`, no condition on the claim).
  The model has it; where `timing.delivery` is set, a delivery is assumed to end
  within what is left.
* `BillingOutbox`: a settlement that outlives its grace period leaves a stale or a
  duplicate log, against `billing_outbox.go:445-447`: the upsert makes the event
  due at once (280-288) while a worker may be between its count and its write, and
  `request_id` is not unique in `LOG_DB` (`log.go:81`).  Condition:
  `timing.settlement`.
* `AsyncTask`: `refundTaskFunding` reads the stage without a lock and ignores
  `RowsAffected` (`billing_outbox.go:502-524`), so that overlapping deliveries
  refund twice where transactions are not serialised.  Condition: `overlap =>
  serialised`.
* `AsyncTask`: a refund to a subscription whose period was reset finds less used
  than it would return and fails (`task_refund.go:70-78`); the event is tried again
  for ever, and a deleted user or subscription has the same effect (48-55).
  Condition: `<>[](funds = "cover")`.
* `AsyncTask`: `tryRealtimeFetch` (`relay_task.go:560`) writes what upstream says over
  a task that was refunded, and it is billed again.  Condition: `~realtime`.
* `AsyncTask`: `TaskBulkUpdateByID` (`task_polling.go:152, 224, 408`) fails a task that
  another node has completed, in a billing flow its own comment warns of
  (`task.go:460-463`).
* `AsyncTask`: a Suno answer with a fail reason and an open status sets progress to
  100% (`task_polling.go:286-289`); poll and sweep (`task.go:302-329`) never see the
  task again.  `TaskEnds` therefore says "or complete".
* `SystemTask`: a node that read a task as pending, stalls, and takes over the
  expired lock of the node that started it meanwhile, does not mark it
  (`system_task.go:256`), fails its compare-and-set and releases the lock: the task
  stays running for ever.  So does a task whose update to running was written while
  its answer was lost: the claim is given up and its lock released (269).
  Condition: `~mishap`.
* `TopUp`: where transactions overlap, `FailTopUpOrder` and
  `UpdatePendingTopUpStatus` save a row read before a callback completed the order
  (`topup.go:607, 547`), and a code is redeemed twice (`redemption.go:131`).
  Condition: `serialised`.
* `DirectCrypto`: a pass over TON or Solana reads its candidates before the chain
  (`direct_usdt_multichain_watcher.go:666, 734`), so that the transfer of an order
  created in between is set aside.  Condition: `world.live`.
* `DirectCrypto`: the metadata row of a late transfer blocks a timely one of the same
  order judged afterwards, and the pass fails there every time
  (`direct_crypto_payment.go:1057`).  `DoneIsJudged` and `TimelyIsPaid` speak about
  transfers a pass gets done with; this one it never does.
* `DirectCrypto`: a transfer mined before the order that has its amount is skipped
  in every pass and listed nowhere for support (`direct_crypto_payment.go:898-900`).
  Condition: the last alternative of `DoneIsJudged`.
* `StreamAccumulator`: a second delta equal to the first is taken for a cumulative
  chunk and dropped (`message-streaming-utils.ts:54`).  Condition: `~misread`.
* `PlaygroundChat`: Save & Submit of an editor opened before a generation is not
  guarded (`use-playground-conversation.ts:76-96`), and an edit saved before the
  render that follows a stream writes the older list back (line 80), after which a
  message may stay pending.  Condition: `overwritten = {}`.
* `PlaygroundChat`: a save that throws leaves the older list on disk, with its timer
  cleared and nobody told, and a load that throws leaves the page without messages
  it will then save (`storage.ts:365-384`).  Condition: `~swallowed`.
* `SettingsForm`: a refetch after a save is joined to a GET the server read before it
  (`lib/api.ts:55-74`).  Condition: `~unread`.
* `SettingsForm`: a reset during a save or a refetch discards what the user is typing
  (`use-settings-form.ts:209-223, 264-271`), where the comment of the hook promises
  "No automatic resets that could overwrite user input" (167-168).  Condition:
  `typed` counts from the last reset.
* `SettingsForm`: a stable section goes on showing what it submitted when somebody
  else puts the old value back before the refetch (same lines).  Condition: the
  second alternative of `CleanFieldsShowStored`.
* `BillingHistory`: the refresh after an order was completed asks for the page its
  handler was rendered with (`use-billing-history.ts:142`).  `ShownIsTrue` compares
  with the newest fetch, not with the page the user is on.
* `CryptoPaymentPage`: a page that was told "expired" stops polling and does not see
  a payment that was mined in time.

### Not modelled, and why

* **Subscription orders, quota caches, rate limiter, system update**: in the plan.
* **Channel selection and health**: their result is nondeterministic in
  `RelayBilling`; they do not touch the billing.
* **Pricing, adaptors**: decimal arithmetic and data conversion; a price is any
  quota, an answer any evidence.
* **Accounts and authorization**: handlers over single rows.
* **The rest of the interface**, by far most of the repository's lines: tables,
  dialogs, editors and charts that render data and call one endpoint each.  There
  is no state to interleave in them beyond the query cache and the form hook,
  which are modelled.
* In the modelled parts: creation and prices of orders, referral rewards, wallet
  pools and provider protocols of crypto payments, a buyer who is deleted for good
  (the invoice fails; the payment page knows that status as a terminal one),
  Midjourney, the unmount of the playground (it leaves its source open), answers
  that mix `content` and `reasoning_content` with tags, the draft of an open
  editor.  A stream that ends without `[DONE]` stays pending until stopped.

## 10. Plan

Modules: `SubscriptionRow` (the subscription transactions with the read and the
whole-row `Save` as two steps), subscription orders beside `TopUp`, `QuotaCache`
(invalidation against concurrent reads, and the batch updater), the rate limiter's
bucket, the updater's job, the tier editor of the pricing page.

Proofs: every safety property of the passing runs is proved but for the two of
`StreamAccumulator`; new modules come with theirs.  The modules other than
`BillingSession` define a `TypeOK` for the proofs; no run checks it by itself.
