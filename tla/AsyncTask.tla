----------------------------- MODULE AsyncTask ------------------------------
(***************************************************************************)
(* The charge of one asynchronous task (Suno, video) after its submission: *)
(* polling passes, the timeout sweep and a user's fetch move the row to a  *)
(* terminal status, and whoever wins decides what becomes of the charge    *)
(* (service/task_polling.go, service/task_billing.go, model/task.go).  A   *)
(* refund is an event of the billing outbox, worked off in stages          *)
(* (model/billing_outbox.go, model/task_refund.go).                        *)
(*                                                                         *)
(* Passes overlap: a runner that lost its lease goes on until its next     *)
(* heartbeat (module SystemTask).  Every database statement or transaction *)
(* is a step and may fail.                                                 *)
(***************************************************************************)
EXTENDS Integers, FiniteSets

CONSTANTS
    Pollers,        \* polling passes that may run at the same time
    Users,          \* requests for the task's state
    Workers,        \* deliveries of the outbox
    Actuals,        \* quotas a recalculation may come to
    Worlds          \* the settings to consider

\* A setting: the task's platform, what its submission took of the wallet and of
\* a subscription, and whether its channel may be gone, its channel is one that
\* a user's request asks (Gemini, Vertex), the database runs transactions one
\* after the other, and a delivery may outlive its claim of 60 seconds.
Settings == [platform : {"suno", "video"},
             wallet : Nat, subscription : Nat,
             lost : BOOLEAN, realtime : BOOLEAN, serialised : BOOLEAN, overlap : BOOLEAN]

ASSUME WorldsAssumption ==
    Worlds \subseteq Settings /\ \A w \in Worlds : w.wallet + w.subscription > 0
ASSUME ActualsAssumption == Actuals \subseteq Nat \ {0}

VARIABLES
    status,     \* the task row: its status
    complete,   \* and whether its progress is "100%"
    poll,       \* per pass or request: its step, the status it read, the answer, the delta
    event,      \* the refund event: its stage ("none": no row), and whether it is due
    work,       \* per worker: the next step of its delivery
    taken,      \* history: quota this task holds of each source and of the key
    logs,       \* refund logs in LOG_DB
    bills,      \* history: how often a winner decided about the charge
    funds,      \* whether the sources of the charge can take their parts back
    world       \* the setting of this behaviour

taskVars == <<status, complete>>
vars == <<status, complete, poll, event, work, taken, logs, bills, funds, world>>

Quota == world.wallet + world.subscription
Charged == [wallet |-> world.wallet, subscription |-> world.subscription, token |-> Quota]
Nothing == [wallet |-> 0, subscription |-> 0, token |-> 0]

Terminal == {"SUCCESS", "FAILURE"}
Statuses == {"SUBMITTED", "IN_PROGRESS"} \cup Terminal
Actors == Pollers \cup Users

\* What upstream says: a status or none (""), a failure, and whether the body
\* guarantees that nothing was billed (classifyTaskTerminalFailureBilling).
Answers == {a \in [status : Statuses \cup {""}, failed : BOOLEAN, unbilled : BOOLEAN] :
                /\ a.status = "FAILURE" => a.failed
                /\ world.platform = "video" => (a.failed <=> a.status = "FAILURE")}
NoAnswer == [status |-> "", failed |-> FALSE, unbilled |-> FALSE]
Idle == [step |-> "idle", seen |-> "", answer |-> NoAnswer, delta |-> 0]
NoEvent == [stage |-> "none", due |-> FALSE]

\* The subscription's amount_used covers the task's part and the user exists; a new
\* period has set amount_used to less; or the user or the subscription is deleted.
Funds == {"cover", "short", "gone"}

TypeOK ==
    /\ status \in Statuses /\ complete \in BOOLEAN
    /\ poll \in [Actors -> [step : {"idle", "listed", "answered", "settle", "token", "audit"},
                            seen : Statuses \cup {""}, answer : Answers \cup {NoAnswer},
                            delta : Int]]
    /\ event \in [stage : {"none", "pending", "funding_done", "token_done"}, due : BOOLEAN]
    /\ work \in [Workers -> {"idle", "loop", "funding", "fundingWrite", "token", "tokenWrite",
                             "count", "create", "delete"}]
    /\ taken \in [wallet : Int, subscription : Int, token : Int]
    /\ logs \in Nat /\ bills \in Nat
    /\ funds \in Funds
    /\ world \in Worlds

Init ==
    /\ world \in Worlds
    /\ status = "SUBMITTED" /\ complete = FALSE
    /\ poll = [a \in Actors |-> Idle]
    /\ event = NoEvent
    /\ work = [w \in Workers |-> "idle"]
    /\ taken = Charged
    /\ logs = 0 /\ bills = 0
    /\ funds = "cover"

At(a, step) == poll[a].step = step
Goto(a, step) == poll' = [poll EXCEPT ![a].step = step]
Ends(a) == poll' = [poll EXCEPT ![a] = Idle]

(***************************************************************************)
(* One polling pass.                                                       *)
(***************************************************************************)
\* GetAllUnFinishSyncTasks and GetTimedOutUnfinishedTasks read the same rows.
ListSubmitted(p) ==
    /\ At(p, "idle") /\ status = "SUBMITTED" /\ ~complete
    /\ poll' = [poll EXCEPT ![p] = [Idle EXCEPT !.step = "listed", !.seen = status]]
    /\ UNCHANGED <<status, complete, event, work, taken, logs, bills, funds, world>>

ListTask(p) ==
    /\ At(p, "idle") /\ status \notin Terminal /\ ~complete
    /\ poll' = [poll EXCEPT ![p] = [Idle EXCEPT !.step = "listed", !.seen = status]]
    /\ UNCHANGED <<status, complete, event, work, taken, logs, bills, funds, world>>

FetchTask(p) ==
    /\ At(p, "listed")
    /\ \E a \in Answers : poll' = [poll EXCEPT ![p].step = "answered", ![p].answer = a]
    /\ UNCHANGED <<status, complete, event, work, taken, logs, bills, funds, world>>

\* A request, a statement or the node fails; or the answer says to wait (429).
PassFails(a) ==
    /\ ~At(a, "idle")
    /\ Ends(a)
    /\ UNCHANGED <<status, complete, event, work, taken, logs, bills, funds, world>>

\* UpdateWithStatus: the row is written if its status is the one that was read.
WonAlways(a) == TRUE

Won(a) == status = poll[a].seen

WriteRow(a, new, done) ==
    IF Won(a) THEN status' = new /\ complete' = done ELSE UNCHANGED taskVars

\* The status the answer leads to.
NewStatus(a) == IF poll[a].answer.status = "" THEN poll[a].seen ELSE poll[a].answer.status

\* An answer without a status is an error of a video task.
Rejected(p) == world.platform = "video" /\ poll[p].answer.status = ""

Answered(p) == At(p, "answered") /\ ~Rejected(p)

\* isDone && snap.Status != task.Status.
Finishes(p) == Answered(p) /\ NewStatus(p) \in Terminal \ {poll[p].seen}

UpdateUnfinished(p) ==
    /\ Answered(p) /\ ~Finishes(p)
    /\ WriteRow(p, NewStatus(p), poll[p].answer.failed)
    /\ Ends(p)
    /\ UNCHANGED <<event, work, taken, logs, bills, funds, world>>

\* A winner decides about the charge.
Decide(a) == bills' = IF Won(a) THEN bills + 1 ELSE bills

UpdateSuccess(p) ==
    /\ Finishes(p) /\ ~poll[p].answer.failed
    /\ WriteRow(p, NewStatus(p), TRUE)
    /\ Decide(p)
    /\ IF Won(p) /\ world.platform = "video" THEN Goto(p, "settle") ELSE Ends(p)
    /\ UNCHANGED <<event, work, taken, logs, funds, world>>

\* transitionTaskTerminalFailure: the charge is kept, with an audit log ...
UpdateRetained(p) ==
    /\ Finishes(p) /\ poll[p].answer.failed /\ ~poll[p].answer.unbilled
    /\ WriteRow(p, NewStatus(p), TRUE)
    /\ Decide(p)
    /\ IF Won(p) THEN Goto(p, "audit") ELSE Ends(p)
    /\ UNCHANGED <<event, work, taken, logs, funds, world>>

\* ... or returned: UpdateWithStatusAndTaskRefund, one transaction.  The event id
\* is unique: while an event of the task exists, the transaction fails.
UpdateRefunded(p) ==
    /\ Finishes(p) /\ poll[p].answer.failed /\ poll[p].answer.unbilled
    /\ event.stage = "none" \/ ~Won(p)
    /\ WriteRow(p, NewStatus(p), TRUE)
    /\ Decide(p)
    /\ event' = IF Won(p) THEN [stage |-> "pending", due |-> TRUE] ELSE event
    /\ Ends(p)
    /\ UNCHANGED <<work, taken, logs, funds, world>>

\* sweepTimedOutTasks: the charge is kept, for there is no answer to classify.
SweepTimedOut(p) ==
    /\ At(p, "listed")
    /\ WriteRow(p, "FAILURE", TRUE)
    /\ Decide(p)
    /\ IF Won(p) THEN Goto(p, "audit") ELSE Ends(p)
    /\ UNCHANGED <<event, work, taken, logs, funds, world>>

\* CacheGetChannel failed, or the row has no upstream id: TaskBulkUpdateByID.
BulkFailure(p) ==
    /\ At(p, "listed") /\ world.lost
    /\ status' = "FAILURE" /\ complete' = TRUE
    /\ Ends(p)
    /\ UNCHANGED <<event, work, taken, logs, bills, funds, world>>

(***************************************************************************)
(* settleTaskBillingOnComplete and RecalculateTaskQuota.                   *)
(***************************************************************************)
\* taskAdjustFunding: the whole delta goes to one source.
Source == IF world.subscription > 0 THEN "subscription" ELSE "wallet"

SettleFunding(p) ==
    /\ At(p, "settle")
    /\ \E actual \in Actuals :
           LET delta == actual - Quota
           IN  /\ delta # 0
               /\ taken' = [taken EXCEPT ![Source] = @ + delta]
               /\ poll' = [poll EXCEPT ![p].step = "token", ![p].delta = delta]
    /\ UNCHANGED <<status, complete, event, work, logs, bills, funds, world>>

\* HandleTaskTerminalFailureBilling writes its audit log, which takes no quota; a
\* task billed per call, or whose quota is the actual one, keeps its charge.
KeepCharge(p) ==
    /\ At(p, "audit") \/ At(p, "settle")
    /\ Ends(p)
    /\ UNCHANGED <<status, complete, event, work, taken, logs, bills, funds, world>>

\* taskAdjustTokenQuota; its failure is logged (PassFails).
SettleToken(p) ==
    /\ At(p, "token")
    /\ taken' = [taken EXCEPT !.token = @ + poll[p].delta]
    /\ Ends(p)
    /\ UNCHANGED <<status, complete, event, work, logs, bills, funds, world>>

(***************************************************************************)
(* tryRealtimeFetch: a user's request writes what upstream says.           *)
(***************************************************************************)
\* Bound: users ask until the charge has been decided about.
MaxBills == 1

UserReads(u) ==
    /\ At(u, "idle") /\ world.realtime /\ bills < MaxBills
    /\ \E a \in Answers :
           poll' = [poll EXCEPT ![u] = [Idle EXCEPT !.step = "answered", !.seen = status,
                                                    !.answer = a]]
    /\ UNCHANGED <<status, complete, event, work, taken, logs, bills, funds, world>>

UserUpdates(u) ==
    /\ At(u, "answered")
    /\ WriteRow(u, NewStatus(u), NewStatus(u) \in Terminal)
    /\ Ends(u)
    /\ UNCHANGED <<event, work, taken, logs, bills, funds, world>>

(***************************************************************************)
(* processTaskRefundOutbox.                                                *)
(***************************************************************************)
Busy(w) == work[w] # "idle"
Do(w, step) == work' = [work EXCEPT ![w] = step]

\* next_attempt_at is reached: 60 seconds after a claim, 15 after a failure.
Due ==
    /\ event.stage # "none" /\ ~event.due
    /\ world.overlap \/ \A w \in Workers : ~Busy(w)
    /\ event' = [event EXCEPT !.due = TRUE]
    /\ UNCHANGED <<status, complete, poll, work, taken, logs, bills, funds, world>>

Claim(w) ==
    /\ ~Busy(w) /\ event.due
    /\ event' = [event EXCEPT !.due = FALSE]
    /\ Do(w, "loop")
    /\ UNCHANGED <<status, complete, poll, taken, logs, bills, funds, world>>

\* The transaction of the funding stage finds no row to update: the subscription
\* WHERE amount_used >= its part, or the user.
Refused(w) == work[w] = "fundingWrite" /\ funds # "cover"

\* A statement or the node fails; the stage stays.
DeliveryFails(w) ==
    /\ Busy(w) /\ ~Refused(w)
    /\ Do(w, "idle")
    /\ UNCHANGED <<status, complete, poll, event, taken, logs, bills, funds, world>>

ReadStageForgetsLog(w) ==
    /\ work[w] = "loop"
    /\ Do(w, CASE event.stage = "none"    -> "idle"
               [] event.stage = "pending" -> "funding"
               [] OTHER                   -> "token")
    /\ UNCHANGED <<status, complete, poll, event, taken, logs, bills, funds, world>>

ReadStage(w) ==
    /\ work[w] = "loop"
    /\ Do(w, CASE event.stage = "none"         -> "idle"
               [] event.stage = "pending"      -> "funding"
               [] event.stage = "funding_done" -> "token"
               [] event.stage = "token_done"   -> "count")
    /\ UNCHANGED <<status, complete, poll, event, taken, logs, bills, funds, world>>

Free == world.serialised => \A v \in Workers : work[v] \notin {"fundingWrite", "tokenWrite"}

\* refundTaskFunding: the transaction reads the stage without locking the row ...
FundingReadUnchecked(w) ==
    /\ work[w] = "funding" /\ Free
    /\ Do(w, "fundingWrite")
    /\ UNCHANGED <<status, complete, poll, event, taken, logs, bills, funds, world>>

FundingRead(w) ==
    /\ work[w] = "funding" /\ Free
    /\ Do(w, IF event.stage = "pending" THEN "fundingWrite" ELSE "loop")
    /\ UNCHANGED <<status, complete, poll, event, taken, logs, bills, funds, world>>

\* refundTaskFundingSources: each source gets back its part of the charge.
RefundedSources ==
    [taken EXCEPT !.wallet = @ - world.wallet, !.subscription = @ - world.subscription]

Advance(from, to) == event' = IF event.stage = from THEN [event EXCEPT !.stage = to] ELSE event

\* ... and commits the refund whether or not the stage was still the one it read.
FundingWrite(w) ==
    /\ work[w] = "fundingWrite" /\ ~Refused(w)
    /\ taken' = RefundedSources
    /\ Advance("pending", "funding_done")
    /\ Do(w, "loop")
    /\ UNCHANGED <<status, complete, poll, logs, bills, funds, world>>

\* Or it rolls back, the wallet's part too, and the event waits for its next turn.
FundingRefused(w) ==
    /\ Refused(w)
    /\ Do(w, "idle")
    /\ UNCHANGED <<status, complete, poll, event, taken, logs, bills, funds, world>>

TokenRead(w) ==
    /\ work[w] = "token" /\ Free
    /\ Do(w, IF event.stage = "funding_done" THEN "tokenWrite" ELSE "loop")
    /\ UNCHANGED <<status, complete, poll, event, taken, logs, bills, funds, world>>

TokenWrite(w) ==
    /\ work[w] = "tokenWrite"
    /\ taken' = [taken EXCEPT !.token = @ - Quota]
    /\ Advance("funding_done", "token_done")
    /\ Do(w, "loop")
    /\ UNCHANGED <<status, complete, poll, logs, bills, funds, world>>

\* refundTaskLog and deliverBillingOutboxLog.
CountLogs(w) ==
    /\ work[w] = "count"
    /\ Do(w, IF logs = 0 THEN "create" ELSE "delete")
    /\ UNCHANGED <<status, complete, poll, event, taken, logs, bills, funds, world>>

CreateLog(w) ==
    /\ work[w] = "create"
    /\ logs' = logs + 1
    /\ Do(w, "delete")
    /\ UNCHANGED <<status, complete, poll, event, taken, bills, funds, world>>

DeleteEvent(w) ==
    /\ work[w] = "delete"
    /\ event' = NoEvent
    /\ Do(w, "idle")
    /\ UNCHANGED <<status, complete, poll, taken, logs, bills, funds, world>>

(***************************************************************************)
(* Meanwhile, at the sources of the charge.                                *)
(***************************************************************************)
\* maybeResetUserSubscriptionWithPlanTx: a new period of the plan begins.
UsageReset ==
    /\ world.subscription > 0 /\ funds = "cover"
    /\ funds' = "short"
    /\ UNCHANGED <<status, complete, poll, event, work, taken, logs, bills, world>>

\* Other requests take as much of the subscription again.
UsageGrows ==
    /\ funds = "short"
    /\ funds' = "cover"
    /\ UNCHANGED <<status, complete, poll, event, work, taken, logs, bills, world>>

\* The user or the subscription is deleted.
SourceDeleted ==
    /\ funds # "gone"
    /\ funds' = "gone"
    /\ UNCHANGED <<status, complete, poll, event, work, taken, logs, bills, world>>

PassStep(p) ==
    \/ ListTask(p) \/ FetchTask(p) \/ PassFails(p) \/ UpdateUnfinished(p) \/ UpdateSuccess(p)
    \/ UpdateRetained(p) \/ UpdateRefunded(p) \/ SweepTimedOut(p) \/ BulkFailure(p)
    \/ SettleFunding(p) \/ SettleToken(p) \/ KeepCharge(p)

Deliver(w) ==
    \/ Claim(w) \/ ReadStage(w) \/ FundingRead(w) \/ FundingWrite(w) \/ FundingRefused(w)
    \/ TokenRead(w) \/ TokenWrite(w) \/ CountLogs(w) \/ CreateLog(w) \/ DeleteEvent(w)

Next ==
    \/ \E p \in Pollers : PassStep(p)
    \/ \E u \in Users : UserReads(u) \/ UserUpdates(u) \/ PassFails(u)
    \/ \E w \in Workers : Deliver(w) \/ DeliveryFails(w)
    \/ Due \/ UsageReset \/ UsageGrows \/ SourceDeleted

Spec == Init /\ [][Next]_vars

\* Passes are scheduled while a task is unfinished, a task times out in the end
\* and some sweep then finds the row as it read it; the deliveries of a refund
\* fail again and again, but not for ever.
Fairness ==
    /\ WF_vars(\E p \in Pollers : ListTask(p))
    /\ \A p \in Pollers : WF_vars(PassFails(p))
    /\ SF_vars(\E p \in Pollers : SweepTimedOut(p) /\ Won(p))
    /\ WF_vars(Due)
    /\ WF_vars(\E w \in Workers : Deliver(w))
    /\ <>[][\A w \in Workers : ~DeliveryFails(w)]_vars

FairSpec == Spec /\ Fairness

(***************************************************************************)
(* Properties.                                                             *)
(***************************************************************************)
\* One actor at most decides about the charge of a task, however passes, sweeps
\* and refunds overlap: "CAS lost: user quota should NOT change (no double
\* refund)" (service/task_billing_test.go:890).  Where users' requests write the
\* row, which they do without looking whether it is terminal, it may be two.  And
\* no quota moves, in either direction, for a task that nobody has decided about,
\* even if a user's request or a lost channel has ended it
\* (service/task_polling.go:594-597).
BilledOnce ==
    /\ ~world.realtime => bills <= 1
    /\ bills = 0 => taken = Charged /\ event.stage = "none" /\ logs = 0

\* The stage of the refund event tells what has been returned: nothing while it
\* is pending, then each source its own part, then the key; and when the row is
\* gone everything or, with the charge kept, nothing was
\* (model/billing_outbox.go:476-551).  A refund that one source refuses leaves the
\* others as they were, however often it is tried.  Two deliveries at once may both refund
\* unless the database serialises them, for the stage is read without a lock.
Held == taken.wallet + taken.subscription

StageTellsRefund ==
    ~world.realtime /\ (world.overlap => world.serialised) =>
    CASE event.stage = "pending"      -> taken = Charged
      [] event.stage = "funding_done" -> taken = [Nothing EXCEPT !.token = Quota]
      [] event.stage = "token_done"   -> taken = Nothing
      [] event.stage = "none"         -> Held > 0 \/ taken = Nothing

\* A refund that was decided is paid out and logged, once unless two deliveries
\* count the logs at the same time, through any failures of statements and workers
\* (deliverBillingOutboxLog, model/billing_outbox.go:435): to the end once its
\* funding stage is done, and from the start if its sources can take it back from
\* some time on.  A refund whose subscription began a new period, and is not used
\* as much again, is refused by its guard for ever (model/task_refund.go:70-78).
PaidAndLogged ==
    event.stage = "none" /\ Held <= 0 /\ logs > 0 /\ (logs = 1 \/ world.overlap)

RefundCompletes ==
    /\ (event.stage \in {"funding_done", "token_done"} /\ ~world.realtime) ~> PaidAndLogged
    /\ <>[](funds = "cover") => ((event.stage # "none" /\ ~world.realtime) ~> PaidAndLogged)

\* A task that stays open times out in the end, unless its row says that it is
\* complete, which a Suno answer with a reason and an open status does say.
TaskEnds ==
    (status \notin Terminal /\ ~world.realtime) ~> (status \in Terminal \/ complete)
=============================================================================
