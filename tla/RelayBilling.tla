---------------------------- MODULE RelayBilling ----------------------------
(***************************************************************************)
(* One relay request from its reserve to its last consume log              *)
(* (controller/relay.go with service/auto_billing.go, quota.go,            *)
(* text_quota.go and violation_fee.go): the attempt loop over groups or    *)
(* channels, the classification of a failed attempt, its settlement, and   *)
(* the deferred refund.                                                    *)
(*                                                                         *)
(* The billing session appears as its contract (module SessionLedger): it  *)
(* holds funds, and Settle, Reserve and Refund succeed or fail.  A consume *)
(* log is what the customer is told he paid; one that is durable, in LOG_DB*)
(* or in the outbox that retries it, counts as recorded.  Usage, prices    *)
(* and errors are abstracted to the quota they amount to and to what the   *)
(* classification tells apart.                                             *)
(***************************************************************************)
EXTENDS Integers, FiniteSetsExt

CONSTANTS
    Kinds,      \* <<mode, format>> pairs of requests: auto or fixed group, http or realtime
    Quotas,     \* bound: reserves, estimates and costs of an attempt
    FeeQuota,   \* violation fee, 0 when the deduction is disabled
    MaxRetry,   \* common.RetryTimes, or the number of Auto candidates - 1
    MaxUse      \* bound: realtime usage reports of one connection

ASSUME ConstantsAssumption ==
    /\ Kinds \subseteq ({"auto", "fixed"} \X {"http", "realtime"})
    /\ Quotas \subseteq Nat
    /\ FeeQuota \in Nat
    /\ MaxRetry \in Nat
    /\ MaxUse \in Nat

VARIABLES
    pc,      \* the step the request's goroutine takes next
    req,     \* mode, format and reserve of the request
    retry,   \* retryParam.GetRetry()
    att,     \* the Attempt... fields of RelayInfo, and the attempt's error
    info,    \* the billing fields of RelayInfo
    ses,     \* the billing session: its state and the funds it has taken
    logs,    \* quota of each consume log of the request, -1 = not recorded
    fee,     \* violation fee really taken
    pending, \* the charged-error log is still the staged intent (settlement_pending)
    lost,    \* a log or an intent could not be made durable at all
    spent,   \* history: attempts whose result was billed upstream or shown
    breached \* history: the same of attempts that ended in a usage violation

vars == <<pc, req, retry, att, info, ses, logs, fee, pending, lost, spent, breached>>

Outcomes == {"unknown", "billable", "nonbillable", "ambiguous"}
Places == {"start", "attempt", "handler", "stream", "settle", "record", "failed", "stage",
           "settleCharged", "final", "deferred", "refundLog", "feeStage", "feeCommit",
           "done", "crashed"}

(* RelayInfo.ResetAttempt.  It leaves FirstResponseTime alone (see BeginAttempt). *)
FreshAttempt ==
    [dispatched |-> FALSE, marked |-> FALSE, usage |-> FALSE, known |-> FALSE,
     actual |-> 0, responded |-> FALSE, handled |-> FALSE, uses |-> 0, unres |-> FALSE, est |-> 0,
     err |-> "none", errOutcome |-> "unknown", retryable |-> FALSE, outcome |-> "unknown",
     cost |-> 0, logQuota |-> 0, settleErr |-> FALSE]

NoLogs == [usage |-> -1, charged |-> -1, refund |-> -1, fee |-> -1]

Init ==
    /\ pc = "start"
    /\ \E k \in Kinds, n \in Quotas : req = [mode |-> k[1], format |-> k[2], reserve |-> n]
    /\ retry = 0
    /\ att = FreshAttempt
    /\ info = [billing |-> FALSE, finalPre |-> 0, settled |-> FALSE]
    /\ ses = [state |-> "none", taken |-> 0]
    /\ logs = NoLogs
    /\ fee = 0
    /\ pending = FALSE
    /\ lost = FALSE
    /\ spent = 0
    /\ breached = 0

AutoGroup == req.mode = "auto"
Realtime == req.format = "realtime"

(* info.AutoRoute.ReservedQuota, fixed when the route is built. *)
ReservedQuota == IF AutoGroup THEN req.reserve ELSE 0

Goto(p) == pc' = p

-----------------------------------------------------------------------------
(* Reserve, and choose an attempt *)

PreConsume ==
    /\ pc = "start"
    /\ IF req.reserve = 0
       THEN UNCHANGED <<info, ses>>
       ELSE /\ info' = [info EXCEPT !.billing = TRUE, !.finalPre = req.reserve]
            /\ ses' = [state |-> "open", taken |-> req.reserve]
    /\ Goto("attempt")
    /\ UNCHANGED <<req, retry, att, logs, fee, pending, lost, spent, breached>>

PreConsumeRefused ==
    /\ pc = "start"
    /\ req.reserve > 0
    /\ Goto("done")
    /\ UNCHANGED <<req, retry, att, info, ses, logs, fee, pending, lost, spent, breached>>

(* CurrentAutoEstimate: the frozen estimate of the group in use, which the
   reserve covers, or the quota the request reserved. *)
EstimateAllowed(n) ==
    /\ AutoGroup => n <= req.reserve
    /\ ~AutoGroup /\ req.reserve > 0 => n = req.reserve

(* The time of a first response (shown) outlives the attempt that had it; the
   counters of responses do not. *)
BeginAttempt(est, shown) ==
    /\ pc = "attempt"
    /\ EstimateAllowed(est)
    /\ shown => att.responded
    /\ att' = [FreshAttempt EXCEPT !.est = est, !.responded = shown]
    /\ Goto(IF Realtime THEN "stream" ELSE "handler")
    /\ UNCHANGED <<req, retry, info, ses, logs, fee, pending, lost, spent, breached>>

(* getChannel failed: Auto goes on to the next group, a fixed group gives up. *)
NoChannel ==
    /\ pc = "attempt"
    /\ att' = [FreshAttempt EXCEPT !.err = "plain", !.responded = att.responded,
                                   !.outcome = IF AutoGroup THEN "nonbillable" ELSE "unknown"]
    /\ IF AutoGroup /\ retry < MaxRetry
       THEN retry' = retry + 1 /\ Goto("attempt")
       ELSE retry' = retry /\ Goto("deferred")
    /\ UNCHANGED <<req, info, ses, logs, fee, pending, lost, spent, breached>>

(* The request body could not be read again. *)
NoBody ==
    /\ pc = "attempt"
    /\ att' = [FreshAttempt EXCEPT !.err = "plain"]
    /\ Goto("deferred")
    /\ UNCHANGED <<req, retry, info, ses, logs, fee, pending, lost, spent, breached>>

-----------------------------------------------------------------------------
(* The HTTP handlers *)

HandlerSucceeds(cost) ==
    /\ pc = "handler"
    /\ att' = [att EXCEPT !.dispatched = TRUE, !.responded = TRUE, !.cost = cost]
    /\ spent' = spent + 1
    /\ Goto("settle")
    /\ UNCHANGED <<req, retry, info, ses, logs, fee, pending, lost, breached>>

(* What an attempt that failed leaves in RelayInfo and in its error.  Usage in
   an answer or an error body (CaptureAttemptUsageQuota) is evidence of billing
   or proves that nothing was billed; without it an adaptor may have marked the
   attempt, or set the outcome of the error itself.  A violation is an answer of
   the upstream, and its error is never retryable (NormalizeViolationFeeError). *)
FailedAttempts ==
    {d \in [dispatched : BOOLEAN, marked : BOOLEAN, usage : BOOLEAN, known : BOOLEAN,
            actual : Quotas \cup {0}, responded : BOOLEAN, err : {"plain", "violation"},
            errOutcome : Outcomes, retryable : BOOLEAN] :
       /\ \/ d.usage /\ d.errOutcome = "billable"
          \/ ~d.usage /\ d.known /\ d.actual = 0 /\ d.errOutcome = "nonbillable"
          \/ ~d.usage /\ ~d.known /\ d.actual = 0
       /\ ~d.dispatched => ~d.marked /\ ~d.usage /\ ~d.known /\ ~d.responded
       /\ d.err = "violation" => ~d.retryable /\ d.dispatched}

Visible(d) == d.marked \/ d.usage \/ d.responded

HandlerFails ==
    /\ pc = "handler"
    /\ \E d \in FailedAttempts :
         /\ att' = [att EXCEPT !.dispatched = d.dispatched, !.marked = d.marked,
                               !.usage = d.usage, !.known = d.known, !.actual = d.actual,
                               !.responded = att.responded \/ d.responded, !.err = d.err,
                               !.errOutcome = d.errOutcome, !.retryable = d.retryable]
         /\ spent' = IF Visible(d) /\ d.err = "plain" THEN spent + 1 ELSE spent
         /\ breached' = IF Visible(d) /\ d.err = "violation" THEN breached + 1 ELSE breached
    /\ Goto("failed")
    /\ UNCHANGED <<req, retry, info, ses, logs, fee, pending, lost>>

-----------------------------------------------------------------------------
(* The realtime handler: usage raises the hold while the socket is open *)

(* PreWssConsumeQuota: the usage reported so far is worth used.  Reserve raises
   the hold, is refused, or fails with the raise still held ("unresolved"),
   after which it does nothing any more.  A request that reserved nothing opens
   its session here. *)
StreamUsage(q, res) ==
    LET used == att.actual + q
        raise == IF info.billing THEN used > info.finalPre ELSE used > 0 IN
    /\ pc = "stream"
    /\ att.uses < MaxUse
    /\ att' = [att EXCEPT !.dispatched = TRUE, !.known = TRUE, !.usage = TRUE,
                          !.actual = used, !.uses = att.uses + 1,
                          !.unres = att.unres \/ res = "unresolved",
                          !.err = IF res = "ok" THEN att.err ELSE "plain"]
    /\ spent' = IF att.usage THEN spent ELSE spent + 1
    /\ res = "unresolved" => info.billing
    /\ \/ /\ raise /\ ~att.unres /\ res # "refused"
          /\ info' = [info EXCEPT !.billing = TRUE, !.finalPre = used]
          /\ ses' = [state |-> "open", taken |-> used]
       \/ /\ IF raise \/ att.unres THEN res = "refused" ELSE res = "ok"
          /\ UNCHANGED <<info, ses>>
    /\ UNCHANGED <<pc, req, retry, logs, fee, pending, lost, breached>>

(* The socket closed (WssHelper).  A clean end is settled, a failed one only
   when usage is known: PostWssConsumeQuota charges cost. *)
StreamEnds(clean, cost) ==
    /\ pc = "stream"
    /\ IF clean THEN att.err = "none" ELSE att.known
    /\ att' = [att EXCEPT !.cost = cost, !.err = IF clean THEN "none" ELSE "plain"]
    /\ spent' = IF att.usage THEN spent ELSE spent + 1
    /\ Goto("settle")
    /\ UNCHANGED <<req, retry, info, ses, logs, fee, pending, lost, breached>>

(* The socket broke before any usage was reported: dispatched or not, answered
   or not, retryable or not.  A refused handshake carries the outcome that
   classifyWssHandshakeError reads from its answer, if there is one. *)
StreamFailsEarly(d) ==
    /\ pc = "stream"
    /\ ~att.known
    /\ d.responded => d.dispatched
    /\ d.dispatched => d.errOutcome = "unknown"
    /\ att' = [att EXCEPT !.err = "plain", !.errOutcome = d.errOutcome, !.dispatched = d.dispatched,
                          !.responded = att.responded \/ d.responded,
                          !.retryable = d.retryable]
    /\ spent' = IF d.responded THEN spent + 1 ELSE spent
    /\ Goto("failed")
    /\ UNCHANGED <<req, retry, info, ses, logs, fee, pending, lost, breached>>

-----------------------------------------------------------------------------
(* Settlement of a finished attempt: SettleBilling, SettleSuccessfulBilling *)

Results == {"ok", "partial", "failed"}

(* SettleBilling(a) with result res.  "partial" is a charge whose key leg
   failed.  Without a session the wallet is debited directly. *)
SettleBilling(a, res) ==
    \/ /\ info.billing \/ a # info.finalPre
       /\ res # "failed"
       /\ ses' = [state |-> IF info.billing THEN "settled" ELSE ses.state, taken |-> a]
       /\ info' = [info EXCEPT !.settled = TRUE]
    \/ /\ IF info.billing \/ a # info.finalPre THEN res = "failed" ELSE res = "ok"
       /\ UNCHANGED <<ses, info>>

(* The quota an uncommitted settlement reports: the reserve that stays held. *)
HeldReserve ==
    Max({ReservedQuota, info.finalPre, IF info.billing THEN ses.taken ELSE 0})

SettleSuccessfulBilling(res) ==
    /\ pc = "settle"
    /\ SettleBilling(att.cost, res)
    /\ att' = [att EXCEPT !.logQuota = IF res = "failed" THEN HeldReserve ELSE att.cost,
                          !.settleErr = (res # "ok")]
    /\ Goto("record")
    /\ UNCHANGED <<req, retry, logs, fee, pending, lost, spent, breached>>

(* RecordConsumeLog of the attempt's log: in LOG_DB, or queued in the outbox (which
   still reports an error), or lost when both databases fail. *)
Records(written) ==
    /\ pc = "record"
    /\ logs' = IF written = "lost" THEN logs ELSE [logs EXCEPT !.usage = att.logQuota]
    /\ lost' = (lost \/ written = "lost")
    /\ UNCHANGED <<req, retry, info, ses, fee, pending, spent, breached>>

(* The end of PostTextConsumeQuota, whose error the HTTP handlers ignore. *)
RecordTextLog(written) ==
    /\ ~Realtime
    /\ Records(written)
    /\ UNCHANGED att
    /\ Goto("done")

(* The end of PostWssConsumeQuota: WssHelper turns the errors of the settlement and
   of the log into the error of the attempt. *)
RecordRealtimeLog(written) ==
    /\ Realtime
    /\ Records(written)
    /\ \/ /\ att.err = "none" /\ ~att.settleErr /\ written = "direct"
          /\ att' = [att EXCEPT !.handled = TRUE]
          /\ Goto("done")
       \/ /\ att.err # "none" \/ att.settleErr \/ written # "direct"
          /\ att' = [att EXCEPT !.handled = TRUE, !.err = "plain",
                       !.errOutcome = IF att.err = "none" THEN "billable" ELSE att.errOutcome]
          /\ Goto("failed")

-----------------------------------------------------------------------------
(* The verdict on a failed attempt *)

(* Mutant of ClassifyAttempt: the error's own verdict is looked at first. *)
ClassifyByErrorFirst(a) ==
    IF a.errOutcome # "unknown" THEN a.errOutcome
    ELSE IF a.marked \/ a.usage \/ a.actual > 0 THEN "billable"
    ELSE IF ~a.responded /\ (a.known \/ ~a.dispatched) THEN "nonbillable"
    ELSE "ambiguous"

(* The first rule that applies decides. *)
ClassifyAttempt(a) ==
    IF a.marked \/ a.usage \/ a.actual > 0 THEN "billable"
    ELSE IF a.errOutcome \in {"billable", "ambiguous"} THEN a.errOutcome
    ELSE IF a.responded THEN "ambiguous"
    ELSE IF a.known THEN "nonbillable"
    ELSE IF a.errOutcome # "unknown" THEN a.errOutcome
    ELSE IF ~a.dispatched THEN "nonbillable"
    ELSE "ambiguous"

(* The outcome of the attempt: a violation is never billable. *)
Outcome(a) == IF a.err = "violation" THEN "nonbillable" ELSE ClassifyAttempt(a)

ShouldRetry(outcome) ==
    /\ outcome = "nonbillable"
    /\ retry < MaxRetry
    /\ att.retryable \/ (AutoGroup /\ att.dispatched)

(* Mutant of ShouldCharge: an uncertain attempt is charged as well. *)
ShouldChargeUncertain(outcome) == outcome \in {"billable", "ambiguous"} /\ ~att.handled

ShouldCharge(outcome) == outcome = "billable" /\ ~att.handled

(* Mutant of Decide: the next attempt is not counted. *)
DecideUncounted ==
    LET outcome == Outcome(att) IN
    /\ pc = "failed"
    /\ att' = [att EXCEPT !.outcome = outcome]
    /\ Goto(IF ShouldRetry(outcome) THEN "attempt" ELSE "deferred")
    /\ UNCHANGED <<req, retry, info, ses, logs, fee, pending, lost, spent, breached>>

(* The rest of the loop body: charge the failed attempt, try the next group or
   channel, or leave the loop.  Only Auto keeps the reserve when a handler
   settled on its own and its funding did not commit. *)
Decide ==
    LET outcome == Outcome(att) IN
    /\ pc = "failed"
    /\ att' = [att EXCEPT !.outcome = outcome]
    /\ \/ /\ ShouldCharge(outcome)
          /\ Goto(IF info.settled THEN "deferred" ELSE "stage")
          /\ UNCHANGED <<retry, info>>
       \/ /\ ~ShouldCharge(outcome) /\ ShouldRetry(outcome)
          /\ retry' = retry + 1
          /\ Goto("attempt")
          /\ UNCHANGED info
       \/ /\ ~ShouldCharge(outcome) /\ ~ShouldRetry(outcome)
          /\ Goto("deferred")
          /\ info' = IF AutoGroup /\ att.handled /\ ~info.settled
                     THEN [info EXCEPT !.billing = FALSE] ELSE info
          /\ UNCHANGED retry
    /\ UNCHANGED <<req, ses, logs, fee, pending, lost, spent, breached>>

-----------------------------------------------------------------------------
(* SettleChargedAttemptError *)

ChargedAttemptQuota ==
    IF att.marked
    THEN (IF att.actual > 0 THEN att.actual ELSE att.est)
    ELSE IF att.known \/ (att.actual > 0 /\ ~att.usage) THEN att.actual ELSE att.est

(* Mutant of PendingQuota: the intent covers the price only. *)
PendingQuotaOfCost == ChargedAttemptQuota

PendingQuota == Max({ChargedAttemptQuota, ReservedQuota, info.finalPre})

(* The intent is made durable before the money moves. *)
StageIntent ==
    /\ pc = "stage"
    /\ logs' = [logs EXCEPT !.charged = PendingQuota]
    /\ pending' = TRUE
    /\ Goto("settleCharged")
    /\ UNCHANGED <<req, retry, att, info, ses, fee, lost, spent, breached>>

(* Nothing is charged, and the caller keeps the reserve. *)
StageIntentFails ==
    /\ pc = "stage"
    /\ lost' = TRUE
    /\ info' = [info EXCEPT !.billing = FALSE]
    /\ Goto("deferred")
    /\ UNCHANGED <<req, retry, att, ses, logs, fee, pending, spent, breached>>

(* Mutant of SettleChargedAttempt: Billing stays set when funding failed. *)
SettleChargedKeepsBilling(res) ==
    /\ pc = "settleCharged"
    /\ res = "failed"
    /\ UNCHANGED <<ses, info>>
    /\ att' = [att EXCEPT !.logQuota = info.finalPre]
    /\ Goto("final")
    /\ UNCHANGED <<req, retry, logs, fee, pending, lost, spent, breached>>

(* The quota of the final log is the charge, or the reserve that stays held. *)
SettleChargedAttempt(res) ==
    LET quota == ChargedAttemptQuota IN
    /\ pc = "settleCharged"
    /\ \/ /\ res # "failed"
          /\ SettleBilling(quota, res)
          /\ att' = [att EXCEPT !.logQuota = quota]
       \/ /\ res = "failed"
          /\ info.billing \/ quota # info.finalPre
          /\ ses' = ses
          /\ info' = [info EXCEPT !.billing = FALSE]
          /\ att' = [att EXCEPT !.logQuota =
                       IF ReservedQuota = 0 THEN info.finalPre ELSE ReservedQuota]
    /\ Goto("final")
    /\ UNCHANGED <<req, retry, logs, fee, pending, lost, spent, breached>>

(* UpsertConsumeLogOutboxIntent.  If it fails, the staged intent remains and is
   delivered as it is, marked settlement_pending. *)
FinalizeIntent ==
    /\ pc = "final"
    /\ logs' = [logs EXCEPT !.charged = att.logQuota]
    /\ pending' = FALSE
    /\ Goto("deferred")
    /\ UNCHANGED <<req, retry, att, info, ses, fee, lost, spent, breached>>

FinalizeIntentFails ==
    /\ pc = "final"
    /\ Goto("deferred")
    /\ UNCHANGED <<req, retry, att, info, ses, logs, fee, pending, lost, spent, breached>>

-----------------------------------------------------------------------------
(* The deferred function: refund, or refund and charge the violation fee *)

Violation == att.err = "violation"

(* Refund gives everything back, or there is nothing to give back. *)
DeferredRefund ==
    /\ pc = "deferred"
    /\ ses' = IF info.billing /\ ses.state = "open"
              THEN [state |-> "refunded", taken |-> 0] ELSE ses
    /\ Goto(IF Violation /\ FeeQuota > 0 THEN "feeStage" ELSE "done")
    /\ UNCHANGED <<req, retry, att, info, logs, fee, pending, lost, spent, breached>>

(* Mutant of DeferredRefundFails: the fee is charged although the base request
   is still held. *)
DeferredRefundFailsFee(left) ==
    /\ pc = "deferred"
    /\ info.billing /\ ses.state = "open"
    /\ left \in 0..ses.taken
    /\ ses' = [ses EXCEPT !.taken = left]
    /\ Goto(IF Violation /\ FeeQuota > 0 THEN "feeStage" ELSE "refundLog")
    /\ UNCHANGED <<req, retry, att, info, logs, fee, pending, lost, spent, breached>>

(* Refund failed after it gave back all but left. *)
DeferredRefundFails(left) ==
    /\ pc = "deferred"
    /\ info.billing /\ ses.state = "open"
    /\ left \in 0..ses.taken
    /\ ses' = [ses EXCEPT !.taken = left]
    /\ Goto("refundLog")
    /\ UNCHANGED <<req, retry, att, info, logs, fee, pending, lost, spent, breached>>

(* The log of the holds that remain (RemainingHolds). *)
RecordHeldReserve(written) ==
    /\ pc = "refundLog"
    /\ logs' = IF written = "lost" THEN logs ELSE [logs EXCEPT !.refund = ses.taken]
    /\ lost' = (lost \/ written = "lost")
    /\ Goto("done")
    /\ UNCHANGED <<req, retry, att, info, ses, fee, pending, spent, breached>>

(* ChargeViolationFeeIfNeeded: a durable intent of quota zero, one transaction
   that debits the fee and rewrites the intent, or a failure log. *)
StageFee(ok) ==
    /\ pc = "feeStage"
    /\ logs' = IF ok THEN [logs EXCEPT !.fee = 0] ELSE logs
    /\ Goto(IF ok THEN "feeCommit" ELSE "done")
    /\ UNCHANGED <<req, retry, att, info, ses, fee, pending, lost, spent, breached>>

CommitViolationFee ==
    /\ pc = "feeCommit"
    /\ fee' = FeeQuota
    /\ logs' = [logs EXCEPT !.fee = FeeQuota]
    /\ Goto("done")
    /\ UNCHANGED <<req, retry, att, info, ses, pending, lost, spent, breached>>

CommitViolationFeeFails ==
    /\ pc = "feeCommit"
    /\ logs' = [logs EXCEPT !.fee = 0]
    /\ Goto("done")
    /\ UNCHANGED <<req, retry, att, info, ses, fee, pending, lost, spent, breached>>

(* The process dies; the session is gone, ledgers and durable logs stay. *)
Crash ==
    /\ pc \notin {"done", "crashed"}
    /\ Goto("crashed")
    /\ UNCHANGED <<req, retry, att, info, ses, logs, fee, pending, lost, spent, breached>>

-----------------------------------------------------------------------------

Breaks == [dispatched : BOOLEAN, responded : BOOLEAN, retryable : BOOLEAN,
           errOutcome : {"unknown", "billable", "nonbillable"}]

Written == {"direct", "queued", "lost"}

Step ==
    \/ PreConsume \/ PreConsumeRefused
    \/ \E n \in Quotas, shown \in BOOLEAN : BeginAttempt(n, shown)
    \/ NoChannel \/ NoBody
    \/ \E n \in Quotas : HandlerSucceeds(n)
    \/ HandlerFails
    \/ \E q \in Quotas, res \in {"ok", "refused", "unresolved"} : StreamUsage(q, res)
    \/ \E clean \in BOOLEAN, n \in Quotas : StreamEnds(clean, n)
    \/ \E d \in Breaks : StreamFailsEarly(d)
    \/ \E res \in Results : SettleSuccessfulBilling(res)
    \/ \E w \in Written : RecordTextLog(w) \/ RecordRealtimeLog(w)
    \/ Decide
    \/ StageIntent \/ StageIntentFails
    \/ \E res \in Results : SettleChargedAttempt(res)
    \/ FinalizeIntent \/ FinalizeIntentFails
    \/ DeferredRefund
    \/ \E left \in 0..ses.taken : DeferredRefundFails(left)
    \/ \E w \in Written : RecordHeldReserve(w)
    \/ \E ok \in BOOLEAN : StageFee(ok)
    \/ CommitViolationFee \/ CommitViolationFeeFails

Done == pc \in {"done", "crashed"} /\ UNCHANGED vars

Next == Step \/ Crash \/ Done

(* The goroutine of a request keeps running: WF on its own steps. *)
Spec == Init /\ [][Next]_vars /\ WF_vars(Step)

-----------------------------------------------------------------------------
(* Properties *)

AttemptType ==
    [dispatched : BOOLEAN, marked : BOOLEAN, usage : BOOLEAN, known : BOOLEAN,
     actual : Nat, responded : BOOLEAN, handled : BOOLEAN, uses : 0..MaxUse,
     unres : BOOLEAN, est : Nat, err : {"none", "plain", "violation"},
     errOutcome : Outcomes, retryable : BOOLEAN, outcome : Outcomes,
     cost : Nat, logQuota : Nat, settleErr : BOOLEAN]

LogQuota == Nat \cup {-1}

(* Types: in particular the loop never runs past its last attempt, and no log
   ever reports a negative quota. *)
TypeOK ==
    /\ pc \in Places
    /\ req \in [mode : {"auto", "fixed"}, format : {"http", "realtime"}, reserve : Nat]
    /\ retry \in 0..MaxRetry
    /\ att \in AttemptType
    /\ info \in [billing : BOOLEAN, finalPre : Nat, settled : BOOLEAN]
    /\ ses \in [state : {"none", "open", "settled", "refunded"}, taken : Nat]
    /\ logs \in [usage : LogQuota, charged : LogQuota, refund : LogQuota, fee : LogQuota]
    /\ fee \in Nat
    /\ pending \in BOOLEAN /\ lost \in BOOLEAN
    /\ spent \in 0..(MaxRetry + 1) /\ breached \in Nat

Reported(quota) == Max({quota, 0})
LogSum == Reported(logs.usage) + Reported(logs.charged) + Reported(logs.refund) + Reported(logs.fee)

(* The consume logs of a finished request never report more than was taken from
   the customer, except a log still marked settlement_pending: whoever reports a
   reserve as held must not let the deferred refund return it. *)
NeverOverReported == pc = "done" /\ ~pending => LogSum <= ses.taken + fee

(* What was taken for a finished request, charged or left held by a failed
   settlement or refund, is reported by its consume logs unless persisting a log
   or an intent itself failed. *)
NeverUnderReported == pc = "done" /\ ~lost => LogSum >= ses.taken + fee

(* Logs and money agree: nothing taken goes unreported, and nothing is reported
   that was not taken, except for the fixed-group realtime requests, whose branch
   of the loop lets the refund return a reserve that was reported as held
   (controller/relay.go:413). *)
ReportedWasTaken ==
    /\ NeverUnderReported
    /\ req.mode = "auto" \/ req.format = "http" => NeverOverReported

(* From the moment the intent of a charged attempt is staged until it is
   finalized, and for ever after a crash in between, it covers what is taken:
   the reserve before the settlement as well as the price after it. *)
IntentCoversTaken == pending => logs.charged >= ses.taken

(* A request that ends in an error costs nothing unless its last attempt was
   proven billable, its refund failed, or it was fined for a violation; uncertain
   attempts are always refunded. *)
UnbilledFailureIsFree ==
    pc = "done" /\ att.err # "none" /\ att.outcome # "billable" /\ logs.refund = -1 /\ ~lost
      => ses.taken = 0

(* Over all the attempts of a request, at most one was billed upstream or shown
   to the client: the loop never tries again after it.  An attempt that ended in
   a usage violation counts in a fixed group only, where its error is not
   retryable; Auto forces its outcome to nonbillable, whatever was billed or
   shown, and tries the next group (ShouldRetryAutoAttempt). *)
AtMostOneSpentAttempt ==
    /\ spent <= 1
    /\ req.mode = "fixed" => spent + breached <= 1

(* The violation fee replaces the price of the request: it is never taken while
   quota of the base request is held or charged. *)
FeeOnlyAfterBaseReturned == fee > 0 => ses.taken = 0

(* Every request ends, whichever of its calls fail. *)
Terminates == <>(pc \in {"done", "crashed"})
=============================================================================
