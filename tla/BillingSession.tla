--------------------------- MODULE BillingSession ---------------------------
(***************************************************************************)
(* The billing session of one gateway request (service/billing_session.go) *)
(* over the three quota ledgers it writes: the user's wallet, the limit of *)
(* the API key ("token") and the user's subscriptions.                     *)
(*                                                                         *)
(* The sessions of this module belong to one user and one API key, so they *)
(* share every ledger.  A session's mutex makes its own calls sequential;  *)
(* it does not cover the ledgers, so every database write (a "leg") is one *)
(* atomic step, and the legs of different sessions interleave.  Each leg   *)
(* may fail with a database error, which leaves its ledger as it was.      *)
(*                                                                         *)
(* A session is a record whose fields are those of the Go structs          *)
(* BillingSession, WalletFunding and SubscriptionFunding.  The Go booleans *)
(* fundingSettled, settled and refunded are values of the field pc.        *)
(***************************************************************************)
EXTENDS Integers, FiniteSets, Functions

CONSTANTS
    Sessions,         \* requests in flight, one billing session each
    NSubs,            \* number of subscriptions the user owns
    SubTotal,         \* SubTotal[k]: AmountTotal of subscription k, 0 = unlimited
    AllowOverflow,    \* allow_wallet_overflow of the user's subscriptions
    KeyUnlimited,     \* unlimited_quota of the API key
    InitWallet,       \* the user's quota when the model starts
    InitKey,          \* remain_quota of the API key when the model starts
    Amounts,          \* bound: quotas a request may ask, reserve or cost
    Prefs,            \* billing preferences the user may switch between
    PlaygroundModes,  \* values of IsPlayground that requests may have
    ForcePreConsume,  \* TRUE in every production caller: no trust bypass
    TrustQuota,       \* common.GetTrustQuota()
    MaxPeriods        \* bound: subscription reset periods that may end

Subs == 1..NSubs

ASSUME ConstantsAssumption ==
    /\ IsFiniteSet(Sessions)
    /\ NSubs \in Nat
    /\ SubTotal \in [Subs -> Nat]
    /\ AllowOverflow \in BOOLEAN
    /\ KeyUnlimited \in BOOLEAN
    /\ InitWallet \in Nat
    /\ InitKey \in Nat
    /\ Amounts \subseteq Nat
    /\ Prefs \subseteq {"subscription_only", "wallet_only", "wallet_first",
                        "subscription_first"}
    /\ PlaygroundModes \subseteq BOOLEAN
    /\ ForcePreConsume \in BOOLEAN
    /\ TrustQuota \in Int
    /\ MaxPeriods \in Nat

VARIABLES
    wallet,     \* users.quota of the user
    key,        \* tokens.remain_quota of the API key (used_quota mirrors it)
    subUsed,    \* user_subscriptions.amount_used
    subActive,  \* status = "active" and end_time in the future
    resetDue,   \* next_reset_time has passed and amount_used was not reset yet
    periods,    \* reset periods that ended so far
    record,     \* subscription_pre_consume_records.status of the request
    sess,       \* the BillingSession of each request
    posted      \* history: net quota the legs of a session took per ledger

ledgers == <<wallet, key, subUsed, subActive, resetDue, periods, record>>
subVars == <<subUsed, subActive, resetDue, periods, record>>
vars == <<wallet, key, subUsed, subActive, resetDue, periods, record, sess, posted>>

(* pc of a session: the leg it executes next, or the state it rests in. *)
Busy == {"checkWallet", "preToken", "preFunding", "preRollback",
         "rsvToken", "rsvRollback", "overage", "setToken", "refund"}
Rest == {"new", "open", "partRefund"}
Final == {"rejected", "keyHeld", "settled", "refunded"}
Places == Busy \cup Rest \cup Final

SessionType ==
    [pc : Places,
     src : {"none", "wallet", "sub"},   \* funding.Source()
     alt : {"none", "wallet", "sub"},   \* the source NewBillingSession falls back to
     play : BOOLEAN,                    \* relayInfo.IsPlayground
     q : Nat,                           \* preConsumedQuota argument
     arg : Nat,                         \* quota argument of the running call
     pre : Nat,                         \* preConsumedQuota
     tok : Nat,                         \* tokenConsumed
     extra : Nat,                       \* extraReserved
     unres : Nat,                       \* unresolvedFunding
     consumed : Nat,                    \* WalletFunding.consumed
     subPre : Nat,                      \* SubscriptionFunding.preConsumed
     sub : 0..NSubs,                    \* SubscriptionFunding.subscriptionId
     trusted : BOOLEAN,                 \* trust bypass (see NewBillingSession)
     fref : BOOLEAN,                    \* fundingRefunded
     eref : BOOLEAN,                    \* extraRefunded
     tref : BOOLEAN,                    \* tokenRefunded
     tries : 0..2,                      \* attempts refundWithRetry has used up
     over : Nat,                        \* BillingOverageQuota
     tokErr : BOOLEAN]                  \* Settle could not adjust the key

PostedType == [wallet : Int, sub : Int, key : Int]
RecordStatus == {"none", "consumed", "refunded"}

NewSession ==
    [pc |-> "new", src |-> "none", alt |-> "none", play |-> FALSE,
     q |-> 0, arg |-> 0, pre |-> 0, tok |-> 0, extra |-> 0,
     unres |-> 0, consumed |-> 0, subPre |-> 0, sub |-> 0, trusted |-> FALSE,
     fref |-> FALSE, eref |-> FALSE, tref |-> FALSE, tries |-> 0, over |-> 0,
     tokErr |-> FALSE]

Init ==
    /\ wallet = InitWallet
    /\ key = InitKey
    /\ subUsed = [k \in Subs |-> 0]
    /\ subActive = [k \in Subs |-> TRUE]
    /\ resetDue = [k \in Subs |-> FALSE]
    /\ periods = 0
    /\ record = [s \in Sessions |-> "none"]
    /\ sess = [s \in Sessions |-> NewSession]
    /\ posted = [s \in Sessions |-> [wallet |-> 0, sub |-> 0, key |-> 0]]

-----------------------------------------------------------------------------
(* The ledgers: model/billing_quota.go and model/subscription.go.  Every     *)
(* write is one SQL statement or one transaction.                            *)

NoWrite == UNCHANGED <<ledgers, posted>>

(* quota := quota - n, without a guard: a debit (n > 0) may make the wallet
   negative, a refund is a negative n. *)
AdjustUserQuota(s, n) ==
    /\ wallet' = wallet - n
    /\ posted' = [posted EXCEPT ![s].wallet = @ + n]
    /\ UNCHANGED <<key, subVars>>

(* Mutant of ReserveUserQuota: the UPDATE without its WHERE quota >= n. *)
ReserveUserQuotaUnchecked(s, n) == AdjustUserQuota(s, n)

(* The conditional UPDATE ... WHERE quota >= n. *)
ReserveUserQuota(s, n) ==
    /\ wallet >= n
    /\ AdjustUserQuota(s, n)

AdjustTokenQuota(s, n) ==
    /\ key' = key - n
    /\ posted' = [posted EXCEPT ![s].key = @ + n]
    /\ UNCHANGED <<wallet, subVars>>

TokenCovers(n) == KeyUnlimited \/ key >= n

ReserveTokenQuota(s, n) ==
    /\ TokenCovers(n)
    /\ AdjustTokenQuota(s, n)

(* newUsed of postConsumeUserSubscriptionDeltaTx: clamped at zero. *)
NewUsed(k, d) == IF subUsed[k] + d < 0 THEN 0 ELSE subUsed[k] + d

(* Mutant of SubscriptionCovers: the usage before the delta is compared. *)
SubscriptionCoversStale(k, d) == SubTotal[k] > 0 => subUsed[k] <= SubTotal[k]

SubscriptionCovers(k, d) == SubTotal[k] > 0 => NewUsed(k, d) <= SubTotal[k]

PostConsumeSubscription(s, k, d) ==
    /\ SubscriptionCovers(k, d)
    /\ subUsed' = [subUsed EXCEPT ![k] = NewUsed(k, d)]
    /\ posted' = [posted EXCEPT ![s].sub = @ + d]
    /\ UNCHANGED <<wallet, key, subActive, resetDue, periods>>

(* maybeResetUserSubscriptionWithPlanTx: the period's usage a pre-consume sees. *)
UsedAfterReset(k) == IF resetDue[k] THEN 0 ELSE subUsed[k]

HasRoom(k, n) ==
    /\ subActive[k]
    /\ SubTotal[k] > 0 => SubTotal[k] - UsedAfterReset(k) >= n

(* PreConsumeUserSubscription on subscription k, the first active one with room.
   The transaction also commits the resets of the subscriptions it looked at.
   Request ids are unique, so the branch for an existing record is not taken. *)
PreConsumeSubscription(s, k, n) ==
    /\ HasRoom(k, n)
    /\ \A j \in Subs : j < k => ~HasRoom(j, n)
    /\ record' = [record EXCEPT ![s] = "consumed"]
    /\ subUsed' = [j \in Subs |->
                    IF j = k THEN UsedAfterReset(k) + n
                    ELSE IF j < k /\ subActive[j] THEN UsedAfterReset(j)
                    ELSE subUsed[j]]
    /\ resetDue' = [j \in Subs |-> resetDue[j] /\ ~(j <= k /\ subActive[j])]
    /\ posted' = [posted EXCEPT ![s].sub = @ + n]
    /\ UNCHANGED <<wallet, key, subActive, periods>>

(* RefundSubscriptionPreConsume: idempotent by request id. *)
RefundSubscriptionPreConsume(s, k, n) ==
    \/ /\ record[s] = "refunded"
       /\ NoWrite
    \/ /\ record[s] = "consumed"
       /\ PostConsumeSubscription(s, k, 0 - n)
       /\ record' = [record EXCEPT ![s] = "refunded"]

-----------------------------------------------------------------------------
(* NewBillingSession and preConsume *)

Becomes(s, r) == sess' = [sess EXCEPT ![s] = r]

Larger(n, m) == IF n > m THEN n ELSE m

(* Start a session on source src (tryWallet, trySubscription). *)
Try(r, src, alt) ==
    IF src = "wallet"
    THEN [r EXCEPT !.pc = "checkWallet", !.src = "wallet", !.alt = alt, !.tok = 0]
    ELSE [r EXCEPT !.pc = "preToken", !.src = "sub", !.alt = alt, !.tok = 0,
                   !.arg = Larger(r.q, 1)]

(* An attempt on r.src ended in "insufficient": fall back or give up. *)
NextSource(r) ==
    IF r.alt = "none" THEN [r EXCEPT !.pc = "rejected"]
                      ELSE Try(r, r.alt, "none")

HasActiveUserSubscription == \E k \in Subs : subActive[k]

(* The preference switch of NewBillingSession. *)
FirstSource(pref) ==
    IF \/ pref = "subscription_only"
       \/ pref = "subscription_first" /\ HasActiveUserSubscription
    THEN "sub" ELSE "wallet"

Fallback(pref) ==
    IF pref = "wallet_first" THEN "sub"
    ELSE IF pref = "subscription_first" /\ HasActiveUserSubscription /\ AllowOverflow
    THEN "wallet" ELSE "none"

(* The key's part of the trust check uses the quota the key had when it was
   authenticated; until the funding source is settled, trusted holds its result. *)
NewBillingSession(s, pref, n, play) ==
    /\ sess[s].pc = "new"
    /\ Becomes(s, Try([sess[s] EXCEPT !.q = n, !.play = play,
                            !.trusted = KeyUnlimited \/ key > TrustQuota],
                      FirstSource(pref), Fallback(pref)))
    /\ NoWrite

(* shouldTrust for a wallet-funded session; subscriptions are never trusted. *)
ShouldTrust(r) ==
    /\ ~ForcePreConsume
    /\ TrustQuota > 0
    /\ r.trusted
    /\ wallet > TrustQuota

(* The balance check of tryWallet, and the trust decision of preConsume. *)
CheckWallet(s) ==
    LET r == sess[s]
        n == IF ShouldTrust(r) THEN 0 ELSE r.q IN
    /\ r.pc = "checkWallet"
    /\ Becomes(s, IF wallet <= 0 \/ wallet < r.q THEN NextSource(r)
                  ELSE [r EXCEPT !.trusted = ShouldTrust(r), !.arg = n,
                                 !.pc = IF n = 0 THEN "open" ELSE "preToken"])
    /\ NoWrite

(* A query of the factory failed: the request is refused with nothing held. *)
CheckFails(s) ==
    /\ \/ sess[s].pc = "checkWallet"
       \/ sess[s].pc = "new" /\ "subscription_first" \in Prefs
    /\ Becomes(s, [sess[s] EXCEPT !.pc = "rejected"])
    /\ NoWrite

(* Step 1 of preConsume.  A playground request has no key to charge, yet
   tokenConsumed is set all the same. *)
PreConsumeToken(s) ==
    LET r == sess[s] IN
    /\ r.pc = "preToken"
    /\ IF r.play THEN NoWrite ELSE ReserveTokenQuota(s, r.arg)
    /\ Becomes(s, [r EXCEPT !.pc = "preFunding", !.tok = r.arg])

PreConsumeTokenFails(s) ==
    /\ sess[s].pc = "preToken"
    /\ ~sess[s].play
    /\ Becomes(s, [sess[s] EXCEPT !.pc = "rejected"])
    /\ NoWrite

(* Step 2 of preConsume: funding.PreConsume. *)
PreConsumeFunding(s) ==
    LET r == sess[s] IN
    /\ r.pc = "preFunding"
    /\ \/ /\ r.src = "wallet"
          /\ ReserveUserQuota(s, r.arg)
          /\ Becomes(s, [r EXCEPT !.pc = "open", !.pre = r.arg,
                             !.consumed = r.arg])
       \/ /\ r.src = "sub"
          /\ \E k \in Subs :
               /\ PreConsumeSubscription(s, k, r.arg)
               /\ Becomes(s, [r EXCEPT !.pc = "open", !.pre = r.arg,
                             !.subPre = r.arg, !.sub = k,
                             !.trusted = FALSE])

(* funding.PreConsume failed.  Only an insufficient quota lets the factory try
   the other source; a failed subscription query is reported as "no active
   subscription", so a database error may read as insufficient there. *)
PreConsumeFundingFails(s, insufficient) ==
    LET r == sess[s]
        f == IF insufficient THEN r ELSE [r EXCEPT !.alt = "none"] IN
    /\ r.pc = "preFunding"
    /\ insufficient => (r.src = "sub" \/ wallet < r.arg)
    /\ Becomes(s, IF r.play THEN NextSource(f) ELSE [f EXCEPT !.pc = "preRollback"])
    /\ NoWrite

(* The key leg is undone, and the factory goes on. *)
PreConsumeRollback(s) ==
    LET r == sess[s] IN
    /\ r.pc = "preRollback"
    /\ AdjustTokenQuota(s, 0 - r.tok)
    /\ Becomes(s, NextSource([r EXCEPT !.tok = 0]))

(* recordPreConsumeTokenHold: the key stays debited, and a log says so. *)
PreConsumeRollbackFails(s) ==
    /\ sess[s].pc = "preRollback"
    /\ Becomes(s, [sess[s] EXCEPT !.pc = "keyHeld"])
    /\ NoWrite

-----------------------------------------------------------------------------
(* Reserve: raise the hold of an open session to target. *)

(* Mutant of ReserveFunding: the early return for a target below the hold is
   missing (its wallet branch is enough). *)
ReserveAnyTarget(s, target) ==
    LET r == sess[s]
        d == target - r.pre IN
    /\ r.pc = "open" /\ r.unres = 0 /\ ~r.trusted /\ r.src = "wallet"
    /\ AdjustUserQuota(s, d)
    /\ Becomes(s, [r EXCEPT !.pc = "rsvToken", !.arg = d, !.extra = r.extra + d,
                             !.consumed = r.consumed + d])

ReserveFunding(s, target) ==
    LET r == sess[s]
        d == target - r.pre IN
    /\ r.pc = "open"
    /\ r.unres = 0
    /\ ~r.trusted
    /\ d > 0
    /\ \/ /\ r.src = "wallet"
          /\ ReserveUserQuota(s, d)
          /\ Becomes(s, [r EXCEPT !.pc = "rsvToken", !.arg = d,
                             !.extra = r.extra + d,
                             !.consumed = r.consumed + d])
       \/ /\ r.src = "sub"
          /\ PostConsumeSubscription(s, r.sub, d)
          /\ UNCHANGED record
          /\ Becomes(s, [r EXCEPT !.pc = "rsvToken", !.arg = d,
                             !.extra = r.extra + d])

ReserveToken(s) ==
    LET r == sess[s] IN
    /\ r.pc = "rsvToken"
    /\ IF r.play THEN NoWrite ELSE ReserveTokenQuota(s, r.arg)
    /\ Becomes(s, [r EXCEPT !.pc = "open", !.pre = r.pre + r.arg,
                             !.tok = r.tok + r.arg])

ReserveTokenFails(s) ==
    /\ sess[s].pc = "rsvToken"
    /\ ~sess[s].play
    /\ Becomes(s, [sess[s] EXCEPT !.pc = "rsvRollback"])
    /\ NoWrite

ReserveRollback(s) ==
    LET r == sess[s] IN
    /\ r.pc = "rsvRollback"
    /\ \/ /\ r.src = "wallet"
          /\ AdjustUserQuota(s, 0 - r.arg)
          /\ Becomes(s, [r EXCEPT !.pc = "open", !.extra = r.extra - r.arg,
                             !.consumed = r.consumed - r.arg])
       \/ /\ r.src = "sub"
          /\ PostConsumeSubscription(s, r.sub, 0 - r.arg)
          /\ UNCHANGED record
          /\ Becomes(s, [r EXCEPT !.pc = "open", !.extra = r.extra - r.arg])

(* Mutant of ReserveRollbackFails: the hold that could not be returned is
   forgotten. *)
ReserveRollbackFailsForgets(s) ==
    /\ sess[s].pc = "rsvRollback"
    /\ Becomes(s, [sess[s] EXCEPT !.pc = "open"])
    /\ NoWrite

ReserveRollbackFails(s) ==
    LET r == sess[s] IN
    /\ r.pc = "rsvRollback"
    /\ Becomes(s, [r EXCEPT !.pc = "open", !.unres = r.unres + r.arg])
    /\ NoWrite

-----------------------------------------------------------------------------
(* Settle: charge the actual cost a.  A Settle whose funding leg fails with a
   database error changes nothing and may be called again.  Settle and Reserve
   do not look at a partial refund: that they are not called after Refund is
   the callers' doing: the deferred RefundBilling is the last thing a request
   does (controller/relay.go, module RelayBilling). *)

(* Mutant of FundingDelta: the hold a failed rollback left is overlooked. *)
FundingDeltaOfPreConsumed(r, a) == a - r.pre

FundingDelta(r, a) == a - (r.pre + r.unres)

SettleFunding(s, a) ==
    LET r == sess[s]
        d == FundingDelta(r, a) IN
    /\ r.pc = "open"
    /\ \/ /\ d = 0
          /\ NoWrite
          /\ Becomes(s, [r EXCEPT !.pc = "setToken", !.arg = a])
       \/ /\ d # 0
          /\ r.src = "wallet"
          /\ AdjustUserQuota(s, d)
          /\ Becomes(s, [r EXCEPT !.pc = "setToken", !.arg = a])
       \/ /\ d # 0
          /\ r.src = "sub"
          /\ PostConsumeSubscription(s, r.sub, d)
          /\ UNCHANGED record
          /\ Becomes(s, [r EXCEPT !.pc = "setToken", !.arg = a])

(* ErrSubscriptionQuotaExceeded: the whole positive delta moves to the wallet. *)
SettleExceeds(s, a) ==
    LET r == sess[s]
        d == FundingDelta(r, a) IN
    /\ r.pc = "open"
    /\ r.src = "sub"
    /\ d > 0
    /\ ~SubscriptionCovers(r.sub, d)
    /\ Becomes(s, [r EXCEPT !.pc = "overage", !.arg = a])
    /\ NoWrite

SettleOverage(s) ==
    LET r == sess[s]
        d == FundingDelta(r, r.arg) IN
    /\ r.pc = "overage"
    /\ AdjustUserQuota(s, d)
    /\ Becomes(s, [r EXCEPT !.pc = "setToken", !.over = d])

SettleOverageFails(s) ==
    /\ sess[s].pc = "overage"
    /\ Becomes(s, [sess[s] EXCEPT !.pc = "open"])
    /\ NoWrite

(* The key leg of Settle: its failure is logged and never undoes the charge. *)
SettleToken(s) ==
    LET r == sess[s] IN
    /\ r.pc = "setToken"
    /\ IF r.play \/ r.arg = r.tok
       THEN NoWrite ELSE AdjustTokenQuota(s, r.arg - r.tok)
    /\ Becomes(s, [r EXCEPT !.pc = "settled", !.unres = 0])

SettleTokenFails(s) ==
    LET r == sess[s] IN
    /\ r.pc = "setToken"
    /\ ~r.play /\ r.arg # r.tok
    /\ Becomes(s, [r EXCEPT !.pc = "settled", !.unres = 0, !.tokErr = TRUE])
    /\ NoWrite

(* SettleBilling without a session (a request whose estimate is zero reserves
   nothing): PostConsumeQuotaWithResult debits the wallet, then the key. *)
SettleWithoutSession(s, a, play) ==
    /\ sess[s].pc = "new"
    /\ a > 0
    /\ AdjustUserQuota(s, a)
    /\ Becomes(s, [sess[s] EXCEPT !.pc = "setToken", !.src = "wallet",
                             !.arg = a, !.play = play])

-----------------------------------------------------------------------------
(* Refund: give every hold back, leg by leg.  The flags remember the legs that
   are done, so a call after a failure resumes where the last one stopped. *)

NeedsRefund(r) == r.tok > 0 \/ r.extra > 0 \/ r.subPre > 0

(* Mutant of Refund: the check of the settled flag is missing. *)
RefundAfterSettle(s) ==
    /\ sess[s].pc \in {"open", "partRefund", "settled"}
    /\ NeedsRefund(sess[s])
    /\ Becomes(s, [sess[s] EXCEPT !.pc = "refund"])
    /\ NoWrite

Refund(s) ==
    /\ sess[s].pc \in {"open", "partRefund"}
    /\ NeedsRefund(sess[s])
    /\ Becomes(s, [sess[s] EXCEPT !.pc = "refund"])
    /\ NoWrite

RefundWalletLeg(s) ==
    LET r == sess[s] IN
    /\ r.pc = "refund" /\ ~r.fref /\ r.src = "wallet"
    /\ AdjustUserQuota(s, 0 - r.consumed)
    /\ Becomes(s, [r EXCEPT !.fref = TRUE])

(* One attempt of refundWithRetry that is acknowledged. *)
RefundSubscriptionLeg(s) ==
    LET r == sess[s] IN
    /\ r.pc = "refund" /\ ~r.fref /\ r.src = "sub"
    /\ RefundSubscriptionPreConsume(s, r.sub, r.subPre)
    /\ Becomes(s, [r EXCEPT !.fref = TRUE, !.tries = 0])

(* One attempt that reports an error, after the third the call gives up.  The
   transaction may have committed although its acknowledgement was lost. *)
RefundSubscriptionRetry(s) ==
    LET r == sess[s] IN
    /\ r.pc = "refund" /\ ~r.fref /\ r.src = "sub"
    /\ NoWrite \/ RefundSubscriptionPreConsume(s, r.sub, r.subPre)
    /\ Becomes(s, IF r.tries = 2 THEN [r EXCEPT !.tries = 0, !.pc = "partRefund"]
                  ELSE [r EXCEPT !.tries = r.tries + 1])

ExtraPending(r) == r.src = "sub" /\ r.extra > 0 /\ ~r.eref

RefundExtraLeg(s) ==
    LET r == sess[s] IN
    /\ r.pc = "refund" /\ r.fref /\ ExtraPending(r)
    /\ PostConsumeSubscription(s, r.sub, 0 - r.extra)
    /\ UNCHANGED record
    /\ Becomes(s, [r EXCEPT !.eref = TRUE])

TokenPending(r) == ~r.play /\ r.tok > 0 /\ ~r.tref

RefundTokenLeg(s) ==
    LET r == sess[s] IN
    /\ r.pc = "refund" /\ r.fref /\ ~ExtraPending(r) /\ TokenPending(r)
    /\ AdjustTokenQuota(s, 0 - r.tok)
    /\ Becomes(s, [r EXCEPT !.tref = TRUE])

(* Mutant of RefundLegFails: the legs that are done are not remembered. *)
RefundLegFailsForgets(s) ==
    LET r == sess[s] IN
    /\ r.pc = "refund"
    /\ ~r.fref => r.src = "wallet"
    /\ ~r.fref \/ ExtraPending(r) \/ TokenPending(r)
    /\ Becomes(s, [r EXCEPT !.pc = "partRefund", !.fref = FALSE])
    /\ NoWrite

(* A wallet, extra or key leg failed: Refund returns its error. *)
RefundLegFails(s) ==
    LET r == sess[s] IN
    /\ r.pc = "refund"
    /\ ~r.fref => r.src = "wallet"
    /\ ~r.fref \/ ExtraPending(r) \/ TokenPending(r)
    /\ Becomes(s, [r EXCEPT !.pc = "partRefund"])
    /\ NoWrite

(* Mutant of RefundDone: the extra hold is not waited for. *)
RefundDoneEarly(s) ==
    LET r == sess[s] IN
    /\ r.pc = "refund" /\ r.fref
    /\ Becomes(s, [r EXCEPT !.pc = "refunded", !.unres = 0])
    /\ NoWrite

RefundDone(s) ==
    LET r == sess[s] IN
    /\ r.pc = "refund" /\ r.fref /\ ~ExtraPending(r) /\ ~TokenPending(r)
    /\ Becomes(s, [r EXCEPT !.pc = "refunded", !.unres = 0])
    /\ NoWrite

(* RemainingHolds: what an unfinished session reports as still held. *)
FinancialHold(r) ==
    IF r.pc \in {"settled", "refunded"} THEN 0
    ELSE IF r.src = "wallet" THEN (IF r.fref THEN 0 ELSE r.consumed)
    ELSE (IF r.fref THEN 0 ELSE r.subPre)
         + (IF r.extra > 0 /\ ~r.eref THEN r.extra ELSE 0)

TokenHold(r) ==
    IF r.pc \notin {"settled", "refunded"} /\ TokenPending(r) THEN r.tok ELSE 0

-----------------------------------------------------------------------------
(* The subscription's own life: a period ends, the maintenance task resets the
   usage (ResetDueSubscriptions), a subscription ends. *)

PeriodEnds(k) ==
    /\ periods < MaxPeriods
    /\ subActive[k]
    /\ periods' = periods + 1
    /\ resetDue' = [resetDue EXCEPT ![k] = TRUE]
    /\ UNCHANGED <<wallet, key, subUsed, subActive, record, sess, posted>>

ResetDueSubscription(k) ==
    /\ resetDue[k] /\ subActive[k]
    /\ subUsed' = [subUsed EXCEPT ![k] = 0]
    /\ resetDue' = [resetDue EXCEPT ![k] = FALSE]
    /\ UNCHANGED <<wallet, key, subActive, periods, record, sess, posted>>

SubscriptionEnds(k) ==
    /\ subActive[k]
    /\ subActive' = [subActive EXCEPT ![k] = FALSE]
    /\ UNCHANGED <<wallet, key, subUsed, resetDue, periods, record, sess, posted>>

-----------------------------------------------------------------------------

Begin(s) ==
    \/ \E pref \in Prefs, n \in Amounts, play \in PlaygroundModes :
         NewBillingSession(s, pref, n, play)
    \/ \E a \in Amounts, play \in PlaygroundModes : SettleWithoutSession(s, a, play)

PreConsume(s) ==
    \/ CheckWallet(s) \/ CheckFails(s)
    \/ PreConsumeToken(s) \/ PreConsumeTokenFails(s)
    \/ PreConsumeFunding(s)
    \/ \E insufficient \in BOOLEAN : PreConsumeFundingFails(s, insufficient)
    \/ PreConsumeRollback(s) \/ PreConsumeRollbackFails(s)

Reserve(s) ==
    \/ \E target \in Amounts : ReserveFunding(s, target)
    \/ ReserveToken(s) \/ ReserveTokenFails(s)
    \/ ReserveRollback(s) \/ ReserveRollbackFails(s)

Settle(s) ==
    \/ \E a \in Amounts : SettleFunding(s, a) \/ SettleExceeds(s, a)
    \/ SettleOverage(s) \/ SettleOverageFails(s)
    \/ SettleToken(s) \/ SettleTokenFails(s)

RefundStep(s) ==
    \/ Refund(s)
    \/ RefundWalletLeg(s) \/ RefundSubscriptionLeg(s) \/ RefundSubscriptionRetry(s)
    \/ RefundExtraLeg(s) \/ RefundTokenLeg(s) \/ RefundLegFails(s) \/ RefundDone(s)

Next ==
    \/ \E s \in Sessions :
         Begin(s) \/ PreConsume(s) \/ Reserve(s) \/ Settle(s) \/ RefundStep(s)
    \/ \E k \in Subs : PeriodEnds(k) \/ ResetDueSubscription(k) \/ SubscriptionEnds(k)

Spec == Init /\ [][Next]_vars

-----------------------------------------------------------------------------
(* Properties *)

(* Types.  The holds of a session are natural numbers and its usage of a
   subscription is never negative, although rollbacks and refunds subtract;
   the wallet and the key may go below zero. *)
TypeOK ==
    /\ wallet \in Int
    /\ key \in Int
    /\ subUsed \in [Subs -> Nat]
    /\ subActive \in [Subs -> BOOLEAN]
    /\ resetDue \in [Subs -> BOOLEAN]
    /\ periods \in 0..MaxPeriods
    /\ record \in [Sessions -> RecordStatus]
    /\ sess \in [Sessions -> SessionType]
    /\ posted \in [Sessions -> PostedType]

(* The funding leg of Settle has committed (fundingSettled). *)
Charged(r) == r.pc \in {"setToken", "settled"}

(* What a session's own fields say it has taken from each ledger: the settled
   cost once it is charged, the holds that RemainingHolds reports before. *)
WalletBook(r) ==
    IF Charged(r) THEN (IF r.src = "wallet" THEN r.arg ELSE r.over)
    ELSE IF r.src = "wallet" THEN FinancialHold(r) ELSE 0

SubBook(r) ==
    IF Charged(r) THEN (IF r.src = "sub" THEN r.arg - r.over ELSE 0)
    ELSE IF r.src = "sub" THEN FinancialHold(r) ELSE 0

KeyBook(r) ==
    IF r.pc = "settled"
    THEN (IF r.play THEN 0 ELSE IF r.tokErr THEN r.tok ELSE r.arg)
    ELSE TokenHold(r)

(* A subscription refund that committed while its acknowledgement was lost:
   c is the status of the request's pre-consume record. *)
Unacknowledged(r, c) == IF c = "refunded" /\ ~r.fref THEN r.subPre ELSE 0

(* Every session's bookkeeping agrees, between any two legs and after any mix
   of failures, rollbacks and partial refunds, with the net quota its database
   legs really took: the settled cost and nothing else after Settle, nothing
   after Refund or a refused preConsume, and exactly what RemainingHolds (or
   the held-key log of preConsume) reports otherwise. *)
BooksMatchLedger ==
    \A s \in Sessions :
        posted[s] = [wallet |-> WalletBook(sess[s]),
                     sub |-> SubBook(sess[s]) - Unacknowledged(sess[s], record[s]),
                     key |-> KeyBook(sess[s])]

(* The subscription usage all requests account for. *)
SubUsageBooked ==
    SumFunction([s \in Sessions |->
                   SubBook(sess[s]) - Unacknowledged(sess[s], record[s])])

(* No quota is created or lost over all concurrent sessions: the wallet and
   the key are what they started with minus what the sessions account for, and
   as long as no period ends the usage of the subscriptions is what they account
   for: the clamp at zero in postConsume never loses or invents usage. *)
QuotaConserved ==
    /\ wallet + SumFunction([s \in Sessions |-> WalletBook(sess[s])]) = InitWallet
    /\ key + SumFunction([s \in Sessions |-> KeyBook(sess[s])]) = InitKey
    /\ periods = 0 => SumFunction(subUsed) = SubUsageBooked

(* Across resets too, the plan never counts usage that no request accounts for:
   a refund of a hold taken in the last period, or the clamp, may only lower
   the usage of the new period. *)
NoPhantomUsage ==
    SumFunction(subUsed) <= SubUsageBooked

(* How far a charged session went beyond what it had reserved in the wallet. *)
Overrun(r) ==
    IF ~Charged(r) THEN 0
    ELSE IF r.src = "sub" THEN r.over
    ELSE Larger(r.arg - r.consumed, 0)

(* Reservations alone never overdraw the wallet, however they interleave: the
   balance is negative by no more than what post-dispatch settlements cost
   above their reserve. *)
WalletOverdraftBounded ==
    wallet + SumFunction([s \in Sessions |-> Overrun(sess[s])]) >= 0

(* The usage of subscription k that requests account for. *)
BookedOn(k) ==
    SumFunction([s \in Sessions |->
                   IF sess[s].sub = k
                   THEN SubBook(sess[s]) - Unacknowledged(sess[s], record[s]) ELSE 0])

(* A plan is not sold twice: within a period, what concurrent requests hold of a
   limited subscription and what was charged to it never adds up to more than
   its total, however their pre-consumes, raises, settlements and refunds
   compete for the last units.  It is the requests that are added up, not the
   counter of the row, which no lost update would show above the total.  Every
   transaction on the row is one step here; that needs the row lock which
   subscription.go:1765 and 1960 ask for and gorm v1.25 does not take. *)
PlanNotOversold ==
    periods = 0 =>
        \A k \in Subs : SubTotal[k] > 0 => BookedOn(k) <= SubTotal[k]

(* Once a request is settled, refunded or refused, no later step of anybody
   takes or returns quota on its behalf: no double charge, no double refund. *)
FinishedIsFinal ==
    [][\A s \in Sessions :
         sess[s].pc \in Final => posted'[s] = posted[s] /\ sess'[s] = sess[s]]_vars
=============================================================================
