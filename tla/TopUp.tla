------------------------------- MODULE TopUp --------------------------------
(***************************************************************************)
(* A top-up order and a redemption code while transactions of several      *)
(* nodes reach them: repeated and late callbacks of the payment provider,  *)
(* manual completion, reconciliation, closing callbacks, the expiry sweep  *)
(* (model/topup.go) and redemptions (model/redemption.go).                 *)
(*                                                                         *)
(* A transaction is a read and a commit.  Where the code asks for the row  *)
(* with clause.Locking the read holds the row; the query option            *)
(* "FOR UPDATE" of the older functions locks nothing in gorm v1.25, so     *)
(* those hold it only while they write.                                    *)
(***************************************************************************)
EXTENDS Naturals, FiniteSets

CONSTANT
    Txns            \* transactions that may be open at the same time

ASSUME TxnsAssumption == IsFiniteSet(Txns) /\ Txns # {}

VARIABLES
    serialised, \* the database runs transactions one after the other (SQLite)
    provider,   \* "yookassa", the one that can be reconciled after expiry, or "other"
    order,      \* status of the order
    late,       \* its time to live is over
    user,       \* the user's row exists
    code,       \* status of the redemption code
    tx,         \* per transaction: its kind, and the status it read
    credited,   \* history: times the order was credited
    redeemed    \* history: times the code was credited

vars == <<serialised, provider, order, late, user, code, tx, credited, redeemed>>

Statuses == {"pending", "success", "failed", "expired"}
Locking == {"settle", "reconcile", "sweep"}
Kinds == Locking \cup {"close", "fail", "redeem"}
NoTx == [kind |-> "none", seen |-> "none"]

TypeOK ==
    /\ provider \in {"yookassa", "other"}
    /\ order \in Statuses /\ code \in {"enabled", "used"}
    /\ serialised \in BOOLEAN /\ late \in BOOLEAN /\ user \in BOOLEAN
    /\ tx \in [Txns -> [kind : Kinds \cup {"none", "failNext"},
                        seen : Statuses \cup {"enabled", "used", "none"}]]
    /\ credited \in Nat /\ redeemed \in Nat

Init ==
    /\ serialised \in BOOLEAN
    /\ provider \in {"yookassa", "other"}
    /\ order = "pending" /\ late = FALSE /\ user = TRUE /\ code = "enabled"
    /\ tx = [x \in Txns |-> NoTx]
    /\ credited = 0 /\ redeemed = 0

Locked(x) == \E y \in Txns \ {x} : tx[y].kind \in Locking
MayBegin(x, k) ==
    /\ serialised => \A y \in Txns \ {x} : tx[y].kind \in {"none", "failNext"}
    /\ k \in Locking => ~Locked(x)

Open(x, k) == tx' = [tx EXCEPT ![x] = [kind |-> k, seen |-> IF k = "redeem" THEN code ELSE order]]
Close(x) == tx' = [tx EXCEPT ![x] = NoTx]

(***************************************************************************)
(* The reads.                                                              *)
(***************************************************************************)
\* Only YooKassa orders are reconciled, and only the others have a callback that
\* closes an order.
Called(k) ==
    /\ k = "reconcile" => provider = "yookassa"
    /\ k = "close" => provider = "other"

Begin(x, k) ==
    /\ tx[x] = NoTx /\ Called(k) /\ MayBegin(x, k)
    /\ Open(x, k)
    /\ UNCHANGED <<serialised, provider, order, late, user, code, credited, redeemed>>

\* The second transaction of a settlement whose user is gone: FailTopUpOrder.
BeginFail(x) ==
    /\ tx[x].kind = "failNext" /\ MayBegin(x, "fail")
    /\ Open(x, "fail")
    /\ UNCHANGED <<serialised, provider, order, late, user, code, credited, redeemed>>

\* A statement fails, the node dies, or the read was enough.
Rollback(x) ==
    /\ tx[x] # NoTx
    /\ Close(x)
    /\ UNCHANGED <<serialised, provider, order, late, user, code, credited, redeemed>>

(***************************************************************************)
(* completeTopUpCASWithOptions: Recharge*, ManualCompleteTopUp and         *)
(* ReconcileYooKassaTopUp.                                                 *)
(***************************************************************************)
\* The statuses a settlement may start from, in its check and in its update.
SettleableAgain(x) ==
    IF tx[x].kind = "reconcile" THEN {"pending", "expired", "success"} ELSE {"pending", "success"}

SettleableExpired(x) == {"pending", "expired"}

Settleable(x) == IF tx[x].kind = "reconcile" THEN {"pending", "expired"} ELSE {"pending"}

\* Without the option for expired orders, an order that is late expires.
Expires(x) == tx[x].kind = "settle" /\ late

Settling(x) == tx[x].kind \in {"settle", "reconcile"} /\ tx[x].seen \in Settleable(x)

SettleExpires(x) ==
    /\ Settling(x) /\ Expires(x)
    /\ order' = "expired"
    /\ Close(x)
    /\ UNCHANGED <<serialised, provider, late, user, code, credited, redeemed>>

\* The status is compared once more by the update; the credit, the inviter's
\* reward and the status commit together.
Settle(x) ==
    /\ Settling(x) /\ ~Expires(x) /\ order \in Settleable(x) /\ user
    /\ order' = "success" /\ credited' = credited + 1
    /\ Close(x)
    /\ UNCHANGED <<serialised, provider, late, user, code, redeemed>>

SettleFails(x) ==
    /\ Settling(x) /\ ~Expires(x) /\ ~user
    /\ tx' = [tx EXCEPT ![x] = [kind |-> "failNext", seen |-> "none"]]
    /\ UNCHANGED <<serialised, provider, order, late, user, code, credited, redeemed>>

(***************************************************************************)
(* Closing an order.  The row is saved whole.                              *)
(***************************************************************************)
\* The statuses the callers of UpdatePendingTopUpStatus ask for.
Targets == {"failed", "expired"}

UpdatePendingTopUpStatus(x) ==
    /\ tx[x].kind = "close" /\ tx[x].seen = "pending" /\ ~Locked(x)
    /\ \E target \in Targets : order' = IF late THEN "expired" ELSE target
    /\ Close(x)
    /\ UNCHANGED <<serialised, provider, late, user, code, credited, redeemed>>

FailTopUpOrderAnyway(x) ==
    /\ tx[x].kind = "fail" /\ ~Locked(x)
    /\ order' = "failed"
    /\ Close(x)
    /\ UNCHANGED <<serialised, provider, late, user, code, credited, redeemed>>

FailTopUpOrder(x) ==
    /\ tx[x].kind = "fail" /\ tx[x].seen = "pending" /\ ~Locked(x)
    /\ order' = "failed"
    /\ Close(x)
    /\ UNCHANGED <<serialised, provider, late, user, code, credited, redeemed>>

\* ExpireStalePendingTopUps: a conditional update.
ExpireStalePendingTopUps(x) ==
    /\ tx[x].kind = "sweep" /\ tx[x].seen = "pending" /\ late
    /\ order' = IF order = "pending" THEN "expired" ELSE order
    /\ Close(x)
    /\ UNCHANGED <<serialised, provider, late, user, code, credited, redeemed>>

(***************************************************************************)
(* Redeem: the quota is added and the code saved as used.                  *)
(***************************************************************************)
Redeem(x) ==
    /\ tx[x].kind = "redeem" /\ tx[x].seen = "enabled" /\ user
    /\ code' = "used" /\ redeemed' = redeemed + 1
    /\ Close(x)
    /\ UNCHANGED <<serialised, provider, order, late, user, credited>>

(***************************************************************************)
(* Surroundings.                                                           *)
(***************************************************************************)
TimePasses ==
    /\ ~late /\ late' = TRUE
    /\ UNCHANGED <<serialised, provider, order, user, code, tx, credited, redeemed>>

UserDeleted ==
    /\ user /\ user' = FALSE
    /\ UNCHANGED <<serialised, provider, order, late, code, tx, credited, redeemed>>

TxStep(x) ==
    \/ (\E k \in Kinds : Begin(x, k)) \/ BeginFail(x) \/ Rollback(x)
    \/ SettleExpires(x) \/ Settle(x) \/ SettleFails(x)
    \/ UpdatePendingTopUpStatus(x) \/ FailTopUpOrder(x) \/ ExpireStalePendingTopUps(x)
    \/ Redeem(x)

Next == (\E x \in Txns : TxStep(x)) \/ TimePasses \/ UserDeleted

Spec == Init /\ [][Next]_vars

(***************************************************************************)
(* Properties.                                                             *)
(***************************************************************************)
\* An order is credited once at most, however often the provider repeats its
\* callback and whoever completes, reconciles, closes or expires the order next
\* to it: "the winning status CAS makes retries idempotent" (model/topup.go:105).
\* A code is redeemed once (model/redemption.go:136), where the database does for
\* Redeem what its lock does not.
CreditedOnce == credited <= 1 /\ (serialised => redeemed <= 1)

\* An order is a success exactly if it was credited: nothing closes a paid order
\* ("FailTopUpOrder closes a pending order", model/topup.go:593).  Where
\* transactions overlap it takes the lock that the closing functions ask for in a
\* way gorm ignores.
CreditedIsSuccess == serialised => ((order = "success") <=> (credited > 0))

\* "a late provider callback cannot credit an expired order"
\* (model/topup.go:253); only a reconciliation with YooKassa may.
ExpiredNotCredited ==
    [][(order \in {"expired", "failed"} /\ provider = "other") => (credited' = credited)]_vars
=============================================================================
