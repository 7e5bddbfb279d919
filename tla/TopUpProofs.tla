---------------------------- MODULE TopUpProofs -----------------------------
(***************************************************************************)
(* For any number of concurrent transactions, an order is credited once at *)
(* most, a paid order stays paid where the database serialises, and a      *)
(* closed one is not credited by a late callback.                          *)
(*                                                                         *)
(* None of this is inductive alone: that the status a settlement compares  *)
(* is the one it read takes the exclusion of the transactions that lock    *)
(* the row (LockedInv); that a reconciliation finds no credited order      *)
(* under "expired" takes that the callbacks which close an order, and may  *)
(* overwrite a paid one, are not those of YooKassa (KindInv, MoneyInv).    *)
(***************************************************************************)
EXTENDS TopUp, TLAPS

\* Open transactions; the others have nothing read.
Running(x) == tx[x].kind \notin {"none", "failNext"}

\* Which provider's transactions are which.
KindInv ==
    \A x \in Txns : /\ tx[x].kind = "reconcile" => provider = "yookassa"
                    /\ tx[x].kind = "close" => provider = "other"

\* A transaction that locks the row is the only one, and what it read is still so.
LockedInv ==
    /\ \A x, y \in Txns : tx[x].kind \in Locking /\ tx[y].kind \in Locking => x = y
    /\ \A x \in Txns : tx[x].kind \in Locking => tx[x].seen = order

\* The statuses an order is settled from are those of an order not yet credited.
MoneyInv ==
    /\ credited <= 1
    /\ order = "pending" => credited = 0
    /\ order = "expired" /\ provider = "yookassa" => credited = 0

\* A database that serialises has one open transaction, which read the present.
SerialInv ==
    serialised =>
        /\ \A x, y \in Txns : Running(x) /\ Running(y) => x = y
        /\ \A x \in Txns : Running(x) =>
               tx[x].seen = IF tx[x].kind = "redeem" THEN code ELSE order
        /\ (order = "success") <=> (credited > 0)
        /\ redeemed <= 1
        /\ code = "enabled" => redeemed = 0

IndInv == TypeOK /\ KindInv /\ LockedInv /\ MoneyInv /\ SerialInv

USE DEF Statuses, Kinds, Locking

\* The order is new, the code unused, and no transaction has begun.
LEMMA InitInv == Init => IndInv
  <1> SUFFICES ASSUME Init PROVE IndInv
    OBVIOUS
  <1>1. \A x \in Txns : tx[x] = NoTx BY DEF Init
  <1>2. TypeOK BY DEF Init, TypeOK, NoTx
  <1>3. KindInv /\ LockedInv BY <1>1 DEF KindInv, LockedInv, NoTx
  <1>4. MoneyInv BY DEF Init, MoneyInv
  <1>5. \A x \in Txns : ~Running(x) BY <1>1 DEF Running, NoTx
  <1>6. SerialInv BY <1>5 DEF Init, SerialInv
  <1> QED BY <1>2, <1>3, <1>4, <1>6 DEF IndInv

\* A transaction reads the order or the code (Begin, BeginFail).
LEMMA OpenInv ==
    ASSUME IndInv, NEW x \in Txns, NEW k \in Kinds, Called(k), MayBegin(x, k), Open(x, k),
           UNCHANGED <<serialised, provider, order, late, user, code, credited, redeemed>>
    PROVE  IndInv'
  <1>1. /\ tx[x]' = [kind |-> k, seen |-> IF k = "redeem" THEN code ELSE order]
        /\ \A y \in Txns \ {x} : tx'[y] = tx[y]
    BY DEF Open, IndInv, TypeOK
  <1>2. TypeOK' BY DEF Open, IndInv, TypeOK
  <1>3. KindInv' BY <1>1 DEF IndInv, KindInv, Called
  <1>4. LockedInv' BY <1>1 DEF IndInv, LockedInv, MayBegin, Locked
  <1>5. MoneyInv' BY DEF IndInv, MoneyInv
  <1>6. SerialInv' BY <1>1 DEF IndInv, SerialInv, Running, MayBegin
  <1> QED BY <1>2, <1>3, <1>4, <1>5, <1>6 DEF IndInv

\* A transaction ends, with or without its commit: what it leaves behind is no
\* reader any more.
LEMMA EndInv ==
    ASSUME IndInv, NEW x \in Txns, NEW t \in {"none", "failNext"},
           tx' = [tx EXCEPT ![x] = [kind |-> t, seen |-> "none"]],
           UNCHANGED <<serialised, provider>>, TypeOK',
           order' # order => /\ \A y \in Txns \ {x} : tx[y].kind \notin Locking
                             /\ Running(x) /\ tx[x].kind # "redeem",
           code' # code => Running(x),
           MoneyInv',
           serialised => /\ (order' = "success") <=> (credited' > 0)
                         /\ redeemed' <= 1 /\ (code' = "enabled" => redeemed' = 0)
    PROVE  IndInv'
  <1>1. /\ tx'[x] = [kind |-> t, seen |-> "none"]
        /\ \A y \in Txns \ {x} : tx'[y] = tx[y]
    BY DEF IndInv, TypeOK
  <1>2. KindInv' BY <1>1 DEF IndInv, KindInv
  <1>3. LockedInv' BY <1>1 DEF IndInv, LockedInv
  <1>4. SerialInv' BY <1>1 DEF IndInv, SerialInv, Running
  <1> QED BY <1>2, <1>3, <1>4 DEF IndInv

\* Every step keeps the invariant.
LEMMA StepInv == IndInv /\ [Next]_vars => IndInv'
  <1> SUFFICES ASSUME IndInv, [Next]_vars PROVE IndInv'
    OBVIOUS
  <1> USE DEF Running
  <1>1. ASSUME NEW x \in Txns, NEW k \in Kinds, Begin(x, k) PROVE IndInv'
    BY <1>1, OpenInv DEF Begin
  <1>2. ASSUME NEW x \in Txns, BeginFail(x) PROVE IndInv'
    BY <1>2, OpenInv DEF BeginFail, Called
  <1>3. ASSUME NEW x \in Txns, Rollback(x) PROVE IndInv'
    BY <1>3, EndInv DEF Rollback, Close, NoTx, IndInv, TypeOK, MoneyInv, SerialInv
  <1>4. ASSUME NEW x \in Txns, SettleExpires(x) PROVE IndInv'
    <2>1. order = "pending"
      BY <1>4 DEF SettleExpires, Settling, Settleable, Expires, IndInv, LockedInv
    <2>2. TypeOK' /\ MoneyInv'
      BY <1>4, <2>1 DEF SettleExpires, Close, NoTx, IndInv, TypeOK, MoneyInv
    <2> QED
      BY <1>4, <2>1, <2>2, EndInv
      DEF SettleExpires, Settling, Expires, Close, NoTx, IndInv, LockedInv, MoneyInv, SerialInv
  <1>5. ASSUME NEW x \in Txns, Settle(x) PROVE IndInv'
    <2>1. credited = 0
      BY <1>5 DEF Settle, Settling, Settleable, IndInv, KindInv, MoneyInv
    <2>2. TypeOK' /\ MoneyInv'
      BY <1>5, <2>1 DEF Settle, Close, NoTx, IndInv, TypeOK, MoneyInv
    <2>3. /\ Running(x) /\ tx[x].kind # "redeem" /\ \A y \in Txns \ {x} : tx[y].kind \notin Locking
          /\ tx' = [tx EXCEPT ![x] = [kind |-> "none", seen |-> "none"]]
      BY <1>5 DEF Settle, Settling, Close, NoTx, IndInv, LockedInv
    <2>4. serialised => /\ (order' = "success") <=> (credited' > 0)
                        /\ redeemed' <= 1 /\ (code' = "enabled" => redeemed' = 0)
      BY <1>5, <2>1 DEF Settle, IndInv, SerialInv
    <2>5. UNCHANGED <<serialised, provider, code>>
      BY <1>5 DEF Settle
    <2> QED BY <2>2, <2>3, <2>4, <2>5, EndInv
  <1>6. ASSUME NEW x \in Txns, SettleFails(x) PROVE IndInv'
    BY <1>6, EndInv DEF SettleFails, IndInv, TypeOK, MoneyInv, SerialInv
  <1>7. ASSUME NEW x \in Txns, UpdatePendingTopUpStatus(x) PROVE IndInv'
    <2>1. TypeOK' /\ MoneyInv'
      BY <1>7 DEF UpdatePendingTopUpStatus, Targets, Close, NoTx, IndInv, TypeOK, KindInv, MoneyInv
    <2>2. serialised => order = "pending" /\ order' # "success"
      BY <1>7 DEF UpdatePendingTopUpStatus, Targets, IndInv, SerialInv
    <2> QED
      BY <1>7, <2>1, <2>2, EndInv
      DEF UpdatePendingTopUpStatus, Close, NoTx, Locked, IndInv, MoneyInv, SerialInv
  <1>8. ASSUME NEW x \in Txns, FailTopUpOrder(x) PROVE IndInv'
    <2>1. TypeOK' /\ MoneyInv'
      BY <1>8 DEF FailTopUpOrder, Close, NoTx, IndInv, TypeOK, MoneyInv
    <2>2. serialised => order = "pending"
      BY <1>8 DEF FailTopUpOrder, IndInv, SerialInv
    <2> QED
      BY <1>8, <2>1, <2>2, EndInv
      DEF FailTopUpOrder, Close, NoTx, Locked, IndInv, MoneyInv, SerialInv
  <1>9. ASSUME NEW x \in Txns, ExpireStalePendingTopUps(x) PROVE IndInv'
    <2>1. TypeOK' /\ MoneyInv'
      BY <1>9 DEF ExpireStalePendingTopUps, Close, NoTx, IndInv, TypeOK, MoneyInv
    <2> QED
      BY <1>9, <2>1, EndInv
      DEF ExpireStalePendingTopUps, Close, NoTx, IndInv, LockedInv, MoneyInv, SerialInv
  <1>10. ASSUME NEW x \in Txns, Redeem(x) PROVE IndInv'
    <2>1. TypeOK' /\ MoneyInv'
      BY <1>10 DEF Redeem, Close, NoTx, IndInv, TypeOK, MoneyInv
    <2>2. serialised => redeemed = 0
      BY <1>10 DEF Redeem, IndInv, SerialInv
    <2>3. /\ Running(x)
          /\ tx' = [tx EXCEPT ![x] = [kind |-> "none", seen |-> "none"]]
          /\ UNCHANGED <<serialised, provider, order>>
      BY <1>10 DEF Redeem, Close, NoTx
    <2>4. serialised => /\ (order' = "success") <=> (credited' > 0)
                        /\ redeemed' <= 1 /\ (code' = "enabled" => redeemed' = 0)
      BY <1>10, <2>2 DEF Redeem, IndInv, SerialInv
    <2> QED BY <2>1, <2>3, <2>4, EndInv
  <1>11. CASE TimePasses \/ UserDeleted \/ UNCHANGED vars
    <2>1. UNCHANGED <<serialised, provider, order, code, tx, credited, redeemed>>
      BY <1>11 DEF TimePasses, UserDeleted, vars
    <2>2. late' \in BOOLEAN /\ user' \in BOOLEAN
      BY <1>11 DEF TimePasses, UserDeleted, vars, IndInv, TypeOK
    <2>3. TypeOK' BY <2>1, <2>2 DEF IndInv, TypeOK
    <2>4. KindInv' /\ LockedInv' /\ MoneyInv'
      BY <2>1 DEF IndInv, KindInv, LockedInv, MoneyInv
    <2>5. SerialInv' BY <2>1 DEF IndInv, SerialInv
    <2> QED BY <2>3, <2>4, <2>5 DEF IndInv
  <1> QED
    BY <1>1, <1>2, <1>3, <1>4, <1>5, <1>6, <1>7, <1>8, <1>9, <1>10, <1>11 DEF Next, TxStep

\* The invariant holds in every reachable state.
LEMMA Inductive == Spec => []IndInv
  BY InitInv, StepInv, PTL DEF Spec

\* However many callbacks, sweeps and rejections of an order run at once
\* (completeTopUpCASWithOptions, UpdatePendingTopUpStatus, FailTopUpOrder), its
\* quota is credited once at most, and a code's where the database serialises.
THEOREM OneCredit == Spec => []CreditedOnce
  <1>1. IndInv => CreditedOnce BY DEF IndInv, MoneyInv, SerialInv, CreditedOnce
  <1> QED BY <1>1, Inductive, PTL

\* Where the database serialises, an order is a success exactly if it was
\* credited, although the functions that close an order save the row they read.
THEOREM PaidStaysPaid == Spec => []CreditedIsSuccess
  <1>1. IndInv => CreditedIsSuccess BY DEF IndInv, SerialInv, CreditedIsSuccess
  <1> QED BY <1>1, Inductive, PTL

\* No late callback of a provider that cannot be reconciled credits a closed
\* order (completeTopUpCASWithOptions).
THEOREM NoLateCredit == Spec => ExpiredNotCredited
  <1>1. IndInv /\ [Next]_vars
          => ((order \in {"expired", "failed"} /\ provider = "other") => credited' = credited)
    BY DEF IndInv, KindInv, Next, TxStep, Begin, BeginFail, Rollback, SettleExpires, Settle,
           Settling, Settleable, SettleFails, UpdatePendingTopUpStatus, FailTopUpOrder,
           ExpireStalePendingTopUps, Redeem, TimePasses, UserDeleted, vars
  <1> QED BY <1>1, Inductive, PTL DEF Spec, ExpiredNotCredited
=============================================================================
