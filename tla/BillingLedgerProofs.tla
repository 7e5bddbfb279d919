------------------------ MODULE BillingLedgerProofs ------------------------
(***************************************************************************)
(* The billing session, for every number of sessions, every quota and      *)
(* every interleaving.                                                     *)
(*                                                                         *)
(* The books: what a session has recorded matches what its database legs   *)
(* took (BooksMatchLedger).  The invariant is about one session at a time, *)
(* so the induction is on the state of one session: SessionInv(r, p, c)    *)
(* says what a session record r, its ledger history p and its pre-consume  *)
(* record status c satisfy together at every pc.                           *)
(*                                                                         *)
(* The contract: the sessions implement SessionLedger.  The inductive      *)
(* invariant fixes the funds of a session in every phase but "held" and    *)
(* "returning", so of a step only three things remain to be shown: which   *)
(* phase follows which, that a refund leg never takes, and that the key    *)
(* leg leaves the bill.                                                    *)
(*                                                                         *)
(* The sums over all sessions: no quota is created or lost                 *)
(* (QuotaConserved, NoPhantomUsage) and the wallet is overdrawn by no more *)
(* than what settlements cost above their reserve.                         *)
(***************************************************************************)
EXTENDS BillingLedger, FiniteSetTheorems, WellFoundedInduction, TLAPS

Starting == {"new", "checkWallet", "preToken", "preFunding", "preRollback",
             "rejected", "keyHeld"}
Reserved == {"open", "overage", "rsvToken", "rsvRollback"}
Refunding == {"refund", "partRefund", "refunded"}

(* Before preConsume succeeded nothing is recorded as held but the key. *)
StartingInv(r, c) ==
    /\ r.pre = 0 /\ r.extra = 0 /\ r.unres = 0 /\ r.consumed = 0 /\ r.subPre = 0
    /\ r.over = 0 /\ ~r.fref /\ ~r.eref /\ ~r.tref /\ ~r.tokErr
    /\ c = "none"
    /\ r.pc \in {"new", "checkWallet", "preToken"} => r.tok = 0
    /\ r.pc = "new" => r.src = "none"
    /\ r.pc = "checkWallet" => r.src = "wallet"
    /\ r.pc \in {"preToken", "preFunding", "preRollback"} => r.src \in {"wallet", "sub"}
    /\ r.pc = "preFunding" => r.tok = r.arg
    /\ r.pc \in {"preRollback", "keyHeld"} => ~r.play
    /\ r.pc = "rejected" => r.play \/ r.tok = 0

(* The holds recorded by the funding source. *)
Hold(r) == IF r.src = "wallet" THEN r.consumed ELSE r.subPre + r.extra

(* A session that passed preConsume: its source, the pre-consume record and the
   subscription it was charged to. *)
SourceInv(r, c) ==
    /\ r.src \in {"wallet", "sub"}
    /\ r.src = "wallet" => r.subPre = 0 /\ c = "none" /\ r.over = 0
    /\ r.src = "sub" => r.consumed = 0 /\ c \in {"consumed", "refunded"} /\ r.sub \in Subs

(* While requests can still be reserved or settled, the hold of the source is
   preConsumedQuota + unresolvedFunding plus the delta being reserved. *)
ReservedInv(r, c) ==
    /\ ~r.fref /\ ~r.eref /\ ~r.tref /\ ~r.tokErr /\ r.over = 0 /\ c # "refunded"
    /\ r.pc \in {"open", "overage"} => Hold(r) = r.pre + r.unres
    /\ r.pc \in {"rsvToken", "rsvRollback"} =>
         Hold(r) = r.pre + r.unres + r.arg /\ r.extra >= r.arg /\ Hold(r) >= r.arg
    /\ r.pc = "overage" => r.arg >= r.pre + r.unres /\ r.src = "sub"
    /\ r.pc = "rsvRollback" => ~r.play

ChargedInv(r, c) ==
    /\ c # "refunded" /\ r.over <= r.arg
    /\ r.pc = "setToken" => ~r.tref /\ ~r.tokErr

RefundingInv(r) ==
    /\ r.over = 0 /\ ~r.tokErr
    /\ r.pc = "refunded" => r.fref /\ ~ExtraPending(r) /\ ~TokenPending(r)

SessionInv(r, p, c) ==
    /\ p = [wallet |-> WalletBook(r),
            sub |-> SubBook(r) - Unacknowledged(r, c),
            key |-> KeyBook(r)]
    /\ r.pc \in Starting => StartingInv(r, c)
    /\ r.pc \notin Starting => SourceInv(r, c)
    /\ r.pc \in Reserved => ReservedInv(r, c)
    /\ Charged(r) => ChargedInv(r, c)
    /\ r.pc \in Refunding => RefundingInv(r)

IndInv == TypeOK /\ \A s \in Sessions : SessionInv(sess[s], posted[s], record[s])

-----------------------------------------------------------------------------
(* Updating one field of a session with a value of its type gives a session. *)

LEMMA PutPc ==
    \A r \in SessionType : \A v \in Places : [r EXCEPT !.pc = v] \in SessionType
BY DEF SessionType

LEMMA PutSource ==
    \A r \in SessionType : \A v \in {"none", "wallet", "sub"} :
        /\ [r EXCEPT !.src = v] \in SessionType
        /\ [r EXCEPT !.alt = v] \in SessionType
BY DEF SessionType

LEMMA PutNat ==
    \A r \in SessionType : \A n \in Nat :
        /\ [r EXCEPT !.q = n] \in SessionType
        /\ [r EXCEPT !.arg = n] \in SessionType
        /\ [r EXCEPT !.pre = n] \in SessionType
        /\ [r EXCEPT !.tok = n] \in SessionType
        /\ [r EXCEPT !.extra = n] \in SessionType
        /\ [r EXCEPT !.unres = n] \in SessionType
        /\ [r EXCEPT !.consumed = n] \in SessionType
        /\ [r EXCEPT !.subPre = n] \in SessionType
        /\ [r EXCEPT !.over = n] \in SessionType
BY DEF SessionType

LEMMA PutFlag ==
    \A r \in SessionType : \A b \in BOOLEAN :
        /\ [r EXCEPT !.play = b] \in SessionType
        /\ [r EXCEPT !.trusted = b] \in SessionType
        /\ [r EXCEPT !.fref = b] \in SessionType
        /\ [r EXCEPT !.eref = b] \in SessionType
        /\ [r EXCEPT !.tref = b] \in SessionType
        /\ [r EXCEPT !.tokErr = b] \in SessionType
BY DEF SessionType

LEMMA PutIndex ==
    \A r \in SessionType :
        /\ \A n \in 0..2 : [r EXCEPT !.tries = n] \in SessionType
        /\ \A k \in 0..NSubs : [r EXCEPT !.sub = k] \in SessionType
BY DEF SessionType

(* Every place of a session, for the leaves that only need to know that one of
   them is a place. *)
LEMMA PlaceNames ==
    /\ {"new", "open", "partRefund", "rejected", "keyHeld", "settled", "refunded"}
         \subseteq Places
    /\ {"checkWallet", "preToken", "preFunding", "preRollback", "rsvToken",
        "rsvRollback", "overage", "setToken", "refund"} \subseteq Places
BY DEF Places, Busy, Rest, Final

-----------------------------------------------------------------------------
(* One leg, seen by its own session: SessionInv is kept by each update of the
   session record r together with the write the leg makes to the ledgers. *)

USE DEF SessionType, PostedType, SessionInv, StartingInv, SourceInv, ReservedInv,
        ChargedInv, RefundingInv, Starting, Reserved, Refunding, Charged, Hold,
        WalletBook, SubBook, KeyBook, Unacknowledged, FinancialHold, TokenHold,
        TokenPending, ExtraPending

(* Starting on a source, or giving up, when nothing is held. *)
LEMMA TryInv ==
    ASSUME NEW r \in SessionType, NEW src \in {"wallet", "sub"}, NEW alt,
           StartingInv(r, "none"),
           NEW p, p = [wallet |-> 0, sub |-> 0, key |-> 0]
    PROVE  SessionInv(Try(r, src, alt), p, "none")
BY DEF Try, Larger

LEMMA NextSourceInv ==
    ASSUME NEW r \in SessionType, StartingInv(r, "none"), r.play \/ r.tok = 0,
           NEW p, p = [wallet |-> 0, sub |-> 0, key |-> 0]
    PROVE  SessionInv(NextSource(r), p, "none")
<1>1. CASE r.alt = "none"
  BY <1>1 DEF NextSource
<1>2. CASE r.alt # "none"
  <2>1. r.alt \in {"wallet", "sub"}
    BY <1>2
  <2> QED BY <1>2, <2>1, TryInv DEF NextSource
<1> QED BY <1>1, <1>2

(* preConsume *)

LEMMA NewRequestInv ==
    ASSUME NEW r \in SessionType, StartingInv(r, "none"), NEW n, NEW play, NEW b,
           r.pc = "new"
    PROVE  StartingInv([r EXCEPT !.q = n, !.play = play, !.trusted = b], "none")
OBVIOUS

LEMMA WalletCheckedInv ==
    ASSUME NEW r \in SessionType, NEW p \in PostedType, NEW c, SessionInv(r, p, c),
           r.pc = "checkWallet", NEW b \in BOOLEAN, NEW n \in Nat
    PROVE  SessionInv([r EXCEPT !.trusted = b, !.arg = n,
                                !.pc = IF n = 0 THEN "open" ELSE "preToken"], p, c)
OBVIOUS

LEMMA RejectInv ==
    ASSUME NEW r \in SessionType, NEW p \in PostedType, NEW c, SessionInv(r, p, c),
           r.pc \in {"new", "checkWallet", "preToken"}
    PROVE  SessionInv([r EXCEPT !.pc = "rejected"], p, c)
OBVIOUS

LEMMA PreTokenInv ==
    ASSUME NEW r \in SessionType, NEW p \in PostedType, NEW c, SessionInv(r, p, c),
           r.pc = "preToken"
    PROVE  /\ r.play => SessionInv([r EXCEPT !.pc = "preFunding", !.tok = r.arg], p, c)
           /\ ~r.play => SessionInv([r EXCEPT !.pc = "preFunding", !.tok = r.arg],
                                   [p EXCEPT !.key = @ + r.arg], c)
OBVIOUS

LEMMA PreFundingWalletInv ==
    ASSUME NEW r \in SessionType, NEW p \in PostedType, NEW c, SessionInv(r, p, c),
           r.pc = "preFunding", r.src = "wallet"
    PROVE  SessionInv([r EXCEPT !.pc = "open", !.pre = r.arg, !.consumed = r.arg],
                      [p EXCEPT !.wallet = @ + r.arg], c)
OBVIOUS

LEMMA PreFundingSubscriptionInv ==
    ASSUME NEW r \in SessionType, NEW p \in PostedType, NEW c, SessionInv(r, p, c),
           r.pc = "preFunding", r.src = "sub", NEW k \in Subs
    PROVE  SessionInv([r EXCEPT !.pc = "open", !.pre = r.arg, !.subPre = r.arg,
                                !.sub = k, !.trusted = FALSE],
                      [p EXCEPT !.sub = @ + r.arg], "consumed")
OBVIOUS

LEMMA FundingRefusedInv ==
    ASSUME NEW r \in SessionType, NEW p \in PostedType, NEW c, SessionInv(r, p, c),
           r.pc = "preFunding", ~r.play, NEW alt
    PROVE  /\ SessionInv([r EXCEPT !.pc = "preRollback"], p, c)
           /\ SessionInv([[r EXCEPT !.alt = alt] EXCEPT !.pc = "preRollback"], p, c)
OBVIOUS

LEMMA PreRollbackInv ==
    ASSUME NEW r \in SessionType, NEW p \in PostedType, NEW c, SessionInv(r, p, c),
           r.pc = "preRollback"
    PROVE  /\ StartingInv([r EXCEPT !.tok = 0], "none") /\ c = "none"
           /\ [p EXCEPT !.key = @ + (0 - r.tok)] = [wallet |-> 0, sub |-> 0, key |-> 0]
<1>1. StartingInv([r EXCEPT !.tok = 0], "none") /\ c = "none"
  OBVIOUS
<1>2. p = [wallet |-> 0, sub |-> 0, key |-> r.tok]
  OBVIOUS
<1>3. [p EXCEPT !.key = @ + (0 - r.tok)] = [wallet |-> 0, sub |-> 0, key |-> 0]
  BY <1>2
<1> QED BY <1>1, <1>3

LEMMA KeyHeldInv ==
    ASSUME NEW r \in SessionType, NEW p \in PostedType, NEW c, SessionInv(r, p, c),
           r.pc = "preRollback"
    PROVE  SessionInv([r EXCEPT !.pc = "keyHeld"], p, c)
OBVIOUS

(* Reserve *)

LEMMA ReserveFundingInv ==
    ASSUME NEW r \in SessionType, NEW p \in PostedType, NEW c, SessionInv(r, p, c),
           r.pc = "open", NEW d \in Nat
    PROVE  /\ r.src = "wallet" =>
                SessionInv([r EXCEPT !.pc = "rsvToken", !.arg = d, !.extra = r.extra + d,
                                     !.consumed = r.consumed + d],
                           [p EXCEPT !.wallet = @ + d], c)
           /\ r.src = "sub" =>
                SessionInv([r EXCEPT !.pc = "rsvToken", !.arg = d, !.extra = r.extra + d],
                           [p EXCEPT !.sub = @ + d], c)
OBVIOUS

LEMMA ReserveTokenInv ==
    ASSUME NEW r \in SessionType, NEW p \in PostedType, NEW c, SessionInv(r, p, c),
           r.pc = "rsvToken"
    PROVE  /\ r.play => SessionInv([r EXCEPT !.pc = "open", !.pre = r.pre + r.arg,
                                           !.tok = r.tok + r.arg], p, c)
           /\ ~r.play => SessionInv([r EXCEPT !.pc = "open", !.pre = r.pre + r.arg,
                                            !.tok = r.tok + r.arg],
                                   [p EXCEPT !.key = @ + r.arg], c)
           /\ ~r.play => SessionInv([r EXCEPT !.pc = "rsvRollback"], p, c)
OBVIOUS

LEMMA ReserveRollbackInv ==
    ASSUME NEW r \in SessionType, NEW p \in PostedType, NEW c, SessionInv(r, p, c),
           r.pc = "rsvRollback"
    PROVE  /\ r.src = "wallet" =>
                SessionInv([r EXCEPT !.pc = "open", !.extra = r.extra - r.arg,
                                     !.consumed = r.consumed - r.arg],
                           [p EXCEPT !.wallet = @ + (0 - r.arg)], c)
           /\ r.src = "sub" =>
                SessionInv([r EXCEPT !.pc = "open", !.extra = r.extra - r.arg],
                           [p EXCEPT !.sub = @ + (0 - r.arg)], c)
           /\ SessionInv([r EXCEPT !.pc = "open", !.unres = r.unres + r.arg], p, c)
<1>1. ASSUME r.src = "wallet"
      PROVE  SessionInv([r EXCEPT !.pc = "open", !.extra = r.extra - r.arg,
                                !.consumed = r.consumed - r.arg],
                        [p EXCEPT !.wallet = @ + (0 - r.arg)], c)
  BY <1>1
<1>2. ASSUME r.src = "sub"
      PROVE  SessionInv([r EXCEPT !.pc = "open", !.extra = r.extra - r.arg],
                        [p EXCEPT !.sub = @ + (0 - r.arg)], c)
  BY <1>2
<1>3. SessionInv([r EXCEPT !.pc = "open", !.unres = r.unres + r.arg], p, c)
  OBVIOUS
<1> QED BY <1>1, <1>2, <1>3

(* Settle *)

LEMMA SettleFundingInv ==
    ASSUME NEW r \in SessionType, NEW p \in PostedType, NEW c, SessionInv(r, p, c),
           r.pc = "open", NEW a \in Nat, NEW d, d = a - (r.pre + r.unres)
    PROVE  /\ d = 0 => SessionInv([r EXCEPT !.pc = "setToken", !.arg = a], p, c)
           /\ r.src = "wallet" => SessionInv([r EXCEPT !.pc = "setToken", !.arg = a],
                                            [p EXCEPT !.wallet = @ + d], c)
           /\ r.src = "sub" => SessionInv([r EXCEPT !.pc = "setToken", !.arg = a],
                                         [p EXCEPT !.sub = @ + d], c)
           /\ d > 0 /\ r.src = "sub" =>
                SessionInv([r EXCEPT !.pc = "overage", !.arg = a], p, c)
<1>1. ASSUME d = 0
      PROVE  SessionInv([r EXCEPT !.pc = "setToken", !.arg = a], p, c)
  BY <1>1, SMTT(60)
<1>2. ASSUME r.src = "wallet"
      PROVE  SessionInv([r EXCEPT !.pc = "setToken", !.arg = a],
                        [p EXCEPT !.wallet = @ + d], c)
  BY <1>2
<1>3. ASSUME r.src = "sub"
      PROVE  SessionInv([r EXCEPT !.pc = "setToken", !.arg = a],
                        [p EXCEPT !.sub = @ + d], c)
  BY <1>3
<1>4. ASSUME d > 0, r.src = "sub"
      PROVE  SessionInv([r EXCEPT !.pc = "overage", !.arg = a], p, c)
  BY <1>4
<1> QED BY <1>1, <1>2, <1>3, <1>4

LEMMA SettleOverageInv ==
    ASSUME NEW r \in SessionType, NEW p \in PostedType, NEW c, SessionInv(r, p, c),
           r.pc = "overage", NEW d, d = r.arg - (r.pre + r.unres)
    PROVE  /\ SessionInv([r EXCEPT !.pc = "setToken", !.over = d],
                         [p EXCEPT !.wallet = @ + d], c)
           /\ SessionInv([r EXCEPT !.pc = "open"], p, c)
OBVIOUS

LEMMA SettleTokenInv ==
    ASSUME NEW r \in SessionType, NEW p \in PostedType, NEW c, SessionInv(r, p, c),
           r.pc = "setToken"
    PROVE  /\ r.play \/ r.arg = r.tok =>
                SessionInv([r EXCEPT !.pc = "settled", !.unres = 0], p, c)
           /\ ~r.play => SessionInv([r EXCEPT !.pc = "settled", !.unres = 0],
                                   [p EXCEPT !.key = @ + (r.arg - r.tok)], c)
           /\ SessionInv([r EXCEPT !.pc = "settled", !.unres = 0, !.tokErr = TRUE], p, c)
OBVIOUS

LEMMA SettleWithoutSessionInv ==
    ASSUME NEW r \in SessionType, NEW p \in PostedType, NEW c, SessionInv(r, p, c),
           r.pc = "new", NEW a \in Nat, NEW play \in BOOLEAN
    PROVE  SessionInv([r EXCEPT !.pc = "setToken", !.src = "wallet", !.arg = a,
                                !.play = play], [p EXCEPT !.wallet = @ + a], c)
OBVIOUS

(* Refund *)

LEMMA RefundStartInv ==
    ASSUME NEW r \in SessionType, NEW p \in PostedType, NEW c, SessionInv(r, p, c),
           r.pc \in {"open", "partRefund"}
    PROVE  SessionInv([r EXCEPT !.pc = "refund"], p, c)
OBVIOUS

LEMMA RefundWalletInv ==
    ASSUME NEW r \in SessionType, NEW p \in PostedType, NEW c, SessionInv(r, p, c),
           r.pc = "refund", ~r.fref, r.src = "wallet"
    PROVE  SessionInv([r EXCEPT !.fref = TRUE], [p EXCEPT !.wallet = @ + (0 - r.consumed)], c)
OBVIOUS

LEMMA RefundSubscriptionInv ==
    ASSUME NEW r \in SessionType, NEW p \in PostedType, NEW c, SessionInv(r, p, c),
           r.pc = "refund", ~r.fref, r.src = "sub"
    PROVE  /\ c = "refunded" => SessionInv([r EXCEPT !.fref = TRUE, !.tries = 0], p, c)
           /\ c = "consumed" => SessionInv([r EXCEPT !.fref = TRUE, !.tries = 0],
                                          [p EXCEPT !.sub = @ + (0 - r.subPre)], "refunded")
<1>1. ASSUME c = "refunded"
      PROVE  SessionInv([r EXCEPT !.fref = TRUE, !.tries = 0], p, c)
  BY <1>1
<1>2. ASSUME c = "consumed"
      PROVE  SessionInv([r EXCEPT !.fref = TRUE, !.tries = 0],
                        [p EXCEPT !.sub = @ + (0 - r.subPre)], "refunded")
  BY <1>2
<1> QED BY <1>1, <1>2

LEMMA RefundRetryInv ==
    ASSUME NEW r \in SessionType, NEW p \in PostedType, NEW c, SessionInv(r, p, c),
           r.pc = "refund", ~r.fref, r.src = "sub", NEW n \in 0..2
    PROVE  /\ SessionInv([r EXCEPT !.tries = n], p, c)
           /\ SessionInv([r EXCEPT !.tries = 0, !.pc = "partRefund"], p, c)
           /\ c = "consumed" =>
                /\ SessionInv([r EXCEPT !.tries = n],
                              [p EXCEPT !.sub = @ + (0 - r.subPre)], "refunded")
                /\ SessionInv([r EXCEPT !.tries = 0, !.pc = "partRefund"],
                              [p EXCEPT !.sub = @ + (0 - r.subPre)], "refunded")
<1>1. SessionInv([r EXCEPT !.tries = n], p, c)
  OBVIOUS
<1>2. SessionInv([r EXCEPT !.tries = 0, !.pc = "partRefund"], p, c)
  OBVIOUS
<1>3. ASSUME c = "consumed"
      PROVE  SessionInv([r EXCEPT !.tries = n],
                        [p EXCEPT !.sub = @ + (0 - r.subPre)], "refunded")
  BY <1>3
<1>4. ASSUME c = "consumed"
      PROVE  SessionInv([r EXCEPT !.tries = 0, !.pc = "partRefund"],
                        [p EXCEPT !.sub = @ + (0 - r.subPre)], "refunded")
  BY <1>4
<1> QED BY <1>1, <1>2, <1>3, <1>4

LEMMA RefundExtraInv ==
    ASSUME NEW r \in SessionType, NEW p \in PostedType, NEW c, SessionInv(r, p, c),
           r.pc = "refund", r.fref, ExtraPending(r)
    PROVE  SessionInv([r EXCEPT !.eref = TRUE], [p EXCEPT !.sub = @ + (0 - r.extra)], c)
OBVIOUS

LEMMA RefundTokenInv ==
    ASSUME NEW r \in SessionType, NEW p \in PostedType, NEW c, SessionInv(r, p, c),
           r.pc = "refund", r.fref, ~ExtraPending(r), TokenPending(r)
    PROVE  SessionInv([r EXCEPT !.tref = TRUE], [p EXCEPT !.key = @ + (0 - r.tok)], c)
OBVIOUS

LEMMA RefundStopInv ==
    ASSUME NEW r \in SessionType, NEW p \in PostedType, NEW c, SessionInv(r, p, c),
           r.pc = "refund"
    PROVE  /\ SessionInv([r EXCEPT !.pc = "partRefund"], p, c)
           /\ r.fref /\ ~ExtraPending(r) /\ ~TokenPending(r) =>
                SessionInv([r EXCEPT !.pc = "refunded", !.unres = 0], p, c)
OBVIOUS

-----------------------------------------------------------------------------
HIDE DEF SessionType, PostedType, SessionInv, StartingInv, SourceInv, ReservedInv,
         ChargedInv, RefundingInv, Starting, Reserved, Refunding, Charged, Hold,
         WalletBook, SubBook, KeyBook, Unacknowledged, FinancialHold, TokenHold,
         TokenPending, ExtraPending

(* One leg, seen by the ledgers: what each operation of the model package does
   to the types and to the history of the session that calls it. *)

LedgerType ==
    /\ wallet \in Int
    /\ key \in Int
    /\ subUsed \in [Subs -> Nat]
    /\ subActive \in [Subs -> BOOLEAN]
    /\ resetDue \in [Subs -> BOOLEAN]
    /\ periods \in 0..MaxPeriods

(* The new history of session s. *)
Posts(s, p) == posted' = [posted EXCEPT ![s] = p]

LEMMA AdjustUserQuotaPosts ==
    ASSUME IndInv, NEW s \in Sessions, NEW n \in Int, AdjustUserQuota(s, n)
    PROVE  /\ LedgerType' /\ record' = record
           /\ [posted[s] EXCEPT !.wallet = @ + n] \in PostedType
           /\ Posts(s, [posted[s] EXCEPT !.wallet = @ + n])
BY DEF IndInv, TypeOK, LedgerType, PostedType, AdjustUserQuota, Posts, subVars

LEMMA AdjustTokenQuotaPosts ==
    ASSUME IndInv, NEW s \in Sessions, NEW n \in Int, AdjustTokenQuota(s, n)
    PROVE  /\ LedgerType' /\ record' = record
           /\ [posted[s] EXCEPT !.key = @ + n] \in PostedType
           /\ Posts(s, [posted[s] EXCEPT !.key = @ + n])
BY DEF IndInv, TypeOK, LedgerType, PostedType, AdjustTokenQuota, Posts, subVars

LEMMA PostConsumePosts ==
    ASSUME IndInv, NEW s \in Sessions, NEW k, NEW d \in Int,
           PostConsumeSubscription(s, k, d)
    PROVE  /\ LedgerType'
           /\ [posted[s] EXCEPT !.sub = @ + d] \in PostedType
           /\ Posts(s, [posted[s] EXCEPT !.sub = @ + d])
<1>1. subUsed \in [Subs -> Nat] /\ subUsed' = [subUsed EXCEPT ![k] = NewUsed(k, d)]
  BY DEF IndInv, TypeOK, PostConsumeSubscription
<1>2. k \in Subs => NewUsed(k, d) \in Nat
  BY <1>1 DEF NewUsed
<1>3. subUsed' \in [Subs -> Nat]
  BY <1>1, <1>2
<1>4. LedgerType'
  BY <1>3 DEF IndInv, TypeOK, LedgerType, PostConsumeSubscription
<1> QED BY <1>4 DEF IndInv, TypeOK, PostedType, PostConsumeSubscription, Posts

LEMMA PreConsumePosts ==
    ASSUME IndInv, NEW s \in Sessions, NEW k \in Subs, NEW n \in Nat,
           PreConsumeSubscription(s, k, n)
    PROVE  /\ LedgerType'
           /\ [posted[s] EXCEPT !.sub = @ + n] \in PostedType
           /\ Posts(s, [posted[s] EXCEPT !.sub = @ + n])
           /\ record' = [record EXCEPT ![s] = "consumed"]
BY DEF IndInv, TypeOK, LedgerType, PostedType, PreConsumeSubscription,
       UsedAfterReset, Posts

LEMMA NoWritePosts ==
    ASSUME IndInv, NoWrite
    PROVE  LedgerType' /\ record' = record /\ posted' = posted
BY DEF IndInv, TypeOK, LedgerType, NoWrite, ledgers

(* A step of session s keeps IndInv when its new record, history and record
   status satisfy SessionInv: no other session is touched. *)
LEMMA SessionMoves ==
    ASSUME IndInv, NEW s \in Sessions, LedgerType',
           NEW z \in SessionType, NEW p \in PostedType, NEW c \in RecordStatus,
           SessionInv(z, p, c),
           Becomes(s, z), Posts(s, p), record' = [record EXCEPT ![s] = c]
    PROVE  IndInv'
<1> USE DEF IndInv, Becomes, Posts
<1>1. TypeOK'
  BY DEF TypeOK, LedgerType
<1>2. ASSUME NEW t \in Sessions PROVE SessionInv(sess'[t], posted'[t], record'[t])
  <2>1. CASE t = s
    BY <2>1 DEF TypeOK
  <2>2. CASE t # s
    <3>1. sess'[t] = sess[t] /\ posted'[t] = posted[t] /\ record'[t] = record[t]
      BY <2>2 DEF TypeOK
    <3>2. SessionInv(sess[t], posted[t], record[t])
      OBVIOUS
    <3> QED BY <3>1, <3>2
  <2> QED BY <2>1, <2>2
<1> QED BY <1>1, <1>2

(* The three ways a leg meets SessionMoves: it writes nothing, it writes a
   quota ledger, or it also changes the pre-consume record. *)
LEMMA QuietMove ==
    ASSUME IndInv, NEW s \in Sessions, NEW z \in SessionType,
           SessionInv(z, posted[s], record[s]), Becomes(s, z), NoWrite
    PROVE  IndInv'
<1>1. posted[s] \in PostedType /\ record[s] \in RecordStatus
  BY DEF IndInv, TypeOK
<1>2. LedgerType' /\ record' = record /\ posted' = posted
  BY NoWritePosts
<1>3. Posts(s, posted[s]) /\ record' = [record EXCEPT ![s] = record[s]]
  BY <1>2 DEF Posts, IndInv, TypeOK
<1> QED BY <1>1, <1>2, <1>3, SessionMoves

LEMMA PostingMove ==
    ASSUME IndInv, NEW s \in Sessions, NEW z \in SessionType, NEW p \in PostedType,
           SessionInv(z, p, record[s]), Becomes(s, z), LedgerType', Posts(s, p),
           record' = record
    PROVE  IndInv'
<1>1. record[s] \in RecordStatus /\ record' = [record EXCEPT ![s] = record[s]]
  BY DEF IndInv, TypeOK
<1> QED BY <1>1, SessionMoves

LEMMA Mine ==
    ASSUME IndInv, NEW s \in Sessions
    PROVE  /\ sess[s] \in SessionType /\ posted[s] \in PostedType
           /\ record[s] \in RecordStatus
           /\ SessionInv(sess[s], posted[s], record[s])
BY DEF IndInv, TypeOK

-----------------------------------------------------------------------------
(* One step of Next: each operation keeps IndInv, action by action. *)

LEMMA TryType ==
    ASSUME NEW r \in SessionType, NEW src \in {"wallet", "sub"},
           NEW alt \in {"none", "wallet", "sub"}
    PROVE  Try(r, src, alt) \in SessionType
<1>1. r.q \in Nat /\ Larger(r.q, 1) \in Nat
  BY DEF SessionType, Larger
<1>2. "checkWallet" \in Places /\ "preToken" \in Places
  BY PlaceNames
<1> QED BY <1>1, <1>2, PutPc, PutSource, PutNat DEF Try

LEMMA NextSourceType ==
    ASSUME NEW r \in SessionType
    PROVE  NextSource(r) \in SessionType
<1>1. r.alt \in {"none", "wallet", "sub"}
  BY DEF SessionType
<1>2. CASE r.alt = "none"
  BY <1>2, PutPc, PlaceNames DEF NextSource
<1>3. CASE r.alt # "none"
  BY <1>1, <1>3, TryType DEF NextSource
<1> QED BY <1>2, <1>3

(* What SessionInv says of a session that holds nothing. *)
LEMMA EmptyHanded ==
    ASSUME NEW r \in SessionType, NEW p, NEW c, SessionInv(r, p, c),
           r.pc \in {"new", "checkWallet"}
    PROVE  /\ StartingInv(r, "none") /\ c = "none" /\ r.tok = 0
           /\ p = [wallet |-> 0, sub |-> 0, key |-> 0]
BY DEF SessionType, SessionInv, StartingInv, Starting, Charged, WalletBook, SubBook,
       KeyBook, Unacknowledged, FinancialHold, TokenHold, TokenPending

LEMMA BeginKeeps ==
    ASSUME IndInv, NEW s \in Sessions, Begin(s)
    PROVE  IndInv'
<1> DEFINE r == sess[s]
           p == posted[s]
           c == record[s]
<1>0. r \in SessionType /\ p \in PostedType /\ SessionInv(r, p, c)
  BY Mine
<1>1. ASSUME NEW pref \in Prefs, NEW n \in Amounts, NEW play \in PlaygroundModes,
             NewBillingSession(s, pref, n, play)
      PROVE  IndInv'
  <2> DEFINE t == [r EXCEPT !.q = n, !.play = play,
                            !.trusted = KeyUnlimited \/ key > TrustQuota]
             z == Try(t, FirstSource(pref), Fallback(pref))
  <2>1. n \in Nat /\ play \in BOOLEAN /\ (KeyUnlimited \/ key > TrustQuota) \in BOOLEAN
    BY <1>1, ConstantsAssumption
  <2>2. t \in SessionType
    BY <1>0, <2>1, PutNat, PutFlag
  <2>3. /\ FirstSource(pref) \in {"wallet", "sub"}
        /\ Fallback(pref) \in {"none", "wallet", "sub"}
    BY DEF FirstSource, Fallback
  <2>4. z \in SessionType
    BY <2>2, <2>3, TryType
  <2>5. StartingInv(r, "none") /\ c = "none" /\ p = [wallet |-> 0, sub |-> 0, key |-> 0]
    BY <1>0, <1>1, EmptyHanded DEF NewBillingSession
  <2>6. StartingInv(t, "none")
    BY <1>0, <1>1, <2>5, NewRequestInv DEF NewBillingSession
  <2>7. SessionInv(z, p, c)
    BY <2>2, <2>3, <2>5, <2>6, TryInv
  <2>8. Becomes(s, z) /\ NoWrite
    BY <1>1 DEF NewBillingSession
  <2> HIDE DEF z
  <2> QED BY <2>4, <2>7, <2>8, QuietMove
<1>2. ASSUME NEW a \in Amounts, NEW play \in PlaygroundModes,
             SettleWithoutSession(s, a, play)
      PROVE  IndInv'
  <2> DEFINE z == [r EXCEPT !.pc = "setToken", !.src = "wallet", !.arg = a, !.play = play]
             w == [p EXCEPT !.wallet = @ + a]
  <2>1. a \in Nat /\ play \in BOOLEAN
    BY <1>2, ConstantsAssumption
  <2>2. z \in SessionType
    BY <1>0, <2>1, PutPc, PutSource, PutNat, PutFlag, PlaceNames
  <2>3. SessionInv(z, w, c)
    BY <1>0, <1>2, <2>1, SettleWithoutSessionInv DEF SettleWithoutSession
  <2>4. Becomes(s, z) /\ AdjustUserQuota(s, a)
    BY <1>2 DEF SettleWithoutSession
  <2>5. LedgerType' /\ record' = record /\ w \in PostedType /\ Posts(s, w)
    BY <2>1, <2>4, AdjustUserQuotaPosts
  <2> HIDE DEF z, w
  <2> QED BY <2>2, <2>3, <2>4, <2>5, PostingMove
<1> QED BY <1>1, <1>2 DEF Begin

LEMMA PreConsumeKeeps ==
    ASSUME IndInv, NEW s \in Sessions, PreConsume(s)
    PROVE  IndInv'
<1> DEFINE r == sess[s]
           p == posted[s]
           c == record[s]
<1>0. r \in SessionType /\ p \in PostedType /\ SessionInv(r, p, c)
  BY Mine
<1>n. /\ r.arg \in Nat /\ r.q \in Nat /\ r.tok \in Nat /\ r.play \in BOOLEAN
      /\ r.arg \in Int /\ 0 - r.tok \in Int
  BY <1>0 DEF SessionType
<1>1. CASE CheckWallet(s)
  <2> DEFINE n == IF ShouldTrust(r) THEN 0 ELSE r.q
             z == [r EXCEPT !.trusted = ShouldTrust(r), !.arg = n,
                            !.pc = IF n = 0 THEN "open" ELSE "preToken"]
  <2>1. r.pc = "checkWallet" /\ NoWrite
    BY <1>1 DEF CheckWallet
  <2>2. CASE Becomes(s, NextSource(r))
    <3>1. SessionInv(NextSource(r), p, c)
      BY <1>0, <2>1, EmptyHanded, NextSourceInv
    <3>2. NextSource(r) \in SessionType
      BY <1>0, NextSourceType
    <3> QED BY <2>1, <2>2, <3>1, <3>2, QuietMove
  <2>3. CASE Becomes(s, z)
    <3>1. ShouldTrust(r) \in BOOLEAN
      BY DEF ShouldTrust
    <3>2. n \in Nat
      BY <1>n
    <3>3. z \in SessionType
      BY <1>0, <3>1, <3>2, PutPc, PutNat, PutFlag, PlaceNames
    <3>4. SessionInv(z, p, c)
      BY <1>0, <2>1, <3>1, <3>2, WalletCheckedInv
    <3> HIDE DEF z
    <3> QED BY <2>1, <2>3, <3>3, <3>4, QuietMove
  <2>4. Becomes(s, NextSource(r)) \/ Becomes(s, z)
    BY <1>1 DEF CheckWallet
  <2> QED BY <2>2, <2>3, <2>4
<1>2. CASE CheckFails(s) \/ PreConsumeTokenFails(s)
  <2> DEFINE z == [r EXCEPT !.pc = "rejected"]
  <2>1. /\ r.pc \in {"new", "checkWallet", "preToken"}
        /\ Becomes(s, z) /\ NoWrite
    BY <1>2 DEF CheckFails, PreConsumeTokenFails
  <2>2. z \in SessionType
    BY <1>0, PutPc, PlaceNames
  <2>3. SessionInv(z, p, c)
    BY <1>0, <2>1, RejectInv
  <2> QED BY <2>1, <2>2, <2>3, QuietMove
<1>3. CASE PreConsumeToken(s)
  <2> DEFINE z == [r EXCEPT !.pc = "preFunding", !.tok = r.arg]
             w == [p EXCEPT !.key = @ + r.arg]
  <2>1. r.pc = "preToken" /\ Becomes(s, z)
    BY <1>3 DEF PreConsumeToken
  <2>2. z \in SessionType
    BY <1>0, <1>n, PutPc, PutNat, PlaceNames
  <2>3. CASE r.play
    <3>1. SessionInv(z, p, c) /\ NoWrite
      BY <1>0, <1>3, <2>1, <2>3, PreTokenInv DEF PreConsumeToken
    <3> QED BY <2>1, <2>2, <3>1, QuietMove
  <2>4. CASE ~r.play
    <3>1. SessionInv(z, w, c)
      BY <1>0, <2>1, <2>4, PreTokenInv
    <3>2. AdjustTokenQuota(s, r.arg)
      BY <1>3, <2>4 DEF PreConsumeToken, ReserveTokenQuota
    <3>3. LedgerType' /\ record' = record /\ w \in PostedType /\ Posts(s, w)
      BY <1>n, <3>2, AdjustTokenQuotaPosts
    <3> HIDE DEF z, w
    <3> QED BY <2>1, <2>2, <3>1, <3>3, PostingMove
  <2> QED BY <2>3, <2>4
<1>4. CASE PreConsumeFunding(s)
  <2>1. r.pc = "preFunding"
    BY <1>4 DEF PreConsumeFunding
  <2>2. ASSUME r.src = "wallet", AdjustUserQuota(s, r.arg),
               Becomes(s, [r EXCEPT !.pc = "open", !.pre = r.arg, !.consumed = r.arg])
        PROVE  IndInv'
    <3> DEFINE z == [r EXCEPT !.pc = "open", !.pre = r.arg, !.consumed = r.arg]
               w == [p EXCEPT !.wallet = @ + r.arg]
    <3>1. z \in SessionType
      BY <1>0, <1>n, PutPc, PutNat, PlaceNames
    <3>2. SessionInv(z, w, c)
      BY <1>0, <2>1, <2>2, PreFundingWalletInv
    <3>3. LedgerType' /\ record' = record /\ w \in PostedType /\ Posts(s, w)
      BY <1>n, <2>2, AdjustUserQuotaPosts
    <3> HIDE DEF z, w
    <3> QED BY <2>2, <3>1, <3>2, <3>3, PostingMove DEF z
  <2>3. ASSUME r.src = "sub", NEW k \in Subs, PreConsumeSubscription(s, k, r.arg),
               Becomes(s, [r EXCEPT !.pc = "open", !.pre = r.arg, !.subPre = r.arg,
                                    !.sub = k, !.trusted = FALSE])
        PROVE  IndInv'
    <3> DEFINE z == [r EXCEPT !.pc = "open", !.pre = r.arg, !.subPre = r.arg,
                              !.sub = k, !.trusted = FALSE]
               w == [p EXCEPT !.sub = @ + r.arg]
    <3>1. k \in 0..NSubs
      BY ConstantsAssumption DEF Subs
    <3>2. z \in SessionType
      BY <1>0, <1>n, <3>1, PutPc, PutNat, PutIndex, PutFlag, PlaceNames
    <3>3. SessionInv(z, w, "consumed")
      BY <1>0, <2>1, <2>3, PreFundingSubscriptionInv
    <3>4. /\ LedgerType' /\ w \in PostedType /\ Posts(s, w)
          /\ record' = [record EXCEPT ![s] = "consumed"]
      BY <1>n, <2>3, PreConsumePosts
    <3>5. "consumed" \in RecordStatus
      BY DEF RecordStatus
    <3>6. Becomes(s, z)
      BY <2>3
    <3> HIDE DEF z, w
    <3> QED BY <3>2, <3>3, <3>4, <3>5, <3>6, SessionMoves
  <2> QED BY <1>4, <2>2, <2>3 DEF PreConsumeFunding, ReserveUserQuota
<1>5. ASSUME NEW insufficient \in BOOLEAN, PreConsumeFundingFails(s, insufficient)
      PROVE  IndInv'
  <2> DEFINE f == IF insufficient THEN r ELSE [r EXCEPT !.alt = "none"]
             z == [f EXCEPT !.pc = "preRollback"]
  <2>1. r.pc = "preFunding" /\ NoWrite
    BY <1>5 DEF PreConsumeFundingFails
  <2>2. f \in SessionType
    BY <1>0, PutSource
  <2>3. CASE r.play
    <3>1. /\ StartingInv(f, "none") /\ f.play /\ c = "none"
          /\ p = [wallet |-> 0, sub |-> 0, key |-> 0]
      BY <1>0, <2>1, <2>3 DEF SessionType, SessionInv, StartingInv, Starting, Charged,
         WalletBook, SubBook, KeyBook, Unacknowledged, FinancialHold, TokenHold, TokenPending
    <3>2. Becomes(s, NextSource(f))
      BY <1>5, <2>3 DEF PreConsumeFundingFails
    <3>3. NextSource(f) \in SessionType
      BY <2>2, NextSourceType
    <3> HIDE DEF f
    <3>4. SessionInv(NextSource(f), p, c)
      BY <2>2, <3>1, NextSourceInv
    <3> QED BY <2>1, <3>2, <3>3, <3>4, QuietMove
  <2>4. CASE ~r.play
    <3>1. SessionInv(z, p, c)
      BY <1>0, <2>1, <2>4, FundingRefusedInv
    <3>2. Becomes(s, z)
      BY <1>5, <2>4 DEF PreConsumeFundingFails
    <3>3. z \in SessionType
      BY <2>2, PutPc, PlaceNames
    <3> HIDE DEF z
    <3> QED BY <2>1, <3>1, <3>2, <3>3, QuietMove
  <2> QED BY <2>3, <2>4
<1>6. CASE PreConsumeRollback(s)
  <2> DEFINE f == [r EXCEPT !.tok = 0]
             w == [p EXCEPT !.key = @ + (0 - r.tok)]
  <2>1. r.pc = "preRollback" /\ AdjustTokenQuota(s, 0 - r.tok) /\ Becomes(s, NextSource(f))
    BY <1>6 DEF PreConsumeRollback
  <2>2. f \in SessionType
    BY <1>0, PutNat
  <2>3. /\ StartingInv(f, "none") /\ f.tok = 0 /\ c = "none"
        /\ w = [wallet |-> 0, sub |-> 0, key |-> 0]
    BY <1>0, <2>1, <2>2, PreRollbackInv DEF SessionType
  <2>4. NextSource(f) \in SessionType
    BY <2>2, NextSourceType
  <2>5. LedgerType' /\ record' = record /\ w \in PostedType /\ Posts(s, w)
    BY <1>n, <2>1, AdjustTokenQuotaPosts
  <2> HIDE DEF f, w
  <2>6. SessionInv(NextSource(f), w, c)
    BY <2>2, <2>3, NextSourceInv
  <2> QED BY <2>1, <2>4, <2>5, <2>6, PostingMove
<1>7. CASE PreConsumeRollbackFails(s)
  <2> DEFINE z == [r EXCEPT !.pc = "keyHeld"]
  <2>1. r.pc = "preRollback" /\ Becomes(s, z) /\ NoWrite
    BY <1>7 DEF PreConsumeRollbackFails
  <2>2. z \in SessionType
    BY <1>0, PutPc, PlaceNames
  <2>3. SessionInv(z, p, c)
    BY <1>0, <2>1, KeyHeldInv
  <2> QED BY <2>1, <2>2, <2>3, QuietMove
<1> QED BY <1>1, <1>2, <1>3, <1>4, <1>5, <1>6, <1>7 DEF PreConsume

LEMMA ReserveKeeps ==
    ASSUME IndInv, NEW s \in Sessions, Reserve(s)
    PROVE  IndInv'
<1> DEFINE r == sess[s]
           p == posted[s]
           c == record[s]
<1>0. r \in SessionType /\ p \in PostedType /\ SessionInv(r, p, c)
  BY Mine
<1>n. /\ r.arg \in Nat /\ r.pre \in Nat /\ r.tok \in Nat /\ r.extra \in Nat
      /\ r.unres \in Nat /\ r.consumed \in Nat /\ r.play \in BOOLEAN
      /\ r.pre + r.arg \in Nat /\ r.tok + r.arg \in Nat /\ r.unres + r.arg \in Nat
      /\ r.arg \in Int /\ 0 - r.arg \in Int
  BY <1>0 DEF SessionType
<1>1. ASSUME NEW target \in Amounts, ReserveFunding(s, target)
      PROVE  IndInv'
  <2> DEFINE d == target - r.pre
  <2>1. r.pc = "open" /\ d > 0
    BY <1>1 DEF ReserveFunding
  <2>2. target \in Nat
    BY ConstantsAssumption
  <2>3. d \in Nat /\ d \in Int /\ r.extra + d \in Nat /\ r.consumed + d \in Nat
    BY <1>n, <2>1, <2>2
  <2>4. ASSUME r.src = "wallet", AdjustUserQuota(s, d),
               Becomes(s, [r EXCEPT !.pc = "rsvToken", !.arg = d, !.extra = r.extra + d,
                                    !.consumed = r.consumed + d])
        PROVE  IndInv'
    <3> DEFINE z == [r EXCEPT !.pc = "rsvToken", !.arg = d, !.extra = r.extra + d,
                              !.consumed = r.consumed + d]
               w == [p EXCEPT !.wallet = @ + d]
    <3> HIDE DEF d
    <3>1. z \in SessionType
      BY <1>0, <2>3, PutPc, PutNat, PlaceNames
    <3>2. SessionInv(z, w, c)
      BY <1>0, <2>1, <2>3, <2>4, ReserveFundingInv
    <3>3. LedgerType' /\ record' = record /\ w \in PostedType /\ Posts(s, w)
      BY <2>3, <2>4, AdjustUserQuotaPosts
    <3>4. Becomes(s, z)
      BY <2>4
    <3> HIDE DEF z, w
    <3> QED BY <3>1, <3>2, <3>3, <3>4, PostingMove
  <2>5. ASSUME r.src = "sub", PostConsumeSubscription(s, r.sub, d), record' = record,
               Becomes(s, [r EXCEPT !.pc = "rsvToken", !.arg = d, !.extra = r.extra + d])
        PROVE  IndInv'
    <3> DEFINE z == [r EXCEPT !.pc = "rsvToken", !.arg = d, !.extra = r.extra + d]
               w == [p EXCEPT !.sub = @ + d]
    <3> HIDE DEF d
    <3>1. z \in SessionType
      BY <1>0, <2>3, PutPc, PutNat, PlaceNames
    <3>2. SessionInv(z, w, c)
      BY <1>0, <2>1, <2>3, <2>5, ReserveFundingInv
    <3>3. LedgerType' /\ w \in PostedType /\ Posts(s, w)
      BY <2>3, <2>5, PostConsumePosts
    <3>4. Becomes(s, z)
      BY <2>5
    <3> HIDE DEF z, w
    <3> QED BY <2>5, <3>1, <3>2, <3>3, <3>4, PostingMove
  <2> QED BY <1>1, <2>4, <2>5 DEF ReserveFunding, ReserveUserQuota
<1>2. CASE ReserveToken(s)
  <2> DEFINE z == [r EXCEPT !.pc = "open", !.pre = r.pre + r.arg, !.tok = r.tok + r.arg]
             w == [p EXCEPT !.key = @ + r.arg]
  <2>1. r.pc = "rsvToken" /\ Becomes(s, z)
    BY <1>2 DEF ReserveToken
  <2>2. z \in SessionType
    BY <1>0, <1>n, PutPc, PutNat, PlaceNames
  <2>3. CASE r.play
    <3>1. SessionInv(z, p, c) /\ NoWrite
      BY <1>0, <1>2, <2>1, <2>3, ReserveTokenInv DEF ReserveToken
    <3> HIDE DEF z
    <3> QED BY <2>1, <2>2, <3>1, QuietMove
  <2>4. CASE ~r.play
    <3>1. SessionInv(z, w, c)
      BY <1>0, <2>1, <2>4, ReserveTokenInv
    <3>2. AdjustTokenQuota(s, r.arg)
      BY <1>2, <2>4 DEF ReserveToken, ReserveTokenQuota
    <3>3. LedgerType' /\ record' = record /\ w \in PostedType /\ Posts(s, w)
      BY <1>n, <3>2, AdjustTokenQuotaPosts
    <3> HIDE DEF z, w
    <3> QED BY <2>1, <2>2, <3>1, <3>3, PostingMove
  <2> QED BY <2>3, <2>4
<1>3. CASE ReserveTokenFails(s)
  <2> DEFINE z == [r EXCEPT !.pc = "rsvRollback"]
  <2>1. r.pc = "rsvToken" /\ ~r.play /\ Becomes(s, z) /\ NoWrite
    BY <1>3 DEF ReserveTokenFails
  <2>2. z \in SessionType
    BY <1>0, <1>n, PutPc, PlaceNames
  <2>3. SessionInv(z, p, c)
    BY <1>0, <2>1, ReserveTokenInv
  <2> HIDE DEF z
  <2> QED BY <2>1, <2>2, <2>3, QuietMove
<1>4. CASE ReserveRollback(s)
  <2>1. r.pc = "rsvRollback"
    BY <1>4 DEF ReserveRollback
  <2>2. /\ r.extra - r.arg \in Nat
        /\ r.src = "wallet" => r.consumed - r.arg \in Nat
    BY <1>0, <1>n, <2>1 DEF SessionInv, ReservedInv, Reserved, Hold
  <2>3. ASSUME r.src = "wallet", AdjustUserQuota(s, 0 - r.arg),
               Becomes(s, [r EXCEPT !.pc = "open", !.extra = r.extra - r.arg,
                                    !.consumed = r.consumed - r.arg])
        PROVE  IndInv'
    <3> DEFINE z == [r EXCEPT !.pc = "open", !.extra = r.extra - r.arg,
                              !.consumed = r.consumed - r.arg]
               w == [p EXCEPT !.wallet = @ + (0 - r.arg)]
    <3>1. z \in SessionType
      BY <1>0, <2>2, <2>3, PutPc, PutNat, PlaceNames, Zenon
    <3>2. SessionInv(z, w, c)
      BY <1>0, <2>1, <2>3, ReserveRollbackInv, Zenon
    <3>3. LedgerType' /\ record' = record /\ w \in PostedType /\ Posts(s, w)
      BY <1>n, <2>3, AdjustUserQuotaPosts
    <3>4. Becomes(s, z)
      BY <2>3
    <3> HIDE DEF z, w
    <3> QED BY <3>1, <3>2, <3>3, <3>4, PostingMove
  <2>4. ASSUME r.src = "sub", PostConsumeSubscription(s, r.sub, 0 - r.arg), record' = record,
               Becomes(s, [r EXCEPT !.pc = "open", !.extra = r.extra - r.arg])
        PROVE  IndInv'
    <3> DEFINE z == [r EXCEPT !.pc = "open", !.extra = r.extra - r.arg]
               w == [p EXCEPT !.sub = @ + (0 - r.arg)]
    <3>1. z \in SessionType
      BY <1>0, <2>2, PutPc, PutNat, PlaceNames, Zenon
    <3>2. SessionInv(z, w, c)
      BY <1>0, <2>1, <2>4, ReserveRollbackInv, Zenon
    <3>3. LedgerType' /\ w \in PostedType /\ Posts(s, w)
      BY <1>n, <2>4, PostConsumePosts
    <3>4. Becomes(s, z)
      BY <2>4
    <3> HIDE DEF z, w
    <3> QED BY <2>4, <3>1, <3>2, <3>3, <3>4, PostingMove
  <2> QED BY <1>4, <2>3, <2>4 DEF ReserveRollback
<1>5. CASE ReserveRollbackFails(s)
  <2> DEFINE z == [r EXCEPT !.pc = "open", !.unres = r.unres + r.arg]
  <2>1. r.pc = "rsvRollback" /\ Becomes(s, z) /\ NoWrite
    BY <1>5 DEF ReserveRollbackFails
  <2>2. z \in SessionType
    BY <1>0, <1>n, PutPc, PutNat, PlaceNames, Zenon
  <2>3. SessionInv(z, p, c)
    BY <1>0, <2>1, ReserveRollbackInv, Zenon
  <2> HIDE DEF z
  <2> QED BY <2>1, <2>2, <2>3, QuietMove
<1> QED BY <1>1, <1>2, <1>3, <1>4, <1>5 DEF Reserve

LEMMA SettleKeeps ==
    ASSUME IndInv, NEW s \in Sessions, Settle(s)
    PROVE  IndInv'
<1> DEFINE r == sess[s]
           p == posted[s]
           c == record[s]
<1>0. r \in SessionType /\ p \in PostedType /\ SessionInv(r, p, c)
  BY Mine
<1>n. /\ r.arg \in Nat /\ r.pre \in Nat /\ r.tok \in Nat /\ r.unres \in Nat
      /\ r.play \in BOOLEAN /\ r.arg - r.tok \in Int
  BY <1>0 DEF SessionType
<1>1. ASSUME NEW a \in Amounts, SettleFunding(s, a) \/ SettleExceeds(s, a)
      PROVE  IndInv'
  <2> DEFINE d == a - (r.pre + r.unres)
             z == [r EXCEPT !.pc = "setToken", !.arg = a]
             o == [r EXCEPT !.pc = "overage", !.arg = a]
             w == [p EXCEPT !.wallet = @ + d]
             u == [p EXCEPT !.sub = @ + d]
  <2>1. r.pc = "open"
    BY <1>1 DEF SettleFunding, SettleExceeds
  <2>2. a \in Nat /\ d \in Int
    BY <1>n, ConstantsAssumption
  <2>3. z \in SessionType /\ o \in SessionType
    BY <1>0, <2>2, PutPc, PutNat, PlaceNames
  <2>4. /\ d = 0 => SessionInv(z, p, c)
        /\ r.src = "wallet" => SessionInv(z, w, c)
        /\ r.src = "sub" => SessionInv(z, u, c)
        /\ d > 0 /\ r.src = "sub" => SessionInv(o, p, c)
    BY <1>0, <2>1, <2>2, SettleFundingInv
  <2>5. \/ d = 0 /\ NoWrite /\ Becomes(s, z)
        \/ r.src = "wallet" /\ AdjustUserQuota(s, d) /\ Becomes(s, z)
        \/ /\ r.src = "sub" /\ PostConsumeSubscription(s, r.sub, d)
           /\ record' = record /\ Becomes(s, z)
        \/ d > 0 /\ r.src = "sub" /\ NoWrite /\ Becomes(s, o)
    BY <1>1 DEF SettleFunding, SettleExceeds, FundingDelta
  <2> HIDE DEF d, z, o
  <2>6. CASE d = 0 /\ NoWrite /\ Becomes(s, z)
    BY <2>3, <2>4, <2>6, QuietMove
  <2>7. CASE r.src = "wallet" /\ AdjustUserQuota(s, d) /\ Becomes(s, z)
    <3>1. LedgerType' /\ record' = record /\ w \in PostedType /\ Posts(s, w)
      BY <2>2, <2>7, AdjustUserQuotaPosts
    <3> HIDE DEF w
    <3> QED BY <2>3, <2>4, <2>7, <3>1, PostingMove
  <2>8. CASE /\ r.src = "sub" /\ PostConsumeSubscription(s, r.sub, d)
             /\ record' = record /\ Becomes(s, z)
    <3>1. LedgerType' /\ u \in PostedType /\ Posts(s, u)
      BY <2>2, <2>8, PostConsumePosts
    <3> HIDE DEF u
    <3> QED BY <2>3, <2>4, <2>8, <3>1, PostingMove
  <2>9. CASE d > 0 /\ r.src = "sub" /\ NoWrite /\ Becomes(s, o)
    BY <2>3, <2>4, <2>9, QuietMove
  <2> QED BY <2>5, <2>6, <2>7, <2>8, <2>9
<1>2. CASE SettleOverage(s)
  <2> DEFINE d == r.arg - (r.pre + r.unres)
             z == [r EXCEPT !.pc = "setToken", !.over = d]
             w == [p EXCEPT !.wallet = @ + d]
  <2>1. r.pc = "overage" /\ AdjustUserQuota(s, d) /\ Becomes(s, z)
    BY <1>2 DEF SettleOverage, FundingDelta
  <2>2. d \in Nat /\ d \in Int
    BY <1>0, <1>n, <2>1 DEF SessionInv, ReservedInv, Reserved
  <2>3. z \in SessionType
    BY <1>0, <2>2, PutPc, PutNat, PlaceNames
  <2>4. SessionInv(z, w, c)
    BY <1>0, <2>1, SettleOverageInv
  <2> HIDE DEF d, z
  <2>5. LedgerType' /\ record' = record /\ w \in PostedType /\ Posts(s, w)
    BY <2>1, <2>2, AdjustUserQuotaPosts
  <2> HIDE DEF w
  <2> QED BY <2>1, <2>3, <2>4, <2>5, PostingMove
<1>3. CASE SettleOverageFails(s)
  <2> DEFINE z == [r EXCEPT !.pc = "open"]
  <2>1. r.pc = "overage" /\ Becomes(s, z) /\ NoWrite
    BY <1>3 DEF SettleOverageFails
  <2>2. z \in SessionType
    BY <1>0, <1>n, PutPc, PlaceNames
  <2>3. SessionInv(z, p, c)
    BY <1>0, <2>1, SettleOverageInv
  <2> HIDE DEF z
  <2> QED BY <2>1, <2>2, <2>3, QuietMove
<1>4. CASE SettleToken(s)
  <2> DEFINE z == [r EXCEPT !.pc = "settled", !.unres = 0]
             w == [p EXCEPT !.key = @ + (r.arg - r.tok)]
  <2>1. r.pc = "setToken" /\ Becomes(s, z)
    BY <1>4 DEF SettleToken
  <2>2. z \in SessionType
    BY <1>0, <1>n, PutPc, PutNat, PlaceNames
  <2>3. CASE r.play \/ r.arg = r.tok
    <3>1. SessionInv(z, p, c) /\ NoWrite
      BY <1>0, <1>4, <2>1, <2>3, SettleTokenInv DEF SettleToken
    <3> HIDE DEF z
    <3> QED BY <2>1, <2>2, <3>1, QuietMove
  <2>4. CASE ~(r.play \/ r.arg = r.tok)
    <3>1. SessionInv(z, w, c)
      BY <1>0, <2>1, <2>4, SettleTokenInv
    <3>2. AdjustTokenQuota(s, r.arg - r.tok)
      BY <1>4, <2>4 DEF SettleToken
    <3>3. LedgerType' /\ record' = record /\ w \in PostedType /\ Posts(s, w)
      BY <1>n, <3>2, AdjustTokenQuotaPosts
    <3> HIDE DEF z, w
    <3> QED BY <2>1, <2>2, <3>1, <3>3, PostingMove
  <2> QED BY <2>3, <2>4
<1>5. CASE SettleTokenFails(s)
  <2> DEFINE z == [r EXCEPT !.pc = "settled", !.unres = 0, !.tokErr = TRUE]
  <2>1. r.pc = "setToken" /\ Becomes(s, z) /\ NoWrite
    BY <1>5 DEF SettleTokenFails
  <2>2. z \in SessionType
    BY <1>0, <1>n, PutPc, PutNat, PutFlag, PlaceNames
  <2>3. SessionInv(z, p, c)
    BY <1>0, <2>1, SettleTokenInv
  <2> HIDE DEF z
  <2> QED BY <2>1, <2>2, <2>3, QuietMove
<1> QED BY <1>1, <1>2, <1>3, <1>4, <1>5 DEF Settle

(* The refund transaction of a subscription, whether or not its answer arrives. *)
LEMMA RefundTransactionPosts ==
    ASSUME IndInv, NEW s \in Sessions, NEW k, NEW n \in Nat,
           RefundSubscriptionPreConsume(s, k, n)
    PROVE  \/ record[s] = "refunded" /\ NoWrite
           \/ /\ record[s] = "consumed"
              /\ LedgerType'
              /\ [posted[s] EXCEPT !.sub = @ + (0 - n)] \in PostedType
              /\ Posts(s, [posted[s] EXCEPT !.sub = @ + (0 - n)])
              /\ record' = [record EXCEPT ![s] = "refunded"]
<1>1. 0 - n \in Int
  OBVIOUS
<1> QED BY <1>1, PostConsumePosts DEF RefundSubscriptionPreConsume

LEMMA RefundKeeps ==
    ASSUME IndInv, NEW s \in Sessions, RefundStep(s)
    PROVE  IndInv'
<1> DEFINE r == sess[s]
           p == posted[s]
           c == record[s]
<1>0. r \in SessionType /\ p \in PostedType /\ SessionInv(r, p, c)
  BY Mine
<1>n. /\ r.tok \in Nat /\ r.extra \in Nat /\ r.consumed \in Nat /\ r.subPre \in Nat
      /\ r.tries \in 0..2 /\ r.fref \in BOOLEAN
      /\ 0 - r.tok \in Int /\ 0 - r.extra \in Int /\ 0 - r.consumed \in Int
  BY <1>0 DEF SessionType
<1>r. "refunded" \in RecordStatus /\ 0 \in 0..2
  BY DEF RecordStatus
<1>1. CASE Refund(s)
  <2> DEFINE z == [r EXCEPT !.pc = "refund"]
  <2>1. r.pc \in {"open", "partRefund"} /\ Becomes(s, z) /\ NoWrite
    BY <1>1 DEF Refund
  <2>2. z \in SessionType
    BY <1>0, PutPc, PlaceNames
  <2>3. SessionInv(z, p, c)
    BY <1>0, <2>1, RefundStartInv
  <2> HIDE DEF z
  <2> QED BY <2>1, <2>2, <2>3, QuietMove
<1>2. CASE RefundWalletLeg(s)
  <2> DEFINE z == [r EXCEPT !.fref = TRUE]
             w == [p EXCEPT !.wallet = @ + (0 - r.consumed)]
  <2>1. /\ r.pc = "refund" /\ ~r.fref /\ r.src = "wallet"
        /\ AdjustUserQuota(s, 0 - r.consumed) /\ Becomes(s, z)
    BY <1>2 DEF RefundWalletLeg
  <2>2. z \in SessionType
    BY <1>0, PutFlag
  <2>3. SessionInv(z, w, c)
    BY <1>0, <2>1, RefundWalletInv
  <2>4. LedgerType' /\ record' = record /\ w \in PostedType /\ Posts(s, w)
    BY <1>n, <2>1, AdjustUserQuotaPosts
  <2> HIDE DEF z, w
  <2> QED BY <2>1, <2>2, <2>3, <2>4, PostingMove
<1>3. CASE RefundSubscriptionLeg(s)
  <2> DEFINE z == [r EXCEPT !.fref = TRUE, !.tries = 0]
             w == [p EXCEPT !.sub = @ + (0 - r.subPre)]
  <2>1. /\ r.pc = "refund" /\ ~r.fref /\ r.src = "sub" /\ Becomes(s, z)
        /\ RefundSubscriptionPreConsume(s, r.sub, r.subPre)
    BY <1>3 DEF RefundSubscriptionLeg
  <2>2. z \in SessionType
    BY <1>0, <1>r, PutFlag, PutIndex
  <2>3. /\ c = "refunded" => SessionInv(z, p, c)
        /\ c = "consumed" => SessionInv(z, w, "refunded")
    BY <1>0, <2>1, RefundSubscriptionInv
  <2>4. \/ c = "refunded" /\ NoWrite
        \/ /\ c = "consumed" /\ LedgerType' /\ w \in PostedType /\ Posts(s, w)
           /\ record' = [record EXCEPT ![s] = "refunded"]
    BY <1>n, <2>1, RefundTransactionPosts
  <2> HIDE DEF z, w
  <2>5. CASE c = "refunded" /\ NoWrite
    BY <2>1, <2>2, <2>3, <2>5, QuietMove
  <2>6. CASE /\ c = "consumed" /\ LedgerType' /\ w \in PostedType /\ Posts(s, w)
             /\ record' = [record EXCEPT ![s] = "refunded"]
    BY <1>r, <2>1, <2>2, <2>3, <2>6, SessionMoves
  <2> QED BY <2>4, <2>5, <2>6
<1>4. CASE RefundSubscriptionRetry(s)
  <2> DEFINE z == IF r.tries = 2 THEN [r EXCEPT !.tries = 0, !.pc = "partRefund"]
                  ELSE [r EXCEPT !.tries = r.tries + 1]
             w == [p EXCEPT !.sub = @ + (0 - r.subPre)]
  <2>1. /\ r.pc = "refund" /\ ~r.fref /\ r.src = "sub" /\ Becomes(s, z)
        /\ NoWrite \/ RefundSubscriptionPreConsume(s, r.sub, r.subPre)
    BY <1>4 DEF RefundSubscriptionRetry
  <2>2. r.tries # 2 => r.tries + 1 \in 0..2
    BY <1>n
  <2>3. z \in SessionType
    BY <1>0, <1>r, <2>2, PutPc, PutIndex, PlaceNames
  <2>4. SessionInv(z, p, c) /\ (c = "consumed" => SessionInv(z, w, "refunded"))
    <3>1. CASE r.tries = 2
      BY <1>0, <1>n, <2>1, <3>1, RefundRetryInv
    <3>2. CASE r.tries # 2
      BY <1>0, <2>1, <2>2, <3>2, RefundRetryInv
    <3> QED BY <3>1, <3>2
  <2>5. \/ NoWrite
        \/ /\ c = "consumed" /\ LedgerType' /\ w \in PostedType /\ Posts(s, w)
           /\ record' = [record EXCEPT ![s] = "refunded"]
    BY <1>n, <2>1, RefundTransactionPosts
  <2> HIDE DEF z, w
  <2>6. CASE NoWrite
    BY <2>1, <2>3, <2>4, <2>6, QuietMove
  <2>7. CASE /\ c = "consumed" /\ LedgerType' /\ w \in PostedType /\ Posts(s, w)
             /\ record' = [record EXCEPT ![s] = "refunded"]
    BY <1>r, <2>1, <2>3, <2>4, <2>7, SessionMoves
  <2> QED BY <2>5, <2>6, <2>7
<1>5. CASE RefundExtraLeg(s)
  <2> DEFINE z == [r EXCEPT !.eref = TRUE]
             w == [p EXCEPT !.sub = @ + (0 - r.extra)]
  <2>1. /\ r.pc = "refund" /\ r.fref /\ ExtraPending(r) /\ Becomes(s, z)
        /\ PostConsumeSubscription(s, r.sub, 0 - r.extra) /\ record' = record
    BY <1>5 DEF RefundExtraLeg
  <2>2. z \in SessionType
    BY <1>0, PutFlag
  <2>3. SessionInv(z, w, c)
    BY <1>0, <2>1, RefundExtraInv
  <2>4. LedgerType' /\ w \in PostedType /\ Posts(s, w)
    BY <1>n, <2>1, PostConsumePosts
  <2> HIDE DEF z, w
  <2> QED BY <2>1, <2>2, <2>3, <2>4, PostingMove
<1>6. CASE RefundTokenLeg(s)
  <2> DEFINE z == [r EXCEPT !.tref = TRUE]
             w == [p EXCEPT !.key = @ + (0 - r.tok)]
  <2>1. /\ r.pc = "refund" /\ r.fref /\ ~ExtraPending(r) /\ TokenPending(r)
        /\ AdjustTokenQuota(s, 0 - r.tok) /\ Becomes(s, z)
    BY <1>6 DEF RefundTokenLeg
  <2>2. z \in SessionType
    BY <1>0, PutFlag
  <2>3. SessionInv(z, w, c)
    BY <1>0, <2>1, RefundTokenInv
  <2>4. LedgerType' /\ record' = record /\ w \in PostedType /\ Posts(s, w)
    BY <1>n, <2>1, AdjustTokenQuotaPosts
  <2> HIDE DEF z, w
  <2> QED BY <2>1, <2>2, <2>3, <2>4, PostingMove
<1>7. CASE RefundLegFails(s)
  <2> DEFINE z == [r EXCEPT !.pc = "partRefund"]
  <2>1. r.pc = "refund" /\ Becomes(s, z) /\ NoWrite
    BY <1>7 DEF RefundLegFails
  <2>2. z \in SessionType
    BY <1>0, PutPc, PlaceNames
  <2>3. SessionInv(z, p, c)
    BY <1>0, <2>1, RefundStopInv
  <2> HIDE DEF z
  <2> QED BY <2>1, <2>2, <2>3, QuietMove
<1>8. CASE RefundDone(s)
  <2> DEFINE z == [r EXCEPT !.pc = "refunded", !.unres = 0]
  <2>1. /\ r.pc = "refund" /\ r.fref /\ ~ExtraPending(r) /\ ~TokenPending(r)
        /\ Becomes(s, z) /\ NoWrite
    BY <1>8 DEF RefundDone
  <2>2. z \in SessionType
    BY <1>0, PutPc, PutNat, PlaceNames
  <2>3. SessionInv(z, p, c)
    BY <1>0, <2>1, RefundStopInv
  <2> HIDE DEF z
  <2> QED BY <2>1, <2>2, <2>3, QuietMove
<1> QED BY <1>1, <1>2, <1>3, <1>4, <1>5, <1>6, <1>7, <1>8 DEF RefundStep

-----------------------------------------------------------------------------
(* The theorems *)

LEMMA InitEstablishes == Init => IndInv
<1> SUFFICES ASSUME Init PROVE IndInv
  OBVIOUS
<1>1. NewSession \in SessionType
  BY ConstantsAssumption DEF NewSession, SessionType, Places, Rest
<1>2. TypeOK
  BY <1>1, ConstantsAssumption DEF Init, TypeOK, PostedType, RecordStatus
<1>3. SessionInv(NewSession, [wallet |-> 0, sub |-> 0, key |-> 0], "none")
  BY DEF NewSession, SessionInv, StartingInv, Starting, Reserved, Refunding, Charged,
         WalletBook, SubBook, KeyBook, Unacknowledged, FinancialHold, TokenHold,
         TokenPending
<1> QED BY <1>2, <1>3 DEF IndInv, Init

LEMMA NextKeeps == IndInv /\ [Next]_vars => IndInv'
<1> SUFFICES ASSUME IndInv, [Next]_vars PROVE IndInv'
  OBVIOUS
<1>1. ASSUME NEW s \in Sessions, Begin(s) PROVE IndInv'
  BY <1>1, BeginKeeps
<1>2. ASSUME NEW s \in Sessions, PreConsume(s) PROVE IndInv'
  BY <1>2, PreConsumeKeeps
<1>3. ASSUME NEW s \in Sessions, Reserve(s) PROVE IndInv'
  BY <1>3, ReserveKeeps
<1>4. ASSUME NEW s \in Sessions, Settle(s) PROVE IndInv'
  BY <1>4, SettleKeeps
<1>5. ASSUME NEW s \in Sessions, RefundStep(s) PROVE IndInv'
  BY <1>5, RefundKeeps
<1>6. ASSUME NEW k \in Subs, PeriodEnds(k) \/ ResetDueSubscription(k) \/ SubscriptionEnds(k)
      PROVE  IndInv'
  <2>1. sess' = sess /\ posted' = posted /\ record' = record
    BY <1>6 DEF PeriodEnds, ResetDueSubscription, SubscriptionEnds
  <2>2. TypeOK'
    <3>1. CASE PeriodEnds(k)
      <4>1. periods' \in 0..MaxPeriods
        BY <3>1, ConstantsAssumption DEF IndInv, TypeOK, PeriodEnds
      <4> QED BY <3>1, <4>1 DEF IndInv, TypeOK, PeriodEnds
    <3>2. CASE ResetDueSubscription(k)
      BY <3>2 DEF IndInv, TypeOK, ResetDueSubscription
    <3>3. CASE SubscriptionEnds(k)
      BY <3>3 DEF IndInv, TypeOK, SubscriptionEnds
    <3> QED BY <1>6, <3>1, <3>2, <3>3
  <2> QED BY <2>1, <2>2 DEF IndInv
<1>7. CASE UNCHANGED vars
  BY <1>7 DEF vars, IndInv, TypeOK
<1> QED BY <1>1, <1>2, <1>3, <1>4, <1>5, <1>6, <1>7 DEF Next

(* The inductive invariant holds in every reachable state. *)
THEOREM Inductive == Spec => []IndInv
BY InitEstablishes, NextKeeps, PTL DEF Spec

(* Types: no ledger, hold or counter of a session leaves its range; the holds
   preConsumedQuota, tokenConsumed, extraReserved and consumed are never
   negative, whatever is rolled back. *)
THEOREM TypeCorrect == Spec => []TypeOK
<1>1. IndInv => TypeOK
  BY DEF IndInv
<1> QED BY <1>1, Inductive, PTL

(* The books of every session match what its legs took from the ledgers
   (Settle, Refund, Reserve, preConsume and RemainingHolds together). *)
THEOREM BooksCorrect == Spec => []BooksMatchLedger
<1>1. IndInv => BooksMatchLedger
  BY DEF IndInv, SessionInv, BooksMatchLedger
<1> QED BY <1>1, Inductive, PTL

-----------------------------------------------------------------------------
(* What a step may touch: only its own session, and only before that session
   is finished. *)

Alone(s) ==
    /\ sess[s].pc \notin Final
    /\ \A t \in Sessions : t # s => sess'[t] = sess[t] /\ posted'[t] = posted[t]

LEMMA AloneByWrites ==
    ASSUME TypeOK, NEW s \in Sessions, sess[s].pc \notin Final,
           NEW z, Becomes(s, z),
           \/ NoWrite
           \/ \E n : AdjustUserQuota(s, n)
           \/ \E n : AdjustTokenQuota(s, n)
           \/ \E k, n : PostConsumeSubscription(s, k, n)
           \/ \E k, n : PreConsumeSubscription(s, k, n)
    PROVE  Alone(s)
<1>1. \A t \in Sessions : t # s => sess'[t] = sess[t]
  BY DEF Becomes, TypeOK
<1>2. \A t \in Sessions : t # s => posted'[t] = posted[t]
  BY DEF TypeOK, NoWrite, AdjustUserQuota, AdjustTokenQuota, PostConsumeSubscription,
         PreConsumeSubscription
<1> QED BY <1>1, <1>2 DEF Alone

LEMMA StepsAlone ==
    ASSUME TypeOK, NEW s \in Sessions,
           Begin(s) \/ PreConsume(s) \/ Reserve(s) \/ Settle(s) \/ RefundStep(s)
    PROVE  Alone(s)
<1>1. CASE Begin(s)
  BY ZenonT(60), <1>1, AloneByWrites DEF Begin, NewBillingSession, SettleWithoutSession, Final
<1>2. CASE PreConsume(s)
  BY ZenonT(60), <1>2, AloneByWrites DEF PreConsume, CheckWallet, CheckFails, PreConsumeToken,
     PreConsumeTokenFails, PreConsumeFunding, PreConsumeFundingFails, PreConsumeRollback,
     PreConsumeRollbackFails, ReserveTokenQuota, ReserveUserQuota, Final
<1>3. CASE Reserve(s)
  BY ZenonT(60), <1>3, AloneByWrites DEF Reserve, ReserveFunding, ReserveToken, ReserveTokenFails,
     ReserveRollback, ReserveRollbackFails, ReserveTokenQuota, ReserveUserQuota, Final
<1>4. CASE Settle(s)
  BY ZenonT(60), <1>4, AloneByWrites DEF Settle, SettleFunding, SettleExceeds, SettleOverage,
     SettleOverageFails, SettleToken, SettleTokenFails, Final
<1>5. CASE RefundStep(s)
  BY ZenonT(60), <1>5, AloneByWrites DEF RefundStep, Refund, RefundWalletLeg, RefundSubscriptionLeg,
     RefundSubscriptionRetry, RefundExtraLeg, RefundTokenLeg, RefundLegFails, RefundDone,
     RefundSubscriptionPreConsume, Final
<1> QED BY <1>1, <1>2, <1>3, <1>4, <1>5

(* A settled, refunded or refused request is never charged or refunded again,
   by its own late calls (Settle, Refund, Reserve) or by those of another. *)
THEOREM FinishedStaysFinished == Spec => FinishedIsFinal
<1> DEFINE Untouched == \A s \in Sessions :
        sess[s].pc \in Final => posted'[s] = posted[s] /\ sess'[s] = sess[s]
<1>1. TypeOK /\ [Next]_vars => [Untouched]_vars
  <2> SUFFICES ASSUME TypeOK, Next PROVE Untouched
    OBVIOUS
  <2>1. ASSUME NEW s \in Sessions,
               Begin(s) \/ PreConsume(s) \/ Reserve(s) \/ Settle(s) \/ RefundStep(s)
        PROVE  Untouched
    <3>1. Alone(s)
      BY <2>1, StepsAlone
    <3> QED BY <3>1 DEF Alone
  <2>2. ASSUME NEW k \in Subs,
               PeriodEnds(k) \/ ResetDueSubscription(k) \/ SubscriptionEnds(k)
        PROVE  Untouched
    BY <2>2 DEF PeriodEnds, ResetDueSubscription, SubscriptionEnds
  <2> QED BY <2>1, <2>2 DEF Next
<1> QED BY <1>1, TypeCorrect, PTL DEF Spec, FinishedIsFinal

-----------------------------------------------------------------------------
(* The counter of a subscription *)

(* The counter of a limited subscription stays within its total: every write
   checks the value it stores.  That it is also what the requests account for
   is the work of LedgerInv below. *)
SubscriptionWithinTotal ==
    \A k \in Subs : SubTotal[k] > 0 => subUsed[k] <= SubTotal[k]

LEMMA PostConsumeWithin ==
    ASSUME TypeOK, SubscriptionWithinTotal, NEW s, NEW k, NEW d \in Int,
           PostConsumeSubscription(s, k, d)
    PROVE  SubscriptionWithinTotal'
BY ConstantsAssumption DEF TypeOK, SubscriptionWithinTotal, PostConsumeSubscription,
   SubscriptionCovers

LEMMA PreConsumeWithin ==
    ASSUME TypeOK, SubscriptionWithinTotal, NEW s, NEW k \in Subs, NEW n \in Nat,
           PreConsumeSubscription(s, k, n)
    PROVE  SubscriptionWithinTotal'
<1> SUFFICES ASSUME NEW j \in Subs, SubTotal[j] > 0 PROVE subUsed'[j] <= SubTotal[j]
  BY DEF SubscriptionWithinTotal
<1>1. CASE j = k
  BY <1>1, ConstantsAssumption DEF TypeOK, PreConsumeSubscription, HasRoom, UsedAfterReset
<1>2. CASE j # k
  BY <1>2, ConstantsAssumption DEF TypeOK, SubscriptionWithinTotal, PreConsumeSubscription,
     UsedAfterReset
<1> QED BY <1>1, <1>2

LEMMA SameUsage ==
    ASSUME SubscriptionWithinTotal,
           \/ NoWrite
           \/ \E s, n : AdjustUserQuota(s, n)
           \/ \E s, n : AdjustTokenQuota(s, n)
    PROVE  SubscriptionWithinTotal'
BY DEF NoWrite, AdjustUserQuota, AdjustTokenQuota, ledgers, subVars, SubscriptionWithinTotal

LEMMA StepWithin ==
    ASSUME TypeOK, SubscriptionWithinTotal, NEW s \in Sessions,
           Begin(s) \/ PreConsume(s) \/ Reserve(s) \/ Settle(s) \/ RefundStep(s)
    PROVE  SubscriptionWithinTotal'
<1>0. sess[s] \in SessionType
  BY DEF TypeOK
<1>n. /\ sess[s].arg \in Nat /\ 0 - sess[s].arg \in Int
      /\ 0 - sess[s].subPre \in Int /\ 0 - sess[s].extra \in Int
      /\ sess[s].pre \in Nat /\ sess[s].unres \in Nat
  BY <1>0 DEF SessionType
<1>a. \A a \in Amounts : /\ a - sess[s].pre \in Int
                         /\ a - (sess[s].pre + sess[s].unres) \in Int
  <2> TAKE a \in Amounts
  <2>1. a \in Nat
    BY ConstantsAssumption
  <2> QED BY <1>n, <2>1
<1>1. CASE Begin(s)
  BY ZenonT(60), <1>1, SameUsage DEF Begin, NewBillingSession, SettleWithoutSession
<1>2. CASE PreConsume(s)
  BY ZenonT(60), <1>2, <1>n, SameUsage, PreConsumeWithin DEF PreConsume, CheckWallet, CheckFails,
     PreConsumeToken, PreConsumeTokenFails, PreConsumeFunding, PreConsumeFundingFails,
     PreConsumeRollback, PreConsumeRollbackFails, ReserveTokenQuota, ReserveUserQuota
<1>3. CASE Reserve(s)
  BY ZenonT(60), <1>3, <1>n, <1>a, SameUsage, PostConsumeWithin DEF Reserve, ReserveFunding,
     ReserveToken, ReserveTokenFails, ReserveRollback, ReserveRollbackFails,
     ReserveTokenQuota, ReserveUserQuota
<1>4. CASE Settle(s)
  BY ZenonT(60), <1>4, <1>n, <1>a, SameUsage, PostConsumeWithin DEF Settle, SettleFunding,
     SettleExceeds, SettleOverage, SettleOverageFails, SettleToken, SettleTokenFails,
     FundingDelta
<1>5. CASE RefundStep(s)
  BY ZenonT(60), <1>5, <1>n, SameUsage, PostConsumeWithin DEF RefundStep, Refund, RefundWalletLeg,
     RefundSubscriptionLeg, RefundSubscriptionRetry, RefundExtraLeg, RefundTokenLeg,
     RefundLegFails, RefundDone, RefundSubscriptionPreConsume
<1> QED BY <1>1, <1>2, <1>3, <1>4, <1>5

LEMMA CounterWithin == Spec => []SubscriptionWithinTotal
<1>1. Init => SubscriptionWithinTotal
  BY ConstantsAssumption DEF Init, SubscriptionWithinTotal
<1>2. TypeOK /\ SubscriptionWithinTotal /\ [Next]_vars => SubscriptionWithinTotal'
  <2> SUFFICES ASSUME TypeOK, SubscriptionWithinTotal, [Next]_vars
               PROVE  SubscriptionWithinTotal'
    OBVIOUS
  <2>1. ASSUME NEW k \in Subs,
               PeriodEnds(k) \/ ResetDueSubscription(k) \/ SubscriptionEnds(k)
        PROVE  SubscriptionWithinTotal'
    BY <2>1, ConstantsAssumption DEF TypeOK, SubscriptionWithinTotal, PeriodEnds,
       ResetDueSubscription, SubscriptionEnds
  <2>2. CASE UNCHANGED vars
    BY <2>2 DEF vars, SubscriptionWithinTotal
  <2> QED BY <2>1, <2>2, StepWithin DEF Next
<1> QED BY <1>1, <1>2, TypeCorrect, PTL DEF Spec

-----------------------------------------------------------------------------
(* The contract.                                                            *)


Funds(p) == p.wallet + p.sub
BillOf(r) == IF Charged(r) THEN r.arg ELSE 0

IdlePlaces == {"new", "checkWallet", "preToken", "preFunding", "preRollback"}
HeldPlaces == {"open", "rsvToken", "rsvRollback", "overage"}

(* The phase of a session, place by place. *)
LEMMA PhaseIs ==
    ASSUME NEW r
    PROVE  /\ r.pc \in IdlePlaces => PhaseOf(r) = "idle"
           /\ r.pc \in {"rejected", "keyHeld"} => PhaseOf(r) = "refused"
           /\ r.pc \in HeldPlaces => PhaseOf(r) = "held"
           /\ r.pc \in {"setToken", "settled"} => PhaseOf(r) = "charged"
           /\ r.pc \in {"refund", "partRefund"} => PhaseOf(r) = "returning"
           /\ r.pc = "refunded" => PhaseOf(r) = "returned"
<1>1. r.pc \in IdlePlaces => PhaseOf(r) = "idle"
  BY DEF PhaseOf, IdlePlaces
<1>2. r.pc \in {"rejected", "keyHeld"} => PhaseOf(r) = "refused"
  BY DEF PhaseOf
<1>3. r.pc \in HeldPlaces => PhaseOf(r) = "held"
  BY DEF PhaseOf, HeldPlaces
<1>4. r.pc \in {"setToken", "settled"} => PhaseOf(r) = "charged"
  BY DEF PhaseOf
<1>5. r.pc \in {"refund", "partRefund"} => PhaseOf(r) = "returning"
  BY DEF PhaseOf
<1>6. r.pc = "refunded" => PhaseOf(r) = "returned"
  BY DEF PhaseOf
<1> QED BY <1>1, <1>2, <1>3, <1>4, <1>5, <1>6

(* The funds and the bill of a session, phase by phase. *)
LEMMA FundsIn ==
    ASSUME NEW r \in SessionType, NEW p, NEW c, SessionInv(r, p, c)
    PROVE  /\ r.pc \in IdlePlaces \cup {"rejected", "keyHeld"} => Funds(p) = 0 /\ BillOf(r) = 0
           /\ r.pc \in HeldPlaces => Funds(p) \in Nat /\ BillOf(r) = 0
           /\ r.pc \in {"setToken", "settled"} => Funds(p) = BillOf(r) /\ BillOf(r) = r.arg
           /\ r.pc \in {"refund", "partRefund"} => Funds(p) \in Nat /\ BillOf(r) = 0
           /\ r.pc = "refunded" => Funds(p) = 0 /\ BillOf(r) = 0
<1> USE DEF Funds, BillOf, SessionType, SessionInv, Starting, Refunding, Charged,
         WalletBook, SubBook, Unacknowledged, FinancialHold
<1>1. r.pc \in IdlePlaces \cup {"rejected", "keyHeld"} => Funds(p) = 0 /\ BillOf(r) = 0
  BY DEF IdlePlaces, StartingInv
<1>2. r.pc \in HeldPlaces => Funds(p) \in Nat /\ BillOf(r) = 0
  BY DEF HeldPlaces, Reserved, ReservedInv, SourceInv
<1>3. r.pc \in {"setToken", "settled"} => Funds(p) = BillOf(r) /\ BillOf(r) = r.arg
  BY DEF ChargedInv, SourceInv
<1>4. r.pc \in {"refund", "partRefund"} => Funds(p) \in Nat /\ BillOf(r) = 0
  BY DEF SourceInv, RefundingInv
<1>5. r.pc = "refunded" => Funds(p) = 0 /\ BillOf(r) = 0
  BY DEF SourceInv, RefundingInv, ExtraPending
<1> QED BY <1>1, <1>2, <1>3, <1>4, <1>5

-----------------------------------------------------------------------------
(* Which place follows which *)

LEMMA NextPlace ==
    ASSUME TypeOK, NEW s \in Sessions, NEW z, Becomes(s, z)
    PROVE  sess'[s] = z
BY DEF TypeOK, Becomes

LEMMA TryPlace ==
    ASSUME NEW r \in SessionType, NEW src, NEW alt
    PROVE  Try(r, src, alt).pc \in {"checkWallet", "preToken"}
BY DEF Try, SessionType

LEMMA NextSourcePlace ==
    ASSUME NEW r \in SessionType
    PROVE  NextSource(r).pc \in {"checkWallet", "preToken", "rejected"}
<1>1. CASE r.alt = "none"
  BY <1>1 DEF NextSource, SessionType
<1>2. CASE r.alt # "none"
  BY <1>2, TryPlace DEF NextSource
<1> QED BY <1>1, <1>2

(* One step of a session, reduced to the places it leaves and enters and to the
   funds it has taken before and after. *)
LedgerStep(r, z, f, g) ==
    \/ r.pc \in IdlePlaces /\ z.pc \in IdlePlaces \cup {"rejected", "keyHeld"}
    \/ r.pc \in IdlePlaces \cup HeldPlaces /\ z.pc \in HeldPlaces \cup {"setToken"}
    \/ r.pc = "setToken" /\ z.pc = "settled" /\ z.arg = r.arg
    \/ r.pc \in HeldPlaces \cup {"refund", "partRefund"} /\ z.pc \in {"refund", "partRefund"} /\ g <= f
    \/ r.pc = "refund" /\ z.pc = "refunded" /\ g = f

LEMMA BeginPlaces ==
    ASSUME TypeOK, NEW s \in Sessions, Begin(s)
    PROVE  sess[s].pc = "new" /\ sess'[s].pc \in {"checkWallet", "preToken", "setToken"}
<1>0. sess[s] \in SessionType
  BY DEF TypeOK
<1>1. ASSUME NEW pref, NEW n \in Amounts, NEW play \in PlaygroundModes,
             NewBillingSession(s, pref, n, play)
      PROVE  sess[s].pc = "new" /\ sess'[s].pc \in {"checkWallet", "preToken"}
  <2> DEFINE r == [sess[s] EXCEPT !.q = n, !.play = play,
                                  !.trusted = KeyUnlimited \/ key > TrustQuota]
  <2>1. r \in SessionType
    BY <1>0, PutNat, PutFlag, ConstantsAssumption
  <2>2. sess'[s] = Try(r, FirstSource(pref), Fallback(pref))
    BY <1>1, NextPlace DEF NewBillingSession
  <2> HIDE DEF r
  <2> QED BY <1>1, <2>1, <2>2, TryPlace DEF NewBillingSession
<1>2. ASSUME NEW a \in Amounts, NEW play \in PlaygroundModes, SettleWithoutSession(s, a, play)
      PROVE  sess[s].pc = "new" /\ sess'[s].pc = "setToken"
  BY ZenonT(60), <1>0, <1>2, NextPlace DEF SettleWithoutSession, SessionType
<1> QED BY <1>1, <1>2 DEF Begin

LEMMA PreConsumePlaces ==
    ASSUME TypeOK, NEW s \in Sessions, PreConsume(s)
    PROVE  /\ sess[s].pc \in IdlePlaces
           /\ sess'[s].pc \in IdlePlaces \cup {"rejected", "keyHeld", "open"}
<1>0. sess[s] \in SessionType
  BY DEF TypeOK
<1>a. /\ NextSource(sess[s]).pc \in {"checkWallet", "preToken", "rejected"}
      /\ NextSource([sess[s] EXCEPT !.alt = "none"]).pc \in {"checkWallet", "preToken", "rejected"}
      /\ NextSource([sess[s] EXCEPT !.tok = 0]).pc \in {"checkWallet", "preToken", "rejected"}
  BY <1>0, NextSourcePlace, PutSource, PutNat
<1> USE DEF IdlePlaces
<1>1. CASE CheckWallet(s)
  <2>1. \/ Becomes(s, NextSource(sess[s]))
        \/ \E b, n : Becomes(s, [sess[s] EXCEPT !.trusted = b, !.arg = n,
                                              !.pc = IF n = 0 THEN "open" ELSE "preToken"])
    BY <1>1, Zenon DEF CheckWallet
  <2>2. CASE Becomes(s, NextSource(sess[s]))
    BY <1>1, <1>a, <2>2, NextPlace DEF CheckWallet
  <2>3. ASSUME NEW b, NEW n,
               Becomes(s, [sess[s] EXCEPT !.trusted = b, !.arg = n,
                                          !.pc = IF n = 0 THEN "open" ELSE "preToken"])
        PROVE  sess'[s].pc \in {"open", "preToken"}
    <3>1. sess'[s] = [sess[s] EXCEPT !.trusted = b, !.arg = n,
                                     !.pc = IF n = 0 THEN "open" ELSE "preToken"]
      BY <2>3, NextPlace
    <3> QED BY <1>0, <3>1 DEF SessionType
  <2> QED BY <1>1, <2>1, <2>2, <2>3 DEF CheckWallet
<1>2. CASE CheckFails(s)
  BY <1>0, <1>2, NextPlace DEF CheckFails, SessionType
<1>3. CASE PreConsumeToken(s)
  BY <1>0, <1>3, NextPlace DEF PreConsumeToken, SessionType
<1>4. CASE PreConsumeTokenFails(s)
  BY <1>0, <1>4, NextPlace DEF PreConsumeTokenFails, SessionType
<1>5. CASE PreConsumeFunding(s)
  <2>1. \/ Becomes(s, [sess[s] EXCEPT !.pc = "open", !.pre = sess[s].arg,
                                     !.consumed = sess[s].arg])
        \/ \E k : Becomes(s, [sess[s] EXCEPT !.pc = "open", !.pre = sess[s].arg,
                                     !.subPre = sess[s].arg, !.sub = k, !.trusted = FALSE])
    BY <1>5, Zenon DEF PreConsumeFunding
  <2>2. sess'[s].pc = "open"
    BY ZenonT(60), <1>0, <2>1, NextPlace DEF SessionType
  <2> QED BY <1>5, <2>2 DEF PreConsumeFunding
<1>6. ASSUME NEW b \in BOOLEAN, PreConsumeFundingFails(s, b)
      PROVE  sess[s].pc \in IdlePlaces /\ sess'[s].pc \in IdlePlaces \cup {"rejected"}
  BY <1>0, <1>6, <1>a, NextPlace DEF PreConsumeFundingFails, SessionType
<1>7. CASE PreConsumeRollback(s)
  BY <1>0, <1>7, <1>a, NextPlace DEF PreConsumeRollback, SessionType
<1>8. CASE PreConsumeRollbackFails(s)
  BY <1>0, <1>8, NextPlace DEF PreConsumeRollbackFails, SessionType
<1> QED BY <1>1, <1>2, <1>3, <1>4, <1>5, <1>6, <1>7, <1>8 DEF PreConsume

LEMMA ReservePlaces ==
    ASSUME TypeOK, NEW s \in Sessions, Reserve(s)
    PROVE  sess[s].pc \in HeldPlaces /\ sess'[s].pc \in HeldPlaces
<1>0. sess[s] \in SessionType
  BY DEF TypeOK
<1> USE DEF HeldPlaces
<1>1. ASSUME NEW target \in Amounts, ReserveFunding(s, target)
      PROVE  sess[s].pc \in HeldPlaces /\ sess'[s].pc \in HeldPlaces
  BY ZenonT(60), <1>0, <1>1, NextPlace DEF ReserveFunding, SessionType
<1>2. CASE ReserveToken(s)
  BY ZenonT(60), <1>0, <1>2, NextPlace DEF ReserveToken, SessionType
<1>3. CASE ReserveTokenFails(s)
  BY <1>0, <1>3, NextPlace DEF ReserveTokenFails, SessionType
<1>4. CASE ReserveRollback(s)
  BY ZenonT(60), <1>0, <1>4, NextPlace DEF ReserveRollback, SessionType
<1>5. CASE ReserveRollbackFails(s)
  BY <1>0, <1>5, NextPlace DEF ReserveRollbackFails, SessionType
<1> QED BY <1>1, <1>2, <1>3, <1>4, <1>5 DEF Reserve

LEMMA SettlePlaces ==
    ASSUME TypeOK, NEW s \in Sessions, Settle(s)
    PROVE  \/ sess[s].pc \in HeldPlaces /\ sess'[s].pc \in HeldPlaces \cup {"setToken"}
           \/ sess[s].pc = "setToken" /\ sess'[s].pc = "settled" /\ sess'[s].arg = sess[s].arg
<1>0. sess[s] \in SessionType
  BY DEF TypeOK
<1> USE DEF HeldPlaces
<1>1. ASSUME NEW a \in Amounts, SettleFunding(s, a) \/ SettleExceeds(s, a)
      PROVE  sess[s].pc \in HeldPlaces /\ sess'[s].pc \in HeldPlaces \cup {"setToken"}
  <2>1. \/ Becomes(s, [sess[s] EXCEPT !.pc = "setToken", !.arg = a])
        \/ Becomes(s, [sess[s] EXCEPT !.pc = "overage", !.arg = a])
    BY <1>1, Zenon DEF SettleFunding, SettleExceeds
  <2>2. CASE Becomes(s, [sess[s] EXCEPT !.pc = "setToken", !.arg = a])
    BY ZenonT(60), <1>0, <1>1, <2>2, NextPlace DEF SettleFunding, SettleExceeds, SessionType
  <2>3. CASE Becomes(s, [sess[s] EXCEPT !.pc = "overage", !.arg = a])
    BY ZenonT(60), <1>0, <1>1, <2>3, NextPlace DEF SettleFunding, SettleExceeds, SessionType
  <2> QED BY <2>1, <2>2, <2>3
<1>2. CASE SettleOverage(s) \/ SettleOverageFails(s)
  <2>1. CASE SettleOverage(s)
    <3>1. PICK n : sess'[s] = [sess[s] EXCEPT !.pc = "setToken", !.over = n]
      BY <2>1, NextPlace, Zenon DEF SettleOverage
    <3>2. sess[s].pc = "overage"
      BY <2>1 DEF SettleOverage
    <3> QED BY <1>0, <3>1, <3>2 DEF SessionType
  <2>2. CASE SettleOverageFails(s)
    BY <1>0, <2>2, NextPlace DEF SettleOverageFails, SessionType
  <2> QED BY <1>2, <2>1, <2>2
<1>3. CASE SettleToken(s) \/ SettleTokenFails(s)
  <2>1. CASE SettleToken(s)
    <3>1. sess'[s] = [sess[s] EXCEPT !.pc = "settled", !.unres = 0]
      BY <2>1, NextPlace DEF SettleToken
    <3>2. sess[s].pc = "setToken"
      BY <2>1 DEF SettleToken
    <3> QED BY <1>0, <3>1, <3>2 DEF SessionType
  <2>2. CASE SettleTokenFails(s)
    <3>1. sess'[s] = [sess[s] EXCEPT !.pc = "settled", !.unres = 0, !.tokErr = TRUE]
      BY <2>2, NextPlace DEF SettleTokenFails
    <3>2. sess[s].pc = "setToken"
      BY <2>2 DEF SettleTokenFails
    <3> QED BY <1>0, <3>1, <3>2 DEF SessionType
  <2> QED BY <1>3, <2>1, <2>2
<1> QED BY <1>1, <1>2, <1>3 DEF Settle

(* A refund leg gives back, or leaves the funds alone. *)
LEMMA GivesBack ==
    ASSUME IndInv, NEW s \in Sessions, NEW n \in Nat,
           \/ NoWrite
           \/ AdjustTokenQuota(s, 0 - n)
           \/ AdjustUserQuota(s, 0 - n)
           \/ \E k : PostConsumeSubscription(s, k, 0 - n)
    PROVE  Funds(posted'[s]) <= Funds(posted[s])
<1>0. posted \in [Sessions -> PostedType] /\ 0 - n \in Int
  BY DEF IndInv, TypeOK
<1>1. CASE NoWrite
  BY <1>0, <1>1 DEF NoWrite, Funds, PostedType
<1>2. CASE AdjustTokenQuota(s, 0 - n)
  BY <1>0, <1>2 DEF AdjustTokenQuota, Funds, PostedType
<1>3. CASE AdjustUserQuota(s, 0 - n)
  BY <1>0, <1>3 DEF AdjustUserQuota, Funds, PostedType
<1>4. ASSUME NEW k, PostConsumeSubscription(s, k, 0 - n)
      PROVE  Funds(posted'[s]) <= Funds(posted[s])
  BY <1>0, <1>4 DEF PostConsumeSubscription, Funds, PostedType
<1> QED BY <1>1, <1>2, <1>3, <1>4

LEMMA RefundPlaces ==
    ASSUME IndInv, NEW s \in Sessions, RefundStep(s)
    PROVE  \/ /\ sess[s].pc \in {"open", "refund", "partRefund"}
              /\ sess'[s].pc \in {"refund", "partRefund"}
              /\ Funds(posted'[s]) <= Funds(posted[s])
           \/ /\ sess[s].pc = "refund" /\ sess'[s].pc = "refunded"
              /\ Funds(posted'[s]) = Funds(posted[s])
<1>0. TypeOK /\ sess[s] \in SessionType
  BY DEF IndInv, TypeOK
<1>n. sess[s].consumed \in Nat /\ sess[s].subPre \in Nat /\ sess[s].extra \in Nat /\ sess[s].tok \in Nat
      /\ 0 \in Nat
  BY <1>0 DEF SessionType
<1>1. CASE RefundDone(s)
  <2>1. sess[s].pc = "refund" /\ sess'[s].pc = "refunded"
    BY <1>0, <1>1, NextPlace DEF RefundDone, SessionType
  <2>2. posted' = posted
    BY <1>1 DEF RefundDone, NoWrite
  <2> QED BY <2>1, <2>2
<1>2. CASE ~RefundDone(s)
  <2>1. Funds(posted'[s]) <= Funds(posted[s])
    BY <1>2, <1>n, GivesBack, ZenonT(60) DEF RefundStep, Refund, RefundWalletLeg,
       RefundSubscriptionLeg, RefundSubscriptionRetry, RefundExtraLeg, RefundTokenLeg,
       RefundLegFails, RefundSubscriptionPreConsume
  <2>2. CASE Refund(s) \/ RefundLegFails(s)
    BY <1>0, <2>1, <2>2, NextPlace DEF Refund, RefundLegFails, SessionType
  <2>3. CASE RefundWalletLeg(s) \/ RefundSubscriptionLeg(s) \/ RefundExtraLeg(s) \/ RefundTokenLeg(s)
    <3>1. CASE RefundWalletLeg(s)
      BY <1>0, <2>1, <3>1, NextPlace DEF RefundWalletLeg, SessionType
    <3>2. CASE RefundSubscriptionLeg(s)
      <4>1. sess'[s] = [sess[s] EXCEPT !.fref = TRUE, !.tries = 0]
        <5>1. Becomes(s, [sess[s] EXCEPT !.fref = TRUE, !.tries = 0])
          BY <3>2, Zenon DEF RefundSubscriptionLeg
        <5> QED BY <1>0, <5>1, NextPlace
      <4>2. sess[s].pc = "refund"
        BY <3>2 DEF RefundSubscriptionLeg
      <4> QED BY <1>0, <2>1, <4>1, <4>2 DEF SessionType
    <3>3. CASE RefundExtraLeg(s)
      BY <1>0, <2>1, <3>3, NextPlace DEF RefundExtraLeg, SessionType
    <3>4. CASE RefundTokenLeg(s)
      BY <1>0, <2>1, <3>4, NextPlace DEF RefundTokenLeg, SessionType
    <3> QED BY <2>3, <3>1, <3>2, <3>3, <3>4
  <2>4. CASE RefundSubscriptionRetry(s)
    <3>1. CASE sess[s].tries = 2
      <4>1. sess'[s] = [sess[s] EXCEPT !.tries = 0, !.pc = "partRefund"]
        <5>1. Becomes(s, [sess[s] EXCEPT !.tries = 0, !.pc = "partRefund"])
          BY <2>4, <3>1, Zenon DEF RefundSubscriptionRetry
        <5> QED BY <1>0, <5>1, NextPlace
      <4>2. sess[s].pc = "refund"
        BY <2>4 DEF RefundSubscriptionRetry
      <4> QED BY <1>0, <2>1, <4>1, <4>2 DEF SessionType
    <3>2. CASE sess[s].tries # 2
      BY <1>0, <2>1, <2>4, <3>2, NextPlace DEF RefundSubscriptionRetry, SessionType
    <3> QED BY <3>1, <3>2
  <2> QED BY <1>2, <2>2, <2>3, <2>4 DEF RefundStep
<1> QED BY <1>1, <1>2

LEMMA StepIsLedgerStep ==
    ASSUME IndInv, NEW s \in Sessions,
           Begin(s) \/ PreConsume(s) \/ Reserve(s) \/ Settle(s) \/ RefundStep(s)
    PROVE  LedgerStep(sess[s], sess'[s], Funds(posted[s]), Funds(posted'[s]))
<1>0. TypeOK
  BY DEF IndInv
<1>1. CASE Begin(s)
  BY <1>0, <1>1, BeginPlaces DEF LedgerStep, IdlePlaces
<1>2. CASE PreConsume(s)
  BY <1>0, <1>2, PreConsumePlaces DEF LedgerStep, HeldPlaces
<1>3. CASE Reserve(s)
  BY <1>0, <1>3, ReservePlaces DEF LedgerStep
<1>4. CASE Settle(s)
  BY <1>0, <1>4, SettlePlaces DEF LedgerStep
<1>5. CASE RefundStep(s)
  BY <1>5, RefundPlaces DEF LedgerStep, HeldPlaces
<1> QED BY <1>1, <1>2, <1>3, <1>4, <1>5

-----------------------------------------------------------------------------
(* The step of the contract *)

PhaseMap == [s \in Sessions |-> PhaseOf(sess[s])]
FundsMap == [s \in Sessions |-> posted[s].wallet + posted[s].sub]
BillMap == [s \in Sessions |-> IF Charged(sess[s]) THEN sess[s].arg ELSE 0]

(* A step of one session changes the contract's view of that session only. *)
LEMMA ViewOfOne ==
    ASSUME NEW s \in Sessions, Alone(s)
    PROVE  /\ PhaseMap' = [PhaseMap EXCEPT ![s] = PhaseOf(sess'[s])]
           /\ FundsMap' = [FundsMap EXCEPT ![s] = Funds(posted'[s])]
           /\ BillMap' = [BillMap EXCEPT ![s] = BillOf(sess'[s])]
<1>1. \A t \in Sessions : t # s => sess'[t] = sess[t] /\ posted'[t] = posted[t]
  BY DEF Alone
<1>2. PhaseMap' = [PhaseMap EXCEPT ![s] = PhaseOf(sess'[s])]
  <2>1. PhaseMap' = [t \in Sessions |-> PhaseOf(sess'[t])]
    BY DEF PhaseMap, PhaseOf
  <2>2. \A t \in Sessions : t # s => PhaseOf(sess'[t]) = PhaseOf(sess[t])
    BY <1>1
  <2> QED BY <2>1, <2>2 DEF PhaseMap
<1>3. FundsMap' = [FundsMap EXCEPT ![s] = Funds(posted'[s])]
  BY <1>1 DEF FundsMap, Funds
<1>4. BillMap' = [BillMap EXCEPT ![s] = BillOf(sess'[s])]
  BY <1>1 DEF BillMap, BillOf, Charged
<1> QED BY <1>2, <1>3, <1>4

LEMMA MoveOf ==
    ASSUME NEW s \in Sessions, Alone(s), NEW from, PhaseOf(sess[s]) \in from,
           NEW to, PhaseOf(sess'[s]) = to
    PROVE  Ledger!Moves(s, from, to)
<1>1. /\ PhaseMap[s] \in from
      /\ PhaseMap' = [PhaseMap EXCEPT ![s] = to]
      /\ FundsMap' = [FundsMap EXCEPT ![s] = FundsMap'[s]]
      /\ BillMap' = [BillMap EXCEPT ![s] = BillMap'[s]]
  <2>1. PhaseMap[s] \in from
    BY DEF PhaseMap
  <2>2. FundsMap'[s] = Funds(posted'[s]) /\ BillMap'[s] = BillOf(sess'[s])
    BY DEF FundsMap, BillMap, Funds, BillOf, Charged
  <2> QED BY <2>1, <2>2, ViewOfOne
<1> QED BY <1>1 DEF Ledger!Moves, PhaseMap, FundsMap, BillMap

(* Every step of a session is a step of the contract, or invisible to it. *)
LEMMA StepImplements ==
    ASSUME IndInv, IndInv', NEW s \in Sessions,
           Begin(s) \/ PreConsume(s) \/ Reserve(s) \/ Settle(s) \/ RefundStep(s)
    PROVE  Ledger!Next \/ UNCHANGED Ledger!vars
<1> DEFINE r == sess[s]
           z == sess'[s]
           f == Funds(posted[s])
           g == Funds(posted'[s])
<1>1. Alone(s)
  BY StepsAlone DEF IndInv
<1>2. LedgerStep(r, z, f, g)
  BY StepIsLedgerStep
<1>3. r \in SessionType /\ SessionInv(r, posted[s], record[s])
  BY DEF IndInv, TypeOK
<1>4. z \in SessionType /\ SessionInv(z, posted'[s], record'[s])
  <2>1. /\ sess' \in [Sessions -> SessionType]
        /\ \A t \in Sessions : SessionInv(sess'[t], posted'[t], record'[t])
    BY DEF IndInv, TypeOK
  <2> QED BY <2>1
<1>f. /\ r.pc \in IdlePlaces => f = 0 /\ BillOf(r) = 0
      /\ r.pc \in HeldPlaces \cup {"refund", "partRefund"} => f \in Nat /\ BillOf(r) = 0
      /\ r.pc \in {"setToken", "settled"} => f = BillOf(r) /\ BillOf(r) = r.arg
  BY <1>3, FundsIn
<1>g. /\ z.pc \in IdlePlaces \cup {"rejected", "keyHeld", "refunded"} => g = 0 /\ BillOf(z) = 0
      /\ z.pc \in HeldPlaces \cup {"refund", "partRefund"} => g \in Nat /\ BillOf(z) = 0
      /\ z.pc \in {"setToken", "settled"} => g = BillOf(z) /\ BillOf(z) = z.arg
  BY <1>4, FundsIn
<1>a. z.arg \in Nat
  BY <1>4 DEF SessionType
<1>v. FundsMap[s] = f /\ FundsMap'[s] = g /\ BillMap[s] = BillOf(r) /\ BillMap'[s] = BillOf(z)
  BY DEF FundsMap, BillMap, Funds, BillOf, Charged
<1>s. f = g /\ BillOf(z) = BillOf(r) => FundsMap' = FundsMap /\ BillMap' = BillMap
  <2> SUFFICES ASSUME f = g, BillOf(z) = BillOf(r)
               PROVE  FundsMap' = FundsMap /\ BillMap' = BillMap
    OBVIOUS
  <2>2. FundsMap' = FundsMap
    <3>1. FundsMap' = [FundsMap EXCEPT ![s] = FundsMap[s]]
      BY <1>1, <1>v, ViewOfOne
    <3> QED BY <3>1 DEF FundsMap
  <2>3. BillMap' = BillMap
    <3>1. BillMap' = [BillMap EXCEPT ![s] = BillMap[s]]
      BY <1>1, <1>v, ViewOfOne
    <3> QED BY <3>1 DEF BillMap
  <2> QED BY <2>2, <2>3
<1> DEFINE Invisible == PhaseOf(z) = PhaseOf(r) /\ f = g /\ BillOf(z) = BillOf(r)
<1>i. Invisible => UNCHANGED Ledger!vars
  <2> SUFFICES ASSUME Invisible PROVE PhaseMap' = PhaseMap /\ FundsMap' = FundsMap /\ BillMap' = BillMap
    BY DEF Ledger!vars, PhaseMap, FundsMap, BillMap
  <2>1. PhaseMap' = PhaseMap
    <3>1. PhaseMap' = [PhaseMap EXCEPT ![s] = PhaseMap[s]]
      BY <1>1, ViewOfOne DEF PhaseMap
    <3> QED BY <3>1 DEF PhaseMap
  <2> QED BY <1>s, <2>1
<1> HIDE DEF r, z, f, g, Invisible
<1>5. CASE r.pc \in IdlePlaces /\ z.pc \in IdlePlaces
  BY <1>5, <1>f, <1>g, <1>i, PhaseIs DEF Invisible
<1>m. \A from, to : PhaseOf(r) \in from /\ PhaseOf(z) = to => Ledger!Moves(s, from, to)
  BY <1>1, MoveOf DEF r, z
<1>6. CASE r.pc \in IdlePlaces /\ z.pc \in {"rejected", "keyHeld"}
  <2>1. Ledger!Moves(s, {"idle"}, "refused")
    BY <1>6, <1>m, PhaseIs
  <2>2. f = g /\ BillOf(z) = BillOf(r)
    BY <1>6, <1>f, <1>g
  <2>3. FundsMap' = FundsMap /\ BillMap' = BillMap
    BY <1>s, <2>2
  <2>4. Ledger!Refuse(s)
    BY <2>1, <2>3 DEF Ledger!Refuse, FundsMap, BillMap
  <2> QED BY <2>4 DEF Ledger!Next
<1>7. CASE r.pc \in IdlePlaces \cup HeldPlaces /\ z.pc \in HeldPlaces
  <2>1. CASE g >= f
    <3>1. Ledger!Moves(s, {"idle", "held"}, "held")
      BY <1>7, <1>m, PhaseIs
    <3>2. FundsMap'[s] >= FundsMap[s] /\ BillMap'[s] = BillMap[s]
      BY <1>7, <2>1, <1>f, <1>g, <1>v
    <3>3. Ledger!Hold(s)
      BY <3>1, <3>2 DEF Ledger!Hold, FundsMap, BillMap
    <3> QED BY <3>3 DEF Ledger!Next
  <2>2. CASE ~(g >= f)
    <3>1. r.pc \in HeldPlaces /\ f \in Nat /\ g \in Nat
      BY <1>7, <2>2, <1>f, <1>g
    <3>2. Ledger!Moves(s, {"held"}, "held")
      BY <1>7, <1>m, <3>1, PhaseIs
    <3>3. FundsMap'[s] \in 0..FundsMap[s] /\ BillMap'[s] = BillMap[s]
      BY <1>7, <2>2, <3>1, <1>f, <1>g, <1>v
    <3>4. Ledger!Unhold(s)
      BY <3>2, <3>3 DEF Ledger!Unhold, FundsMap, BillMap
    <3> QED BY <3>4 DEF Ledger!Next
  <2> QED BY <2>1, <2>2
<1>8. CASE r.pc \in IdlePlaces \cup HeldPlaces /\ z.pc = "setToken"
  <2>1. Ledger!Moves(s, {"idle", "held"}, "charged")
    BY <1>8, <1>m, PhaseIs
  <2>2. BillMap'[s] \in Nat /\ FundsMap'[s] = BillMap'[s]
    BY <1>8, <1>g, <1>v, <1>a
  <2>3. Ledger!Charge(s)
    BY <2>1, <2>2 DEF Ledger!Charge, FundsMap, BillMap
  <2> QED BY <2>3 DEF Ledger!Next
<1>9. CASE r.pc = "setToken" /\ z.pc = "settled" /\ z.arg = r.arg
  BY <1>9, <1>f, <1>g, <1>i, PhaseIs DEF Invisible
<1>10. CASE /\ r.pc \in HeldPlaces \cup {"refund", "partRefund"}
            /\ z.pc \in {"refund", "partRefund"} /\ g <= f
  <2>1. Ledger!Moves(s, {"held", "returning"}, "returning")
    BY <1>10, <1>m, PhaseIs
  <2>2. FundsMap'[s] \in 0..FundsMap[s] /\ BillMap'[s] = BillMap[s]
    BY <1>10, <1>f, <1>g, <1>v
  <2>3. Ledger!Return(s)
    BY <2>1, <2>2 DEF Ledger!Return, FundsMap, BillMap
  <2> QED BY <2>3 DEF Ledger!Next
<1>11. CASE r.pc = "refund" /\ z.pc = "refunded" /\ g = f
  <2>1. Ledger!Moves(s, {"returning"}, "returned")
    BY <1>11, <1>m, PhaseIs
  <2>2. f = 0 /\ BillOf(z) = BillOf(r)
    BY <1>11, <1>f, <1>g
  <2>3. FundsMap' = FundsMap /\ BillMap' = BillMap /\ FundsMap[s] = 0
    BY <1>11, <1>s, <1>v, <2>2
  <2>4. Ledger!Returned(s)
    BY <2>1, <2>3 DEF Ledger!Returned, FundsMap, BillMap
  <2> QED BY <2>4 DEF Ledger!Next
<1> QED BY <1>2, <1>5, <1>6, <1>7, <1>8, <1>9, <1>10, <1>11 DEF LedgerStep

-----------------------------------------------------------------------------
(* The billing session implements its contract, whatever the number of
   concurrent requests, the quotas and the failures: every leg of
   NewBillingSession, Reserve, Settle and Refund is one of the steps the
   contract permits, or does not show. *)
THEOREM Implements == Spec => ImplementsLedger
<1>1. Init => Ledger!Init
  <2> SUFFICES ASSUME Init PROVE Ledger!Init
    OBVIOUS
  <2>1. \A s \in Sessions : PhaseOf(sess[s]) = "idle"
    BY PhaseIs DEF Init, NewSession, IdlePlaces
  <2>2. PhaseMap = [s \in Sessions |-> "idle"]
    BY <2>1 DEF PhaseMap
  <2>3. FundsMap = [s \in Sessions |-> 0]
    BY DEF FundsMap, Init
  <2>4. BillMap = [s \in Sessions |-> 0]
    BY DEF BillMap, Init, Charged, NewSession
  <2> QED BY <2>2, <2>3, <2>4 DEF Ledger!Init, PhaseMap, FundsMap, BillMap
<1>2. IndInv /\ IndInv' /\ [Next]_vars => [Ledger!Next]_(Ledger!vars)
  <2> SUFFICES ASSUME IndInv, IndInv', [Next]_vars
               PROVE  Ledger!Next \/ UNCHANGED Ledger!vars
    OBVIOUS
  <2>1. ASSUME sess' = sess, posted' = posted PROVE UNCHANGED Ledger!vars
    BY <2>1 DEF Ledger!vars, PhaseOf, Charged
  <2>2. ASSUME NEW k \in Subs,
               PeriodEnds(k) \/ ResetDueSubscription(k) \/ SubscriptionEnds(k)
        PROVE  UNCHANGED Ledger!vars
    BY <2>1, <2>2 DEF PeriodEnds, ResetDueSubscription, SubscriptionEnds
  <2>3. CASE UNCHANGED vars
    BY <2>1, <2>3 DEF vars
  <2> QED BY <2>2, <2>3, StepImplements DEF Next
<1> QED BY <1>1, <1>2, Inductive, PTL DEF Spec, ImplementsLedger, Ledger!Spec

-----------------------------------------------------------------------------
(* Sums.  SumFunction is defined by a recursive function on the subsets of the
   domain, so what it computes is shown by induction on their cardinality.  The
   induction is on a set of numbers: the least number outside the set comes
   from WFMin, which quantifies over sets and not over operators. *)

(* Every nonempty set of natural numbers has a least element. *)
LEMMA LeastElement ==
    ASSUME NEW T \in SUBSET Nat, T # {}
    PROVE  \E n \in T : \A m \in T : n <= m
<1> DEFINE Less == {ss \in Nat \X Nat : ss[1] < ss[2]}
<1>1. IsWellFoundedOn(Less, Nat)
  BY NatLessThanWellFounded DEF OpToRel
<1>2. \A m, n \in Nat : m < n => <<m, n>> \in Less
  OBVIOUS
<1> HIDE DEF Less
<1>3. PICK n \in T : \A m \in T : ~(<<m, n>> \in Less)
  BY <1>1, WFMin
<1>4. \A m \in T : ~(m < n)
  BY <1>2, <1>3
<1> QED BY <1>4

(* Induction over the natural numbers, for a set. *)
LEMMA SetInduction ==
    ASSUME NEW T, 0 \in T, \A n \in Nat : n \in T => n + 1 \in T
    PROVE  Nat \subseteq T
<1> SUFFICES ASSUME Nat \ T # {} PROVE FALSE
  OBVIOUS
<1>1. PICK n \in Nat \ T : \A m \in Nat \ T : n <= m
  BY LeastElement
<1>2. n # 0 /\ n - 1 \in Nat /\ n - 1 \notin T
  BY <1>1
<1> QED BY <1>1, <1>2

(* The element SumFunction takes from a set first. *)
Pick(u) == CHOOSE x \in u : TRUE

LEMMA Picked == \A u : u # {} => Pick(u) \in u
BY DEF Pick

(* What holds of the empty set, and of a set if it holds of the set without
   its first element, holds of every subset of a finite set. *)
LEMMA SubsetInduction ==
    ASSUME NEW S, IsFiniteSet(S), NEW G, {} \in G,
           \A u \in SUBSET S : u # {} /\ u \ {Pick(u)} \in G => u \in G
    PROVE  SUBSET S \subseteq G
<1> DEFINE T == {n \in Nat : \A u \in SUBSET S : Cardinality(u) = n => u \in G}
<1>1. \A u \in SUBSET S : IsFiniteSet(u) /\ Cardinality(u) \in Nat
  BY FS_Subset, FS_CardinalityType
<1>2. 0 \in T
  BY <1>1, FS_EmptySet
<1>3. ASSUME NEW n \in Nat, n \in T PROVE n + 1 \in T
  <2> SUFFICES ASSUME NEW u \in SUBSET S, Cardinality(u) = n + 1 PROVE u \in G
    OBVIOUS
  <2>1. u # {}
    BY FS_EmptySet
  <2>2. Pick(u) \in u
    BY <2>1, Picked
  <2>3. Cardinality(u \ {Pick(u)}) = n
    BY <1>1, <2>2, FS_RemoveElement
  <2>4. u \ {Pick(u)} \in G
    BY <1>3, <2>3
  <2> QED BY <2>1, <2>4
<1> HIDE DEF T
<1>4. Nat \subseteq T
  BY <1>2, <1>3, SetInduction
<1> QED BY <1>1, <1>4 DEF T

(* The recursion of SumFunction. *)
SumRec(it, f, S) ==
  it = [u \in SUBSET S |-> IF u = {} THEN 0 ELSE f[Pick(u)] + it[u \ {Pick(u)}]]

(* A function satisfies the recursion: it is built cardinality by cardinality. *)
LEMMA SumRecExists ==
    ASSUME NEW S, IsFiniteSet(S), NEW f \in [S -> Int]
    PROVE  \E it \in [SUBSET S -> Int] : SumRec(it, f, S)
<1> DEFINE Small(n) == {u \in SUBSET S : Cardinality(u) <= n}
           Step(it, u) == IF u = {} THEN 0 ELSE f[Pick(u)] + it[u \ {Pick(u)}]
           Sums(n) == {it \in [Small(n) -> Int] : \A u \in Small(n) : it[u] = Step(it, u)}
           T == {n \in Nat : Sums(n) # {}}
<1>1. \A u \in SUBSET S : IsFiniteSet(u) /\ Cardinality(u) \in Nat
  BY FS_Subset, FS_CardinalityType
<1>2. 0 \in T
  <2>1. \A u \in Small(0) : u = {}
    BY <1>1, FS_EmptySet
  <2> DEFINE it == [u \in Small(0) |-> 0]
  <2>2. it \in Sums(0)
    BY <2>1
  <2> QED BY <2>2
<1>3. ASSUME NEW n \in Nat, n \in T PROVE n + 1 \in T
  <2>1. PICK it \in [Small(n) -> Int] : \A u \in Small(n) : it[u] = Step(it, u)
    BY <1>3
  <2> DEFINE jt == [u \in Small(n + 1) |-> Step(it, u)]
  <2>2. ASSUME NEW u \in Small(n + 1), u # {}
        PROVE  u \ {Pick(u)} \in Small(n) /\ f[Pick(u)] \in Int
    <3>1. Pick(u) \in u
      BY <2>2, Picked
    <3>2. Cardinality(u \ {Pick(u)}) = Cardinality(u) - 1
      BY <3>1, <1>1, FS_RemoveElement
    <3> QED BY <3>1, <3>2, <1>1
  <2>3. Small(n) \subseteq Small(n + 1)
    BY <1>1
  <2>4. ASSUME NEW u \in Small(n + 1) PROVE Step(it, u) \in Int
    <3>1. CASE u = {}
      BY <3>1
    <3>2. CASE u # {}
      BY <2>1, <2>2, <3>2
    <3> QED BY <3>1, <3>2
  <2>5. \A u \in Small(n) : jt[u] = it[u]
    BY <2>1, <2>3
  <2>6. ASSUME NEW u \in Small(n + 1) PROVE jt[u] = Step(jt, u)
    <3>1. CASE u = {}
      BY <3>1
    <3>2. CASE u # {}
      <4>1. jt[u \ {Pick(u)}] = it[u \ {Pick(u)}]
        BY <2>2, <2>5, <3>2
      <4> QED BY <3>2, <4>1
    <3> QED BY <3>1, <3>2
  <2>7. jt \in Sums(n + 1)
    BY <2>4, <2>6
  <2> HIDE DEF jt, Sums
  <2> QED BY <2>7
<1> HIDE DEF T
<1>4. Nat \subseteq T
  BY <1>2, <1>3, SetInduction
<1>5. Cardinality(S) \in Nat /\ Small(Cardinality(S)) = SUBSET S
  BY FS_Subset, FS_CardinalityType
<1>6. PICK it \in [SUBSET S -> Int] : \A u \in SUBSET S : it[u] = Step(it, u)
  BY <1>4, <1>5 DEF T
<1>7. it = [u \in SUBSET S |-> Step(it, u)]
  BY <1>6
<1> QED BY <1>7 DEF SumRec

LEMMA SumIs ==
    ASSUME NEW S, IsFiniteSet(S), NEW f \in [S -> Int]
    PROVE  \E it : SumRec(it, f, S) /\ SumFunction(f) = it[S]
<1> DEFINE it == CHOOSE g : g = [u \in SUBSET DOMAIN f |-> IF u = {} THEN 0 ELSE
                 f[CHOOSE x \in u : TRUE] + g[u \ {CHOOSE x \in u : TRUE}]]
<1>1. SumFunction(f) = it[DOMAIN f]
  BY DEF SumFunction, SumFunctionOnSet, FoldFunctionOnSet, MapThenFoldSet
<1>2. DOMAIN f = S
  OBVIOUS
<1>3. \E g : g = [u \in SUBSET DOMAIN f |-> IF u = {} THEN 0 ELSE
                 f[CHOOSE x \in u : TRUE] + g[u \ {CHOOSE x \in u : TRUE}]]
  <2>1. PICK g : SumRec(g, f, S)
    BY SumRecExists
  <2>2. g = [u \in SUBSET DOMAIN f |-> IF u = {} THEN 0 ELSE
                 f[CHOOSE x \in u : TRUE] + g[u \ {CHOOSE x \in u : TRUE}]]
    BY <1>2, <2>1 DEF SumRec, Pick
  <2> QED BY <2>2, Zenon
<1>4. it = [u \in SUBSET DOMAIN f |-> IF u = {} THEN 0 ELSE
                 f[CHOOSE x \in u : TRUE] + it[u \ {CHOOSE x \in u : TRUE}]]
  BY <1>3
<1> HIDE DEF it
<1>5. SumRec(it, f, S)
  BY <1>2, <1>4 DEF SumRec, Pick
<1> QED BY <1>1, <1>2, <1>5

(* One step of the recursion. *)
LEMMA SumStep ==
    ASSUME NEW S, NEW f, NEW it, SumRec(it, f, S), NEW u \in SUBSET S, u # {}
    PROVE  /\ it[u] = f[Pick(u)] + it[u \ {Pick(u)}]
           /\ Pick(u) \in u /\ u \ {Pick(u)} \in SUBSET S
BY Picked DEF SumRec

LEMMA SumRecInt ==
    ASSUME NEW S, IsFiniteSet(S), NEW f \in [S -> Int], NEW it, SumRec(it, f, S)
    PROVE  \A u \in SUBSET S : it[u] \in Int
<1> DEFINE G == {u \in SUBSET S : it[u] \in Int}
<1>1. {} \in G
  BY DEF SumRec
<1>2. ASSUME NEW u \in SUBSET S, u # {}, u \ {Pick(u)} \in G PROVE u \in G
  <2>1. it[u] = f[Pick(u)] + it[u \ {Pick(u)}] /\ Pick(u) \in S
    BY <1>2, SumStep
  <2> QED BY <1>2, <2>1
<1>3. SUBSET S \subseteq G
  <2> HIDE DEF G
  <2> QED BY <1>1, <1>2, SubsetInduction
<1> QED BY <1>3

LEMMA SumInt ==
    ASSUME NEW S, IsFiniteSet(S), NEW f \in [S -> Int]
    PROVE  SumFunction(f) \in Int
BY SumIs, SumRecInt

(* A sum one of whose terms changes. *)
LEMMA SumMoves ==
    ASSUME NEW S, IsFiniteSet(S), NEW f \in [S -> Int], NEW g \in [S -> Int],
           NEW t \in S, \A x \in S \ {t} : g[x] = f[x]
    PROVE  SumFunction(g) = SumFunction(f) + (g[t] - f[t])
<1>1. PICK it : SumRec(it, f, S) /\ SumFunction(f) = it[S]
  BY SumIs
<1>2. PICK jt : SumRec(jt, g, S) /\ SumFunction(g) = jt[S]
  BY SumIs
<1>3. \A u \in SUBSET S : it[u] \in Int /\ jt[u] \in Int
  BY <1>1, <1>2, SumRecInt
<1> DEFINE G == {u \in SUBSET S : jt[u] = it[u] + (IF t \in u THEN g[t] - f[t] ELSE 0)}
<1>4. {} \in G
  BY <1>1, <1>2 DEF SumRec
<1>5. ASSUME NEW u \in SUBSET S, u # {}, u \ {Pick(u)} \in G PROVE u \in G
  <2> DEFINE v == u \ {Pick(u)}
  <2>1. it[u] = f[Pick(u)] + it[v] /\ jt[u] = g[Pick(u)] + jt[v] /\ Pick(u) \in u
    BY <1>1, <1>2, <1>5, SumStep
  <2>2. it[v] \in Int /\ jt[v] \in Int /\ f[Pick(u)] \in Int /\ g[Pick(u)] \in Int
        /\ g[t] \in Int /\ f[t] \in Int
    BY <1>3, <2>1
  <2>3. jt[v] = it[v] + (IF t \in v THEN g[t] - f[t] ELSE 0)
    BY <1>5
  <2>4. CASE Pick(u) = t
    BY <2>1, <2>2, <2>3, <2>4
  <2>5. CASE Pick(u) # t
    <3>1. (t \in u <=> t \in v) /\ g[Pick(u)] = f[Pick(u)]
      BY <2>1, <2>5
    <3> QED BY <2>1, <2>2, <2>3, <3>1
  <2> QED BY <2>4, <2>5
<1>6. SUBSET S \subseteq G
  <2> HIDE DEF G
  <2> QED BY <1>4, <1>5, SubsetInduction
<1> QED BY <1>1, <1>2, <1>6

(* A sum of smaller terms is smaller. *)
LEMMA SumMonotone ==
    ASSUME NEW S, IsFiniteSet(S), NEW f \in [S -> Int], NEW g \in [S -> Int],
           \A x \in S : f[x] <= g[x]
    PROVE  SumFunction(f) <= SumFunction(g)
<1>1. PICK it : SumRec(it, f, S) /\ SumFunction(f) = it[S]
  BY SumIs
<1>2. PICK jt : SumRec(jt, g, S) /\ SumFunction(g) = jt[S]
  BY SumIs
<1>3. \A u \in SUBSET S : it[u] \in Int /\ jt[u] \in Int
  BY <1>1, <1>2, SumRecInt
<1> DEFINE G == {u \in SUBSET S : it[u] <= jt[u]}
<1>4. {} \in G
  BY <1>1, <1>2 DEF SumRec
<1>5. ASSUME NEW u \in SUBSET S, u # {}, u \ {Pick(u)} \in G PROVE u \in G
  <2> DEFINE v == u \ {Pick(u)}
  <2>1. it[u] = f[Pick(u)] + it[v] /\ jt[u] = g[Pick(u)] + jt[v] /\ Pick(u) \in u
    BY <1>1, <1>2, <1>5, SumStep
  <2>2. it[v] \in Int /\ jt[v] \in Int /\ f[Pick(u)] \in Int /\ g[Pick(u)] \in Int
        /\ f[Pick(u)] <= g[Pick(u)]
    BY <1>3, <2>1
  <2> QED BY <1>5, <2>1, <2>2
<1>6. SUBSET S \subseteq G
  <2> HIDE DEF G
  <2> QED BY <1>4, <1>5, SubsetInduction
<1> QED BY <1>1, <1>2, <1>6

LEMMA SumZero ==
    ASSUME NEW S, IsFiniteSet(S), NEW f \in [S -> Int], \A x \in S : f[x] = 0
    PROVE  SumFunction(f) = 0
<1>1. PICK it : SumRec(it, f, S) /\ SumFunction(f) = it[S]
  BY SumIs
<1> DEFINE G == {u \in SUBSET S : it[u] = 0}
<1>2. {} \in G
  BY <1>1 DEF SumRec
<1>3. ASSUME NEW u \in SUBSET S, u # {}, u \ {Pick(u)} \in G PROVE u \in G
  <2>1. it[u] = f[Pick(u)] + it[u \ {Pick(u)}] /\ Pick(u) \in u
    <3> HIDE DEF G
    <3> QED BY <1>1, <1>3, SumStep
  <2>2. it[u \ {Pick(u)}] = 0 /\ f[Pick(u)] = 0
    BY <1>3, <2>1
  <2> QED BY <2>1, <2>2
<1>4. SUBSET S \subseteq G
  <2> HIDE DEF G
  <2> QED BY <1>2, <1>3, SubsetInduction
<1> QED BY <1>1, <1>4

LEMMA SumNat ==
    ASSUME NEW S, IsFiniteSet(S), NEW f \in [S -> Int], \A x \in S : f[x] >= 0
    PROVE  SumFunction(f) >= 0
<1> DEFINE z == [x \in S |-> 0]
<1>1. SumFunction(z) = 0
  BY SumZero
<1>2. \A x \in S : z[x] <= f[x]
  OBVIOUS
<1>3. z \in [S -> Int]
  OBVIOUS
<1> HIDE DEF z
<1>4. SumFunction(z) <= SumFunction(f)
  BY <1>2, <1>3, SumMonotone
<1>5. SumFunction(f) \in Int
  BY SumInt
<1> QED BY <1>1, <1>4, <1>5

(* A sum is the sum over the parts of a partition. *)
Part(f, c, k) == [x \in DOMAIN f |-> IF c[x] = k THEN f[x] ELSE 0]

LEMMA PartInt ==
    ASSUME NEW S, NEW f \in [S -> Int], NEW c, NEW k
    PROVE  Part(f, c, k) \in [S -> Int]
BY DEF Part

LEMMA SumOfParts ==
    ASSUME NEW S, IsFiniteSet(S), NEW K, IsFiniteSet(K), NEW f \in [S -> Int], NEW c,
           \A x \in S : f[x] # 0 => c[x] \in K
    PROVE  SumFunction([k \in K |-> SumFunction(Part(f, c, k))]) = SumFunction(f)
<1> DEFINE On(u) == [x \in S |-> IF x \in u THEN f[x] ELSE 0]
           Parts(h) == [k \in K |-> SumFunction(Part(h, c, k))]
           G == {u \in SUBSET S : SumFunction(Parts(On(u))) = SumFunction(On(u))}
<1>1. \A u : On(u) \in [S -> Int]
  OBVIOUS
<1>2. \A h \in [S -> Int] : Parts(h) \in [K -> Int]
  BY PartInt, SumInt
<1>3. {} \in G
  <2>1. \A x \in S : On({})[x] = 0
    OBVIOUS
  <2>2. ASSUME NEW k \in K PROVE Parts(On({}))[k] = 0
    <3>1. \A x \in S : Part(On({}), c, k)[x] = 0
      BY DEF Part
    <3>2. Part(On({}), c, k) \in [S -> Int]
      BY <1>1, PartInt
    <3> QED BY <3>1, <3>2, SumZero
  <2> HIDE DEF On, Parts
  <2>3. SumFunction(On({})) = 0
    BY <1>1, <2>1, SumZero
  <2>4. SumFunction(Parts(On({}))) = 0
    BY <1>1, <1>2, <2>2, SumZero
  <2> QED BY <2>3, <2>4
<1>4. ASSUME NEW u \in SUBSET S, u # {}, u \ {Pick(u)} \in G PROVE u \in G
  <2> DEFINE t == Pick(u)
             v == u \ {t}
             a == On(v)
             b == On(u)
  <2>1. t \in u /\ t \in S
    BY <1>4, Picked
  <2>2. a[t] = 0 /\ b[t] = f[t] /\ (\A x \in S \ {t} : b[x] = a[x])
    BY <2>1
  <2>3. a \in [S -> Int] /\ b \in [S -> Int] /\ f[t] \in Int
    BY <1>1, <2>1
  <2>4. SumFunction(Parts(a)) = SumFunction(a)
    BY <1>4
  <2> HIDE DEF On, t, v, a, b
  <2>5. SumFunction(b) = SumFunction(a) + f[t]
    <3>1. SumFunction(b) = SumFunction(a) + (b[t] - a[t])
      BY <2>1, <2>2, <2>3, SumMoves
    <3> QED BY <2>2, <2>3, <3>1
  <2>6. ASSUME NEW k \in K
        PROVE  Parts(b)[k] = Parts(a)[k] + (IF c[t] = k THEN f[t] ELSE 0)
    <3> DEFINE p == Part(a, c, k)
               q == Part(b, c, k)
    <3>1. p \in [S -> Int] /\ q \in [S -> Int]
      BY <2>3, PartInt
    <3>2. /\ \A x \in S \ {t} : q[x] = p[x]
          /\ p[t] = 0 /\ q[t] = (IF c[t] = k THEN f[t] ELSE 0)
      BY <2>1, <2>2, <2>3 DEF Part
    <3> HIDE DEF p, q
    <3>3. SumFunction(q) = SumFunction(p) + (q[t] - p[t])
      BY <2>1, <3>1, <3>2, SumMoves
    <3>4. SumFunction(q) = SumFunction(p) + (IF c[t] = k THEN f[t] ELSE 0)
      BY <2>3, <3>2, <3>3
    <3> QED BY <3>4 DEF p, q
  <2>7. Parts(a) \in [K -> Int] /\ Parts(b) \in [K -> Int]
    BY <1>2, <2>3
  <2>8. SumFunction(a) \in Int /\ SumFunction(Parts(a)) \in Int
    BY <2>3, <2>7, SumInt
  <2> DEFINE A == Parts(a)
             B == Parts(b)
  <2>9. SumFunction(B) = SumFunction(A) + f[t]
    <3>1. A \in [K -> Int] /\ B \in [K -> Int]
      BY <2>7
    <3>2. \A k \in K : B[k] = A[k] + (IF c[t] = k THEN f[t] ELSE 0)
      BY <2>6
    <3> HIDE DEF A, B
    <3>3. CASE f[t] = 0
      <4>1. \A k \in K : B[k] = A[k]
        BY <3>1, <3>2, <3>3
      <4>2. A = B
        BY <3>1, <4>1
      <4>3. SumFunction(A) \in Int
        BY <3>1, SumInt
      <4> QED BY <3>3, <4>2, <4>3
    <3>4. CASE f[t] # 0
      <4>1. c[t] \in K
        BY <2>1, <3>4
      <4>2. B[c[t]] = A[c[t]] + f[t] /\ \A k \in K \ {c[t]} : B[k] = A[k]
        BY <2>3, <3>1, <3>2, <4>1
      <4>3. SumFunction(B) = SumFunction(A) + (B[c[t]] - A[c[t]])
        BY <3>1, <4>1, <4>2, SumMoves
      <4>4. B[c[t]] - A[c[t]] = f[t]
        BY <2>3, <3>1, <4>1, <4>2
      <4> QED BY <4>3, <4>4
    <3> QED BY <3>3, <3>4
  <2> QED BY <2>4, <2>5, <2>9 DEF a, b, t, v
<1>5. SUBSET S \subseteq G
  <2> HIDE DEF G
  <2> QED BY <1>3, <1>4, SubsetInduction
<1>6. On(S) = f
  OBVIOUS
<1> QED BY <1>5, <1>6

-----------------------------------------------------------------------------
(* Conservation.  The invariant LedgerInv follows each ledger by the histories
   of the sessions; IndInv then turns histories into books. *)

(* The subscription a session uses is known once preConsume succeeded. *)
Uses(r) == r.src = "sub" /\ r.pc \notin Starting

(* What the legs of all sessions took from the wallet and the key, and from the
   subscription k. *)
WalletTaken == SumFunction([s \in Sessions |-> posted[s].wallet])
KeyTaken == SumFunction([s \in Sessions |-> posted[s].key])
TakenFrom(k) ==
    SumFunction(Part([s \in Sessions |-> posted[s].sub], [s \in Sessions |-> sess[s].sub], k))

(* Every ledger is what the sessions' legs made of it. *)
LedgerInv ==
    /\ wallet + WalletTaken = InitWallet
    /\ key + KeyTaken = InitKey
    /\ \A k \in Subs : subUsed[k] <= TakenFrom(k)
    /\ periods = 0 => \A k \in Subs : ~resetDue[k] /\ subUsed[k] = TakenFrom(k)

(* The write of a step of session s. *)
Writes(s) ==
    \/ NoWrite
    \/ \E n \in Int : AdjustUserQuota(s, n)
    \/ \E n \in Int : AdjustTokenQuota(s, n)
    \/ Uses(sess[s]) /\ \E d \in Int : PostConsumeSubscription(s, sess[s].sub, d)
    \/ /\ sess[s].pc = "preFunding" /\ sess'[s].sub \in Subs
       /\ PreConsumeSubscription(s, sess'[s].sub, sess[s].arg)

(* Only preConsume chooses a subscription. *)
LEMMA TrySub ==
    ASSUME NEW r \in SessionType, NEW src, NEW alt
    PROVE  Try(r, src, alt).sub = r.sub /\ NextSource(r).sub = r.sub
BY DEF Try, NextSource, SessionType

LEMMA BecomesIs ==
    ASSUME TypeOK, NEW s \in Sessions, NEW z, Becomes(s, z)
    PROVE  sess'[s] = z
BY DEF TypeOK, Becomes

LEMMA SubIsKept ==
    ASSUME TypeOK, NEW s \in Sessions,
           Begin(s) \/ PreConsume(s) \/ Reserve(s) \/ Settle(s) \/ RefundStep(s)
    PROVE  \/ sess'[s].sub = sess[s].sub
           \/ /\ sess[s].pc = "preFunding" /\ sess[s].src = "sub" /\ sess'[s].sub \in Subs
              /\ PreConsumeSubscription(s, sess'[s].sub, sess[s].arg)
<1> DEFINE r == sess[s]
<1>0. r \in SessionType
  BY DEF TypeOK
<1>1. CASE Begin(s)
  <2>2. ASSUME NEW pref, NEW n \in Amounts, NEW play \in PlaygroundModes,
               NewBillingSession(s, pref, n, play)
        PROVE  sess'[s].sub = r.sub
    <3> DEFINE y == [r EXCEPT !.q = n, !.play = play,
                              !.trusted = KeyUnlimited \/ key > TrustQuota]
    <3>1. n \in Nat /\ play \in BOOLEAN /\ (KeyUnlimited \/ key > TrustQuota) \in BOOLEAN
      BY <2>2, ConstantsAssumption
    <3>2. y \in SessionType
      BY <1>0, <3>1, PutNat, PutFlag
    <3>3. y.sub = r.sub
      BY <1>0, <3>1 DEF SessionType
    <3>4. Becomes(s, Try(y, FirstSource(pref), Fallback(pref)))
      BY <2>2 DEF NewBillingSession
    <3> HIDE DEF y
    <3> QED BY <3>2, <3>3, <3>4, TrySub, BecomesIs
  <2>3. ASSUME NEW a, NEW play, SettleWithoutSession(s, a, play)
        PROVE  sess'[s].sub = r.sub
    BY ZenonT(60), <1>0, <2>3, BecomesIs DEF SettleWithoutSession, SessionType
  <2> QED BY <1>1, <2>2, <2>3 DEF Begin
<1>2. CASE PreConsume(s)
  <2>1. CASE CheckWallet(s)
    <3> DEFINE n == IF ShouldTrust(r) THEN 0 ELSE r.q
               z == [r EXCEPT !.trusted = ShouldTrust(r), !.arg = n,
                              !.pc = IF n = 0 THEN "open" ELSE "preToken"]
    <3>1. z.sub = r.sub
      BY <1>0 DEF SessionType
    <3>2. Becomes(s, NextSource(r)) \/ Becomes(s, z)
      BY <2>1 DEF CheckWallet
    <3> HIDE DEF z
    <3> QED BY <1>0, <3>1, <3>2, TrySub, BecomesIs
  <2>6. CASE CheckFails(s) \/ PreConsumeTokenFails(s)
    BY <1>0, <2>6, BecomesIs DEF CheckFails, PreConsumeTokenFails, SessionType
  <2>7. CASE PreConsumeToken(s)
    BY <1>0, <2>7, BecomesIs DEF PreConsumeToken, SessionType
  <2>2. CASE PreConsumeFunding(s)
    <3>1. CASE Becomes(s, [r EXCEPT !.pc = "open", !.pre = r.arg, !.consumed = r.arg])
      BY <1>0, <3>1, BecomesIs DEF SessionType
    <3>2. ASSUME r.src = "sub", NEW k \in Subs, PreConsumeSubscription(s, k, r.arg),
               Becomes(s, [r EXCEPT !.pc = "open", !.pre = r.arg, !.subPre = r.arg,
                                    !.sub = k, !.trusted = FALSE])
          PROVE  sess'[s].sub = k
      BY <1>0, <3>2, BecomesIs DEF SessionType
    <3> QED BY <2>2, <3>1, <3>2 DEF PreConsumeFunding
  <2>3. ASSUME NEW insufficient \in BOOLEAN, PreConsumeFundingFails(s, insufficient)
        PROVE  sess'[s].sub = r.sub
    <3> DEFINE f == IF insufficient THEN r ELSE [r EXCEPT !.alt = "none"]
    <3>1. f \in SessionType /\ f.sub = r.sub
      BY <1>0, PutSource DEF SessionType
    <3>2. Becomes(s, NextSource(f)) \/ Becomes(s, [f EXCEPT !.pc = "preRollback"])
      BY <2>3 DEF PreConsumeFundingFails
    <3> HIDE DEF f
    <3>3. [f EXCEPT !.pc = "preRollback"].sub = r.sub
      BY <3>1 DEF SessionType
    <3> QED BY <3>1, <3>2, <3>3, TrySub, BecomesIs
  <2>4. CASE PreConsumeRollback(s)
    <3>1. [r EXCEPT !.tok = 0] \in SessionType /\ [r EXCEPT !.tok = 0].sub = r.sub
      BY ZenonT(60), <1>0, PutNat DEF SessionType
    <3> QED BY <2>4, <3>1, TrySub, BecomesIs DEF PreConsumeRollback
  <2>5. CASE PreConsumeRollbackFails(s)
    BY <1>0, <2>5, BecomesIs DEF PreConsumeRollbackFails, SessionType
  <2> QED BY <1>2, <2>1, <2>2, <2>3, <2>4, <2>5, <2>6, <2>7 DEF PreConsume
<1>3. CASE Reserve(s)
  <2>1. ASSUME NEW target \in Amounts, ReserveFunding(s, target) PROVE sess'[s].sub = r.sub
    BY ZenonT(60), <1>0, <2>1, BecomesIs DEF ReserveFunding, SessionType
  <2>2. CASE ReserveToken(s)
    BY <1>0, <2>2, BecomesIs DEF ReserveToken, SessionType
  <2>3. CASE ReserveTokenFails(s)
    BY <1>0, <2>3, BecomesIs DEF ReserveTokenFails, SessionType
  <2>4. CASE ReserveRollback(s)
    BY <1>0, <2>4, BecomesIs DEF ReserveRollback, SessionType
  <2>5. CASE ReserveRollbackFails(s)
    BY <1>0, <2>5, BecomesIs DEF ReserveRollbackFails, SessionType
  <2> QED BY <1>3, <2>1, <2>2, <2>3, <2>4, <2>5 DEF Reserve
<1>4. CASE Settle(s)
  <2>1. ASSUME NEW a \in Amounts, SettleFunding(s, a) PROVE sess'[s].sub = r.sub
    BY <1>0, <2>1, BecomesIs DEF SettleFunding, SessionType
  <2>2. ASSUME NEW a \in Amounts, SettleExceeds(s, a) PROVE sess'[s].sub = r.sub
    BY <1>0, <2>2, BecomesIs DEF SettleExceeds, SessionType
  <2>3. CASE SettleOverage(s)
    BY <1>0, <2>3, BecomesIs DEF SettleOverage, SessionType
  <2>4. CASE SettleOverageFails(s)
    BY <1>0, <2>4, BecomesIs DEF SettleOverageFails, SessionType
  <2>5. CASE SettleToken(s)
    BY <1>0, <2>5, BecomesIs DEF SettleToken, SessionType
  <2>6. CASE SettleTokenFails(s)
    BY <1>0, <2>6, BecomesIs DEF SettleTokenFails, SessionType
  <2> QED BY <1>4, <2>1, <2>2, <2>3, <2>4, <2>5, <2>6 DEF Settle
<1>5. CASE RefundStep(s)
  <2>1. CASE Refund(s)
    BY <1>0, <2>1, BecomesIs DEF Refund, SessionType
  <2>2. CASE RefundWalletLeg(s)
    BY <1>0, <2>2, BecomesIs DEF RefundWalletLeg, SessionType
  <2>3. CASE RefundSubscriptionLeg(s)
    BY <1>0, <2>3, BecomesIs DEF RefundSubscriptionLeg, SessionType
  <2>4. CASE RefundSubscriptionRetry(s)
    BY ZenonT(60), <1>0, <2>4, BecomesIs DEF RefundSubscriptionRetry, SessionType
  <2>5. CASE RefundExtraLeg(s)
    BY <1>0, <2>5, BecomesIs DEF RefundExtraLeg, SessionType
  <2>6. CASE RefundTokenLeg(s)
    BY <1>0, <2>6, BecomesIs DEF RefundTokenLeg, SessionType
  <2>7. CASE RefundLegFails(s)
    BY <1>0, <2>7, BecomesIs DEF RefundLegFails, SessionType
  <2>8. CASE RefundDone(s)
    BY <1>0, <2>8, BecomesIs DEF RefundDone, SessionType
  <2> QED BY <1>5, <2>1, <2>2, <2>3, <2>4, <2>5, <2>6, <2>7, <2>8 DEF RefundStep
<1> QED BY <1>1, <1>2, <1>3, <1>4, <1>5

LEMMA StepWrites ==
    ASSUME IndInv, NEW s \in Sessions,
           Begin(s) \/ PreConsume(s) \/ Reserve(s) \/ Settle(s) \/ RefundStep(s)
    PROVE  Writes(s)
<1>0. TypeOK /\ sess[s] \in SessionType
  BY DEF IndInv, TypeOK
<1>n. /\ sess[s].arg \in Int /\ 0 - sess[s].arg \in Int
      /\ 0 - sess[s].subPre \in Int /\ 0 - sess[s].extra \in Int
      /\ 0 - sess[s].consumed \in Int /\ 0 - sess[s].tok \in Int
      /\ sess[s].pre \in Nat /\ sess[s].unres \in Nat
      /\ sess[s].arg - (sess[s].pre + sess[s].unres) \in Int
      /\ sess[s].arg - sess[s].tok \in Int
  BY <1>0 DEF SessionType
<1>a. \A a \in Amounts : /\ a \in Int /\ a - sess[s].pre \in Int
                         /\ a - (sess[s].pre + sess[s].unres) \in Int
  <2> TAKE a \in Amounts
  <2>1. a \in Nat
    BY ConstantsAssumption
  <2> QED BY <1>n, <2>1
<1>p. {"open", "overage", "rsvRollback", "refund", "setToken"} \cap Starting = {}
  BY DEF Starting
<1>1. CASE Begin(s)
  BY ZenonT(60), <1>1, <1>a DEF Begin, NewBillingSession, SettleWithoutSession, Writes
<1>2. CASE PreConsume(s)
  <2>1. CASE PreConsumeFunding(s)
    <3>1. CASE sess[s].src = "wallet" /\ AdjustUserQuota(s, sess[s].arg)
      BY <1>n, <3>1 DEF Writes
    <3>2. ASSUME NEW k \in Subs, PreConsumeSubscription(s, k, sess[s].arg),
               Becomes(s, [sess[s] EXCEPT !.pc = "open", !.pre = sess[s].arg,
                                          !.subPre = sess[s].arg, !.sub = k,
                                          !.trusted = FALSE])
          PROVE  sess'[s].sub = k
      BY <1>0, <3>2, BecomesIs DEF SessionType
    <3> QED BY <2>1, <3>1, <3>2 DEF PreConsumeFunding, Writes, ReserveUserQuota
  <2> QED
    BY ZenonT(60), <1>2, <1>n, <2>1 DEF PreConsume, CheckWallet, CheckFails,
     PreConsumeToken, PreConsumeTokenFails, PreConsumeFundingFails,
     PreConsumeRollback, PreConsumeRollbackFails, ReserveTokenQuota, Writes
<1>3. CASE Reserve(s)
  BY ZenonT(60), <1>3, <1>n, <1>a, <1>p DEF Reserve, ReserveFunding,
     ReserveToken, ReserveTokenFails, ReserveRollback, ReserveRollbackFails,
     ReserveTokenQuota, ReserveUserQuota, Writes, Uses
<1>4. CASE Settle(s)
  BY ZenonT(60), <1>4, <1>n, <1>a, <1>p DEF Settle, SettleFunding,
     SettleExceeds, SettleOverage, SettleOverageFails, SettleToken, SettleTokenFails,
     FundingDelta, Writes, Uses
<1>5. CASE RefundStep(s)
  BY ZenonT(60), <1>5, <1>n, <1>p DEF RefundStep, Refund, RefundWalletLeg,
     RefundSubscriptionLeg, RefundSubscriptionRetry, RefundExtraLeg, RefundTokenLeg,
     RefundLegFails, RefundDone, RefundSubscriptionPreConsume, Writes, Uses, ExtraPending
<1> QED BY <1>1, <1>2, <1>3, <1>4, <1>5

(* Sums over the histories of the sessions, when only session s moves. *)
LEMMA TakenMoves ==
    ASSUME TypeOK, TypeOK', NEW s \in Sessions, Alone(s)
    PROVE  /\ WalletTaken' = WalletTaken + (posted'[s].wallet - posted[s].wallet)
           /\ KeyTaken' = KeyTaken + (posted'[s].key - posted[s].key)
<1>0. IsFiniteSet(Sessions)
  BY ConstantsAssumption
<1>1. \A t \in Sessions :
        posted[t].wallet \in Int /\ posted'[t].wallet \in Int
        /\ posted[t].key \in Int /\ posted'[t].key \in Int
  BY DEF TypeOK, PostedType
<1> DEFINE f == [t \in Sessions |-> posted[t].wallet]
           g == [t \in Sessions |-> posted'[t].wallet]
           h == [t \in Sessions |-> posted[t].key]
           i == [t \in Sessions |-> posted'[t].key]
<1>2. /\ f \in [Sessions -> Int] /\ g \in [Sessions -> Int]
      /\ h \in [Sessions -> Int] /\ i \in [Sessions -> Int]
  BY <1>1
<1>3. /\ \A x \in Sessions \ {s} : g[x] = f[x]
      /\ \A x \in Sessions \ {s} : i[x] = h[x]
  BY DEF Alone
<1>4. /\ f[s] = posted[s].wallet /\ g[s] = posted'[s].wallet
      /\ h[s] = posted[s].key /\ i[s] = posted'[s].key
  OBVIOUS
<1>5. /\ WalletTaken = SumFunction(f) /\ WalletTaken' = SumFunction(g)
      /\ KeyTaken = SumFunction(h) /\ KeyTaken' = SumFunction(i)
  BY DEF WalletTaken, KeyTaken
<1> HIDE DEF f, g, h, i
<1>6. SumFunction(g) = SumFunction(f) + (g[s] - f[s])
  BY <1>0, <1>2, <1>3, SumMoves
<1>7. SumFunction(i) = SumFunction(h) + (i[s] - h[s])
  BY <1>0, <1>2, <1>3, SumMoves
<1> QED BY <1>4, <1>5, <1>6, <1>7

(* What session s took from subscription k. *)
From(r, p, k) == IF r.sub = k THEN p.sub ELSE 0

LEMMA TakenFromMoves ==
    ASSUME TypeOK, TypeOK', NEW s \in Sessions, Alone(s), NEW k
    PROVE  TakenFrom(k)' = TakenFrom(k) + (From(sess'[s], posted'[s], k)
                                           - From(sess[s], posted[s], k))
<1>0. IsFiniteSet(Sessions)
  BY ConstantsAssumption
<1>1. \A t \in Sessions : posted[t].sub \in Int /\ posted'[t].sub \in Int
  BY DEF TypeOK, PostedType
<1> DEFINE f == [t \in Sessions |-> From(sess[t], posted[t], k)]
           g == [t \in Sessions |-> From(sess'[t], posted'[t], k)]
<1>2. f \in [Sessions -> Int] /\ g \in [Sessions -> Int]
  BY <1>1 DEF From
<1>3. \A x \in Sessions \ {s} : g[x] = f[x]
  BY DEF Alone
<1>4. f[s] = From(sess[s], posted[s], k) /\ g[s] = From(sess'[s], posted'[s], k)
  OBVIOUS
<1>5. TakenFrom(k) = SumFunction(f)
  <2>1. f = Part([t \in Sessions |-> posted[t].sub], [t \in Sessions |-> sess[t].sub], k)
    BY DEF Part, From
  <2> QED BY <2>1 DEF TakenFrom
<1>6. TakenFrom(k)' = SumFunction(g)
  <2>1. g = Part([t \in Sessions |-> posted'[t].sub], [t \in Sessions |-> sess'[t].sub], k)
    BY DEF Part, From
  <2> QED BY <2>1 DEF TakenFrom
<1> HIDE DEF f, g
<1>7. SumFunction(g) = SumFunction(f) + (g[s] - f[s])
  BY <1>0, <1>2, <1>3, SumMoves
<1> QED BY <1>4, <1>5, <1>6, <1>7

(* The usage a session accounts for is never negative. *)
LEMMA SubUsageNat ==
    ASSUME NEW r \in SessionType, NEW p, NEW c, SessionInv(r, p, c)
    PROVE  p.sub \in Nat
<1>1. p.sub = SubBook(r) - Unacknowledged(r, c)
  BY DEF SessionInv
<1>2. CASE Charged(r)
  BY <1>1, <1>2 DEF SessionInv, ChargedInv, SubBook, Unacknowledged, SessionType
<1>3. CASE ~Charged(r)
  <2>1. r.src # "sub" => Unacknowledged(r, c) = 0
    BY DEF SessionInv, SourceInv, StartingInv, Unacknowledged, SessionType
  <2>2. c = "refunded" => r.pc \in Refunding
    BY <1>3 DEF SessionInv, StartingInv, ReservedInv, Starting, Reserved, Refunding,
       Charged, SessionType, Places, Busy, Rest, Final
  <2> QED BY <1>1, <1>3, <2>1, <2>2 DEF SubBook, FinancialHold, Unacknowledged,
       SessionType, SessionInv, RefundingInv, Refunding, ExtraPending
<1> QED BY <1>2, <1>3

LEMMA PartsNat ==
    ASSUME NEW f \in [Sessions -> Nat], NEW c, NEW k
    PROVE  SumFunction(Part(f, c, k)) \in Nat
<1>1. Part(f, c, k) \in [Sessions -> Int] /\ \A t \in Sessions : Part(f, c, k)[t] >= 0
  BY DEF Part
<1>2. IsFiniteSet(Sessions)
  BY ConstantsAssumption
<1>3. SumFunction(Part(f, c, k)) \in Int /\ SumFunction(Part(f, c, k)) >= 0
  BY <1>1, <1>2, SumInt, SumNat
<1> QED BY <1>3

LEMMA TakenNat ==
    ASSUME NEW k
    PROVE  /\ IndInv => TakenFrom(k) \in Nat
           /\ IndInv' => TakenFrom(k)' \in Nat
<1>1. ASSUME IndInv PROVE TakenFrom(k) \in Nat
  <2>1. [t \in Sessions |-> posted[t].sub] \in [Sessions -> Nat]
    BY <1>1, Mine, SubUsageNat
  <2> QED BY <2>1, PartsNat DEF TakenFrom
<1>2. ASSUME IndInv' PROVE TakenFrom(k)' \in Nat
  <2>1. ASSUME NEW t \in Sessions PROVE posted'[t].sub \in Nat
    <3>1. sess'[t] \in SessionType /\ SessionInv(sess'[t], posted'[t], record'[t])
      BY <1>2 DEF IndInv, TypeOK
    <3> QED BY <3>1, SubUsageNat
  <2>2. [t \in Sessions |-> posted'[t].sub] \in [Sessions -> Nat]
    BY <2>1
  <2> QED BY <2>2, PartsNat DEF TakenFrom
<1> QED BY <1>1, <1>2

LEMMA TakenInt ==
    ASSUME TypeOK
    PROVE  WalletTaken \in Int /\ KeyTaken \in Int
<1> DEFINE f == [t \in Sessions |-> posted[t].wallet]
           g == [t \in Sessions |-> posted[t].key]
<1>1. f \in [Sessions -> Int] /\ g \in [Sessions -> Int]
  BY DEF TypeOK, PostedType
<1>2. IsFiniteSet(Sessions)
  BY ConstantsAssumption
<1> HIDE DEF f, g
<1>3. SumFunction(f) \in Int /\ SumFunction(g) \in Int
  BY <1>1, <1>2, SumInt
<1> QED BY <1>3 DEF f, g, WalletTaken, KeyTaken

(* The four kinds of writes keep LedgerInv. *)
LEMMA QuotaWriteConserves ==
    ASSUME IndInv, IndInv', LedgerInv, NEW s \in Sessions, Alone(s),
           sess'[s].sub = sess[s].sub, NEW n \in Int,
           NoWrite \/ AdjustUserQuota(s, n) \/ AdjustTokenQuota(s, n)
    PROVE  LedgerInv'
<1>0. TypeOK /\ TypeOK'
  BY DEF IndInv
<1>1. posted[s] \in PostedType /\ wallet \in Int /\ key \in Int
  BY <1>0 DEF TypeOK
<1>2. /\ posted'[s].sub = posted[s].sub
      /\ wallet' + (posted'[s].wallet - posted[s].wallet) = wallet
      /\ key' + (posted'[s].key - posted[s].key) = key
  BY SMTT(60), <1>0, <1>1 DEF TypeOK, PostedType, NoWrite, AdjustUserQuota, AdjustTokenQuota, ledgers
<1>3. subUsed' = subUsed /\ resetDue' = resetDue /\ periods' = periods
  BY DEF NoWrite, AdjustUserQuota, AdjustTokenQuota, ledgers, subVars
<1>4. ASSUME NEW k \in Subs PROVE TakenFrom(k)' = TakenFrom(k)
  <2>1. From(sess'[s], posted'[s], k) = From(sess[s], posted[s], k)
    BY <1>2 DEF From
  <2>2. From(sess[s], posted[s], k) \in Int /\ TakenFrom(k) \in Int
    BY <1>1, TakenNat DEF From, PostedType
  <2> QED BY <1>0, <2>1, <2>2, TakenFromMoves
<1>5. wallet' + WalletTaken' = InitWallet /\ key' + KeyTaken' = InitKey
  <2>1. /\ posted[s].wallet \in Int /\ posted'[s].wallet \in Int
        /\ posted[s].key \in Int /\ posted'[s].key \in Int
        /\ wallet' \in Int /\ key' \in Int
    BY <1>0 DEF TypeOK, PostedType
  <2> QED BY <1>0, <1>1, <1>2, <2>1, TakenInt, TakenMoves DEF LedgerInv
<1> QED BY <1>3, <1>4, <1>5 DEF LedgerInv

LEMMA PostConsumeConserves ==
    ASSUME IndInv, IndInv', LedgerInv, NEW s \in Sessions, Alone(s),
           sess'[s].sub = sess[s].sub, Uses(sess[s]), NEW d \in Int,
           PostConsumeSubscription(s, sess[s].sub, d)
    PROVE  LedgerInv'
<1> DEFINE u == sess[s].sub
<1>0. TypeOK /\ TypeOK'
  BY DEF IndInv
<1>1. posted[s] \in PostedType /\ wallet \in Int /\ key \in Int
  BY <1>0 DEF TypeOK
<1>2. u \in Subs
  BY Mine DEF Uses, SessionInv, SourceInv
<1>3. /\ posted'[s].sub = posted[s].sub + d
      /\ posted'[s].wallet = posted[s].wallet /\ posted'[s].key = posted[s].key
      /\ wallet' = wallet /\ key' = key /\ periods' = periods /\ resetDue' = resetDue
  BY <1>0, <1>1 DEF TypeOK, PostedType, PostConsumeSubscription
<1>4. /\ subUsed \in [Subs -> Nat] /\ subUsed' = [subUsed EXCEPT ![u] = NewUsed(u, d)]
  BY <1>0 DEF TypeOK, PostConsumeSubscription
<1> HIDE DEF u
<1>5. ASSUME NEW k \in Subs
      PROVE  /\ k = u => TakenFrom(k)' = TakenFrom(k) + d
             /\ k # u => TakenFrom(k)' = TakenFrom(k)
  <2>1. posted[s].sub \in Int /\ TakenFrom(k) \in Int
    BY <1>1, TakenNat DEF PostedType
  <2> QED BY <1>0, <1>3, <2>1, TakenFromMoves DEF From, u
<1>6. ASSUME NEW k \in Subs PROVE TakenFrom(k) \in Nat /\ TakenFrom(k)' \in Nat
  BY TakenNat
<1>7. ASSUME NEW k \in Subs
      PROVE  /\ subUsed'[k] <= TakenFrom(k)'
             /\ periods = 0 => subUsed'[k] = TakenFrom(k)'
  <2>1. subUsed[k] <= TakenFrom(k) /\ (periods = 0 => subUsed[k] = TakenFrom(k))
    BY DEF LedgerInv
  <2>2. CASE k = u
    BY <1>2, <1>4, <1>5, <1>6, <2>1, <2>2 DEF NewUsed
  <2>3. CASE k # u
    BY <1>4, <1>5, <2>1, <2>3
  <2> QED BY <2>2, <2>3
<1>8. wallet' + WalletTaken' = InitWallet /\ key' + KeyTaken' = InitKey
  BY <1>0, <1>1, <1>3, TakenInt, TakenMoves DEF LedgerInv, PostedType
<1> QED BY <1>3, <1>7, <1>8 DEF LedgerInv

LEMMA PreConsumeConserves ==
    ASSUME IndInv, IndInv', LedgerInv, NEW s \in Sessions, Alone(s),
           sess[s].pc = "preFunding", sess'[s].sub \in Subs,
           PreConsumeSubscription(s, sess'[s].sub, sess[s].arg)
    PROVE  LedgerInv'
<1> DEFINE u == sess'[s].sub
           n == sess[s].arg
<1>0. TypeOK /\ TypeOK'
  BY DEF IndInv
<1>1. posted[s] \in PostedType /\ wallet \in Int /\ key \in Int /\ n \in Nat
  BY <1>0 DEF TypeOK, SessionType
<1>2. posted[s].sub = 0
  <2>1. /\ posted[s].sub = SubBook(sess[s]) - Unacknowledged(sess[s], record[s])
        /\ StartingInv(sess[s], record[s])
    <3>1. SessionInv(sess[s], posted[s], record[s])
      BY Mine
    <3>2. sess[s].pc \in Starting
      BY DEF Starting
    <3> QED BY <3>1, <3>2 DEF SessionInv
  <2> QED BY <2>1 DEF StartingInv, SubBook, Unacknowledged, FinancialHold, Charged
<1>3. /\ posted'[s].sub = n
      /\ posted'[s].wallet = posted[s].wallet /\ posted'[s].key = posted[s].key
      /\ wallet' = wallet /\ key' = key /\ periods' = periods
  BY <1>0, <1>1, <1>2 DEF TypeOK, PostedType, PreConsumeSubscription
<1>4. /\ subUsed \in [Subs -> Nat] /\ resetDue \in [Subs -> BOOLEAN]
      /\ subUsed' = [j \in Subs |-> IF j = u THEN UsedAfterReset(u) + n
                                    ELSE IF j < u /\ subActive[j] THEN UsedAfterReset(j)
                                    ELSE subUsed[j]]
      /\ resetDue' = [j \in Subs |-> resetDue[j] /\ ~(j <= u /\ subActive[j])]
  BY <1>0 DEF TypeOK, PreConsumeSubscription
<1>5. ASSUME NEW k \in Subs
      PROVE  /\ TakenFrom(k) \in Nat
             /\ k = u => TakenFrom(k)' = TakenFrom(k) + n
             /\ k # u => TakenFrom(k)' = TakenFrom(k)
  <2>1. TakenFrom(k) \in Nat
    BY TakenNat
  <2>2. TakenFrom(k)' = TakenFrom(k) + (From(sess'[s], posted'[s], k)
                                           - From(sess[s], posted[s], k))
    BY <1>0, TakenFromMoves
  <2>3. From(sess[s], posted[s], k) = 0
    BY <1>2 DEF From
  <2>4. From(sess'[s], posted'[s], k) = IF k = u THEN n ELSE 0
    BY <1>3 DEF From
  <2> QED BY <1>1, <2>1, <2>2, <2>3, <2>4
<1>6. u \in Subs
  OBVIOUS
<1> HIDE DEF u, n
<1>7. ASSUME NEW k \in Subs
      PROVE  /\ subUsed'[k] <= TakenFrom(k)'
             /\ periods = 0 => subUsed'[k] = TakenFrom(k)' /\ ~resetDue'[k]
  <2>1. /\ subUsed[k] <= TakenFrom(k)
        /\ periods = 0 => subUsed[k] = TakenFrom(k) /\ ~resetDue[k]
    BY DEF LedgerInv
  <2>2. /\ subUsed[k] \in Nat /\ UsedAfterReset(k) \in Nat
        /\ UsedAfterReset(k) <= subUsed[k]
        /\ ~resetDue[k] => UsedAfterReset(k) = subUsed[k]
    BY <1>4 DEF UsedAfterReset
  <2>3. CASE k = u
    BY <1>1, <1>4, <1>5, <2>1, <2>2, <2>3
  <2>4. CASE k # u
    <3>1. subUsed'[k] = UsedAfterReset(k) \/ subUsed'[k] = subUsed[k]
      BY <1>4, <2>4
    <3>2. ~resetDue[k] => ~resetDue'[k]
      BY <1>4
    <3> QED BY <1>5, <2>1, <2>2, <2>4, <3>1, <3>2
  <2> QED BY <2>3, <2>4
<1>8. wallet' + WalletTaken' = InitWallet /\ key' + KeyTaken' = InitKey
  BY <1>0, <1>1, <1>3, TakenInt, TakenMoves DEF LedgerInv, PostedType
<1> QED BY <1>3, <1>7, <1>8 DEF LedgerInv

LEMMA StepConserves ==
    ASSUME IndInv, IndInv', LedgerInv, NEW s \in Sessions,
           Begin(s) \/ PreConsume(s) \/ Reserve(s) \/ Settle(s) \/ RefundStep(s)
    PROVE  LedgerInv'
<1>1. Alone(s) /\ Writes(s)
  BY StepsAlone, StepWrites DEF IndInv
<1>2. \/ sess'[s].sub = sess[s].sub
      \/ /\ sess[s].pc = "preFunding" /\ sess'[s].sub \in Subs
         /\ PreConsumeSubscription(s, sess'[s].sub, sess[s].arg)
  BY SubIsKept DEF IndInv
<1>3. CASE /\ sess[s].pc = "preFunding" /\ sess'[s].sub \in Subs
           /\ PreConsumeSubscription(s, sess'[s].sub, sess[s].arg)
  BY <1>1, <1>3, PreConsumeConserves
<1>4. CASE sess'[s].sub = sess[s].sub /\ NoWrite
  <2>1. 0 \in Int
    OBVIOUS
  <2> QED BY <1>1, <1>4, <2>1, QuotaWriteConserves
<1>5. CASE /\ sess'[s].sub = sess[s].sub
           /\ \E n \in Int : AdjustUserQuota(s, n) \/ AdjustTokenQuota(s, n)
  BY <1>1, <1>5, QuotaWriteConserves
<1>6. CASE /\ sess'[s].sub = sess[s].sub /\ Uses(sess[s])
           /\ \E d \in Int : PostConsumeSubscription(s, sess[s].sub, d)
  BY <1>1, <1>6, PostConsumeConserves
<1> QED BY <1>1, <1>2, <1>3, <1>4, <1>5, <1>6 DEF Writes

LEMMA InitConserves == Init => LedgerInv
<1> SUFFICES ASSUME Init PROVE LedgerInv
  OBVIOUS
<1>0. IsFiniteSet(Sessions) /\ InitWallet \in Int /\ InitKey \in Int
  BY ConstantsAssumption
<1> DEFINE z == [t \in Sessions |-> 0]
<1>1. z \in [Sessions -> Int] /\ \A t \in Sessions : z[t] = 0
  OBVIOUS
<1>2. /\ [t \in Sessions |-> posted[t].wallet] = z /\ [t \in Sessions |-> posted[t].key] = z
      /\ [t \in Sessions |-> posted[t].sub] = z
  BY DEF Init
<1>3. ASSUME NEW k PROVE Part(z, [t \in Sessions |-> sess[t].sub], k) = z
  BY DEF Part
<1>4. ASSUME NEW k \in Subs PROVE subUsed[k] = 0 /\ ~resetDue[k]
  BY DEF Init
<1> HIDE DEF z
<1>5. SumFunction(z) = 0
  BY <1>0, <1>1, SumZero
<1>6. wallet + WalletTaken = InitWallet /\ key + KeyTaken = InitKey
  BY <1>0, <1>2, <1>5 DEF WalletTaken, KeyTaken, Init
<1>7. ASSUME NEW k \in Subs PROVE subUsed[k] = TakenFrom(k)
  BY <1>2, <1>3, <1>4, <1>5 DEF TakenFrom
<1>8. ASSUME NEW k \in Subs PROVE subUsed[k] <= TakenFrom(k)
  BY <1>4, <1>7
<1> QED BY <1>4, <1>6, <1>7, <1>8 DEF LedgerInv

(* A period that ends, and the reset that follows, may only lower the usage. *)
LEMMA LifeConserves ==
    ASSUME IndInv, LedgerInv, NEW k \in Subs,
           PeriodEnds(k) \/ ResetDueSubscription(k) \/ SubscriptionEnds(k)
    PROVE  LedgerInv'
<1>0. TypeOK
  BY DEF IndInv
<1>1. /\ sess' = sess /\ posted' = posted /\ wallet' = wallet /\ key' = key
  BY DEF PeriodEnds, ResetDueSubscription, SubscriptionEnds
<1>2. /\ WalletTaken' = WalletTaken /\ KeyTaken' = KeyTaken
      /\ \A j \in Subs : TakenFrom(j)' = TakenFrom(j)
  BY <1>1 DEF WalletTaken, KeyTaken, TakenFrom
<1>3. CASE PeriodEnds(k)
  <2>1. periods' # 0 /\ subUsed' = subUsed
    BY <1>0, <1>3 DEF PeriodEnds, TypeOK
  <2> QED BY <1>1, <1>2, <2>1 DEF LedgerInv
<1>4. CASE ResetDueSubscription(k)
  <2>1. periods # 0 /\ periods' = periods
    BY <1>4 DEF ResetDueSubscription, LedgerInv
  <2>2. ASSUME NEW j \in Subs PROVE subUsed'[j] <= TakenFrom(j)
    <3>1. subUsed[j] <= TakenFrom(j) /\ TakenFrom(j) \in Nat
      BY TakenNat DEF LedgerInv
    <3> QED BY <1>0, <1>4, <3>1 DEF ResetDueSubscription, TypeOK
  <2> QED BY <1>1, <1>2, <2>1, <2>2 DEF LedgerInv
<1>5. CASE SubscriptionEnds(k)
  BY <1>1, <1>2, <1>5 DEF SubscriptionEnds, LedgerInv
<1> QED BY <1>3, <1>4, <1>5

LEMMA NextConserves == IndInv /\ IndInv' /\ LedgerInv /\ [Next]_vars => LedgerInv'
<1> SUFFICES ASSUME IndInv, IndInv', LedgerInv, [Next]_vars PROVE LedgerInv'
  OBVIOUS
<1>1. CASE UNCHANGED vars
  <2>1. /\ WalletTaken' = WalletTaken /\ KeyTaken' = KeyTaken
        /\ \A j \in Subs : TakenFrom(j)' = TakenFrom(j)
    BY <1>1 DEF vars, WalletTaken, KeyTaken, TakenFrom
  <2> QED BY <1>1, <2>1 DEF vars, LedgerInv
<1> QED BY <1>1, StepConserves, LifeConserves DEF Next

(* Each ledger is what the legs of the sessions made of it: the wallet and the
   key exactly, a subscription up to the resets of its periods. *)
THEOREM LedgersFollow == Spec => []LedgerInv
<1>1. Init => LedgerInv
  BY InitConserves
<1>2. IndInv /\ IndInv' /\ LedgerInv /\ [Next]_vars => LedgerInv'
  BY NextConserves
<1> QED BY <1>1, <1>2, Inductive, PTL DEF Spec

LEMMA BooksAre ==
    ASSUME IndInv, NEW t \in Sessions
    PROVE  /\ posted[t].wallet = WalletBook(sess[t])
           /\ posted[t].sub = SubBook(sess[t]) - Unacknowledged(sess[t], record[t])
           /\ posted[t].key = KeyBook(sess[t])
<1>1. SessionInv(sess[t], posted[t], record[t])
  BY Mine
<1> QED BY <1>1 DEF SessionInv

(* The usage of all subscriptions, and what the requests account for. *)
LEMMA UsageIsSum ==
    ASSUME IndInv
    PROVE  /\ SumFunction([k \in Subs |-> TakenFrom(k)]) = SubUsageBooked
           /\ [k \in Subs |-> TakenFrom(k)] \in [Subs -> Int]
           /\ IsFiniteSet(Subs)
<1> DEFINE f == [t \in Sessions |-> posted[t].sub]
           c == [t \in Sessions |-> sess[t].sub]
<1>1. IsFiniteSet(Sessions)
  BY ConstantsAssumption
<1>2. IsFiniteSet(Subs)
  BY ConstantsAssumption, FS_Interval DEF Subs
<1>3. f \in [Sessions -> Int]
  BY DEF IndInv, TypeOK, PostedType
<1>4. ASSUME NEW t \in Sessions, f[t] # 0 PROVE c[t] \in Subs
  <2>1. sess[t] \in SessionType /\ SessionInv(sess[t], posted[t], record[t]) /\ posted[t].sub # 0
    BY <1>4, Mine
  <2>2. sess[t].src = "sub" /\ sess[t].pc \notin Starting
    <3>1. posted[t].sub = SubBook(sess[t]) - Unacknowledged(sess[t], record[t])
      BY <2>1 DEF SessionInv
    <3>2. sess[t].pc \notin Starting
      <4>1. CASE sess[t].pc \in Starting
        <5>1. StartingInv(sess[t], record[t])
          BY <2>1, <4>1 DEF SessionInv
        <5> QED BY <2>1, <3>1, <4>1, <5>1 DEF StartingInv, Starting, SubBook, Unacknowledged,
                   FinancialHold, Charged
      <4> QED BY <4>1
    <3>3. SourceInv(sess[t], record[t])
      BY <2>1, <3>2 DEF SessionInv
    <3> QED BY <2>1, <3>1, <3>2, <3>3 DEF SourceInv, SubBook, Unacknowledged, SessionType
  <2> QED BY <2>1, <2>2 DEF SessionInv, SourceInv
<1>5. f = [t \in Sessions |-> SubBook(sess[t]) - Unacknowledged(sess[t], record[t])]
  BY BooksAre
<1>6. SubUsageBooked = SumFunction(f)
  BY <1>5 DEF SubUsageBooked
<1>7. [k \in Subs |-> TakenFrom(k)] = [k \in Subs |-> SumFunction(Part(f, c, k))]
  BY DEF TakenFrom
<1>8. [k \in Subs |-> TakenFrom(k)] \in [Subs -> Int]
  BY TakenNat
<1> HIDE DEF f, c
<1>9. SumFunction([k \in Subs |-> SumFunction(Part(f, c, k))]) = SumFunction(f)
  BY <1>1, <1>2, <1>3, <1>4, SumOfParts
<1> QED BY <1>2, <1>6, <1>7, <1>8, <1>9

(* However the legs of concurrent requests interleave and fail, the wallet and
   the key lose exactly what the requests account for, and as long as no period
   ends so do the subscriptions: the clamp at zero in
   postConsumeUserSubscriptionDeltaTx is never reached. *)
THEOREM Conserved == Spec => []QuotaConserved
<1>1. IndInv /\ LedgerInv => QuotaConserved
  <2> SUFFICES ASSUME IndInv, LedgerInv PROVE QuotaConserved
    OBVIOUS
  <2>1. /\ [t \in Sessions |-> posted[t].wallet] = [t \in Sessions |-> WalletBook(sess[t])]
        /\ [t \in Sessions |-> posted[t].key] = [t \in Sessions |-> KeyBook(sess[t])]
    BY BooksAre
  <2>2. periods = 0 => SumFunction(subUsed) = SubUsageBooked
    <3>1. periods = 0 => subUsed = [k \in Subs |-> TakenFrom(k)]
      BY DEF LedgerInv, IndInv, TypeOK
    <3> QED BY <3>1, UsageIsSum
  <2> QED BY <2>1, <2>2 DEF QuotaConserved, LedgerInv, WalletTaken, KeyTaken
<1> QED BY <1>1, Inductive, LedgersFollow, PTL

(* Whenever periods end and are reset between the legs of a request, the plans
   never count usage that no request accounts for. *)
THEOREM NoPhantom == Spec => []NoPhantomUsage
<1>1. IndInv /\ LedgerInv => NoPhantomUsage
  <2> SUFFICES ASSUME IndInv, LedgerInv PROVE NoPhantomUsage
    OBVIOUS
  <2> DEFINE g == [k \in Subs |-> TakenFrom(k)]
  <2>1. subUsed \in [Subs -> Int] /\ \A k \in Subs : subUsed[k] <= g[k]
    BY DEF LedgerInv, IndInv, TypeOK
  <2>2. IsFiniteSet(Subs) /\ g \in [Subs -> Int] /\ SumFunction(g) = SubUsageBooked
    BY UsageIsSum
  <2> HIDE DEF g
  <2>3. SumFunction(subUsed) <= SumFunction(g)
    BY <2>1, <2>2, SumMonotone
  <2> QED BY <2>2, <2>3 DEF NoPhantomUsage
<1> QED BY <1>1, Inductive, LedgersFollow, PTL

(* Within a period, what concurrent requests pre-consume, reserve, settle and
   give back of a limited subscription never adds up to more than its total:
   the checks of PreConsumeUserSubscription and of
   postConsumeUserSubscriptionDeltaTx suffice, because the counter they look at
   is the sum of what the requests account for.  Each of these transactions is
   one step. *)
THEOREM NoOversale == Spec => []PlanNotOversold
<1>1. IndInv /\ LedgerInv /\ SubscriptionWithinTotal => PlanNotOversold
  <2> SUFFICES ASSUME IndInv, LedgerInv, SubscriptionWithinTotal, periods = 0,
                      NEW k \in Subs, SubTotal[k] > 0
               PROVE  BookedOn(k) <= SubTotal[k]
    BY DEF PlanNotOversold
  <2> DEFINE f == [t \in Sessions |-> posted[t].sub]
             c == [t \in Sessions |-> sess[t].sub]
             b == [t \in Sessions |->
                     IF sess[t].sub = k
                     THEN SubBook(sess[t]) - Unacknowledged(sess[t], record[t]) ELSE 0]
  <2>1. Part(f, c, k) = b
    BY BooksAre DEF Part
  <2>2. TakenFrom(k) = BookedOn(k)
    BY <2>1 DEF TakenFrom, BookedOn
  <2>3. subUsed[k] = TakenFrom(k) /\ subUsed[k] <= SubTotal[k]
    BY DEF LedgerInv, SubscriptionWithinTotal
  <2> QED BY <2>2, <2>3
<1> QED BY <1>1, Inductive, LedgersFollow, CounterWithin, PTL

(* How a step of session s may change the wallet: a reservation leaves it
   positive, any other debit is matched by the overrun of the session. *)
Covered(s) ==
    \/ wallet' >= 0
    \/ wallet' + Overrun(sess'[s]) >= wallet + Overrun(sess[s])

LEMMA OverrunNat ==
    ASSUME NEW r \in SessionType
    PROVE  /\ Overrun(r) \in Nat
           /\ ~Charged(r) => Overrun(r) = 0
BY DEF Overrun, Larger, SessionType

(* A write that does not lower the wallet, by a session not yet charged. *)
LEMMA UnchargedCovered ==
    ASSUME TypeOK, TypeOK', NEW s \in Sessions, ~Charged(sess[s]), wallet' >= wallet
    PROVE  Covered(s)
<1>1. sess[s] \in SessionType /\ sess'[s] \in SessionType /\ wallet \in Int /\ wallet' \in Int
  BY DEF TypeOK
<1>2. Overrun(sess[s]) = 0 /\ Overrun(sess'[s]) \in Nat
  BY <1>1, OverrunNat
<1> QED BY <1>1, <1>2 DEF Covered

(* The writes that leave the wallet alone. *)
LEMMA WalletKept ==
    ASSUME TypeOK, NEW s,
           \/ NoWrite
           \/ \E n : AdjustTokenQuota(s, n)
           \/ \E k, d : PostConsumeSubscription(s, k, d)
           \/ \E k, n : PreConsumeSubscription(s, k, n)
    PROVE  wallet' = wallet /\ wallet' >= wallet
BY DEF TypeOK, NoWrite, ledgers, AdjustTokenQuota, PostConsumeSubscription, PreConsumeSubscription

LEMMA WalletReturned ==
    ASSUME TypeOK, NEW s, NEW n \in Nat, AdjustUserQuota(s, 0 - n)
    PROVE  wallet' >= wallet
BY DEF TypeOK, AdjustUserQuota

LEMMA WalletReserved ==
    ASSUME TypeOK, NEW s, NEW n \in Int, ReserveUserQuota(s, n)
    PROVE  wallet' >= 0
BY DEF TypeOK, ReserveUserQuota, AdjustUserQuota

(* A settlement beyond the hold: the debit d is an overrun of the session. *)
LEMMA SettlementCovered ==
    ASSUME TypeOK, NEW s \in Sessions, NEW d \in Int, AdjustUserQuota(s, d),
           ~Charged(sess[s]), Overrun(sess'[s]) \in Int, Overrun(sess'[s]) >= d
    PROVE  Covered(s)
<1>1. wallet \in Int /\ wallet' = wallet - d /\ Overrun(sess[s]) = 0
  BY OverrunNat DEF TypeOK, AdjustUserQuota
<1> QED BY <1>1 DEF Covered

LEMMA StepCovered ==
    ASSUME IndInv, IndInv', NEW s \in Sessions,
           Begin(s) \/ PreConsume(s) \/ Reserve(s) \/ Settle(s) \/ RefundStep(s)
    PROVE  Covered(s)
<1> DEFINE r == sess[s]
<1>0. /\ TypeOK /\ TypeOK' /\ r \in SessionType /\ sess'[s] \in SessionType
      /\ SessionInv(r, posted[s], record[s])
  BY Mine DEF IndInv, TypeOK
<1>n. /\ r.arg \in Nat /\ r.consumed \in Nat /\ r.pre \in Nat /\ r.unres \in Nat
      /\ r.arg \in Int /\ Overrun(sess'[s]) \in Int
  BY <1>0, OverrunNat DEF SessionType
<1>c. r.pc \notin {"setToken", "settled"} => ~Charged(r)
  BY DEF Charged
<1>1. CASE Begin(s)
  <2>1. ASSUME NEW pref, NEW n, NEW play, NewBillingSession(s, pref, n, play)
        PROVE  Covered(s)
    BY <1>0, <1>c, <2>1, WalletKept, UnchargedCovered DEF NewBillingSession
  <2>2. ASSUME NEW a \in Amounts, NEW play \in PlaygroundModes,
               SettleWithoutSession(s, a, play)
        PROVE  Covered(s)
    <3>1. a \in Nat /\ r.pc = "new" /\ AdjustUserQuota(s, a)
      BY <2>2, ConstantsAssumption DEF SettleWithoutSession
    <3>2. StartingInv(r, record[s])
      BY <1>0, <3>1 DEF SessionInv, Starting
    <3>3. sess'[s] = [r EXCEPT !.pc = "setToken", !.src = "wallet", !.arg = a, !.play = play]
      BY <1>0, <2>2, BecomesIs DEF SettleWithoutSession
    <3>4. Overrun(sess'[s]) = a
      BY <1>0, <3>1, <3>2, <3>3 DEF Overrun, Charged, Larger, StartingInv, SessionType
    <3> QED BY <1>0, <1>c, <1>n, <3>1, <3>4, SettlementCovered
  <2> QED BY <1>1, <2>1, <2>2 DEF Begin
<1>2. CASE PreConsume(s)
  <2>1. CASE PreConsumeFunding(s)
    <3>1. CASE ReserveUserQuota(s, r.arg)
      BY <1>0, <1>n, <3>1, WalletReserved DEF Covered
    <3>2. CASE \E k \in Subs : PreConsumeSubscription(s, k, r.arg)
      BY <1>0, <1>c, <2>1, <3>2, WalletKept, UnchargedCovered DEF PreConsumeFunding
    <3> QED BY <2>1, <3>1, <3>2 DEF PreConsumeFunding
  <2>2. CASE ~PreConsumeFunding(s)
    <3>1. r.pc \notin {"setToken", "settled"} /\ (NoWrite \/ \E n : AdjustTokenQuota(s, n))
      BY ZenonT(60), <1>2, <2>2 DEF PreConsume, CheckWallet, CheckFails, PreConsumeToken,
         PreConsumeTokenFails, PreConsumeFundingFails, PreConsumeRollback,
         PreConsumeRollbackFails, ReserveTokenQuota
    <3> QED BY <1>0, <1>c, <3>1, WalletKept, UnchargedCovered
  <2> QED BY <2>1, <2>2
<1>3. CASE Reserve(s)
  <2>1. ASSUME NEW target \in Amounts, ReserveFunding(s, target) PROVE Covered(s)
    <3>1. target - r.pre \in Int
      BY <1>n, ConstantsAssumption
    <3>2. CASE ReserveUserQuota(s, target - r.pre)
      BY <1>0, <3>1, <3>2, WalletReserved DEF Covered
    <3>3. CASE PostConsumeSubscription(s, r.sub, target - r.pre)
      BY <1>0, <1>c, <2>1, <3>3, WalletKept, UnchargedCovered DEF ReserveFunding
    <3> QED BY <2>1, <3>2, <3>3 DEF ReserveFunding
  <2>2. CASE ReserveRollback(s)
    <3>1. r.pc = "rsvRollback"
      BY <2>2 DEF ReserveRollback
    <3>2. wallet' >= wallet
      BY <1>0, <1>n, <2>2, WalletReturned, WalletKept DEF ReserveRollback
    <3> QED BY <1>0, <1>c, <3>1, <3>2, UnchargedCovered
  <2>3. CASE ReserveToken(s) \/ ReserveTokenFails(s) \/ ReserveRollbackFails(s)
    <3>1. r.pc \notin {"setToken", "settled"} /\ (NoWrite \/ \E n : AdjustTokenQuota(s, n))
      BY ZenonT(60), <2>3 DEF ReserveToken, ReserveTokenFails, ReserveRollbackFails,
         ReserveTokenQuota
    <3> QED BY <1>0, <1>c, <3>1, WalletKept, UnchargedCovered
  <2> QED BY <1>3, <2>1, <2>2, <2>3 DEF Reserve
<1>4. CASE Settle(s)
  <2>1. ASSUME NEW a \in Amounts, SettleFunding(s, a) PROVE Covered(s)
    <3> DEFINE d == a - (r.pre + r.unres)
    <3>1. a \in Nat /\ d \in Int /\ r.pc = "open"
      BY <1>n, <2>1, ConstantsAssumption DEF SettleFunding
    <3>2. CASE r.src = "wallet" /\ AdjustUserQuota(s, d)
      <4>1. r.consumed = r.pre + r.unres
        BY <1>0, <3>1, <3>2 DEF SessionInv, Reserved, ReservedInv, Hold
      <4>2. sess'[s] = [r EXCEPT !.pc = "setToken", !.arg = a]
        BY <1>0, <2>1, BecomesIs DEF SettleFunding
      <4>3. Overrun(sess'[s]) = Larger(a - r.consumed, 0)
        BY <1>0, <3>2, <4>2 DEF Overrun, Charged, SessionType
      <4>4. Overrun(sess'[s]) >= d
        BY <1>n, <3>1, <4>1, <4>3 DEF Larger
      <4> QED BY <1>0, <1>c, <1>n, <3>1, <3>2, <4>4, SettlementCovered
    <3>3. CASE NoWrite \/ PostConsumeSubscription(s, r.sub, d)
      BY <1>0, <1>c, <3>1, <3>3, WalletKept, UnchargedCovered
    <3> QED BY <2>1, <3>2, <3>3 DEF SettleFunding, FundingDelta
  <2>2. CASE SettleOverage(s)
    <3> DEFINE d == r.arg - (r.pre + r.unres)
    <3>1. d \in Int /\ r.pc = "overage" /\ AdjustUserQuota(s, d)
      BY <1>n, <2>2 DEF SettleOverage, FundingDelta
    <3>2. r.src = "sub"
      BY <1>0, <3>1 DEF SessionInv, Reserved, ReservedInv
    <3>3. sess'[s] = [r EXCEPT !.pc = "setToken", !.over = d]
      BY <1>0, <2>2, BecomesIs DEF SettleOverage, FundingDelta
    <3>4. Overrun(sess'[s]) = d
      BY <1>0, <3>2, <3>3 DEF Overrun, Charged, SessionType
    <3> QED BY <1>0, <1>c, <1>n, <3>1, <3>4, SettlementCovered
  <2>3. ASSUME NEW a, SettleExceeds(s, a) PROVE Covered(s)
    BY <1>0, <1>c, <2>3, WalletKept, UnchargedCovered DEF SettleExceeds
  <2>4. CASE SettleOverageFails(s)
    BY <1>0, <1>c, <2>4, WalletKept, UnchargedCovered DEF SettleOverageFails
  <2>5. CASE SettleToken(s) \/ SettleTokenFails(s)
    <3>1. wallet' = wallet
      BY <1>0, <2>5, WalletKept DEF SettleToken, SettleTokenFails
    <3>2. r.pc = "setToken"
      BY <2>5 DEF SettleToken, SettleTokenFails
    <3>3. \/ sess'[s] = [r EXCEPT !.pc = "settled", !.unres = 0]
          \/ sess'[s] = [r EXCEPT !.pc = "settled", !.unres = 0, !.tokErr = TRUE]
      BY <1>0, <2>5, BecomesIs DEF SettleToken, SettleTokenFails
    <3>4. Overrun(sess'[s]) = Overrun(r)
      BY <1>0, <3>2, <3>3 DEF Overrun, Charged, SessionType
    <3>5. wallet \in Int
      BY <1>0 DEF TypeOK
    <3> QED BY <1>n, <3>1, <3>4, <3>5 DEF Covered
  <2> QED BY <1>4, <2>1, <2>2, <2>3, <2>4, <2>5 DEF Settle
<1>5. CASE RefundStep(s)
  <2>1. CASE RefundWalletLeg(s)
    BY <1>0, <1>c, <1>n, <2>1, WalletReturned, UnchargedCovered DEF RefundWalletLeg
  <2>2. CASE ~RefundWalletLeg(s)
    <3>1. /\ r.pc \notin {"setToken", "settled"}
          /\ \/ NoWrite
             \/ \E n : AdjustTokenQuota(s, n)
             \/ \E k, d : PostConsumeSubscription(s, k, d)
      BY ZenonT(60), <1>5, <2>2 DEF RefundStep, Refund,
         RefundSubscriptionLeg, RefundSubscriptionRetry, RefundExtraLeg, RefundTokenLeg,
         RefundLegFails, RefundDone, RefundSubscriptionPreConsume
    <3> QED BY <1>0, <1>c, <3>1, WalletKept, UnchargedCovered
  <2> QED BY <2>1, <2>2
<1> QED BY <1>1, <1>2, <1>3, <1>4, <1>5

(* The conditional UPDATE of ReserveUserQuota is enough: the wallet is negative
   by no more than what settlements after the dispatch cost above their
   reserve, for any number of concurrent requests. *)
THEOREM OverdraftBounded == Spec => []WalletOverdraftBounded
<1>0. IsFiniteSet(Sessions)
  BY ConstantsAssumption
<1>1. Init => WalletOverdraftBounded
  <2> SUFFICES ASSUME Init PROVE WalletOverdraftBounded
    OBVIOUS
  <2> DEFINE f == [t \in Sessions |-> Overrun(sess[t])]
  <2>1. f \in [Sessions -> Int] /\ \A t \in Sessions : f[t] = 0
    BY DEF Init, NewSession, Overrun, Charged
  <2> HIDE DEF f
  <2>2. SumFunction(f) = 0
    BY <1>0, <2>1, SumZero
  <2> QED BY <2>2, ConstantsAssumption DEF f, WalletOverdraftBounded, Init
<1>2. IndInv /\ IndInv' /\ WalletOverdraftBounded /\ [Next]_vars => WalletOverdraftBounded'
  <2> SUFFICES ASSUME IndInv, IndInv', WalletOverdraftBounded, [Next]_vars
               PROVE  WalletOverdraftBounded'
    OBVIOUS
  <2> DEFINE f == [t \in Sessions |-> Overrun(sess[t])]
             g == [t \in Sessions |-> Overrun(sess'[t])]
  <2>0. /\ \A t \in Sessions : sess[t] \in SessionType /\ sess'[t] \in SessionType
        /\ wallet \in Int /\ wallet' \in Int
    BY DEF IndInv, TypeOK
  <2>1. f \in [Sessions -> Nat] /\ g \in [Sessions -> Nat]
    BY <2>0, OverrunNat
  <2>2. /\ WalletOverdraftBounded <=> wallet + SumFunction(f) >= 0
        /\ WalletOverdraftBounded' <=> wallet' + SumFunction(g) >= 0
    BY DEF WalletOverdraftBounded
  <2>3. ASSUME NEW s \in Sessions,
               Begin(s) \/ PreConsume(s) \/ Reserve(s) \/ Settle(s) \/ RefundStep(s)
        PROVE  WalletOverdraftBounded'
    <3>1. Alone(s) /\ Covered(s)
      BY <2>3, StepsAlone, StepCovered DEF IndInv
    <3>2. \A x \in Sessions \ {s} : g[x] = f[x]
      BY <3>1 DEF Alone
    <3>3. f[s] = Overrun(sess[s]) /\ g[s] = Overrun(sess'[s])
      OBVIOUS
    <3> HIDE DEF f, g
    <3>4. SumFunction(g) = SumFunction(f) + (g[s] - f[s])
      BY <1>0, <2>1, <3>2, SumMoves
    <3>5. SumFunction(f) \in Int /\ SumFunction(g) \in Int /\ SumFunction(g) >= 0
      BY <1>0, <2>1, SumInt, SumNat
    <3>6. g[s] \in Nat /\ f[s] \in Nat
      BY <2>1
    <3> QED BY <2>0, <2>2, <3>1, <3>3, <3>4, <3>5, <3>6 DEF Covered
  <2>4. ASSUME wallet' = wallet, sess' = sess PROVE WalletOverdraftBounded'
    BY <2>4 DEF WalletOverdraftBounded
  <2>5. ASSUME NEW k \in Subs,
               PeriodEnds(k) \/ ResetDueSubscription(k) \/ SubscriptionEnds(k)
        PROVE  WalletOverdraftBounded'
    BY <2>4, <2>5 DEF PeriodEnds, ResetDueSubscription, SubscriptionEnds
  <2>6. CASE UNCHANGED vars
    BY <2>4, <2>6 DEF vars
  <2> QED BY <2>3, <2>5, <2>6 DEF Next
<1> QED BY <1>1, <1>2, Inductive, PTL DEF Spec
=============================================================================
