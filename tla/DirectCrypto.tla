---------------------------- MODULE DirectCrypto ----------------------------
(***************************************************************************)
(* Direct crypto payments: invoices whose exact amount identifies them,    *)
(* transfers on the chain, and the watchers (one in every process) that    *)
(* read the chain in passes and settle, audit or set aside each transfer.  *)
(*                                                                         *)
(* A DirectCryptoPayment row and its TopUp row change status in the same   *)
(* transaction everywhere, so that `order' stands for both.  A transaction *)
(* is one step; what the code reads outside of it is a step of its own.    *)
(* Buyers send amounts that were issued to them, or wrong ones; others     *)
(* send what becomes the amount of an invoice only later.                  *)
(***************************************************************************)
EXTENDS Integers, Sequences, FiniteSets

CONSTANTS Orders,       \* the invoices that may be created
          Amounts,      \* the exact amounts of one base amount
          Other,        \* an amount that is no invoice's
          Watchers,     \* the processes that watch the chain
          None,         \* no order, no transfer
          TTL,          \* seconds an invoice is open
          MaxTransfers, \* bound on the transfers
          Worlds        \* the settings to consider

(* A setting: the invoices created and their buyers, the watchers running,  *)
(* TRON (live: a lookup for every transfer) or TON and Solana (the          *)
(* candidates are read once per pass), how long after its deadline an       *)
(* invoice is looked for (DirectUSDTMaxPendingSeconds), how far back a pass *)
(* looks (directUSDTReconcileOverlap), and bounds on the clock, on the      *)
(* passes that fail and on the transfers that are for no order.             *)
Settings == [orders : SUBSET Orders, buyer : [Orders -> STRING],
             watchers : SUBSET Watchers, live : BOOLEAN,
             window : Nat, overlap : Nat, maxNow : Nat, maxFaults : Nat,
             maxEarly : Nat]

ASSUME DirectCryptoAssumption ==
  /\ Other \notin Amounts /\ None \notin Orders /\ None \notin Nat
  /\ TTL \in Nat \ {0} /\ MaxTransfers \in Nat
  /\ Worlds \subseteq Settings

VARIABLES
  now,     \* the clock
  order,   \* DirectCryptoPayment and TopUp: status, amount, created_at, event
  meta,    \* PaymentMetadata of an order: its external payment id and the
           \* late events it lists
  recon,   \* DirectCryptoReconciliation: the events set aside for review
  chain,   \* the transfers in the order they were mined
  watch,   \* the pass of each watcher
  credits, \* history: how often the quota of an order was credited
  faults,  \* failed passes left
  world    \* the setting of this behaviour

vars == <<now, order, meta, recon, chain, watch, credits, faults, world>>

Events == DOMAIN chain

Unborn == [status |-> "none", amount |-> Other, created |-> 0, event |-> None]
NoMeta == [external |-> None, late |-> {}]

(* A pass: since is its start, seen the candidates it read at its start,   *)
(* todo the transfers it fetched and has not judged, event, orders and     *)
(* order the one it is judging, the invoices that match it and the one of  *)
(* these it is settling.                                                   *)
Asleep == [phase |-> "idle", since |-> 0, seen |-> {}, todo |-> {},
           event |-> None, orders |-> {}, order |-> None]

Init ==
  /\ world \in Worlds
  /\ now = 0
  /\ order = [o \in Orders |-> Unborn]
  /\ meta = [o \in Orders |-> NoMeta]
  /\ recon = {} /\ chain = <<>>
  /\ watch = [w \in Watchers |-> Asleep]
  /\ credits = [o \in Orders |-> 0]
  /\ faults = world.maxFaults

Expires(o) == order[o].created + TTL

-----------------------------------------------------------------------------
(* The invoices.                                                            *)

(* expireDirectPaymentTx and its paired TopUp update, for a pending order. *)
Expired(o) == IF order[o].status = "pending" /\ now >= Expires(o)
              THEN [order[o] EXCEPT !.status = "expired"] ELSE order[o]

(* An exact amount is reserved for ever: an expired or a cancelled order   *)
(* keeps it.                                                               *)
FreeAgain(a) ==
  ~\E o \in Orders : order[o].amount = a /\ order[o].status = "pending"
Free(a) == ~\E o \in Orders : order[o].amount = a

(* CreateDirectUSDTOrder: the buyer's stale orders expire first; an order  *)
(* of the buyer that is still open, or expires in this very second, bars   *)
(* the new one.                                                            *)
Create(o, a) ==
  LET swept == [p \in Orders |-> IF world.buyer[p] = world.buyer[o] THEN Expired(p)
                                                        ELSE order[p]]
      open == {p \in Orders : /\ world.buyer[p] = world.buyer[o]
                              /\ \/ swept[p].status = "pending"
                                 \/ swept[p].status = "expired"
                                    /\ Expires(p) >= now}
  IN  /\ o \in world.orders /\ order[o].status = "none"
      /\ open = {}
      /\ Free(a)
      /\ order' = [swept EXCEPT ![o] = [status |-> "pending", amount |-> a,
                                        created |-> now, event |-> None]]
      /\ UNCHANGED <<now, meta, recon, chain, watch, credits, faults, world>>

(* A status poll, or the sweep, finds a deadline passed. *)
GetStatus(o) ==
  /\ Expired(o) # order[o]
  /\ order' = [order EXCEPT ![o] = Expired(o)]
  /\ UNCHANGED <<now, meta, recon, chain, watch, credits, faults, world>>

Cancel(o) ==
  /\ order[o].status = "pending"
  /\ order' = [order EXCEPT ![o].status = "cancelled"]
  /\ UNCHANGED <<now, meta, recon, chain, watch, credits, faults, world>>

-----------------------------------------------------------------------------
(* The chain and the clock.                                                 *)

Credited(e) == \E o \in Orders : order[o].event = e
Late(e) == \E o \in Orders : e \in meta[o].late
Judged(e) == Credited(e) \/ e \in recon \/ Late(e)

(* A transfer to the address of order o is mined; it is final only later.  *)
Pay(o, amount) ==
  /\ order[o].status # "none"
  /\ Len(chain) < MaxTransfers
  /\ chain' = Append(chain, [for |-> o, amount |-> amount, at |-> now,
                             final |-> FALSE])
  /\ UNCHANGED <<now, order, meta, recon, watch, credits, faults, world>>

(* A transfer that is for no order, in an amount no order has so far. *)
PayEarly(amount) ==
  /\ \A o \in Orders : order[o].amount # amount
  /\ Len(chain) < MaxTransfers
  /\ Cardinality({e \in Events : chain[e].for = None}) < world.maxEarly
  /\ chain' = Append(chain, [for |-> None, amount |-> amount, at |-> now,
                             final |-> FALSE])
  /\ UNCHANGED <<now, order, meta, recon, watch, credits, faults, world>>

Finalize(e) ==
  /\ ~chain[e].final
  /\ chain' = [chain EXCEPT ![e].final = TRUE]
  /\ UNCHANGED <<now, order, meta, recon, watch, credits, faults, world>>

Tick ==
  /\ now < world.maxNow
  /\ now' = now + 1
  /\ UNCHANGED <<order, meta, recon, chain, watch, credits, faults, world>>

-----------------------------------------------------------------------------
(* The pass of a watcher.                                                   *)

Candidates ==
  {o \in Orders : /\ order[o].status \in {"pending", "expired", "cancelled"}
                  /\ Expires(o) >= now - world.window}

BeginPass(w) ==
  /\ w \in world.watchers /\ watch[w].phase = "idle"
  /\ watch' = [watch EXCEPT ![w] =
                 [Asleep EXCEPT !.phase = "fetch", !.since = now,
                                !.seen = IF world.live THEN {} ELSE Candidates]]
  /\ UNCHANGED <<now, order, meta, recon, chain, credits, faults, world>>

(* The provider returns the final transfers of the last hours. *)
FetchTransfers(w) ==
  LET from == (IF world.live THEN watch[w].since ELSE now) - world.overlap
  IN  /\ watch[w].phase = "fetch"
      /\ watch' = [watch EXCEPT ![w].phase = "scan",
                     ![w].todo = {e \in Events : /\ chain[e].final
                                                 /\ chain[e].at >= from}]
      /\ UNCHANGED <<now, order, meta, recon, chain, credits, faults, world>>

(* The horizon checked locally. *)
InRange(w, e) == IF world.live THEN chain[e].at <= watch[w].since
                         ELSE chain[e].at >= now - world.overlap

Matches(w, e) ==
  {o \in (IF world.live THEN Candidates ELSE watch[w].seen) :
     order[o].amount = chain[e].amount}

(* The next transfer: matched with the invoices, or found unmatched. *)
TakeTransfer(w, e) ==
  /\ watch[w].phase = "scan"
  /\ e \in watch[w].todo
  /\ watch' = [watch EXCEPT ![w] =
       IF ~InRange(w, e) THEN [watch[w] EXCEPT !.todo = @ \ {e}]
       ELSE [@ EXCEPT !.event = e, !.orders = Matches(w, e),
                      !.phase = IF Matches(w, e) = {} THEN "unmatched"
                                                      ELSE "settle"]]
  /\ UNCHANGED <<now, order, meta, recon, chain, credits, faults, world>>

(* The rest of the pass after the transfer and an order were handled. *)
HandledOrder(p) ==
  LET rest == p.orders \ {p.order}
  IN  IF rest # {} THEN [p EXCEPT !.phase = "settle", !.orders = rest,
                                  !.order = None]
      ELSE [p EXCEPT !.phase = "scan", !.todo = @ \ {p.event},
                     !.event = None, !.orders = {}, !.order = None]

EndPass(w) ==
  /\ watch[w].phase = "scan" /\ watch[w].todo = {}
  /\ watch' = [watch EXCEPT ![w] = Asleep]
  /\ UNCHANGED <<now, order, meta, recon, chain, credits, faults, world>>

(* The provider, the database or the process fails: the next pass starts   *)
(* over.                                                                   *)
PassFails(w) ==
  /\ watch[w].phase # "idle"
  /\ faults > 0
  /\ faults' = faults - 1
  /\ watch' = [watch EXCEPT ![w] = Asleep]
  /\ UNCHANGED <<now, order, meta, recon, chain, credits, world>>

(* RecordDirectUSDTReconciliationEvent, under the event decision lock: an  *)
(* event that has settled an order is not set aside.                       *)
RecordUnmatchedAnyway(w) ==
  /\ watch[w].phase = "unmatched"
  /\ recon' = recon \cup {watch[w].event}
  /\ watch' = [watch EXCEPT ![w] = HandledOrder(@)]
  /\ UNCHANGED <<now, order, meta, chain, credits, faults, world>>
RecordUnmatched(w) ==
  LET e == watch[w].event
  IN  /\ watch[w].phase = "unmatched"
      /\ recon' = IF Credited(e) THEN recon ELSE recon \cup {e}
      /\ watch' = [watch EXCEPT ![w] = HandledOrder(@)]
      /\ UNCHANGED <<now, order, meta, chain, credits, faults, world>>

-----------------------------------------------------------------------------
(* SettleDirectUSDTTRC20Event for the event and one of its orders.          *)

Early(e, o) == chain[e].at < order[o].created
TooLate(e, o) == chain[e].at >= Expires(o)

(* Whether the snapshot read before the transaction sends the event to the *)
(* audit at once.                                                          *)
ClosedWhenExpired(e, o) == order[o].status \in {"cancelled", "expired"}
ClosedFor(e, o) ==
  \/ order[o].status = "cancelled"
  \/ order[o].status = "expired" /\ TooLate(e, o)

ReadSnapshot(w, o) ==
  LET e == watch[w].event
      p == [watch[w] EXCEPT !.order = o]
  IN  /\ watch[w].phase = "settle" /\ o \in watch[w].orders
      /\ watch' = [watch EXCEPT ![w] =
           IF e \in recon THEN HandledOrder(p)
           ELSE IF ~ClosedFor(e, o) THEN [p EXCEPT !.phase = "complete"]
           ELSE IF Early(e, o) THEN HandledOrder(p)
           ELSE [p EXCEPT !.phase = "late"]]
      /\ UNCHANGED <<now, order, meta, recon, chain, credits, faults, world>>

(* The metadata row that crediting inserts: one per order and one per      *)
(* event.  A row of the order that belongs to another event fails the      *)
(* transaction, and with it the pass.                                      *)
MetaBlocked(e, o) == meta[o].external \notin {None, e}
EventUsed(e, o) == \E p \in Orders \ {o} : meta[p].external = e

(* The transaction: the order becomes paid and the user is credited. *)
CreditUnchecked(w) ==
  LET e == watch[w].event
      o == watch[w].order
  IN  /\ ~TooLate(e, o) /\ e \notin recon
      /\ order' = [order EXCEPT ![o].status = "paid", ![o].event = e]
      /\ meta' = [meta EXCEPT ![o].external = e]
      /\ credits' = [credits EXCEPT ![o] = @ + 1]
      /\ watch' = [watch EXCEPT ![w] = HandledOrder(@)]
Credit(w) ==
  LET e == watch[w].event
      o == watch[w].order
  IN  /\ order[o].status \in {"pending", "expired"}
      /\ ~TooLate(e, o) /\ ~Early(e, o)
      /\ e \notin recon /\ ~EventUsed(e, o) /\ ~MetaBlocked(e, o)
      /\ order' = [order EXCEPT ![o].status = "paid", ![o].event = e]
      /\ meta' = [meta EXCEPT ![o].external = e]
      /\ credits' = [credits EXCEPT ![o] = @ + 1]
      /\ watch' = [watch EXCEPT ![w] = HandledOrder(@)]

(* An event past the deadline: both rows expire in the transaction that    *)
(* refused it.                                                             *)
RefuseLate(w) ==
  LET e == watch[w].event
      o == watch[w].order
  IN  /\ order[o].status \in {"pending", "expired"}
      /\ TooLate(e, o) /\ e \notin recon
      /\ order' = [order EXCEPT ![o].status = "expired"]
      /\ watch' = [watch EXCEPT ![w].phase = "refused"]
      /\ UNCHANGED <<meta, credits>>

(* Every other refusal leaves the rows alone: a cancelled order sends the  *)
(* event to the audit, a failed insert ends the pass, the rest is          *)
(* permanent for this event.                                               *)
Refuse(w) ==
  LET e == watch[w].event
      o == watch[w].order
      st == order[o].status
  IN  /\ \/ st \in {"paid", "cancelled"} \/ e \in recon
         \/ ~TooLate(e, o)
            /\ (Early(e, o) \/ EventUsed(e, o) \/ MetaBlocked(e, o))
      /\ watch' = [watch EXCEPT ![w] =
           IF st = "cancelled" /\ ~Early(e, o)
           THEN [@ EXCEPT !.phase = "late"]
           ELSE IF st # "paid" /\ e \notin recon /\ ~Early(e, o)
                   /\ ~EventUsed(e, o)
           THEN Asleep
           ELSE HandledOrder(@)]
      /\ UNCHANGED <<order, meta, credits>>

CompleteTopUp(w) ==
  /\ watch[w].phase = "complete"
  /\ Credit(w) \/ RefuseLate(w) \/ Refuse(w)
  /\ UNCHANGED <<now, recon, chain, faults, world>>

(* The order is read again; another event may have paid it meanwhile. *)
ReadRefused(w) ==
  /\ watch[w].phase = "refused"
  /\ watch' = [watch EXCEPT ![w] =
       IF order[watch[w].order].status = "expired"
       THEN [@ EXCEPT !.phase = "late"] ELSE HandledOrder(@)]
  /\ UNCHANGED <<now, order, meta, recon, chain, credits, faults, world>>

(* recordLateDirectUSDTEvent: the event gets the metadata row of its order *)
(* or is added to the events that row lists.  A row that another watcher   *)
(* has just created is read after the insert failed, in the same           *)
(* transaction, as MySQL and SQLite allow; PostgreSQL aborts it, which is  *)
(* a pass that fails here, and the next pass finds the row.                *)
LateRowFirstOnly(e, o) == IF meta[o].external = None
                          THEN [external |-> e, late |-> {e}] ELSE meta[o]
LateRow(e, o) == [external |-> IF meta[o].external = None
                               THEN e ELSE meta[o].external,
                  late |-> meta[o].late \cup {e}]
RecordLate(w) ==
  LET e == watch[w].event
      o == watch[w].order
  IN  /\ watch[w].phase = "late"
      /\ meta' = IF EventUsed(e, o) THEN meta
                 ELSE [meta EXCEPT ![o] = LateRow(e, o)]
      /\ watch' = [watch EXCEPT ![w] = HandledOrder(@)]
      /\ UNCHANGED <<now, order, recon, chain, credits, faults, world>>

-----------------------------------------------------------------------------
PassStep(w) ==
  \/ BeginPass(w) \/ FetchTransfers(w) \/ EndPass(w)
  \/ \E e \in Events : TakeTransfer(w, e)
  \/ RecordUnmatched(w)
  \/ \E o \in Orders : ReadSnapshot(w, o)
  \/ CompleteTopUp(w) \/ ReadRefused(w) \/ RecordLate(w)

Next ==
  \/ \E o \in Orders, a \in Amounts : Create(o, a)
  \/ \E o \in Orders : GetStatus(o) \/ Cancel(o)
  \/ \E o \in Orders : \E a \in {order[o].amount, Other} : Pay(o, a)
  \/ \E a \in Amounts : PayEarly(a)
  \/ \E e \in Events : Finalize(e)
  \/ Tick
  \/ \E w \in Watchers : PassStep(w) \/ PassFails(w)

Spec == Init /\ [][Next]_vars

-----------------------------------------------------------------------------
(* The invoice every reader of the status relies on: paid once, credited   *)
(* when and only when it becomes paid, final when paid or cancelled,       *)
(* although sweep, status polls, cancellation and several watchers change  *)
(* it concurrently (SettleDirectUSDTTRC20Event, "a different event can     *)
(* never settle the same order after the first event wins").               *)
Bill == INSTANCE Invoice WITH status <- [o \in Orders |-> order[o].status]
ImplementsInvoice == Bill!Spec

(* What pays an order is a transfer its buyer made for this order before   *)
(* its deadline, and no transfer pays two, however late the watchers see   *)
(* it and whatever older orders had the same base amount (the quarantine   *)
(* of exact amounts, validateDirectUSDTEventForPayment).  A transfer that  *)
(* was made for no order pays one only if it was mined in the very second  *)
(* the order was created.                                                  *)
InTime(e, o) == chain[e].at < Expires(o)

PaidInTimeByItsBuyer ==
  \A o \in Orders : order[o].event # None =>
    LET e == order[o].event
    IN  /\ \/ chain[e].for = o
           \/ chain[e].for = None /\ chain[e].at = order[o].created
        /\ InTime(e, o)
        /\ \A p \in Orders \ {o} : order[p].event # e

(* A transfer that was credited is on no list of uncredited transfers, and *)
(* support never refunds by hand what the watchers credit: two watchers    *)
(* that judge one transfer agree (lockDirectUSDTEventDecision,             *)
(* TestDirectUSDTEventCannotBeBothSettledAndReconciled).                   *)
OneVerdict == \A e \in Events : Credited(e) => e \notin recon /\ ~Late(e)

(* A pass that is done with a transfer leaves a verdict on it: credited,   *)
(* listed with its order as late, or set aside; or another watcher has just *)
(* paid the order with another transfer and the next pass sets it aside     *)
(* (the transfer loops of the watchers' passes).  A transfer mined before   *)
(* the invoice of its amount was created is skipped: while it matches that  *)
(* invoice nobody lists it (direct_crypto_payment.go:898).                  *)
DoneWith(w, e) == /\ e \in watch[w].todo \ watch'[w].todo
                  /\ watch'[w].phase # "idle" /\ InRange(w, e)

DoneIsJudged ==
  [][\A w \in Watchers, e \in Events : DoneWith(w, e) =>
       \/ Judged(e)'
       \/ \E o \in Orders : /\ order'[o].amount = chain[e].amount
                            /\ \/ order'[o].status = "paid"
                               \/ chain[e].at < order'[o].created]_vars

(* "An event mined before the immutable deadline may still complete an      *)
(* expired local snapshot" (direct_crypto_payment.go:972): once a pass is   *)
(* done with a transfer made in time, its order is paid, unless it was      *)
(* cancelled.  For TRON, and while the order is looked for: the other       *)
(* chains set the transfer of an order created during the pass aside.       *)
TimelyIsPaid ==
  [][\A w \in Watchers, e \in Events, o \in Orders :
         /\ world.live /\ world.window >= world.maxNow
         /\ chain[e].for = o /\ chain[e].amount = order[o].amount
         /\ InTime(e, o) /\ DoneWith(w, e)
       => order'[o].status \in {"paid", "cancelled"}]_vars
=============================================================================
