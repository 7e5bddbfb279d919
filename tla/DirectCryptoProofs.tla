------------------------- MODULE DirectCryptoProofs -------------------------
(***************************************************************************)
(* Direct crypto payments keep the promise of an invoice, judge a transfer *)
(* once and pay an order with its own transfer in time, for any number of  *)
(* invoices, amounts, watchers and transfers, on every chain.              *)
(*                                                                         *)
(* The exact amount of an order is its own for ever (OrderInv), so that    *)
(* one order matches a transfer (PassInv), however stale the list of       *)
(* candidates is: the one it was made for, or one created after a transfer *)
(* that was for none (ChainInv).  Which verdict a transfer can get depends *)
(* on facts that do not change any more when a watcher reads them: the     *)
(* deadline of the order, and that it was cancelled (Closed).              *)
(***************************************************************************)
EXTENDS DirectCrypto, SequenceTheorems, TLAPS

Statuses == {"none", "pending", "expired", "cancelled", "paid"}
Rows == [status : Statuses, amount : Amounts \cup {Other}, created : Nat,
         event : Nat \cup {None}]
Metas == [external : Nat \cup {None}, late : SUBSET Nat]
Transfers == [for : Orders \cup {None}, amount : Amounts \cup {Other}, at : Nat,
              final : BOOLEAN]
Passes == [phase : {"idle", "fetch", "scan", "unmatched", "settle", "complete", "late",
                    "refused"},
           since : Nat, seen : SUBSET Orders, todo : SUBSET Nat, event : Nat \cup {None},
           orders : SUBSET Orders, order : Orders \cup {None}]

TypeOK ==
  /\ world \in Worlds /\ now \in Nat /\ now <= world.maxNow
  /\ order \in [Orders -> Rows] /\ meta \in [Orders -> Metas]
  /\ recon \in SUBSET Nat /\ chain \in Seq(Transfers)
  /\ watch \in [Watchers -> Passes] /\ credits \in [Orders -> Nat]

(* Rows and transfers as arguments, so that a fact about one state can be  *)
(* used in the next: the transfer e has the amount of order o, it was      *)
(* mined after its deadline, it cannot pay the order any more, it can.     *)
Born(ord, o) == ord[o].status # "none"
Belongs(ord, ch, e, o) ==
  e \in DOMAIN ch /\ o \in Orders /\ Born(ord, o) /\ ord[o].amount = ch[e].amount
Missed(ord, ch, e, o) == ch[e].at >= ord[o].created + TTL
Closed(ord, ch, e, o) == ord[o].status = "cancelled" \/ Missed(ord, ch, e, o)
Pays(ord, ch, e, o) ==
  Belongs(ord, ch, e, o) /\ ~Missed(ord, ch, e, o) /\ ord[o].created <= ch[e].at

(* An order has an amount of its own from its creation on, and an event    *)
(* when it is paid.                                                        *)
RowOK(r) ==
  /\ IF r.status = "none" THEN r.amount = Other ELSE r.amount \in Amounts /\ r.created <= now
  /\ r.event # None <=> r.status = "paid"
Apart(ord) ==
  \A o, p \in Orders :
    Born(ord, o) /\ Born(ord, p) /\ ord[o].amount = ord[p].amount => o = p
OrderInv == (\A o \in Orders : RowOK(order[o])) /\ Apart(order)

(* A transfer is made for an order that exists, or before the order of its *)
(* amount was created.                                                     *)
MadeFor(ord, t) ==
  IF t.for = None
  THEN \A o \in Orders : Born(ord, o) /\ ord[o].amount = t.amount => t.at <= ord[o].created
  ELSE /\ Born(ord, t.for) /\ ord[t.for].created <= t.at
       /\ t.amount \in {ord[t.for].amount, Other}
ChainInv == \A e \in Events : MadeFor(order, chain[e]) /\ chain[e].at <= now

PaidInv ==
  \A o \in Orders : order[o].event # None =>
    Pays(order, chain, order[o].event, o) /\ order[o].event \notin recon

(* A metadata row names transfers of its order, and lists as late only     *)
(* what can never be credited.                                             *)
MetaOK(ord, ch, m, o) ==
  /\ m.external # None => Belongs(ord, ch, m.external, o)
  /\ \A e \in m.late : Belongs(ord, ch, e, o) /\ Closed(ord, ch, e, o)
MetaInv == \A o \in Orders : MetaOK(order, chain, meta[o], o)
ReconInv == recon \subseteq Events

(* What a pass has found out is still true. *)
PassOK(p, ord, ch) ==
  /\ \A o \in p.seen : Born(ord, o)
  /\ p.phase \in {"idle", "fetch"} => p.todo = {}
  /\ p.phase \in {"unmatched", "settle", "complete", "late", "refused"} =>
       p.event \in DOMAIN ch /\ \A o \in p.orders : Belongs(ord, ch, p.event, o)
  /\ p.phase = "unmatched" => p.orders = {}
  /\ p.phase \in {"complete", "late", "refused"} => p.order \in p.orders
  /\ p.phase = "late" => Closed(ord, ch, p.event, p.order)
  /\ p.phase = "refused" => /\ Missed(ord, ch, p.event, p.order)
                            /\ ord[p.order].status \in {"expired", "paid"}
PassInv == \A w \in Watchers : PassOK(watch[w], order, chain)

(* Where a lookup for every transfer finds all invoices, only the transfer *)
(* of a paid order remains without a match.                                *)
LooksForAll == world.live /\ world.window >= world.maxNow
Exact(ord, t) == t.amount = ord[t.for].amount
Justified(ord, ch, e) ==
  ch[e].for # None /\ Exact(ord, ch[e]) => ord[ch[e].for].status = "paid"
TimelyInv ==
  LooksForAll =>
    /\ \A e \in recon : Justified(order, chain, e)
    /\ \A w \in Watchers :
         watch[w].phase = "unmatched" => Justified(order, chain, watch[w].event)

IndInv ==
  /\ TypeOK /\ OrderInv /\ ChainInv /\ PaidInv /\ MetaInv /\ ReconInv /\ PassInv
  /\ TimelyInv

-----------------------------------------------------------------------------
(* What a step may do to a row: open it, expire it, cancel it or pay it,   *)
(* and never change the amount, the creation or the event of another.      *)
Sames(r, s) == s.amount = r.amount /\ s.created = r.created
RowMoves(r, s) ==
  \/ s = r
  \/ r.status = "none" /\ s.status = "pending" /\ s.event = r.event
  \/ r.status = "pending" /\ s.status \in {"expired", "cancelled"}
     /\ Sames(r, s) /\ s.event = r.event
  \/ r.status \in {"pending", "expired"} /\ s.status = "paid" /\ Sames(r, s)

(* What every step leaves: the transfers and the rows that exist.  An      *)
(* order is created after the transfers that exist.                        *)
Kept(ord, ch, ord2, ch2) ==
  /\ \A e \in DOMAIN ch : /\ e \in DOMAIN ch2 /\ ch2[e].for = ch[e].for
                          /\ ch2[e].amount = ch[e].amount /\ ch2[e].at = ch[e].at
  /\ \A o \in Orders : RowMoves(ord[o], ord2[o])
  /\ \A o \in Orders : ~Born(ord, o) /\ Born(ord2, o) =>
       \A e \in DOMAIN ch : ch[e].at <= ord2[o].created

(* The transfers of a state are for orders that exist, or for none. *)
Founded(ord, ch) ==
  \A e \in DOMAIN ch : ch[e].for # None => ch[e].for \in Orders /\ Born(ord, ch[e].for)

LEMMA RowsKept ==
    ASSUME NEW ord, NEW ch, NEW ord2, NEW ch2, Kept(ord, ch, ord2, ch2),
           NEW o \in Orders, Born(ord, o)
    PROVE  /\ Born(ord2, o) /\ Sames(ord[o], ord2[o])
           /\ ord[o].status \in {"cancelled", "paid"} => ord2[o] = ord[o]
           /\ ord[o].status = "expired" => ord2[o].status \in {"expired", "paid"}
<1>1. RowMoves(ord[o], ord2[o])
  BY DEF Kept
<1> QED BY <1>1 DEF RowMoves, Born, Sames

LEMMA BelongsKept ==
    ASSUME NEW ord, NEW ch, NEW ord2, NEW ch2, Kept(ord, ch, ord2, ch2),
           NEW e, NEW o, Belongs(ord, ch, e, o)
    PROVE  Belongs(ord2, ch2, e, o)
<1>1. e \in DOMAIN ch /\ o \in Orders /\ Born(ord, o) /\ ord[o].amount = ch[e].amount
  BY DEF Belongs
<1>2. Born(ord2, o) /\ Sames(ord[o], ord2[o])
  BY <1>1, RowsKept
<1>3. e \in DOMAIN ch2 /\ ch2[e].amount = ch[e].amount
  BY <1>1 DEF Kept
<1> QED BY <1>1, <1>2, <1>3 DEF Belongs, Sames

LEMMA MissedKept ==
    ASSUME NEW ord, NEW ch, NEW ord2, NEW ch2, Kept(ord, ch, ord2, ch2),
           NEW e \in DOMAIN ch, NEW o \in Orders, Born(ord, o)
    PROVE  Missed(ord2, ch2, e, o) <=> Missed(ord, ch, e, o)
<1>1. ord2[o].created = ord[o].created
  BY RowsKept DEF Sames
<1>2. ch2[e].at = ch[e].at
  BY DEF Kept
<1> QED BY <1>1, <1>2 DEF Missed

LEMMA ClosedKept ==
    ASSUME NEW ord, NEW ch, NEW ord2, NEW ch2, Kept(ord, ch, ord2, ch2),
           NEW e \in DOMAIN ch, NEW o \in Orders, Born(ord, o), Closed(ord, ch, e, o)
    PROVE  Closed(ord2, ch2, e, o)
<1>1. CASE ord[o].status = "cancelled"
  BY <1>1, RowsKept DEF Closed
<1>2. CASE Missed(ord, ch, e, o)
  BY <1>2, MissedKept DEF Closed
<1> QED BY <1>1, <1>2 DEF Closed

LEMMA PaysKept ==
    ASSUME NEW ord, NEW ch, NEW ord2, NEW ch2, Kept(ord, ch, ord2, ch2),
           NEW e, NEW o, Pays(ord, ch, e, o)
    PROVE  Pays(ord2, ch2, e, o)
<1>1. Belongs(ord, ch, e, o) /\ ~Missed(ord, ch, e, o) /\ ord[o].created <= ch[e].at
  BY DEF Pays
<1>2. e \in DOMAIN ch /\ o \in Orders /\ Born(ord, o)
  BY <1>1 DEF Belongs
<1>3. ord2[o].created = ord[o].created
  BY <1>2, RowsKept DEF Sames
<1>4. ch2[e].at = ch[e].at
  BY <1>2 DEF Kept
<1> QED BY <1>1, <1>2, <1>3, <1>4, BelongsKept, MissedKept DEF Pays

(* The amounts tell the orders apart. *)
LEMMA BelongsOnce ==
    ASSUME NEW ord, NEW ch, NEW e, NEW o, NEW p, Apart(ord),
           Belongs(ord, ch, e, o), Belongs(ord, ch, e, p)
    PROVE  o = p
BY DEF Apart, Belongs

(* What a pass has found out stays true whatever the others do. *)
LEMMA PassKept ==
    ASSUME NEW ord, NEW ch, NEW ord2, NEW ch2, Kept(ord, ch, ord2, ch2),
           NEW p \in Passes, PassOK(p, ord, ch)
    PROVE  PassOK(p, ord2, ch2)
<1> DEFINE e == p.event
           o == p.order
<1>1. \A q \in p.seen : Born(ord2, q)
  BY RowsKept DEF PassOK, Passes
<1>2. p.phase \in {"unmatched", "settle", "complete", "late", "refused"} =>
        /\ e \in DOMAIN ch /\ \A q \in p.orders : Belongs(ord, ch, e, q)
        /\ e \in DOMAIN ch2 /\ \A q \in p.orders : Belongs(ord2, ch2, e, q)
  <2> SUFFICES ASSUME p.phase \in {"unmatched", "settle", "complete", "late", "refused"}
               PROVE  /\ e \in DOMAIN ch /\ \A q \in p.orders : Belongs(ord, ch, e, q)
                      /\ e \in DOMAIN ch2 /\ \A q \in p.orders : Belongs(ord2, ch2, e, q)
    OBVIOUS
  <2>1. e \in DOMAIN ch /\ \A q \in p.orders : Belongs(ord, ch, e, q)
    BY DEF PassOK
  <2>2. e \in DOMAIN ch2
    BY <2>1 DEF Kept
  <2> QED BY <2>1, <2>2, BelongsKept
<1>3. p.phase \in {"complete", "late", "refused"} =>
        e \in DOMAIN ch /\ o \in Orders /\ Born(ord, o)
  BY <1>2 DEF PassOK, Belongs
<1>4. p.phase = "late" => Closed(ord2, ch2, e, o)
  BY <1>3, ClosedKept DEF PassOK
<1>5. p.phase = "refused" => Missed(ord2, ch2, e, o)
  BY <1>3, MissedKept DEF PassOK
<1>6. p.phase = "refused" => ord2[o].status \in {"expired", "paid"}
  <2> SUFFICES ASSUME p.phase = "refused" PROVE ord2[o].status \in {"expired", "paid"}
    OBVIOUS
  <2>1. ord[o].status \in {"expired", "paid"}
    BY DEF PassOK
  <2> QED BY <2>1, <1>3, RowsKept
<1> QED BY <1>1, <1>2, <1>4, <1>5, <1>6 DEF PassOK

LEMMA MetaKept ==
    ASSUME NEW ord, NEW ch, NEW ord2, NEW ch2, Kept(ord, ch, ord2, ch2),
           NEW m, NEW o, MetaOK(ord, ch, m, o)
    PROVE  MetaOK(ord2, ch2, m, o)
<1>1. m.external # None => Belongs(ord2, ch2, m.external, o)
  BY BelongsKept DEF MetaOK
<1>2. ASSUME NEW e \in m.late
      PROVE  Belongs(ord2, ch2, e, o) /\ Closed(ord2, ch2, e, o)
  <2>1. Belongs(ord, ch, e, o) /\ Closed(ord, ch, e, o)
    BY DEF MetaOK
  <2>2. e \in DOMAIN ch /\ o \in Orders /\ Born(ord, o)
    BY <2>1 DEF Belongs
  <2> QED BY <2>1, <2>2, BelongsKept, ClosedKept
<1> QED BY <1>1, <1>2 DEF MetaOK

LEMMA MadeForKept ==
    ASSUME NEW ord, NEW ch, NEW ord2, NEW ch2, Kept(ord, ch, ord2, ch2), Founded(ord, ch),
           NEW e \in DOMAIN ch, MadeFor(ord, ch[e])
    PROVE  MadeFor(ord2, ch2[e])
<1>1. ch2[e].for = ch[e].for /\ ch2[e].amount = ch[e].amount /\ ch2[e].at = ch[e].at
  BY DEF Kept
<1>2. CASE ch[e].for = None
  <2> SUFFICES ASSUME NEW o \in Orders, Born(ord2, o), ord2[o].amount = ch[e].amount
               PROVE  ch[e].at <= ord2[o].created
    BY <1>1, <1>2 DEF MadeFor
  <2>1. CASE Born(ord, o)
    <3>1. Sames(ord[o], ord2[o])
      BY <2>1, RowsKept
    <3> QED BY <1>2, <2>1, <3>1 DEF MadeFor, Sames
  <2>2. CASE ~Born(ord, o)
    BY <2>2 DEF Kept
  <2> QED BY <2>1, <2>2
<1>3. CASE ch[e].for # None
  <2>1. ch[e].for \in Orders /\ Born(ord, ch[e].for)
    BY <1>3 DEF Founded
  <2>2. Born(ord2, ch[e].for) /\ Sames(ord[ch[e].for], ord2[ch[e].for])
    BY <2>1, RowsKept
  <2> QED BY <1>1, <1>3, <2>2 DEF MadeFor, Sames
<1> QED BY <1>2, <1>3

LEMMA JustifiedKept ==
    ASSUME NEW ord, NEW ch, NEW ord2, NEW ch2, Kept(ord, ch, ord2, ch2), Founded(ord, ch),
           NEW e \in DOMAIN ch, Justified(ord, ch, e)
    PROVE  Justified(ord2, ch2, e)
<1> SUFFICES ASSUME ch[e].for # None PROVE Justified(ord2, ch2, e)
  BY DEF Justified, Kept
<1>1. ch[e].for \in Orders /\ Born(ord, ch[e].for)
  BY DEF Founded
<1>2. Sames(ord[ch[e].for], ord2[ch[e].for])
  BY <1>1, RowsKept
<1>3. ord[ch[e].for].status = "paid" => ord2[ch[e].for].status = "paid"
  BY <1>1, RowsKept
<1> QED BY <1>2, <1>3 DEF Justified, Exact, Kept, Sames

(* What is over with its only order is over with the transfer. *)
LEMMA Handled ==
    ASSUME NEW p \in Passes, p.orders \subseteq {p.order}
    PROVE  /\ HandledOrder(p) \in Passes
           /\ HandledOrder(p).phase = "scan" /\ HandledOrder(p).seen = p.seen
           /\ HandledOrder(p).todo = p.todo \ {p.event}
<1>1. HandledOrder(p) = [p EXCEPT !.phase = "scan", !.todo = @ \ {p.event},
                                  !.event = None, !.orders = {}, !.order = None]
  BY DEF HandledOrder
<1>2. HandledOrder(p).phase = "scan" /\ HandledOrder(p).seen = p.seen
  BY <1>1 DEF Passes
<1>3. HandledOrder(p).todo = p.todo \ {p.event}
  BY <1>1 DEF Passes
<1>4. p.todo \ {p.event} \in SUBSET Nat
  BY DEF Passes
<1>5. HandledOrder(p) \in Passes
  <2>1. HandledOrder(p) = [p EXCEPT !.phase = "scan", !.todo = p.todo \ {p.event},
                                    !.event = None, !.orders = {}, !.order = None]
    BY <1>1 DEF Passes
  <2> QED BY <2>1, <1>4 DEF Passes
<1> QED BY <1>2, <1>3, <1>5

LEMMA HandledOK ==
    ASSUME NEW p \in Passes, p.orders \subseteq {p.order}, NEW ord, NEW ch,
           \A o \in p.seen : Born(ord, o)
    PROVE  PassOK(HandledOrder(p), ord, ch)
BY Handled DEF PassOK

LEMMA AsleepOK == \A ord, ch : Asleep \in Passes /\ PassOK(Asleep, ord, ch)
BY DEF Asleep, Passes, PassOK

-----------------------------------------------------------------------------
(* What the invariant says of the state a step starts from. *)
LEMMA Facts ==
    ASSUME IndInv
    PROVE  /\ Founded(order, chain) /\ TypeOK /\ world \in Settings
           /\ \A e \in Events : chain[e] \in Transfers /\ e \in Nat
           /\ \A o \in Orders : order[o] \in Rows /\ meta[o] \in Metas
           /\ \A w \in Watchers : watch[w] \in Passes /\ PassOK(watch[w], order, chain)
<1>1. \A e \in Events : chain[e] \in Transfers /\ e \in Nat
  BY DEF IndInv, TypeOK, Events
<1>2. Founded(order, chain)
  <2> SUFFICES ASSUME NEW e \in Events, chain[e].for # None
               PROVE  chain[e].for \in Orders /\ Born(order, chain[e].for)
    BY DEF Founded, Events
  <2>1. chain[e].for \in Orders
    BY <1>1 DEF Transfers
  <2>2. Born(order, chain[e].for)
    BY DEF IndInv, ChainInv, MadeFor
  <2> QED BY <2>1, <2>2
<1> QED BY <1>1, <1>2, DirectCryptoAssumption DEF IndInv, TypeOK, PassInv

(* The exact amount tells the order: what matches a transfer made for an   *)
(* order is this order.                                                    *)
LEMMA MatchIsOwn ==
    ASSUME IndInv, NEW e \in Events, NEW o, Belongs(order, chain, e, o),
           chain[e].for # None
    PROVE  chain[e].for = o
<1> USE DEF Belongs
<1>1. order[o].amount \in Amounts
  BY DEF IndInv, OrderInv, RowOK, Born
<1>2. MadeFor(order, chain[e]) /\ chain[e].for \in Orders
  BY Facts DEF IndInv, ChainInv, Founded, Events, Belongs
<1>3. chain[e].amount = order[chain[e].for].amount /\ Born(order, chain[e].for)
  BY <1>1, <1>2, DirectCryptoAssumption DEF MadeFor
<1> QED BY <1>2, <1>3 DEF IndInv, OrderInv, Apart

LEMMA PassesKept ==
    ASSUME IndInv, Kept(order, chain, order', chain'),
           \A v \in Watchers : watch'[v] = watch[v] \/ PassOK(watch'[v], order', chain')
    PROVE  PassInv'
<1> SUFFICES ASSUME NEW v \in Watchers, watch'[v] = watch[v]
             PROVE  PassOK(watch'[v], order', chain')
  BY DEF PassInv
<1>1. watch[v] \in Passes /\ PassOK(watch[v], order, chain) /\ Founded(order, chain)
  BY Facts
<1>2. PassOK(watch[v], order', chain')
  BY <1>1, PassKept
<1> QED BY <1>2

LEMMA TimelyKept ==
    ASSUME IndInv, Kept(order, chain, order', chain'), world' = world,
           \A e \in recon' : e \in recon \/ (LooksForAll => Justified(order', chain', e)),
           \A v \in Watchers :
             \/ watch'[v] = watch[v] \/ watch'[v].phase # "unmatched"
             \/ LooksForAll => Justified(order', chain', watch'[v].event)
    PROVE  TimelyInv'
<1> SUFFICES ASSUME LooksForAll
             PROVE  /\ \A e \in recon' : Justified(order', chain', e)
                    /\ \A v \in Watchers : watch'[v].phase = "unmatched" =>
                         Justified(order', chain', watch'[v].event)
  BY DEF TimelyInv, LooksForAll
<1>1. Founded(order, chain)
  BY Facts
<1>2. ASSUME NEW e \in recon' PROVE Justified(order', chain', e)
  <2> SUFFICES ASSUME e \in recon PROVE Justified(order', chain', e)
    OBVIOUS
  <2>1. e \in DOMAIN chain /\ Justified(order, chain, e)
    BY DEF IndInv, TimelyInv, ReconInv, Events
  <2> QED BY <2>1, <1>1, JustifiedKept
<1>3. ASSUME NEW v \in Watchers, watch'[v].phase = "unmatched"
      PROVE  Justified(order', chain', watch'[v].event)
  <2> SUFFICES ASSUME watch'[v] = watch[v] PROVE Justified(order', chain', watch'[v].event)
    BY <1>3
  <2>1. watch[v].event \in DOMAIN chain /\ Justified(order, chain, watch[v].event)
    BY <1>3, Facts DEF IndInv, TimelyInv, PassOK
  <2>2. Justified(order', chain', watch[v].event)
    BY <2>1, <1>1, JustifiedKept
  <2> QED BY <2>2
<1> QED BY <1>2, <1>3

(* The verdicts: what is credited, listed as late or set aside. *)
LEMMA MoneyKept ==
    ASSUME IndInv, Kept(order, chain, order', chain'),
           \A o \in Orders : \/ order'[o].event = order[o].event
                             \/ /\ Pays(order', chain', order'[o].event, o)
                                /\ order'[o].event \notin recon',
           \A o \in Orders : \/ meta'[o] = meta[o]
                             \/ MetaOK(order', chain', meta'[o], o),
           \A e \in recon' : \/ e \in recon
                             \/ e \in Events' /\ \A o \in Orders : order'[o].event # e
    PROVE  PaidInv' /\ MetaInv' /\ ReconInv'
<1>1. Founded(order, chain)
  BY Facts
<1>2. MetaInv'
  <2> SUFFICES ASSUME NEW o \in Orders, meta'[o] = meta[o]
               PROVE  MetaOK(order', chain', meta'[o], o)
    BY DEF MetaInv
  <2>1. MetaOK(order', chain', meta[o], o)
    BY <1>1, MetaKept DEF IndInv, MetaInv
  <2> QED BY <2>1
<1>3. ReconInv'
  BY DEF IndInv, ReconInv, Events, Kept
<1>4. PaidInv'
  <2> SUFFICES ASSUME NEW o \in Orders, order[o].event # None, order'[o].event = order[o].event
               PROVE  /\ Pays(order', chain', order[o].event, o)
                      /\ order[o].event \notin recon'
    BY DEF PaidInv
  <2>1. Pays(order, chain, order[o].event, o) /\ order[o].event \notin recon
    BY DEF IndInv, PaidInv
  <2>2. order[o].event \notin recon'
    BY <2>1
  <2> QED BY <2>1, <2>2, PaysKept
<1> QED BY <1>2, <1>3, <1>4

LEMMA ChainKept ==
    ASSUME IndInv, Kept(order, chain, order', chain'),
           now' = now \/ (now' \in Nat /\ now' >= now),
           \A e \in Events' : \/ e \in Events
                              \/ MadeFor(order', chain'[e]) /\ chain'[e].at <= now'
    PROVE  ChainInv'
<1> SUFFICES ASSUME NEW e \in Events PROVE MadeFor(order', chain'[e]) /\ chain'[e].at <= now'
  BY DEF ChainInv
<1>1. MadeFor(order, chain[e]) /\ chain[e].at <= now
  BY DEF IndInv, ChainInv
<1>2. chain[e].at \in Nat /\ now \in Nat /\ Founded(order, chain)
  BY Facts DEF TypeOK, Transfers
<1>3. e \in DOMAIN chain /\ chain'[e].at = chain[e].at
  BY DEF Kept, Events
<1>4. MadeFor(order', chain'[e])
  BY <1>1, <1>2, <1>3, MadeForKept
<1>5. \A m, n, k \in Nat : m <= n /\ k >= n => m <= k
  OBVIOUS
<1>6. chain[e].at <= now'
  BY <1>1, <1>2, <1>5
<1> QED BY <1>3, <1>4, <1>6

(* Steps that leave the rows, and steps that leave the chain. *)
LEMMA RowsStay ==
    ASSUME IndInv, order' = order, now' \in Nat, now' >= now
    PROVE  OrderInv'
<1> SUFFICES ASSUME NEW o \in Orders PROVE RowOK(order[o])'
  BY DEF IndInv, OrderInv, Apart, Born
<1>1. RowOK(order[o]) /\ order[o].created \in Nat /\ now \in Nat
  BY Facts DEF IndInv, OrderInv, TypeOK, Rows
<1> QED BY <1>1 DEF RowOK

LEMMA NothingMoves ==
    ASSUME order' = order, chain' = chain
    PROVE  Kept(order, chain, order', chain')
BY DEF Kept, RowMoves

(* A step of a watcher that only changes its pass. *)
LEMMA WatchOnly ==
    ASSUME IndInv, NEW w \in Watchers, NEW q \in Passes,
           watch' = [watch EXCEPT ![w] = q], PassOK(q, order, chain),
           LooksForAll /\ q.phase = "unmatched" => Justified(order, chain, q.event),
           UNCHANGED <<now, order, meta, recon, chain, credits, world>>
    PROVE  IndInv'
<1>1. TypeOK'
  BY DEF IndInv, TypeOK
<1>2. Kept(order, chain, order', chain')
  BY NothingMoves
<1>3. \A v \in Watchers : watch'[v] = IF v = w THEN q ELSE watch[v]
  BY DEF IndInv, TypeOK
<1>4. OrderInv'
  BY RowsStay DEF IndInv, TypeOK
<1>5. ChainInv'
  BY <1>2, ChainKept DEF Events
<1>6. PaidInv' /\ MetaInv' /\ ReconInv'
  BY <1>2, MoneyKept
<1>7. PassInv'
  BY <1>2, <1>3, PassesKept
<1>8. TimelyInv'
  BY <1>2, <1>3, TimelyKept
<1> QED BY <1>1, <1>4, <1>5, <1>6, <1>7, <1>8 DEF IndInv

(* A step that only changes the rows, and its own pass perhaps. *)
LEMMA RowsOnly ==
    ASSUME IndInv, \A o \in Orders : RowMoves(order[o], order'[o]),
           \A o \in Orders : ~Born(order, o) /\ Born(order', o) => order'[o].created = now,
           order' \in [Orders -> Rows], OrderInv',
           \A o \in Orders : order'[o].event = order[o].event,
           watch' \in [Watchers -> Passes],
           \A v \in Watchers : \/ watch'[v] = watch[v]
                               \/ /\ PassOK(watch'[v], order', chain')
                                  /\ watch'[v].phase # "unmatched",
           UNCHANGED <<now, meta, recon, chain, credits, world>>
    PROVE  IndInv'
<1>1. TypeOK'
  BY DEF IndInv, TypeOK
<1>2. Kept(order, chain, order', chain')
  BY DEF Kept, IndInv, ChainInv, Events
<1>3. ChainInv'
  BY <1>2, ChainKept DEF Events
<1>4. PaidInv' /\ MetaInv' /\ ReconInv'
  BY <1>2, MoneyKept
<1>5. PassInv'
  BY <1>2, PassesKept
<1>6. TimelyInv'
  BY <1>2, TimelyKept
<1> QED BY <1>1, <1>3, <1>4, <1>5, <1>6 DEF IndInv

-----------------------------------------------------------------------------
(* The steps of the invoices. *)
LEMMA ExpiredRow ==
    ASSUME IndInv, NEW o \in Orders
    PROVE  /\ Expired(o) \in Rows /\ RowMoves(order[o], Expired(o))
           /\ Sames(order[o], Expired(o)) /\ Expired(o).event = order[o].event
           /\ Expired(o).status # "none" <=> order[o].status # "none"
           /\ RowOK(Expired(o))
<1>1. order[o] \in Rows /\ RowOK(order[o])
  BY Facts DEF IndInv, OrderInv
<1> DEFINE x == [order[o] EXCEPT !.status = "expired"]
<1>2. x \in Rows /\ x.status = "expired" /\ Sames(order[o], x) /\ x.event = order[o].event
  BY <1>1 DEF Rows, Statuses, Sames
<1>3. CASE order[o].status = "pending" /\ now >= Expires(o)
  <2>1. Expired(o) = x
    BY <1>3 DEF Expired
  <2> HIDE DEF x
  <2>2. RowOK(x)
    BY <1>1, <1>2, <1>3 DEF RowOK, Sames
  <2> QED BY <1>2, <1>3, <2>1, <2>2 DEF RowMoves
<1>4. CASE ~(order[o].status = "pending" /\ now >= Expires(o))
  <2>1. Expired(o) = order[o]
    BY <1>4 DEF Expired
  <2> QED BY <1>1, <2>1 DEF RowMoves, Sames
<1> QED BY <1>3, <1>4

(* An order that changes keeps its amount, so that amounts stay apart. *)
LEMMA ApartKept ==
    ASSUME NEW ord, NEW ord2, Apart(ord),
           \A p \in Orders : (Born(ord2, p) <=> Born(ord, p)) /\ Sames(ord[p], ord2[p])
    PROVE  Apart(ord2)
BY DEF Apart, Sames

LEMMA CreateInv ==
    ASSUME IndInv, NEW o \in Orders, NEW a \in Amounts, Create(o, a)
    PROVE  IndInv'
<1> DEFINE swept == [p \in Orders |-> IF world.buyer[p] = world.buyer[o] THEN Expired(p)
                                      ELSE order[p]]
           new == [status |-> "pending", amount |-> a, created |-> now, event |-> None]
<1>1. /\ order[o].status = "none" /\ Free(a) /\ order' = [swept EXCEPT ![o] = new]
      /\ UNCHANGED <<now, meta, recon, chain, watch, credits, faults, world>>
  BY DEF Create
<1>2. /\ new \in Rows /\ new.status = "pending" /\ new.amount = a /\ new.event = None
      /\ RowOK(new) /\ new.created = now
  <2>1. now \in Nat
    BY DEF IndInv, TypeOK
  <2>2. new \in Rows /\ new.status = "pending" /\ new.amount = a /\ new.event = None
        /\ new.created = now
    BY <2>1 DEF Rows, Statuses
  <2> HIDE DEF new
  <2> QED BY <2>1, <2>2 DEF RowOK
<1>3. ASSUME NEW p \in Orders
      PROVE  /\ swept[p] \in Rows /\ RowMoves(order[p], swept[p])
             /\ Sames(order[p], swept[p]) /\ swept[p].event = order[p].event
             /\ swept[p].status # "none" <=> order[p].status # "none"
             /\ RowOK(swept[p])
  <2>1. order[p] \in Rows /\ RowOK(order[p])
    BY Facts DEF IndInv, OrderInv
  <2>2. CASE world.buyer[p] = world.buyer[o]
    BY <2>2, ExpiredRow
  <2>3. CASE world.buyer[p] # world.buyer[o]
    BY <2>1, <2>3 DEF RowMoves, Sames
  <2> QED BY <2>2, <2>3
<1>4. DOMAIN swept = Orders
  OBVIOUS
<1> HIDE DEF swept, new
<1>5. \A p \in Orders : order'[p] = IF p = o THEN new ELSE swept[p]
  BY <1>1, <1>4
<1>6. order[o].event = None
  BY <1>1 DEF IndInv, OrderInv, RowOK
<1>7. \A p \in Orders : RowMoves(order[p], order'[p]) /\ order'[p].event = order[p].event
  <2> SUFFICES ASSUME NEW p \in Orders
               PROVE  RowMoves(order[p], order'[p]) /\ order'[p].event = order[p].event
    OBVIOUS
  <2>1. CASE p = o
    BY <2>1, <1>1, <1>2, <1>5, <1>6 DEF RowMoves
  <2>2. CASE p # o
    BY <2>2, <1>3, <1>5
  <2> QED BY <2>1, <2>2
<1>8. order' \in [Orders -> Rows]
  <2>1. DOMAIN order' = Orders /\ order' = [p \in Orders |-> order'[p]]
    BY <1>1, <1>4
  <2> QED BY <2>1, <1>2, <1>3, <1>5
<1>9. OrderInv'
  <2>1. \A p \in Orders : RowOK(order'[p])
    BY <1>2, <1>3, <1>5
  <2>2. \A p \in Orders : RowOK(order[p])'
    BY <2>1, <1>1 DEF RowOK
  <2>3. Apart(order')
    <3> SUFFICES ASSUME NEW p \in Orders, NEW q \in Orders, Born(order', p), Born(order', q),
                        order'[p].amount = order'[q].amount
                 PROVE  p = q
      BY DEF Apart
    <3>1. \A r \in Orders \ {o} : /\ order'[r].amount = order[r].amount /\ order[r].amount # a
                                  /\ Born(order', r) <=> Born(order, r)
      BY <1>1, <1>3, <1>5 DEF Sames, Free, Born
    <3>2. order'[o].amount = a
      BY <1>2, <1>5
    <3>3. CASE p = o \/ q = o
      BY <3>1, <3>2, <3>3
    <3>4. CASE p # o /\ q # o
      BY <3>1, <3>4 DEF IndInv, OrderInv, Apart
    <3> QED BY <3>3, <3>4
  <2> QED BY <2>2, <2>3 DEF OrderInv
<1>10. \A p \in Orders : ~Born(order, p) /\ Born(order', p) => order'[p].created = now
  BY <1>2, <1>3, <1>5 DEF Born
<1> QED BY <1>1, <1>7, <1>8, <1>9, <1>10, RowsOnly DEF IndInv, TypeOK

(* A step that changes one order and keeps its amount and its event. *)
LEMMA OneRow ==
    ASSUME IndInv, NEW o \in Orders, NEW r \in Rows, order' = [order EXCEPT ![o] = r],
           RowMoves(order[o], r), Sames(order[o], r), r.event = order[o].event,
           r.status # "none" <=> order[o].status # "none", RowOK(r),
           watch' \in [Watchers -> Passes],
           \A v \in Watchers : \/ watch'[v] = watch[v]
                               \/ /\ PassOK(watch'[v], order', chain')
                                  /\ watch'[v].phase # "unmatched",
           UNCHANGED <<now, meta, recon, chain, credits, world>>
    PROVE  IndInv'
<1>1. \A p \in Orders : order'[p] = IF p = o THEN r ELSE order[p]
  BY DEF IndInv, TypeOK
<1>2. order' \in [Orders -> Rows]
  BY DEF IndInv, TypeOK
<1>3. \A p \in Orders : RowMoves(order[p], order'[p]) /\ order'[p].event = order[p].event
  BY <1>1 DEF RowMoves
<1>4. \A p \in Orders : RowOK(order[p])'
  BY <1>1 DEF IndInv, OrderInv, RowOK
<1>5. \A p \in Orders : (Born(order', p) <=> Born(order, p)) /\ Sames(order[p], order'[p])
  BY <1>1 DEF Born, Sames
<1>6. Apart(order')
  BY <1>5, ApartKept DEF IndInv, OrderInv
<1> QED BY <1>2, <1>3, <1>4, <1>5, <1>6, RowsOnly DEF OrderInv

LEMMA GetStatusInv ==
    ASSUME IndInv, NEW o \in Orders, GetStatus(o)
    PROVE  IndInv'
<1>1. /\ order' = [order EXCEPT ![o] = Expired(o)]
      /\ UNCHANGED <<now, meta, recon, chain, watch, credits, faults, world>>
  BY DEF GetStatus
<1>2. watch' \in [Watchers -> Passes]
  BY <1>1 DEF IndInv, TypeOK
<1> QED BY <1>1, <1>2, ExpiredRow, OneRow

LEMMA CancelInv ==
    ASSUME IndInv, NEW o \in Orders, Cancel(o)
    PROVE  IndInv'
<1> DEFINE r == [order[o] EXCEPT !.status = "cancelled"]
<1>1. /\ order' = [order EXCEPT ![o] = r] /\ order[o].status = "pending"
      /\ UNCHANGED <<now, meta, recon, chain, watch, credits, faults, world>>
  BY DEF Cancel
<1>2. order[o] \in Rows /\ RowOK(order[o])
  BY Facts DEF IndInv, OrderInv
<1>3. r \in Rows /\ r.status = "cancelled" /\ Sames(order[o], r) /\ r.event = order[o].event
  BY <1>2 DEF Rows, Statuses, Sames
<1>4. watch' \in [Watchers -> Passes]
  BY <1>1 DEF IndInv, TypeOK
<1> HIDE DEF r
<1>5. RowMoves(order[o], r) /\ RowOK(r)
  BY <1>1, <1>2, <1>3 DEF RowMoves, RowOK, Sames
<1> QED BY <1>1, <1>3, <1>4, <1>5, OneRow

-----------------------------------------------------------------------------
(* The steps of the chain and of the clock. *)
LEMMA ChainOnly ==
    ASSUME IndInv, chain' \in Seq(Transfers), Kept(order, chain, order', chain'),
           \A e \in Events' : \/ e \in Events
                              \/ MadeFor(order, chain'[e]) /\ chain'[e].at <= now,
           UNCHANGED <<now, order, meta, recon, watch, credits, world>>
    PROVE  IndInv'
<1>1. TypeOK'
  BY DEF IndInv, TypeOK
<1>2. OrderInv'
  BY RowsStay DEF IndInv, TypeOK
<1>3. ChainInv'
  BY ChainKept
<1>4. PaidInv' /\ MetaInv' /\ ReconInv'
  BY MoneyKept
<1>5. PassInv' /\ TimelyInv'
  BY PassesKept, TimelyKept
<1> QED BY <1>1, <1>2, <1>3, <1>4, <1>5 DEF IndInv

LEMMA ChainGrows ==
    ASSUME IndInv, NEW t \in Transfers, MadeFor(order, t), t.at <= now,
           chain' = Append(chain, t),
           UNCHANGED <<now, order, meta, recon, watch, credits, world>>
    PROVE  IndInv'
<1>1. chain \in Seq(Transfers) /\ chain' \in Seq(Transfers)
  BY DEF IndInv, TypeOK
<1>2. /\ \A e \in DOMAIN chain : e \in DOMAIN chain' /\ chain'[e] = chain[e]
      /\ \A e \in DOMAIN chain' : e \in DOMAIN chain \/ chain'[e] = t
  BY <1>1
<1>3. Kept(order, chain, order', chain')
  BY <1>2 DEF Kept, RowMoves
<1> QED BY <1>1, <1>2, <1>3, ChainOnly DEF Events

LEMMA PayInv ==
    ASSUME IndInv, NEW o \in Orders, NEW a \in {order[o].amount, Other}, Pay(o, a)
    PROVE  IndInv'
<1> DEFINE t == [for |-> o, amount |-> a, at |-> now, final |-> FALSE]
<1>1. /\ chain' = Append(chain, t) /\ Born(order, o)
      /\ UNCHANGED <<now, order, meta, recon, watch, credits, faults, world>>
  BY DEF Pay, Born
<1>2. order[o] \in Rows /\ RowOK(order[o]) /\ now \in Nat
  BY Facts DEF IndInv, OrderInv, TypeOK
<1>3. t \in Transfers /\ MadeFor(order, t) /\ t.at <= now
  <2>1. t \in Transfers /\ t.at <= now
    BY <1>2 DEF Rows, Transfers
  <2>2. order[o].created <= now
    BY <1>1, <1>2 DEF RowOK, Born
  <2>3. t.for = o /\ t.amount = a /\ t.at = now /\ o # None
    BY DirectCryptoAssumption
  <2> HIDE DEF t
  <2> QED BY <2>1, <2>2, <2>3, <1>1 DEF MadeFor
<1> HIDE DEF t
<1> QED BY <1>1, <1>3, ChainGrows

(* An early transfer has the amount of no order so far. *)
LEMMA PayEarlyInv ==
    ASSUME IndInv, NEW a \in Amounts, PayEarly(a)
    PROVE  IndInv'
<1> DEFINE t == [for |-> None, amount |-> a, at |-> now, final |-> FALSE]
<1>1. /\ chain' = Append(chain, t) /\ \A o \in Orders : order[o].amount # a
      /\ UNCHANGED <<now, order, meta, recon, watch, credits, faults, world>>
  BY DEF PayEarly
<1>2. now \in Nat
  BY DEF IndInv, TypeOK
<1>3. t \in Transfers /\ t.at <= now /\ t.for = None /\ t.amount = a
  BY <1>2 DEF Transfers
<1> HIDE DEF t
<1>4. MadeFor(order, t)
  BY <1>1, <1>3 DEF MadeFor
<1> QED BY <1>1, <1>3, <1>4, ChainGrows

LEMMA FinalizeInv ==
    ASSUME IndInv, NEW e \in Events, Finalize(e)
    PROVE  IndInv'
<1> DEFINE t == [chain[e] EXCEPT !.final = TRUE]
<1>1. /\ chain' = [chain EXCEPT ![e] = t]
      /\ UNCHANGED <<now, order, meta, recon, watch, credits, faults, world>>
  BY DEF Finalize
<1>2. chain \in Seq(Transfers) /\ chain[e] \in Transfers
  BY Facts DEF IndInv, TypeOK
<1>3. /\ t \in Transfers /\ t.for = chain[e].for /\ t.amount = chain[e].amount
      /\ t.at = chain[e].at
  BY <1>2 DEF Transfers
<1> HIDE DEF t
<1>4. chain' \in Seq(Transfers)
  BY <1>1, <1>2, <1>3, ExceptSeq DEF Events
<1>5. DOMAIN chain' = DOMAIN chain /\ \A d \in DOMAIN chain :
        chain'[d] = IF d = e THEN t ELSE chain[d]
  BY <1>1
<1>6. Kept(order, chain, order', chain')
  BY <1>1, <1>3, <1>5 DEF Kept, RowMoves
<1> QED BY <1>1, <1>4, <1>5, <1>6, ChainOnly DEF Events

LEMMA TickInv == ASSUME IndInv, Tick PROVE IndInv'
<1>1. /\ now < world.maxNow /\ now' = now + 1
      /\ UNCHANGED <<order, meta, recon, chain, watch, credits, faults, world>>
  BY DEF Tick
<1>2. world.maxNow \in Nat /\ now \in Nat
  BY Facts DEF TypeOK, Settings
<1>3. now' \in Nat /\ now' >= now /\ now' <= world'.maxNow
  BY <1>1, <1>2
<1>4. TypeOK'
  BY <1>1, <1>3 DEF IndInv, TypeOK
<1>5. Kept(order, chain, order', chain')
  BY <1>1, NothingMoves
<1>6. OrderInv'
  BY <1>1, <1>3, RowsStay
<1>7. ChainInv'
  BY <1>1, <1>3, <1>5, ChainKept DEF Events
<1>8. PaidInv' /\ MetaInv' /\ ReconInv'
  BY <1>1, <1>5, MoneyKept
<1>9. PassInv' /\ TimelyInv'
  BY <1>1, <1>5, PassesKept, TimelyKept
<1> QED BY <1>4, <1>6, <1>7, <1>8, <1>9 DEF IndInv

-----------------------------------------------------------------------------
(* The steps of a pass that change nothing else. *)
LEMMA BeginPassInv == ASSUME IndInv, NEW w \in Watchers, BeginPass(w) PROVE IndInv'
<1> DEFINE seen == IF world.live THEN {} ELSE Candidates
           q == [Asleep EXCEPT !.phase = "fetch", !.since = now, !.seen = seen]
<1>1. /\ watch' = [watch EXCEPT ![w] = q]
      /\ UNCHANGED <<now, order, meta, recon, chain, credits, faults, world>>
  BY DEF BeginPass
<1>2. seen \in SUBSET Orders /\ \A o \in seen : Born(order, o)
  BY DEF Candidates, Born
<1>3. now \in Nat
  BY DEF IndInv, TypeOK
<1> HIDE DEF seen
<1>4. q \in Passes /\ q.phase = "fetch" /\ q.seen = seen /\ q.todo = {}
  BY <1>2, <1>3 DEF Asleep, Passes
<1> HIDE DEF q
<1>5. PassOK(q, order, chain)
  BY <1>2, <1>4 DEF PassOK
<1> QED BY <1>1, <1>4, <1>5, WatchOnly

LEMMA FetchTransfersInv ==
    ASSUME IndInv, NEW w \in Watchers, FetchTransfers(w) PROVE IndInv'
<1> DEFINE from == (IF world.live THEN watch[w].since ELSE now) - world.overlap
           todo == {e \in Events : chain[e].final /\ chain[e].at >= from}
           q == [watch[w] EXCEPT !.phase = "scan", !.todo = todo]
<1>1. todo \in SUBSET Nat
  BY Facts
<1>2. watch[w] \in Passes /\ PassOK(watch[w], order, chain)
  BY Facts
<1>3. /\ watch' = [watch EXCEPT ![w] = q]
      /\ UNCHANGED <<now, order, meta, recon, chain, credits, faults, world>>
  <2>1. watch' = [watch EXCEPT ![w].phase = "scan", ![w].todo = todo]
    BY DEF FetchTransfers
  <2> HIDE DEF todo
  <2>2. watch' = [watch EXCEPT ![w] = q]
    BY <2>1, <1>2 DEF Passes, IndInv, TypeOK
  <2> QED BY <2>2 DEF FetchTransfers
<1> HIDE DEF todo
<1>4. q \in Passes /\ q.phase = "scan" /\ q.seen = watch[w].seen
  BY <1>1, <1>2 DEF Passes
<1> HIDE DEF q
<1>5. PassOK(q, order, chain)
  BY <1>2, <1>4 DEF PassOK
<1> QED BY <1>3, <1>4, <1>5, WatchOnly

LEMMA AsleepInv ==
    ASSUME IndInv, NEW w \in Watchers, watch' = [watch EXCEPT ![w] = Asleep],
           UNCHANGED <<now, order, meta, recon, chain, credits, world>>
    PROVE  IndInv'
<1>1. Asleep.phase # "unmatched"
  BY DEF Asleep
<1> QED BY <1>1, AsleepOK, WatchOnly

(* Where every invoice is looked for, a transfer that matches none and has *)
(* the amount of its order belongs to a paid one.                          *)
LEMMA UnmatchedIsPaid ==
    ASSUME IndInv, LooksForAll, NEW w \in Watchers, NEW e \in Events, Matches(w, e) = {}
    PROVE  Justified(order, chain, e)
<1> SUFFICES ASSUME chain[e].for # None PROVE Justified(order, chain, e)
  BY DEF Justified
<1> DEFINE o == chain[e].for
<1>1. o \in Orders /\ Born(order, o) /\ order[o] \in Rows /\ chain[e] \in Transfers
  BY Facts DEF Founded, Events
<1>2. now \in Nat /\ now <= world.maxNow /\ world.maxNow \in Nat /\ world.window \in Nat
  BY Facts DEF TypeOK, Settings
<1>3. Expires(o) >= now - world.window
  <2>1. order[o].created \in Nat /\ TTL \in Nat
    BY <1>1, DirectCryptoAssumption DEF Rows
  <2>2. Expires(o) = order[o].created + TTL
    BY DEF Expires
  <2>3. world.window >= world.maxNow
    BY DEF LooksForAll
  <2> QED BY <2>1, <2>2, <2>3, <1>2
<1>4. o \in Candidates \/ order[o].status = "paid"
  BY <1>1, <1>3 DEF Candidates, Born, Rows, Statuses
<1>5. o \in Candidates => order[o].amount # chain[e].amount
  BY DEF Matches, LooksForAll
<1> QED BY <1>4, <1>5 DEF Justified, Exact

LEMMA MatchesOwn ==
    ASSUME IndInv, NEW w \in Watchers, NEW e \in Events
    PROVE  \A o \in Matches(w, e) : o \in Orders /\ Belongs(order, chain, e, o)
<1>1. watch[w] \in Passes /\ PassOK(watch[w], order, chain)
  BY Facts
<1> SUFFICES ASSUME NEW o \in Matches(w, e)
             PROVE  o \in Orders /\ Belongs(order, chain, e, o)
  OBVIOUS
<1>2. o \in Orders /\ Born(order, o) /\ order[o].amount = chain[e].amount
  BY <1>1 DEF Matches, Candidates, Born, PassOK, Passes
<1> QED BY <1>2 DEF Belongs, Events

LEMMA TakeTransferInv ==
    ASSUME IndInv, NEW w \in Watchers, NEW e \in Events, TakeTransfer(w, e)
    PROVE  IndInv'
<1>1. watch[w] \in Passes /\ PassOK(watch[w], order, chain) /\ e \in Nat
  BY Facts
<1>2. /\ watch[w].phase = "scan" /\ e \in watch[w].todo
      /\ UNCHANGED <<now, order, meta, recon, chain, credits, faults, world>>
  BY DEF TakeTransfer
<1>3. CASE ~InRange(w, e)
  <2> DEFINE q == [watch[w] EXCEPT !.todo = watch[w].todo \ {e}]
  <2>1. watch' = [watch EXCEPT ![w] = q]
    <3>1. [watch[w] EXCEPT !.todo = @ \ {e}] = q
      BY <1>1 DEF Passes
    <3>2. watch' = [watch EXCEPT ![w] = [watch[w] EXCEPT !.todo = @ \ {e}]]
      BY <1>3 DEF TakeTransfer, IndInv, TypeOK
    <3> QED BY <3>1, <3>2
  <2>2. watch[w].todo \ {e} \in SUBSET Nat
    BY <1>1 DEF Passes
  <2>3. q \in Passes /\ q.phase = "scan" /\ q.seen = watch[w].seen
    BY <1>1, <1>2, <2>2 DEF Passes
  <2> HIDE DEF q
  <2>4. PassOK(q, order, chain)
    BY <1>1, <2>3 DEF PassOK
  <2> QED BY <1>2, <2>1, <2>3, <2>4, WatchOnly
<1>4. CASE InRange(w, e)
  <2> DEFINE M == Matches(w, e)
             ph == IF M = {} THEN "unmatched" ELSE "settle"
             q == [watch[w] EXCEPT !.event = e, !.orders = M, !.phase = ph]
  <2>1. watch' = [watch EXCEPT ![w] = q]
    BY <1>1, <1>4 DEF TakeTransfer, IndInv, TypeOK
  <2>2. M \in SUBSET Orders /\ \A o \in M : Belongs(order, chain, e, o)
    BY MatchesOwn
  <2>3. LooksForAll /\ ph = "unmatched" => Justified(order, chain, e)
    BY UnmatchedIsPaid
  <2> HIDE DEF M
  <2>4. ph \in {"unmatched", "settle"} /\ (ph = "unmatched" => M = {})
    OBVIOUS
  <2> HIDE DEF ph
  <2>5. /\ q \in Passes /\ q.phase = ph /\ q.seen = watch[w].seen /\ q.event = e
        /\ q.orders = M
    BY <1>1, <2>2, <2>4 DEF Passes
  <2> HIDE DEF q
  <2>6. PassOK(q, order, chain)
    BY <1>1, <2>2, <2>4, <2>5 DEF PassOK, Events
  <2> QED BY <1>2, <2>1, <2>3, <2>5, <2>6, WatchOnly
<1> QED BY <1>3, <1>4

-----------------------------------------------------------------------------
(* The steps that settle a transfer with its order.  The pass has only one *)
(* order for the transfer, the one of its amount.                          *)
LEMMA OwnOrder ==
    ASSUME IndInv, NEW w \in Watchers, watch[w].phase \in {"complete", "late", "refused"}
    PROVE  /\ watch[w].order \in Orders /\ Born(order, watch[w].order)
           /\ watch[w].event \in Events /\ watch[w].event \in Nat
           /\ watch[w].orders \subseteq {watch[w].order}
           /\ Belongs(order, chain, watch[w].event, watch[w].order)
<1>1. watch[w] \in Passes /\ PassOK(watch[w], order, chain)
  BY Facts
<1>2. /\ watch[w].event \in Events /\ watch[w].order \in watch[w].orders
      /\ \A o \in watch[w].orders : Belongs(order, chain, watch[w].event, o)
  BY <1>1 DEF PassOK, Events
<1>3. \A o \in watch[w].orders : o = watch[w].order
  BY <1>2, BelongsOnce DEF IndInv, OrderInv
<1>4. watch[w].order \in Orders /\ Born(order, watch[w].order)
  BY <1>2 DEF Belongs
<1> QED BY <1>2, <1>3, <1>4, Facts

(* A step that is over with the transfer leaves a pass in order. *)
LEMMA PassDone ==
    ASSUME IndInv, NEW w \in Watchers, NEW p \in Passes, p.seen = watch[w].seen,
           p.orders \subseteq {p.order}
    PROVE  /\ HandledOrder(p) \in Passes /\ HandledOrder(p).phase = "scan"
           /\ PassOK(HandledOrder(p), order, chain)
<1>1. \A o \in p.seen : Born(order, o)
  BY Facts DEF PassOK
<1> QED BY <1>1, Handled, HandledOK

(* The next phase of a pass, with nothing else changed. *)
LEMMA Phase ==
    ASSUME NEW p \in Passes, NEW ph \in {"complete", "late", "refused"},
           NEW q, q = [p EXCEPT !.phase = ph]
    PROVE  /\ q \in Passes /\ q.phase = ph /\ q.seen = p.seen /\ q.event = p.event
           /\ q.orders = p.orders /\ q.order = p.order
BY DEF Passes

LEMMA ReadSnapshotInv ==
    ASSUME IndInv, NEW w \in Watchers, NEW o \in Orders, ReadSnapshot(w, o)
    PROVE  IndInv'
<1> DEFINE e == watch[w].event
           p == [watch[w] EXCEPT !.order = o]
<1>1. watch[w] \in Passes /\ PassOK(watch[w], order, chain)
  BY Facts
<1>2. /\ watch[w].phase = "settle" /\ o \in watch[w].orders
      /\ UNCHANGED <<now, order, meta, recon, chain, credits, faults, world>>
  BY DEF ReadSnapshot
<1>3. /\ p \in Passes /\ p.seen = watch[w].seen /\ p.event = e /\ p.order = o
      /\ p.orders = watch[w].orders
  BY <1>1 DEF Passes
<1>4. /\ e \in Events /\ \A x \in p.orders : Belongs(order, chain, e, x)
      /\ p.orders \subseteq {o}
  <2>1. e \in Events /\ \A x \in watch[w].orders : Belongs(order, chain, e, x)
    BY <1>1, <1>2 DEF PassOK, Events
  <2>2. \A x \in watch[w].orders : x = o
    BY <1>2, <2>1, BelongsOnce DEF IndInv, OrderInv
  <2> QED BY <1>3, <2>1, <2>2
<1>5. ASSUME watch' = [watch EXCEPT ![w] = HandledOrder(p)]
      PROVE  IndInv'
  BY <1>2, <1>3, <1>4, <1>5, PassDone, WatchOnly
<1>6. CASE e \in recon \/ (ClosedFor(e, o) /\ Early(e, o))
  <2>1. watch' = [watch EXCEPT ![w] = HandledOrder(p)]
    BY <1>6 DEF ReadSnapshot
  <2> QED BY <2>1, <1>5
<1>7. CASE e \notin recon /\ ~ClosedFor(e, o)
  <2> DEFINE q == [p EXCEPT !.phase = "complete"]
  <2>1. watch' = [watch EXCEPT ![w] = q]
    BY <1>7 DEF ReadSnapshot
  <2> HIDE DEF p
  <2>2. /\ q \in Passes /\ q.phase = "complete" /\ q.seen = p.seen /\ q.event = p.event
        /\ q.orders = p.orders /\ q.order = p.order
    BY <1>3, Phase
  <2> HIDE DEF q
  <2>3. PassOK(q, order, chain)
    BY <1>1, <1>2, <1>3, <1>4, <2>2 DEF PassOK, Events
  <2> QED BY <1>2, <2>1, <2>2, <2>3, WatchOnly
<1>8. CASE e \notin recon /\ ClosedFor(e, o) /\ ~Early(e, o)
  <2> DEFINE q == [p EXCEPT !.phase = "late"]
  <2>1. watch' = [watch EXCEPT ![w] = q]
    BY <1>8 DEF ReadSnapshot
  <2>2. Closed(order, chain, e, o)
    BY <1>8 DEF Closed, ClosedFor, Missed, TooLate, Expires
  <2> HIDE DEF p
  <2>3. /\ q \in Passes /\ q.phase = "late" /\ q.seen = p.seen /\ q.event = p.event
        /\ q.orders = p.orders /\ q.order = p.order
    BY <1>3, Phase
  <2> HIDE DEF q
  <2>4. PassOK(q, order, chain)
    BY <1>1, <1>2, <1>3, <1>4, <2>2, <2>3 DEF PassOK, Events
  <2> QED BY <1>2, <2>1, <2>3, <2>4, WatchOnly
<1> QED BY <1>6, <1>7, <1>8 DEF ClosedFor, Early

LEMMA ReadRefusedInv ==
    ASSUME IndInv, NEW w \in Watchers, ReadRefused(w) PROVE IndInv'
<1>1. watch[w] \in Passes /\ PassOK(watch[w], order, chain)
  BY Facts
<1>2. /\ watch[w].phase = "refused"
      /\ UNCHANGED <<now, order, meta, recon, chain, credits, faults, world>>
  BY DEF ReadRefused
<1>3. CASE order[watch[w].order].status = "expired"
  <2> DEFINE q == [watch[w] EXCEPT !.phase = "late"]
  <2>1. watch' = [watch EXCEPT ![w] = q]
    BY <1>3 DEF ReadRefused, IndInv, TypeOK
  <2>2. /\ q \in Passes /\ q.phase = "late" /\ q.seen = watch[w].seen
        /\ q.event = watch[w].event /\ q.orders = watch[w].orders /\ q.order = watch[w].order
    BY <1>1, Phase
  <2> HIDE DEF q
  <2>3. PassOK(q, order, chain)
    BY <1>1, <1>2, <2>2 DEF PassOK, Closed
  <2> QED BY <1>2, <2>1, <2>2, <2>3, WatchOnly
<1>4. CASE order[watch[w].order].status # "expired"
  <2>1. watch' = [watch EXCEPT ![w] = HandledOrder(watch[w])]
    BY <1>4 DEF ReadRefused, IndInv, TypeOK
  <2> QED BY <1>1, <1>2, <2>1, OwnOrder, PassDone, WatchOnly
<1> QED BY <1>3, <1>4

LEMMA RefuseInv ==
    ASSUME IndInv, NEW w \in Watchers, watch[w].phase = "complete", Refuse(w),
           UNCHANGED <<now, recon, chain, faults, world>>
    PROVE  IndInv'
<1> DEFINE e == watch[w].event
           o == watch[w].order
           st == order[o].status
<1>1. watch[w] \in Passes /\ PassOK(watch[w], order, chain)
  BY Facts
<1>2. UNCHANGED <<order, meta, credits>>
  BY DEF Refuse
<1>3. CASE st = "cancelled" /\ ~Early(e, o)
  <2> DEFINE q == [watch[w] EXCEPT !.phase = "late"]
  <2>1. watch' = [watch EXCEPT ![w] = q]
    BY <1>3 DEF Refuse, IndInv, TypeOK
  <2>2. /\ q \in Passes /\ q.phase = "late" /\ q.seen = watch[w].seen
        /\ q.event = watch[w].event /\ q.orders = watch[w].orders /\ q.order = watch[w].order
    BY <1>1, Phase
  <2> HIDE DEF q
  <2>3. PassOK(q, order, chain)
    BY <1>1, <1>3, <2>2 DEF PassOK, Closed
  <2> QED BY <1>2, <2>1, <2>2, <2>3, WatchOnly
<1>4. CASE ~(st = "cancelled" /\ ~Early(e, o))
  <2>1. \/ watch' = [watch EXCEPT ![w] = Asleep]
        \/ watch' = [watch EXCEPT ![w] = HandledOrder(watch[w])]
    BY <1>4 DEF Refuse, IndInv, TypeOK
  <2>2. CASE watch' = [watch EXCEPT ![w] = Asleep]
    BY <1>2, <2>2, AsleepInv
  <2>3. CASE watch' = [watch EXCEPT ![w] = HandledOrder(watch[w])]
    BY <1>1, <1>2, <2>3, OwnOrder, PassDone, WatchOnly
  <2> QED BY <2>1, <2>2, <2>3
<1> QED BY <1>3, <1>4

LEMMA RefuseLateInv ==
    ASSUME IndInv, NEW w \in Watchers, watch[w].phase = "complete", RefuseLate(w),
           UNCHANGED <<now, recon, chain, faults, world>>
    PROVE  IndInv'
<1> DEFINE e == watch[w].event
           o == watch[w].order
           r == [order[o] EXCEPT !.status = "expired"]
           q == [watch[w] EXCEPT !.phase = "refused"]
<1>1. /\ order[o].status \in {"pending", "expired"} /\ TooLate(e, o)
      /\ order' = [order EXCEPT ![o] = r] /\ watch' = [watch EXCEPT ![w] = q]
      /\ UNCHANGED <<meta, credits>>
  BY DEF RefuseLate, IndInv, TypeOK
<1>2. watch[w] \in Passes /\ PassOK(watch[w], order, chain)
  BY Facts
<1>3. o \in Orders /\ e \in Events
  BY OwnOrder
<1>4. order[o] \in Rows /\ RowOK(order[o])
  BY <1>3, Facts DEF IndInv, OrderInv
<1>5. /\ r \in Rows /\ r.status = "expired" /\ Sames(order[o], r) /\ r.event = order[o].event
      /\ order[o].status = "expired" => r = order[o]
  BY <1>4 DEF Rows, Statuses, Sames
<1>6. /\ q \in Passes /\ q.phase = "refused" /\ q.seen = watch[w].seen
      /\ q.event = e /\ q.orders = watch[w].orders /\ q.order = o
  BY <1>2, Phase
<1> HIDE DEF r, q
<1>7. RowMoves(order[o], r) /\ RowOK(r)
  BY <1>1, <1>4, <1>5 DEF RowMoves, RowOK, Sames
<1>8. \A p \in Orders : order'[p] = IF p = o THEN r ELSE order[p]
  BY <1>1 DEF IndInv, TypeOK
<1>9. Missed(order', chain', e, o)
  BY <1>1, <1>3, <1>5, <1>8 DEF TooLate, Expires, Missed, Sames
<1>10. \A p \in watch[w].seen : Born(order', p)
  BY <1>2, <1>5, <1>8 DEF PassOK, Passes, Born
<1>11. PassOK(q, order', chain')
  <2>1. /\ o \in watch[w].orders /\ e \in DOMAIN chain
        /\ \A x \in watch[w].orders : Belongs(order, chain, e, x)
    BY <1>2 DEF PassOK
  <2>2. \A x \in watch[w].orders : Belongs(order', chain', e, x)
    BY <1>5, <1>8, <2>1 DEF Belongs, Born, Sames
  <2>3. order'[o].status = "expired"
    BY <1>3, <1>5, <1>8
  <2> QED BY <1>6, <1>9, <1>10, <2>1, <2>2, <2>3 DEF PassOK
<1>12. watch' \in [Watchers -> Passes]
       /\ \A v \in Watchers : watch'[v] = IF v = w THEN q ELSE watch[v]
  BY <1>1, <1>6 DEF IndInv, TypeOK
<1> QED BY <1>1, <1>3, <1>5, <1>6, <1>7, <1>11, <1>12, OneRow

LEMMA CreditInv ==
    ASSUME IndInv, NEW w \in Watchers, watch[w].phase = "complete", Credit(w),
           UNCHANGED <<now, recon, chain, faults, world>>
    PROVE  IndInv'
<1> DEFINE e == watch[w].event
           o == watch[w].order
           r == [order[o] EXCEPT !.status = "paid", !.event = e]
           m == [meta[o] EXCEPT !.external = e]
           q == HandledOrder(watch[w])
<1>1. /\ order[o].status \in {"pending", "expired"} /\ e \notin recon
      /\ ~TooLate(e, o) /\ ~Early(e, o)
      /\ order' = [order EXCEPT ![o] = r] /\ meta' = [meta EXCEPT ![o] = m]
      /\ credits' = [credits EXCEPT ![o] = @ + 1] /\ watch' = [watch EXCEPT ![w] = q]
  <2>1. order' = [order EXCEPT ![o].status = "paid", ![o].event = e]
    BY DEF Credit
  <2>2. order' = [order EXCEPT ![o] = r]
    BY <2>1, OwnOrder DEF IndInv, TypeOK
  <2> QED BY <2>2 DEF Credit, IndInv, TypeOK
<1>2. watch[w] \in Passes /\ PassOK(watch[w], order, chain)
  BY Facts
<1>3. /\ o \in Orders /\ e \in Events /\ e \in Nat /\ Belongs(order, chain, e, o)
      /\ watch[w].orders \subseteq {o}
  BY OwnOrder
<1>4. order[o] \in Rows /\ RowOK(order[o]) /\ meta[o] \in Metas /\ e # None
  BY <1>3, Facts, DirectCryptoAssumption DEF IndInv, OrderInv
<1>5. r \in Rows /\ r.status = "paid" /\ Sames(order[o], r) /\ r.event = e
  BY <1>3, <1>4 DEF Rows, Statuses, Sames
<1>6. m \in Metas /\ m.external = e /\ m.late = meta[o].late
  BY <1>3, <1>4 DEF Metas
<1>7. q \in Passes /\ q.phase = "scan" /\ PassOK(q, order, chain)
  BY <1>2, <1>3, PassDone
<1> HIDE DEF r, m, q
<1>8. /\ \A p \in Orders : order'[p] = (IF p = o THEN r ELSE order[p])
      /\ \A p \in Orders : meta'[p] = (IF p = o THEN m ELSE meta[p])
      /\ \A v \in Watchers : watch'[v] = (IF v = w THEN q ELSE watch[v])
  BY <1>1 DEF IndInv, TypeOK
<1>9. TypeOK'
  <2>1. order' \in [Orders -> Rows] /\ meta' \in [Orders -> Metas]
    BY <1>1, <1>5, <1>6 DEF IndInv, TypeOK
  <2>2. watch' \in [Watchers -> Passes] /\ credits' \in [Orders -> Nat]
    <3>1. credits[o] + 1 \in Nat /\ credits' = [credits EXCEPT ![o] = credits[o] + 1]
      BY <1>1, <1>3 DEF IndInv, TypeOK
    <3> QED BY <1>1, <1>7, <3>1 DEF IndInv, TypeOK
  <2> QED BY <2>1, <2>2 DEF IndInv, TypeOK
<1>10. RowMoves(order[o], r) /\ RowOK(r)
  BY <1>1, <1>4, <1>5 DEF RowMoves, RowOK, Sames
<1>11. Kept(order, chain, order', chain')
  <2>1. \A p \in Orders : Born(order', p) => Born(order, p)
    BY <1>1, <1>8 DEF Born
  <2> QED BY <2>1, <1>8, <1>10 DEF Kept, RowMoves
<1>12. OrderInv'
  <2>1. \A p \in Orders : RowOK(order[p])'
    BY <1>8, <1>10 DEF IndInv, OrderInv, RowOK
  <2>2. \A p \in Orders : (Born(order', p) <=> Born(order, p)) /\ Sames(order[p], order'[p])
    BY <1>1, <1>5, <1>8 DEF Born, Sames
  <2>3. Apart(order')
    BY <2>2, ApartKept DEF IndInv, OrderInv
  <2> QED BY <2>1, <2>3 DEF OrderInv
<1>13. ChainInv'
  BY <1>11, ChainKept DEF Events
<1>14. PaidInv' /\ MetaInv' /\ ReconInv'
  <2>1. Pays(order', chain', e, o) /\ order'[o].event = e /\ e \notin recon'
    <3>1. chain[e].at \in Nat /\ order[o].created \in Nat /\ order'[o].created = order[o].created
      BY <1>3, <1>4, <1>5, <1>8, Facts DEF Rows, Transfers, Sames
    <3>2. order'[o].created <= chain'[e].at
      BY <1>1, <3>1 DEF Early
    <3>3. ~Missed(order', chain', e, o)
      BY <1>1, <3>1 DEF TooLate, Expires, Missed
    <3>4. Belongs(order', chain', e, o)
      BY <1>3, <1>11, BelongsKept
    <3> QED BY <1>1, <1>3, <1>5, <1>8, <3>2, <3>3, <3>4 DEF Pays
  <2>2. MetaOK(order', chain', meta'[o], o)
    <3>1. MetaOK(order, chain, meta[o], o)
      BY <1>3 DEF IndInv, MetaInv
    <3>2. MetaOK(order', chain', meta[o], o)
      BY <3>1, <1>11, MetaKept
    <3> QED BY <3>2, <2>1, <1>3, <1>6, <1>8 DEF MetaOK, Pays
  <2> QED BY <1>8, <1>11, <2>1, <2>2, MoneyKept
<1>15. PassInv'
  <2>1. PassOK(q, order', chain')
    BY <1>7, <1>11, Facts, PassKept
  <2> QED BY <2>1, <1>8, <1>11, PassesKept
<1>16. TimelyInv'
  BY <1>7, <1>8, <1>11, TimelyKept
<1> QED BY <1>9, <1>12, <1>13, <1>14, <1>15, <1>16 DEF IndInv

(* A step that is over with a transfer and leaves the rows. *)
LEMMA VerdictOnly ==
    ASSUME IndInv, NEW w \in Watchers, watch[w].orders \subseteq {watch[w].order},
           watch' = [watch EXCEPT ![w] = HandledOrder(watch[w])],
           meta' \in [Orders -> Metas], recon' \in SUBSET Nat,
           \A o \in Orders : meta'[o] = meta[o] \/ MetaOK(order, chain, meta'[o], o),
           \A e \in recon' : \/ e \in recon
                             \/ /\ e \in Events /\ \A o \in Orders : order[o].event # e
                                /\ LooksForAll => Justified(order, chain, e),
           UNCHANGED <<now, order, chain, credits, world>>
    PROVE  IndInv'
<1> DEFINE q == HandledOrder(watch[w])
<1>1. q \in Passes /\ q.phase = "scan" /\ PassOK(q, order, chain)
  BY Facts, PassDone
<1> HIDE DEF q
<1>2. \A v \in Watchers : watch'[v] = IF v = w THEN q ELSE watch[v]
  BY DEF IndInv, TypeOK, q
<1>3. TypeOK'
  BY <1>1 DEF IndInv, TypeOK, q
<1>4. Kept(order, chain, order', chain')
  BY NothingMoves
<1>5. OrderInv'
  BY RowsStay DEF IndInv, TypeOK
<1>6. ChainInv'
  BY <1>4, ChainKept DEF Events
<1>7. PaidInv' /\ MetaInv' /\ ReconInv'
  <2>1. order' = order /\ chain' = chain /\ Events' = Events
    BY DEF Events
  <2> QED BY <1>4, <2>1, MoneyKept
<1>8. PassInv'
  BY <1>1, <1>2, <1>4, PassesKept
<1>9. TimelyInv'
  BY <1>1, <1>2, <1>4, TimelyKept
<1> QED BY <1>3, <1>5, <1>6, <1>7, <1>8, <1>9 DEF IndInv

LEMMA RecordUnmatchedInv ==
    ASSUME IndInv, NEW w \in Watchers, RecordUnmatched(w) PROVE IndInv'
<1> DEFINE e == watch[w].event
<1>1. /\ watch[w].phase = "unmatched"
      /\ recon' = (IF Credited(e) THEN recon ELSE recon \cup {e})
      /\ watch' = [watch EXCEPT ![w] = HandledOrder(watch[w])]
      /\ UNCHANGED <<now, order, meta, chain, credits, faults, world>>
  BY DEF RecordUnmatched, IndInv, TypeOK
<1>2. e \in Events /\ watch[w].orders \subseteq {watch[w].order}
  BY <1>1, Facts DEF PassOK, Events
<1>3. LooksForAll => Justified(order, chain, e)
  BY <1>1 DEF IndInv, TimelyInv
<1>4. meta' \in [Orders -> Metas] /\ recon' \in SUBSET Nat
  BY <1>1, <1>2, Facts DEF TypeOK
<1>5. \A d \in recon' : \/ d \in recon
                        \/ /\ d \in Events /\ \A o \in Orders : order[o].event # d
                           /\ LooksForAll => Justified(order, chain, d)
  BY <1>1, <1>2, <1>3 DEF Credited
<1> QED BY <1>1, <1>2, <1>4, <1>5, VerdictOnly

LEMMA RecordLateInv ==
    ASSUME IndInv, NEW w \in Watchers, RecordLate(w) PROVE IndInv'
<1> DEFINE e == watch[w].event
           o == watch[w].order
<1>1. /\ watch[w].phase = "late"
      /\ meta' = (IF EventUsed(e, o) THEN meta ELSE [meta EXCEPT ![o] = LateRow(e, o)])
      /\ watch' = [watch EXCEPT ![w] = HandledOrder(watch[w])]
      /\ UNCHANGED <<now, order, recon, chain, credits, faults, world>>
  BY DEF RecordLate, IndInv, TypeOK
<1>2. /\ o \in Orders /\ e \in Nat /\ Belongs(order, chain, e, o) /\ Closed(order, chain, e, o)
      /\ watch[w].orders \subseteq {o} /\ meta[o] \in Metas
  BY <1>1, OwnOrder, Facts DEF PassOK
<1>3. LateRow(e, o) \in Metas /\ MetaOK(order, chain, LateRow(e, o), o)
  <2> DEFINE x == IF meta[o].external = None THEN e ELSE meta[o].external
  <2>1. LateRow(e, o) = [external |-> x, late |-> meta[o].late \cup {e}]
    BY DEF LateRow
  <2>2. MetaOK(order, chain, meta[o], o)
    BY <1>2 DEF IndInv, MetaInv
  <2>3. x \in Nat \cup {None} /\ Belongs(order, chain, x, o)
    BY <1>2, <2>2 DEF Metas, MetaOK
  <2> HIDE DEF x
  <2>4. LateRow(e, o) \in Metas
    BY <1>2, <2>1, <2>3 DEF Metas
  <2>5. LateRow(e, o).external = x /\ LateRow(e, o).late = meta[o].late \cup {e}
    BY <2>1
  <2> QED BY <1>2, <2>2, <2>3, <2>4, <2>5 DEF MetaOK
<1>4. meta' \in [Orders -> Metas] /\ \A p \in Orders :
        meta'[p] = meta[p] \/ MetaOK(order, chain, meta'[p], p)
  <2>1. CASE EventUsed(e, o)
    BY <1>1, <2>1 DEF IndInv, TypeOK
  <2>2. CASE ~EventUsed(e, o)
    <3>1. meta' = [meta EXCEPT ![o] = LateRow(e, o)]
      BY <1>1, <2>2
    <3> QED BY <1>2, <1>3, <3>1 DEF IndInv, TypeOK
  <2> QED BY <2>1, <2>2
<1>5. recon' \in SUBSET Nat
  BY <1>1 DEF IndInv, TypeOK
<1> QED BY <1>1, <1>2, <1>4, <1>5, VerdictOnly

-----------------------------------------------------------------------------
LEMMA InitInv == Init => IndInv
<1> SUFFICES ASSUME Init PROVE IndInv
  OBVIOUS
<1>1. Unborn \in Rows /\ Unborn.status = "none" /\ Unborn.amount = Other /\ Unborn.event = None
  BY DEF Unborn, Rows, Statuses
<1>2. NoMeta \in Metas /\ NoMeta.external = None /\ NoMeta.late = {}
  BY DEF NoMeta, Metas
<1>3. world \in Settings /\ world.maxNow \in Nat
  BY DirectCryptoAssumption DEF Init, Settings
<1>4. TypeOK
  BY <1>1, <1>2, <1>3, AsleepOK DEF Init, TypeOK
<1>5. OrderInv
  BY <1>1 DEF Init, OrderInv, RowOK, Apart, Born
<1>6. Events = {}
  BY DEF Init, Events
<1>7. ChainInv /\ ReconInv /\ PaidInv
  BY <1>1, <1>6 DEF Init, ChainInv, ReconInv, PaidInv
<1>8. MetaInv
  BY <1>2 DEF Init, MetaInv, MetaOK
<1>9. PassInv
  BY AsleepOK DEF Init, PassInv
<1>10. Asleep.phase # "unmatched"
  BY DEF Asleep
<1>11. TimelyInv
  BY <1>10 DEF Init, TimelyInv
<1> QED BY <1>4, <1>5, <1>7, <1>8, <1>9, <1>11 DEF IndInv

LEMMA StutterInv == ASSUME IndInv, UNCHANGED vars PROVE IndInv'
<1>1. Kept(order, chain, order', chain')
  BY NothingMoves DEF vars
<1>2. TypeOK' /\ OrderInv' /\ ChainInv'
  BY <1>1, RowsStay, ChainKept DEF vars, IndInv, TypeOK, Events
<1>3. PaidInv' /\ MetaInv' /\ ReconInv'
  BY <1>1, MoneyKept DEF vars
<1>4. PassInv' /\ TimelyInv'
  BY <1>1, PassesKept, TimelyKept DEF vars
<1> QED BY <1>2, <1>3, <1>4 DEF IndInv

LEMMA PassStepInv == ASSUME IndInv, NEW w \in Watchers, PassStep(w) PROVE IndInv'
<1>1. CASE EndPass(w)
  BY <1>1, AsleepInv DEF EndPass
<1>2. CASE CompleteTopUp(w)
  BY <1>2, CreditInv, RefuseLateInv, RefuseInv DEF CompleteTopUp
<1> QED BY <1>1, <1>2, BeginPassInv, FetchTransfersInv, TakeTransferInv, RecordUnmatchedInv,
          ReadSnapshotInv, ReadRefusedInv, RecordLateInv DEF PassStep

LEMMA Inductive == Spec => []IndInv
<1>1. IndInv /\ [Next]_vars => IndInv'
  <2> SUFFICES ASSUME IndInv, [Next]_vars PROVE IndInv'
    OBVIOUS
  <2>1. ASSUME NEW o \in Orders, NEW a \in Amounts, Create(o, a) PROVE IndInv'
    BY <2>1, CreateInv
  <2>2. ASSUME NEW o \in Orders, GetStatus(o) \/ Cancel(o) PROVE IndInv'
    BY <2>2, GetStatusInv, CancelInv
  <2>3. ASSUME NEW o \in Orders, NEW a \in {order[o].amount, Other}, Pay(o, a) PROVE IndInv'
    BY <2>3, PayInv
  <2>4. ASSUME NEW e \in Events, Finalize(e) PROVE IndInv'
    BY <2>4, FinalizeInv
  <2>7. ASSUME NEW a \in Amounts, PayEarly(a) PROVE IndInv'
    BY <2>7, PayEarlyInv
  <2>5. CASE Tick
    BY <2>5, TickInv
  <2>6. ASSUME NEW w \in Watchers, PassStep(w) \/ PassFails(w) PROVE IndInv'
    <3>1. CASE PassStep(w)
      BY <3>1, PassStepInv
    <3>2. CASE PassFails(w)
      BY <3>2, AsleepInv DEF PassFails
    <3> QED BY <2>6, <3>1, <3>2
  <2> QED BY <2>1, <2>2, <2>3, <2>4, <2>5, <2>6, <2>7, StutterInv DEF Next
<1> QED BY InitInv, <1>1, PTL DEF Spec

-----------------------------------------------------------------------------
(* What pays an order is a transfer its buyer made for it before its       *)
(* deadline, and no transfer pays two orders, on every chain and with any  *)
(* number of watchers (validateDirectUSDTEventForPayment and the amounts   *)
(* reserved for ever).  A transfer that was for no order pays only one     *)
(* created in the second it was mined in.                                  *)
THEOREM PaidByItsBuyer == Spec => []PaidInTimeByItsBuyer
<1>1. IndInv => PaidInTimeByItsBuyer
  <2> SUFFICES ASSUME IndInv, NEW o \in Orders, order[o].event # None
               PROVE  /\ \/ chain[order[o].event].for = o
                         \/ /\ chain[order[o].event].for = None
                            /\ chain[order[o].event].at = order[o].created
                      /\ InTime(order[o].event, o)
                      /\ \A p \in Orders \ {o} : order[p].event # order[o].event
    BY DEF PaidInTimeByItsBuyer
  <2> DEFINE e == order[o].event
  <2>1. /\ Belongs(order, chain, e, o) /\ ~Missed(order, chain, e, o)
        /\ order[o].created <= chain[e].at
    BY DEF IndInv, PaidInv, Pays
  <2>2. e \in Events /\ Born(order, o) /\ order[o].amount = chain[e].amount
    BY <2>1 DEF Belongs, Events
  <2>3. chain[e].at \in Nat /\ order[o].created \in Nat /\ TTL \in Nat
    BY <2>2, Facts, DirectCryptoAssumption DEF Transfers, Rows
  <2>4. InTime(e, o)
    BY <2>1, <2>3 DEF InTime, Expires, Missed
  <2>5. chain[e].for # None => chain[e].for = o
    BY <2>1, <2>2, MatchIsOwn
  <2>6. chain[e].for = None => chain[e].at = order[o].created
    <3>1. chain[e].for = None => chain[e].at <= order[o].created
      BY <2>2 DEF IndInv, ChainInv, MadeFor
    <3> QED BY <2>1, <2>3, <3>1
  <2>7. ASSUME NEW p \in Orders \ {o} PROVE order[p].event # e
    <3>1. order[p].event # None => Belongs(order, chain, order[p].event, p)
      BY DEF IndInv, PaidInv, Pays
    <3>2. Apart(order)
      BY DEF IndInv, OrderInv
    <3> QED BY <2>1, <3>1, <3>2, BelongsOnce
  <2> QED BY <2>4, <2>5, <2>6, <2>7
<1> QED BY <1>1, Inductive, PTL

(* A transfer that was credited is neither set aside nor listed as late:   *)
(* two watchers that judge it agree (lockDirectUSDTEventDecision).         *)
THEOREM VerdictsAgree == Spec => []OneVerdict
<1>1. IndInv => OneVerdict
  <2> SUFFICES ASSUME IndInv, NEW e \in Events, NEW o \in Orders, order[o].event = e
               PROVE  e \notin recon /\ ~Late(e)
    BY DEF OneVerdict, Credited
  <2>1. e # None
    BY Facts, DirectCryptoAssumption
  <2>2. Belongs(order, chain, e, o) /\ ~Missed(order, chain, e, o) /\ e \notin recon
    BY <2>1 DEF IndInv, PaidInv, Pays
  <2>3. order[o].status = "paid"
    BY <2>1 DEF IndInv, OrderInv, RowOK
  <2>4. ASSUME NEW p \in Orders, e \in meta[p].late PROVE FALSE
    <3>1. Belongs(order, chain, e, p) /\ Closed(order, chain, e, p)
      BY <2>4 DEF IndInv, MetaInv, MetaOK
    <3>2. p = o
      BY <2>2, <3>1, BelongsOnce DEF IndInv, OrderInv
    <3> QED BY <3>1, <3>2, <2>2, <2>3 DEF Closed
  <2> QED BY <2>2, <2>4 DEF Late
<1> QED BY <1>1, Inductive, PTL

-----------------------------------------------------------------------------
(* When a pass is over with a transfer, its order is paid, or the transfer *)
(* is set aside, listed as late, or skipped because its order is younger.  *)
Verdict(e) ==
  \/ \E o \in Orders : /\ Belongs(order, chain, e, o)
                       /\ order'[o].status = "paid" /\ order'[o].amount = order[o].amount
  \/ /\ UNCHANGED <<order, chain, world>>
     /\ \/ e \in recon' \/ Late(e)'
        \/ \E o \in Orders : Belongs(order, chain, e, o) /\ Early(e, o)

(* No other order has the transfer. *)
LEMMA OwnTransfer ==
    ASSUME IndInv, NEW e \in Events, NEW o, Belongs(order, chain, e, o)
    PROVE  ~EventUsed(e, o)
<1> SUFFICES ASSUME NEW p \in Orders \ {o}, meta[p].external = e PROVE FALSE
  BY DEF EventUsed
<1>1. e # None
  BY Facts, DirectCryptoAssumption
<1>2. Belongs(order, chain, e, p)
  BY <1>1 DEF IndInv, MetaInv, MetaOK
<1> QED BY <1>2, BelongsOnce DEF IndInv, OrderInv

LEMMA DoneEvent ==
    ASSUME IndInv, NEW w \in Watchers, NEW p \in Passes, p.todo = watch[w].todo,
           p.orders \subseteq {p.order}, watch' = [watch EXCEPT ![w] = HandledOrder(p)],
           NEW e \in Events, DoneWith(w, e)
    PROVE  e = p.event
<1>1. watch'[w] = HandledOrder(p)
  BY DEF IndInv, TypeOK
<1>2. e \in watch[w].todo /\ e \notin watch'[w].todo
  BY DEF DoneWith
<1> QED BY <1>1, <1>2, Handled

LEMMA NotDone ==
    ASSUME IndInv, NEW w \in Watchers, NEW q, watch' = [watch EXCEPT ![w] = q],
           q.phase = "idle" \/ q.todo = watch[w].todo, NEW e, DoneWith(w, e)
    PROVE  FALSE
<1>1. watch'[w] = q
  BY DEF IndInv, TypeOK
<1> QED BY <1>1 DEF DoneWith

LEMMA SnapshotVerdict ==
    ASSUME IndInv, NEW w \in Watchers, NEW o \in Orders, ReadSnapshot(w, o),
           NEW e \in Events, DoneWith(w, e)
    PROVE  Verdict(e)
<1> DEFINE d == watch[w].event
           p == [watch[w] EXCEPT !.order = o]
<1>1. watch[w] \in Passes /\ PassOK(watch[w], order, chain)
  BY Facts
<1>2. /\ watch[w].phase = "settle" /\ o \in watch[w].orders
      /\ UNCHANGED <<now, order, meta, recon, chain, credits, faults, world>>
  BY DEF ReadSnapshot
<1>3. /\ p \in Passes /\ p.event = d /\ p.order = o /\ p.orders = watch[w].orders
      /\ p.todo = watch[w].todo
  BY <1>1 DEF Passes
<1>4. d \in Events /\ Belongs(order, chain, d, o) /\ p.orders \subseteq {o}
  <2>1. d \in Events /\ \A x \in watch[w].orders : Belongs(order, chain, d, x)
    BY <1>1, <1>2 DEF PassOK, Events
  <2>2. \A x \in watch[w].orders : x = o
    BY <1>2, <2>1, BelongsOnce DEF IndInv, OrderInv
  <2> QED BY <1>2, <1>3, <2>1, <2>2
<1>5. CASE d \notin recon /\ ClosedFor(d, o) /\ Early(d, o)
  <2>1. watch' = [watch EXCEPT ![w] = HandledOrder(p)]
    BY <1>5 DEF ReadSnapshot
  <2>2. e = d
    BY <2>1, <1>3, <1>4, DoneEvent
  <2> QED BY <1>2, <1>4, <1>5, <2>2 DEF Verdict
<1>6. CASE d \in recon
  <2>1. watch' = [watch EXCEPT ![w] = HandledOrder(p)]
    BY <1>6 DEF ReadSnapshot
  <2>2. e = d
    BY <2>1, <1>3, <1>4, DoneEvent
  <2> QED BY <1>2, <1>6, <2>2 DEF Verdict
<1>7. CASE d \notin recon /\ ~(ClosedFor(d, o) /\ Early(d, o))
  <2> DEFINE ph == IF ~ClosedFor(d, o) THEN "complete" ELSE "late"
             q == [p EXCEPT !.phase = ph]
  <2>1. watch' = [watch EXCEPT ![w] = q]
    <3>1. CASE ClosedFor(d, o)
      BY <1>7, <3>1 DEF ReadSnapshot
    <3>2. CASE ~ClosedFor(d, o)
      BY <1>7, <3>2 DEF ReadSnapshot
    <3> QED BY <3>1, <3>2
  <2> HIDE DEF p, ph
  <2>2. q.todo = p.todo
    BY <1>3 DEF Passes
  <2> HIDE DEF q
  <2> QED BY <1>3, <2>1, <2>2, NotDone
<1> QED BY <1>5, <1>6, <1>7

LEMMA UnmatchedVerdict ==
    ASSUME IndInv, NEW w \in Watchers, RecordUnmatched(w), NEW e \in Events, DoneWith(w, e)
    PROVE  Verdict(e)
<1> DEFINE d == watch[w].event
<1>1. /\ watch[w].phase = "unmatched"
      /\ recon' = (IF Credited(d) THEN recon ELSE recon \cup {d})
      /\ watch' = [watch EXCEPT ![w] = HandledOrder(watch[w])]
      /\ UNCHANGED <<now, order, meta, chain, credits, faults, world>>
  BY DEF RecordUnmatched, IndInv, TypeOK
<1>2. watch[w] \in Passes /\ watch[w].orders \subseteq {watch[w].order}
  BY <1>1, Facts DEF PassOK
<1>3. e = d
  BY <1>1, <1>2, DoneEvent
<1>4. CASE ~Credited(d)
  BY <1>1, <1>3, <1>4 DEF Verdict
<1>5. CASE Credited(d)
  <2>1. PICK o \in Orders : order[o].event = e
    BY <1>3, <1>5 DEF Credited
  <2>2. e # None
    BY Facts, DirectCryptoAssumption
  <2>3. Belongs(order, chain, e, o) /\ order[o].status = "paid"
    BY <2>1, <2>2 DEF IndInv, PaidInv, OrderInv, RowOK, Pays
  <2> QED BY <1>1, <2>3 DEF Verdict
<1> QED BY <1>4, <1>5

LEMMA RefusedVerdict ==
    ASSUME IndInv, NEW w \in Watchers, ReadRefused(w), NEW e \in Events, DoneWith(w, e)
    PROVE  Verdict(e)
<1> DEFINE o == watch[w].order
<1>1. watch[w] \in Passes /\ PassOK(watch[w], order, chain)
  BY Facts
<1>2. watch[w].phase = "refused" /\ UNCHANGED <<order, chain, world>>
  BY DEF ReadRefused
<1>3. CASE order[o].status = "expired"
  <2> DEFINE q == [watch[w] EXCEPT !.phase = "late"]
  <2>1. watch' = [watch EXCEPT ![w] = q] /\ q.todo = watch[w].todo
    BY <1>1, <1>3 DEF ReadRefused, IndInv, TypeOK, Passes
  <2> HIDE DEF q
  <2> QED BY <2>1, NotDone
<1>4. CASE order[o].status # "expired"
  <2>1. watch' = [watch EXCEPT ![w] = HandledOrder(watch[w])]
    BY <1>4 DEF ReadRefused, IndInv, TypeOK
  <2>2. e = watch[w].event /\ o \in Orders /\ Belongs(order, chain, e, o)
    BY <1>1, <1>2, <2>1, OwnOrder, DoneEvent
  <2>3. order[o].status = "paid"
    BY <1>1, <1>2, <1>4 DEF PassOK
  <2> QED BY <1>2, <2>2, <2>3 DEF Verdict
<1> QED BY <1>3, <1>4

LEMMA LateVerdict ==
    ASSUME IndInv, NEW w \in Watchers, RecordLate(w), NEW e \in Events, DoneWith(w, e)
    PROVE  Verdict(e)
<1> DEFINE d == watch[w].event
           o == watch[w].order
<1>1. /\ watch[w].phase = "late"
      /\ meta' = (IF EventUsed(d, o) THEN meta ELSE [meta EXCEPT ![o] = LateRow(d, o)])
      /\ watch' = [watch EXCEPT ![w] = HandledOrder(watch[w])]
      /\ UNCHANGED <<now, order, recon, chain, credits, faults, world>>
  BY DEF RecordLate, IndInv, TypeOK
<1>2. /\ o \in Orders /\ d \in Events /\ Belongs(order, chain, d, o)
      /\ watch[w] \in Passes /\ watch[w].orders \subseteq {o}
  BY <1>1, OwnOrder, Facts
<1>3. e = d
  BY <1>1, <1>2, DoneEvent
<1>4. meta' = [meta EXCEPT ![o] = LateRow(d, o)]
  BY <1>1, <1>2, OwnTransfer
<1>5. e \in meta'[o].late
  <2>1. meta'[o] = LateRow(d, o)
    BY <1>2, <1>4 DEF IndInv, TypeOK
  <2>2. LateRow(d, o).late = meta[o].late \cup {d}
    BY DEF LateRow
  <2> QED BY <1>3, <2>1, <2>2
<1>6. Late(e)'
  BY <1>2, <1>5 DEF Late
<1> QED BY <1>1, <1>6 DEF Verdict

LEMMA CompleteVerdict ==
    ASSUME IndInv, NEW w \in Watchers, CompleteTopUp(w), NEW e \in Events, DoneWith(w, e)
    PROVE  Verdict(e)
<1> DEFINE d == watch[w].event
           o == watch[w].order
           st == order[o].status
<1>1. watch[w] \in Passes /\ PassOK(watch[w], order, chain)
  BY Facts
<1>2. watch[w].phase = "complete" /\ UNCHANGED <<recon, chain, world>>
  BY DEF CompleteTopUp
<1>3. /\ o \in Orders /\ d \in Events /\ Belongs(order, chain, d, o)
      /\ watch[w].orders \subseteq {o}
  BY <1>2, OwnOrder
<1>4. ~EventUsed(d, o)
  BY <1>3, OwnTransfer
<1>5. CASE Credit(w)
  <2>1. /\ watch' = [watch EXCEPT ![w] = HandledOrder(watch[w])]
        /\ order' = [order EXCEPT ![o].status = "paid", ![o].event = d]
    BY <1>5 DEF Credit, IndInv, TypeOK
  <2>2. e = d
    BY <1>1, <1>3, <2>1, DoneEvent
  <2>3. order[o] \in Rows
    BY <1>3, Facts
  <2>4. order'[o].status = "paid" /\ order'[o].amount = order[o].amount
    BY <1>3, <2>1, <2>3 DEF IndInv, TypeOK, Rows
  <2> QED BY <1>3, <2>2, <2>4 DEF Verdict
<1>6. CASE RefuseLate(w)
  <2> DEFINE q == [watch[w] EXCEPT !.phase = "refused"]
  <2>1. watch' = [watch EXCEPT ![w] = q] /\ q.todo = watch[w].todo
    BY <1>1, <1>6 DEF RefuseLate, IndInv, TypeOK, Passes
  <2> HIDE DEF q
  <2> QED BY <2>1, NotDone
<1>7. CASE Refuse(w)
  <2>1. CASE st = "cancelled" /\ ~Early(d, o)
    <3> DEFINE q == [watch[w] EXCEPT !.phase = "late"]
    <3>1. watch' = [watch EXCEPT ![w] = q] /\ q.todo = watch[w].todo
      BY <1>1, <1>7, <2>1 DEF Refuse, IndInv, TypeOK, Passes
    <3> HIDE DEF q
    <3> QED BY <3>1, NotDone
  <2>2. CASE st # "cancelled" /\ st # "paid" /\ d \notin recon /\ ~Early(d, o)
    <3>1. watch' = [watch EXCEPT ![w] = Asleep] /\ Asleep.phase = "idle"
      BY <1>4, <1>7, <2>2 DEF Refuse, IndInv, TypeOK, Asleep
    <3> QED BY <3>1, NotDone
  <2>3. CASE Early(d, o) \/ (st # "cancelled" /\ (st = "paid" \/ d \in recon))
    <3>1. watch' = [watch EXCEPT ![w] = HandledOrder(watch[w])] /\ order' = order
      BY <1>7, <2>3 DEF Refuse, IndInv, TypeOK
    <3>2. e = d
      BY <1>1, <1>3, <3>1, DoneEvent
    <3> QED BY <1>2, <1>3, <2>3, <3>1, <3>2 DEF Verdict
  <2> QED BY <2>1, <2>2, <2>3 DEF Early
<1> QED BY <1>5, <1>6, <1>7 DEF CompleteTopUp

LEMMA TakeLeaves ==
    ASSUME IndInv, NEW w \in Watchers, NEW d \in Events, TakeTransfer(w, d),
           NEW e \in Events, DoneWith(w, e)
    PROVE  FALSE
<1>1. watch[w] \in Passes
  BY Facts
<1>2. CASE InRange(w, d)
  <2> DEFINE M == Matches(w, d)
             ph == IF M = {} THEN "unmatched" ELSE "settle"
             q == [watch[w] EXCEPT !.event = d, !.orders = M, !.phase = ph]
  <2>1. watch' = [watch EXCEPT ![w] = q]
    BY <1>2 DEF TakeTransfer, IndInv, TypeOK
  <2> HIDE DEF M, ph
  <2>2. q.todo = watch[w].todo
    BY <1>1 DEF Passes
  <2> HIDE DEF q
  <2> QED BY <2>1, <2>2, NotDone
<1>3. CASE ~InRange(w, d)
  <2> DEFINE q == [watch[w] EXCEPT !.todo = watch[w].todo \ {d}]
  <2>1. watch' = [watch EXCEPT ![w] = q]
    BY <1>3 DEF TakeTransfer, IndInv, TypeOK
  <2>2. q.todo = watch[w].todo \ {d}
    BY <1>1 DEF Passes
  <2>3. watch'[w] = q
    BY <2>1 DEF IndInv, TypeOK
  <2> HIDE DEF q
  <2>4. e = d
    BY <2>2, <2>3 DEF DoneWith
  <2> QED BY <1>3, <2>4 DEF DoneWith
<1> QED BY <1>2, <1>3

LEMMA PassVerdict ==
    ASSUME IndInv, NEW w \in Watchers, PassStep(w), NEW e \in Events, DoneWith(w, e)
    PROVE  Verdict(e)
<1>1. watch[w] \in Passes /\ PassOK(watch[w], order, chain) /\ e \in watch[w].todo
  BY Facts DEF DoneWith
<1>2. ~BeginPass(w)
  <2> SUFFICES ASSUME BeginPass(w) PROVE FALSE
    OBVIOUS
  <2> QED BY <1>1 DEF BeginPass, PassOK
<1>3. ~FetchTransfers(w)
  BY <1>1 DEF FetchTransfers, PassOK
<1>4. ~EndPass(w)
  BY <1>1 DEF EndPass
<1> QED BY <1>2, <1>3, <1>4, TakeLeaves, UnmatchedVerdict, SnapshotVerdict, CompleteVerdict,
          RefusedVerdict, LateVerdict DEF PassStep

(* Only its own step ends a watcher's work on a transfer. *)
LEMMA StepVerdict ==
    ASSUME IndInv, Next, NEW w \in Watchers, NEW e \in Events, DoneWith(w, e)
    PROVE  Verdict(e)
<1>1. watch' # watch
  BY DEF DoneWith
<1>2. PICK v \in Watchers : PassStep(v) \/ PassFails(v)
  <2>1. ~\E o \in Orders, a \in Amounts : Create(o, a)
    BY <1>1 DEF Create
  <2>2. ~\E o \in Orders : GetStatus(o) \/ Cancel(o)
    BY <1>1 DEF GetStatus, Cancel
  <2>3. ~\E o \in Orders : \E a \in {order[o].amount, Other} : Pay(o, a)
    BY <1>1 DEF Pay
  <2>4. ~(\E d \in Events : Finalize(d)) /\ ~Tick /\ ~\E a \in Amounts : PayEarly(a)
    BY <1>1 DEF Finalize, Tick, PayEarly
  <2> QED BY <2>1, <2>2, <2>3, <2>4 DEF Next
<1>3. \E q : watch' = [watch EXCEPT ![v] = q]
  <2>1. CASE PassFails(v)
    BY <2>1 DEF PassFails
  <2>2. CASE BeginPass(v)
    BY <2>2 DEF BeginPass
  <2>3. CASE FetchTransfers(v)
    <3> DEFINE from == (IF world.live THEN watch[v].since ELSE now) - world.overlap
               todo == {d \in Events : chain[d].final /\ chain[d].at >= from}
    <3>1. watch' = [watch EXCEPT ![v].phase = "scan", ![v].todo = todo]
      BY <2>3 DEF FetchTransfers
    <3> HIDE DEF todo
    <3>2. watch' = [watch EXCEPT ![v] = [watch[v] EXCEPT !.phase = "scan", !.todo = todo]]
      BY <3>1 DEF IndInv, TypeOK
    <3> QED BY <3>2
  <2>4. CASE EndPass(v)
    BY <2>4 DEF EndPass
  <2>5. CASE \E d \in Events : TakeTransfer(v, d)
    BY <2>5 DEF TakeTransfer
  <2>6. CASE RecordUnmatched(v)
    BY <2>6 DEF RecordUnmatched
  <2>7. CASE \E o \in Orders : ReadSnapshot(v, o)
    BY <2>7 DEF ReadSnapshot
  <2>8. CASE CompleteTopUp(v)
    <3>1. CASE Credit(v)
      BY <3>1 DEF Credit
    <3>2. CASE RefuseLate(v)
      BY <3>2 DEF RefuseLate
    <3>3. CASE Refuse(v)
      BY <3>3 DEF Refuse
    <3> QED BY <2>8, <3>1, <3>2, <3>3 DEF CompleteTopUp
  <2>9. CASE ReadRefused(v)
    BY <2>9 DEF ReadRefused
  <2>10. CASE RecordLate(v)
    BY <2>10 DEF RecordLate
  <2> QED BY <1>2, <2>1, <2>2, <2>3, <2>4, <2>5, <2>6, <2>7, <2>8, <2>9, <2>10 DEF PassStep
<1>4. v = w
  <2>1. PICK q : watch' = [watch EXCEPT ![v] = q]
    BY <1>3
  <2>2. v # w => watch'[w] = watch[w]
    BY <2>1 DEF IndInv, TypeOK
  <2> QED BY <2>2 DEF DoneWith
<1>5. ~PassFails(w)
  <2> SUFFICES ASSUME PassFails(w) PROVE FALSE
    OBVIOUS
  <2>1. watch' = [watch EXCEPT ![w] = Asleep] /\ Asleep.phase = "idle"
    BY DEF PassFails, Asleep
  <2> QED BY <2>1, NotDone
<1> QED BY <1>2, <1>4, <1>5, PassVerdict

(* A pass that is over with a transfer has left a verdict on it, another   *)
(* transfer paid the order meanwhile, or the transfer was mined before the *)
(* order of its amount was created (the transfer loops of the watchers'    *)
(* passes).                                                                *)
THEOREM PassesJudge == Spec => DoneIsJudged
<1>1. IndInv /\ [Next]_vars =>
        [\A w \in Watchers, e \in Events : DoneWith(w, e) =>
           \/ Judged(e)'
           \/ \E o \in Orders : /\ order'[o].amount = chain[e].amount
                                /\ \/ order'[o].status = "paid"
                                   \/ chain[e].at < order'[o].created]_vars
  <2> SUFFICES ASSUME IndInv, Next, NEW w \in Watchers, NEW e \in Events, DoneWith(w, e)
               PROVE  \/ Judged(e)'
                      \/ \E o \in Orders : /\ order'[o].amount = chain[e].amount
                                           /\ \/ order'[o].status = "paid"
                                              \/ chain[e].at < order'[o].created
    OBVIOUS
  <2>1. Verdict(e)
    BY StepVerdict
  <2>2. CASE \E o \in Orders : /\ Belongs(order, chain, e, o) /\ order'[o].status = "paid"
                              /\ order'[o].amount = order[o].amount
    BY <2>2 DEF Belongs
  <2>3. CASE e \in recon' \/ Late(e)'
    BY <2>3 DEF Judged
  <2>4. CASE order' = order /\ \E o \in Orders : Belongs(order, chain, e, o) /\ Early(e, o)
    BY <2>4 DEF Belongs, Early
  <2> QED BY <2>1, <2>2, <2>3, <2>4 DEF Verdict
<1> QED BY <1>1, Inductive, PTL DEF Spec, DoneIsJudged

(* On TRON, while every order is looked for, a pass that is over with an   *)
(* exact transfer that was made for an order in time leaves it paid, or it *)
(* was cancelled (direct_crypto_payment.go:972).                           *)
THEOREM TimelyTransfersPay == Spec => TimelyIsPaid
<1>1. IndInv /\ IndInv' /\ [Next]_vars =>
        [\A w \in Watchers, e \in Events, o \in Orders :
             /\ world.live /\ world.window >= world.maxNow
             /\ chain[e].for = o /\ chain[e].amount = order[o].amount
             /\ InTime(e, o) /\ DoneWith(w, e)
           => order'[o].status \in {"paid", "cancelled"}]_vars
  <2> SUFFICES ASSUME IndInv, IndInv', Next, NEW w \in Watchers, NEW e \in Events,
                      NEW o \in Orders, LooksForAll, chain[e].for = o,
                      Exact(order, chain[e]), InTime(e, o), DoneWith(w, e)
               PROVE  order'[o].status \in {"paid", "cancelled"}
    BY DEF LooksForAll, Exact
  <2>1. o # None /\ MadeFor(order, chain[e]) /\ chain[e].at \in Nat /\ order[o].created \in Nat
        /\ TTL \in Nat
    BY Facts, DirectCryptoAssumption DEF IndInv, ChainInv, Transfers, Rows
  <2>2. Belongs(order, chain, e, o) /\ order[o].created <= chain[e].at
    BY <2>1 DEF MadeFor, Belongs, Exact, Events
  <2>3. ASSUME NEW p, Belongs(order, chain, e, p) PROVE p = o
    BY <2>2, <2>3, BelongsOnce DEF IndInv, OrderInv
  <2>4. CASE \E p \in Orders : Belongs(order, chain, e, p) /\ order'[p].status = "paid"
    BY <2>3, <2>4
  <2>5. CASE \E p \in Orders : Belongs(order, chain, e, p) /\ Early(e, p)
    BY <2>1, <2>2, <2>3, <2>5 DEF Early
  <2>6. CASE UNCHANGED <<order, chain, world>> /\ e \in recon'
    <3>1. LooksForAll'
      BY <2>6 DEF LooksForAll
    <3>2. Justified(order', chain', e)
      BY <2>6, <3>1 DEF IndInv, TimelyInv
    <3> QED BY <2>1, <2>6, <3>2 DEF Justified, Exact
  <2>7. CASE UNCHANGED <<order, chain, world>> /\ Late(e)'
    <3>1. PICK p \in Orders : e \in meta'[p].late
      BY <2>7 DEF Late
    <3>2. Belongs(order', chain', e, p) /\ Closed(order', chain', e, p)
      BY <3>1 DEF IndInv, MetaInv, MetaOK
    <3>3. o = p /\ Closed(order, chain, e, o)
      BY <2>3, <2>7, <3>2
    <3>4. chain[e].at < order[o].created + TTL
      BY DEF InTime, Expires
    <3>5. ~Missed(order, chain, e, o)
      BY <2>1, <3>4 DEF Missed
    <3> QED BY <2>7, <3>3, <3>5 DEF Closed
  <2> QED BY <2>4, <2>5, <2>6, <2>7, StepVerdict DEF Verdict
<1> QED BY <1>1, Inductive, PTL DEF Spec, TimelyIsPaid

-----------------------------------------------------------------------------
(* Every step of an order is one the invoice allows. *)
LEMMA BillStep ==
    ASSUME IndInv, order' \in [Orders -> Rows],
           \A o \in Orders :
             \/ order'[o].status = order[o].status /\ credits'[o] = credits[o]
             \/ /\ order[o].status = "none" /\ order'[o].status = "pending"
                /\ credits'[o] = credits[o]
             \/ /\ order[o].status = "pending" /\ order'[o].status \in {"expired", "cancelled"}
                /\ credits'[o] = credits[o]
             \/ /\ order[o].status \in {"pending", "expired"} /\ order'[o].status = "paid"
                /\ credits'[o] = credits[o] + 1
    PROVE  Bill!Next
<1> SUFFICES ASSUME NEW o \in Orders
             PROVE  \/ Bill!Stays(o) \/ Bill!Opens(o) \/ Bill!Expires(o)
                    \/ Bill!Cancels(o) \/ Bill!IsPaid(o)
  BY DEF Bill!Next
<1> QED BY DEF Bill!Stays, Bill!Opens, Bill!Expires, Bill!Cancels, Bill!IsPaid, Bill!Moves

(* A direct crypto order is the invoice everybody who reads its status     *)
(* relies on: paid once, credited exactly then, final when paid or         *)
(* cancelled, whatever sweep, polls and watchers do at the same time.      *)
THEOREM IsInvoice == Spec => ImplementsInvoice
<1>1. Init => Bill!Init
  BY DEF Init, Bill!Init, Unborn
<1>2. IndInv /\ IndInv' /\ [Next]_vars => [Bill!Next]_(Bill!vars)
  <2> SUFFICES ASSUME IndInv, IndInv', [Next]_vars
               PROVE  Bill!Next \/ UNCHANGED Bill!vars
    OBVIOUS
  <2>1. /\ order \in [Orders -> Rows] /\ order' \in [Orders -> Rows]
        /\ credits \in [Orders -> Nat] /\ credits' \in [Orders -> Nat]
    BY DEF IndInv, TypeOK
  <2>2. ASSUME UNCHANGED <<order, credits>> PROVE Bill!Next \/ UNCHANGED Bill!vars
    BY <2>2 DEF Bill!vars
  <2>3. ASSUME NEW o \in Orders, NEW a \in Amounts, Create(o, a) PROVE Bill!Next
    <3> DEFINE swept == [p \in Orders |-> IF world.buyer[p] = world.buyer[o]
                                          THEN Expired(p) ELSE order[p]]
               new == [status |-> "pending", amount |-> a, created |-> now, event |-> None]
    <3>1. /\ order[o].status = "none" /\ order' = [swept EXCEPT ![o] = new]
          /\ credits' = credits
      BY <2>3 DEF Create
    <3>2. ASSUME NEW p \in Orders
          PROVE  \/ swept[p].status = order[p].status
                 \/ order[p].status = "pending" /\ swept[p].status = "expired"
      <4>1. order[p] \in Rows
        BY <2>1
      <4> QED BY <4>1 DEF Expired, Rows
    <3>3. new.status = "pending" /\ DOMAIN swept = Orders
      OBVIOUS
    <3> HIDE DEF swept, new
    <3>4. \A p \in Orders : order'[p] = IF p = o THEN new ELSE swept[p]
      BY <3>1, <3>3
    <3> QED BY <2>1, <3>1, <3>2, <3>3, <3>4, BillStep
  <2>4. ASSUME NEW o \in Orders, NEW st \in {"expired", "cancelled"},
               order' = [order EXCEPT ![o].status = st],
               order[o].status = "pending" \/ order[o].status = st, credits' = credits
        PROVE  Bill!Next
    <3>1. order'[o].status = st /\ \A p \in Orders \ {o} : order'[p] = order[p]
      BY <2>1, <2>4 DEF Rows
    <3> QED BY <2>1, <2>4, <3>1, BillStep
  <2>5. ASSUME NEW o \in Orders, GetStatus(o) PROVE Bill!Next
    <3>1. Expired(o) = [order[o] EXCEPT !.status = "expired"] /\ order[o].status = "pending"
      BY <2>5 DEF GetStatus, Expired
    <3>2. order' = [order EXCEPT ![o].status = "expired"] /\ credits' = credits
      BY <2>1, <2>5, <3>1 DEF GetStatus
    <3> QED BY <2>4, <3>1, <3>2
  <2>6. ASSUME NEW o \in Orders, Cancel(o) PROVE Bill!Next
    BY <2>4, <2>6 DEF Cancel
  <2>7. ASSUME NEW w \in Watchers, CompleteTopUp(w)
        PROVE  Bill!Next \/ UNCHANGED Bill!vars
    <3> DEFINE o == watch[w].order
               d == watch[w].event
    <3>1. o \in Orders
      BY <2>7, OwnOrder DEF CompleteTopUp
    <3>2. CASE Credit(w)
      <4>1. /\ order[o].status \in {"pending", "expired"}
            /\ order' = [order EXCEPT ![o].status = "paid", ![o].event = d]
            /\ credits' = [credits EXCEPT ![o] = @ + 1]
        BY <3>2 DEF Credit
      <4>2. order[o] \in Rows
        BY <2>1, <3>1
      <4>3. order'[o].status = "paid" /\ \A p \in Orders \ {o} : order'[p] = order[p]
        BY <2>1, <3>1, <4>1, <4>2 DEF Rows
      <4>4. credits'[o] = credits[o] + 1 /\ \A p \in Orders \ {o} : credits'[p] = credits[p]
        BY <2>1, <3>1, <4>1
      <4> QED BY <2>1, <4>1, <4>3, <4>4, BillStep
    <3>3. CASE RefuseLate(w)
      BY <2>4, <3>1, <3>3 DEF RefuseLate
    <3>4. CASE Refuse(w)
      BY <2>2, <3>4 DEF Refuse
    <3> QED BY <2>7, <3>2, <3>3, <3>4 DEF CompleteTopUp
  <2>8. ASSUME NEW w \in Watchers, PassStep(w) \/ PassFails(w)
        PROVE  Bill!Next \/ UNCHANGED Bill!vars
    <3>1. CompleteTopUp(w) \/ UNCHANGED <<order, credits>>
      BY <2>8 DEF PassStep, PassFails, BeginPass, FetchTransfers, EndPass, TakeTransfer,
                  RecordUnmatched, ReadSnapshot, ReadRefused, RecordLate
    <3> QED BY <2>2, <2>7, <3>1
  <2>9. ASSUME (\E o \in Orders : \E a \in {order[o].amount, Other} : Pay(o, a))
               \/ (\E a \in Amounts : PayEarly(a))
               \/ (\E e \in Events : Finalize(e)) \/ Tick \/ UNCHANGED vars
        PROVE  UNCHANGED <<order, credits>>
    BY <2>9 DEF Pay, PayEarly, Finalize, Tick, vars
  <2> QED BY <2>2, <2>3, <2>5, <2>6, <2>8, <2>9 DEF Next
<1> QED BY <1>1, <1>2, Inductive, PTL DEF Spec, ImplementsInvoice, Bill!Spec

=============================================================================
