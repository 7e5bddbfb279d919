------------------------ MODULE BillingOutboxProofs -------------------------
(***************************************************************************)
(* For any number of events and workers: no intent leaves the outbox       *)
(* before its log was written, and a finalized event that nobody delivers  *)
(* any more left the logs it should.                                       *)
(*                                                                         *)
(* The first needs that a delivery deletes only a payload that it sent     *)
(* itself (DeletesSent).  The second needs that nobody touches an intent   *)
(* while its settlement runs, so that no preliminary payload is on its way *)
(* when the final one replaces it (SettlesAlone), and that claims of an    *)
(* event exclude each other, so that the count a delivery read is still    *)
(* true when it writes (DeliversAlone).                                    *)
(***************************************************************************)
EXTENDS BillingOutbox, SequenceTheorems, TLAPS

Carries(w) == worker[w].pc \in {"count", "write", "delete"}

\* Nothing is known of a request that did not begin.
Untouched(e) ==
    /\ row[e] = "none" /\ log[e] = <<>> /\ sent[e] = {}
    /\ \A w \in Workers : ~BusyWith(w, e)

NewInv == \A e \in Events : request[e] = "new" => Untouched(e)

\* A final payload is not replaced by a preliminary one.
RowInv == \A e \in Events : request[e] = "finalized" => row[e] # "pending"

\* What was sent is in LOG_DB.
SentInv == \A e \in Events : sent[e] # {} => log[e] # <<>>

\* A delivery deletes a payload that was sent.
DeletesSent ==
    \A w \in Workers : worker[w].pc = "delete" => worker[w].payload \in sent[worker[w].event]

\* Logs do not disappear: what a delivery counted is there.
FoundInv ==
    \A w \in Workers : worker[w].pc = "write" /\ worker[w].found => log[worker[w].event] # <<>>

\* While a settlement that ends in time is running, nobody delivers its intent;
\* after it, only the final payload is on its way.
SettlesAlone ==
    timing.settlement =>
      /\ \A e \in Events : request[e] = "staged" =>
           ~due[e] /\ log[e] = <<>> /\ \A w \in Workers : ~BusyWith(w, e)
      /\ \A e \in Events : request[e] = "finalized" =>
           \A i \in DOMAIN log[e] : log[e][i] = "final"
      /\ \A w \in Workers : Carries(w) /\ request[worker[w].event] = "finalized" =>
           worker[w].payload = "final"

\* Where deliveries end in time too, an event has one delivery at a time, whose
\* count is true until it writes.
DeliversAlone ==
    timing.settlement /\ timing.delivery =>
      /\ \A e \in Events, v, w \in Workers : BusyWith(v, e) /\ BusyWith(w, e) => v = w
      /\ \A e \in Events, w \in Workers : BusyWith(w, e) => ~due[e]
      /\ \A e \in Events : Len(log[e]) <= 1
      /\ \A w \in Workers : worker[w].pc = "write" /\ ~worker[w].found =>
           log[worker[w].event] = <<>>

IndInv ==
    TypeOK /\ NewInv /\ RowInv /\ NothingLost /\ SentInv /\ DeletesSent /\ FoundInv
    /\ SettlesAlone /\ DeliversAlone

\* The fields a delivery has at each of its steps.
LEMMA Fields ==
    ASSUME NEW r \in WorkerType
    PROVE  /\ r.pc \in {"idle", "read", "count", "write", "delete"}
           /\ r.pc = "idle" <=> r = Idle
           /\ r # Idle => r.event \in Events
           /\ r.pc \in {"count", "write", "delete"} => r.payload \in Payloads
           /\ r.pc = "write" => r.found \in BOOLEAN
  <1>1. CASE r = Idle
    BY <1>1 DEF Idle
  <1>2. CASE r \in [pc : {"read"}, event : Events]
    BY <1>2 DEF Idle
  <1>3. CASE r \in [pc : {"count", "delete"}, event : Events, payload : Payloads]
    BY <1>3 DEF Idle
  <1>4. CASE r \in [pc : {"write"}, event : Events, payload : Payloads, found : BOOLEAN]
    BY <1>4 DEF Idle
  <1> QED BY <1>1, <1>2, <1>3, <1>4 DEF WorkerType

\* The rows of LOG_DB after a write: one more, or the same number, with the
\* payload that was sent.
LEMMA Rewritten ==
    ASSUME NEW s \in Seq(Payloads), NEW p \in Payloads
    PROVE  /\ [i \in DOMAIN s |-> p] \in Seq(Payloads)
           /\ Len([i \in DOMAIN s |-> p]) = Len(s)
  <1>1. DOMAIN s = 1 .. Len(s) /\ Len(s) \in Nat
    OBVIOUS
  <1> DEFINE t == [i \in 1 .. Len(s) |-> p]
  <1>2. t \in [1 .. Len(s) -> Payloads]
    OBVIOUS
  <1>3. t \in Seq(Payloads) /\ Len(t) = Len(s)
    BY <1>1, <1>2, LenProperties, SeqDef
  <1> QED BY <1>1, <1>3

LEMMA Appended ==
    ASSUME NEW s \in Seq(Payloads), NEW p \in Payloads
    PROVE  /\ Append(s, p) \in Seq(Payloads) /\ Len(Append(s, p)) = Len(s) + 1
           /\ \A i \in DOMAIN Append(s, p) :
                Append(s, p)[i] = p \/ (i \in DOMAIN s /\ Append(s, p)[i] = s[i])
  BY AppendProperties

LEMMA Emptiness ==
    ASSUME NEW s \in Seq(Payloads)
    PROVE  s = <<>> <=> Len(s) = 0
  BY EmptySeq

\* Nothing was requested.
LEMMA InitInv == Init => IndInv
  <1> SUFFICES ASSUME Init PROVE IndInv
    OBVIOUS
  <1>1. \A w \in Workers : worker[w] = Idle
    BY DEF Init
  <1>2. /\ timing \in Timings /\ worker \in [Workers -> WorkerType]
        /\ due \in [Events -> BOOLEAN] /\ \A e \in Events : ~due[e]
    BY DEF Init, WorkerType
  <1>3. log \in [Events -> Seq(Payloads)] /\ \A e \in Events : Len(log[e]) <= MaxLogs
    BY EmptySeq, ConstantsAssumption DEF Init
  <1>4. /\ request \in [Events -> {"new", "staged", "finalized", "abandoned"}]
        /\ row \in [Events -> Payloads \cup {"none"}] /\ sent \in [Events -> SUBSET Payloads]
    BY DEF Init
  <1>5. TypeOK
    BY <1>2, <1>3, <1>4 DEF TypeOK
  <1>6. NewInv /\ RowInv /\ NothingLost /\ SentInv
    BY <1>1 DEF Init, NewInv, Untouched, RowInv, NothingLost, SentInv, BusyWith
  <1>7. DeletesSent /\ FoundInv
    BY <1>1 DEF DeletesSent, FoundInv, Idle
  <1>8. SettlesAlone
    BY <1>1 DEF Init, SettlesAlone, Carries, Idle
  <1>9. DeliversAlone
    <2>1. \A e \in Events : Len(log[e]) <= 1
      BY EmptySeq DEF Init
    <2> QED BY <1>1, <2>1 DEF DeliversAlone, BusyWith, Idle
  <1> QED BY <1>5, <1>6, <1>7, <1>8, <1>9 DEF IndInv

(***************************************************************************)
(* The request, and the clock.                                             *)
(***************************************************************************)
\* The steps that leave LOG_DB and the workers alone keep what is said of them.
LEMMA RequestFrame ==
    ASSUME IndInv, UNCHANGED <<log, worker, sent>>
    PROVE  /\ SentInv' /\ DeletesSent' /\ FoundInv'
           /\ \A w \in Workers, e \in Events : BusyWith(w, e)' <=> BusyWith(w, e)
           /\ \A w \in Workers : Carries(w)' <=> Carries(w)
  BY DEF IndInv, SentInv, DeletesSent, FoundInv, BusyWith, Carries

LEMMA RequestType ==
    ASSUME IndInv, UNCHANGED <<timing, log, worker, sent>>, NEW e \in Events,
           NEW q \in {"new", "staged", "finalized", "abandoned"},
           NEW p \in Payloads \cup {"none"}, NEW d \in BOOLEAN,
           request' = [request EXCEPT ![e] = q], row' = [row EXCEPT ![e] = p],
           due' = [due EXCEPT ![e] = d], d => p # "none"
    PROVE  /\ TypeOK'
           /\ request'[e] = q /\ row'[e] = p /\ due'[e] = d
           /\ \A f \in Events \ {e} : request'[f] = request[f] /\ row'[f] = row[f] /\ due'[f] = due[f]
  <1>1. /\ request \in [Events -> {"new", "staged", "finalized", "abandoned"}]
        /\ row \in [Events -> Payloads \cup {"none"}] /\ due \in [Events -> BOOLEAN]
        /\ \A f \in Events : due[f] => row[f] # "none"
    BY DEF IndInv, TypeOK
  <1>2. /\ request' \in [Events -> {"new", "staged", "finalized", "abandoned"}]
        /\ row' \in [Events -> Payloads \cup {"none"}] /\ due' \in [Events -> BOOLEAN]
    BY <1>1
  <1>3. /\ request'[e] = q /\ row'[e] = p /\ due'[e] = d
        /\ \A f \in Events \ {e} : request'[f] = request[f] /\ row'[f] = row[f] /\ due'[f] = due[f]
    BY <1>1
  <1>4. \A f \in Events : due'[f] => row'[f] # "none"
    BY <1>1, <1>3
  <1>5. TypeOK'
    BY <1>2, <1>4 DEF IndInv, TypeOK
  <1> QED BY <1>3, <1>5

\* A request whose intent or final log is written for the first time, or whose
\* intent is replaced by its final log.
LEMMA BeginInv ==
    ASSUME IndInv, NEW e \in Events, UNCHANGED <<timing, log, worker, sent>>,
           NEW q \in {"staged", "finalized"}, NEW p \in Payloads, NEW d \in BOOLEAN,
           request' = [request EXCEPT ![e] = q], row' = [row EXCEPT ![e] = p],
           due' = [due EXCEPT ![e] = d],
           q = "staged" => ~d, q = "finalized" => p = "final",
           request[e] = "new" \/ request[e] = "staged"
    PROVE  IndInv'
  <1>1. p # "none" /\ q \in {"new", "staged", "finalized", "abandoned"} /\ p \in Payloads \cup {"none"}
    BY DEF Payloads
  <1>2. /\ TypeOK'
        /\ request'[e] = q /\ row'[e] = p /\ due'[e] = d
        /\ \A f \in Events \ {e} : request'[f] = request[f] /\ row'[f] = row[f] /\ due'[f] = due[f]
    BY <1>1, RequestType
  <1>3. /\ SentInv' /\ DeletesSent' /\ FoundInv'
        /\ \A w \in Workers, f \in Events : BusyWith(w, f)' <=> BusyWith(w, f)
        /\ \A w \in Workers : Carries(w)' <=> Carries(w)
    BY <1>1, RequestFrame
  <1>4. NewInv' /\ RowInv' /\ NothingLost'
    BY <1>1, <1>2, <1>3 DEF IndInv, NewInv, Untouched, RowInv, NothingLost
  <1>5. timing.settlement => log[e] = <<>> /\ \A w \in Workers : ~BusyWith(w, e)
    BY DEF IndInv, NewInv, Untouched, SettlesAlone
  <1>6. SettlesAlone'
    <2> SUFFICES ASSUME timing.settlement
                 PROVE  SettlesAlone'
      BY <1>1 DEF SettlesAlone
    <2>1. /\ \A f \in Events : request'[f] = "staged" =>
               ~due'[f] /\ log'[f] = <<>> /\ \A w \in Workers : ~BusyWith(w, f)'
      BY <1>1, <1>2, <1>3, <1>5 DEF IndInv, SettlesAlone
    <2>2. \A f \in Events : request'[f] = "finalized" =>
               \A i \in DOMAIN log'[f] : log'[f][i] = "final"
      BY <1>1, <1>2, <1>5 DEF IndInv, SettlesAlone
    <2>3. ASSUME NEW w \in Workers, Carries(w)', request'[worker'[w].event] = "finalized"
          PROVE  worker'[w].payload = "final"
      <3>1. worker[w] \in WorkerType /\ Carries(w)
        BY <1>3, <2>3 DEF IndInv, TypeOK
      <3>2. worker[w] # Idle /\ worker[w].event \in Events
        BY <3>1, Fields DEF Carries
      <3>3. worker[w].event # e
        BY <1>5, <3>2 DEF BusyWith
      <3> QED BY <1>1, <1>2, <2>3, <3>1, <3>2, <3>3 DEF IndInv, SettlesAlone
    <2> QED BY <2>1, <2>2, <2>3 DEF SettlesAlone
  <1>7. DeliversAlone'
    BY <1>1, <1>2, <1>3, <1>5 DEF IndInv, DeliversAlone
  <1> QED BY <1>2, <1>3, <1>4, <1>6, <1>7 DEF IndInv

\* The rest of a request, a claim that fails, and the clock.
LEMMA WaitInv ==
    ASSUME IndInv, NEW e \in Events, UNCHANGED <<timing, row, log, worker, sent>>,
           NEW q \in {"new", "staged", "finalized", "abandoned"}, NEW d \in BOOLEAN,
           request' = [request EXCEPT ![e] = q], due' = [due EXCEPT ![e] = d],
           q = request[e] \/ (request[e] = "staged" /\ q = "abandoned"),
           d => due[e] \/ Tick(e)
    PROVE  IndInv'
  <1>1. row' = [row EXCEPT ![e] = row[e]] /\ row[e] \in Payloads \cup {"none"}
    BY DEF IndInv, TypeOK
  <1>2. d => row[e] # "none"
    BY DEF IndInv, TypeOK, Tick
  <1>5. /\ TypeOK'
        /\ request'[e] = q /\ due'[e] = d
        /\ \A f \in Events \ {e} : request'[f] = request[f] /\ due'[f] = due[f]
    BY ZenonT(60), <1>1, <1>2, RequestType
  <1>6. /\ SentInv' /\ DeletesSent' /\ FoundInv'
        /\ \A w \in Workers, f \in Events : BusyWith(w, f)' <=> BusyWith(w, f)
        /\ \A w \in Workers : Carries(w)' <=> Carries(w)
    BY RequestFrame
  <1>7. \A f \in Events : request'[f] = request[f]
                          \/ (f = e /\ request[f] = "staged" /\ request'[f] = "abandoned")
    BY <1>5
  <1>8. NewInv' /\ RowInv' /\ NothingLost'
    BY <1>6, <1>7 DEF IndInv, NewInv, Untouched, RowInv, NothingLost
  <1>10. SettlesAlone'
    <2> SUFFICES ASSUME timing.settlement
                 PROVE  SettlesAlone'
      BY DEF SettlesAlone
    <2>1. \A f \in Events : request'[f] = "staged" =>
               ~due'[f] /\ log'[f] = <<>> /\ \A w \in Workers : ~BusyWith(w, f)'
      BY <1>5, <1>6, <1>7 DEF IndInv, SettlesAlone, Tick
    <2>2. \A f \in Events : request'[f] = "finalized" =>
               \A i \in DOMAIN log'[f] : log'[f][i] = "final"
      BY <1>7 DEF IndInv, SettlesAlone
    <2>3. ASSUME NEW w \in Workers, Carries(w)', request'[worker'[w].event] = "finalized"
          PROVE  worker'[w].payload = "final"
      <3>1. worker[w] \in WorkerType /\ Carries(w)
        BY <1>6, <2>3 DEF IndInv, TypeOK
      <3>2. worker[w] # Idle /\ worker[w].event \in Events
        BY <3>1, Fields DEF Carries
      <3> QED BY <1>1, <1>7, <2>3, <3>1, <3>2 DEF IndInv, SettlesAlone
    <2> QED BY <2>1, <2>2, <2>3 DEF SettlesAlone
  <1>11. DeliversAlone'
    BY <1>5, <1>6 DEF IndInv, DeliversAlone, Tick
  <1> QED BY <1>5, <1>6, <1>8, <1>10, <1>11 DEF IndInv

(***************************************************************************)
(* A delivery.                                                             *)
(***************************************************************************)
LEMMA ClaimInv ==
    ASSUME IndInv, NEW w \in Workers, NEW e \in Events, UNCHANGED timing, Claim(w, e)
    PROVE  IndInv'
  <1> DEFINE r == [pc |-> "read", event |-> e]
  <1>1. UNCHANGED <<request, row, log, sent>>
    BY DEF Claim, Claimable
  <1>2. /\ worker \in [Workers -> WorkerType] /\ due \in [Events -> BOOLEAN]
        /\ \A f \in Events : due[f] => row[f] # "none"
    BY DEF IndInv, TypeOK
  <1>3. r \in WorkerType
    BY DEF WorkerType
  <1>4. /\ worker' \in [Workers -> WorkerType] /\ worker'[w] = r
        /\ \A v \in Workers \ {w} : worker'[v] = worker[v]
    BY <1>2, <1>3 DEF Claim, Claimable, Put
  <1>5. due' \in [Events -> BOOLEAN] /\ ~due'[e] /\ \A f \in Events \ {e} : due'[f] = due[f]
    BY <1>2 DEF Claim
  <1>6. due[e] /\ row[e] # "none" /\ worker[w] = Idle
    BY DEF Claim, Claimable
  <1>7. \A v \in Workers, f \in Events :
            BusyWith(v, f)' => BusyWith(v, f) \/ (v = w /\ f = e)
    BY <1>4 DEF BusyWith
  <1>8. \A v \in Workers : Carries(v)' => Carries(v) /\ worker'[v] = worker[v]
    BY <1>4 DEF Carries
  <1>9. \A v \in Workers : worker'[v].pc \in {"delete", "write"} => worker'[v] = worker[v]
    BY <1>4
  <1>10. TypeOK'
    <2>1. \A f \in Events : due'[f] => row'[f] # "none"
      BY <1>1, <1>2, <1>5
    <2> QED BY <1>1, <1>4, <1>5, <2>1 DEF IndInv, TypeOK
  <1>11. NewInv' /\ RowInv' /\ NothingLost' /\ SentInv'
    BY <1>1, <1>6, <1>7 DEF IndInv, NewInv, Untouched, RowInv, NothingLost, SentInv
  <1>12. DeletesSent' /\ FoundInv'
    BY <1>1, <1>9 DEF IndInv, DeletesSent, FoundInv
  <1>13. SettlesAlone'
    BY <1>1, <1>5, <1>6, <1>7, <1>8 DEF IndInv, SettlesAlone
  <1>14. DeliversAlone'
    <2> SUFFICES ASSUME timing.settlement, timing.delivery
                 PROVE  DeliversAlone'
      BY DEF DeliversAlone
    <2>1. \A v \in Workers : ~BusyWith(v, e)
      BY <1>6 DEF IndInv, DeliversAlone
    <2>2. \A f \in Events, u, v \in Workers : BusyWith(u, f)' /\ BusyWith(v, f)' => u = v
      BY <1>7, <2>1 DEF IndInv, DeliversAlone
    <2>3. \A f \in Events, v \in Workers : BusyWith(v, f)' => ~due'[f]
      BY <1>5, <1>7, <2>1 DEF IndInv, DeliversAlone
    <2>4. \A v \in Workers : worker'[v].pc = "write" /\ ~worker'[v].found =>
             log'[worker'[v].event] = <<>>
      BY <1>1, <1>9 DEF IndInv, DeliversAlone
    <2> QED BY <1>1, <2>2, <2>3, <2>4 DEF IndInv, DeliversAlone
  <1> QED BY <1>10, <1>11, <1>12, <1>13, <1>14 DEF IndInv

\* What a write to LOG_DB leaves there.
Writes(w) ==
    LET e == worker[w].event
        p == worker[w].payload
    IN  /\ worker[w].pc = "write"
        /\ log'[e] \in Seq(Payloads) /\ Len(log'[e]) <= MaxLogs /\ log'[e] # <<>>
        /\ \A i \in DOMAIN log'[e] : log'[e][i] = p \/ (i \in DOMAIN log[e] /\ log'[e][i] = log[e][i])
        /\ Len(log'[e]) = IF worker[w].found THEN Len(log[e]) ELSE Len(log[e]) + 1
        /\ sent'[e] = sent[e] \cup {p}

KeepsLogs(w) ==
    log'[worker[w].event] = log[worker[w].event] /\ sent'[worker[w].event] = sent[worker[w].event]

OtherLogs(w) ==
    \A f \in Events \ {worker[w].event} : log'[f] = log[f] /\ sent'[f] = sent[f]

LEMMA WrittenWrites ==
    ASSUME IndInv, NEW w \in Workers, worker[w].pc = "write", Written(worker[w])
    PROVE  log' \in [Events -> Seq(Payloads)] /\ sent' \in [Events -> SUBSET Payloads]
           /\ Writes(w) /\ OtherLogs(w)
  <1> DEFINE e == worker[w].event
             p == worker[w].payload
             s == log[e]
             t == LogAfterWrite(worker[w])
  <1>1. worker[w] \in WorkerType
    BY DEF IndInv, TypeOK
  <1>2. e \in Events /\ p \in Payloads /\ worker[w].found \in BOOLEAN
    BY <1>1, Fields DEF Idle
  <1>3. log \in [Events -> Seq(Payloads)] /\ sent \in [Events -> SUBSET Payloads] /\ s \in Seq(Payloads)
    BY <1>2 DEF IndInv, TypeOK
  <1>4. CASE worker[w].found
    <2>1. t = [i \in DOMAIN s |-> p]
      BY <1>4 DEF LogAfterWrite
    <2>2. t \in Seq(Payloads) /\ Len(t) = Len(s) /\ \A i \in DOMAIN t : t[i] = p
      <3> HIDE DEF s, p, t
      <3>1. t \in Seq(Payloads) /\ Len(t) = Len(s)
        BY <1>2, <1>3, <2>1, Rewritten
      <3>2. \A i \in DOMAIN t : t[i] = p
        BY <2>1
      <3> QED BY <3>1, <3>2
    <2>3. s # <<>>
      BY <1>4 DEF IndInv, FoundInv
    <2>4. t # <<>>
      BY <1>3, <2>2, <2>3, Emptiness
    <2>5. log' = [log EXCEPT ![e] = t] /\ sent' = [sent EXCEPT ![e] = @ \cup {p}] /\ Len(t) <= MaxLogs
      BY DEF Written
    <2> HIDE DEF t
    <2>6. log'[e] = t /\ sent'[e] = sent[e] \cup {p}
      BY <1>2, <1>3, <2>5
    <2>7. Writes(w)
      BY <1>4, <2>2, <2>4, <2>5, <2>6 DEF Writes
    <2>8. log' \in [Events -> Seq(Payloads)] /\ sent' \in [Events -> SUBSET Payloads] /\ OtherLogs(w)
      BY <1>2, <1>3, <2>2, <2>5 DEF OtherLogs
    <2> QED BY <2>7, <2>8
  <1>5. CASE ~worker[w].found
    <2>1. t = Append(s, p)
      BY <1>5 DEF LogAfterWrite
    <2>2. /\ t \in Seq(Payloads) /\ Len(t) = Len(s) + 1
          /\ \A i \in DOMAIN t : t[i] = p \/ (i \in DOMAIN s /\ t[i] = s[i])
      BY <1>2, <1>3, <2>1, Appended
    <2>3. t # <<>>
      <3> HIDE DEF s, p, t
      <3> QED BY <1>2, <1>3, <2>1, AppendProperties
    <2>4. log' = [log EXCEPT ![e] = t] /\ sent' = [sent EXCEPT ![e] = @ \cup {p}] /\ Len(t) <= MaxLogs
      BY DEF Written
    <2> HIDE DEF t
    <2>5. log'[e] = t /\ sent'[e] = sent[e] \cup {p}
      BY <1>2, <1>3, <2>4
    <2>6. Writes(w)
      BY <1>5, <2>2, <2>3, <2>4, <2>5 DEF Writes
    <2>7. log' \in [Events -> Seq(Payloads)] /\ sent' \in [Events -> SUBSET Payloads] /\ OtherLogs(w)
      BY <1>2, <1>3, <2>2, <2>4 DEF OtherLogs
    <2> QED BY <2>6, <2>7
  <1> QED BY <1>2, <1>4, <1>5

\* Every step of a delivery after its claim: it reads, writes to LOG_DB, deletes
\* the payload it sent, or gives up.
LEMMA DeliverInv ==
    ASSUME IndInv, NEW w \in Workers, worker[w] # Idle, UNCHANGED <<timing, request>>,
           NEW r \in WorkerType, worker' = [worker EXCEPT ![w] = r],
           r # Idle => r.event = worker[w].event,
           row' \in [Events -> Payloads \cup {"none"}], due' \in [Events -> BOOLEAN],
           \A f \in Events : due'[f] => due[f] /\ row'[f] # "none",
           \A f \in Events : row'[f] = row[f] \/ (row'[f] = "none" /\ row[f] \in sent[f]),
           log' \in [Events -> Seq(Payloads)], sent' \in [Events -> SUBSET Payloads],
           OtherLogs(w), Writes(w) \/ KeepsLogs(w),
           r.pc = "delete" => r.payload \in sent'[worker[w].event],
           r.pc = "write" => (r.found <=> log'[worker[w].event] # <<>>),
           r.pc \in {"count", "write", "delete"} =>
               \/ Carries(w) /\ r.payload = worker[w].payload
               \/ row[worker[w].event] = r.payload
    PROVE  IndInv'
  <1> DEFINE e == worker[w].event
  <1>1. worker \in [Workers -> WorkerType] /\ e \in Events
    BY Fields DEF IndInv, TypeOK
  <1>2. /\ worker' \in [Workers -> WorkerType] /\ worker'[w] = r
        /\ \A v \in Workers \ {w} : worker'[v] = worker[v]
    BY <1>1
  <1>3. \A v \in Workers, f \in Events : BusyWith(v, f)' => BusyWith(v, f)
    BY <1>1, <1>2 DEF BusyWith
  <1>4. \A v \in Workers : worker[v] # Idle => worker[v].event \in Events
    BY <1>1, Fields
  <1>5. \A v \in Workers : worker'[v].pc \in {"count", "write", "delete"} =>
                             worker'[v] # Idle /\ worker'[v].event \in Events
    BY <1>2, Fields DEF Idle
  <1>6. \A f \in Events : sent[f] \subseteq sent'[f]
    BY DEF OtherLogs, Writes, KeepsLogs
  <1>7. \A f \in Events : log[f] # <<>> => log'[f] # <<>>
    BY DEF OtherLogs, Writes, KeepsLogs
  <1>8. Carries(w) => worker[w].payload \in Payloads
    BY <1>1, Fields DEF Carries
  <1>9. TypeOK'
    <2>1. \A f \in Events : Len(log'[f]) <= MaxLogs
      BY DEF IndInv, TypeOK, OtherLogs, Writes, KeepsLogs
    <2>2. \A f \in Events : due'[f] => row'[f] # "none"
      OBVIOUS
    <2> QED BY <1>2, <2>1, <2>2 DEF IndInv, TypeOK
  <1>10. request[e] # "new"
    BY <1>1 DEF IndInv, NewInv, Untouched, BusyWith
  <1>11. NewInv'
    BY <1>1, <1>3, <1>10 DEF IndInv, NewInv, Untouched, OtherLogs
  <1>12. RowInv'
    BY DEF IndInv, RowInv
  <1>13. NothingLost'
    <2> SUFFICES ASSUME NEW f \in Events, request[f] # "new", row'[f] = "none"
                 PROVE  sent'[f] # {} /\ (request[f] = "finalized" => "final" \in sent'[f])
      BY DEF NothingLost
    <2>1. CASE row[f] = "none"
      BY <1>6, <2>1 DEF IndInv, NothingLost
    <2>2. CASE row[f] # "none"
      <3>1. row[f] \in sent[f] /\ (request[f] = "finalized" => row[f] = "final")
        BY <2>2 DEF IndInv, TypeOK, RowInv, Payloads
      <3> QED BY <1>6, <3>1
    <2> QED BY <2>1, <2>2
  <1>14. SentInv'
    BY <1>7 DEF IndInv, SentInv, OtherLogs, Writes, KeepsLogs
  <1>15. DeletesSent'
    <2> SUFFICES ASSUME NEW v \in Workers, worker'[v].pc = "delete"
                 PROVE  worker'[v].payload \in sent'[worker'[v].event]
      BY DEF DeletesSent
    <2>1. CASE v = w
      BY <1>2, <1>5, <2>1
    <2>2. CASE v # w
      BY <1>2, <1>5, <1>6, <2>2 DEF IndInv, DeletesSent
    <2> QED BY <2>1, <2>2
  <1>16. FoundInv'
    <2> SUFFICES ASSUME NEW v \in Workers, worker'[v].pc = "write", worker'[v].found
                 PROVE  log'[worker'[v].event] # <<>>
      BY DEF FoundInv
    <2>1. CASE v = w
      BY <1>2, <1>5, <2>1
    <2>2. CASE v # w
      BY <1>2, <1>5, <1>7, <2>2 DEF IndInv, FoundInv
    <2> QED BY <2>1, <2>2
  <1>17. SettlesAlone'
    <2> SUFFICES ASSUME timing.settlement
                 PROVE  SettlesAlone'
      BY DEF SettlesAlone
    <2>0. request[e] # "staged"
      BY <1>1 DEF IndInv, SettlesAlone, BusyWith
    <2>1. \A f \in Events : request'[f] = "staged" =>
               ~due'[f] /\ log'[f] = <<>> /\ \A v \in Workers : ~BusyWith(v, f)'
      BY ZenonT(60), <1>1, <1>3, <2>0 DEF IndInv, SettlesAlone, OtherLogs
    <2>2. ASSUME NEW f \in Events, request'[f] = "finalized", NEW i \in DOMAIN log'[f]
          PROVE  log'[f][i] = "final"
      <3>1. CASE f # e \/ KeepsLogs(w)
        BY <2>2, <3>1 DEF IndInv, SettlesAlone, OtherLogs, KeepsLogs
      <3>2. CASE f = e /\ Writes(w)
        <4>1. worker[w].payload = "final"
          BY <2>2, <3>2 DEF IndInv, SettlesAlone, Carries, Writes
        <4>2. log'[e][i] = worker[w].payload \/ (i \in DOMAIN log[e] /\ log'[e][i] = log[e][i])
          BY <2>2, <3>2 DEF Writes
        <4> QED BY <2>2, <3>2, <4>1, <4>2 DEF IndInv, SettlesAlone
      <3> QED BY <3>1, <3>2
    <2>3. ASSUME NEW v \in Workers, Carries(v)', request'[worker'[v].event] = "finalized"
          PROVE  worker'[v].payload = "final"
      <3>1. CASE v = w
        <4>1. worker'[v] = r /\ r.event = e /\ request[e] = "finalized"
          BY <1>2, <1>5, <2>3, <3>1 DEF Carries
        <4>2. row[e] # "pending" /\ (Carries(w) => worker[w].payload = "final")
          BY <1>1, <4>1 DEF IndInv, RowInv, SettlesAlone
        <4>3. r.payload \in Payloads
          BY <2>3, <4>1, Fields DEF Carries
        <4> QED BY <2>3, <4>1, <4>2, <4>3 DEF Carries, Payloads
      <3>2. CASE v # w
        BY <1>2, <2>3, <3>2 DEF IndInv, SettlesAlone, Carries
      <3> QED BY <3>1, <3>2
    <2> QED BY <2>1, <2>2, <2>3 DEF SettlesAlone
  <1>18. DeliversAlone'
    <2> SUFFICES ASSUME timing.settlement, timing.delivery
                 PROVE  DeliversAlone'
      BY DEF DeliversAlone
    <2>1. \A f \in Events, u, v \in Workers : BusyWith(u, f)' /\ BusyWith(v, f)' => u = v
      BY <1>3 DEF IndInv, DeliversAlone
    <2>2. \A f \in Events, v \in Workers : BusyWith(v, f)' => ~due'[f]
      BY <1>3 DEF IndInv, DeliversAlone
    <2>3. \A f \in Events : Len(log'[f]) <= 1
      <3>1. Writes(w) /\ ~worker[w].found => Len(log[e]) = 0
        BY EmptySeq DEF IndInv, DeliversAlone, Writes
      <3>2. Len(log[e]) <= 1
        BY <1>1 DEF IndInv, DeliversAlone
      <3>3. Writes(w) => Len(log'[e]) <= 1
        BY <3>1, <3>2 DEF Writes
      <3> QED BY <3>2, <3>3 DEF IndInv, DeliversAlone, OtherLogs, KeepsLogs
    <2>4. ASSUME NEW v \in Workers, worker'[v].pc = "write", ~worker'[v].found
          PROVE  log'[worker'[v].event] = <<>>
      <3>1. CASE v = w
        BY <1>2, <1>5, <2>4, <3>1
      <3>2. CASE v # w
        <4>1. worker'[v] = worker[v] /\ worker[v] # Idle /\ worker[v].event \in Events
          BY <1>2, <1>5, <2>4, <3>2
        <4>2. worker[v].event # e
          BY <1>1, <3>2, <4>1 DEF IndInv, DeliversAlone, BusyWith
        <4> QED BY <2>4, <4>1, <4>2 DEF IndInv, DeliversAlone, OtherLogs
      <3> QED BY <3>1, <3>2
    <2> QED BY <2>1, <2>2, <2>3, <2>4 DEF DeliversAlone
  <1> QED
    BY <1>9, <1>11, <1>12, <1>13, <1>14, <1>15, <1>16, <1>17, <1>18 DEF IndInv

\* The steps of a delivery that leave LOG_DB alone.
LEMMA SameLogs ==
    ASSUME IndInv, NEW w \in Workers, UNCHANGED <<log, sent>>
    PROVE  log' \in [Events -> Seq(Payloads)] /\ sent' \in [Events -> SUBSET Payloads]
           /\ OtherLogs(w) /\ KeepsLogs(w)
  BY DEF IndInv, TypeOK, OtherLogs, KeepsLogs

LEMMA SameRow ==
    ASSUME IndInv, UNCHANGED <<row, due>>
    PROVE  /\ row' \in [Events -> Payloads \cup {"none"}] /\ due' \in [Events -> BOOLEAN]
           /\ \A f \in Events : due'[f] => due[f] /\ row'[f] # "none"
           /\ \A f \in Events : row'[f] = row[f] \/ (row'[f] = "none" /\ row[f] \in sent[f])
  BY DEF IndInv, TypeOK

LEMMA DeliveryInv ==
    ASSUME IndInv, NEW w \in Workers, UNCHANGED timing,
           ReadEvent(w) \/ CountLogs(w) \/ WriteLog(w) \/ DeleteEvent(w) \/ Fail(w) \/ Die(w)
    PROVE  IndInv'
  <1> DEFINE r == worker[w]
             e == r.event
  <1>1. r \in WorkerType /\ Idle \in WorkerType
    BY DEF IndInv, TypeOK, WorkerType
  <1>2. r # Idle
    <2>1. ReadEvent(w) \/ CountLogs(w) \/ WriteLog(w) \/ DeleteEvent(w) => r.pc # "idle"
      BY DEF ReadEvent, CountLogs, WriteLog, DeleteEvent
    <2>2. Fail(w) \/ Die(w) => r # Idle
      BY DEF Fail, Die
    <2> QED BY <1>1, <2>1, <2>2, Fields
  <1>3. e \in Events /\ (r.pc \in {"count", "write", "delete"} => r.payload \in Payloads)
    BY <1>1, <1>2, Fields
  <1>4. /\ row \in [Events -> Payloads \cup {"none"}] /\ due \in [Events -> BOOLEAN]
        /\ \A f \in Events : due[f] => row[f] # "none"
    BY DEF IndInv, TypeOK
  <1>5. CASE ReadEvent(w)
    <2> DEFINE nr == IF row[e] = "none" THEN Idle
                     ELSE [pc |-> "count", event |-> e, payload |-> row[e]]
    <2>1. nr \in WorkerType
      BY <1>1, <1>3, <1>4 DEF WorkerType
    <2>2. worker' = [worker EXCEPT ![w] = nr] /\ UNCHANGED <<request, row, due, log, sent>>
      BY <1>5 DEF ReadEvent, Put
    <2>3. nr # Idle => nr.event = e
      OBVIOUS
    <2>4. nr.pc \notin {"write", "delete"} /\ (nr.pc = "count" => row[e] = nr.payload)
      BY DEF Idle
    <2> HIDE DEF nr
    <2> QED BY <1>2, <2>1, <2>2, <2>3, <2>4, SameLogs, SameRow, DeliverInv
  <1>6. CASE CountLogs(w)
    <2> DEFINE nr == [pc |-> "write", event |-> e, payload |-> r.payload, found |-> log[e] # <<>>]
    <2>0. r.pc = "count"
      BY <1>6 DEF CountLogs
    <2>1. nr \in WorkerType
      BY <1>3, <2>0 DEF WorkerType
    <2>2. worker' = [worker EXCEPT ![w] = nr] /\ UNCHANGED <<request, row, due, log, sent>>
      BY <1>6 DEF CountLogs, Put
    <2>3. nr.event = e /\ nr.pc = "write" /\ nr.payload = r.payload /\ (nr.found <=> log'[e] # <<>>)
      BY <2>2
    <2>4. Carries(w)
      BY <2>0 DEF Carries
    <2> HIDE DEF nr
    <2> QED BY <1>2, <2>1, <2>2, <2>3, <2>4, SameLogs, SameRow, DeliverInv
  <1>7. CASE WriteLog(w)
    <2> DEFINE nr == [pc |-> "delete", event |-> e, payload |-> r.payload]
    <2>0. r.pc = "write" /\ Written(r)
      BY <1>7 DEF WriteLog
    <2>1. nr \in WorkerType
      BY <1>3, <2>0 DEF WorkerType
    <2>2. worker' = [worker EXCEPT ![w] = nr] /\ UNCHANGED <<request, row, due>>
      BY <1>7 DEF WriteLog, Put
    <2>3. nr.event = e /\ nr.pc = "delete" /\ nr.payload = r.payload
      OBVIOUS
    <2>4. log' \in [Events -> Seq(Payloads)] /\ sent' \in [Events -> SUBSET Payloads]
          /\ Writes(w) /\ OtherLogs(w)
      BY <2>0, WrittenWrites
    <2>5. Carries(w) /\ r.payload \in sent'[e]
      BY <2>0, <2>4 DEF Carries, Writes
    <2> HIDE DEF nr
    <2> QED BY <1>2, <2>1, <2>2, <2>3, <2>4, <2>5, SameRow, DeliverInv
  <1>8. CASE DeleteEvent(w)
    <2>0. r.pc = "delete" /\ r.payload \in sent[e]
      BY <1>8 DEF DeleteEvent, IndInv, DeletesSent
    <2>1. worker' = [worker EXCEPT ![w] = Idle] /\ UNCHANGED <<request, log, sent>>
      BY <1>8 DEF DeleteEvent, Put
    <2>2. \/ UNCHANGED <<row, due>>
          \/ /\ row[e] = r.payload /\ row' = [row EXCEPT ![e] = "none"]
             /\ due' = [due EXCEPT ![e] = FALSE]
      BY <1>8 DEF DeleteEvent, WriteRow
    <2>3. /\ row' \in [Events -> Payloads \cup {"none"}] /\ due' \in [Events -> BOOLEAN]
          /\ \A f \in Events : due'[f] => due[f] /\ row'[f] # "none"
          /\ \A f \in Events : row'[f] = row[f] \/ (row'[f] = "none" /\ row[f] \in sent[f])
      BY <1>3, <1>4, <2>0, <2>2
    <2>4. Idle.pc = "idle"
      BY DEF Idle
    <2> QED BY <1>1, <1>2, <2>1, <2>3, <2>4, SameLogs, DeliverInv
  <1>9. CASE Fail(w)
    <2>1. worker' = [worker EXCEPT ![w] = Idle] /\ UNCHANGED <<request, row>>
      BY <1>9 DEF Fail, Put
    <2>2. due' = [due EXCEPT ![e] = FALSE]
      BY <1>9 DEF Fail
    <2>3. /\ row' \in [Events -> Payloads \cup {"none"}] /\ due' \in [Events -> BOOLEAN]
          /\ \A f \in Events : due'[f] => due[f] /\ row'[f] # "none"
          /\ \A f \in Events : row'[f] = row[f]
      BY <1>3, <1>4, <2>1, <2>2
    <2>4. Idle.pc = "idle"
      BY DEF Idle
    <2>5. /\ log' \in [Events -> Seq(Payloads)] /\ sent' \in [Events -> SUBSET Payloads]
          /\ OtherLogs(w) /\ (Writes(w) \/ KeepsLogs(w))
      BY <1>9, WrittenWrites, SameLogs DEF Fail
    <2> QED BY <1>1, <1>2, <2>1, <2>3, <2>4, <2>5, DeliverInv
  <1>10. CASE Die(w)
    <2>1. worker' = [worker EXCEPT ![w] = Idle] /\ UNCHANGED <<request, row, due, log, sent>>
      BY <1>10 DEF Die, Put
    <2>2. Idle.pc = "idle"
      BY DEF Idle
    <2> QED BY <1>1, <1>2, <2>1, <2>2, SameLogs, SameRow, DeliverInv
  <1> QED BY <1>5, <1>6, <1>7, <1>8, <1>9, <1>10

\* Every step keeps the invariant.
LEMMA StepInv == IndInv /\ [Next]_vars => IndInv'
  <1> SUFFICES ASSUME IndInv, [Next]_vars PROVE IndInv'
    OBVIOUS
  <1>0. /\ request \in [Events -> {"new", "staged", "finalized", "abandoned"}]
        /\ due \in [Events -> BOOLEAN]
    BY DEF IndInv, TypeOK
  <1>1. ASSUME NEW e \in Events, UNCHANGED timing, Stage(e) PROVE IndInv'
    <2>1. UNCHANGED <<timing, log, worker, sent>> /\ request[e] = "new"
          /\ request' = [request EXCEPT ![e] = "staged"]
          /\ row' = [row EXCEPT ![e] = "pending"] /\ due' = [due EXCEPT ![e] = FALSE]
      BY <1>1 DEF Stage, WriteRow
    <2> QED BY <2>1, BeginInv DEF Payloads
  <1>2. ASSUME NEW e \in Events, UNCHANGED timing, Enqueue(e) \/ Finalize(e) PROVE IndInv'
    <2>1. UNCHANGED <<timing, log, worker, sent>> /\ (request[e] = "new" \/ request[e] = "staged")
          /\ request' = [request EXCEPT ![e] = "finalized"]
          /\ row' = [row EXCEPT ![e] = "final"] /\ due' = [due EXCEPT ![e] = TRUE]
      BY <1>2 DEF Enqueue, Finalize, WriteRow
    <2> QED BY <2>1, BeginInv DEF Payloads
  <1>3. ASSUME NEW e \in Events, UNCHANGED timing, Abandon(e) PROVE IndInv'
    <2>1. UNCHANGED <<timing, row, log, worker, sent>> /\ request[e] = "staged"
          /\ request' = [request EXCEPT ![e] = "abandoned"]
          /\ due' = [due EXCEPT ![e] = due[e]] /\ due[e] \in BOOLEAN
      BY <1>0, <1>3 DEF Abandon
    <2> QED BY <2>1, WaitInv
  <1>4. ASSUME NEW e \in Events, UNCHANGED timing, ClaimFails(e) PROVE IndInv'
    <2>1. UNCHANGED <<timing, row, log, worker, sent>>
          /\ request' = [request EXCEPT ![e] = request[e]]
          /\ request[e] \in {"new", "staged", "finalized", "abandoned"}
          /\ due' = [due EXCEPT ![e] = FALSE]
      BY <1>0, <1>4 DEF ClaimFails
    <2> QED BY <2>1, WaitInv
  <1>5. ASSUME NEW e \in Events, UNCHANGED timing, Tick(e) PROVE IndInv'
    <2>1. UNCHANGED <<timing, row, log, worker, sent>>
          /\ request' = [request EXCEPT ![e] = request[e]]
          /\ request[e] \in {"new", "staged", "finalized", "abandoned"}
          /\ due' = [due EXCEPT ![e] = TRUE]
      BY <1>0, <1>5 DEF Tick
    <2> QED BY <1>5, <2>1, WaitInv
  <1>6. CASE UNCHANGED vars
    <2>1. UNCHANGED <<timing, request, row, due, log, worker, sent>>
      BY <1>6 DEF vars, moving
    <2>2. TypeOK' /\ NewInv' /\ RowInv' /\ NothingLost'
      BY <2>1 DEF IndInv, TypeOK, NewInv, Untouched, RowInv, NothingLost, BusyWith
    <2>3. SettlesAlone'
      BY <2>1 DEF IndInv, SettlesAlone, BusyWith, Carries
    <2>4. DeliversAlone'
      BY <2>1 DEF IndInv, DeliversAlone, BusyWith
    <2> QED BY <2>1, <2>2, <2>3, <2>4, RequestFrame DEF IndInv
  <1> QED
    BY <1>1, <1>2, <1>3, <1>4, <1>5, <1>6, ClaimInv, DeliveryInv DEF Next

\* The invariant holds in every reachable state.
LEMMA Inductive == Spec => []IndInv
  BY InitInv, StepInv, PTL DEF Spec

\* An intent leaves the outbox only when its log was written, and a final payload
\* only when the final log was (processBillingOutboxEvent), whoever fails or dies.
THEOREM IntentsArrive == Spec => []NothingLost
  <1>1. IndInv => NothingLost
    BY DEF IndInv
  <1> QED BY <1>1, Inductive, PTL

\* A finalized event that nobody delivers any more left the final log and, where
\* deliveries end within their claim, exactly one (deliverBillingOutboxLog).
THEOREM FinalLogOnly == Spec => []FinalLogStays
  <1>1. ASSUME IndInv PROVE FinalLogStays
    <2> SUFFICES ASSUME NEW e \in Events, Quiet(e), timing.settlement
                 PROVE  ToSet(log[e]) = {"final"} /\ (timing.delivery => Len(log[e]) = 1)
      BY DEF FinalLogStays
    <2>1. log[e] # <<>> /\ log[e] \in Seq(Payloads)
      <3>1. sent[e] # {}
        BY <1>1 DEF IndInv, NothingLost, Quiet
      <3>2. sent[e] # {} => log[e] # <<>>
        BY <1>1 DEF IndInv, SentInv
      <3>3. log[e] \in Seq(Payloads)
        BY <1>1 DEF IndInv, TypeOK
      <3> QED BY <3>1, <3>2, <3>3
    <2>2. Len(log[e]) \in Nat \ {0} /\ DOMAIN log[e] = 1 .. Len(log[e])
      <3>1. Len(log[e]) \in Nat /\ DOMAIN log[e] = 1 .. Len(log[e])
        BY <2>1, LenProperties
      <3>2. Len(log[e]) # 0
        BY <2>1, Emptiness
      <3> QED BY <3>1, <3>2
    <2>3. \A i \in DOMAIN log[e] : log[e][i] = "final"
      BY <1>1 DEF IndInv, SettlesAlone, Quiet
    <2>4. ToSet(log[e]) = {"final"}
      <3>1. 1 \in DOMAIN log[e] /\ log[e][1] = "final"
        BY <2>2, <2>3
      <3>2. \A x : x \in ToSet(log[e]) <=> x = "final"
        BY <2>3, <3>1, Zenon DEF ToSet
      <3> QED BY <3>2
    <2>5. timing.delivery => Len(log[e]) <= 1
      BY <1>1 DEF IndInv, DeliversAlone
    <2>6. Len(log[e]) \in Nat \ {0}
      BY <2>2
    <2>7. Len(log[e]) <= 1 => Len(log[e]) = 1
      <3>1. \A n \in Nat \ {0} : n <= 1 => n = 1
        OBVIOUS
      <3> QED BY <2>6, <3>1
    <2> QED BY <2>4, <2>5, <2>7
  <1> QED BY <1>1, Inductive, PTL

=============================================================================
