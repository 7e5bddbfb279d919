--------------------------- MODULE BillingOutbox ---------------------------
(***************************************************************************)
(* Delivery of consume logs through the outbox (model/billing_outbox.go).  *)
(*                                                                         *)
(* A request writes an intent in the main database before it moves money   *)
(* (Stage) and replaces it by the final log afterwards (Finalize), or      *)
(* queues a final log that LOG_DB refused (Enqueue).  Workers              *)
(* (the request itself and the periodic task on any node) claim the row by *)
(* pushing next_attempt_at a minute ahead, copy its payload to LOG_DB and  *)
(* delete it.  Every statement is one step; any of them may fail, and a    *)
(* write to LOG_DB may fail after it was committed.                        *)
(*                                                                         *)
(* Time is the flag due (next_attempt_at <= now).  Whether it may pass     *)
(* while the settlement or a delivery is still running is chosen for each  *)
(* behaviour: the code gives them 60 seconds and does not enforce it.      *)
(***************************************************************************)
EXTENDS Naturals, Sequences, SequencesExt

CONSTANTS
    Events,                \* deterministic event ids, one per request
    Workers,               \* goroutines that deliver events
    Timings,               \* the timings to consider, see below
    MaxLogs                \* bound: copies of one log in LOG_DB

(* settlement: a settlement ends within the delay of its intent
   (StageConsumeLogOutboxIntent); delivery: a delivery ends within its claim
   (processBillingOutboxEvent). *)
TimingType == [settlement : BOOLEAN, delivery : BOOLEAN]

ASSUME ConstantsAssumption ==
    /\ Timings \subseteq TimingType
    /\ MaxLogs \in Nat

VARIABLES
    timing,    \* what ends in time in this behaviour
    request,   \* what the request did: "new", "staged", "finalized", "abandoned"
    row,       \* payload of the event's outbox row, "none" when it does not exist
    due,       \* next_attempt_at of the row has come
    log,       \* LOG_DB rows with the event's request id, by payload
    worker,    \* each worker's next step and event, the payload and the count it read
    sent       \* history: payloads of the event that were ever written to LOG_DB

moving == <<request, row, due, log, worker, sent>>
vars == <<timing, moving>>

Payloads == {"pending", "final"}
Idle == [pc |-> "idle"]

Init ==
    /\ timing \in Timings
    /\ request = [e \in Events |-> "new"]
    /\ row = [e \in Events |-> "none"]
    /\ due = [e \in Events |-> FALSE]
    /\ log = [e \in Events |-> <<>>]
    /\ worker = [w \in Workers |-> Idle]
    /\ sent = [e \in Events |-> {}]

-----------------------------------------------------------------------------
(* The request of event e *)

(* The row of e is written with payload p and next_attempt_at now (d) or later. *)
WriteRow(e, p, d) ==
    /\ row' = [row EXCEPT ![e] = p]
    /\ due' = [due EXCEPT ![e] = d]

(* StageConsumeLogOutboxIntent *)
Stage(e) ==
    /\ request[e] = "new"
    /\ request' = [request EXCEPT ![e] = "staged"]
    /\ WriteRow(e, "pending", FALSE)
    /\ UNCHANGED <<log, worker, sent>>

(* enqueueBillingLog: a final log that LOG_DB refused is queued, due at once. *)
Enqueue(e) ==
    /\ request[e] = "new"
    /\ request' = [request EXCEPT ![e] = "finalized"]
    /\ WriteRow(e, "final", TRUE)
    /\ UNCHANGED <<log, worker, sent>>

(* UpsertConsumeLogOutboxIntent: creates the row again if it is gone. *)
Finalize(e) ==
    /\ request[e] = "staged"
    /\ request' = [request EXCEPT ![e] = "finalized"]
    /\ WriteRow(e, "final", TRUE)
    /\ UNCHANGED <<log, worker, sent>>

(* The request dies, or its upsert fails: the intent is never finalized. *)
Abandon(e) ==
    /\ request[e] = "staged"
    /\ request' = [request EXCEPT ![e] = "abandoned"]
    /\ UNCHANGED <<row, due, log, worker, sent>>

-----------------------------------------------------------------------------
(* A delivery: processBillingOutboxEvent, deliverBillingOutboxLog *)

Put(w, r) == worker' = [worker EXCEPT ![w] = r]

Claimable(w, e) ==
    /\ worker[w] = Idle
    /\ row[e] # "none" /\ due[e]
    /\ Put(w, [pc |-> "read", event |-> e])
    /\ UNCHANGED <<request, row, log, sent>>

(* Mutant of Claim: the claim does not move next_attempt_at. *)
ClaimWithoutLease(w, e) ==
    /\ Claimable(w, e)
    /\ UNCHANGED due

Claim(w, e) ==
    /\ Claimable(w, e)
    /\ due' = [due EXCEPT ![e] = FALSE]

(* Mutant of ReadEvent: a preliminary intent is left to its request. *)
ReadFinalOnly(w) ==
    LET r == worker[w] IN
    /\ r.pc = "read"
    /\ Put(w, IF row[r.event] # "final" THEN Idle
              ELSE [pc |-> "count", event |-> r.event, payload |-> "final"])
    /\ UNCHANGED <<request, row, due, log, sent>>

(* The claimed row is read again; it may be gone by now. *)
ReadEvent(w) ==
    LET r == worker[w] IN
    /\ r.pc = "read"
    /\ Put(w, IF row[r.event] = "none" THEN Idle
              ELSE [pc |-> "count", event |-> r.event, payload |-> row[r.event]])
    /\ UNCHANGED <<request, row, due, log, sent>>

CountLogs(w) ==
    LET r == worker[w] IN
    /\ r.pc = "count"
    /\ Put(w, [pc |-> "write", event |-> r.event, payload |-> r.payload,
               found |-> log[r.event] # <<>>])
    /\ UNCHANGED <<request, row, due, log, sent>>

(* The rows of LOG_DB after createLog, or after UPDATE ... WHERE request_id. *)
LogAfterWrite(r) ==
    IF r.found THEN [i \in DOMAIN log[r.event] |-> r.payload]
    ELSE Append(log[r.event], r.payload)

Written(r) ==
    /\ Len(LogAfterWrite(r)) <= MaxLogs
    /\ log' = [log EXCEPT ![r.event] = LogAfterWrite(r)]
    /\ sent' = [sent EXCEPT ![r.event] = @ \cup {r.payload}]

WriteLog(w) ==
    LET r == worker[w] IN
    /\ r.pc = "write"
    /\ Written(r)
    /\ Put(w, [pc |-> "delete", event |-> r.event, payload |-> r.payload])
    /\ UNCHANGED <<request, row, due>>

(* Mutant of DeleteEvent: whatever payload the row has now is deleted. *)
DeleteAnyPayload(w) ==
    /\ worker[w].pc = "delete"
    /\ WriteRow(worker[w].event, "none", FALSE)
    /\ Put(w, Idle)
    /\ UNCHANGED <<request, log, sent>>

(* DELETE ... WHERE id = ? AND payload = ? *)
DeleteEvent(w) ==
    LET r == worker[w] IN
    /\ r.pc = "delete"
    /\ IF row[r.event] = r.payload
       THEN WriteRow(r.event, "none", FALSE) ELSE UNCHANGED <<row, due>>
    /\ Put(w, Idle)
    /\ UNCHANGED <<request, log, sent>>

(* A statement fails: recordBillingOutboxFailure moves the row 15 seconds ahead.
   The write to LOG_DB may have been committed all the same. *)
Fail(w) ==
    LET r == worker[w] IN
    /\ r # Idle
    /\ \/ r.pc = "write" /\ Written(r)
       \/ UNCHANGED <<log, sent>>
    /\ due' = [due EXCEPT ![r.event] = FALSE]
    /\ Put(w, Idle)
    /\ UNCHANGED <<request, row>>

(* The claim itself fails, and the failure is recorded all the same, of an event
   that was due when the pass listed it and may be another worker's since: its
   claim is cut short to 15 seconds, which timing.delivery has to hold for too. *)
ClaimFails(e) ==
    /\ row[e] # "none"
    /\ due' = [due EXCEPT ![e] = FALSE]
    /\ UNCHANGED <<request, row, log, worker, sent>>

(* The process of w dies, or cannot record its failure: the row waits for the
   end of its claim. *)
Die(w) ==
    /\ worker[w] # Idle
    /\ Put(w, Idle)
    /\ UNCHANGED <<request, row, due, log, sent>>

BusyWith(w, e) == worker[w] # Idle /\ worker[w].event = e

(* next_attempt_at comes. *)
Tick(e) ==
    /\ row[e] # "none" /\ ~due[e]
    /\ timing.settlement => request[e] # "staged"
    /\ timing.delivery => \A w \in Workers : ~BusyWith(w, e)
    /\ due' = [due EXCEPT ![e] = TRUE]
    /\ UNCHANGED <<request, row, log, worker, sent>>

-----------------------------------------------------------------------------

Next ==
    /\ \/ \E e \in Events :
            \/ Stage(e) \/ Enqueue(e) \/ Finalize(e) \/ Abandon(e)
            \/ ClaimFails(e) \/ Tick(e)
       \/ \E w \in Workers, e \in Events : Claim(w, e)
       \/ \E w \in Workers :
            \/ ReadEvent(w) \/ CountLogs(w) \/ WriteLog(w) \/ DeleteEvent(w)
            \/ Fail(w) \/ Die(w)
    /\ UNCHANGED timing

(* The periodic task runs for ever, a claim ends by the clock, and a database
   that is asked again and again about an event answers in the end. *)
Fairness ==
    \A e \in Events :
      /\ WF_moving(Finalize(e) \/ Abandon(e))
      /\ WF_moving(Tick(e))
      /\ SF_moving(\E w \in Workers : Claim(w, e))
      /\ SF_moving(\E w \in Workers : BusyWith(w, e) /\ ReadEvent(w))
      /\ SF_moving(\E w \in Workers : BusyWith(w, e) /\ CountLogs(w))
      /\ SF_moving(\E w \in Workers : BusyWith(w, e) /\ WriteLog(w))
      /\ SF_moving(\E w \in Workers : BusyWith(w, e) /\ DeleteEvent(w))

Spec == Init /\ [][Next]_vars

FairSpec == Spec /\ Fairness

-----------------------------------------------------------------------------
(* Properties *)

WorkerType ==
    {Idle} \cup [pc : {"read"}, event : Events]
           \cup [pc : {"count", "delete"}, event : Events, payload : Payloads]
           \cup [pc : {"write"}, event : Events, payload : Payloads, found : BOOLEAN]

(* Types: among them, an event without a row is never due, and a worker only
   ever carries a payload that was in the row. *)
TypeOK ==
    /\ timing \in Timings
    /\ request \in [Events -> {"new", "staged", "finalized", "abandoned"}]
    /\ row \in [Events -> Payloads \cup {"none"}]
    /\ due \in [Events -> BOOLEAN]
    /\ \A e \in Events : due[e] => row[e] # "none"
    /\ log \in [Events -> Seq(Payloads)] /\ \A e \in Events : Len(log[e]) <= MaxLogs
    /\ worker \in [Workers -> WorkerType]
    /\ sent \in [Events -> SUBSET Payloads]

(* An intent leaves the outbox only when its log was written, whoever fails or
   dies in between and however claims overlap, and a payload that replaced it in
   the meantime does not leave with it. *)
NothingLost ==
    \A e \in Events :
      /\ request[e] # "new" /\ row[e] = "none" => sent[e] # {}
      /\ request[e] = "finalized" /\ row[e] = "none" => "final" \in sent[e]

Quiet(e) ==
    /\ request[e] = "finalized" /\ row[e] = "none"
    /\ \A w \in Workers : ~BusyWith(w, e)

(* A finalized event that nobody is delivering any more left, where settlements
   end within the grace period of their intent, the final log and no preliminary
   one, even when claims overlap; and where deliveries end within their claim
   too, exactly one: neither a stale view nor a duplicate, although writing the
   log and deleting the event are statements of two databases and either may be
   repeated after a lost answer. *)
FinalLogStays ==
    \A e \in Events : Quiet(e) =>
      /\ timing.settlement => ToSet(log[e]) = {"final"}
      /\ timing.settlement /\ timing.delivery => Len(log[e]) = 1

(* Every durable intent is delivered and removed in the end. *)
EventuallyDelivered == \A e \in Events : row[e] # "none" ~> row[e] = "none"
=============================================================================
