----------------------------- MODULE WebProofs ------------------------------
(***************************************************************************)
(* The web interface.                                                      *)
(*                                                                         *)
(* First the pages (WebPages), for every set of options, values, filters   *)
(* and orders and every bound.  A tab has one page open, so that the       *)
(* invariant of the composition is the invariant of that page.             *)
(*                                                                         *)
(* Then the playground's conversation (PlaygroundChat), for every number   *)
(* of requests, chunks, edits and reloads, every limit of the store, with  *)
(* streams and without, whatever sse.js does after close().  ChatInv says  *)
(* what the state of the hooks, the last render and the store have to do   *)
(* with each other between any two events; the proof has one lemma         *)
(* <action>Keeps for every event.                                          *)
(***************************************************************************)
EXTENDS WebPages, PlaygroundChat, SequenceTheorems, WellFoundedInduction, TLAPS

-----------------------------------------------------------------------------
(* The inductive invariants.                                                *)

(* The settings form.  A field that differs from its default holds what    *)
(* the user typed; the form is based on the options the query holds or, in *)
(* a section that does not build its defaults in every render, on what the *)
(* last save submitted; and the options the query holds are the stored     *)
(* ones unless the table was written since they were read.                 *)
SettingsType ==
  /\ server \in Settings!Options /\ cache \in Settings!Options
  /\ get \in [phase : {"none", "sent", "read"}, data : Settings!Options]
  /\ form \in [values : Settings!Options, defaults : Settings!Options]
  /\ refs \in [baseline : Settings!Options, defaultValues : Settings!Options,
               serialized : Settings!Options]
  /\ save \in [phase : {"idle", "sent", "landed", "refused"},
               data : Settings!Options, key : Keys \cup {NoValue},
               todo : SUBSET Keys]
  /\ save.phase = "sent" => save.key \in Keys
  /\ section \in {"stable", "fresh"}
  /\ typed \in [Keys -> Values \cup {NoValue}]
  /\ submitted \in Settings!Options
  /\ unread \in BOOLEAN /\ readStale \in BOOLEAN

FormBased ==
  /\ \A k \in Keys : form.values[k] # form.defaults[k] => typed[k] = form.values[k]
  /\ form.defaults = cache \/ (section = "stable" /\ form.defaults = submitted)
  /\ refs.defaultValues = form.defaults /\ refs.serialized = form.defaults

CacheRead ==
  /\ ~unread => cache = server
  /\ get.phase = "read" /\ ~readStale => get.data = server

SettingsInv == SettingsType /\ FormBased /\ CacheRead

(* The billing history.  No fetch that waits is newer than the counter,    *)
(* and one that carries its value is the newest one.                       *)
HistoryInv ==
  /\ sequence \in Nat /\ loading \in BOOLEAN
  /\ \A f \in fetches : /\ f.sequence \in Nat /\ f.sequence <= sequence
                        /\ f.sequence = sequence => f.query = newest
  /\ ~loading => shown.query = newest

(* The payment page.  What the server read for the poll that waits, and    *)
(* what it answered the cancel button, is still true when it arrives, but  *)
(* for "pending" and for "expired", which may have been paid since.        *)
PaymentInv ==
  /\ status \in [{Order} -> {"pending", "expired", "cancelled", "paid"}]
  /\ get \in [phase : {"none", "sent", "read"},
              status : {"none", "pending", "expired", "cancelled", "paid"}]
  /\ stopped \in BOOLEAN
  /\ get.status \in {"cancelled", "paid"} => Payment!State = get.status
  /\ get.status = "expired" => Payment!State # "pending"
  /\ cancel = "done" => Payment!State = "cancelled"
  /\ shown \in {"paid", "cancelled"} => Payment!State = shown
  /\ stopped => Payment!State # "pending"

PagesInv ==
  /\ page \in {"settings", "history", "payment"}
  /\ page = "settings" => SettingsInv
  /\ page = "history" => HistoryInv
  /\ page = "payment" => PaymentInv

-----------------------------------------------------------------------------
(* The settings form.                                                       *)

(* What a page of settings starts with. *)
LEMMA FirstOptions == Settings!AllFirst \in Settings!Options
BY WebPagesAssumption DEF Settings!AllFirst, Settings!Options

LEMMA SettingsStart ==
    ASSUME Settings!Init
    PROVE  SettingsInv
<1>1. SettingsType
  <2>1. typed \in [Keys -> Values \cup {NoValue}]
    BY DEF Settings!Init
  <2> QED BY <2>1, FirstOptions
          DEF Settings!Init, SettingsType, Settings!NoGet, Settings!NoSave
<1>2. FormBased /\ CacheRead
  BY DEF Settings!Init, FormBased, CacheRead, Settings!NoGet
<1> QED BY <1>1, <1>2 DEF SettingsInv

(* A view that is shown is the one that was there, or a form without a     *)
(* dirty field.                                                            *)
LEMMA ShowBased ==
    ASSUME NEW d \in Settings!Options, SettingsType,
           Settings!Show(Settings!BasedOn(d))
    PROVE  /\ form' = [values |-> d, defaults |-> d]
           /\ refs' = [baseline |-> d, defaultValues |-> d, serialized |-> d]
           /\ typed' \in [Keys -> Values \cup {NoValue}]
BY DEF Settings!Show, Settings!BasedOn, Settings!ResetTo, SettingsType

(* The user's steps. *)
LEMMA EditKeeps ==
    ASSUME SettingsInv, NEW k \in Keys, NEW v \in Values, Settings!Edit(k, v)
    PROVE  SettingsInv'
BY DEF Settings!Edit, SettingsInv, SettingsType, FormBased, CacheRead, Settings!Options

LEMMA ResetKeeps ==
    ASSUME SettingsInv, Settings!HandleReset
    PROVE  SettingsInv'
BY DEF Settings!HandleReset, Settings!ResetTo, SettingsInv, SettingsType, FormBased,
       CacheRead, Settings!Options

LEMMA SubmitKeeps ==
    ASSUME SettingsInv, Settings!HandleSubmit
    PROVE  SettingsInv'
BY DEF Settings!HandleSubmit, Settings!ChangedKeys, Settings!Dirty, SettingsInv,
       SettingsType, FormBased, CacheRead, Settings!Options

(* The table is written. *)
LEMMA WritesKeep ==
    ASSUME SettingsInv,
           \/ Settings!PutLands
           \/ \E k \in Keys, v \in Values : Settings!OtherAdmin(k, v)
    PROVE  SettingsInv'
<1>1. Settings!PutLands => Settings!SentValue(save.key) \in Values /\ save.key \in Keys
  BY WebPagesAssumption
     DEF Settings!PutLands, Settings!SentValue, SettingsInv, SettingsType, Settings!Options
<1>2. CASE Settings!PutLands
  BY <1>1, <1>2 DEF Settings!PutLands, Settings!Write, SettingsInv, SettingsType,
     FormBased, CacheRead, Settings!Options
<1>3. CASE \E k \in Keys, v \in Values : Settings!OtherAdmin(k, v)
  BY <1>3 DEF Settings!OtherAdmin, Settings!Write, SettingsInv, SettingsType,
     FormBased, CacheRead, Settings!Options
<1> QED BY <1>2, <1>3

(* A save that goes on or fails leaves the form alone. *)
LEMMA PutsKeep ==
    ASSUME SettingsInv, Settings!PutRefused \/ Settings!PutFails
    PROVE  SettingsInv'
BY WebPagesAssumption
   DEF Settings!PutRefused, Settings!PutFails, Settings!NoSave, Settings!AllFirst,
       SettingsInv, SettingsType, FormBased, CacheRead, Settings!Options

LEMMA PutAnsweredKeeps ==
    ASSUME SettingsInv, Settings!PutAnswered
    PROVE  SettingsInv'
<1>1. /\ Settings!Invalidated \in [phase : {"none", "sent", "read"}, data : Settings!Options]
      /\ Settings!Invalidated.phase = "read" => get.phase = "read"
      /\ Settings!Invalidated.data = get.data
  BY DEF Settings!Invalidated, SettingsInv, SettingsType
<1>2. CASE save.todo # {}
  <2>1. PICK k \in save.todo :
          save' = [save EXCEPT !.phase = "sent", !.key = k, !.todo = @ \ {k}]
    BY <1>2 DEF Settings!PutAnswered
  <2>2. save' \in [phase : {"idle", "sent", "landed", "refused"},
                   data : Settings!Options, key : Keys \cup {NoValue},
                   todo : SUBSET Keys] /\ save'.key \in Keys
    BY <2>1 DEF SettingsInv, SettingsType
  <2>3. SettingsType'
    BY <1>1, <1>2, <2>2 DEF Settings!PutAnswered, SettingsInv, SettingsType
  <2> QED BY <1>1, <1>2, <2>3 DEF Settings!PutAnswered, SettingsInv, FormBased, CacheRead
<1>3. CASE save.todo = {}
  <2>1. PICK d \in Settings!Options :
          /\ Settings!Submitted(save.data) = Settings!BasedOn(d)
          /\ d = cache \/ (section = "stable" /\ d = save.data)
    BY DEF Settings!Submitted, Settings!SyncDefaults, Settings!BasedOn, SettingsInv, SettingsType
  <2>2. /\ form' = [values |-> d, defaults |-> d]
        /\ refs' = [baseline |-> d, defaultValues |-> d, serialized |-> d]
        /\ typed' \in [Keys -> Values \cup {NoValue}]
    BY <1>3, <2>1, ShowBased DEF Settings!PutAnswered, SettingsInv
  <2>3. FormBased'
    BY <1>3, <2>1, <2>2 DEF Settings!PutAnswered, FormBased
  <2>4. SettingsType'
    BY <1>1, <1>3, <2>2, WebPagesAssumption
       DEF Settings!PutAnswered, SettingsInv, SettingsType, Settings!NoSave,
           Settings!AllFirst, Settings!Options
  <2> QED BY <1>1, <2>3, <2>4 DEF Settings!PutAnswered, SettingsInv, CacheRead
<1> QED BY <1>2, <1>3

(* The query. *)
LEMMA QueryKeeps ==
    ASSUME SettingsInv,
           Settings!Refetch \/ Settings!ServerReads \/ Settings!GetFails
    PROVE  SettingsInv'
<1>1. CASE Settings!Refetch
  BY <1>1 DEF Settings!Refetch, Settings!Invalidated, SettingsInv, SettingsType, FormBased,
     CacheRead
<1>2. CASE Settings!ServerReads
  BY <1>2 DEF Settings!ServerReads, SettingsInv, SettingsType, FormBased, CacheRead
<1>3. CASE Settings!GetFails
  <2>1. /\ get' \in [phase : {"none", "sent", "read"}, data : Settings!Options]
        /\ get'.phase # "read"
    BY <1>3, FirstOptions DEF Settings!GetFails, Settings!NoGet
  <2> QED BY <1>3, <2>1 DEF Settings!GetFails, SettingsInv, SettingsType, FormBased, CacheRead
<1> QED BY <1>1, <1>2, <1>3

LEMMA AnswerKeeps ==
    ASSUME SettingsInv, Settings!GetAnswers
    PROVE  SettingsInv'
<1>1. CacheRead' /\ cache' = get.data /\ get.data \in Settings!Options
  BY DEF Settings!GetAnswers, Settings!NoGet, SettingsInv, SettingsType, CacheRead
<1>2. UNCHANGED <<form, refs, typed>>
      \/ Settings!Show(Settings!BasedOn(get.data))
  <2>1. CASE get.data = cache
    BY <2>1 DEF Settings!GetAnswers
  <2>2. CASE get.data # cache /\ get.data = refs.serialized
    BY <2>2 DEF Settings!GetAnswers, Settings!SyncDefaults, Settings!Show, Settings!View
  <2>3. CASE get.data # cache /\ get.data # refs.serialized
    BY <2>3 DEF Settings!GetAnswers, Settings!SyncDefaults, Settings!View
  <2> QED BY <2>1, <2>2, <2>3
<1>3. get.data # cache => \/ Settings!Show(Settings!BasedOn(get.data))
                          \/ form.defaults = get.data
  BY DEF Settings!GetAnswers, Settings!SyncDefaults, Settings!View, SettingsInv, FormBased
<1>4. SettingsType'
  BY <1>1, <1>2, ShowBased, WebPagesAssumption
     DEF Settings!GetAnswers, Settings!NoGet, Settings!AllFirst, SettingsInv, SettingsType,
         Settings!Options
<1>5. FormBased'
  <2>1. CASE Settings!Show(Settings!BasedOn(get.data))
    BY <1>1, <2>1, ShowBased DEF SettingsInv, FormBased
  <2>2. CASE UNCHANGED <<form, refs, typed>> /\ ~Settings!Show(Settings!BasedOn(get.data))
    BY <1>1, <1>3, <2>2 DEF Settings!GetAnswers, SettingsInv, FormBased
  <2> QED BY <1>2, <2>1, <2>2
<1> QED BY <1>1, <1>4, <1>5 DEF SettingsInv

LEMMA SettingsKeeps ==
    ASSUME SettingsInv, Settings!Next
    PROVE  SettingsInv'
BY EditKeeps, ResetKeeps, SubmitKeeps, WritesKeep, PutsKeep, PutAnsweredKeeps, QueryKeeps,
   AnswerKeeps DEF Settings!Next

(* Only the save button starts a save, and it sends dirty fields. *)
LEMMA SettingsSends ==
    ASSUME SettingsInv, Settings!Next
    PROVE  Settings!SendsOnlyTyped
<1>1. CASE Settings!HandleSubmit
  BY <1>1 DEF Settings!HandleSubmit, Settings!SendsOnlyTyped, Settings!ChangedKeys,
     Settings!Dirty, SettingsInv, FormBased
<1>2. CASE Settings!PutLands \/ Settings!PutRefused \/ Settings!PutAnswered
           \/ Settings!PutFails
  BY <1>2 DEF Settings!PutLands, Settings!PutRefused, Settings!PutAnswered,
     Settings!PutFails, Settings!NoSave, Settings!SendsOnlyTyped
<1>3. CASE UNCHANGED save
  BY <1>3 DEF Settings!SendsOnlyTyped
<1>4. \/ Settings!HandleSubmit \/ UNCHANGED save
      \/ Settings!PutLands \/ Settings!PutRefused \/ Settings!PutAnswered
      \/ Settings!PutFails
  BY DEF Settings!Next, Settings!Edit, Settings!OtherAdmin, Settings!HandleReset,
     Settings!Refetch, Settings!ServerReads, Settings!GetAnswers, Settings!GetFails
<1> QED BY <1>1, <1>2, <1>3, <1>4

-----------------------------------------------------------------------------
(* The billing history.                                                     *)

LEMMA HistoryStart == History!Init => HistoryInv
BY DEF History!Init, HistoryInv, History!Opened

(* A fetch takes a number no other has and becomes the newest. *)
LEMMA FetchKeeps ==
    ASSUME HistoryInv, NEW q, NEW by, NEW n \in Nat, n > sequence,
           History!Fetch(q, n, by)
    PROVE  HistoryInv'
BY DEF History!Fetch, HistoryInv

(* An answer is shown for the current fetch, which is the newest one, and  *)
(* for no other.                                                           *)
LEMMA SettleKeeps ==
    ASSUME HistoryInv, NEW q, NEW list, list.query = q, History!GetSettles(q, list)
    PROVE  HistoryInv'
<1> DEFINE waiting == {f \in fetches : f.query = q}
<1>1. /\ fetches' = fetches \ waiting
      /\ shown' = IF \E f \in waiting : f.sequence = sequence THEN list ELSE shown
      /\ loading' = (loading /\ ~(\E f \in waiting : f.sequence = sequence))
      /\ UNCHANGED <<sequence, newest>>
  BY DEF History!GetSettles, History!LoadingAfter, History!EndsLoading,
     History!IsCurrentBillingHistoryRequest
<1>2. CASE \E f \in waiting : f.sequence = sequence
  <2>1. q = newest
    BY <1>2 DEF HistoryInv
  <2> QED BY <1>1, <1>2, <2>1 DEF HistoryInv
<1>3. CASE ~(\E f \in waiting : f.sequence = sequence)
  BY <1>1, <1>3 DEF HistoryInv
<1> QED BY <1>2, <1>3

LEMMA HistoryKeeps ==
    ASSUME HistoryInv, History!Next
    PROVE  HistoryInv'
<1>1. ASSUME NEW q, History!Moves(q) PROVE HistoryInv'
  BY <1>1, FetchKeeps DEF History!Moves, History!Cleanup, HistoryInv
<1>2. CASE History!HandlePageChange \/ History!HandleFilter
  BY <1>1, <1>2 DEF History!HandlePageChange, History!HandleFilter
<1>3. ASSUME NEW q, History!GetAnswers(q) \/ History!GetFails(q) PROVE HistoryInv'
  BY <1>3, SettleKeeps DEF History!GetAnswers, History!GetFails
<1>4. ASSUME NEW b, History!RefreshAfter(b) PROVE HistoryInv'
  BY <1>4, FetchKeeps DEF History!RefreshAfter, HistoryInv
<1>5. CASE UNCHANGED <<shown, loading, sequence, fetches, newest>>
  BY <1>5 DEF HistoryInv
<1>6. \/ History!HandlePageChange \/ History!HandleFilter
      \/ \E q : History!GetAnswers(q) \/ History!GetFails(q)
      \/ \E b : History!RefreshAfter(b)
      \/ UNCHANGED <<shown, loading, sequence, fetches, newest>>
  BY DEF History!Next, History!HandleCompleteOrder, History!Dismiss,
     History!HandleCheckPayment, History!AskConfirm, History!ServerReads,
     History!PostLands, History!PostFails
<1> QED BY <1>2, <1>3, <1>4, <1>5, <1>6

-----------------------------------------------------------------------------
(* The payment page.                                                        *)

LEMMA PaymentStart == Payment!Init => PaymentInv
BY DEF Payment!Init, PaymentInv, Payment!State, Payment!NoGet

(* A paid and a cancelled invoice are final, and a closed one never opens. *)
Final ==
  /\ status' \in [{Order} -> {"pending", "expired", "cancelled", "paid"}]
  /\ Payment!State \in {"paid", "cancelled"} => Payment!State' = Payment!State
  /\ Payment!State # "pending" => Payment!State' # "pending"

LEMMA InvoiceIsFinal ==
    ASSUME PaymentInv, Payment!Next
    PROVE  Final
<1>1. CASE Payment!InvoiceMoves
  BY <1>1 DEF Payment!InvoiceMoves, Payment!Bill!IsPaid, Payment!Bill!Cancels,
     Payment!Bill!Expires, Payment!Bill!Moves, Payment!State, PaymentInv, Final
<1>2. CASE Payment!ServerReads
  BY <1>2 DEF Payment!ServerReads, Payment!StatusRead, Payment!State, PaymentInv, Final
<1>3. CASE Payment!CancelLands
  BY <1>3 DEF Payment!CancelLands, Payment!State, PaymentInv, Final
<1>4. CASE UNCHANGED status
  BY <1>4 DEF Payment!State, PaymentInv, Final
<1>5. \/ Payment!InvoiceMoves \/ Payment!ServerReads \/ Payment!CancelLands
      \/ UNCHANGED status
  BY DEF Payment!Next, Payment!DeadlinePasses, Payment!Poll, Payment!GetAnswers,
     Payment!GetFails, Payment!CancelPayment, Payment!CancelAnswered, Payment!CancelFails
<1> QED BY <1>1, <1>2, <1>3, <1>4, <1>5

LEMMA PaymentKeeps ==
    ASSUME PaymentInv, Payment!Next
    PROVE  PaymentInv'
<1>1. Final
  BY InvoiceIsFinal
<1>2. CASE Payment!ServerReads
  BY <1>1, <1>2 DEF Payment!ServerReads, Payment!StatusRead, Payment!State, PaymentInv, Final
<1>3. CASE Payment!CancelLands
  BY <1>1, <1>3 DEF Payment!CancelLands, Payment!State, PaymentInv, Final
<1>4. CASE Payment!Poll \/ Payment!GetFails
  BY <1>1, <1>4 DEF Payment!Poll, Payment!GetFails, Payment!NoGet, PaymentInv, Final
<1>5. CASE Payment!GetAnswers
  BY <1>1, <1>5 DEF Payment!GetAnswers, Payment!NoGet, Payment!IsTerminal, PaymentInv, Final
<1>6. CASE Payment!CancelAnswered
  BY <1>1, <1>6 DEF Payment!CancelAnswered, Payment!AfterCancel, PaymentInv, Final
<1>7. CASE UNCHANGED <<get, shown, stopped>> /\ cancel' \in {cancel, "sent", "idle"}
  BY <1>1, <1>7 DEF PaymentInv, Final
<1>8. \/ Payment!ServerReads \/ Payment!CancelLands \/ Payment!Poll \/ Payment!GetFails
      \/ Payment!GetAnswers \/ Payment!CancelAnswered
      \/ UNCHANGED <<get, shown, stopped>> /\ cancel' \in {cancel, "sent", "idle"}
  BY DEF Payment!Next, Payment!DeadlinePasses, Payment!InvoiceMoves,
     Payment!CancelPayment, Payment!CancelFails
<1> QED BY <1>2, <1>3, <1>4, <1>5, <1>6, <1>7, <1>8

-----------------------------------------------------------------------------
(* The tab.                                                                 *)

(* The invariant of the page that is open holds in every behaviour. *)
THEOREM PagesInductive == Spec => []PagesInv
<1>1. Init => PagesInv
  BY SettingsStart, HistoryStart, PaymentStart DEF Init, PagesInv
<1>2. PagesInv /\ [Next]_vars => PagesInv'
  <2> SUFFICES ASSUME PagesInv, [Next]_vars PROVE PagesInv'
    OBVIOUS
  <2>1. CASE page = "settings" /\ Settings!Next /\ UNCHANGED page
    BY <2>1, SettingsKeeps DEF PagesInv
  <2>2. CASE page = "history" /\ History!Next /\ UNCHANGED page
    BY <2>2, HistoryKeeps DEF PagesInv
  <2>3. CASE page = "payment" /\ Payment!Next /\ UNCHANGED page
    BY <2>3, PaymentKeeps DEF PagesInv
  <2>4. CASE UNCHANGED vars
    BY <2>4 DEF vars, settingsOnly, historyOnly, paymentOnly, PagesInv, SettingsInv,
       SettingsType, FormBased, CacheRead, HistoryInv, PaymentInv, Payment!State
  <2> QED BY <2>1, <2>2, <2>3, <2>4 DEF Next
<1> QED BY <1>1, <1>2, PTL DEF Spec

(* Whatever answers come late and out of order: the clean fields of a      *)
(* settings form at rest show what is stored or, in a section with stable  *)
(* defaults, what its own last save submitted (use-settings-form.ts), the  *)
(* billing history shows the answer to the newest fetch                    *)
(* (isCurrentBillingHistoryRequest), and the payment page says paid or     *)
(* cancelled only of an invoice that is (poll, cancelPayment).             *)
THEOREM PagesShowTheTruth == Spec => []ShownIsTrue
<1>1. PagesInv => ShownIsTrue
  <2> SUFFICES ASSUME PagesInv PROVE ShownIsTrue
    OBVIOUS
  <2>1. page = "settings" => Settings!CleanFieldsShowStored
    BY DEF PagesInv, SettingsInv, FormBased, CacheRead, Settings!CleanFieldsShowStored,
       Settings!Dirty
  <2>2. page = "history" => History!NewestFetchShown
    BY DEF PagesInv, HistoryInv, History!NewestFetchShown
  <2>3. page = "payment" => Payment!ShownIsTrue
    BY DEF PagesInv, PaymentInv, Payment!ShownIsTrue
  <2> QED BY <2>1, <2>2, <2>3 DEF ShownIsTrue
<1> QED BY <1>1, PagesInductive, PTL

(* A save of the settings sends a field only with a value the user typed   *)
(* into it since the form was last reset (collectDirtyValues and the       *)
(* baseline filter of handleSubmit).                                       *)
THEOREM SavesSendTyped == Spec => OnlyTypedIsSent
<1>1. PagesInv /\ [Next]_vars => [page = "settings" => Settings!SendsOnlyTyped]_vars
  BY SettingsSends DEF PagesInv, Next
<1> QED BY <1>1, PagesInductive, PTL DEF Spec, OnlyTypedIsSent

-----------------------------------------------------------------------------
(* The playground: the inductive invariant.                                 *)

Chunks == Seq(Nat \X Nat)
Froms == {"user", "assistant"}
Message == [key : Froms \X Nat, from : Froms, text : Chunks,
            status : {"none", "loading", "streaming", "complete", "error"}]
Hooks == [messages : Seq(Message), pending : Chunks, held : Chunks,
          flushTimer : BOOLEAN, saveTimer : BOOLEAN, isStreaming : BOOLEAN,
          isRequesting : BOOLEAN, sseSource : Nat, isStreamComplete : BOOLEAN,
          open : SUBSET Nat, requestId : Nat, abortController : Nat]

(* A list of messages of the first n requests: no two have one key. *)
ListOf(ms, n) ==
  /\ ms \in Seq(Message)
  /\ \A i \in 1 .. Len(ms) : /\ ms[i].key[1] = ms[i].from /\ ms[i].key[2] \in 1 .. n
                             /\ ms[i].from = "user" => ms[i].status = "none"
  /\ \A i, j \in 1 .. Len(ms) : ms[i].key = ms[j].key => i = j

SameKeys(ms, ns) ==
  /\ Len(ms) = Len(ns)
  /\ \A i \in 1 .. Len(ms) : ms[i].key = ns[i].key

(* Nothing but the last message is pending. *)
LastPending(ms) == \A i \in 1 .. Len(ms) : IsPending(ms[i]) => i = Len(ms)

(* One stream at a time, of request n: the source that is open is the one   *)
(* the hook holds, its message is the last one, and the flags say that it   *)
(* is there.  A chunk that waits without a source was dispatched after an   *)
(* error, which the message shows.                                          *)
StreamInv(u, n) ==
  /\ u.open \subseteq {u.sseSource} \ {NoRequest}
  /\ u.isStreaming = (u.sseSource # NoRequest) /\ u.isRequesting = u.isStreaming
  /\ u.open # {} => ~u.isStreamComplete
  /\ u.pending # <<>> => u.flushTimer
  /\ u.sseSource # NoRequest =>
       /\ u.sseSource = n
       /\ u.messages # <<>> /\ Last(u.messages).key = <<"assistant", u.sseSource>>
  /\ u.sseSource = NoRequest /\ u.pending # <<>> =>
       /\ world.afterClose /\ u.messages # <<>>
       /\ Last(u.messages).from = "assistant" /\ Last(u.messages).status = "error"

(* Without streams the parts that stream are idle. *)
PlainInv(u) ==
  /\ u.sseSource = NoRequest /\ u.open = {} /\ ~u.isStreaming
  /\ u.pending = <<>> /\ u.held = <<>> /\ ~u.flushTimer

(* A pending message is the one that streams, unless an edit has set one   *)
(* back (over).                                                            *)
PendingStreams(u, over) ==
  over = {} => \A i \in 1 .. Len(u.messages) :
                 IsPending(u.messages[i]) => i = Len(u.messages) /\ u.sseSource # NoRequest

Dispatched(r, n) == [k \in 1 .. n |-> <<r, k>>]

(* Every chunk that was dispatched (count) is in the message, or waits if  *)
(* the message is the one that streams; nothing is said of the requests in *)
(* exempt.                                                                 *)
ExactIn(u, count, exempt) ==
  \A i \in 1 .. Len(u.messages) :
    LET m == u.messages[i]
        r == m.key[2]
    IN  m.from = "assistant" /\ r \notin exempt /\ m.status # "error" =>
          /\ r = u.sseSource => m.text \o (u.pending \o u.held) = Dispatched(r, count[r])
          /\ r # u.sseSource /\ m.text # <<Edited>> => m.text = Dispatched(r, count[r])

Streaming(u, n, count, over, exempt) ==
  /\ u \in Hooks /\ n \in Nat /\ count \in [Requests -> Nat]
  /\ n <= world.maxRequests /\ world.maxRequests \in Nat
  /\ ListOf(u.messages, n) /\ StreamInv(u, n)
  /\ PendingStreams(u, over) /\ ExactIn(u, count, exempt)

-----------------------------------------------------------------------------
(* Lists.                                                                   *)

WithLast(ms, m) == [ms EXCEPT ![Len(ms)] = m]

LEMMA LastIs ==
    ASSUME NEW ms \in Seq(Message), ms # <<>>
    PROVE  /\ Len(ms) \in Nat /\ Len(ms) >= 1 /\ Len(ms) \in 1 .. Len(ms)
           /\ Last(ms) = ms[Len(ms)] /\ Last(ms) \in Message
<1>1. Len(ms) \in Nat \ {0}
  BY EmptySeq
<1>2. Len(ms) \in 1 .. Len(ms)
  BY <1>1
<1> QED BY <1>1, <1>2, ElementOfSeq DEF Last

LEMMA WithLastIs ==
    ASSUME NEW ms \in Seq(Message), ms # <<>>, NEW m \in Message
    PROVE  /\ WithLast(ms, m) \in Seq(Message) /\ Len(WithLast(ms, m)) = Len(ms)
           /\ WithLast(ms, m) # <<>> /\ Last(WithLast(ms, m)) = m
           /\ WithLast(ms, m)[Len(ms)] = m
           /\ \A i \in 1 .. Len(ms) :
                WithLast(ms, m)[i] = IF i = Len(ms) THEN m ELSE ms[i]
<1>1. Len(ms) \in 1 .. Len(ms) /\ Len(ms) >= 1
  BY LastIs
<1>2. /\ WithLast(ms, m) \in Seq(Message) /\ Len(WithLast(ms, m)) = Len(ms)
      /\ \A j \in 1 .. Len(ms) : WithLast(ms, m)[j] = IF j = Len(ms) THEN m ELSE ms[j]
  BY <1>1, ExceptSeq DEF WithLast
<1>3. WithLast(ms, m) # <<>>
  BY <1>1, <1>2
<1>4. WithLast(ms, m)[Len(ms)] = m
  BY <1>1, <1>2
<1> QED BY <1>2, <1>3, <1>4 DEF Last

(* The last message is replaced by one with its key. *)
LEMMA LastChanges ==
    ASSUME NEW ms, NEW n \in Nat, ListOf(ms, n), ms # <<>>, Last(ms).from = "assistant",
           NEW m \in Message, m.key = Last(ms).key, m.from = "assistant"
    PROVE  ListOf(WithLast(ms, m), n) /\ SameKeys(WithLast(ms, m), ms)
<1>1. ms \in Seq(Message)
  BY DEF ListOf
<1>2. \A i \in 1 .. Len(ms) : WithLast(ms, m)[i] = IF i = Len(ms) THEN m ELSE ms[i]
  BY <1>1, WithLastIs
<1>3. Len(WithLast(ms, m)) = Len(ms) /\ WithLast(ms, m) \in Seq(Message)
  BY <1>1, WithLastIs
<1>4. \A i \in 1 .. Len(ms) : /\ WithLast(ms, m)[i].key = ms[i].key
                              /\ WithLast(ms, m)[i].from = ms[i].from
                              /\ ms[i].from = "user" => WithLast(ms, m)[i] = ms[i]
  BY <1>1, <1>2, LastIs
<1> QED BY <1>3, <1>4 DEF ListOf, SameKeys

-----------------------------------------------------------------------------
(* The handlers of use-chat-handler.ts, field by field.                     *)

SameSource(u, v) ==
  /\ v.sseSource = u.sseSource /\ v.open = u.open /\ v.isStreaming = u.isStreaming
  /\ v.isStreamComplete = u.isStreamComplete
SameRequest(u, v) == v.requestId = u.requestId /\ v.abortController = u.abortController

(* A list that changes is saved. *)
Saves(u, v) == v.saveTimer \/ (~u.saveTimer /\ v.messages = u.messages)

Flushed(ms, chunks) ==
  IF ms # <<>> /\ Last(ms).from = "assistant" /\ Last(ms).status # "error"
  THEN WithLast(ms, [Last(ms) EXCEPT !.text = @ \o chunks, !.status = "streaming"])
  ELSE ms

LEMMA UpdateIs ==
    ASSUME NEW u \in Hooks, NEW ms \in Seq(Message)
    PROVE  LET v == UpdateMessages(u, ms) IN
           /\ v \in Hooks /\ v.messages = ms /\ v.saveTimer
           /\ v.pending = u.pending /\ v.held = u.held /\ v.flushTimer = u.flushTimer
           /\ v.isRequesting = u.isRequesting /\ SameSource(u, v) /\ SameRequest(u, v)
BY DEF UpdateMessages, Hooks, SameSource, SameRequest

LEMMA FlushedIs ==
    ASSUME NEW ms \in Seq(Message), NEW p \in Chunks
    PROVE  /\ Flushed(ms, p) \in Seq(Message)
           /\ UpdateLastAssistantMessage(ms, LAMBDA m : ApplyStreamingChunk(m, p)) = Flushed(ms, p)
<1>1. CASE ms = <<>> \/ Last(ms).from # "assistant"
  BY <1>1 DEF Flushed, UpdateLastAssistantMessage
<1>2. CASE ms # <<>> /\ Last(ms).from = "assistant" /\ Last(ms).status = "error"
  <2>1. UpdateLastAssistantMessage(ms, LAMBDA m : ApplyStreamingChunk(m, p))
          = [ms EXCEPT ![Len(ms)] = Last(ms)]
    BY <1>2, LastIs DEF UpdateLastAssistantMessage, ApplyStreamingChunk
  <2>2. [ms EXCEPT ![Len(ms)] = Last(ms)] = ms
    BY <1>2, LastIs
  <2> QED BY <1>2, <2>1, <2>2 DEF Flushed
<1>3. CASE ms # <<>> /\ Last(ms).from = "assistant" /\ Last(ms).status # "error"
  <2>1. UpdateLastAssistantMessage(ms, LAMBDA m : ApplyStreamingChunk(m, p)) = Flushed(ms, p)
    BY <1>3 DEF UpdateLastAssistantMessage, ApplyStreamingChunk, Flushed, WithLast, Last
  <2>2. [Last(ms) EXCEPT !.text = @ \o p, !.status = "streaming"] \in Message
    BY ZenonT(60), <1>3, LastIs, ConcatProperties DEF Message, Chunks
  <2> QED BY <1>3, <2>1, <2>2, WithLastIs DEF Flushed
<1> QED BY <1>1, <1>2, <1>3

LEMMA FlushIs ==
    ASSUME NEW u \in Hooks
    PROVE  LET v == FlushStreamUpdates(u) IN
           /\ v \in Hooks /\ v.pending = <<>> /\ ~v.flushTimer /\ v.held = u.held
           /\ v.isRequesting = u.isRequesting /\ SameSource(u, v) /\ SameRequest(u, v)
           /\ v.messages = IF u.pending = <<>> THEN u.messages
                           ELSE Flushed(u.messages, u.pending)
           /\ Saves(u, v)
<1> DEFINE w == [u EXCEPT !.flushTimer = FALSE, !.pending = <<>>]
<1>1. /\ w \in Hooks /\ w.pending = <<>> /\ ~w.flushTimer /\ w.held = u.held
      /\ w.isRequesting = u.isRequesting /\ SameSource(u, w) /\ SameRequest(u, w)
      /\ w.messages = u.messages /\ w.saveTimer = u.saveTimer
  BY EmptySeq DEF Hooks, Chunks, SameSource, SameRequest
<1>2. CASE u.pending = <<>>
  <2>1. FlushStreamUpdates(u) = w
    BY <1>2 DEF FlushStreamUpdates
  <2>2. Saves(u, w)
    BY <1>1 DEF Saves, Hooks
  <2> QED BY <1>1, <1>2, <2>1, <2>2
<1>3. CASE u.pending # <<>>
  <2>1. u.messages \in Seq(Message) /\ u.pending \in Chunks
    BY DEF Hooks
  <2>2. FlushStreamUpdates(u) = UpdateMessages(w, Flushed(u.messages, u.pending))
    BY <1>3, <2>1, FlushedIs DEF FlushStreamUpdates
  <2> DEFINE f == Flushed(u.messages, u.pending)
             v == UpdateMessages(w, f)
  <2>3. f \in Seq(Message)
    BY <2>1, FlushedIs
  <2> HIDE DEF w, f
  <2>4. /\ v \in Hooks /\ v.messages = f /\ v.saveTimer
        /\ v.pending = w.pending /\ v.held = w.held /\ v.flushTimer = w.flushTimer
        /\ v.isRequesting = w.isRequesting /\ SameSource(w, v) /\ SameRequest(w, v)
    BY <1>1, <2>3, UpdateIs
  <2>5. SameSource(u, v) /\ SameRequest(u, v) /\ Saves(u, v)
    BY <1>1, <2>4 DEF SameSource, SameRequest, Saves
  <2>6. FlushStreamUpdates(u) = v
    BY <2>2 DEF f
  <2> HIDE DEF v
  <2> QED BY <1>1, <1>3, <2>4, <2>5, <2>6 DEF f
<1> QED BY <1>2, <1>3

LEMMA WithLastTwice ==
    ASSUME NEW ms \in Seq(Message), ms # <<>>, NEW a \in Message, NEW b \in Message
    PROVE  /\ WithLast(WithLast(ms, a), b) = WithLast(ms, b)
           /\ WithLast(ms, Last(ms)) = ms
<1> DEFINE wa == WithLast(ms, a)
<1>1. wa \in Seq(Message) /\ Len(wa) = Len(ms) /\ wa # <<>>
      /\ \A i \in 1 .. Len(ms) : wa[i] = IF i = Len(ms) THEN a ELSE ms[i]
  BY WithLastIs
<1> HIDE DEF wa
<1> DEFINE wab == WithLast(wa, b)
           wb == WithLast(ms, b)
           wl == WithLast(ms, Last(ms))
<1>2. wab \in Seq(Message) /\ Len(wab) = Len(ms)
      /\ \A i \in 1 .. Len(ms) : wab[i] = IF i = Len(ms) THEN b ELSE wa[i]
  <2>1. wab \in Seq(Message) /\ Len(wab) = Len(wa)
        /\ \A i \in 1 .. Len(wa) : wab[i] = IF i = Len(wa) THEN b ELSE wa[i]
    BY <1>1, WithLastIs
  <2> HIDE DEF wab
  <2> QED BY <1>1, <2>1
<1>3. wb \in Seq(Message) /\ Len(wb) = Len(ms)
      /\ \A i \in 1 .. Len(ms) : wb[i] = IF i = Len(ms) THEN b ELSE ms[i]
  BY WithLastIs
<1>4. wl \in Seq(Message) /\ Len(wl) = Len(ms)
      /\ \A i \in 1 .. Len(ms) : wl[i] = IF i = Len(ms) THEN Last(ms) ELSE ms[i]
  BY WithLastIs, LastIs
<1> HIDE DEF wab, wb, wl
<1>5. wab = wb
  BY <1>1, <1>2, <1>3, SeqEqual
<1>6. wl = ms
  BY <1>4, SeqEqual DEF Last
<1> QED BY <1>5, <1>6 DEF wa, wab, wb, wl

LEMMA EndContentIs ==
    ASSUME NEW u \in Hooks
    PROVE  LET v == EndContent(u) IN
           /\ v \in Hooks /\ v.pending = <<>> /\ ~v.flushTimer /\ v.held = <<>>
           /\ v.isRequesting = u.isRequesting /\ SameSource(u, v) /\ SameRequest(u, v)
           /\ v.messages = IF u.pending \o u.held = <<>> THEN u.messages
                           ELSE Flushed(u.messages, u.pending \o u.held)
           /\ Saves(u, v)
<1> DEFINE w == [u EXCEPT !.pending = @ \o u.held, !.held = <<>>]
<1>1. u.pending \o u.held \in Chunks /\ <<>> \in Chunks
  BY ConcatProperties, EmptySeq DEF Hooks, Chunks
<1>2. /\ w \in Hooks /\ w.pending = u.pending \o u.held /\ w.held = <<>>
      /\ w.isRequesting = u.isRequesting /\ SameSource(u, w) /\ SameRequest(u, w)
      /\ w.messages = u.messages /\ w.saveTimer = u.saveTimer
  BY <1>1 DEF Hooks, SameSource, SameRequest
<1> DEFINE v == FlushStreamUpdates(w)
<1>3. EndContent(u) = v
  BY DEF EndContent
<1> HIDE DEF w
<1>4. /\ v \in Hooks /\ v.pending = <<>> /\ ~v.flushTimer /\ v.held = w.held
      /\ v.isRequesting = w.isRequesting /\ SameSource(w, v) /\ SameRequest(w, v)
      /\ v.messages = IF w.pending = <<>> THEN w.messages ELSE Flushed(w.messages, w.pending)
      /\ Saves(w, v)
  BY <1>2, FlushIs
<1> HIDE DEF v
<1>5. SameSource(u, v) /\ SameRequest(u, v) /\ Saves(u, v)
  BY <1>2, <1>4 DEF SameSource, SameRequest, Saves
<1> QED BY <1>2, <1>3, <1>4, <1>5

(* The last message takes in all that waits, unless it is an error. *)
LEMMA EndContentLast ==
    ASSUME NEW u \in Hooks, u.messages # <<>>, Last(u.messages).from = "assistant"
    PROVE  \E m \in Message :
             /\ EndContent(u).messages = WithLast(u.messages, m)
             /\ m.key = Last(u.messages).key /\ m.from = "assistant"
             /\ m.status = "error" <=> Last(u.messages).status = "error"
             /\ m.status # "error" => m.text = Last(u.messages).text \o (u.pending \o u.held)
<1> DEFINE all == u.pending \o u.held
           ms == u.messages
           old == Last(ms)
<1>1. all \in Chunks /\ ms \in Seq(Message)
  BY ConcatProperties DEF Hooks, Chunks
<1>2. old \in Message /\ ms = WithLast(ms, old)
  BY <1>1, LastIs, WithLastTwice
<1>3. EndContent(u).messages = IF all = <<>> THEN ms ELSE Flushed(ms, all)
  BY EndContentIs
<1>4. CASE all = <<>>
  <2>1. old.text \o all = old.text
    BY <1>2, <1>4, ConcatEmptySeq DEF Message, Chunks
  <2> QED BY <1>2, <1>3, <1>4, <2>1
<1>5. CASE all # <<>> /\ old.status = "error"
  BY <1>2, <1>3, <1>5 DEF Flushed
<1>6. CASE all # <<>> /\ old.status # "error"
  <2> DEFINE m == [old EXCEPT !.text = @ \o all, !.status = "streaming"]
  <2>1. m \in Message /\ m.key = old.key /\ m.from = old.from /\ m.text = old.text \o all
        /\ m.status = "streaming"
    BY <1>1, <1>2, ConcatProperties DEF Message, Chunks
  <2>2. Flushed(ms, all) = WithLast(ms, m)
    BY <1>6 DEF Flushed
  <2> QED BY <1>3, <1>6, <2>1, <2>2
<1> QED BY <1>4, <1>5, <1>6

SameChat(u, v) ==
  /\ v.messages = u.messages /\ v.pending = u.pending /\ v.held = u.held
  /\ v.flushTimer = u.flushTimer /\ v.saveTimer = u.saveTimer
  /\ v.isRequesting = u.isRequesting /\ v.isStreamComplete = u.isStreamComplete

LEMMA CloseIs ==
    ASSUME NEW u \in Hooks, NEW s
    PROVE  LET v == CloseActiveStream(u, s) IN
           /\ v \in Hooks /\ SameChat(u, v) /\ SameRequest(u, v)
           /\ v.open = u.open \ {s}
           /\ u.sseSource = s => v.sseSource = NoRequest /\ ~v.isStreaming
           /\ u.sseSource # s => v.sseSource = u.sseSource /\ v.isStreaming = u.isStreaming
BY DEF CloseActiveStream, Hooks, SameChat, SameRequest, NoRequest

(* What becomes of the last message of an answer that ends. *)
CompletedLast(m) == IF IsFinal(m) THEN m ELSE [m EXCEPT !.status = "complete"]
FailedLast(m) == [m EXCEPT !.text = <<Error>>, !.status = "error"]
StoppedLast(m) == IF IsPending(m) THEN [m EXCEPT !.status = "complete"] ELSE m

LEMMA EndsAre ==
    ASSUME NEW m \in Message
    PROVE  /\ CompletedLast(m) \in Message /\ FailedLast(m) \in Message
           /\ StoppedLast(m) \in Message
           /\ CompletedLast(m).key = m.key /\ CompletedLast(m).from = m.from
           /\ CompletedLast(m).text = m.text /\ ~IsPending(CompletedLast(m))
           /\ CompletedLast(m).status = "error" <=> m.status = "error"
           /\ FailedLast(m).key = m.key /\ FailedLast(m).from = m.from
           /\ FailedLast(m).status = "error"
           /\ StoppedLast(m).key = m.key /\ StoppedLast(m).from = m.from
           /\ StoppedLast(m).text = m.text /\ ~IsPending(StoppedLast(m))
           /\ StoppedLast(m).status = "error" <=> m.status = "error"
<1>1. <<Error>> \in Chunks
  BY DEF Chunks, Error, NoRequest
<1> QED BY <1>1 DEF CompletedLast, FailedLast, StoppedLast, IsFinal, IsPending, Message

LEMMA UpdatesLast ==
    ASSUME NEW ms \in Seq(Message), ms # <<>>, Last(ms).from = "assistant"
    PROVE  /\ UpdateLastAssistantMessage(ms, LAMBDA m : IF IsFinal(m) THEN m
                                                        ELSE CompleteAssistantMessage(m))
                = WithLast(ms, CompletedLast(Last(ms)))
           /\ UpdateAssistantMessageWithError(ms) = WithLast(ms, FailedLast(Last(ms)))
           /\ UpdateLastAssistantMessage(ms, LAMBDA m : IF IsPending(m)
                                                        THEN CompleteAssistantMessage(m) ELSE m)
                = WithLast(ms, StoppedLast(Last(ms)))
BY DEF UpdateLastAssistantMessage, UpdateAssistantMessageWithError, WithLast, CompletedLast,
       FailedLast, StoppedLast, CompleteAssistantMessage, Last

LEMMA UpdatesNone ==
    ASSUME NEW ms, ms = <<>> \/ Last(ms).from # "assistant"
    PROVE  /\ UpdateLastAssistantMessage(ms, LAMBDA m : IF IsFinal(m) THEN m
                                                        ELSE CompleteAssistantMessage(m)) = ms
           /\ UpdateAssistantMessageWithError(ms) = ms
           /\ UpdateLastAssistantMessage(ms, LAMBDA m : IF IsPending(m)
                                                        THEN CompleteAssistantMessage(m) ELSE m)
                = ms
BY DEF UpdateLastAssistantMessage, UpdateAssistantMessageWithError

HasAnswer(ms) == ms # <<>> /\ Last(ms).from = "assistant"

(* The answer ends: the last message m takes in what waits, and nothing is *)
(* pending any more.                                                       *)
EndsWith(u, v, m) ==
  /\ v.messages = WithLast(u.messages, m)
  /\ m.key = Last(u.messages).key /\ m.from = "assistant" /\ ~IsPending(m)
  /\ m.status # "error" =>
       /\ Last(u.messages).status # "error"
       /\ m.text = Last(u.messages).text \o (u.pending \o u.held)

Idles(u, v) ==
  /\ v \in Hooks /\ v.pending = <<>> /\ v.held = <<>> /\ ~v.flushTimer
  /\ ~v.isRequesting /\ v.saveTimer
  /\ ~HasAnswer(u.messages) => v.messages = u.messages

LEMMA EndContentNone ==
    ASSUME NEW u \in Hooks, ~HasAnswer(u.messages)
    PROVE  EndContent(u).messages = u.messages
BY EndContentIs DEF Flushed, HasAnswer

LEMMA CompleteIs ==
    ASSUME NEW u \in Hooks
    PROVE  LET v == HandleStreamComplete(u) IN
           /\ Idles(u, v) /\ SameSource(u, v) /\ SameRequest(u, v)
           /\ HasAnswer(u.messages) => \E m \in Message : EndsWith(u, v, m)
<1> DEFINE w == EndContent(u)
           x == [w EXCEPT !.isRequesting = FALSE]
           ns == UpdateLastAssistantMessage(w.messages,
                     LAMBDA m : IF IsFinal(m) THEN m ELSE CompleteAssistantMessage(m))
           v == UpdateMessages(x, ns)
<1>1. HandleStreamComplete(u) = v
  BY DEF HandleStreamComplete
<1>2. /\ w \in Hooks /\ w.pending = <<>> /\ ~w.flushTimer /\ w.held = <<>>
      /\ SameSource(u, w) /\ SameRequest(u, w)
  BY EndContentIs
<1>3. w.messages \in Seq(Message)
  BY <1>2 DEF Hooks
<1>4. /\ x \in Hooks /\ x.pending = <<>> /\ ~x.flushTimer /\ x.held = <<>>
      /\ ~x.isRequesting /\ SameSource(u, x) /\ SameRequest(u, x)
  <2> HIDE DEF w
  <2> QED BY <1>2 DEF Hooks, SameSource, SameRequest
<1>5. ns \in Seq(Message) /\ (~HasAnswer(u.messages) => ns = u.messages)
      /\ (HasAnswer(u.messages) => \E m \in Message :
            ns = WithLast(u.messages, m)
            /\ m.key = Last(u.messages).key /\ m.from = "assistant" /\ ~IsPending(m)
            /\ (m.status # "error" =>
                  /\ Last(u.messages).status # "error"
                  /\ m.text = Last(u.messages).text \o (u.pending \o u.held)))
  <2>1. CASE ~HasAnswer(u.messages)
    <3>1. w.messages = u.messages
      BY <2>1, EndContentNone
    <3> HIDE DEF w
    <3>2. ns = w.messages
      BY <2>1, <3>1, UpdatesNone DEF HasAnswer
    <3> HIDE DEF ns
    <3> QED BY <1>3, <2>1, <3>1, <3>2
  <2>2. CASE HasAnswer(u.messages)
    <3>1. u.messages # <<>> /\ Last(u.messages).from = "assistant"
          /\ u.messages \in Seq(Message)
      BY <2>2 DEF HasAnswer, Hooks
    <3>2. PICK a \in Message :
            /\ w.messages = WithLast(u.messages, a)
            /\ a.key = Last(u.messages).key /\ a.from = "assistant"
            /\ a.status = "error" <=> Last(u.messages).status = "error"
            /\ a.status # "error" => a.text = Last(u.messages).text \o (u.pending \o u.held)
      BY <3>1, EndContentLast
    <3> HIDE DEF w
    <3>3. w.messages # <<>> /\ Last(w.messages) = a
      BY <3>1, <3>2, WithLastIs
    <3>4. ns = WithLast(w.messages, CompletedLast(a))
      BY <1>3, <3>2, <3>3, UpdatesLast
    <3>5. CompletedLast(a) \in Message /\ CompletedLast(a).key = a.key
          /\ CompletedLast(a).from = a.from /\ CompletedLast(a).text = a.text
          /\ ~IsPending(CompletedLast(a))
          /\ (CompletedLast(a).status = "error" <=> a.status = "error")
      BY EndsAre
    <3>6. ns = WithLast(u.messages, CompletedLast(a)) /\ ns \in Seq(Message)
      BY <3>1, <3>2, <3>4, <3>5, WithLastTwice, WithLastIs
    <3> HIDE DEF ns
    <3> QED BY <2>2, <3>2, <3>5, <3>6
  <2> QED BY <2>1, <2>2
<1>6. /\ v \in Hooks /\ v.messages = ns /\ v.saveTimer
      /\ v.pending = x.pending /\ v.held = x.held /\ v.flushTimer = x.flushTimer
      /\ v.isRequesting = x.isRequesting /\ SameSource(x, v) /\ SameRequest(x, v)
  <2> HIDE DEF x, ns
  <2> QED BY <1>4, <1>5, UpdateIs
<1> HIDE DEF v, x, ns, w
<1> QED BY <1>1, <1>4, <1>5, <1>6 DEF Idles, SameSource, SameRequest, EndsWith

LEMMA ErrorIs ==
    ASSUME NEW u \in Hooks
    PROVE  LET v == HandleStreamError(u) IN
           /\ Idles(u, v) /\ SameSource(u, v) /\ SameRequest(u, v)
           /\ HasAnswer(u.messages) =>
                \E m \in Message : EndsWith(u, v, m) /\ m.status = "error"
<1> DEFINE w == EndContent(u)
           x == [w EXCEPT !.isRequesting = FALSE]
           ns == UpdateAssistantMessageWithError(w.messages)
           v == UpdateMessages(x, ns)
<1>1. HandleStreamError(u) = v
  BY DEF HandleStreamError
<1>2. /\ w \in Hooks /\ w.pending = <<>> /\ ~w.flushTimer /\ w.held = <<>>
      /\ SameSource(u, w) /\ SameRequest(u, w)
  BY EndContentIs
<1>3. w.messages \in Seq(Message)
  BY <1>2 DEF Hooks
<1>4. /\ x \in Hooks /\ x.pending = <<>> /\ ~x.flushTimer /\ x.held = <<>>
      /\ ~x.isRequesting /\ SameSource(u, x) /\ SameRequest(u, x)
  <2> HIDE DEF w
  <2> QED BY <1>2 DEF Hooks, SameSource, SameRequest
<1>5. ns \in Seq(Message) /\ (~HasAnswer(u.messages) => ns = u.messages)
      /\ (HasAnswer(u.messages) => \E m \in Message :
            ns = WithLast(u.messages, m)
            /\ m.key = Last(u.messages).key /\ m.from = "assistant" /\ m.status = "error")
  <2>1. CASE ~HasAnswer(u.messages)
    <3>1. w.messages = u.messages
      BY <2>1, EndContentNone
    <3> HIDE DEF w
    <3>2. ns = w.messages
      BY <2>1, <3>1, UpdatesNone DEF HasAnswer
    <3> HIDE DEF ns
    <3> QED BY <1>3, <2>1, <3>1, <3>2
  <2>2. CASE HasAnswer(u.messages)
    <3>1. u.messages # <<>> /\ Last(u.messages).from = "assistant"
          /\ u.messages \in Seq(Message)
      BY <2>2 DEF HasAnswer, Hooks
    <3>2. PICK a \in Message :
            /\ w.messages = WithLast(u.messages, a)
            /\ a.key = Last(u.messages).key /\ a.from = "assistant"
      BY <3>1, EndContentLast
    <3> HIDE DEF w
    <3>3. w.messages # <<>> /\ Last(w.messages) = a
      BY <3>1, <3>2, WithLastIs
    <3>4. ns = WithLast(w.messages, FailedLast(a))
      BY <1>3, <3>2, <3>3, UpdatesLast
    <3>5. FailedLast(a) \in Message /\ FailedLast(a).key = a.key
          /\ FailedLast(a).from = a.from /\ FailedLast(a).status = "error"
      BY EndsAre
    <3>6. ns = WithLast(u.messages, FailedLast(a)) /\ ns \in Seq(Message)
      BY <3>1, <3>2, <3>4, <3>5, WithLastTwice, WithLastIs
    <3> HIDE DEF ns
    <3> QED BY <2>2, <3>2, <3>5, <3>6
  <2> QED BY <2>1, <2>2
<1>6. /\ v \in Hooks /\ v.messages = ns /\ v.saveTimer
      /\ v.pending = x.pending /\ v.held = x.held /\ v.flushTimer = x.flushTimer
      /\ v.isRequesting = x.isRequesting /\ SameSource(x, v) /\ SameRequest(x, v)
  <2> HIDE DEF x, ns
  <2> QED BY <1>4, <1>5, UpdateIs
<1> HIDE DEF v, x, ns, w
<1> QED BY <1>1, <1>4, <1>5, <1>6 DEF Idles, SameSource, SameRequest, EndsWith, IsPending

LEMMA StopIs ==
    ASSUME NEW u \in Hooks
    PROVE  LET v == StopGeneration(u) IN
           /\ Idles(u, v) /\ v.requestId = u.requestId /\ v.abortController = NoRequest
           /\ v.sseSource = NoRequest /\ ~v.isStreaming
           /\ v.open = IF u.sseSource = NoRequest THEN u.open ELSE u.open \ {u.sseSource}
           /\ HasAnswer(u.messages) => \E m \in Message : EndsWith(u, v, m)
<1> DEFINE c == IF u.sseSource = NoRequest THEN [u EXCEPT !.isStreaming = FALSE]
                ELSE CloseActiveStream(u, u.sseSource)
           w == EndContent(c)
           x == [w EXCEPT !.abortController = NoRequest, !.isRequesting = FALSE]
           ns == UpdateLastAssistantMessage(w.messages,
                     LAMBDA m : IF IsPending(m) THEN CompleteAssistantMessage(m) ELSE m)
           v == UpdateMessages(x, ns)
<1>1. StopGeneration(u) = v
  BY DEF StopGeneration
<1>2. /\ c \in Hooks /\ c.messages = u.messages /\ c.pending = u.pending /\ c.held = u.held
      /\ c.requestId = u.requestId /\ c.sseSource = NoRequest /\ ~c.isStreaming
      /\ c.open = IF u.sseSource = NoRequest THEN u.open ELSE u.open \ {u.sseSource}
  <2>1. CASE u.sseSource = NoRequest
    BY <2>1 DEF Hooks
  <2>2. CASE u.sseSource # NoRequest
    BY <2>2, CloseIs DEF SameChat, SameRequest
  <2> QED BY <2>1, <2>2
<1> HIDE DEF c
<1>3. /\ w \in Hooks /\ w.pending = <<>> /\ ~w.flushTimer /\ w.held = <<>>
      /\ SameSource(c, w) /\ SameRequest(c, w)
  BY <1>2, EndContentIs
<1>4. w.messages \in Seq(Message)
  BY <1>3 DEF Hooks
<1>5. /\ x \in Hooks /\ x.pending = <<>> /\ ~x.flushTimer /\ x.held = <<>>
      /\ ~x.isRequesting /\ SameSource(c, x) /\ x.requestId = u.requestId
      /\ x.abortController = NoRequest
  <2> HIDE DEF w
  <2> QED BY <1>2, <1>3 DEF Hooks, SameSource, SameRequest, NoRequest
<1>6. ns \in Seq(Message) /\ (~HasAnswer(u.messages) => ns = u.messages)
      /\ (HasAnswer(u.messages) => \E m \in Message :
            ns = WithLast(u.messages, m)
            /\ m.key = Last(u.messages).key /\ m.from = "assistant" /\ ~IsPending(m)
            /\ (m.status # "error" =>
                  /\ Last(u.messages).status # "error"
                  /\ m.text = Last(u.messages).text \o (u.pending \o u.held)))
  <2>1. CASE ~HasAnswer(u.messages)
    <3>1. w.messages = u.messages
      BY <1>2, <2>1, EndContentNone
    <3> HIDE DEF w
    <3>2. ns = w.messages
      BY <2>1, <3>1, UpdatesNone DEF HasAnswer
    <3> HIDE DEF ns
    <3> QED BY <1>4, <2>1, <3>1, <3>2
  <2>2. CASE HasAnswer(u.messages)
    <3>1. u.messages # <<>> /\ Last(u.messages).from = "assistant"
          /\ u.messages \in Seq(Message)
      BY <2>2 DEF HasAnswer, Hooks
    <3>2. PICK a \in Message :
            /\ w.messages = WithLast(c.messages, a)
            /\ a.key = Last(c.messages).key /\ a.from = "assistant"
            /\ a.status = "error" <=> Last(c.messages).status = "error"
            /\ a.status # "error" => a.text = Last(c.messages).text \o (c.pending \o c.held)
      BY <1>2, <3>1, EndContentLast
    <3> HIDE DEF w
    <3>3. w.messages # <<>> /\ Last(w.messages) = a
      BY <1>2, <3>1, <3>2, WithLastIs
    <3>4. ns = WithLast(w.messages, StoppedLast(a))
      BY <1>4, <3>2, <3>3, UpdatesLast
    <3>5. StoppedLast(a) \in Message /\ StoppedLast(a).key = a.key
          /\ StoppedLast(a).from = a.from /\ StoppedLast(a).text = a.text
          /\ ~IsPending(StoppedLast(a))
          /\ (StoppedLast(a).status = "error" <=> a.status = "error")
      BY EndsAre
    <3>6. ns = WithLast(u.messages, StoppedLast(a)) /\ ns \in Seq(Message)
      BY <1>2, <3>1, <3>2, <3>4, <3>5, WithLastTwice, WithLastIs
    <3> HIDE DEF ns
    <3> QED BY <1>2, <2>2, <3>2, <3>5, <3>6
  <2> QED BY <2>1, <2>2
<1>7. /\ v \in Hooks /\ v.messages = ns /\ v.saveTimer
      /\ v.pending = x.pending /\ v.held = x.held /\ v.flushTimer = x.flushTimer
      /\ v.isRequesting = x.isRequesting /\ SameSource(x, v) /\ SameRequest(x, v)
  <2> HIDE DEF x, ns
  <2> QED BY <1>5, <1>6, UpdateIs
<1> HIDE DEF v, x, ns, w
<1> QED BY <1>1, <1>2, <1>5, <1>6, <1>7 DEF Idles, SameSource, SameRequest, EndsWith

LEMMA ChunksAssociate ==
    ASSUME NEW a \in Chunks, NEW b \in Chunks, NEW c \in Chunks
    PROVE  a \o (b \o c) = (a \o b) \o c
<1> DEFINE S == Nat \X Nat
<1>1. a \in Seq(S) /\ b \in Seq(S) /\ c \in Seq(S)
  BY DEF Chunks
<1> HIDE DEF S
<1> QED BY SMTT(60), <1>1, ConcatAssociative

LEMMA ArrivalIs ==
    ASSUME NEW u \in Hooks, NEW chunk \in Nat \X Nat, NEW hold
    PROVE  LET v == HandleStreamUpdate(u, chunk, hold) IN
           /\ v \in Hooks /\ v.messages = u.messages /\ v.saveTimer = u.saveTimer
           /\ v.flushTimer /\ v.isRequesting = u.isRequesting
           /\ SameSource(u, v) /\ SameRequest(u, v)
           /\ v.pending \o v.held = (u.pending \o u.held) \o <<chunk>>
<1> DEFINE p == u.pending
           h == u.held
<1>1. p \in Chunks /\ h \in Chunks /\ <<chunk>> \in Chunks /\ <<>> \in Chunks
  BY DEF Hooks, Chunks
<1>2. Append(h, chunk) = h \o <<chunk>> /\ Append(h, chunk) \in Chunks
  BY <1>1, AppendIsConcat, AppendProperties DEF Chunks
<1>3. p \o (h \o <<chunk>>) = (p \o h) \o <<chunk>>
  BY <1>1, ChunksAssociate
<1>4. p \o Append(h, chunk) \in Chunks
  BY <1>1, <1>2, ConcatProperties DEF Chunks
<1>5. CASE hold
  <2> DEFINE v == [u EXCEPT !.held = Append(@, chunk), !.flushTimer = TRUE]
  <2>1. HandleStreamUpdate(u, chunk, hold) = v
    BY <1>5 DEF HandleStreamUpdate
  <2>2. /\ v \in Hooks /\ v.messages = u.messages /\ v.saveTimer = u.saveTimer
        /\ v.flushTimer /\ v.isRequesting = u.isRequesting
        /\ SameSource(u, v) /\ SameRequest(u, v)
        /\ v.pending = p /\ v.held = Append(h, chunk)
    BY <1>2 DEF Hooks, SameSource, SameRequest
  <2> HIDE DEF v
  <2> QED BY <1>2, <1>3, <2>1, <2>2
<1>6. CASE ~hold
  <2> DEFINE v == [u EXCEPT !.pending = @ \o Append(u.held, chunk), !.held = <<>>,
                            !.flushTimer = TRUE]
  <2>1. HandleStreamUpdate(u, chunk, hold) = v
    BY <1>6 DEF HandleStreamUpdate
  <2>2. /\ v \in Hooks /\ v.messages = u.messages /\ v.saveTimer = u.saveTimer
        /\ v.flushTimer /\ v.isRequesting = u.isRequesting
        /\ SameSource(u, v) /\ SameRequest(u, v)
        /\ v.pending = p \o Append(h, chunk) /\ v.held = <<>>
    BY <1>1, <1>4 DEF Hooks, SameSource, SameRequest
  <2>3. (p \o Append(h, chunk)) \o <<>> = p \o Append(h, chunk)
    BY <1>4, ConcatEmptySeq DEF Chunks
  <2> HIDE DEF v
  <2> QED BY <1>2, <1>3, <2>1, <2>2, <2>3
<1> QED BY <1>5, <1>6

-----------------------------------------------------------------------------
(* What the handlers do to a stream.                                        *)

LEMMA DispatchedNext ==
    ASSUME NEW r \in Nat, NEW n \in Nat
    PROVE  /\ Dispatched(r, n) \in Chunks
           /\ Dispatched(r, n) \o <<<<r, n + 1>>>> = Dispatched(r, n + 1)
<1> DEFINE S == Nat \X Nat
           d == Dispatched(r, n)
           q == <<<<r, n + 1>>>>
           t == Dispatched(r, n + 1)
<1>1. d \in [1 .. n -> S] /\ t \in [1 .. n + 1 -> S]
  BY DEF Dispatched
<1>2. d \in Seq(S) /\ Len(d) = n /\ t \in Seq(S) /\ Len(t) = n + 1
  <2> HIDE DEF d, t, S
  <2> QED BY <1>1
<1>3. q \in Seq(S) /\ Len(q) = 1 /\ q[1] = <<r, n + 1>>
  BY DEF S
<1>4. /\ \A i \in 1 .. n : d[i] = <<r, i>>
      /\ \A i \in 1 .. n + 1 : t[i] = <<r, i>>
  BY DEF Dispatched
<1> HIDE DEF S, d, q, t
<1> DEFINE w == d \o q
<1>5. /\ w \in Seq(S) /\ Len(w) = Len(d) + Len(q)
      /\ \A i \in 1 .. Len(d) + Len(q) : w[i] = IF i <= Len(d) THEN d[i] ELSE q[i - Len(d)]
  BY <1>2, <1>3, ConcatProperties
<1> HIDE DEF w
<1>6. ASSUME NEW i \in 1 .. n + 1 PROVE w[i] = t[i]
  <2>1. w[i] = IF i <= n THEN d[i] ELSE q[i - n]
    BY <1>2, <1>3, <1>5
  <2>2. CASE i <= n
    BY <1>4, <2>1, <2>2
  <2>3. CASE i = n + 1
    <3>1. i - n = 1 /\ ~(i <= n)
      BY <2>3
    <3> QED BY <1>3, <1>4, <2>1, <2>3, <3>1
  <2> QED BY <2>2, <2>3
<1>7. w = t
  BY <1>2, <1>3, <1>5, <1>6, SeqEqual
<1> QED BY <1>2, <1>7 DEF S, d, q, t, w, Chunks

(* The message of the stream is no other than the last. *)
LEMMA OthersElsewhere ==
    ASSUME NEW u, NEW n, NEW c, NEW o, NEW e, Streaming(u, n, c, o, e),
           NEW i \in 1 .. Len(u.messages), u.messages[i].from = "assistant"
    PROVE  /\ u.messages[i].key = <<"assistant", u.messages[i].key[2]>>
           /\ u.messages[i].key[2] \in Requests
           /\ u.messages[i].key[2] \in Nat /\ u.messages[i].key[2] # NoRequest
           /\ i # Len(u.messages) => u.messages[i].key[2] # u.sseSource
<1>1. u.messages[i] \in Message
  BY ElementOfSeq DEF Streaming, ListOf
<1>2. u.messages[i].key = <<"assistant", u.messages[i].key[2]>>
      /\ u.messages[i].key[2] \in 1 .. n
  BY <1>1 DEF Streaming, ListOf, Message
<1>3. ASSUME i # Len(u.messages), u.messages[i].key[2] = u.sseSource PROVE FALSE
  <2>1. u.sseSource # NoRequest
    BY <1>2, <1>3 DEF NoRequest
  <2>2. u.messages # <<>> /\ Last(u.messages).key = <<"assistant", u.sseSource>>
    BY <2>1 DEF Streaming, StreamInv
  <2>3. Len(u.messages) \in 1 .. Len(u.messages) /\ Last(u.messages) = u.messages[Len(u.messages)]
    BY <2>2, LastIs DEF Streaming, ListOf
  <2> QED BY <1>2, <1>3, <2>2, <2>3 DEF Streaming, ListOf
<1>4. n \in Nat /\ n <= world.maxRequests /\ world.maxRequests \in Nat
  BY DEF Streaming
<1> QED BY <1>2, <1>3, <1>4 DEF NoRequest, Requests

(* The stream ends, or an answer that was an error goes on being one, or   *)
(* there is nothing to take in.                                            *)
LEMMA ClosesStream ==
    ASSUME NEW u, NEW n, NEW c, NEW o, NEW e, Streaming(u, n, c, o, e),
           HasAnswer(u.messages),
           \/ u.sseSource # NoRequest \/ Last(u.messages).status = "error"
           \/ u.pending = <<>> /\ u.held = <<>>,
           NEW v \in Hooks, NEW m \in Message, EndsWith(u, v, m),
           v.sseSource = NoRequest, v.open = {}, ~v.isStreaming, ~v.isRequesting,
           v.pending = <<>>
    PROVE  Streaming(v, n, c, o, e) /\ SameKeys(v.messages, u.messages)
<1> DEFINE ms == u.messages
<1>1. ms \in Seq(Message) /\ ms # <<>> /\ Last(ms).from = "assistant" /\ n \in Nat
      /\ ListOf(ms, n)
  BY DEF Streaming, HasAnswer, ListOf
<1>2. Len(ms) \in 1 .. Len(ms) /\ Last(ms) = ms[Len(ms)]
  BY <1>1, LastIs
<1>3. v.messages = WithLast(ms, m) /\ m.key = Last(ms).key /\ m.from = "assistant"
      /\ ~IsPending(m)
  BY DEF EndsWith
<1>4. /\ Len(v.messages) = Len(ms)
      /\ \A i \in 1 .. Len(ms) : v.messages[i] = IF i = Len(ms) THEN m ELSE ms[i]
  <2> DEFINE w == WithLast(ms, m)
  <2>1. /\ Len(w) = Len(ms)
        /\ \A i \in 1 .. Len(ms) : w[i] = IF i = Len(ms) THEN m ELSE ms[i]
    BY <1>1, WithLastIs
  <2>2. v.messages = w
    BY <1>3
  <2> HIDE DEF w
  <2> QED BY <2>1, <2>2
<1>5. ListOf(v.messages, n) /\ SameKeys(v.messages, ms)
  BY <1>1, <1>3, LastChanges
<1>6. StreamInv(v, n)
  BY DEF StreamInv, Hooks
<1>7. PendingStreams(v, o)
  BY <1>3, <1>4 DEF PendingStreams, Streaming
<1>8. ExactIn(v, c, e)
  <2> SUFFICES ASSUME NEW i \in 1 .. Len(ms), v.messages[i].from = "assistant",
                      v.messages[i].key[2] \notin e, v.messages[i].status # "error"
               PROVE  /\ v.messages[i].text # <<Edited>> =>
                           v.messages[i].text
                             = Dispatched(v.messages[i].key[2], c[v.messages[i].key[2]])
                      /\ v.messages[i].key[2] # NoRequest
    BY <1>4 DEF ExactIn
  <2>1. CASE i # Len(ms)
    <3>1. v.messages[i] = ms[i]
      BY <1>4, <2>1
    <3>2. ms[i].key[2] # u.sseSource /\ ms[i].key[2] # NoRequest
      BY <2>1, <3>1, OthersElsewhere
    <3> QED BY <3>1, <3>2 DEF Streaming, ExactIn
  <2>2. CASE i = Len(ms)
    <3>1. v.messages[i] = m
      BY <1>4, <2>2
    <3>2. Last(ms).status # "error" /\ m.text = Last(ms).text \o (u.pending \o u.held)
      BY <3>1 DEF EndsWith
    <3>3. CASE u.sseSource # NoRequest
      <4>1. Last(ms).key = <<"assistant", u.sseSource>>
        BY <3>3 DEF Streaming, StreamInv
      <4>2. m.key[2] = u.sseSource /\ ms[i].key[2] = u.sseSource /\ ms[i] = Last(ms)
        BY <1>2, <1>3, <2>2, <4>1
      <4>3. ms[i].text \o (u.pending \o u.held) = Dispatched(u.sseSource, c[u.sseSource])
        BY <1>1, <3>1, <3>2, <4>2 DEF Streaming, ExactIn
      <4> QED BY <3>1, <3>2, <3>3, <4>2, <4>3
    <3>4. CASE u.sseSource = NoRequest
      <4>1. u.pending \o u.held = <<>> /\ ms[i] = Last(ms) /\ Last(ms) \in Message
        BY <1>1, <1>2, <2>2, <3>2, <3>4, LastIs
      <4>2. m.text = Last(ms).text
        <5>1. Last(ms).text \in Chunks
          BY <4>1 DEF Message
        <5> QED BY <3>2, <4>1, <5>1, ConcatEmptySeq DEF Chunks
      <4>3. ms[i].key[2] # NoRequest /\ ms[i].from = "assistant"
        BY <1>1, <4>1, OthersElsewhere
      <4> QED BY <1>1, <1>3, <3>1, <3>2, <3>4, <4>1, <4>2, <4>3 DEF Streaming, ExactIn
    <3> QED BY <3>3, <3>4
  <2> QED BY <2>1, <2>2
<1> QED BY <1>5, <1>6, <1>7, <1>8 DEF Streaming

LEMMA FlushStreams ==
    ASSUME NEW u, NEW n, NEW c, NEW o, NEW e, Streaming(u, n, c, o, e)
    PROVE  /\ Streaming(FlushStreamUpdates(u), n, c, o, e)
           /\ SameKeys(FlushStreamUpdates(u).messages, u.messages)
           /\ u.sseSource = NoRequest => FlushStreamUpdates(u).messages = u.messages
<1> DEFINE v == FlushStreamUpdates(u)
           ms == u.messages
<1>1. /\ v \in Hooks /\ v.pending = <<>> /\ v.held = u.held
      /\ v.isRequesting = u.isRequesting /\ SameSource(u, v)
      /\ v.messages = IF u.pending = <<>> THEN ms ELSE Flushed(ms, u.pending)
  BY FlushIs DEF Streaming
<1> HIDE DEF v
<1>2. ms \in Seq(Message) /\ n \in Nat /\ ListOf(ms, n) /\ u \in Hooks
  BY DEF Streaming, ListOf
<1>3. u.pending \in Chunks /\ u.held \in Chunks /\ <<>> \o u.held = u.held
  BY <1>2, ConcatEmptySeq DEF Hooks, Chunks
<1>4. CASE v.messages = ms /\ (u.pending = <<>> \/ (ms # <<>> /\ Last(ms).status = "error"))
  <2>1. StreamInv(v, n)
    BY <1>1, <1>4 DEF StreamInv, Streaming, SameSource
  <2>2. PendingStreams(v, o)
    BY <1>1, <1>4 DEF PendingStreams, Streaming, SameSource
  <2>3. ExactIn(v, c, e)
    <3>1. CASE u.pending = <<>>
      BY <1>1, <1>4, <3>1 DEF ExactIn, Streaming, SameSource
    <3>2. CASE ms # <<>> /\ Last(ms).status = "error"
      <4> SUFFICES ASSUME NEW i \in 1 .. Len(ms), ms[i].from = "assistant",
                          ms[i].key[2] \notin e, ms[i].status # "error"
                   PROVE  /\ ms[i].key[2] # u.sseSource
                          /\ ms[i].text # <<Edited>> =>
                                ms[i].text = Dispatched(ms[i].key[2], c[ms[i].key[2]])
        BY <1>1, <1>4 DEF ExactIn, SameSource
      <4>1. i # Len(ms)
        BY <3>2 DEF Last
      <4> QED BY <4>1, OthersElsewhere DEF Streaming, ExactIn
    <3> QED BY <1>4, <3>1, <3>2
  <2> QED BY <1>1, <1>2, <1>4, <2>1, <2>2, <2>3 DEF Streaming, SameKeys, v
<1>5. CASE ~(v.messages = ms /\ (u.pending = <<>> \/ (ms # <<>> /\ Last(ms).status = "error")))
  <2>1. u.pending # <<>>
    BY <1>1, <1>5
  <2>2. u.sseSource # NoRequest
    BY <1>1, <1>5, <2>1 DEF Streaming, StreamInv, Flushed
  <2>3. ms # <<>> /\ Last(ms).key = <<"assistant", u.sseSource>>
    BY <2>2 DEF Streaming, StreamInv
  <2>4. Len(ms) \in 1 .. Len(ms) /\ Last(ms) = ms[Len(ms)] /\ Last(ms) \in Message
    BY <1>2, <2>3, LastIs
  <2>5. Last(ms).from = "assistant"
    BY <1>2, <2>3, <2>4 DEF ListOf
  <2>6. Last(ms).status # "error"
    BY <1>1, <1>5, <2>1, <2>3 DEF Flushed
  <2> DEFINE m == [Last(ms) EXCEPT !.text = @ \o u.pending, !.status = "streaming"]
  <2>7. m \in Message /\ m.key = Last(ms).key /\ m.from = "assistant"
        /\ m.text = Last(ms).text \o u.pending /\ m.status = "streaming"
    BY <1>3, <2>4, <2>5, ConcatProperties DEF Message, Chunks
  <2>8. v.messages = WithLast(ms, m)
    BY <1>1, <2>1, <2>3, <2>5, <2>6 DEF Flushed
  <2> HIDE DEF m
  <2>9. /\ Len(v.messages) = Len(ms) /\ v.messages # <<>> /\ Last(v.messages) = m
        /\ \A i \in 1 .. Len(ms) : v.messages[i] = IF i = Len(ms) THEN m ELSE ms[i]
    <3> DEFINE w == WithLast(ms, m)
    <3>1. /\ Len(w) = Len(ms) /\ w # <<>> /\ Last(w) = m
          /\ \A i \in 1 .. Len(ms) : w[i] = IF i = Len(ms) THEN m ELSE ms[i]
      BY <1>2, <2>3, <2>7, WithLastIs
    <3>2. v.messages = w
      BY <2>8
    <3> HIDE DEF w
    <3> QED BY <3>1, <3>2
  <2>10. ListOf(v.messages, n) /\ SameKeys(v.messages, ms)
    BY <1>2, <2>3, <2>5, <2>7, <2>8, LastChanges
  <2>11. StreamInv(v, n)
    BY <1>1, <2>2, <2>3, <2>7, <2>9 DEF StreamInv, Streaming, SameSource
  <2>12. PendingStreams(v, o)
    BY <1>1, <2>2, <2>9 DEF PendingStreams, Streaming, SameSource
  <2>13. ExactIn(v, c, e)
    <3> SUFFICES ASSUME NEW i \in 1 .. Len(ms), v.messages[i].from = "assistant",
                        v.messages[i].key[2] \notin e, v.messages[i].status # "error"
                 PROVE  LET r == v.messages[i].key[2] IN
                        /\ r = u.sseSource =>
                             v.messages[i].text \o u.held = Dispatched(r, c[r])
                        /\ r # u.sseSource /\ v.messages[i].text # <<Edited>> =>
                             v.messages[i].text = Dispatched(r, c[r])
      BY ZenonT(60), <1>1, <1>3, <2>9 DEF ExactIn, SameSource
    <3>1. CASE i # Len(ms)
      <4>1. v.messages[i] = ms[i]
        BY <2>9, <3>1
      <4>2. ms[i].key[2] # u.sseSource
        BY <3>1, <4>1, OthersElsewhere
      <4> QED BY <4>1, <4>2 DEF Streaming, ExactIn
    <3>2. CASE i = Len(ms)
      <4>1. v.messages[i] = m /\ ms[i] = Last(ms) /\ m.key[2] = u.sseSource
        BY <2>3, <2>4, <2>7, <2>9, <3>2
      <4>2. ms[i].text \o (u.pending \o u.held) = Dispatched(u.sseSource, c[u.sseSource])
        BY <2>3, <2>5, <2>6, <2>7, <4>1 DEF Streaming, ExactIn
      <4>3. (ms[i].text \o u.pending) \o u.held = ms[i].text \o (u.pending \o u.held)
        <5>1. ms[i].text \in Chunks
          BY <2>4, <4>1 DEF Message
        <5> QED BY <1>3, <5>1, ChunksAssociate
      <4> QED BY <2>7, <4>1, <4>2, <4>3
    <3> QED BY <3>1, <3>2
  <2> QED BY <1>1, <2>2, <2>10, <2>11, <2>12, <2>13 DEF Streaming, v
<1> QED BY <1>4, <1>5
(* The source s dispatches: its message is the last one, and s is the      *)
(* source the hook holds, unless an error has closed it.                   *)
AtSource(u, s) ==
  /\ HasAnswer(u.messages) /\ Last(u.messages).key = <<"assistant", s>>
  /\ s \in Nat \ {0}
  /\ u.sseSource = s
     \/ (u.sseSource = NoRequest /\ world.afterClose /\ Last(u.messages).status = "error")

(* What is held back without a source was held back after an error. *)
LeftHeld(u) ==
  u.sseSource = NoRequest /\ u.held # <<>> =>
    HasAnswer(u.messages) /\ Last(u.messages).status = "error"

(* A step that is not the user's. *)
Background(u, v) ==
  /\ SameKeys(v.messages, u.messages) /\ Saves(u, v)
  /\ v.sseSource \in {NoRequest, u.sseSource}
  /\ v.requestId = u.requestId /\ v.abortController \in {NoRequest, u.abortController}

LEMMA BackgroundTwice ==
    ASSUME NEW u, NEW v, NEW w, Background(u, v), Background(v, w)
    PROVE  Background(u, w)
BY DEF Background, SameKeys, Saves

LEMMA DoneIs ==
    ASSUME NEW u, NEW n, NEW c, NEW o, NEW e, Streaming(u, n, c, o, e),
           NEW s, AtSource(u, s), NEW chunk
    PROVE  LET v == OnMessage(u, s, "done", chunk) IN
           Streaming(v, n, c, o, e) /\ Background(u, v) /\ LeftHeld(v)
<1> DEFINE a == [u EXCEPT !.isStreamComplete = TRUE]
           b == CloseActiveStream(a, s)
           v == HandleStreamComplete(b)
<1>1. OnMessage(u, s, "done", chunk) = v
  BY DEF OnMessage
<1>2. u \in Hooks /\ u.open \subseteq {u.sseSource} \ {NoRequest} /\ HasAnswer(u.messages)
      /\ u.sseSource \in {NoRequest, s} /\ s # NoRequest
      /\ (u.sseSource # NoRequest \/ Last(u.messages).status = "error")
  BY DEF Streaming, StreamInv, AtSource, NoRequest
<1>3. /\ a \in Hooks /\ a.messages = u.messages /\ a.pending = u.pending /\ a.held = u.held
      /\ a.sseSource = u.sseSource /\ a.open = u.open /\ a.isStreaming = u.isStreaming
      /\ SameRequest(u, a) /\ a.saveTimer = u.saveTimer
  BY <1>2 DEF Hooks, SameRequest
<1> HIDE DEF a
<1>4. /\ b \in Hooks /\ SameChat(a, b) /\ SameRequest(a, b) /\ b.open = a.open \ {s}
      /\ a.sseSource = s => b.sseSource = NoRequest /\ ~b.isStreaming
      /\ a.sseSource # s => b.sseSource = a.sseSource /\ b.isStreaming = a.isStreaming
  BY <1>3, CloseIs
<1> HIDE DEF b
<1>5. b.sseSource = NoRequest /\ b.open = {} /\ ~b.isStreaming
  BY <1>2, <1>3, <1>4 DEF Streaming, StreamInv
<1>6. /\ Idles(b, v) /\ SameSource(b, v) /\ SameRequest(b, v)
      /\ HasAnswer(b.messages) => \E m \in Message : EndsWith(b, v, m)
  BY <1>4, CompleteIs
<1> HIDE DEF v
<1>7. b.messages = u.messages /\ b.pending = u.pending /\ b.held = u.held
  BY <1>3, <1>4 DEF SameChat
<1>8. PICK m \in Message : EndsWith(u, v, m)
  BY <1>2, <1>6, <1>7 DEF EndsWith
<1>9. v \in Hooks /\ v.sseSource = NoRequest /\ v.open = {} /\ ~v.isStreaming /\ ~v.isRequesting
      /\ v.pending = <<>> /\ v.held = <<>> /\ v.saveTimer /\ SameRequest(u, v)
  BY <1>3, <1>4, <1>5, <1>6 DEF Idles, SameSource, SameRequest
<1>10. Streaming(v, n, c, o, e) /\ SameKeys(v.messages, u.messages)
  BY <1>2, <1>8, <1>9, ClosesStream
<1> QED BY <1>1, <1>9, <1>10 DEF Background, Saves, SameRequest, LeftHeld

LEMMA FailsStream ==
    ASSUME NEW u, NEW n, NEW c, NEW o, NEW e, Streaming(u, n, c, o, e),
           NEW s, AtSource(u, s)
    PROVE  LET v == CloseActiveStream(HandleStreamError(u), s) IN
           /\ Streaming(v, n, c, o, e) /\ Background(u, v) /\ LeftHeld(v)
           /\ v.sseSource = NoRequest /\ v.saveTimer
           /\ HasAnswer(v.messages) /\ Last(v.messages).key = <<"assistant", s>>
           /\ Last(v.messages).status = "error"
<1> DEFINE b == HandleStreamError(u)
           v == CloseActiveStream(b, s)
<1>2. u \in Hooks /\ u.open \subseteq {u.sseSource} \ {NoRequest} /\ HasAnswer(u.messages)
      /\ u.sseSource \in {NoRequest, s} /\ s # NoRequest
      /\ (u.sseSource # NoRequest \/ Last(u.messages).status = "error")
      /\ Last(u.messages).key = <<"assistant", s>>
  BY DEF Streaming, StreamInv, AtSource, NoRequest
<1>3. /\ Idles(u, b) /\ SameSource(u, b) /\ SameRequest(u, b)
      /\ \E m \in Message : EndsWith(u, b, m) /\ m.status = "error"
  BY <1>2, ErrorIs
<1> HIDE DEF b
<1>4. /\ v \in Hooks /\ SameChat(b, v) /\ SameRequest(b, v) /\ v.open = b.open \ {s}
      /\ b.sseSource = s => v.sseSource = NoRequest /\ ~v.isStreaming
      /\ b.sseSource # s => v.sseSource = b.sseSource /\ v.isStreaming = b.isStreaming
  BY <1>3, CloseIs DEF Idles
<1> HIDE DEF v
<1>5. PICK m \in Message : EndsWith(u, v, m) /\ m.status = "error"
  BY <1>3, <1>4 DEF EndsWith, SameChat
<1>6. v.sseSource = NoRequest /\ v.open = {} /\ ~v.isStreaming
  BY <1>2, <1>3, <1>4 DEF Streaming, StreamInv, SameSource
<1>7. v \in Hooks /\ ~v.isRequesting
      /\ v.pending = <<>> /\ v.held = <<>> /\ v.saveTimer /\ SameRequest(u, v)
  BY <1>3, <1>4 DEF Idles, SameChat, SameRequest
<1>8. Streaming(v, n, c, o, e) /\ SameKeys(v.messages, u.messages)
  BY <1>2, <1>5, <1>6, <1>7, ClosesStream
<1>9. HasAnswer(v.messages) /\ Last(v.messages) = m /\ m.key = <<"assistant", s>>
  <2>1. u.messages \in Seq(Message) /\ u.messages # <<>>
    BY <1>2 DEF Hooks, HasAnswer
  <2> DEFINE w == WithLast(u.messages, m)
  <2>2. w # <<>> /\ Last(w) = m
    BY <2>1, WithLastIs
  <2>3. v.messages = w
    BY <1>5 DEF EndsWith
  <2> HIDE DEF w
  <2> QED BY <1>2, <1>5, <2>2, <2>3 DEF HasAnswer, EndsWith
<1> QED BY <1>5, <1>6, <1>7, <1>8, <1>9 DEF Background, Saves, SameRequest, LeftHeld, v, b

LEMMA ErrorStreams ==
    ASSUME NEW u, NEW n, NEW c, NEW o, NEW e, Streaming(u, n, c, o, e),
           NEW s, AtSource(u, s), LeftHeld(u)
    PROVE  LET v == HandleError(u, s) IN
           Streaming(v, n, c, o, e) /\ Background(u, v) /\ LeftHeld(v)
           /\ (world.afterClose => AtSource(v, s))
<1>1. CASE u.isStreamComplete
  <2>1. HandleError(u, s) = u
    BY <1>1 DEF HandleError
  <2>2. Background(u, u)
    BY DEF Background, SameKeys, Saves, Streaming, Hooks
  <2> QED BY <2>1, <2>2
<1>2. CASE ~u.isStreamComplete
  <2> DEFINE v == CloseActiveStream(HandleStreamError(u), s)
  <2>1. HandleError(u, s) = v
    BY <1>2 DEF HandleError
  <2>2. /\ Streaming(v, n, c, o, e) /\ Background(u, v) /\ LeftHeld(v)
        /\ v.sseSource = NoRequest
        /\ HasAnswer(v.messages) /\ Last(v.messages).key = <<"assistant", s>>
        /\ Last(v.messages).status = "error"
    BY FailsStream
  <2> HIDE DEF v
  <2> QED BY <2>1, <2>2 DEF AtSource
<1> QED BY <1>1, <1>2 DEF Streaming, Hooks

LEMMA ChunkStreams ==
    ASSUME NEW u, NEW n, NEW c, NEW o, NEW e, Streaming(u, n, c, o, e),
           NEW s, AtSource(u, s), NEW hold
    PROVE  LET v == HandleStreamUpdate(u, <<s, c[s] + 1>>, hold)
               d == [c EXCEPT ![s] = c[s] + 1]
           IN  Streaming(v, n, d, o, e) /\ Background(u, v) /\ LeftHeld(v) /\ AtSource(v, s)
<1> DEFINE v == HandleStreamUpdate(u, <<s, c[s] + 1>>, hold)
           d == [c EXCEPT ![s] = c[s] + 1]
           ms == u.messages
<1>1. u \in Hooks /\ ms \in Seq(Message) /\ c \in [Requests -> Nat] /\ s \in Nat \ {0}
      /\ HasAnswer(ms) /\ Last(ms).key = <<"assistant", s>> /\ u.sseSource \in {NoRequest, s}
      /\ s # NoRequest
  BY DEF Streaming, ListOf, AtSource, NoRequest
<1>2. Len(ms) \in 1 .. Len(ms) /\ Last(ms) = ms[Len(ms)]
  BY <1>1, LastIs DEF HasAnswer
<1>3. s \in Requests
  <2>1. ms[Len(ms)].from = "assistant" /\ ms[Len(ms)].key[2] = s
    BY <1>1, <1>2 DEF HasAnswer
  <2> QED BY <1>2, <2>1, OthersElsewhere
<1>4. c[s] \in Nat /\ <<s, c[s] + 1>> \in Nat \X Nat
  BY <1>1, <1>3
<1>5. /\ v \in Hooks /\ v.messages = ms /\ v.saveTimer = u.saveTimer
      /\ v.flushTimer /\ v.isRequesting = u.isRequesting
      /\ SameSource(u, v) /\ SameRequest(u, v)
      /\ v.pending \o v.held = (u.pending \o u.held) \o <<<<s, c[s] + 1>>>>
  BY ZenonT(60), <1>1, <1>4, ArrivalIs
<1> HIDE DEF v
<1>6. d \in [Requests -> Nat] /\ d[s] = c[s] + 1 /\ \A r \in Requests \ {s} : d[r] = c[r]
  BY <1>1, <1>3, <1>4
<1> HIDE DEF d
<1>7. StreamInv(v, n)
  BY <1>1, <1>5 DEF StreamInv, Streaming, SameSource, AtSource, HasAnswer
<1>8. PendingStreams(v, o)
  BY <1>5 DEF PendingStreams, Streaming, SameSource
<1>9. ExactIn(v, d, e)
  <2> SUFFICES ASSUME NEW i \in 1 .. Len(ms), ms[i].from = "assistant",
                      ms[i].key[2] \notin e, ms[i].status # "error"
               PROVE  LET r == ms[i].key[2] IN
                      /\ r = u.sseSource => ms[i].text \o (v.pending \o v.held)
                                              = Dispatched(r, d[r])
                      /\ r # u.sseSource /\ ms[i].text # <<Edited>> =>
                           ms[i].text = Dispatched(r, d[r])
    BY ZenonT(60), <1>5 DEF ExactIn, SameSource
  <2>1. ms[i].key = <<"assistant", ms[i].key[2]>> /\ ms[i].key[2] \in Requests
        /\ ms[i].key[2] # NoRequest
    BY OthersElsewhere
  <2>2. CASE ms[i].key[2] = s
    <3>1. i = Len(ms)
      BY <1>1, <1>2, <2>1, <2>2 DEF Streaming, ListOf
    <3>2. u.sseSource = s
      BY <1>2, <3>1 DEF AtSource
    <3>3. ms[i].text \o (u.pending \o u.held) = Dispatched(s, c[s])
      BY <2>2, <3>2 DEF Streaming, ExactIn
    <3>4. ms[i].text \in Chunks /\ (u.pending \o u.held) \in Chunks
          /\ <<<<s, c[s] + 1>>>> \in Chunks
      <4>1. ms[i] \in Message
        BY <1>1, ElementOfSeq
      <4>2. u.pending \o u.held \in Chunks
        BY <1>1, ConcatProperties DEF Hooks, Chunks
      <4> QED BY <1>4, <4>1, <4>2 DEF Message, Chunks
    <3> DEFINE p == u.pending \o u.held
               q == <<<<s, c[s] + 1>>>>
    <3>5. ms[i].text \o (p \o q) = (ms[i].text \o p) \o q
      <4> HIDE DEF p, q
      <4>1. p \in Chunks /\ q \in Chunks
        BY <3>4 DEF p, q
      <4> QED BY <3>4, <4>1, ChunksAssociate
    <3>6. Dispatched(s, c[s]) \o q = Dispatched(s, c[s] + 1)
      BY <1>1, <1>4, DispatchedNext
    <3> QED BY <1>5, <1>6, <2>2, <3>2, <3>3, <3>5, <3>6
  <2>3. CASE ms[i].key[2] # s
    <3>1. ms[i].key[2] # u.sseSource
      BY <1>1, <2>1, <2>3
    <3>2. d[ms[i].key[2]] = c[ms[i].key[2]]
      BY <1>6, <2>1, <2>3
    <3> QED BY <3>1, <3>2 DEF Streaming, ExactIn
  <2> QED BY <2>2, <2>3
<1>10. Background(u, v) /\ LeftHeld(v) /\ AtSource(v, s)
  <2>1. AtSource(v, s)
    BY <1>5 DEF AtSource, SameSource
  <2>2. LeftHeld(v)
    BY <1>1, <1>5, <2>1 DEF AtSource, LeftHeld
  <2>3. SameKeys(v.messages, ms) /\ Saves(u, v)
    BY <1>1, <1>5 DEF SameKeys, Saves, Hooks
  <2> QED BY <1>5, <2>1, <2>2, <2>3 DEF Background, SameSource, SameRequest
<1>11. ListOf(v.messages, n)
  BY <1>5 DEF Streaming
<1> QED BY <1>5, <1>6, <1>7, <1>8, <1>9, <1>10, <1>11 DEF Streaming, v, d

(* One message of the source. *)
LEMMA DispatchStreams ==
    ASSUME NEW u, NEW n, NEW c, NEW o, NEW e, Streaming(u, n, c, o, e),
           NEW s, AtSource(u, s), LeftHeld(u), NEW ev \in Events
    PROVE  LET d == Dispatch([u |-> u, n |-> c[s]], s, ev)
           IN  /\ Streaming(d.u, n, [c EXCEPT ![s] = d.n], o, e) /\ Background(u, d.u)
               /\ LeftHeld(d.u) /\ d.n \in {c[s], c[s] + 1}
               /\ ev # "done" /\ (world.afterClose \/ s \in d.u.open) => AtSource(d.u, s)
<1> DEFINE d == Dispatch([u |-> u, n |-> c[s]], s, ev)
<1>1. [c EXCEPT ![s] = c[s]] = c
  BY DEF Streaming
<1>2. Background(u, u)
  BY DEF Background, SameKeys, Saves, Streaming, Hooks
<1>3. CASE ~(s \in u.open \/ world.afterClose)
  <2>1. d = [u |-> u, n |-> c[s]]
    BY <1>3 DEF Dispatch
  <2> QED BY <1>1, <1>2, <1>3, <2>1
<1>4. CASE (s \in u.open \/ world.afterClose) /\ ev \in {"chunk", "hold"}
  <2> DEFINE v == HandleStreamUpdate(u, <<s, c[s] + 1>>, ev = "hold")
  <2>1. d = [u |-> v, n |-> c[s] + 1]
    BY <1>4 DEF Dispatch, OnMessage
  <2>2. Streaming(v, n, [c EXCEPT ![s] = c[s] + 1], o, e) /\ Background(u, v)
        /\ LeftHeld(v) /\ AtSource(v, s)
    BY ChunkStreams
  <2>3. d.u = v /\ d.n = c[s] + 1
    BY <2>1
  <2> HIDE DEF v
  <2> QED BY <2>2, <2>3
<1>5. CASE (s \in u.open \/ world.afterClose) /\ ev = "bad"
  <2> DEFINE v == HandleError(u, s)
  <2>1. d = [u |-> v, n |-> c[s]]
    BY <1>5 DEF Dispatch, OnMessage
  <2>2. Streaming(v, n, c, o, e) /\ Background(u, v) /\ LeftHeld(v)
        /\ (world.afterClose => AtSource(v, s))
    BY ErrorStreams
  <2>3. s \in v.open => AtSource(v, s)
    <3>1. ASSUME s \in v.open, ~world.afterClose PROVE v = u
      <4>1. v = u \/ v = CloseActiveStream(HandleStreamError(u), s)
        BY DEF HandleError
      <4>2. CloseActiveStream(HandleStreamError(u), s).sseSource = NoRequest
        BY FailsStream
      <4>3. v.open \subseteq {v.sseSource} \ {NoRequest}
        BY <2>2 DEF Streaming, StreamInv
      <4> HIDE DEF v
      <4> QED BY <3>1, <4>1, <4>2, <4>3
    <3> QED BY <2>2, <3>1
  <2> HIDE DEF v
  <2> QED BY <1>1, <2>1, <2>2, <2>3
<1>6. CASE (s \in u.open \/ world.afterClose) /\ ev = "done"
  <2> DEFINE v == OnMessage(u, s, "done", <<s, c[s]>>)
  <2>1. d = [u |-> v, n |-> c[s]]
    BY <1>6 DEF Dispatch
  <2>2. Streaming(v, n, c, o, e) /\ Background(u, v) /\ LeftHeld(v)
    BY DoneIs
  <2> HIDE DEF v
  <2> QED BY <1>1, <1>6, <2>1, <2>2
<1> QED BY <1>3, <1>4, <1>5, <1>6 DEF Events

-----------------------------------------------------------------------------
(* The inductive invariant.                                                 *)

(* Nothing is said of the text of a request whose message an edit has set  *)
(* back, nor of what a reload has cut or completed.                        *)
Exempt == IF reloads = 0 THEN overwritten ELSE Nat

(* Without streams a pending message is that of the newest request, which  *)
(* is awaited.                                                             *)
PendingRequested(u, awaited, over) ==
  over = {} => \A i \in 1 .. Len(u.messages) :
                 IsPending(u.messages[i]) =>
                   /\ i = Len(u.messages) /\ u.isRequesting
                   /\ u.messages[i].key[2] = u.requestId /\ u.requestId \in awaited

Requesting(u, n, awaited, over) ==
  /\ u \in Hooks /\ n \in Nat
  /\ ListOf(u.messages, n) /\ PlainInv(u) /\ PendingRequested(u, awaited, over)

ModeInv ==
  IF world.stream THEN requests = {} /\ Streaming(ui, last, sent, overwritten, Exempt)
  ELSE Requesting(ui, last, requests \ aborted, overwritten)

ChatTypes ==
  /\ world \in ChatSettings
  /\ last \in 0 .. world.maxRequests /\ reloads \in Nat
  /\ sent \in [Requests -> Nat]
  /\ \A r \in Requests : r > last => sent[r] = 0
  /\ requests \subseteq 1 .. last /\ aborted \subseteq 1 .. last
  /\ ui \in Hooks
  /\ ui.requestId \in 0 .. last /\ ui.abortController \in 0 .. last
  /\ rendered \in [messages : Seq(Message), isGenerating : BOOLEAN]
  /\ ListOf(rendered.messages, last) /\ ListOf(stored, last)
  /\ editing = NoKey \/ editing \in Froms \X (1 .. last)

(* What the event handlers were given is the state, or an older one of the *)
(* same messages from which it has gone on by itself.                      *)
RenderedInv ==
  /\ Generating(ui) => rendered.isGenerating
  /\ SameKeys(rendered.messages, ui.messages)
  /\ world.stream /\ ~rendered.isGenerating => rendered.messages = ui.messages
  /\ overwritten = {} =>
       \A i \in 1 .. Len(rendered.messages) :
         IsPending(rendered.messages[i]) => i = Len(rendered.messages) /\ rendered.isGenerating

(* The editor is not open on the message that streams. *)
EditingInv == world.stream /\ ui.sseSource # NoRequest
                => editing # <<"assistant", ui.sseSource>>

LeftInv == world.stream /\ rendered.isGenerating => LeftHeld(ui)

StoredInv ==
  /\ ui.saveTimer \/ swallowed \/ stored = SaveMessages(ui.messages)
  /\ overwritten = {} => LastPending(stored)

ChatInv ==
  /\ ChatTypes /\ ModeInv /\ RenderedInv /\ EditingInv /\ LeftInv /\ StoredInv

LEMMA GeneratingIs ==
    ASSUME ChatInv
    PROVE  /\ world.stream => (Generating(ui) <=> ui.sseSource # NoRequest)
           /\ overwritten = {} =>
                \A i \in 1 .. Len(ui.messages) :
                  IsPending(ui.messages[i]) => i = Len(ui.messages) /\ Generating(ui)
           /\ ListOf(ui.messages, last)
<1>1. CASE world.stream
  BY <1>1 DEF ChatInv, ModeInv, Streaming, StreamInv, PendingStreams, Generating
<1>2. CASE ~world.stream
  BY <1>2 DEF ChatInv, ModeInv, Requesting, PendingRequested, Generating
<1> QED BY <1>1, <1>2

(* A step of the network or of a timer. *)
LEMMA BackgroundKeeps ==
    ASSUME ChatInv, ModeInv', Background(ui, ui'), ui' \in Hooks,
           world.stream /\ rendered.isGenerating => LeftHeld(ui'),
           world.stream /\ ui.sseSource = NoRequest => ui'.messages = ui.messages,
           Generating(ui') => Generating(ui),
           sent' \in [Requests -> Nat], \A r \in Requests : r > last => sent'[r] = 0,
           requests' \subseteq requests,
           UNCHANGED <<rendered, editing, aborted, stored, swallowed, last, reloads, overwritten, world>>
    PROVE  ChatInv'
<1>1. ChatTypes'
  BY DEF ChatInv, ChatTypes, Background, Requests, NoRequest
<1>2. RenderedInv'
  <2>1. Generating(ui') => rendered'.isGenerating
    BY DEF ChatInv, RenderedInv
  <2>2. SameKeys(rendered'.messages, ui'.messages)
    BY DEF ChatInv, RenderedInv, Background, SameKeys
  <2>3. ASSUME world.stream, ~rendered.isGenerating PROVE rendered.messages = ui'.messages
    BY <2>3, GeneratingIs DEF ChatInv, RenderedInv
  <2> QED BY <2>1, <2>2, <2>3 DEF ChatInv, RenderedInv
<1>3. EditingInv'
  BY DEF ChatInv, EditingInv, Background
<1>4. LeftInv'
  BY DEF ChatInv, LeftInv
<1>5. StoredInv'
  BY DEF ChatInv, StoredInv, Background, Saves
<1> QED BY <1>1, <1>2, <1>3, <1>4, <1>5 DEF ChatInv

(* A step of the user, who sees its outcome. *)
LEMMA UserKeeps ==
    ASSUME ChatInv, ModeInv', NEW u \in Hooks, UserSets(u), u.saveTimer,
           last' \in last .. world.maxRequests, overwritten \subseteq overwritten',
           u.requestId \in 0 .. last', u.abortController \in 0 .. last',
           requests' \subseteq 1 .. last', aborted' \subseteq 1 .. last',
           editing' = NoKey \/ editing' \in Froms \X (1 .. last'), EditingInv',
           UNCHANGED <<stored, swallowed, sent, reloads, world>>
    PROVE  ChatInv'
<1>1. ui' = u /\ rendered' = Rendered(u)
  BY DEF UserSets
<1>2. ListOf(u.messages, last')
      /\ (world.stream => (Generating(u) <=> u.sseSource # NoRequest))
      /\ (overwritten' = {} => \A i \in 1 .. Len(u.messages) :
            IsPending(u.messages[i]) => i = Len(u.messages) /\ Generating(u))
  <2>1. CASE world.stream
    BY <1>1, <2>1 DEF ModeInv, Streaming, StreamInv, PendingStreams, Generating
  <2>2. CASE ~world.stream
    BY <1>1, <2>2 DEF ModeInv, Requesting, PendingRequested, Generating
  <2> QED BY <2>1, <2>2
<1>3. Generating(u) \in BOOLEAN /\ u.messages \in Seq(Message)
  BY DEF Generating, Hooks
<1>4. rendered' \in [messages : Seq(Message), isGenerating : BOOLEAN]
      /\ rendered'.messages = u.messages /\ rendered'.isGenerating = Generating(u)
  BY <1>1, <1>3 DEF Rendered
<1>5. last \in Nat /\ last' \in Nat /\ last <= last'
  BY DEF ChatInv, ChatTypes
<1>6. ListOf(stored, last')
  BY <1>5 DEF ChatInv, ChatTypes, ListOf
<1>7. ChatTypes'
  <2>1. \A r \in Requests : r > last' => sent[r] = 0
    BY <1>5 DEF ChatInv, ChatTypes, Requests
  <2>2. Requests' = Requests
    BY DEF Requests
  <2> QED BY <1>1, <1>2, <1>4, <1>5, <1>6, <2>1, <2>2 DEF ChatInv, ChatTypes
<1>8. RenderedInv'
  BY <1>1, <1>2, <1>4 DEF RenderedInv, SameKeys
<1>9. LeftInv'
  BY <1>1, <1>2, <1>4 DEF LeftInv, LeftHeld
<1>10. StoredInv'
  BY <1>1 DEF ChatInv, StoredInv
<1> QED BY <1>7, <1>8, <1>9, <1>10 DEF ChatInv

-----------------------------------------------------------------------------
(* The network and the timers.                                              *)

LEMMA SourceIsLast ==
    ASSUME ChatInv, NEW s, s \in ui.open
    PROVE  /\ world.stream /\ Streaming(ui, last, sent, overwritten, Exempt)
           /\ AtSource(ui, s) /\ LeftHeld(ui) /\ ui.sseSource = s /\ s # NoRequest
           /\ s = last /\ s \in Requests
<1>1. world.stream
  BY DEF ChatInv, ModeInv, Requesting, PlainInv
<1>2. Streaming(ui, last, sent, overwritten, Exempt)
  BY <1>1 DEF ChatInv, ModeInv
<1>3. ui.sseSource = s /\ s # NoRequest /\ s \in Nat
  BY <1>2 DEF Streaming, StreamInv, Hooks
<1>4. s = last /\ ui.messages # <<>> /\ Last(ui.messages).key = <<"assistant", s>>
  BY <1>2, <1>3 DEF Streaming, StreamInv
<1>5. Last(ui.messages).from = "assistant"
  <2>1. ui.messages \in Seq(Message)
    BY <1>2 DEF Streaming, ListOf
  <2>2. Len(ui.messages) \in 1 .. Len(ui.messages)
        /\ Last(ui.messages) = ui.messages[Len(ui.messages)]
    BY <1>4, <2>1, LastIs
  <2>3. ui.messages[Len(ui.messages)].key[1] = ui.messages[Len(ui.messages)].from
    BY <1>2, <2>2 DEF Streaming, ListOf
  <2> QED BY <1>4, <2>2, <2>3
<1>6. AtSource(ui, s)
  BY <1>3, <1>4, <1>5 DEF AtSource, HasAnswer, NoRequest
<1>7. s \in Requests
  BY <1>2, <1>3, <1>4 DEF Streaming, Requests, NoRequest
<1> QED BY <1>1, <1>2, <1>3, <1>4, <1>6, <1>7 DEF LeftHeld

(* A step of the source of the stream. *)
LEMMA SourceKeeps ==
    ASSUME ChatInv, NEW s, s \in ui.open,
           Streaming(ui', last, sent', overwritten, Exempt), Background(ui, ui'),
           LeftHeld(ui'), \A r \in Requests \ {s} : sent'[r] = sent[r],
           UNCHANGED <<rendered, editing, requests, aborted, stored, swallowed, last, reloads,
                       overwritten, world>>
    PROVE  ChatInv'
<1>1. world.stream /\ ui.sseSource = s /\ s # NoRequest /\ s = last
  BY SourceIsLast
<1>2. Exempt' = Exempt /\ Requests' = Requests
  BY DEF Exempt, Requests
<1>3. ModeInv'
  BY <1>1, <1>2 DEF ChatInv, ModeInv, Streaming, Requests, StreamInv, PendingStreams, ExactIn
<1>4. Generating(ui') => Generating(ui)
  BY <1>1, GeneratingIs
<1>5. ui' \in Hooks /\ sent' \in [Requests -> Nat]
  BY DEF Streaming
<1>6. \A r \in Requests : r > last => sent'[r] = 0
  BY <1>1 DEF ChatInv, ChatTypes, Requests
<1> QED BY <1>1, <1>3, <1>4, <1>5, <1>6, BackgroundKeeps

LEMMA SourceMessagesKeeps ==
    ASSUME ChatInv, NEW s \in Requests, NEW b \in Batches, SourceMessages(s, b)
    PROVE  ChatInv'
<1> DEFINE start == [u |-> ui, n |-> sent[s]]
           one == Dispatch(start, s, b[1])
           two == Dispatch(one, s, b[2])
           d == IF Len(b) = 1 THEN one ELSE two
           c1 == [sent EXCEPT ![s] = one.n]
<1>1. s \in ui.open /\ ui' = d.u /\ sent' = [sent EXCEPT ![s] = d.n]
  BY DEF SourceMessages
<1>2. UNCHANGED <<rendered, editing, requests, aborted, stored, swallowed, last, reloads,
                  overwritten, world>>
  BY DEF SourceMessages
<1>3. /\ Streaming(ui, last, sent, overwritten, Exempt) /\ AtSource(ui, s) /\ LeftHeld(ui)
  BY <1>1, SourceIsLast
<1>4. b[1] \in Events /\ (Len(b) # 1 => b[1] # "done" /\ b[2] \in Events)
  BY DEF Batches
<1>5. sent \in [Requests -> Nat]
  BY DEF ChatInv, ChatTypes
<1>6. /\ Streaming(one.u, last, c1, overwritten, Exempt) /\ Background(ui, one.u)
      /\ LeftHeld(one.u) /\ one.n \in {sent[s], sent[s] + 1}
      /\ b[1] # "done" /\ (world.afterClose \/ s \in one.u.open) => AtSource(one.u, s)
  BY <1>3, <1>4, DispatchStreams
<1>7. CASE Len(b) = 1
  <2>1. d = one
    BY <1>7
  <2> HIDE DEF one, d
  <2>2. \A r \in Requests \ {s} : sent'[r] = sent[r]
    BY <1>1, <1>5
  <2> QED BY <1>1, <1>2, <1>6, <2>1, <2>2, SourceKeeps
<1>8. CASE Len(b) # 1 /\ ~(world.afterClose \/ s \in one.u.open)
  <2>1. d = one
    BY <1>8 DEF Dispatch
  <2> HIDE DEF one, d
  <2>2. \A r \in Requests \ {s} : sent'[r] = sent[r]
    BY <1>1, <1>5
  <2> QED BY <1>1, <1>2, <1>6, <2>1, <2>2, SourceKeeps
<1>9. CASE Len(b) # 1 /\ (world.afterClose \/ s \in one.u.open)
  <2>1. AtSource(one.u, s)
    BY <1>4, <1>6, <1>9
  <2>2. c1[s] = one.n /\ c1 \in [Requests -> Nat]
    <3> HIDE DEF one
    <3> QED BY <1>5, <1>6
  <2>3. one = [u |-> one.u, n |-> c1[s]]
    <3>1. one = start \/ one = [u |-> one.u, n |-> one.n]
      BY DEF Dispatch
    <3>2. start = [u |-> start.u, n |-> start.n]
      OBVIOUS
    <3> HIDE DEF start, one
    <3> QED BY <2>2, <3>1, <3>2
  <2> DEFINE w == one.u
  <2>4. two = Dispatch([u |-> w, n |-> c1[s]], s, b[2])
    BY <2>3
  <2> DEFINE x == Dispatch([u |-> w, n |-> c1[s]], s, b[2])
  <2> HIDE DEF one, c1, w
  <2>5. /\ Streaming(x.u, last, [c1 EXCEPT ![s] = x.n], overwritten, Exempt)
        /\ Background(w, x.u) /\ LeftHeld(x.u)
    BY <1>4, <1>6, <1>9, <2>1, DispatchStreams DEF w
  <2>6. d = x
    BY <1>9, <2>4
  <2> HIDE DEF x, d
  <2>7. [c1 EXCEPT ![s] = x.n] = [sent EXCEPT ![s] = x.n]
    BY <1>5 DEF c1
  <2>8. Background(ui, x.u)
    BY <1>6, <2>5, BackgroundTwice DEF w
  <2>9. \A r \in Requests \ {s} : sent'[r] = sent[r]
    BY <1>1, <1>5
  <2> QED BY <1>1, <1>2, <2>5, <2>6, <2>7, <2>8, <2>9, SourceKeeps
<1> QED BY <1>7, <1>8, <1>9

LEMMA SourceErrorKeeps ==
    ASSUME ChatInv, NEW s, SourceError(s)
    PROVE  ChatInv'
<1>1. /\ Streaming(ui, last, sent, overwritten, Exempt) /\ AtSource(ui, s) /\ LeftHeld(ui)
      /\ s \in ui.open
  BY SourceIsLast DEF SourceError
<1>2. /\ Streaming(HandleError(ui, s), last, sent, overwritten, Exempt)
      /\ Background(ui, HandleError(ui, s)) /\ LeftHeld(HandleError(ui, s))
  BY <1>1, ErrorStreams
<1>3. UNCHANGED <<rendered, editing, requests, aborted, stored, swallowed, last, reloads,
                  overwritten, world>> /\ sent' = sent /\ ui' = HandleError(ui, s)
  BY DEF SourceError
<1> QED BY <1>1, <1>2, <1>3, SourceKeeps

LEMMA SourceEndsQuietlyKeeps ==
    ASSUME ChatInv, NEW s, SourceEndsQuietly(s)
    PROVE  ChatInv'
<1>1. /\ Streaming(ui, last, sent, overwritten, Exempt) /\ LeftHeld(ui) /\ s \in ui.open
  BY SourceIsLast DEF SourceEndsQuietly
<1>2. UNCHANGED <<rendered, editing, requests, aborted, stored, swallowed, last, reloads,
                  overwritten, world>> /\ sent' = sent /\ ui' = [ui EXCEPT !.open = ui.open \ {s}]
  BY DEF SourceEndsQuietly
<1> DEFINE v == [ui EXCEPT !.open = ui.open \ {s}]
<1>3. /\ v \in Hooks /\ SameChat(ui, v) /\ SameRequest(ui, v)
      /\ v.open = ui.open \ {s} /\ v.sseSource = ui.sseSource
      /\ v.isStreaming = ui.isStreaming /\ v.saveTimer \in BOOLEAN /\ ui.saveTimer \in BOOLEAN
  BY <1>1 DEF Streaming, Hooks, SameChat, SameRequest
<1> HIDE DEF v
<1>4. StreamInv(v, last)
  BY <1>1, <1>3 DEF Streaming, StreamInv, SameChat
<1>5. PendingStreams(v, overwritten) /\ ExactIn(v, sent, Exempt)
  BY <1>1, <1>3 DEF Streaming, PendingStreams, ExactIn, SameChat
<1>6. Streaming(v, last, sent, overwritten, Exempt)
  BY <1>1, <1>3, <1>4, <1>5 DEF Streaming, SameChat
<1>7. Background(ui, v) /\ LeftHeld(v)
  BY <1>1, <1>3 DEF Background, LeftHeld, SameChat, SameRequest, Saves, SameKeys
<1> QED BY <1>1, <1>2, <1>6, <1>7, SourceKeeps DEF v

LEMMA FlushTimerKeeps ==
    ASSUME ChatInv, FlushTimer
    PROVE  ChatInv'
<1> DEFINE v == FlushStreamUpdates(ui)
<1>1. ui' = v /\ sent' = sent
      /\ UNCHANGED <<rendered, editing, requests, aborted, stored, swallowed, last, reloads,
                     overwritten, world>>
  BY DEF FlushTimer
<1>2. world.stream /\ Streaming(ui, last, sent, overwritten, Exempt) /\ requests = {}
  BY DEF FlushTimer, ChatInv, ModeInv, Requesting, PlainInv
<1>3. /\ Streaming(v, last, sent, overwritten, Exempt) /\ SameKeys(v.messages, ui.messages)
      /\ ui.sseSource = NoRequest => v.messages = ui.messages
  BY <1>2, FlushStreams
<1>4. v \in Hooks /\ v.held = ui.held /\ SameSource(ui, v) /\ SameRequest(ui, v) /\ Saves(ui, v)
      /\ v.isRequesting = ui.isRequesting
  BY <1>2, FlushIs DEF Streaming
<1> HIDE DEF v
<1>5. Background(ui, v)
  BY <1>3, <1>4 DEF Background, SameSource, SameRequest
<1>6. rendered.isGenerating => LeftHeld(v)
  BY <1>2, <1>3, <1>4 DEF ChatInv, LeftInv, LeftHeld, SameSource
<1>7. Generating(v) => Generating(ui)
  BY <1>4 DEF Generating, SameSource
<1>8. Exempt' = Exempt /\ Requests' = Requests
  BY <1>1 DEF Exempt, Requests
<1>9. ModeInv'
  BY <1>1, <1>2, <1>3, <1>8
     DEF ModeInv, Streaming, Requests, StreamInv, PendingStreams, ExactIn
<1>10. sent \in [Requests -> Nat] /\ \A r \in Requests : r > last => sent[r] = 0
  BY DEF ChatInv, ChatTypes
<1> QED BY <1>1, <1>3, <1>4, <1>5, <1>6, <1>7, <1>9, <1>10, BackgroundKeeps

(* The last message, if it is an answer, is no longer pending. *)
Settles(ms, ns) ==
  /\ ~HasAnswer(ms) => ns = ms
  /\ HasAnswer(ms) => \E m \in Message : /\ ns = WithLast(ms, m) /\ ~IsPending(m)
                                         /\ m.key = Last(ms).key /\ m.from = "assistant"

LEMMA Settled ==
    ASSUME NEW ms, NEW n \in Nat, ListOf(ms, n), NEW ns, Settles(ms, ns)
    PROVE  /\ ListOf(ns, n) /\ SameKeys(ns, ms)
           /\ LastPending(ms) => \A i \in 1 .. Len(ns) : ~IsPending(ns[i])
<1>1. ms \in Seq(Message)
  BY DEF ListOf
<1>2. CASE ~HasAnswer(ms)
  <2>1. ns = ms
    BY <1>2 DEF Settles
  <2>2. ASSUME LastPending(ms), NEW i \in 1 .. Len(ms), IsPending(ms[i]) PROVE FALSE
    <3>1. i = Len(ms) /\ ms # <<>>
      BY <1>1, <2>2 DEF LastPending
    <3>2. ms[i] \in Message /\ ms[i].from # "user"
      BY <1>1, <2>2, ElementOfSeq DEF ListOf, IsPending
    <3> QED BY <1>2, <3>1, <3>2 DEF HasAnswer, Last, Message, Froms
  <2> QED BY <2>1, <2>2 DEF SameKeys
<1>3. CASE HasAnswer(ms)
  <2>1. PICK m \in Message : /\ ns = WithLast(ms, m) /\ ~IsPending(m)
                             /\ m.key = Last(ms).key /\ m.from = "assistant"
    BY <1>3 DEF Settles
  <2>2. ms # <<>> /\ Last(ms).from = "assistant"
    BY <1>3 DEF HasAnswer
  <2>3. ListOf(ns, n) /\ SameKeys(ns, ms)
    BY <2>1, <2>2, LastChanges
  <2> DEFINE w == WithLast(ms, m)
  <2>4. /\ Len(w) = Len(ms)
        /\ \A i \in 1 .. Len(ms) : w[i] = IF i = Len(ms) THEN m ELSE ms[i]
    BY <1>1, <2>2, WithLastIs
  <2>5. ns = w
    BY <2>1
  <2> HIDE DEF w
  <2> QED BY <2>1, <2>3, <2>4, <2>5 DEF LastPending
<1> QED BY <1>2, <1>3

LEMMA NonStreamAnswerKeeps ==
    ASSUME ChatInv, NEW r, NEW ok \in BOOLEAN, NonStreamAnswer(r, ok)
    PROVE  ChatInv'
<1> DEFINE ms == ui.messages
           done == UpdateLastAssistantMessage(ms,
                     LAMBDA m : [m EXCEPT !.text = <<<<r, 1>>>>, !.status = "complete"])
           good == UpdateMessages(ui, done)
           u == CASE r \in aborted -> ui
                  [] r \notin aborted /\ ok -> good
                  [] r \notin aborted /\ ~ok -> HandleStreamError(ui)
<1>1. r \in requests /\ requests' = requests \ {r} /\ ui' = Finally(u, r) /\ sent' = sent
      /\ UNCHANGED <<rendered, editing, aborted, stored, swallowed, last, reloads, overwritten, world>>
  BY DEF NonStreamAnswer
<1>2. ~world.stream /\ Requesting(ui, last, requests \ aborted, overwritten)
  BY <1>1 DEF ChatInv, ModeInv
<1>3. ui \in Hooks /\ last \in Nat /\ ms \in Seq(Message) /\ ListOf(ms, last) /\ PlainInv(ui)
      /\ r \in Nat
  BY <1>1, <1>2 DEF Requesting, ListOf, ChatInv, ChatTypes
<1>4. overwritten = {} => LastPending(ms)
  BY <1>2 DEF Requesting, PendingRequested, LastPending
<1>5. /\ u \in Hooks /\ PlainInv(u) /\ Saves(ui, u) /\ SameRequest(ui, u)
      /\ u.isRequesting => ui.isRequesting
      /\ IF r \in aborted THEN u = ui ELSE Settles(ms, u.messages)
  <2>1. CASE r \in aborted
    <3>1. u = ui
      BY <2>1
    <3> HIDE DEF u
    <3> QED BY <1>3, <2>1, <3>1 DEF Saves, SameRequest, Hooks
  <2>2. CASE r \notin aborted /\ ok
    <3>1. u = good
      BY <2>2
    <3>2. done \in Seq(Message) /\ Settles(ms, done)
      <4>1. CASE HasAnswer(ms)
        <5> DEFINE m == [Last(ms) EXCEPT !.text = <<<<r, 1>>>>, !.status = "complete"]
        <5>1. done = WithLast(ms, m)
          BY <4>1 DEF UpdateLastAssistantMessage, HasAnswer, WithLast, Last
        <5>2. Last(ms) \in Message /\ Last(ms).from = "assistant" /\ ms # <<>>
          BY <1>3, <4>1, LastIs DEF HasAnswer
        <5>3. <<<<r, 1>>>> \in Chunks
          BY <1>3 DEF Chunks
        <5>4. m \in Message /\ m.key = Last(ms).key /\ m.from = "assistant" /\ ~IsPending(m)
          BY <5>2, <5>3 DEF Message, IsPending
        <5>5. WithLast(ms, m) \in Seq(Message)
          <6> HIDE DEF m
          <6> QED BY <1>3, <5>2, <5>4, WithLastIs
        <5> HIDE DEF m, done
        <5> QED BY <4>1, <5>1, <5>4, <5>5 DEF Settles
      <4>2. CASE ~HasAnswer(ms)
        <5>1. done = ms
          BY <4>2 DEF UpdateLastAssistantMessage, HasAnswer
        <5> HIDE DEF done
        <5> QED BY <1>3, <4>2, <5>1 DEF Settles
      <4> QED BY <4>1, <4>2
    <3> HIDE DEF done
    <3>3. /\ good \in Hooks /\ good.messages = done /\ good.saveTimer
          /\ good.pending = ui.pending /\ good.held = ui.held
          /\ good.flushTimer = ui.flushTimer /\ good.isRequesting = ui.isRequesting
          /\ SameSource(ui, good) /\ SameRequest(ui, good)
      BY <1>3, <3>2, UpdateIs
    <3> HIDE DEF good, u
    <3> QED BY <1>3, <2>2, <3>1, <3>2, <3>3 DEF PlainInv, SameSource, Saves
  <2>3. CASE r \notin aborted /\ ~ok
    <3> DEFINE f == HandleStreamError(ui)
    <3>1. u = f
      BY <2>3
    <3>2. /\ Idles(ui, f) /\ SameSource(ui, f) /\ SameRequest(ui, f)
          /\ HasAnswer(ms) => \E m \in Message : EndsWith(ui, f, m)
      BY <1>3, ErrorIs
    <3> HIDE DEF f, u
    <3>3. Settles(ms, f.messages)
      BY <3>2 DEF Idles, EndsWith, Settles
    <3> QED BY <1>3, <2>3, <3>1, <3>2, <3>3 DEF Idles, PlainInv, SameSource, Saves
  <2> QED BY <2>1, <2>2, <2>3
<1> HIDE DEF u
<1> DEFINE v == Finally(u, r)
<1>6. /\ v \in Hooks /\ PlainInv(v) /\ v.messages = u.messages /\ v.saveTimer = u.saveTimer
      /\ v.requestId = u.requestId /\ v.abortController \in {NoRequest, u.abortController}
      /\ v.isRequesting => u.isRequesting
      /\ u.requestId # r => v.isRequesting = u.isRequesting
  BY <1>5 DEF Finally, Hooks, PlainInv, NoRequest
<1> HIDE DEF v
<1>7. ListOf(v.messages, last) /\ SameKeys(v.messages, ms)
  <2>1. CASE r \in aborted
    BY <1>3, <1>5, <1>6, <2>1 DEF SameKeys
  <2>2. CASE r \notin aborted
    BY <1>3, <1>5, <1>6, <2>2, Settled
  <2> QED BY <2>1, <2>2
<1>8. PendingRequested(v, (requests \ {r}) \ aborted, overwritten)
  <2>1. CASE r \in aborted
    BY <1>2, <1>5, <1>6, <2>1 DEF Requesting, PendingRequested
  <2>2. CASE r \notin aborted
    <3>1. overwritten = {} => \A i \in 1 .. Len(v.messages) : ~IsPending(v.messages[i])
      BY <1>3, <1>4, <1>5, <1>6, <2>2, Settled
    <3> QED BY <3>1 DEF PendingRequested
  <2> QED BY <2>1, <2>2
<1>9. ModeInv'
  <2>1. Requesting(v, last, (requests \ {r}) \ aborted, overwritten)
    BY <1>3, <1>6, <1>7, <1>8 DEF Requesting
  <2> QED BY <1>1, <1>2, <2>1 DEF ModeInv, v
<1>10. Background(ui, v)
  BY <1>3, <1>5, <1>6, <1>7 DEF Background, Saves, SameRequest, PlainInv
<1>11. Generating(v) => Generating(ui)
  BY <1>5, <1>6 DEF Generating, PlainInv
<1>12. sent \in [Requests -> Nat] /\ \A q \in Requests : q > last => sent[q] = 0
  BY DEF ChatInv, ChatTypes
<1> QED BY <1>1, <1>2, <1>6, <1>9, <1>10, <1>11, <1>12, BackgroundKeeps DEF v

LEMMA LastOfIs ==
    ASSUME NEW ms \in Seq(Message), NEW k \in Nat
    PROVE  LET ns == LastOf(ms, k) IN
           /\ ns \in Seq(Message) /\ Len(ns) \in Nat /\ Len(ns) <= k /\ Len(ns) <= Len(ms)
           /\ Len(ms) <= k => ns = ms
           /\ \A i \in 1 .. Len(ns) : /\ Len(ms) - Len(ns) + i \in 1 .. Len(ms)
                                      /\ ns[i] = ms[Len(ms) - Len(ns) + i]
<1> DEFINE ns == LastOf(ms, k)
<1>1. Len(ms) \in Nat
  BY LenProperties
<1>2. CASE Len(ms) <= k
  <2>1. ns = ms
    BY <1>2 DEF LastOf
  <2> HIDE DEF ns
  <2>2. \A i \in 1 .. Len(ms) : Len(ms) - Len(ms) + i = i
    BY <1>1
  <2> QED BY <1>1, <1>2, <2>1, <2>2 DEF ns
<1>3. CASE ~(Len(ms) <= k)
  <2>1. ns = SubSeq(ms, Len(ms) - k + 1, Len(ms))
    BY <1>3 DEF LastOf
  <2> DEFINE lo == Len(ms) - k + 1
             hi == Len(ms)
  <2>2. lo \in Int /\ hi \in Int /\ lo \in 1 .. Len(ms) + 1 /\ hi - lo + 1 = k
    BY <1>1, <1>3
  <2>3. \A i \in lo .. hi : ms[i] \in Message
    <3>1. \A i \in lo .. hi : i \in 1 .. Len(ms)
      BY <1>1, <2>2
    <3> QED BY <3>1, ElementOfSeq
  <2> DEFINE ss == SubSeq(ms, lo, hi)
  <2>4. ns = ss
    BY <2>1
  <2> HIDE DEF lo, hi, ns
  <2>5. /\ ss \in Seq(Message) /\ Len(ss) = (IF lo <= hi THEN hi - lo + 1 ELSE 0)
        /\ \A i \in 1 .. hi - lo + 1 : ss[i] = ms[lo + i - 1]
    BY <2>2, <2>3, SubSeqProperties
  <2> HIDE DEF ss
  <2>6. Len(ns) = k
    BY <1>1, <2>2, <2>4, <2>5 DEF hi
  <2>7. ASSUME NEW i \in 1 .. Len(ns)
        PROVE  Len(ms) - Len(ns) + i \in 1 .. Len(ms) /\ ns[i] = ms[Len(ms) - Len(ns) + i]
    <3>1. i \in 1 .. hi - lo + 1
      BY <2>2, <2>6
    <3>2. lo + i - 1 = Len(ms) - Len(ns) + i /\ lo + i - 1 \in 1 .. Len(ms)
      BY <1>1, <1>3, <2>6, <2>7 DEF lo
    <3> QED BY <2>4, <2>5, <3>1, <3>2
  <2> QED BY <1>1, <1>3, <2>4, <2>5, <2>6, <2>7 DEF ns
<1> QED BY <1>2, <1>3

LEMMA SuffixIs ==
    ASSUME NEW ms, NEW n \in Nat, ListOf(ms, n), NEW k \in Nat
    PROVE  /\ ListOf(LastOf(ms, k), n)
           /\ LastPending(ms) => LastPending(LastOf(ms, k))
<1> DEFINE ns == LastOf(ms, k)
<1>1. ms \in Seq(Message) /\ Len(ms) \in Nat
  BY LenProperties DEF ListOf
<1>2. /\ ns \in Seq(Message) /\ Len(ns) \in Nat /\ Len(ns) <= Len(ms)
      /\ \A i \in 1 .. Len(ns) : /\ Len(ms) - Len(ns) + i \in 1 .. Len(ms)
                                 /\ ns[i] = ms[Len(ms) - Len(ns) + i]
  BY <1>1, LastOfIs
<1> HIDE DEF ns
<1>3. ASSUME NEW i \in 1 .. Len(ns), NEW j \in 1 .. Len(ns), ns[i].key = ns[j].key
      PROVE  i = j
  <2> DEFINE a == Len(ms) - Len(ns) + i
             b == Len(ms) - Len(ns) + j
  <2>1. a \in 1 .. Len(ms) /\ ns[i] = ms[a] /\ b \in 1 .. Len(ms) /\ ns[j] = ms[b]
    BY <1>2
  <2>2. a = b
    <3> HIDE DEF a, b
    <3> QED BY <1>3, <2>1 DEF ListOf
  <2> QED BY <1>1, <1>2, <2>2
<1>4. ListOf(ns, n)
  BY <1>2, <1>3 DEF ListOf
<1>5. ASSUME LastPending(ms), NEW i \in 1 .. Len(ns), IsPending(ns[i]) PROVE i = Len(ns)
  <2>1. Len(ms) - Len(ns) + i = Len(ms)
    BY <1>2, <1>5 DEF LastPending
  <2> QED BY <1>1, <1>2, <2>1
<1> QED BY <1>4, <1>5 DEF LastPending, ns

LEMMA SavesSuffix ==
    ASSUME NEW ms, NEW n \in Nat, ListOf(ms, n)
    PROVE  /\ ListOf(SaveMessages(ms), n)
           /\ LastPending(ms) => LastPending(SaveMessages(ms))
<1>1. MAX_STORED_MESSAGES \in Nat
  BY LimitsAssumption
<1> QED BY <1>1, SuffixIs DEF SaveMessages

LEMMA SaveTimerKeeps ==
    ASSUME ChatInv, NEW disk, SaveTimer(disk)
    PROVE  ChatInv'
<1> DEFINE v == [ui EXCEPT !.saveTimer = FALSE]
<1>1. ui' = v /\ stored' = (IF disk = "works" THEN SaveMessages(ui.messages) ELSE stored)
      /\ swallowed' = (disk # "works") /\ sent' = sent
      /\ UNCHANGED <<rendered, editing, requests, aborted, last, reloads, overwritten, world>>
  BY DEF SaveTimer
<1>2. /\ ui \in Hooks /\ v \in Hooks /\ v.messages = ui.messages /\ v.pending = ui.pending
      /\ v.held = ui.held /\ v.flushTimer = ui.flushTimer
      /\ v.isRequesting = ui.isRequesting /\ SameSource(ui, v) /\ SameRequest(ui, v)
  BY DEF ChatInv, ChatTypes, Hooks, SameSource, SameRequest
<1> HIDE DEF v
<1>3. ListOf(ui.messages, last) /\ last \in Nat
      /\ (overwritten = {} => LastPending(ui.messages))
  BY GeneratingIs DEF ChatInv, ChatTypes, LastPending
<1>4. ListOf(stored', last) /\ (overwritten = {} => LastPending(stored'))
  <2>1. CASE disk = "works"
    BY <1>1, <1>3, <2>1, SavesSuffix
  <2>2. CASE disk # "works"
    BY <1>1, <2>2 DEF ChatInv, ChatTypes, StoredInv
  <2> QED BY <2>1, <2>2
<1>5. ChatTypes'
  BY <1>1, <1>2, <1>4 DEF ChatInv, ChatTypes, Requests, SameRequest
<1>6. ModeInv'
  <2>1. CASE world.stream
    <3>1. Streaming(v, last, sent, overwritten, Exempt)
      <4>1. Streaming(ui, last, sent, overwritten, Exempt)
        BY <2>1 DEF ChatInv, ModeInv
      <4>2. StreamInv(v, last)
        BY <1>2, <4>1 DEF Streaming, StreamInv, SameSource
      <4>3. PendingStreams(v, overwritten)
        BY <1>2, <4>1 DEF Streaming, PendingStreams, SameSource
      <4>4. ExactIn(v, sent, Exempt)
        BY <1>2, <4>1 DEF Streaming, ExactIn, SameSource
      <4> QED BY <1>2, <4>1, <4>2, <4>3, <4>4 DEF Streaming
    <3>2. Exempt' = Exempt /\ Requests' = Requests
      BY <1>1 DEF Exempt, Requests
    <3> QED BY <1>1, <2>1, <3>1, <3>2 DEF ChatInv, ModeInv, Streaming, StreamInv,
                                          PendingStreams, ExactIn, Requests
  <2>2. CASE ~world.stream
    BY <1>1, <1>2, <2>2 DEF ChatInv, ModeInv, Requesting, PlainInv, PendingRequested,
                            SameSource, SameRequest
  <2> QED BY <2>1, <2>2
<1>7. RenderedInv'
  BY <1>1, <1>2 DEF ChatInv, RenderedInv, Generating, SameSource
<1>8. EditingInv' /\ LeftInv'
  BY <1>1, <1>2 DEF ChatInv, EditingInv, LeftInv, LeftHeld, SameSource
<1>9. StoredInv'
  BY <1>1, <1>2, <1>4 DEF StoredInv
<1> QED BY <1>5, <1>6, <1>7, <1>8, <1>9 DEF ChatInv

LEMMA RenderKeeps ==
    ASSUME ChatInv, Render
    PROVE  ChatInv'
<1>1. rendered' = Rendered(ui) /\ ui' = ui
      /\ UNCHANGED <<editing, requests, aborted, stored, swallowed, sent, last, reloads, overwritten, world>>
  BY DEF Render
<1>2. ui.messages \in Seq(Message) /\ Generating(ui) \in BOOLEAN
  BY DEF ChatInv, ChatTypes, Hooks, Generating
<1>3. rendered' \in [messages : Seq(Message), isGenerating : BOOLEAN]
      /\ rendered'.messages = ui.messages /\ rendered'.isGenerating = Generating(ui)
  BY <1>1, <1>2 DEF Rendered
<1>4. /\ world.stream => (Generating(ui) <=> ui.sseSource # NoRequest)
      /\ overwritten = {} =>
           \A i \in 1 .. Len(ui.messages) :
             IsPending(ui.messages[i]) => i = Len(ui.messages) /\ Generating(ui)
      /\ ListOf(ui.messages, last)
  BY GeneratingIs
<1>5. ChatTypes'
  BY <1>1, <1>3, <1>4 DEF ChatInv, ChatTypes, Requests
<1>6. Exempt' = Exempt /\ Requests' = Requests
  BY <1>1 DEF Exempt, Requests
<1>7. ModeInv'
  BY <1>1, <1>6 DEF ChatInv, ModeInv, Streaming, StreamInv, PendingStreams, ExactIn,
                    Requesting, PlainInv, PendingRequested, Requests
<1>8. RenderedInv'
  BY <1>1, <1>3, <1>4 DEF RenderedInv, SameKeys
<1>9. LeftInv'
  BY <1>1, <1>3, <1>4 DEF LeftInv, LeftHeld
<1>10. EditingInv' /\ StoredInv'
  BY <1>1 DEF ChatInv, EditingInv, StoredInv
<1> QED BY <1>5, <1>7, <1>8, <1>9, <1>10 DEF ChatInv

-----------------------------------------------------------------------------
(* The user.                                                                *)

LEMMA SourceHasAnswer ==
    ASSUME NEW u, NEW n, NEW c, NEW o, NEW e, Streaming(u, n, c, o, e), u.sseSource # NoRequest
    PROVE  HasAnswer(u.messages)
<1>1. u.messages # <<>> /\ Last(u.messages).key = <<"assistant", u.sseSource>>
      /\ ListOf(u.messages, n) /\ u.messages \in Seq(Message)
  BY DEF Streaming, StreamInv, ListOf
<1>2. Len(u.messages) \in 1 .. Len(u.messages) /\ Last(u.messages) = u.messages[Len(u.messages)]
  BY <1>1, LastIs
<1>3. u.messages[Len(u.messages)].key[1] = u.messages[Len(u.messages)].from
  BY <1>1, <1>2 DEF ListOf
<1> QED BY <1>1, <1>2, <1>3 DEF HasAnswer

(* Nothing waits for the flush when the user acts on a conversation at rest. *)
LEMMA NothingWaits ==
    ASSUME ChatInv, world.stream, ui.sseSource = NoRequest, UserMayAct
    PROVE  ui.pending = <<>>
<1>1. Streaming(ui, last, sent, overwritten, Exempt)
  BY DEF ChatInv, ModeInv
<1> QED BY <1>1 DEF Streaming, StreamInv, UserMayAct

LEMMA HandleStopKeeps ==
    ASSUME ChatInv, HandleStop
    PROVE  ChatInv'
<1> DEFINE v == StopGeneration(ui)
           ms == ui.messages
<1>1. UserSets(v) /\ aborted' = aborted \cup ({ui.abortController} \ {NoRequest})
      /\ UNCHANGED <<editing, requests, stored, swallowed, sent, last, reloads, overwritten, world>>
      /\ rendered.isGenerating
  BY DEF HandleStop
<1>2. ui \in Hooks /\ last \in 0 .. world.maxRequests /\ last \in Nat
      /\ ui.requestId \in 0 .. last /\ ui.abortController \in 0 .. last
      /\ requests \subseteq 1 .. last /\ aborted \subseteq 1 .. last
      /\ world.maxRequests \in Nat
  BY DEF ChatInv, ChatTypes, ChatSettings
<1>3. /\ Idles(ui, v) /\ v.requestId = ui.requestId /\ v.abortController = NoRequest
      /\ v.sseSource = NoRequest /\ ~v.isStreaming
      /\ v.open = IF ui.sseSource = NoRequest THEN ui.open ELSE ui.open \ {ui.sseSource}
      /\ HasAnswer(ms) => \E m \in Message : EndsWith(ui, v, m)
  BY <1>2, StopIs
<1>4. ui' = v
  BY <1>1 DEF UserSets
<1> HIDE DEF v
<1>7. /\ v \in Hooks /\ v.saveTimer /\ last' \in last .. world.maxRequests
      /\ overwritten \subseteq overwritten'
      /\ v.requestId \in 0 .. last' /\ v.abortController \in 0 .. last'
      /\ requests' \subseteq 1 .. last' /\ aborted' \subseteq 1 .. last'
      /\ (editing' = NoKey \/ editing' \in Froms \X (1 .. last'))
      /\ UNCHANGED <<stored, swallowed, sent, reloads, world>>
  <2>1. v \in Hooks /\ v.saveTimer
    BY <1>3 DEF Idles
  <2>2. editing = NoKey \/ editing \in Froms \X (1 .. last)
    BY DEF ChatInv, ChatTypes
  <2>3. aborted' \subseteq 1 .. last
    <3>1. ui.abortController # NoRequest => ui.abortController \in 1 .. last
      BY <1>2 DEF NoRequest
    <3> QED BY <1>1, <1>2, <3>1
  <2>4. last \in last .. world.maxRequests
    BY <1>2
  <2>5. v.abortController \in 0 .. last
    BY <1>2, <1>3 DEF NoRequest
  <2> QED BY <1>1, <1>2, <1>3, <2>1, <2>2, <2>3, <2>4, <2>5
<1>5. CASE world.stream
  <2>1. Streaming(ui, last, sent, overwritten, Exempt) /\ requests = {}
    BY <1>5 DEF ChatInv, ModeInv
  <2>2. v.open = {}
    BY <1>3, <2>1 DEF Streaming, StreamInv
  <2>3. Streaming(v, last, sent, overwritten, Exempt)
    <3>1. CASE HasAnswer(ms)
      <4>1. PICK m \in Message : EndsWith(ui, v, m)
        BY <1>3, <3>1
      <4>2. \/ ui.sseSource # NoRequest \/ Last(ms).status = "error"
            \/ ui.pending = <<>> /\ ui.held = <<>>
        BY <1>1, <1>5, <2>1, <3>1 DEF Streaming, StreamInv, ChatInv, LeftInv, LeftHeld
      <4>3. v \in Hooks /\ v.pending = <<>> /\ ~v.isRequesting
        BY <1>3 DEF Idles
      <4> QED BY <1>3, <2>1, <2>2, <3>1, <4>1, <4>2, <4>3, ClosesStream
    <3>2. CASE ~HasAnswer(ms)
      <4>1. ui.sseSource = NoRequest
        BY <2>1, <3>2, SourceHasAnswer
      <4>2. v.messages = ms /\ v \in Hooks /\ v.pending = <<>> /\ ~v.isRequesting
        BY <1>3, <3>2 DEF Idles
      <4>3. StreamInv(v, last)
        BY <1>3, <2>2, <4>2 DEF StreamInv, Hooks
      <4>4. PendingStreams(v, overwritten)
        BY <1>3, <2>1, <4>1, <4>2 DEF Streaming, PendingStreams
      <4>5. ExactIn(v, sent, Exempt)
        <5> SUFFICES ASSUME NEW i \in 1 .. Len(ms), ms[i].from = "assistant",
                            ms[i].key[2] \notin Exempt, ms[i].status # "error"
                     PROVE  /\ ms[i].key[2] # NoRequest
                            /\ ms[i].text # <<Edited>> =>
                                  ms[i].text = Dispatched(ms[i].key[2], sent[ms[i].key[2]])
          BY <1>3, <4>2 DEF ExactIn
        <5>1. ms[i].key[2] # NoRequest
          BY <2>1, OthersElsewhere
        <5> QED BY <2>1, <4>1, <5>1 DEF Streaming, ExactIn
      <4> QED BY <2>1, <4>2, <4>3, <4>4, <4>5 DEF Streaming
    <3> QED BY <3>1, <3>2
  <2>4. Exempt' = Exempt /\ Requests' = Requests
    BY <1>1 DEF Exempt, Requests
  <2>5. ModeInv'
    BY <1>1, <1>4, <1>5, <2>1, <2>3, <2>4
       DEF ModeInv, Streaming, Requests, StreamInv, PendingStreams, ExactIn
  <2>6. EditingInv'
    BY <1>3, <1>4 DEF EditingInv
  <2> QED BY <1>1, <1>7, <2>5, <2>6, UserKeeps
<1>6. CASE ~world.stream
  <2>1. Requesting(ui, last, requests \ aborted, overwritten)
    BY <1>6 DEF ChatInv, ModeInv
  <2>2. Settles(ms, v.messages)
    BY <1>3 DEF Idles, EndsWith, Settles
  <2>3. ListOf(ms, last) /\ (overwritten = {} => LastPending(ms))
    BY <2>1 DEF Requesting, PendingRequested, LastPending
  <2>4. ListOf(v.messages, last)
        /\ (overwritten = {} => \A i \in 1 .. Len(v.messages) : ~IsPending(v.messages[i]))
    BY <1>2, <2>2, <2>3, Settled
  <2>5. PlainInv(v)
    BY <1>3, <2>1 DEF Requesting, PlainInv, Idles
  <2>6. Requesting(v, last, requests \ aborted', overwritten)
    BY <1>2, <1>3, <2>4, <2>5 DEF Requesting, PendingRequested, Idles
  <2>7. ModeInv'
    BY <1>1, <1>4, <1>6, <2>6 DEF ModeInv
  <2>8. EditingInv'
    BY <1>3, <1>4 DEF EditingInv
  <2> QED BY <1>1, <1>7, <2>7, <2>8, UserKeeps
<1> QED BY <1>5, <1>6

LEMMA EditingKeeps ==
    ASSUME ChatInv, editing' = NoKey \/ editing' \in Froms \X (1 .. last), EditingInv',
           UNCHANGED <<ui, rendered, requests, aborted, stored, swallowed, sent, last, reloads,
                       overwritten, world>>
    PROVE  ChatInv'
<1>1. Exempt' = Exempt /\ Requests' = Requests
  BY DEF Exempt, Requests
<1>2. ChatTypes'
  BY DEF ChatInv, ChatTypes, Requests
<1>3. ModeInv'
  BY <1>1 DEF ChatInv, ModeInv, Streaming, StreamInv, PendingStreams, ExactIn,
              Requesting, PlainInv, PendingRequested, Requests
<1>4. RenderedInv' /\ LeftInv' /\ StoredInv'
  BY DEF ChatInv, RenderedInv, LeftInv, StoredInv
<1> QED BY <1>2, <1>3, <1>4 DEF ChatInv

LEMMA HandleEditMessageKeeps ==
    ASSUME ChatInv, NEW k, HandleEditMessage(k)
    PROVE  ChatInv'
<1>1. editing' = k /\ ~rendered.isGenerating /\ HasKey(rendered.messages, k)
      /\ UNCHANGED <<ui, rendered, requests, aborted, stored, swallowed, sent, last, reloads,
                     overwritten, world>>
  BY DEF HandleEditMessage
<1>2. rendered.messages \in Seq(Message) /\ ListOf(rendered.messages, last)
  BY DEF ChatInv, ChatTypes, ListOf
<1>3. PICK i \in 1 .. Len(rendered.messages) : rendered.messages[i].key = k
  BY <1>1, <1>2 DEF HasKey
<1>4. rendered.messages[i] \in Message /\ k[2] \in 1 .. last
  BY <1>2, <1>3, ElementOfSeq DEF ListOf
<1>5. k \in Froms \X (1 .. last)
  BY <1>3, <1>4 DEF Message
<1>6. EditingInv'
  BY <1>1, GeneratingIs DEF EditingInv, ChatInv, RenderedInv
<1> QED BY <1>1, <1>5, <1>6, EditingKeeps

LEMMA CancelEditKeeps ==
    ASSUME ChatInv, CancelEdit
    PROVE  ChatInv'
<1>1. editing' = NoKey
      /\ UNCHANGED <<ui, rendered, requests, aborted, stored, swallowed, sent, last, reloads,
                     overwritten, world>>
  BY DEF CancelEdit
<1>2. EditingInv'
  BY <1>1 DEF EditingInv, NoKey
<1> QED BY <1>1, <1>2, EditingKeeps

(* m is a message of the list ms, or one of them with the text typed, and  *)
(* then not that of the stream.                                            *)
Origin(m, ms, source) ==
  \E j \in 1 .. Len(ms) :
    \/ m = ms[j]
    \/ /\ m.key = ms[j].key /\ m.status = ms[j].status /\ m.text = <<Edited>>
       /\ m.key # <<"assistant", source>>

(* The user replaces the list: by an edit, or while nothing is generated. *)
LEMMA ReplaceKeeps ==
    ASSUME ChatInv, UserMayAct, NEW ns, ListOf(ns, last), UserSets(UpdateMessages(ui, ns)),
           Generating(ui) => SameKeys(ns, ui.messages),
           overwritten \subseteq overwritten',
           \A i \in 1 .. Len(ns) :
             ns[i].from = "assistant" /\ ns[i].key[2] \notin overwritten' =>
               Origin(ns[i], ui.messages, ui.sseSource),
           editing' \in {editing, NoKey},
           UNCHANGED <<requests, aborted, stored, swallowed, sent, last, reloads, world>>
    PROVE  ChatInv'
<1> DEFINE u == UpdateMessages(ui, ns)
           ms == ui.messages
<1>1. ui \in Hooks /\ ns \in Seq(Message) /\ last \in Nat /\ world.maxRequests \in Nat
      /\ last <= world.maxRequests /\ ms \in Seq(Message)
  BY DEF ChatInv, ChatTypes, ListOf, ChatSettings, Hooks
<1>2. /\ u \in Hooks /\ u.messages = ns /\ u.saveTimer
      /\ u.pending = ui.pending /\ u.held = ui.held /\ u.flushTimer = ui.flushTimer
      /\ u.isRequesting = ui.isRequesting /\ SameSource(ui, u) /\ SameRequest(ui, u)
  BY <1>1, UpdateIs
<1>3. ui' = u
  BY DEF UserSets
<1> HIDE DEF u
<1>4. ASSUME overwritten' = {}, NEW i \in 1 .. Len(ns), IsPending(ns[i])
      PROVE  /\ i = Len(ns) /\ i = Len(ms) /\ i \in 1 .. Len(ms)
             /\ IsPending(ms[i]) /\ ms[i].key = ns[i].key /\ overwritten = {}
  <2>1. ns[i] \in Message /\ ns[i].from = "assistant"
    <3>1. ns[i] \in Message
      BY <1>1, <1>4, ElementOfSeq
    <3> QED BY <3>1, <1>4 DEF ListOf, IsPending, Message, Froms
  <2>2. PICK j \in 1 .. Len(ms) : IsPending(ms[j]) /\ ns[i].key = ms[j].key
    BY <1>4, <2>1 DEF Origin, IsPending
  <2>3. overwritten = {}
    BY <1>4
  <2>4. j = Len(ms) /\ Generating(ui)
    BY <2>2, <2>3, GeneratingIs
  <2>5. Len(ns) = Len(ms) /\ ns[j].key = ms[j].key
    BY <2>4 DEF SameKeys
  <2>6. i = j
    BY <1>4, <2>2, <2>5 DEF ListOf
  <2> QED BY <2>2, <2>3, <2>4, <2>5, <2>6
<1>5. ModeInv'
  <2>1. CASE world.stream
    <3>1. Streaming(ui, last, sent, overwritten, Exempt) /\ requests = {}
      BY <2>1 DEF ChatInv, ModeInv
    <3>2. ui.sseSource # NoRequest =>
            ns # <<>> /\ Last(ns).key = <<"assistant", ui.sseSource>>
      <4>1. SUFFICES ASSUME ui.sseSource # NoRequest
                     PROVE  ns # <<>> /\ Last(ns).key = <<"assistant", ui.sseSource>>
        OBVIOUS
      <4>2. ms # <<>> /\ Last(ms).key = <<"assistant", ui.sseSource>> /\ SameKeys(ns, ms)
        BY <2>1, <3>1, <4>1, GeneratingIs DEF Streaming, StreamInv
      <4>3. Len(ms) \in 1 .. Len(ms) /\ Len(ms) >= 1 /\ Last(ms) = ms[Len(ms)]
        BY <1>1, <4>2, LastIs
      <4>4. Len(ns) = Len(ms) /\ ns[Len(ms)].key = ms[Len(ms)].key
        BY <4>2, <4>3 DEF SameKeys
      <4> QED BY <4>2, <4>3, <4>4 DEF Last
    <3>3. ui.sseSource = NoRequest => ui.pending = <<>>
      BY <2>1, NothingWaits
    <3>4. StreamInv(u, last)
      BY <1>2, <3>1, <3>2, <3>3 DEF Streaming, StreamInv, SameSource
    <3>5. PendingStreams(u, overwritten')
      BY <1>2, <1>4, <3>1 DEF Streaming, PendingStreams, SameSource
    <3>6. ExactIn(u, sent, Exempt')
      <4> SUFFICES ASSUME NEW i \in 1 .. Len(ns), ns[i].from = "assistant",
                          ns[i].key[2] \notin Exempt', ns[i].status # "error"
                   PROVE  LET r == ns[i].key[2] IN
                          /\ r = ui.sseSource => ns[i].text \o (ui.pending \o ui.held)
                                                   = Dispatched(r, sent[r])
                          /\ r # ui.sseSource /\ ns[i].text # <<Edited>> =>
                               ns[i].text = Dispatched(r, sent[r])
        BY ZenonT(60), <1>2 DEF ExactIn, SameSource
      <4>1. ns[i] \in Message /\ ns[i].key[1] = "assistant"
        BY <1>1, ElementOfSeq DEF ListOf
      <4>2. ns[i].key = <<"assistant", ns[i].key[2]>> /\ ns[i].key[2] \in Nat
        BY <4>1 DEF Message
      <4>3. reloads = 0 /\ ns[i].key[2] \notin overwritten' /\ ns[i].key[2] \notin Exempt
        BY <4>2 DEF Exempt
      <4>4. PICK j \in 1 .. Len(ms) :
              \/ ns[i] = ms[j]
              \/ /\ ns[i].key = ms[j].key /\ ns[i].status = ms[j].status
                 /\ ns[i].text = <<Edited>> /\ ns[i].key # <<"assistant", ui.sseSource>>
        BY <4>3 DEF Origin
      <4>5. CASE ns[i] = ms[j]
        BY <3>1, <4>3, <4>5 DEF Streaming, ExactIn
      <4>6. CASE ns[i].text = <<Edited>> /\ ns[i].key # <<"assistant", ui.sseSource>>
        BY <4>2, <4>6
      <4> QED BY <4>4, <4>5, <4>6
    <3>7. Requests' = Requests
      BY DEF Requests
    <3>8. Streaming(u, last, sent, overwritten', Exempt')
      BY <1>1, <1>2, <3>1, <3>4, <3>5, <3>6 DEF Streaming
    <3> QED BY <1>3, <2>1, <3>1, <3>7, <3>8
            DEF ModeInv, Streaming, Requests, StreamInv, PendingStreams, ExactIn
  <2>2. CASE ~world.stream
    <3>1. Requesting(ui, last, requests \ aborted, overwritten)
      BY <2>2 DEF ChatInv, ModeInv
    <3>2. PlainInv(u)
      BY <1>2, <3>1 DEF Requesting, PlainInv, SameSource
    <3>3. PendingRequested(u, requests \ aborted, overwritten')
      BY <1>2, <1>4, <3>1 DEF Requesting, PendingRequested, SameRequest
    <3>4. Requesting(u, last, requests \ aborted, overwritten')
      BY <1>1, <1>2, <3>2, <3>3 DEF Requesting
    <3> QED BY <1>3, <2>2, <3>4 DEF ModeInv
  <2> QED BY <2>1, <2>2
<1>6. EditingInv'
  BY <1>2, <1>3 DEF ChatInv, EditingInv, NoKey, SameSource
<1>7. /\ last' \in last .. world.maxRequests
      /\ u.requestId \in 0 .. last' /\ u.abortController \in 0 .. last'
      /\ requests' \subseteq 1 .. last' /\ aborted' \subseteq 1 .. last'
      /\ (editing' = NoKey \/ editing' \in Froms \X (1 .. last'))
  <2>1. last \in last .. world.maxRequests
    BY <1>1
  <2> QED BY <1>2, <2>1 DEF ChatInv, ChatTypes, SameRequest
<1>8. UserSets(u)
  BY DEF u
<1> QED BY <1>2, <1>5, <1>6, <1>7, <1>8, UserKeeps

LEMMA HandleClearMessagesKeeps ==
    ASSUME ChatInv, HandleClearMessages
    PROVE  ChatInv'
<1>1. UserMayAct /\ ~rendered.isGenerating /\ UserSets(UpdateMessages(ui, <<>>))
      /\ editing' = NoKey
      /\ UNCHANGED <<requests, aborted, stored, swallowed, sent, last, reloads, overwritten, world>>
  BY DEF HandleClearMessages
<1>2. ListOf(<<>>, last) /\ Len(<<>>) = 0
  BY EmptySeq DEF ListOf
<1>3. ~Generating(ui)
  BY <1>1 DEF ChatInv, RenderedInv
<1>4. \A i \in 1 .. Len(<<>>) : FALSE
  BY <1>2
<1> DEFINE ns == <<>>
<1>5. ListOf(ns, last) /\ UserSets(UpdateMessages(ui, ns)) /\ \A i \in 1 .. Len(ns) : FALSE
  BY <1>1, <1>2, <1>4
<1> HIDE DEF ns
<1> QED BY <1>1, <1>3, <1>5, ReplaceKeeps

LEMMA RemoveAtIs ==
    ASSUME NEW ms \in Seq(Message), NEW k \in 1 .. Len(ms)
    PROVE  LET ns == RemoveAt(ms, k) IN
           /\ ns \in Seq(Message) /\ Len(ns) = Len(ms) - 1
           /\ \A i \in 1 .. Len(ns) : ns[i] = IF i < k THEN ms[i] ELSE ms[i + 1]
<1> DEFINE a == SubSeq(ms, 1, k - 1)
           b == SubSeq(ms, k + 1, Len(ms))
           ns == a \o b
<1>1. Len(ms) \in Nat /\ \A i \in 1 .. Len(ms) : ms[i] \in Message
  BY LenProperties, ElementOfSeq
<1>2. /\ a \in Seq(Message) /\ Len(a) = k - 1
      /\ \A i \in 1 .. k - 1 : a[i] = ms[i]
  <2> DEFINE lo == 1
             hi == k - 1
             ss == SubSeq(ms, lo, hi)
  <2>1. lo \in Int /\ hi \in Int /\ \A i \in lo .. hi : ms[i] \in Message
    BY <1>1
  <2> HIDE DEF lo, hi
  <2>2. /\ ss \in Seq(Message) /\ Len(ss) = (IF lo <= hi THEN hi - lo + 1 ELSE 0)
        /\ \A i \in 1 .. hi - lo + 1 : ss[i] = ms[lo + i - 1]
    BY <2>1, SubSeqProperties
  <2>3. a = ss
    BY DEF lo, hi
  <2> HIDE DEF ss, a
  <2>4. Len(a) = k - 1
    BY <1>1, <2>2, <2>3 DEF lo, hi
  <2>5. ASSUME NEW i \in 1 .. k - 1 PROVE a[i] = ms[i]
    <3>1. i \in 1 .. hi - lo + 1 /\ lo + i - 1 = i
      BY <1>1 DEF lo, hi
    <3> QED BY <2>2, <2>3, <3>1
  <2> QED BY <2>2, <2>3, <2>4, <2>5
<1>3. /\ b \in Seq(Message) /\ Len(b) = Len(ms) - k
      /\ \A i \in 1 .. Len(ms) - k : b[i] = ms[k + i]
  <2> DEFINE lo == k + 1
             hi == Len(ms)
             ss == SubSeq(ms, lo, hi)
  <2>1. lo \in Int /\ hi \in Int /\ \A i \in lo .. hi : ms[i] \in Message
    BY <1>1
  <2> HIDE DEF lo, hi
  <2>2. /\ ss \in Seq(Message) /\ Len(ss) = (IF lo <= hi THEN hi - lo + 1 ELSE 0)
        /\ \A i \in 1 .. hi - lo + 1 : ss[i] = ms[lo + i - 1]
    BY <2>1, SubSeqProperties
  <2>3. b = ss
    BY DEF lo, hi
  <2> HIDE DEF ss, b
  <2>4. Len(b) = Len(ms) - k
    BY <1>1, <2>2, <2>3 DEF lo, hi
  <2>5. ASSUME NEW i \in 1 .. Len(ms) - k PROVE b[i] = ms[k + i]
    <3>1. i \in 1 .. hi - lo + 1 /\ lo + i - 1 = k + i
      BY <1>1 DEF lo, hi
    <3> QED BY <2>2, <2>3, <3>1
  <2> QED BY <2>2, <2>3, <2>4, <2>5
<1>4. RemoveAt(ms, k) = ns
  BY DEF RemoveAt
<1> HIDE DEF a, b
<1>5. /\ ns \in Seq(Message) /\ Len(ns) = Len(a) + Len(b)
      /\ \A i \in 1 .. Len(a) + Len(b) : ns[i] = IF i <= Len(a) THEN a[i] ELSE b[i - Len(a)]
  BY <1>2, <1>3, ConcatProperties
<1> HIDE DEF ns
<1>6. Len(ns) = Len(ms) - 1
  BY <1>1, <1>2, <1>3, <1>5
<1>7. ASSUME NEW i \in 1 .. Len(ns) PROVE ns[i] = IF i < k THEN ms[i] ELSE ms[i + 1]
  <2>1. i \in 1 .. Len(a) + Len(b) /\ i \in Int
    BY <1>1, <1>5, <1>7
  <2>2. CASE i < k
    <3>1. i <= Len(a) /\ i \in 1 .. k - 1
      BY <1>1, <1>2, <2>1, <2>2
    <3> QED BY <1>2, <1>5, <2>1, <2>2, <3>1
  <2>3. CASE ~(i < k)
    <3>1. ~(i <= Len(a)) /\ i - Len(a) \in 1 .. Len(ms) - k /\ k + (i - Len(a)) = i + 1
      BY <1>1, <1>2, <1>6, <1>7, <2>1, <2>3
    <3> QED BY <1>3, <1>5, <2>1, <2>3, <3>1
  <2> QED BY <2>2, <2>3
<1> QED BY <1>4, <1>5, <1>6, <1>7

LEMMA IndexIs ==
    ASSUME NEW ms, ms \in Seq(Message), NEW k, HasKey(ms, k)
    PROVE  IndexOfKey(ms, k) \in 1 .. Len(ms) /\ ms[IndexOfKey(ms, k)].key = k
BY DEF HasKey, IndexOfKey

LEMMA HandleDeleteMessageKeeps ==
    ASSUME ChatInv, NEW k, HandleDeleteMessage(k)
    PROVE  ChatInv'
<1> DEFINE ms == ui.messages
           d == IndexOfKey(ms, k)
           ns == RemoveAt(ms, d)
<1>1. UserMayAct /\ ~rendered.isGenerating /\ HasKey(rendered.messages, k)
      /\ UserSets(UpdateMessages(ui, ns))
      /\ UNCHANGED <<editing, requests, aborted, stored, swallowed, sent, last, reloads,
                     overwritten, world>>
  BY DEF HandleDeleteMessage
<1>2. ms \in Seq(Message) /\ ListOf(ms, last) /\ Len(ms) \in Nat
      /\ rendered.messages \in Seq(Message)
  BY GeneratingIs, LenProperties DEF ListOf, ChatInv, ChatTypes
<1>3. HasKey(ms, k)
  BY <1>1, <1>2 DEF HasKey, ChatInv, RenderedInv, SameKeys
<1>4. d \in 1 .. Len(ms)
  BY <1>2, <1>3, IndexIs
<1> HIDE DEF d
<1>5. /\ ns \in Seq(Message) /\ Len(ns) = Len(ms) - 1
      /\ \A i \in 1 .. Len(ns) : ns[i] = IF i < d THEN ms[i] ELSE ms[i + 1]
  BY <1>2, <1>4, RemoveAtIs
<1> HIDE DEF ns
<1> DEFINE at(i) == IF i < d THEN i ELSE i + 1
<1>6. \A i \in 1 .. Len(ns) : at(i) \in 1 .. Len(ms) /\ ns[i] = ms[at(i)]
  BY <1>2, <1>4, <1>5
<1>7. \A i, j \in 1 .. Len(ns) : at(i) = at(j) => i = j
  BY <1>2, <1>4, <1>5
<1> HIDE DEF at
<1>8. ListOf(ns, last)
  <2>1. ASSUME NEW i \in 1 .. Len(ns), NEW j \in 1 .. Len(ns), ns[i].key = ns[j].key
        PROVE  i = j
    <3> DEFINE a == at(i)
               b == at(j)
    <3>1. a \in 1 .. Len(ms) /\ b \in 1 .. Len(ms) /\ ms[a].key = ms[b].key
      BY <1>6, <2>1
    <3>2. a = b
      <4> HIDE DEF a, b
      <4> QED BY <1>2, <3>1 DEF ListOf
    <3> QED BY <1>7, <3>2
  <2>2. ASSUME NEW i \in 1 .. Len(ns)
        PROVE  /\ ns[i].key[1] = ns[i].from /\ ns[i].key[2] \in 1 .. last
               /\ ns[i].from = "user" => ns[i].status = "none"
    BY <1>2, <1>6 DEF ListOf
  <2> QED BY <1>5, <2>1, <2>2 DEF ListOf
<1>9. \A i \in 1 .. Len(ns) : Origin(ns[i], ms, ui.sseSource)
  BY <1>6 DEF Origin
<1>10. ~Generating(ui)
  BY <1>1 DEF ChatInv, RenderedInv
<1> QED BY <1>1, <1>8, <1>9, <1>10, ReplaceKeeps

(* The messages of an edit that sets none back are those of the list. *)
LEMMA NotOverwritten ==
    ASSUME ChatInv, NEW i \in 1 .. Len(rendered.messages),
           rendered.messages[i].from = "assistant",
           rendered.messages[i].key[2] \notin Overwrites
    PROVE  i \in 1 .. Len(ui.messages) /\ rendered.messages[i] = ui.messages[i]
<1> DEFINE rs == rendered.messages
           ms == ui.messages
           m == ms[i]
<1>1. rs \in Seq(Message) /\ ListOf(rs, last) /\ ms \in Seq(Message) /\ last \in Nat
      /\ last <= world.maxRequests /\ world.maxRequests \in Nat
  <2>1. ListOf(rs, last) /\ ui \in Hooks /\ last \in Nat /\ last <= world.maxRequests
        /\ world \in ChatSettings
    BY DEF ChatInv, ChatTypes
  <2>2. rs \in Seq(Message)
    BY <2>1 DEF ListOf
  <2>3. ms \in Seq(Message)
    BY <2>1 DEF Hooks
  <2>4. world.maxRequests \in Nat
    BY <2>1 DEF ChatSettings
  <2> QED BY <2>1, <2>2, <2>3, <2>4
<1>2. i \in 1 .. Len(ms) /\ m.key = rs[i].key
  BY DEF ChatInv, RenderedInv, SameKeys
<1>3. rs[i].key = <<"assistant", rs[i].key[2]>> /\ rs[i].key[2] \in Requests
  <2>1. rs[i] \in Message /\ rs[i].key[1] = "assistant" /\ rs[i].key[2] \in 1 .. last
    BY <1>1, ElementOfSeq DEF ListOf
  <2> QED BY <1>1, <2>1 DEF Message, Requests
<1>4. ToSet(ms) = {ms[j] : j \in 1 .. Len(ms)} /\ ToSet(rs) = {rs[j] : j \in 1 .. Len(rs)}
  BY <1>1 DEF ToSet
<1>5. m \in ToSet(rs)
  BY <1>2, <1>3, <1>4 DEF Overwrites
<1>6. PICK j \in 1 .. Len(rs) : m = rs[j]
  BY <1>4, <1>5
<1>7. j = i
  BY <1>1, <1>2, <1>6 DEF ListOf
<1> QED BY <1>2, <1>6, <1>7

LEMMA EditedIs ==
    ASSUME ChatInv, HasKey(rendered.messages, editing)
    PROVE  LET rs == rendered.messages
               ns == EditedMessages
               k == IndexOfKey(rs, editing)
           IN  /\ k \in 1 .. Len(rs) /\ rs[k].key = editing
               /\ ListOf(ns, last) /\ SameKeys(ns, rs) /\ Len(ns) = Len(rs)
               /\ \A i \in 1 .. Len(rs) :
                    /\ ns[i].status = rs[i].status /\ ns[i].from = rs[i].from
                    /\ i # k => ns[i] = rs[i]
               /\ ns[k].text = <<Edited>>
<1> DEFINE rs == rendered.messages
           k == IndexOfKey(rs, editing)
           m == [rs[k] EXCEPT !.text = <<Edited>>]
           ns == [rs EXCEPT ![k] = m]
<1>1. rs \in Seq(Message) /\ ListOf(rs, last)
  BY DEF ChatInv, ChatTypes, ListOf
<1>2. k \in 1 .. Len(rs) /\ rs[k].key = editing
  BY <1>1, IndexIs
<1>3. EditedMessages = ns
  BY DEF EditedMessages
<1> HIDE DEF k
<1>4. rs[k] \in Message /\ <<Edited>> \in Chunks
  BY <1>1, <1>2, ElementOfSeq DEF Chunks, Edited, NoRequest
<1>5. m \in Message /\ m.key = rs[k].key /\ m.from = rs[k].from /\ m.status = rs[k].status
      /\ m.text = <<Edited>>
  BY <1>4 DEF Message
<1> HIDE DEF m
<1>6. /\ ns \in Seq(Message) /\ Len(ns) = Len(rs)
      /\ \A j \in 1 .. Len(rs) : ns[j] = IF j = k THEN m ELSE rs[j]
  BY <1>1, <1>2, <1>5, ExceptSeq
<1> HIDE DEF ns
<1>7. \A i \in 1 .. Len(rs) : /\ ns[i].status = rs[i].status /\ ns[i].from = rs[i].from
                              /\ ns[i].key = rs[i].key
                              /\ i # k => ns[i] = rs[i]
  BY <1>5, <1>6
<1>8. ListOf(ns, last)
  BY <1>1, <1>6, <1>7 DEF ListOf
<1>9. SameKeys(ns, rs) /\ ns[k].text = <<Edited>>
  BY <1>2, <1>5, <1>6, <1>7 DEF SameKeys
<1> QED BY <1>2, <1>3, <1>6, <1>7, <1>8, <1>9 DEF k

LEMMA SaveEditKeeps ==
    ASSUME ChatInv, SaveEdit
    PROVE  ChatInv'
<1> DEFINE rs == rendered.messages
           ms == ui.messages
           ns == EditedMessages
           k == IndexOfKey(rs, editing)
<1>1. UserMayAct /\ HasKey(rs, editing) /\ UserSets(UpdateMessages(ui, ns))
      /\ editing' = NoKey /\ overwritten' = overwritten \cup Overwrites
      /\ UNCHANGED <<requests, aborted, stored, swallowed, sent, last, reloads, world>>
  BY DEF SaveEdit
<1>2. /\ k \in 1 .. Len(rs) /\ rs[k].key = editing
      /\ ListOf(ns, last) /\ SameKeys(ns, rs) /\ Len(ns) = Len(rs)
      /\ \A i \in 1 .. Len(rs) : /\ ns[i].status = rs[i].status /\ ns[i].from = rs[i].from
                                 /\ i # k => ns[i] = rs[i]
      /\ ns[k].text = <<Edited>>
  BY <1>1, EditedIs
<1> HIDE DEF ns, k
<1>3. SameKeys(ns, ms)
  BY <1>2 DEF ChatInv, RenderedInv, SameKeys
<1>4. ASSUME NEW i \in 1 .. Len(ns), ns[i].from = "assistant",
             ns[i].key[2] \notin overwritten'
      PROVE  Origin(ns[i], ms, ui.sseSource)
  <2>1. rs[i].from = "assistant" /\ rs[i].key = ns[i].key
    BY <1>2, <1>4 DEF SameKeys
  <2>2. i \in 1 .. Len(ms) /\ rs[i] = ms[i]
    BY <1>1, <1>2, <1>4, <2>1, NotOverwritten
  <2>3. CASE i # k
    BY <1>2, <1>4, <2>2, <2>3 DEF Origin
  <2>4. CASE i = k
    <3>1. ns[i].key = editing /\ ns[i].status = ms[i].status /\ ns[i].text = <<Edited>>
      BY <1>2, <1>4, <2>1, <2>2, <2>4
    <3>2. editing # <<"assistant", ui.sseSource>>
      <4>1. CASE ui.sseSource = NoRequest
        <5>1. ns[i].key[2] \in 1 .. last /\ last \in Nat
          BY <1>2, <1>4 DEF ListOf, ChatInv, ChatTypes
        <5> QED BY <3>1, <4>1, <5>1 DEF NoRequest
      <4>2. CASE ui.sseSource # NoRequest
        BY <4>2 DEF ChatInv, EditingInv, ModeInv, Requesting, PlainInv
      <4> QED BY <4>1, <4>2
    <3> QED BY <2>1, <2>2, <3>1, <3>2 DEF Origin
  <2> QED BY <2>3, <2>4
<1> QED BY <1>1, <1>2, <1>3, <1>4, ReplaceKeeps

(* A message that no request is going to change. *)
AtRest(m) ==
  /\ overwritten' = {} => ~IsPending(m)
  /\ /\ world.stream /\ m.from = "assistant" /\ m.key[2] \notin Exempt'
     /\ m.status # "error" /\ m.text # <<Edited>>
     => m.text = Dispatched(m.key[2], sent[m.key[2]])

(* The list sent with request n: it ends with the message that waits for  *)
(* the answer, and those before it are at rest.                           *)
Submitted(ms, n) ==
  /\ ListOf(ms, n) /\ ms # <<>> /\ Last(ms) = CreateLoadingAssistantMessage(n)
  /\ \A i \in 1 .. Len(ms) : i # Len(ms) => AtRest(ms[i])

LEMMA DispatchedNone ==
    ASSUME NEW r
    PROVE  Dispatched(r, 0) = <<>> /\ <<>> \o (<<>> \o <<>>) = <<>>
<1>1. Dispatched(r, 0) = <<>>
  BY DEF Dispatched
<1>2. <<>> \in Seq(Nat) /\ <<>> \o <<>> = <<>>
  BY EmptySeq, ConcatEmptySeq
<1> QED BY <1>1, <1>2

LEMMA SubmitStreams ==
    ASSUME ChatInv, world.stream, NEW ms, SubmitMessages(ms), Submitted(ms, last + 1),
           overwritten \subseteq overwritten'
    PROVE  \E u \in Hooks :
             /\ UserSets(u) /\ u.saveTimer /\ SameRequest(ui, u)
             /\ Streaming(u, last + 1, sent, overwritten', Exempt')
             /\ u.sseSource \in {NoRequest, last + 1}
<1> DEFINE n == last + 1
           a == UpdateMessages(ui, ms)
           b == [a EXCEPT !.isRequesting = TRUE, !.held = <<>>, !.pending = <<>>]
           w == SendStreamRequest(b, n)
<1>1. PICK u \in SendChat(a, n) : UserSets(u)
  BY DEF SubmitMessages
<1>2. u \in {w, CloseActiveStream(HandleStreamError(w), n)}
  BY DEF SendChat, SendStreamingChat, StreamStarts
<1>3. ui \in Hooks /\ ms \in Seq(Message) /\ n \in Nat \ {0} /\ n \in Requests
      /\ n <= world.maxRequests /\ world.maxRequests \in Nat /\ sent \in [Requests -> Nat]
      /\ sent[n] = 0 /\ last \in Nat
  <2>1. ui \in Hooks /\ last \in Nat /\ world.maxRequests \in Nat /\ sent \in [Requests -> Nat]
        /\ \A r \in Requests : r > last => sent[r] = 0
    BY DEF ChatInv, ChatTypes, ChatSettings
  <2>2. last < world.maxRequests
    BY DEF SubmitMessages
  <2>3. n \in Requests /\ n > last
    BY <2>1, <2>2 DEF Requests
  <2> QED BY <2>1, <2>2, <2>3 DEF Submitted, ListOf
<1>4. ui.open \subseteq {ui.sseSource}
  BY DEF ChatInv, ModeInv, Streaming, StreamInv
<1>5. /\ a \in Hooks /\ a.messages = ms /\ a.saveTimer /\ SameSource(ui, a) /\ SameRequest(ui, a)
  BY <1>3, UpdateIs
<1> HIDE DEF a, n
<1>6. /\ b \in Hooks /\ b.messages = ms /\ b.saveTimer /\ SameSource(ui, b)
      /\ SameRequest(ui, b) /\ b.isRequesting /\ b.held = <<>> /\ b.pending = <<>>
  BY <1>5, EmptySeq DEF Hooks, Chunks, SameSource, SameRequest
<1> HIDE DEF b
<1>7. /\ w \in Hooks /\ w.messages = ms /\ w.saveTimer /\ SameRequest(ui, w)
      /\ w.isRequesting /\ w.held = <<>> /\ w.pending = <<>> /\ w.isStreaming
      /\ w.sseSource = n /\ w.open = {n} /\ ~w.isStreamComplete
  BY <1>3, <1>4, <1>6 DEF SendStreamRequest, Hooks, SameSource, SameRequest
<1> HIDE DEF w
<1>8. ListOf(ms, n) /\ ms # <<>> /\ Last(ms) = CreateLoadingAssistantMessage(n)
      /\ n # NoRequest
  BY <1>3 DEF Submitted, n, NoRequest
<1>9. Last(ms).key = <<"assistant", n>> /\ Last(ms).from = "assistant"
      /\ Last(ms).text = <<>> /\ Last(ms).status = "loading"
  BY <1>8 DEF CreateLoadingAssistantMessage
<1>10. StreamInv(w, n)
  BY <1>7, <1>8, <1>9 DEF StreamInv
<1>11. PendingStreams(w, overwritten')
  BY <1>7, <1>8 DEF PendingStreams, Submitted, AtRest
<1>12. ExactIn(w, sent, Exempt')
  <2> SUFFICES ASSUME NEW i \in 1 .. Len(ms), ms[i].from = "assistant",
                      ms[i].key[2] \notin Exempt', ms[i].status # "error"
               PROVE  LET r == ms[i].key[2] IN
                      /\ r = n => ms[i].text \o (<<>> \o <<>>) = Dispatched(r, sent[r])
                      /\ r # n /\ ms[i].text # <<Edited>> =>
                           ms[i].text = Dispatched(r, sent[r])
    BY <1>7 DEF ExactIn
  <2>1. CASE i = Len(ms)
    <3>1. ms[i] = Last(ms)
      BY <2>1 DEF Last
    <3>2. ms[i].text = <<>> /\ ms[i].key[2] = n
      BY <1>9, <3>1
    <3> QED BY <1>3, <3>2, DispatchedNone
  <2>2. CASE i # Len(ms)
    <3>1. ms[i].key[2] # n
      <4>1. Len(ms) \in 1 .. Len(ms) /\ Last(ms) = ms[Len(ms)]
        BY <1>3, <1>8, LastIs
      <4>2. ms[i] \in Message /\ ms[i].key[1] = "assistant"
        BY <1>3, <1>8, ElementOfSeq DEF ListOf
      <4>3. ms[i].key = <<"assistant", ms[i].key[2]>>
        BY <4>2 DEF Message
      <4> QED BY <1>8, <1>9, <2>2, <4>1, <4>3 DEF ListOf
    <3> QED BY <2>2, <3>1 DEF Submitted, AtRest
  <2> QED BY <2>1, <2>2
<1>13. Streaming(w, n, sent, overwritten', Exempt')
  BY <1>3, <1>7, <1>8, <1>10, <1>11, <1>12 DEF Streaming
<1>14. AtSource(w, n)
  BY <1>3, <1>7, <1>8, <1>9 DEF AtSource, HasAnswer
<1> DEFINE v == CloseActiveStream(HandleStreamError(w), n)
<1>15. Streaming(v, n, sent, overwritten', Exempt') /\ Background(w, v)
       /\ v.sseSource = NoRequest /\ v.saveTimer
  BY <1>13, <1>14, FailsStream
<1>16. v \in Hooks /\ SameRequest(ui, v)
  <2>1. HandleStreamError(w) \in Hooks /\ SameRequest(w, HandleStreamError(w))
    BY <1>7, ErrorIs DEF Idles
  <2>2. v \in Hooks /\ SameRequest(HandleStreamError(w), v)
    BY <2>1, CloseIs
  <2> QED BY <1>7, <2>1, <2>2 DEF SameRequest
<1> HIDE DEF v
<1>17. CASE u = w
  BY <1>1, <1>7, <1>13, <1>17 DEF n
<1>18. CASE u = v
  BY <1>1, <1>15, <1>16, <1>18 DEF n
<1> QED BY <1>2, <1>17, <1>18 DEF v

LEMMA SubmissionKeeps ==
    ASSUME ChatInv, NEW ms, SubmitMessages(ms), Submitted(ms, last + 1),
           overwritten \subseteq overwritten', editing' \in {editing, NoKey}
    PROVE  ChatInv'
<1> DEFINE n == last + 1
<1>1. last \in Nat /\ n \in Nat \ {0} /\ world.maxRequests \in Nat /\ n <= world.maxRequests
      /\ requests \subseteq 1 .. last /\ aborted \subseteq 1 .. last /\ ui \in Hooks
      /\ ui.requestId \in 0 .. last /\ ui.abortController \in 0 .. last
      /\ (editing = NoKey \/ editing \in Froms \X (1 .. last))
  BY DEF ChatInv, ChatTypes, ChatSettings, SubmitMessages
<1>2. /\ requests' = IF world.stream THEN requests ELSE requests \cup {n}
      /\ last' = n
      /\ UNCHANGED <<aborted, stored, swallowed, sent, reloads, world>>
  BY DEF SubmitMessages
<1>3. /\ last' \in last .. world.maxRequests
      /\ requests' \subseteq 1 .. last' /\ aborted' \subseteq 1 .. last'
      /\ (editing' = NoKey \/ editing' \in Froms \X (1 .. last'))
  BY <1>1, <1>2
<1>4. editing' # <<"assistant", n>>
  BY <1>1 DEF NoKey
<1>5. CASE world.stream
  <2>1. PICK u \in Hooks :
          /\ UserSets(u) /\ u.saveTimer /\ SameRequest(ui, u)
          /\ Streaming(u, n, sent, overwritten', Exempt') /\ u.sseSource \in {NoRequest, n}
    BY <1>5, SubmitStreams
  <2>2. ui' = u
    BY <2>1 DEF UserSets
  <2>3. Requests' = Requests /\ requests' = {}
    BY <1>2, <1>5 DEF Requests, ChatInv, ModeInv
  <2>4. ModeInv'
    BY <1>2, <1>5, <2>1, <2>2, <2>3
       DEF ModeInv, Streaming, StreamInv, PendingStreams, ExactIn, Requests
  <2>5. EditingInv'
    BY <1>4, <2>1, <2>2 DEF EditingInv
  <2>6. u.requestId \in 0 .. last' /\ u.abortController \in 0 .. last'
    BY <1>1, <1>2, <2>1 DEF SameRequest
  <2> QED BY <1>2, <1>3, <2>1, <2>4, <2>5, <2>6, UserKeeps
<1>6. CASE ~world.stream
  <2> DEFINE a == UpdateMessages(ui, ms)
             u == [a EXCEPT !.requestId = n, !.abortController = n, !.isRequesting = TRUE]
  <2>1. UserSets(u)
    BY <1>6 DEF SubmitMessages, SendChat, SendNonStreamingChat
  <2>2. ms \in Seq(Message) /\ ListOf(ms, n)
    BY DEF Submitted, ListOf
  <2>3. /\ a \in Hooks /\ a.messages = ms /\ a.saveTimer /\ SameSource(ui, a)
        /\ a.pending = ui.pending /\ a.held = ui.held /\ a.flushTimer = ui.flushTimer
    BY <1>1, <2>2, UpdateIs
  <2> HIDE DEF a
  <2>4. /\ u \in Hooks /\ u.messages = ms /\ u.saveTimer /\ SameSource(ui, u)
        /\ u.pending = ui.pending /\ u.held = ui.held /\ u.flushTimer = ui.flushTimer
        /\ u.requestId = n /\ u.abortController = n /\ u.isRequesting
    <3> HIDE DEF n
    <3> QED BY <1>1, <2>3 DEF Hooks, SameSource
  <2>5. ui' = u
    BY <2>1 DEF UserSets
  <2> HIDE DEF u
  <2>6. PlainInv(u)
    BY <1>6, <2>4 DEF PlainInv, SameSource, ChatInv, ModeInv, Requesting
  <2>7. n \in requests' \ aborted'
    BY <1>1, <1>2, <1>6
  <2>8. PendingRequested(u, requests' \ aborted', overwritten')
    <3> SUFFICES ASSUME overwritten' = {}, NEW i \in 1 .. Len(ms), IsPending(ms[i])
                 PROVE  i = Len(ms) /\ ms[i].key[2] = n
      BY <2>4, <2>7 DEF PendingRequested
    <3>1. i = Len(ms)
      BY DEF Submitted, AtRest
    <3>2. ms[i] = CreateLoadingAssistantMessage(n)
      BY <3>1 DEF Submitted, Last
    <3> QED BY <3>1, <3>2 DEF CreateLoadingAssistantMessage
  <2>9. ModeInv'
    <3>1. Requesting(u, n, requests' \ aborted', overwritten')
      BY <1>1, <2>2, <2>4, <2>6, <2>8 DEF Requesting
    <3> QED BY <1>2, <1>6, <2>5, <3>1 DEF ModeInv
  <2>10. EditingInv'
    BY <1>2, <1>6 DEF EditingInv
  <2>11. u.requestId \in 0 .. last' /\ u.abortController \in 0 .. last'
    BY <1>1, <1>2, <2>4
  <2> QED BY <1>2, <1>3, <2>1, <2>4, <2>9, <2>10, <2>11, UserKeeps
<1> QED BY <1>5, <1>6

LEMMA AppendSubmits ==
    ASSUME last \in Nat, NEW ps, ListOf(ps, last + 1),
           \A i \in 1 .. Len(ps) : ps[i].key # <<"assistant", last + 1>> /\ AtRest(ps[i])
    PROVE  Submitted(Append(ps, CreateLoadingAssistantMessage(last + 1)), last + 1)
<1> DEFINE n == last + 1
           m == CreateLoadingAssistantMessage(n)
           ms == Append(ps, m)
<1>1. ps \in Seq(Message) /\ Len(ps) \in Nat
  BY LenProperties DEF ListOf
<1>2. n \in Nat /\ n \in 1 .. n
  OBVIOUS
<1> HIDE DEF n
<1>3. m \in Message /\ m.key = <<"assistant", n>> /\ m.from = "assistant"
  <2>1. <<>> \in Chunks
    BY EmptySeq DEF Chunks
  <2> QED BY <1>2, <2>1 DEF CreateLoadingAssistantMessage, Message, Froms
<1> HIDE DEF m
<1>4. /\ ms \in Seq(Message) /\ ms # <<>> /\ Len(ms) = Len(ps) + 1
      /\ \A i \in 1 .. Len(ps) : ms[i] = ps[i]
      /\ ms[Len(ps) + 1] = m
  BY <1>1, <1>3, AppendProperties
<1> HIDE DEF ms
<1>5. \A i \in 1 .. Len(ms) : i # Len(ms) => i \in 1 .. Len(ps) /\ ms[i] = ps[i]
  BY <1>1, <1>4
<1>6. ms[Len(ms)] = m
  BY <1>4
<1>7. ASSUME NEW i \in 1 .. Len(ms)
      PROVE  /\ ms[i].key[1] = ms[i].from /\ ms[i].key[2] \in 1 .. n
             /\ ms[i].from = "user" => ms[i].status = "none"
  <2>1. CASE i # Len(ms)
    BY <1>5, <1>7, <2>1 DEF ListOf, n
  <2>2. CASE i = Len(ms)
    BY <1>2, <1>3, <1>6, <2>2
  <2> QED BY <2>1, <2>2
<1>8. ASSUME NEW i \in 1 .. Len(ms), NEW j \in 1 .. Len(ms), ms[i].key = ms[j].key
      PROVE  i = j
  <2>1. CASE i # Len(ms) /\ j # Len(ms)
    BY <1>5, <1>8, <2>1 DEF ListOf
  <2>2. CASE i = Len(ms) \/ j = Len(ms)
    <3>1. \A l \in 1 .. Len(ms) : l # Len(ms) => ms[l].key # m.key
      BY <1>3, <1>5 DEF n
    <3> QED BY <1>6, <1>8, <2>2, <3>1
  <2> QED BY <2>1, <2>2
<1>9. ListOf(ms, n)
  BY <1>4, <1>7, <1>8 DEF ListOf
<1>10. \A i \in 1 .. Len(ms) : i # Len(ms) => AtRest(ms[i])
  BY <1>5
<1>11. Last(ms) = m
  BY <1>6 DEF Last
<1> QED BY <1>4, <1>9, <1>10, <1>11 DEF Submitted, ms, m, n

LEMMA PrefixIs ==
    ASSUME NEW ms, NEW n \in Nat, ListOf(ms, n), NEW k \in 0 .. Len(ms)
    PROVE  LET ps == SubSeq(ms, 1, k) IN
           /\ ListOf(ps, n + 1) /\ Len(ps) = k
           /\ \A i \in 1 .. k : i \in 1 .. Len(ms) /\ ps[i] = ms[i]
           /\ \A i \in 1 .. Len(ps) : ps[i].key # <<"assistant", n + 1>>
<1> DEFINE lo == 1
           ps == SubSeq(ms, lo, k)
<1>1. ms \in Seq(Message) /\ Len(ms) \in Nat /\ k \in Nat /\ k <= Len(ms)
  BY LenProperties DEF ListOf
<1>2. \A i \in 1 .. k : i \in 1 .. Len(ms)
  BY <1>1
<1>3. lo \in Int /\ k \in Int /\ \A i \in lo .. k : ms[i] \in Message
  BY <1>1, <1>2, ElementOfSeq
<1> HIDE DEF lo
<1>4. /\ ps \in Seq(Message) /\ Len(ps) = (IF lo <= k THEN k - lo + 1 ELSE 0)
      /\ \A i \in 1 .. k - lo + 1 : ps[i] = ms[lo + i - 1]
  BY <1>3, SubSeqProperties
<1>5. SubSeq(ms, 1, k) = ps
  BY DEF lo
<1> HIDE DEF ps
<1>6. Len(ps) = k
  BY <1>1, <1>4 DEF lo
<1>7. ASSUME NEW i \in 1 .. k PROVE ps[i] = ms[i]
  <2>1. i \in 1 .. k - lo + 1 /\ lo + i - 1 = i
    BY <1>1 DEF lo
  <2> QED BY <1>4, <2>1
<1>8. ASSUME NEW i \in 1 .. k
      PROVE  /\ ps[i].key[1] = ps[i].from /\ ps[i].key[2] \in 1 .. n + 1
             /\ ps[i].from = "user" => ps[i].status = "none"
             /\ ps[i].key # <<"assistant", n + 1>>
  <2>1. i \in 1 .. Len(ms) /\ ps[i] = ms[i]
    BY <1>2, <1>7
  <2>2. ms[i].key[2] \in 1 .. n
    BY <2>1 DEF ListOf
  <2>3. ms[i].key[2] \in 1 .. n + 1 /\ ms[i].key[2] # n + 1
    BY <2>2
  <2> QED BY <2>1, <2>3 DEF ListOf
<1>9. \A i, j \in 1 .. k : ps[i].key = ps[j].key => i = j
  BY <1>2, <1>7 DEF ListOf
<1>10. ListOf(ps, n + 1)
  BY <1>4, <1>6, <1>8, <1>9 DEF ListOf
<1> QED BY <1>2, <1>5, <1>6, <1>7, <1>8, <1>10

(* While nothing is generated every message rendered is at rest. *)
LEMMA RestsIdle ==
    ASSUME ChatInv, ~rendered.isGenerating, UNCHANGED <<overwritten, reloads>>,
           NEW i \in 1 .. Len(rendered.messages)
    PROVE  AtRest(rendered.messages[i])
<1> DEFINE m == rendered.messages[i]
<1>1. overwritten = {} => ~IsPending(m)
  BY DEF ChatInv, RenderedInv
<1>2. ASSUME world.stream, m.from = "assistant", m.key[2] \notin Exempt,
             m.status # "error", m.text # <<Edited>>
      PROVE  m.text = Dispatched(m.key[2], sent[m.key[2]])
  <2>1. rendered.messages = ui.messages /\ Streaming(ui, last, sent, overwritten, Exempt)
        /\ ui.sseSource = NoRequest
    BY <1>2, GeneratingIs DEF ChatInv, RenderedInv, ModeInv
  <2>2. m.key[2] # NoRequest
    BY <1>2, <2>1, OthersElsewhere
  <2> QED BY <1>2, <2>1, <2>2 DEF Streaming, ExactIn
<1>3. Exempt' = Exempt
  BY DEF Exempt
<1> QED BY <1>1, <1>2, <1>3 DEF AtRest

LEMMA TwoAppended ==
    ASSUME NEW rs \in Seq(Message), NEW a \in Message, NEW b \in Message
    PROVE  rs \o <<a, b>> = Append(Append(rs, a), b)
<1> DEFINE q == <<a, b>>
           l == rs \o q
           r1 == Append(rs, a)
           r == Append(r1, b)
<1>1. q \in Seq(Message) /\ Len(q) = 2 /\ q[1] = a /\ q[2] = b /\ Len(rs) \in Nat
  BY LenProperties
<1> HIDE DEF q
<1>2. /\ l \in Seq(Message) /\ Len(l) = Len(rs) + Len(q)
      /\ \A i \in 1 .. Len(rs) + Len(q) : l[i] = IF i <= Len(rs) THEN rs[i] ELSE q[i - Len(rs)]
  BY <1>1, ConcatProperties
<1>3. /\ r1 \in Seq(Message) /\ Len(r1) = Len(rs) + 1
      /\ \A i \in 1 .. Len(rs) : r1[i] = rs[i]
      /\ r1[Len(rs) + 1] = a
  BY AppendProperties
<1> HIDE DEF r1
<1>4. /\ r \in Seq(Message) /\ Len(r) = Len(r1) + 1
      /\ \A i \in 1 .. Len(r1) : r[i] = r1[i]
      /\ r[Len(r1) + 1] = b
  BY <1>3, AppendProperties
<1> HIDE DEF l, r
<1>5. Len(l) = Len(r)
  BY <1>1, <1>2, <1>3, <1>4
<1>6. ASSUME NEW i \in 1 .. Len(l) PROVE l[i] = r[i]
  <2>1. i \in 1 .. Len(rs) + Len(q) /\ i \in 1 .. Len(rs) + 2 /\ i \in Nat
    BY <1>1, <1>2, <1>6
  <2>2. CASE i <= Len(rs)
    <3>1. i \in 1 .. Len(rs) /\ i \in 1 .. Len(r1)
      BY <1>1, <1>3, <2>1, <2>2
    <3> QED BY <1>2, <1>3, <1>4, <2>1, <2>2, <3>1
  <2>3. CASE i = Len(rs) + 1
    <3>1. ~(i <= Len(rs)) /\ i - Len(rs) = 1 /\ i \in 1 .. Len(r1)
      BY <1>1, <1>3, <2>1, <2>3
    <3> QED BY <1>1, <1>2, <1>3, <1>4, <2>1, <2>3, <3>1
  <2>4. CASE i = Len(rs) + 2
    <3>1. ~(i <= Len(rs)) /\ i - Len(rs) = 2 /\ i = Len(r1) + 1
      BY <1>1, <1>3, <2>1, <2>4
    <3> QED BY <1>1, <1>2, <1>4, <2>1, <3>1
  <2> QED BY <1>1, <2>1, <2>2, <2>3, <2>4
<1>7. l = r
  BY <1>2, <1>4, <1>5, <1>6, SeqEqual
<1> QED BY <1>7 DEF l, r, r1, q

LEMMA HandleSendMessageKeeps ==
    ASSUME ChatInv, HandleSendMessage
    PROVE  ChatInv'
<1> DEFINE rs == rendered.messages
           n == last + 1
           a == User(n)
           b == CreateLoadingAssistantMessage(n)
           ps == Append(rs, a)
           ms == rs \o <<a, b>>
<1>1. ~rendered.isGenerating /\ SubmitMessages(ms) /\ editing' = editing
      /\ overwritten' = overwritten
  BY DEF HandleSendMessage
<1>2. reloads' = reloads
  BY <1>1 DEF SubmitMessages
<1>3. rs \in Seq(Message) /\ ListOf(rs, last) /\ last \in Nat /\ Len(rs) \in Nat
      /\ n \in Nat /\ n \in 1 .. n /\ n > last
  BY LenProperties DEF ChatInv, ChatTypes, ListOf
<1>4. \A i \in 1 .. Len(rs) : AtRest(rs[i])
  BY <1>1, <1>2, RestsIdle
<1>5. a \in Message /\ a.key = <<"user", n>> /\ a.from = "user" /\ a.status = "none"
  <2>1. <<Prompt>> \in Chunks
    BY DEF Chunks, Prompt, NoRequest
  <2> HIDE DEF n
  <2> QED BY <1>3, <2>1 DEF User, Message, Froms
<1>6. b \in Message
  <2>1. <<>> \in Chunks
    BY EmptySeq DEF Chunks
  <2> HIDE DEF n
  <2> QED BY <1>3, <2>1 DEF CreateLoadingAssistantMessage, Message, Froms
<1>7. AtRest(a)
  BY <1>5 DEF AtRest, IsPending
<1> HIDE DEF a, b
<1>8. ms = Append(ps, b)
  BY <1>3, <1>5, <1>6, TwoAppended
<1>9. /\ ps \in Seq(Message) /\ Len(ps) = Len(rs) + 1
      /\ \A i \in 1 .. Len(rs) : ps[i] = rs[i]
      /\ ps[Len(rs) + 1] = a
  BY <1>3, <1>5, AppendProperties
<1> HIDE DEF ps, ms
<1>10. \A i \in 1 .. Len(ps) : (i \in 1 .. Len(rs) /\ ps[i] = rs[i])
                               \/ (i = Len(rs) + 1 /\ ps[i] = a)
  BY <1>3, <1>9
<1>11. ASSUME NEW i \in 1 .. Len(rs)
       PROVE  rs[i].key[2] \in 1 .. n /\ rs[i].key[2] # n
  <2>1. rs[i].key[2] \in 1 .. last
    BY <1>3, <1>11 DEF ListOf
  <2> QED BY <1>3, <2>1
<1>12. ListOf(ps, n)
  <2>1. ASSUME NEW i \in 1 .. Len(ps)
        PROVE  /\ ps[i].key[1] = ps[i].from /\ ps[i].key[2] \in 1 .. n
               /\ ps[i].from = "user" => ps[i].status = "none"
    BY <1>3, <1>5, <1>10, <1>11, <2>1 DEF ListOf
  <2>2. ASSUME NEW i \in 1 .. Len(ps), NEW j \in 1 .. Len(ps), ps[i].key = ps[j].key
        PROVE  i = j
    <3>1. \A x \in 1 .. Len(rs) : rs[x].key[2] # a.key[2]
      BY <1>5, <1>11
    <3>2. CASE i \in 1 .. Len(rs) /\ j \in 1 .. Len(rs)
      <4>1. rs[i].key = rs[j].key
        BY <1>9, <2>2, <3>2
      <4> QED BY <1>3, <3>2, <4>1 DEF ListOf
    <3>3. CASE i = Len(rs) + 1 /\ j \in 1 .. Len(rs)
      BY <1>9, <2>2, <3>1, <3>3
    <3>4. CASE i \in 1 .. Len(rs) /\ j = Len(rs) + 1
      BY <1>9, <2>2, <3>1, <3>4
    <3>5. CASE i = Len(rs) + 1 /\ j = Len(rs) + 1
      BY <3>5
    <3> QED BY <1>10, <3>2, <3>3, <3>4, <3>5
  <2> QED BY <1>9, <2>1, <2>2 DEF ListOf
<1>13. \A i \in 1 .. Len(ps) : ps[i].key # <<"assistant", n>> /\ AtRest(ps[i])
  BY <1>4, <1>5, <1>7, <1>10, <1>11
<1>14. Submitted(ms, n)
  BY <1>3, <1>8, <1>12, <1>13, AppendSubmits DEF b
<1> QED BY <1>1, <1>14, SubmissionKeeps

LEMMA HandleRegenerateMessageKeeps ==
    ASSUME ChatInv, NEW k, HandleRegenerateMessage(k)
    PROVE  ChatInv'
<1> DEFINE rs == rendered.messages
           i == IndexOfKey(rs, k)
           c == IF rs[i].from = "user" THEN i ELSE i - 1
           ps == SubSeq(rs, 1, c)
           ms == Append(ps, CreateLoadingAssistantMessage(last + 1))
<1>1. ~rendered.isGenerating /\ SubmitMessages(ms) /\ editing' = editing
      /\ overwritten' = overwritten /\ HasKey(rs, k)
  BY DEF HandleRegenerateMessage
<1>2. reloads' = reloads
  BY <1>1 DEF SubmitMessages
<1>3. rs \in Seq(Message) /\ ListOf(rs, last) /\ last \in Nat /\ Len(rs) \in Nat
  BY LenProperties DEF ChatInv, ChatTypes, ListOf
<1>4. i \in 1 .. Len(rs)
  BY <1>1, <1>3, IndexIs
<1>5. c \in 0 .. Len(rs)
  <2> HIDE DEF i
  <2> QED BY <1>3, <1>4
<1> HIDE DEF i, c
<1>6. /\ ListOf(ps, last + 1) /\ Len(ps) = c
      /\ \A j \in 1 .. c : j \in 1 .. Len(rs) /\ ps[j] = rs[j]
      /\ \A j \in 1 .. Len(ps) : ps[j].key # <<"assistant", last + 1>>
  BY <1>3, <1>5, PrefixIs
<1> HIDE DEF ps
<1>7. \A j \in 1 .. Len(ps) : AtRest(ps[j])
  BY <1>1, <1>2, <1>6, RestsIdle
<1>8. Submitted(ms, last + 1)
  BY <1>3, <1>6, <1>7, AppendSubmits
<1> QED BY <1>1, <1>8, SubmissionKeeps

LEMMA SaveEditAndSubmitKeeps ==
    ASSUME ChatInv, SaveEditAndSubmit
    PROVE  ChatInv'
<1> DEFINE rs == rendered.messages
           ns == EditedMessages
           i == IndexOfKey(rs, editing)
           ps == SubSeq(ns, 1, i)
           ms == Append(ps, CreateLoadingAssistantMessage(last + 1))
<1>1. HasKey(rs, editing) /\ rs[i].from = "user" /\ SubmitMessages(ms) /\ editing' = NoKey
      /\ overwritten' = overwritten \cup Overwrites
  BY DEF SaveEditAndSubmit
<1>2. reloads' = reloads
  BY <1>1 DEF SubmitMessages
<1>3. /\ i \in 1 .. Len(rs) /\ ListOf(ns, last) /\ SameKeys(ns, rs) /\ Len(ns) = Len(rs)
      /\ \A j \in 1 .. Len(rs) : /\ ns[j].status = rs[j].status /\ ns[j].from = rs[j].from
                                 /\ j # i => ns[j] = rs[j]
  BY <1>1, EditedIs
<1>4. rs \in Seq(Message) /\ ListOf(rs, last) /\ last \in Nat /\ Len(rs) \in Nat
  BY LenProperties DEF ChatInv, ChatTypes, ListOf
<1> HIDE DEF ns, i
<1>5. i \in 0 .. Len(ns)
  BY <1>3, <1>4
<1>6. /\ ListOf(ps, last + 1) /\ Len(ps) = i
      /\ \A j \in 1 .. i : j \in 1 .. Len(ns) /\ ps[j] = ns[j]
      /\ \A j \in 1 .. Len(ps) : ps[j].key # <<"assistant", last + 1>>
  BY <1>3, <1>4, <1>5, PrefixIs
<1> HIDE DEF ps
<1>7. ASSUME NEW j \in 1 .. Len(ps) PROVE AtRest(ps[j])
  <2>1. j \in 1 .. Len(rs) /\ ps[j] = ns[j] /\ j <= i
    BY <1>3, <1>4, <1>6
  <2>2. CASE j = i
    <3>1. ns[j].from = "user" /\ ns[j].status = "none"
      BY <1>1, <1>3, <2>1, <2>2 DEF ListOf
    <3> QED BY <2>1, <3>1 DEF AtRest, IsPending
  <2>3. CASE j # i
    <3>1. ns[j] = rs[j] /\ j < i /\ j # Len(rs)
      BY <1>3, <1>4, <2>1, <2>3
    <3>2. overwritten' = {} => ~IsPending(rs[j])
      BY <1>1, <2>1, <3>1 DEF ChatInv, RenderedInv
    <3>3. ASSUME world.stream, rs[j].from = "assistant", rs[j].key[2] \notin Exempt',
                 rs[j].status # "error", rs[j].text # <<Edited>>
          PROVE  rs[j].text = Dispatched(rs[j].key[2], sent[rs[j].key[2]])
      <4>1. rs[j] \in Message
        BY <1>4, <2>1, ElementOfSeq
      <4>2. rs[j].key[2] \in Nat
        BY <4>1 DEF Message
      <4>3. rs[j].key[2] \notin Exempt /\ rs[j].key[2] \notin Overwrites
        BY <1>1, <1>2, <3>3, <4>2 DEF Exempt
      <4>4. j \in 1 .. Len(ui.messages) /\ rs[j] = ui.messages[j]
        BY <2>1, <3>3, <4>3, NotOverwritten
      <4>5. Streaming(ui, last, sent, overwritten, Exempt) /\ Len(rs) = Len(ui.messages)
        BY <3>3 DEF ChatInv, ModeInv, RenderedInv, SameKeys
      <4>6. rs[j].key[2] # ui.sseSource
        BY <3>1, <3>3, <4>4, <4>5, OthersElsewhere
      <4> QED BY <3>3, <4>3, <4>4, <4>5, <4>6 DEF Streaming, ExactIn
    <3> QED BY <2>1, <3>1, <3>2, <3>3 DEF AtRest
  <2> QED BY <2>2, <2>3
<1>8. Submitted(ms, last + 1)
  BY <1>4, <1>6, <1>7, AppendSubmits
<1> QED BY <1>1, <1>8, SubmissionKeeps

-----------------------------------------------------------------------------
(* Leaving the page and coming back.                                        *)

(* Max chooses the greatest element of a bounded set: the number that is   *)
(* least below the bound, by the well-foundedness of the natural numbers.  *)
LEMMA MaxIs ==
    ASSUME NEW n \in Nat, NEW S \in SUBSET (0 .. n), S # {}
    PROVE  Max(S) \in S /\ \A y \in S : Max(S) >= y
<1> DEFINE Less == {ss \in Nat \X Nat : ss[1] < ss[2]}
           T == {n - x : x \in S}
<1>1. IsWellFoundedOn(Less, Nat)
  BY NatLessThanWellFounded DEF OpToRel
<1>2. \A a, b \in Nat : a < b => <<a, b>> \in Less
  OBVIOUS
<1>3. T \subseteq Nat /\ T # {} /\ \A x \in S : n - x \in T /\ x \in Nat /\ n - x \in Nat
  <2>1. \A x \in S : x \in Nat /\ n - x \in Nat
    <3> SUFFICES ASSUME NEW x \in S PROVE x \in Nat /\ n - x \in Nat
      OBVIOUS
    <3>1. x \in 0 .. n
      OBVIOUS
    <3> QED BY <3>1
  <2>2. \A x \in S : n - x \in T
    OBVIOUS
  <2>3. T # {}
    BY <2>2
  <2>4. T \subseteq Nat
    BY <2>1
  <2> QED BY <2>1, <2>2, <2>3, <2>4
<1> HIDE DEF Less
<1>4. PICK t \in T : \A y \in T : ~(<<y, t>> \in Less)
  <2> HIDE DEF T
  <2> QED BY <1>1, <1>3, WFMin
<1>5. PICK x \in S : t = n - x
  BY <1>4
<1>6. \A y \in S : x >= y
  <2> SUFFICES ASSUME NEW y \in S PROVE x >= y
    OBVIOUS
  <2>1. n - y \in T /\ n - y \in Nat /\ n - x \in Nat /\ x \in Nat /\ y \in Nat
    BY <1>3, <1>5
  <2>2. ~(n - y < n - x)
    BY <1>2, <1>4, <1>5, <2>1
  <2> QED BY <2>1, <2>2
<1> QED BY <1>5, <1>6 DEF Max

LEMMA NormalizedIs ==
    ASSUME NEW ms, NEW n \in Nat, ListOf(ms, n)
    PROVE  LET ns == [i \in DOMAIN ms |-> NormalizeStoredMessageForLoad(ms[i])] IN
           ListOf(ns, n) /\ (LastPending(ms) => LastPending(ns))
<1> DEFINE ns == [i \in DOMAIN ms |-> NormalizeStoredMessageForLoad(ms[i])]
<1>1. ms \in Seq(Message) /\ Len(ms) \in Nat /\ DOMAIN ms = 1 .. Len(ms)
  BY LenProperties DEF ListOf
<1>2. ASSUME NEW i \in 1 .. Len(ms)
      PROVE  /\ NormalizeStoredMessageForLoad(ms[i]) \in Message
             /\ NormalizeStoredMessageForLoad(ms[i]).key = ms[i].key
             /\ NormalizeStoredMessageForLoad(ms[i]).from = ms[i].from
             /\ IsPending(NormalizeStoredMessageForLoad(ms[i])) => IsPending(ms[i])
             /\ ms[i].from = "user" => NormalizeStoredMessageForLoad(ms[i]).status = "none"
  <2>1. ms[i] \in Message /\ (ms[i].from = "user" => ~IsPending(ms[i]) /\ ms[i].status = "none")
    BY <1>1, <1>2, ElementOfSeq DEF ListOf, IsPending
  <2> QED BY <2>1 DEF NormalizeStoredMessageForLoad, CompleteAssistantMessage, IsPending, Message
<1>3. ns \in [1 .. Len(ms) -> Message]
      /\ \A i \in 1 .. Len(ms) : ns[i] = NormalizeStoredMessageForLoad(ms[i])
  BY <1>1, <1>2
<1> HIDE DEF ns
<1>4. ns \in Seq(Message) /\ Len(ns) = Len(ms)
  BY <1>1, <1>3
<1>5. \A i \in 1 .. Len(ms) : /\ ns[i].key = ms[i].key /\ ns[i].from = ms[i].from
                              /\ IsPending(ns[i]) => IsPending(ms[i])
                              /\ ms[i].from = "user" => ns[i].status = "none"
  BY <1>2, <1>3
<1>6. ListOf(ns, n)
  BY <1>4, <1>5 DEF ListOf
<1>7. LastPending(ms) => LastPending(ns)
  BY <1>4, <1>5 DEF LastPending
<1> QED BY <1>6, <1>7 DEF ns

LEMMA TrimmedIs ==
    ASSUME NEW ms, NEW n \in Nat, ListOf(ms, n)
    PROVE  LET ns == TrimMessagesByContentSize(ms) IN
           /\ ListOf(ns, n) /\ Len(ns) \in Nat /\ Len(ns) <= Len(ms)
           /\ LastPending(ms) => LastPending(ns)
<1> DEFINE fits == {k \in 0 .. Len(ms) : k <= 1 \/ Size(LastOf(ms, k)) <= MAX_LOADED_SIZE}
           x == Max(fits)
<1>1. ms \in Seq(Message) /\ Len(ms) \in Nat
  BY LenProperties DEF ListOf
<1>2. fits \in SUBSET (0 .. Len(ms)) /\ 0 \in fits
  BY <1>1
<1>3. TrimMessagesByContentSize(ms) = LastOf(ms, x)
  BY DEF TrimMessagesByContentSize
<1>4. x \in Nat
  <2> HIDE DEF fits
  <2>1. x \in fits
    BY <1>1, <1>2, MaxIs
  <2>2. x \in 0 .. Len(ms)
    BY <1>2, <2>1
  <2> QED BY <1>1, <2>2
<1> HIDE DEF x
<1>5. ListOf(LastOf(ms, x), n) /\ (LastPending(ms) => LastPending(LastOf(ms, x)))
  BY <1>4, SuffixIs
<1>6. Len(LastOf(ms, x)) \in Nat /\ Len(LastOf(ms, x)) <= Len(ms)
  BY <1>1, <1>4, LastOfIs
<1> QED BY <1>3, <1>5, <1>6

LEMMA SanitizedIs ==
    ASSUME NEW ms, NEW n \in Nat, ListOf(ms, n)
    PROVE  LET ns == SanitizeMessagesOnLoad(ms) IN
           /\ ListOf(ns, n) /\ Len(ns) = Len(ms)
           /\ LastPending(ms) => \A i \in 1 .. Len(ns) : ~IsPending(ns[i])
<1> DEFINE stuck == {i \in DOMAIN ms : ms[i].from = "assistant" /\ IsPending(ms[i])}
           x == Max(stuck)
           m == FailedLast(ms[x])
           ns == [ms EXCEPT ![x] = m]
<1>1. ms \in Seq(Message) /\ Len(ms) \in Nat /\ DOMAIN ms = 1 .. Len(ms)
  BY LenProperties DEF ListOf
<1>2. ASSUME NEW i \in 1 .. Len(ms), IsPending(ms[i]) PROVE i \in stuck
  <2>1. ms[i] \in Message /\ ms[i].from # "user"
    BY <1>1, <1>2, ElementOfSeq DEF ListOf, IsPending
  <2>2. ms[i].from = "assistant"
    BY <2>1 DEF Message, Froms
  <2> QED BY <1>1, <1>2, <2>2
<1>3. CASE stuck = {}
  <2>1. SanitizeMessagesOnLoad(ms) = ms
    BY <1>3 DEF SanitizeMessagesOnLoad
  <2> QED BY <1>2, <1>3, <2>1
<1>4. CASE stuck # {}
  <2>1. stuck \in SUBSET (0 .. Len(ms))
    BY <1>1
  <2>2. x \in stuck
    <3> HIDE DEF stuck
    <3> QED BY <1>1, <1>4, <2>1, MaxIs
  <2>3. x \in 1 .. Len(ms) /\ IsPending(ms[x]) /\ ms[x].from = "assistant"
    <3> HIDE DEF x
    <3> QED BY <1>1, <2>2
  <2>4. SanitizeMessagesOnLoad(ms)
          = [ms EXCEPT ![x].text = <<Error>>, ![x].status = "error"]
    BY <1>4 DEF SanitizeMessagesOnLoad
  <2> HIDE DEF x
  <2>5. ms[x] \in Message
    BY <1>1, <2>3, ElementOfSeq
  <2>6. [ms EXCEPT ![x].text = <<Error>>, ![x].status = "error"] = ns
    BY <1>1, <2>3 DEF FailedLast
  <2>7. m \in Message /\ m.key = ms[x].key /\ m.from = "assistant" /\ m.status = "error"
    BY <2>3, <2>5, EndsAre
  <2> HIDE DEF m
  <2>8. /\ ns \in Seq(Message) /\ Len(ns) = Len(ms)
        /\ \A j \in 1 .. Len(ms) : ns[j] = IF j = x THEN m ELSE ms[j]
    BY <1>1, <2>3, <2>7, ExceptSeq
  <2> HIDE DEF ns
  <2>9. \A i \in 1 .. Len(ms) : /\ ns[i].key = ms[i].key /\ ns[i].from = ms[i].from
                                /\ ms[i].from = "user" => ns[i].status = ms[i].status
    BY <2>3, <2>7, <2>8
  <2>10. ListOf(ns, n)
    BY <2>8, <2>9 DEF ListOf
  <2>11. ASSUME LastPending(ms), NEW i \in 1 .. Len(ns), IsPending(ns[i]) PROVE FALSE
    <3>1. i # x /\ IsPending(ms[i])
      BY <2>7, <2>8, <2>11 DEF IsPending
    <3> QED BY <2>3, <2>8, <2>11, <3>1 DEF LastPending
  <2> QED BY <2>4, <2>6, <2>8, <2>10, <2>11
<1> QED BY <1>3, <1>4

(* What loads is a list that fits, and nothing in it is pending. *)
LEMMA LoadedIs ==
    ASSUME NEW ms, NEW n \in Nat, ListOf(ms, n)
    PROVE  LET ns == LoadMessages(ms) IN
           /\ ListOf(ns, n) /\ SaveMessages(ns) = ns
           /\ LastPending(ms) => \A i \in 1 .. Len(ns) : ~IsPending(ns[i])
<1>1. MAX_STORED_MESSAGES \in Nat
  BY LimitsAssumption
<1>2. CASE Size(ms) > MAX_STORED_SIZE
  <2>1. LoadMessages(ms) = <<>>
    BY <1>2 DEF LoadMessages
  <2>2. ListOf(<<>>, n) /\ Len(<<>>) = 0
    BY EmptySeq DEF ListOf
  <2>3. SaveMessages(<<>>) = <<>>
    BY <1>1, <2>2 DEF SaveMessages, LastOf
  <2> QED BY <2>1, <2>2, <2>3
<1>3. CASE ~(Size(ms) > MAX_STORED_SIZE)
  <2> DEFINE a == [i \in DOMAIN ms |-> NormalizeStoredMessageForLoad(ms[i])]
             b == SaveMessages(a)
             c == TrimMessagesByContentSize(b)
             d == SanitizeMessagesOnLoad(c)
  <2>1. LoadMessages(ms) = d
    BY <1>3 DEF LoadMessages
  <2>2. ListOf(a, n) /\ (LastPending(ms) => LastPending(a))
    BY NormalizedIs
  <2> HIDE DEF a
  <2>3. ListOf(b, n) /\ (LastPending(a) => LastPending(b))
    BY <2>2, SavesSuffix
  <2>4. Len(b) \in Nat /\ Len(b) <= MAX_STORED_MESSAGES
    BY <1>1, <2>2, LastOfIs DEF SaveMessages, ListOf
  <2> HIDE DEF b
  <2>5. ListOf(c, n) /\ Len(c) \in Nat /\ Len(c) <= Len(b) /\ (LastPending(b) => LastPending(c))
    BY <2>3, TrimmedIs
  <2> HIDE DEF c
  <2>6. /\ ListOf(d, n) /\ Len(d) = Len(c)
        /\ LastPending(c) => \A i \in 1 .. Len(d) : ~IsPending(d[i])
    BY <2>5, SanitizedIs
  <2> HIDE DEF d
  <2>7. Len(d) <= MAX_STORED_MESSAGES
    BY <1>1, <2>4, <2>5, <2>6
  <2>8. SaveMessages(d) = d
    BY <2>7 DEF SaveMessages, LastOf
  <2> QED BY <2>1, <2>2, <2>3, <2>5, <2>6, <2>8
<1> QED BY <1>2, <1>3

LEMMA ReloadKeeps ==
    ASSUME ChatInv, NEW unmounted, NEW disk, Reload(unmounted, disk)
    PROVE  ChatInv'
<1> DEFINE saved == IF unmounted /\ ui.saveTimer /\ disk # "full"
                    THEN SaveMessages(ui.messages) ELSE stored
           loaded == IF disk = "unread" THEN <<>> ELSE LoadMessages(saved)
<1>1. /\ reloads' = reloads + 1 /\ stored' \in {saved, loaded} /\ ui' = Mounted(loaded)
      /\ swallowed' = (disk = "unread" \/ stored' # loaded)
      /\ rendered' = Rendered(Mounted(loaded)) /\ editing' = NoKey
      /\ requests' = {} /\ aborted' = {}
      /\ UNCHANGED <<sent, last, overwritten, world>>
  BY DEF Reload
<1>2. last \in Nat /\ ListOf(ui.messages, last) /\ ListOf(stored, last)
      /\ last <= world.maxRequests /\ world.maxRequests \in Nat /\ reloads \in Nat
      /\ sent \in [Requests -> Nat]
  BY GeneratingIs DEF ChatInv, ChatTypes, ChatSettings
<1>3. overwritten = {} => LastPending(ui.messages) /\ LastPending(stored)
  BY GeneratingIs DEF ChatInv, StoredInv, LastPending
<1>4. ListOf(saved, last) /\ (overwritten = {} => LastPending(saved))
  BY <1>2, <1>3, SavesSuffix
<1> HIDE DEF saved
<1>5. /\ ListOf(loaded, last) /\ SaveMessages(loaded) = loaded
      /\ overwritten = {} => \A i \in 1 .. Len(loaded) : ~IsPending(loaded[i])
  <2>1. CASE disk = "unread"
    <3>1. ListOf(<<>>, last) /\ Len(<<>>) = 0 /\ MAX_STORED_MESSAGES \in Nat
      BY EmptySeq, LimitsAssumption DEF ListOf
    <3>2. SaveMessages(<<>>) = <<>>
      BY <3>1 DEF SaveMessages, LastOf
    <3> QED BY <2>1, <3>1, <3>2
  <2>2. CASE disk # "unread"
    BY <1>2, <1>4, <2>2, LoadedIs
  <2> QED BY <2>1, <2>2
<1> HIDE DEF loaded
<1> DEFINE u == Mounted(loaded)
<1>6. loaded \in Seq(Message) /\ <<>> \in Chunks
  BY <1>5, EmptySeq DEF ListOf, Chunks
<1>7. /\ u \in Hooks /\ u.messages = loaded /\ u.pending = <<>> /\ u.held = <<>>
      /\ ~u.flushTimer /\ ~u.saveTimer /\ ~u.isStreaming /\ ~u.isRequesting
      /\ u.sseSource = NoRequest /\ u.open = {} /\ u.requestId = 0 /\ u.abortController = 0
  BY <1>6 DEF Mounted, Hooks, NoRequest
<1>8. ui' = u
  BY <1>1
<1> HIDE DEF u
<1>9. /\ rendered' \in [messages : Seq(Message), isGenerating : BOOLEAN]
      /\ rendered'.messages = loaded /\ rendered'.isGenerating = FALSE
  <2>1. rendered' = [messages |-> u.messages, isGenerating |-> Generating(u)]
    BY <1>1, <1>8 DEF Rendered
  <2>2. Generating(u) = FALSE
    BY <1>7 DEF Generating
  <2> QED BY <1>6, <1>7, <2>1, <2>2
<1>10. ChatTypes'
  BY <1>1, <1>2, <1>4, <1>5, <1>7, <1>8, <1>9 DEF ChatInv, ChatTypes, Requests
<1>11. ModeInv'
  <2>1. CASE world.stream
    <3>1. Exempt' = Nat
      BY <1>1, <1>2 DEF Exempt
    <3>2. StreamInv(u, last)
      BY <1>7 DEF StreamInv, Hooks
    <3>3. PendingStreams(u, overwritten)
      BY <1>5, <1>7 DEF PendingStreams
    <3>4. ExactIn(u, sent, Nat)
      <4>1. \A i \in 1 .. Len(loaded) : loaded[i].key[2] \in Nat
        BY <1>2, <1>5 DEF ListOf
      <4> QED BY <1>7, <4>1 DEF ExactIn
    <3>5. Streaming(u, last, sent, overwritten, Exempt')
      BY <1>2, <1>5, <1>7, <3>1, <3>2, <3>3, <3>4 DEF Streaming
    <3>6. Requests' = Requests
      BY <1>1 DEF Requests
    <3> QED BY <1>1, <1>8, <2>1, <3>5, <3>6
            DEF ModeInv, Streaming, StreamInv, PendingStreams, ExactIn, Requests
  <2>2. CASE ~world.stream
    <3>1. Requesting(u, last, {}, overwritten)
      BY <1>2, <1>5, <1>7 DEF Requesting, PlainInv, PendingRequested
    <3> QED BY <1>1, <1>8, <2>2, <3>1 DEF ModeInv
  <2> QED BY <2>1, <2>2
<1>12. RenderedInv'
  BY <1>1, <1>5, <1>7, <1>8, <1>9 DEF RenderedInv, Generating, SameKeys
<1>13. EditingInv' /\ LeftInv'
  BY <1>7, <1>8, <1>9 DEF EditingInv, LeftInv
<1>14. StoredInv'
  <2>1. stored' = loaded \/ swallowed'
    BY <1>1
  <2>2. overwritten = {} => LastPending(stored')
    BY <1>1, <1>4, <1>5 DEF LastPending
  <2> QED BY <1>1, <1>5, <1>7, <1>8, <2>1, <2>2 DEF StoredInv
<1> QED BY <1>10, <1>11, <1>12, <1>13, <1>14 DEF ChatInv

LEMMA ChatInitInv ==
    ASSUME ChatInit
    PROVE  ChatInv
<1> DEFINE none == <<>>
           u == Mounted(none)
<1>1. /\ world \in Worlds /\ ui = u /\ rendered = Rendered(u) /\ editing = NoKey
      /\ requests = {} /\ aborted = {} /\ overwritten = {} /\ stored = none
      /\ sent = [r \in Requests |-> 0] /\ last = 0 /\ reloads = 0
  BY DEF ChatInit
<1>2. world \in ChatSettings /\ world.maxRequests \in Nat
  BY <1>1, WorldsAssumption DEF ChatSettings
<1>3. none \in Seq(Message) /\ none \in Chunks /\ Len(none) = 0
  BY EmptySeq DEF Chunks
<1> HIDE DEF none
<1>4. /\ u \in Hooks /\ u.messages = none /\ u.pending = <<>> /\ u.held = <<>>
      /\ ~u.flushTimer /\ ~u.saveTimer /\ ~u.isStreaming /\ ~u.isRequesting
      /\ u.sseSource = NoRequest /\ u.open = {} /\ u.requestId = 0 /\ u.abortController = 0
  BY <1>3 DEF Mounted, Hooks, NoRequest, none
<1> HIDE DEF u
<1>5. /\ rendered \in [messages : Seq(Message), isGenerating : BOOLEAN]
      /\ rendered.messages = none /\ rendered.isGenerating = FALSE
  <2>1. rendered = [messages |-> u.messages, isGenerating |-> Generating(u)]
    BY <1>1 DEF Rendered
  <2>2. Generating(u) = FALSE
    BY <1>4 DEF Generating
  <2> QED BY <1>3, <1>4, <2>1, <2>2
<1>6. ListOf(none, 0) /\ \A i \in 1 .. Len(none) : FALSE
  BY <1>3 DEF ListOf
<1>7. sent \in [Requests -> Nat] /\ \A r \in Requests : sent[r] = 0
  BY <1>1
<1>8. ChatTypes
  BY <1>1, <1>2, <1>4, <1>5, <1>6, <1>7 DEF ChatTypes
<1>9. ModeInv
  <2>1. StreamInv(u, 0)
    BY <1>4 DEF StreamInv, Hooks
  <2>2. Streaming(u, 0, sent, {}, Exempt)
    BY <1>2, <1>4, <1>6, <1>7, <2>1 DEF Streaming, PendingStreams, ExactIn
  <2>3. Requesting(u, 0, {}, {})
    BY <1>4, <1>6 DEF Requesting, PlainInv, PendingRequested
  <2> QED BY <1>1, <2>2, <2>3 DEF ModeInv
<1>10. RenderedInv
  BY <1>1, <1>4, <1>5, <1>6 DEF RenderedInv, Generating, SameKeys
<1>11. EditingInv /\ LeftInv
  BY <1>1, <1>4, <1>5 DEF EditingInv, LeftInv
<1>12. StoredInv
  <2>1. SaveMessages(none) = none
    <3>1. MAX_STORED_MESSAGES \in Nat
      BY LimitsAssumption
    <3> QED BY <1>3, <3>1 DEF SaveMessages, LastOf
  <2> QED BY <1>1, <1>4, <1>6, <2>1 DEF StoredInv, LastPending
<1> QED BY <1>8, <1>9, <1>10, <1>11, <1>12 DEF ChatInv

LEMMA ChatNextInv ==
    ASSUME ChatInv, ChatNext
    PROVE  ChatInv'
<1>1. CASE HandleSendMessage
  BY <1>1, HandleSendMessageKeeps
<1>2. ASSUME NEW k \in MessageKeys,
             HandleRegenerateMessage(k) \/ HandleEditMessage(k) \/ HandleDeleteMessage(k)
      PROVE  ChatInv'
  BY <1>2, HandleRegenerateMessageKeeps, HandleEditMessageKeeps, HandleDeleteMessageKeeps
<1>3. CASE CancelEdit \/ SaveEdit \/ SaveEditAndSubmit
  BY <1>3, CancelEditKeeps, SaveEditKeeps, SaveEditAndSubmitKeeps
<1>4. CASE HandleClearMessages \/ HandleStop
  BY <1>4, HandleClearMessagesKeeps, HandleStopKeeps
<1>5. ASSUME NEW s \in Requests, NEW b \in Batches, SourceMessages(s, b) PROVE ChatInv'
  BY <1>5, SourceMessagesKeeps
<1>6. ASSUME NEW s \in Requests, SourceError(s) \/ SourceEndsQuietly(s) PROVE ChatInv'
  BY <1>6, SourceErrorKeeps, SourceEndsQuietlyKeeps
<1>7. ASSUME NEW r \in Requests, NEW ok \in BOOLEAN, NonStreamAnswer(r, ok) PROVE ChatInv'
  BY <1>7, NonStreamAnswerKeeps
<1>8. CASE FlushTimer \/ Render
  BY <1>8, FlushTimerKeeps, RenderKeeps
<1>9. ASSUME NEW b \in BOOLEAN, NEW disk \in world.disks, Reload(b, disk) PROVE ChatInv'
  BY <1>9, ReloadKeeps
<1>10. ASSUME NEW disk \in world.disks \ {"unread"}, SaveTimer(disk) PROVE ChatInv'
  BY <1>10, SaveTimerKeeps
<1> QED BY <1>1, <1>2, <1>3, <1>4, <1>5, <1>6, <1>7, <1>8, <1>9, <1>10 DEF ChatNext

LEMMA ChatStutters ==
    ASSUME ChatInv, UNCHANGED chatVars
    PROVE  ChatInv'
<1>1. editing' = editing
      /\ UNCHANGED <<ui, rendered, requests, aborted, stored, swallowed, sent, last, reloads,
                     overwritten, world>>
  BY DEF chatVars
<1>2. EditingInv'
  BY <1>1 DEF ChatInv, EditingInv
<1>3. editing' = NoKey \/ editing' \in Froms \X (1 .. last)
  BY <1>1 DEF ChatInv, ChatTypes
<1> QED BY <1>1, <1>2, <1>3, EditingKeeps

(* Every event of the playground, the render, the save timer and a reload  *)
(* included, keeps the state of useChatHandler and useStreamRequest, the   *)
(* list the handlers were rendered with, and the stored list consistent.   *)
THEOREM ChatInductive == ChatSpec => []ChatInv
<1>1. ChatInit => ChatInv
  BY ChatInitInv
<1>2. ChatInv /\ [ChatNext]_chatVars => ChatInv'
  BY ChatNextInv, ChatStutters
<1> QED BY <1>1, <1>2, PTL DEF ChatSpec

LEMMA OwnedFollows ==
    ASSUME ChatInv
    PROVE  PendingIsOwned
<1> SUFFICES ASSUME NEW i \in Assistants(ui.messages), IsPending(ui.messages[i]),
                    overwritten = {}
             PROVE  /\ i = Len(ui.messages) /\ Generating(ui)
                    /\ IF world.stream THEN ui.sseSource = ui.messages[i].key[2]
                       ELSE ui.messages[i].key[2] \in requests \ aborted
  BY DEF PendingIsOwned
<1>1. ui.messages \in Seq(Message) /\ i \in 1 .. Len(ui.messages)
  <2>1. ui.messages \in Seq(Message)
    BY DEF ChatInv, ChatTypes, Hooks
  <2> QED BY <2>1, LenProperties DEF Assistants
<1>2. i = Len(ui.messages) /\ Generating(ui)
  BY <1>1, GeneratingIs
<1>3. CASE world.stream
  <2>1. ui.sseSource # NoRequest /\ Streaming(ui, last, sent, overwritten, Exempt)
    BY <1>2, <1>3, GeneratingIs DEF ChatInv, ModeInv
  <2>2. Last(ui.messages).key = <<"assistant", ui.sseSource>>
    BY <2>1 DEF Streaming, StreamInv
  <2> QED BY <1>2, <1>3, <2>2 DEF Last
<1>4. CASE ~world.stream
  <2>1. Requesting(ui, last, requests \ aborted, overwritten)
    BY <1>4 DEF ChatInv, ModeInv
  <2> QED BY <1>1, <1>2, <1>4, <2>1 DEF Requesting, PendingRequested
<1> QED BY <1>2, <1>3, <1>4

LEMMA ExactFollows ==
    ASSUME ChatInv
    PROVE  NothingDropped
<1> DEFINE ms == ui.messages
<1> SUFFICES ASSUME NEW i \in Assistants(ms), world.stream, ms[i].key[2] \notin overwritten,
                    reloads = 0, ms[i].status # "error", ms[i].text # <<Edited>>
             PROVE  ms[i].text \o (IF ms[i].key[2] = ui.sseSource THEN ui.pending \o ui.held
                                   ELSE <<>>)
                      = [n \in 1 .. sent[ms[i].key[2]] |-> <<ms[i].key[2], n>>]
  BY DEF NothingDropped
<1>1. ms \in Seq(Message)
  BY DEF ChatInv, ChatTypes, Hooks
<1>2. i \in 1 .. Len(ms) /\ ms[i].from = "assistant"
  BY <1>1, LenProperties DEF Assistants
<1>3. ms[i].text \in Chunks
  <2>1. ms[i] \in Message
    BY <1>1, <1>2, ElementOfSeq
  <2> QED BY <2>1 DEF Message
<1>4. Streaming(ui, last, sent, overwritten, Exempt) /\ ms[i].key[2] \notin Exempt
  BY DEF ChatInv, ModeInv, Exempt
<1>5. CASE ms[i].key[2] = ui.sseSource
  BY <1>2, <1>4, <1>5 DEF Streaming, ExactIn, Dispatched
<1>6. CASE ms[i].key[2] # ui.sseSource
  <2>1. ms[i].text = Dispatched(ms[i].key[2], sent[ms[i].key[2]])
    BY <1>2, <1>4, <1>6 DEF Streaming, ExactIn
  <2>2. ms[i].text \o <<>> = ms[i].text
    BY <1>3, ConcatEmptySeq DEF Chunks
  <2> QED BY <1>6, <2>1, <2>2 DEF Dispatched
<1> QED BY <1>5, <1>6

LEMMA LoadsFollow ==
    ASSUME ChatInv
    PROVE  StoredLoads
<1>1. last \in Nat /\ ListOf(stored, last)
  BY DEF ChatInv, ChatTypes
<1> DEFINE ns == LoadMessages(stored)
<1>2. /\ ListOf(ns, last)
      /\ LastPending(stored) => \A i \in 1 .. Len(ns) : ~IsPending(ns[i])
  BY <1>1, LoadedIs
<1> HIDE DEF ns
<1>3. DOMAIN ns = 1 .. Len(ns)
  BY <1>2, LenProperties DEF ListOf
<1>4. overwritten = {} => \A i \in DOMAIN ns : ~IsPending(ns[i])
  BY <1>2, <1>3 DEF ChatInv, StoredInv
<1> QED BY <1>4 DEF ChatInv, StoredInv, StoredLoads, ns

(* A message that shows a spinner is the last one, and the stream or the   *)
(* request the hooks hold is its own, so that an answer, an error or Stop  *)
(* ends it (useChatHandler); until an edit saves the list of an older      *)
(* render over it (applyEdit).                                             *)
THEOREM PendingOwned == ChatSpec => []PendingIsOwned
<1>1. ChatInv => PendingIsOwned
  BY OwnedFollows
<1> QED BY <1>1, ChatInductive, PTL

(* Until the page is reloaded, no chunk of an answer that did not fail is  *)
(* lost, repeated, reordered or given to another message on its way from   *)
(* the source (useStreamRequest) through the batch that the flush timer    *)
(* empties into the list (useChatHandler), whichever of flush, completion, *)
(* stop and the next submission comes first; with the same exception.      *)
THEOREM ChunksExact == ChatSpec => []NothingDropped
<1>1. ChatInv => NothingDropped
  BY ExactFollows
<1> QED BY <1>1, ChatInductive, PTL

(* Without a save timer the list is on disk as saveMessages cuts it        *)
(* (usePlaygroundState), unless the last access to the disk threw and the  *)
(* error was swallowed (storage.ts:365, 380); and what loadMessages makes  *)
(* of the disk, even of an older list after saves that failed and on a     *)
(* reload at any moment, has no message that waits for an answer nobody    *)
(* will give; with the same exception.                                     *)
THEOREM SavedLoads == ChatSpec => []StoredLoads
<1>1. ChatInv => StoredLoads
  BY LoadsFollow
<1> QED BY <1>1, ChatInductive, PTL
=============================================================================
