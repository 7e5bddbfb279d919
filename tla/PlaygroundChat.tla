--------------------------- MODULE PlaygroundChat ---------------------------
(***************************************************************************)
(* The playground of the web interface: one conversation, the request that *)
(* generates its last answer, the timers that batch updates and saves, and *)
(* the copy in localStorage (features/playground/hooks and lib).           *)
(*                                                                         *)
(* The handlers run one at a time, each to its end; what interleaves is    *)
(* their order.  Each is an operator from the state of the hooks to the    *)
(* next, so that a handler which calls another reads as it does in the     *)
(* code.  The answer to request r is the sequence of its chunks <<r, 1>>,  *)
(* <<r, 2>>, ...; StreamAccumulator models what is inside them.            *)
(***************************************************************************)
EXTENDS Integers, SequencesExt, FiniteSetsExt

CONSTANTS
    MAX_STORED_MESSAGES, MAX_STORED_SIZE, MAX_LOADED_SIZE,
    Worlds          \* the settings to consider

\* A setting: config.stream, whether sse.js goes on dispatching what it had read
\* when close() was called, and bounds on the requests sent, the chunks of an
\* answer, the times the page is left or reloaded, and the messages opened in the
\* editor, deleted or cleared.  An access to localStorage works, a write is
\* refused (the quota, the schema), or what is there cannot be read.
Disks == {"works", "full", "unread"}
ChatSettings == [stream : BOOLEAN, afterClose : BOOLEAN, maxRequests : Nat,
                 maxChunks : Nat, maxReloads : Nat, maxEdits : Nat, disks : SUBSET Disks]

ASSUME WorldsAssumption == Worlds \subseteq ChatSettings
ASSUME LimitsAssumption ==
    {MAX_STORED_MESSAGES, MAX_STORED_SIZE, MAX_LOADED_SIZE} \subseteq Nat \ {0}

VARIABLES
    ui,         \* the refs and the state of the hooks
    rendered,   \* what the last render handed to the event handlers
    editing,    \* editingMessageKey
    requests,   \* answers awaited by sendNonStreamingChat
    aborted,    \* of these, the ones whose signal is aborted
    stored,     \* the messages in localStorage
    swallowed,  \* history: the last access to localStorage threw, and the error was caught
    sent,       \* per request: chunks the source has dispatched
    last,       \* the newest request
    reloads, edits,
    overwritten,\* history: requests whose text an edit saved from an older render replaced
    world       \* the setting of this behaviour

chatVars == <<ui, rendered, editing, requests, aborted, stored, swallowed, sent, last, reloads, edits,
              overwritten, world>>

Requests == 1 .. world.maxRequests
NoRequest == 0
NoKey == <<"none", 0>>
Error == <<NoRequest, 1>>   \* the text of an error
Edited == <<NoRequest, 2>>  \* text typed by the user
Prompt == <<NoRequest, 3>>

User(r) == [key |-> <<"user", r>>, from |-> "user", status |-> "none", text |-> <<Prompt>>]
CreateLoadingAssistantMessage(r) ==
    [key |-> <<"assistant", r>>, from |-> "assistant", status |-> "loading", text |-> <<>>]

IsPending(m) == m.status \in {"loading", "streaming"}
IsFinal(m)   == m.status \in {"complete", "error"}
Generating(u) == u.isStreaming \/ u.isRequesting

HasKey(ms, k) == \E i \in DOMAIN ms : ms[i].key = k
IndexOfKey(ms, k) == CHOOSE i \in DOMAIN ms : ms[i].key = k

(***************************************************************************)
(* Messages.                                                               *)
(***************************************************************************)
UpdateMessagesUnsaved(u, ms) == [u EXCEPT !.messages = ms]

\* setMessages and persistMessages: the new list, and the save timer restarted.
UpdateMessages(u, ms) == [u EXCEPT !.messages = ms, !.saveTimer = TRUE]

UpdateLastAssistantMessage(ms, Updater(_)) ==
    IF ms # <<>> /\ Last(ms).from = "assistant"
    THEN [ms EXCEPT ![Len(ms)] = Updater(@)]
    ELSE ms

ApplyStreamingChunk(m, chunks) ==
    IF m.status = "error" THEN m
    ELSE [m EXCEPT !.text = @ \o chunks, !.status = "streaming"]

CompleteAssistantMessage(m) == [m EXCEPT !.status = "complete"]

UpdateAssistantMessageWithError(ms) ==
    UpdateLastAssistantMessage(ms,
        LAMBDA m : [m EXCEPT !.text = <<Error>>, !.status = "error"])

(***************************************************************************)
(* use-chat-handler.ts.                                                    *)
(***************************************************************************)
FlushStreamUpdates(u) ==
    LET v == [u EXCEPT !.flushTimer = FALSE, !.pending = <<>>]
    IN  IF u.pending = <<>> THEN v
        ELSE UpdateMessages(v, UpdateLastAssistantMessage(u.messages,
                 LAMBDA m : ApplyStreamingChunk(m, u.pending)))

\* finishStreamContent, flushStreamUpdates and the accumulator's reset.
EndContentUnfinished(u) == [FlushStreamUpdates(u) EXCEPT !.held = <<>>]

EndContent(u) ==
    FlushStreamUpdates([u EXCEPT !.pending = @ \o u.held, !.held = <<>>])

\* The accumulator returns the chunk, or holds its end back as part of a tag.
HandleStreamUpdate(u, chunk, hold) ==
    IF hold THEN [u EXCEPT !.held = Append(@, chunk), !.flushTimer = TRUE]
    ELSE [u EXCEPT !.pending = @ \o Append(u.held, chunk), !.held = <<>>,
                   !.flushTimer = TRUE]

HandleStreamComplete(u) ==
    LET v == EndContent(u)
    IN  UpdateMessages([v EXCEPT !.isRequesting = FALSE],
            UpdateLastAssistantMessage(v.messages,
                LAMBDA m : IF IsFinal(m) THEN m ELSE CompleteAssistantMessage(m)))

HandleStreamError(u) ==
    LET v == EndContent(u)
    IN  UpdateMessages([v EXCEPT !.isRequesting = FALSE],
            UpdateAssistantMessageWithError(v.messages))

(***************************************************************************)
(* use-stream-request.ts.  sse.js is not part of the repository: a source  *)
(* dispatches the messages of one network read in a row, an error before   *)
(* it closes, and readystatechange as it closes; it reports no status but  *)
(* 200 to a handler that has not had its error yet.                        *)
(***************************************************************************)
CloseActiveStream(u, s) ==
    LET v == [u EXCEPT !.open = @ \ {s}]
    IN  IF u.sseSource = s
        THEN [v EXCEPT !.sseSource = NoRequest, !.isStreaming = FALSE] ELSE v

HandleError(u, s) ==
    IF u.isStreamComplete THEN u ELSE CloseActiveStream(HandleStreamError(u), s)

\* The 'message' listener.  The message is a chunk, held back or not, one that
\* cannot be parsed, or [DONE].
OnMessage(u, s, e, chunk) ==
    CASE e = "done" -> HandleStreamComplete(
                           CloseActiveStream([u EXCEPT !.isStreamComplete = TRUE], s))
      [] e = "bad"  -> HandleError(u, s)
      [] e \in {"chunk", "hold"} -> HandleStreamUpdate(u, chunk, e = "hold")

SendStreamRequest(u, s) ==
    [u EXCEPT !.open = (@ \ {u.sseSource}) \cup {s},
              !.sseSource = s, !.isStreamComplete = FALSE, !.isStreaming = TRUE]

\* source.stream() may throw.
StreamStarts(u, s) == {u, CloseActiveStream(HandleStreamError(u), s)}

SendStreamingChat(u, r) ==
    StreamStarts(SendStreamRequest(
        [u EXCEPT !.isRequesting = TRUE, !.held = <<>>, !.pending = <<>>], r), r)

\* requestIdRef and abortControllerRef move to the new request; an older one
\* goes on.
SendNonStreamingChat(u, r) ==
    {[u EXCEPT !.requestId = r, !.abortController = r, !.isRequesting = TRUE]}

SendChat(u, r) == IF world.stream THEN SendStreamingChat(u, r) ELSE SendNonStreamingChat(u, r)

StopGenerationLeaves(u) ==
    [EndContent(CloseActiveStream(u, u.sseSource)) EXCEPT !.isRequesting = FALSE]

StopGeneration(u) ==
    LET v == EndContent(IF u.sseSource = NoRequest THEN [u EXCEPT !.isStreaming = FALSE]
                        ELSE CloseActiveStream(u, u.sseSource))
    IN  UpdateMessages([v EXCEPT !.abortController = NoRequest, !.isRequesting = FALSE],
            UpdateLastAssistantMessage(v.messages,
                LAMBDA m : IF IsPending(m) THEN CompleteAssistantMessage(m) ELSE m))

(***************************************************************************)
(* storage.ts.  A message's size is the length of its text.                *)
(***************************************************************************)
Size(ms) == FoldLeft(LAMBDA n, m : n + Len(m.text), 0, ms)

LastOf(ms, n) == IF Len(ms) <= n THEN ms ELSE SubSeq(ms, Len(ms) - n + 1, Len(ms))

SaveMessages(ms) == LastOf(ms, MAX_STORED_MESSAGES)

NormalizeStoredMessageForLoad(m) ==
    IF IsPending(m) /\ m.text # <<>> THEN CompleteAssistantMessage(m) ELSE m

\* The longest end of the list that fits, and one message at least.
TrimMessagesByContentSize(ms) ==
    LET fits == {n \in 0 .. Len(ms) : n <= 1 \/ Size(LastOf(ms, n)) <= MAX_LOADED_SIZE}
    IN  LastOf(ms, Max(fits))

\* The last message that is still pending becomes an error.
SanitizeMessagesOnLoad(ms) ==
    LET stuck == {i \in DOMAIN ms : ms[i].from = "assistant" /\ IsPending(ms[i])}
    IN  IF stuck = {} THEN ms
        ELSE [ms EXCEPT ![Max(stuck)].text = <<Error>>, ![Max(stuck)].status = "error"]

LoadMessages(ms) ==
    IF Size(ms) > MAX_STORED_SIZE THEN <<>>
    ELSE SanitizeMessagesOnLoad(TrimMessagesByContentSize(SaveMessages(
             [i \in DOMAIN ms |-> NormalizeStoredMessageForLoad(ms[i])])))

(***************************************************************************)
(* Behaviour.                                                              *)
(***************************************************************************)
Mounted(ms) ==
    [messages |-> ms, pending |-> <<>>, held |-> <<>>, flushTimer |-> FALSE,
     saveTimer |-> FALSE, isStreaming |-> FALSE, isRequesting |-> FALSE,
     sseSource |-> NoRequest, isStreamComplete |-> FALSE, open |-> {},
     requestId |-> NoRequest, abortController |-> NoRequest]

Rendered(u) == [messages |-> u.messages, isGenerating |-> Generating(u)]

ChatInit ==
    /\ world \in Worlds
    /\ ui = Mounted(<<>>)
    /\ rendered = Rendered(ui)
    /\ editing = NoKey
    /\ requests = {} /\ aborted = {} /\ overwritten = {}
    /\ stored = <<>> /\ swallowed = FALSE
    /\ sent = [r \in Requests |-> 0]
    /\ last = 0 /\ reloads = 0 /\ edits = 0

\* A user's click or key: React renders before the next one.
UserSets(u) == ui' = u /\ rendered' = Rendered(u)

\* Where a closed source goes on, a person is slower than the 50 ms timer that a chunk
\* dispatched by a closed source may have left.
UserMayAct == world.afterClose /\ ui.flushTimer => ui.isStreaming

\* updateMessages and sendChat.
SubmitMessages(ms) ==
    /\ UserMayAct
    /\ last < world.maxRequests
    /\ \E u \in SendChat(UpdateMessages(ui, ms), last + 1) : UserSets(u)
    /\ requests' = IF world.stream THEN requests ELSE requests \cup {last + 1}
    /\ last' = last + 1
    /\ UNCHANGED <<aborted, stored, swallowed, sent, reloads, edits, world>>

HandleSendMessage ==
    /\ ~rendered.isGenerating
    /\ SubmitMessages(rendered.messages
           \o <<User(last + 1), CreateLoadingAssistantMessage(last + 1)>>)
    /\ UNCHANGED <<editing, overwritten>>

HandleRegenerateMessage(k) ==
    LET ms == rendered.messages
        i  == IndexOfKey(ms, k)
    IN  /\ ~rendered.isGenerating
        /\ HasKey(ms, k) /\ ms[i].text # <<>> /\ ~IsPending(ms[i])
        /\ SubmitMessages(
               Append(SubSeq(ms, 1, IF ms[i].from = "user" THEN i ELSE i - 1),
                      CreateLoadingAssistantMessage(last + 1)))
        /\ UNCHANGED <<editing, overwritten>>

HandleEditMessage(k) ==
    /\ UserMayAct /\ ~rendered.isGenerating
    /\ HasKey(rendered.messages, k)
    /\ rendered.messages[IndexOfKey(rendered.messages, k)].text # <<>>
    /\ editing' = k
    /\ edits < world.maxEdits /\ edits' = edits + 1
    /\ UNCHANGED <<ui, rendered, requests, aborted, stored, swallowed, sent, last, reloads, overwritten, world>>

CancelEdit ==
    /\ UserMayAct /\ editing # NoKey /\ HasKey(rendered.messages, editing)
    /\ editing' = NoKey
    /\ UNCHANGED <<ui, rendered, requests, aborted, stored, swallowed, sent, last, reloads, edits, overwritten, world>>

\* The editor's message, with the text typed.  The editor stays open, and its
\* buttons stay enabled, while an answer is generated.
EditedMessages ==
    LET ms == rendered.messages
    IN  [ms EXCEPT ![IndexOfKey(ms, editing)].text = <<Edited>>]

\* An edit replaces the list by the one last rendered: what a message has
\* become since is undone.
Overwrites == {r \in Requests : \E m \in ToSet(ui.messages) \ ToSet(rendered.messages) :
                                    m.key = <<"assistant", r>>}

SaveEdit ==
    /\ UserMayAct /\ HasKey(rendered.messages, editing)
    /\ UserSets(UpdateMessages(ui, EditedMessages))
    /\ editing' = NoKey
    /\ overwritten' = overwritten \cup Overwrites
    /\ UNCHANGED <<requests, aborted, stored, swallowed, sent, last, reloads, edits, world>>

SaveEditAndSubmit ==
    /\ HasKey(rendered.messages, editing)
    /\ LET i == IndexOfKey(rendered.messages, editing)
       IN  /\ rendered.messages[i].from = "user"
           /\ SubmitMessages(Append(SubSeq(EditedMessages, 1, i),
                                    CreateLoadingAssistantMessage(last + 1)))
    /\ editing' = NoKey
    /\ overwritten' = overwritten \cup Overwrites

\* The filter by key, which one message of the list has.
HandleDeleteMessage(k) ==
    /\ UserMayAct /\ ~rendered.isGenerating
    /\ HasKey(rendered.messages, k)
    /\ UserSets(UpdateMessages(ui, RemoveAt(ui.messages, IndexOfKey(ui.messages, k))))
    /\ edits < world.maxEdits /\ edits' = edits + 1
    /\ UNCHANGED <<editing, requests, aborted, stored, swallowed, sent, last, reloads, overwritten, world>>

HandleClearMessages ==
    /\ UserMayAct /\ ~rendered.isGenerating /\ rendered.messages # <<>>
    /\ UserSets(UpdateMessages(ui, <<>>))
    /\ editing' = NoKey
    /\ edits < world.maxEdits /\ edits' = edits + 1
    /\ UNCHANGED <<requests, aborted, stored, swallowed, sent, last, reloads, overwritten, world>>

HandleStop ==
    /\ UserMayAct /\ rendered.isGenerating
    /\ UserSets(StopGeneration(ui))
    /\ aborted' = aborted \cup ({ui.abortController} \ {NoRequest})
    /\ UNCHANGED <<editing, requests, stored, swallowed, sent, last, reloads, edits, overwritten, world>>

(***************************************************************************)
(* The network.                                                            *)
(***************************************************************************)
Events == {"chunk", "hold", "bad", "done"}

\* One read of the response: one message or two.  Nothing follows [DONE].
Batches == {<<e>> : e \in Events} \cup ((Events \ {"done"}) \X Events)

\* The source dispatches a message while it is open, or has read it before it closed.
Dispatch(d, s, e) ==
    LET k == IF e \in {"chunk", "hold"} THEN d.n + 1 ELSE d.n
    IN  IF s \in d.u.open \/ world.afterClose
        THEN [u |-> OnMessage(d.u, s, e, <<s, k>>), n |-> k] ELSE d

SourceMessages(s, batch) ==
    LET first == Dispatch([u |-> ui, n |-> sent[s]], s, batch[1])
        d == IF Len(batch) = 1 THEN first ELSE Dispatch(first, s, batch[2])
    IN  /\ s \in ui.open
        /\ d.n <= world.maxChunks
        /\ ui' = d.u
        /\ sent' = [sent EXCEPT ![s] = d.n]
        /\ UNCHANGED <<rendered, editing, requests, aborted, stored, swallowed, last, reloads, edits, overwritten, world>>

\* The connection fails, or the server answers with an error.
SourceError(s) ==
    /\ s \in ui.open
    /\ ui' = HandleError(ui, s)
    /\ UNCHANGED <<rendered, editing, requests, aborted, stored, swallowed, sent, last, reloads, edits, overwritten, world>>

\* The server ends the response without [DONE]: no listener has anything to do.
SourceEndsQuietly(s) ==
    /\ s \in ui.open
    /\ ui' = [ui EXCEPT !.open = @ \ {s}]
    /\ UNCHANGED <<rendered, editing, requests, aborted, stored, swallowed, sent, last, reloads, edits, overwritten, world>>

\* The finally block: only the newest request clears the state it shares.
Finally(u, r) ==
    IF u.requestId = r
    THEN [u EXCEPT !.abortController = NoRequest, !.isRequesting = FALSE] ELSE u

\* sendChatCompletion returns: a choice, or none, or it throws.
NonStreamAnswer(r, ok) ==
    LET u == CASE r \in aborted -> ui
               [] r \notin aborted /\ ok ->
                    UpdateMessages(ui, UpdateLastAssistantMessage(ui.messages,
                        LAMBDA m : [m EXCEPT !.text = <<<<r, 1>>>>, !.status = "complete"]))
               [] r \notin aborted /\ ~ok -> HandleStreamError(ui)
    IN  /\ r \in requests
        /\ requests' = requests \ {r}
        /\ ui' = Finally(u, r)
        /\ UNCHANGED <<rendered, editing, aborted, stored, swallowed, sent, last, reloads, edits, overwritten, world>>

(***************************************************************************)
(* Timers, rendering, leaving the page.                                    *)
(***************************************************************************)
FlushTimer ==
    /\ ui.flushTimer
    /\ ui' = FlushStreamUpdates(ui)
    /\ UNCHANGED <<rendered, editing, requests, aborted, stored, swallowed, sent, last, reloads, edits, overwritten, world>>

\* A save that fails is not tried again.
SaveTimer(disk) ==
    /\ ui.saveTimer
    /\ ui' = [ui EXCEPT !.saveTimer = FALSE]
    /\ stored' = IF disk = "works" THEN SaveMessages(ui.messages) ELSE stored
    /\ swallowed' = (disk # "works")
    /\ UNCHANGED <<rendered, editing, requests, aborted, sent, last, reloads, edits, overwritten, world>>

Render ==
    /\ rendered # Rendered(ui)
    /\ rendered' = Rendered(ui)
    /\ UNCHANGED <<ui, editing, requests, aborted, stored, swallowed, sent, last, reloads, edits, overwritten, world>>

\* Leaving the playground saves what the timer had not; a closed tab does not.
\* Coming back loads, and writes back what it loaded; what is too large is removed
\* unread, and what cannot be read is left there and shown as an empty list.
Reload(unmounted, disk) ==
    LET saved  == IF unmounted /\ ui.saveTimer /\ disk # "full"
                  THEN SaveMessages(ui.messages) ELSE stored
        loaded == IF disk = "unread" THEN <<>> ELSE LoadMessages(saved)
    IN  /\ reloads < world.maxReloads
        /\ reloads' = reloads + 1
        /\ stored' = IF disk = "works" \/ (disk = "full" /\ Size(saved) > MAX_STORED_SIZE)
                     THEN loaded ELSE saved
        /\ swallowed' = (disk = "unread" \/ stored' # loaded)
        /\ ui' = Mounted(loaded)
        /\ rendered' = Rendered(Mounted(loaded))
        /\ editing' = NoKey
        /\ requests' = {} /\ aborted' = {}
        /\ UNCHANGED <<sent, last, edits, overwritten, world>>

MessageKeys == {<<f, r>> : f \in {"user", "assistant"}, r \in Requests}

ChatNext ==
    \/ HandleSendMessage
    \/ \E k \in MessageKeys : HandleRegenerateMessage(k) \/ HandleEditMessage(k)
                              \/ HandleDeleteMessage(k)
    \/ CancelEdit \/ SaveEdit \/ SaveEditAndSubmit
    \/ HandleClearMessages
    \/ HandleStop
    \/ \E s \in Requests, b \in Batches : SourceMessages(s, b)
    \/ \E s \in Requests : SourceError(s) \/ SourceEndsQuietly(s)
    \/ \E r \in Requests, ok \in BOOLEAN : NonStreamAnswer(r, ok)
    \/ FlushTimer \/ Render
    \/ \E disk \in world.disks \ {"unread"} : SaveTimer(disk)
    \/ \E b \in BOOLEAN, disk \in world.disks : Reload(b, disk)

ChatSpec == ChatInit /\ [][ChatNext]_chatVars

(***************************************************************************)
(* Properties.                                                             *)
(***************************************************************************)
Assistants(ms) == {i \in DOMAIN ms : ms[i].from = "assistant"}

\* Nothing waits for ever: a message that shows a spinner is the last one, its
\* request is the current one, and Stop is on the screen (isGenerating).  After
\* a reload no message is left pending.  The one exception is a message that an
\* edit saved from an older render has set back (use-playground-conversation.ts:80).
PendingIsOwned ==
    \A i \in Assistants(ui.messages) :
        (IsPending(ui.messages[i]) /\ overwritten = {}) =>
            /\ i = Len(ui.messages)
            /\ Generating(ui)
            /\ IF world.stream THEN ui.sseSource = ui.messages[i].key[2]
               ELSE ui.messages[i].key[2] \in requests \ aborted

\* Chunks are neither lost nor repeated between the source and the screen, and
\* none reaches the message of another request (use-chat-handler.ts:217 drops what
\* the last stream left, use-stream-request.ts:59 closes it): the message of the
\* stream, with what waits for the flush and what the accumulator holds back, is
\* every chunk dispatched, in order, with the same exception.  An answer that is
\* not streamed does reach the message of a request sent by Save & Submit while
\* it was awaited.
NothingDropped ==
    \A i \in Assistants(ui.messages) :
        LET m == ui.messages[i]
            r == m.key[2]
            waiting == IF r = ui.sseSource THEN ui.pending \o ui.held ELSE <<>>
        IN  (world.stream /\ r \notin overwritten /\ reloads = 0 /\ m.status # "error"
             /\ m.text # <<Edited>>)
               => m.text \o waiting = [n \in 1 .. sent[r] |-> <<r, n>>]

\* What the user sees is on disk, at most MAX_STORED_MESSAGES of it, once the
\* save timer has run and unless this save, or the load before it, threw: nobody
\* tries it again or tells the user (use-playground-state.ts:72, storage.ts:380).
\* What is on disk, an older list or not, loads into a list without pending
\* messages, whatever it was saved in the middle of (storage.ts:341).
StoredLoads ==
    /\ ui.saveTimer \/ swallowed \/ stored = SaveMessages(ui.messages)
    /\ overwritten = {} =>
           \A i \in DOMAIN LoadMessages(stored) : ~IsPending(LoadMessages(stored)[i])
=============================================================================
