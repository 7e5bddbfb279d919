-------------------------- MODULE StreamAccumulator --------------------------
(***************************************************************************)
(* How the playground turns the chunks of one streamed answer into the     *)
(* text and the reasoning of a message: the accumulator that takes <think> *)
(* sections out of the stream, the chunks waiting for the 50 ms flush, and *)
(* the message they are applied to (features/playground/lib/message and    *)
(* hooks/use-chat-handler.ts).                                             *)
(*                                                                         *)
(* Text is a sequence of symbols.  The two tags are short sequences with   *)
(* the overlap of "<think>" and "</think>": both start with "<" and        *)
(* neither repeats it.  Trimming, the blank line parseThinkTags puts       *)
(* between two sections, and timing are left out.  An answer comes in one  *)
(* field of the delta: one that mixes the two, whose texts the accumulator *)
(* keeps apart (receivedContent, receivedReasoning), is left out.          *)
(***************************************************************************)
EXTENDS Naturals, SequencesExt, FiniteSetsExt

CONSTANTS
    Texts,      \* what the upstream has to say
    Types,      \* the fields of the delta it may arrive in
    Styles      \* how the upstream cuts it: "delta" or "cumulative" chunks

ASSUME Types \subseteq {"content", "reasoning"}
ASSUME Styles \subseteq {"delta", "cumulative"}

OpenTag  == <<"<", "t", ">">>
CloseTag == <<"<", "/", "t", ">">>
Nothing  == [content |-> <<>>, reasoning |-> <<>>]

VARIABLES
    text,       \* the whole answer
    type,       \* the field it arrives in
    style,      \* how it is cut
    pos,        \* how much of it has been delivered
    acc,        \* the accumulator: mode, pendingTag and the received text
    emitted,    \* history: everything the accumulator has returned
    pending,    \* pendingStreamChunksRef
    message,    \* content and reasoning of the assistant message
    phase,      \* "streaming", "complete"
    misread     \* history: a chunk was taken for a repetition and was none

vars == <<text, type, style, pos, acc, emitted, pending, message, phase, misread>>

Fresh == [mode |-> "content", pendingTag |-> <<>>, received |-> <<>>]

(***************************************************************************)
(* Text.                                                                   *)
(***************************************************************************)
\* String.indexOf, 0 when absent.
IndexOf(s, t) ==
    LET at == {i \in 1 .. (Len(s) - Len(t) + 1) : SubSeq(s, i, i + Len(t) - 1) = t}
    IN  IF at = {} THEN 0 ELSE Min(at)

From(s, i) == SubSeq(s, i, Len(s))

Join(a, b) == [content |-> a.content \o b.content, reasoning |-> a.reasoning \o b.reasoning]

In(mode, s) == [Nothing EXCEPT ![mode] = s]

RECURSIVE ParseThinkTags(_)
ParseThinkTags(s) ==
    LET open  == IndexOf(s, OpenTag)
        body  == From(s, open + Len(OpenTag))
        close == IndexOf(body, CloseTag)
        head  == In("content", SubSeq(s, 1, open - 1))
    IN  CASE open = 0 -> In("content", s)
          [] open # 0 /\ close = 0 -> Join(head, In("reasoning", body))
          [] open # 0 /\ close # 0 ->
               Join(Join(head, In("reasoning", SubSeq(body, 1, close - 1))),
                    ParseThinkTags(From(body, close + Len(CloseTag))))

(***************************************************************************)
(* The accumulator.                                                        *)
(***************************************************************************)
AppendDedupedChunkAlways(received, chunk) ==
    [received |-> received \o chunk, delta |-> chunk]

AppendDedupedChunk(received, chunk) ==
    IF chunk # <<>> /\ IsPrefix(received, chunk)
    THEN [received |-> chunk, delta |-> From(chunk, Len(received) + 1)]
    ELSE [received |-> received \o chunk, delta |-> chunk]

\* The longest proper prefix of the tag that the text ends with.
HeldLengthNone(s, tag) == 0

HeldLength(s, tag) ==
    Max({0} \cup {n \in 1 .. Min({Len(tag) - 1, Len(s)}) : IsSuffix(SubSeq(tag, 1, n), s)})

RECURSIVE Scan(_, _, _)
Scan(mode, s, out) ==
    LET tag   == IF mode = "content" THEN OpenTag ELSE CloseTag
        other == IF mode = "content" THEN "reasoning" ELSE "content"
        at    == IndexOf(s, tag)
        held  == HeldLength(s, tag)
    IN  IF s # <<>> /\ at # 0
        THEN Scan(other, From(s, at + Len(tag)), Join(out, In(mode, SubSeq(s, 1, at - 1))))
        ELSE [mode |-> mode,
              pendingTag |-> From(s, Len(s) - held + 1),
              out |-> Join(out, In(mode, SubSeq(s, 1, Len(s) - held)))]

\* The accumulator after append(t, chunk), and what the call returns.
AfterAppend(a, t, chunk) ==
    LET d == AppendDedupedChunk(a.received, chunk)
        s == Scan(a.mode, a.pendingTag \o d.delta, Nothing)
    IN  IF t = "content"
        THEN [acc |-> [mode |-> s.mode, pendingTag |-> s.pendingTag, received |-> d.received],
              out |-> s.out]
        ELSE [acc |-> [a EXCEPT !.received = d.received],
              out |-> In("reasoning", d.delta)]

\* What finish() returns.
Finish(a) == In(a.mode, a.pendingTag)

(***************************************************************************)
(* The message.                                                            *)
(***************************************************************************)
GetAppendableChunk(current, chunk) ==
    IF current # <<>> /\ IsPrefix(current, chunk)
    THEN From(chunk, Len(current) + 1)
    ELSE chunk

\* applyStreamingChunk for each field that has something pending.  A content
\* that shows an opening tag again is parsed again, tags and all.
ApplyStreamingChunks(m, p) ==
    LET reasoning == IF p.reasoning = <<>> THEN m.reasoning
                     ELSE m.reasoning \o GetAppendableChunk(m.reasoning, p.reasoning)
        content   == m.content \o GetAppendableChunk(m.content, p.content)
        parsed    == ParseThinkTags(content).reasoning
    IN  [content |-> content,
         reasoning |-> IF p.content # <<>> /\ IndexOf(content, OpenTag) # 0 /\ parsed # <<>>
                       THEN parsed ELSE reasoning]

FinalizeMessage(m) ==
    LET parsed == ParseThinkTags(m.content)
    IN  [content |-> parsed.content,
         reasoning |-> IF m.reasoning # <<>> THEN m.reasoning ELSE parsed.reasoning]

(***************************************************************************)
(* Behaviour.                                                              *)
(***************************************************************************)
Init ==
    /\ text \in Texts /\ type \in Types /\ style \in Styles
    /\ pos = 0 /\ acc = Fresh
    /\ emitted = Nothing /\ pending = Nothing /\ message = Nothing
    /\ phase = "streaming" /\ misread = FALSE

\* The next chunk arrives (handleStreamUpdate).
HandleStreamUpdate(n) ==
    LET chunk == SubSeq(text, IF style = "delta" THEN pos + 1 ELSE 1, pos + n)
        r     == AfterAppend(acc, type, chunk)
    IN  /\ phase = "streaming" /\ pos + n <= Len(text)
        /\ pos' = pos + n
        /\ acc' = r.acc
        /\ emitted' = Join(emitted, r.out)
        /\ pending' = Join(pending, r.out)
        /\ misread' = (misread \/ (style = "delta" /\ pos > 0 /\ IsPrefix(acc.received, chunk)))
        /\ UNCHANGED <<text, type, style, message, phase>>

\* The message guesses again whether the chunks repeat what it has.
MisreadBy(p) == \E f \in {"content", "reasoning"} :
    message[f] # <<>> /\ p[f] # <<>> /\ IsPrefix(message[f], p[f])

\* The 50 ms timer: the waiting chunks are applied to the message.
FlushStreamUpdates ==
    /\ phase = "streaming" /\ pending # Nothing
    /\ message' = ApplyStreamingChunks(message, pending)
    /\ misread' = (misread \/ MisreadBy(pending))
    /\ pending' = Nothing
    /\ UNCHANGED <<text, type, style, pos, acc, emitted, phase>>

\* [DONE], or Stop: finish the accumulator, flush, reset it, complete the
\* message.  It may come before the whole answer has.
HandleStreamComplete ==
    LET p == Join(pending, Finish(acc))
    IN  /\ phase = "streaming"
        /\ message' = FinalizeMessage(ApplyStreamingChunks(message, p))
        /\ misread' = (misread \/ MisreadBy(p))
        /\ pending' = Nothing
        /\ emitted' = Join(emitted, Finish(acc))
        /\ acc' = Fresh
        /\ phase' = "complete"
        /\ UNCHANGED <<text, type, style, pos>>

Next ==
    \/ \E n \in 1 .. Len(text) : HandleStreamUpdate(n)
    \/ FlushStreamUpdates
    \/ HandleStreamComplete

Spec == Init /\ [][Next]_vars

(***************************************************************************)
(* Properties.                                                             *)
(***************************************************************************)
Received == SubSeq(text, 1, pos)

\* What the answer so far is, parsed in one go.
Expected == IF type = "content" THEN ParseThinkTags(Received)
            ELSE In("reasoning", Received)

\* How the upstream cuts the answer makes no difference: what the accumulator
\* has returned, with what finish() would still add, is what parsing the whole
\* text at once gives (createStreamingContentAccumulator,
\* message-streaming-utils.ts:62), and so is the message once the stream has
\* ended, whenever the 50 ms flushes happened, if the visible text holds no tag of
\* its own.  It needs that no delta chunk begins with everything received before.
AnswerExact ==
    ~misread =>
        /\ Join(emitted, Finish(acc)) = Expected
        /\ (phase = "complete" /\ IndexOf(Expected.content, OpenTag) = 0)
              => message = Expected

\* No part of a tag reaches the screen while it may still become one: what the
\* message shows never ends in the beginning of a tag that later chunks complete.
NoTagFragmentShown ==
    (phase = "streaming" /\ type = "content" /\ ~misread) =>
        IsPrefix(Join(message, pending).content, ParseThinkTags(text).content)
=============================================================================
