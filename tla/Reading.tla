------------------------------- MODULE Reading -------------------------------
(***************************************************************************)
(* A reader of a session that is captured and sealed meanwhile: the        *)
(* envelopes that Sealing shows it, put together by Reconstruction.        *)
(***************************************************************************)
EXTENDS Sealing, Reconstruction

CONSTANTS
    Conversations,  \* what may have been captured: for each turn [label, key,
                    \* body, turn, complete, events] and the answer it shows
    Blocks,         \* two blocks of an answer: [kind, deltas], a delta being
                    \* [field, piece]
    Histories       \* histories of requests

ASSUME ReadingAssumption ==
    /\ \A c \in Conversations :
          1..MaxTurns \subseteq DOMAIN c /\ \A n \in DOMAIN c : c[n].body \in Objects
    /\ Len(Blocks) = 2
    /\ \A n \in 1..2 : LET deltas == Blocks[n].deltas IN
          deltas \in Seq(ToSet(deltas)) /\ \A d \in ToSet(deltas) : d.field \in DOMAIN NoText
    /\ Histories \subseteq Seq(Messages)

\* prepare_capture: a turn is stored against the request before it.
Envelope(c, n) ==
    [label |-> c[n].label, key |-> c[n].key, turn |-> c[n].turn,
     complete |-> c[n].complete, events |-> c[n].events,
     delta |-> EncodeDelta(IF n = 1 THEN NoBody ELSE c[n - 1].body, c[n].body)]

\* The harness of a conversation, as its first n turns show it: a label, wherever
\* it is, or else what a history under "input" suggests.
HarnessOf(c, n) ==
    IF \E i \in 1..n : Recognized(c[i].label)
    THEN CHOOSE h \in {Codex, Claude} : \E i \in 1..n : c[i].label = h
    ELSE IF \E i \in 1..n : c[i].key = "input" THEN Provisional ELSE Unknown

\* What a conversation is: of one harness, since a reader refuses two (OneHarness),
\* each answer the one that the response of its turn shows under the harness known
\* by then.
ASSUME ConversationAssumption ==
    \A c \in Conversations :
        /\ \A i, j \in DOMAIN c :
              Recognized(c[i].label) /\ Recognized(c[j].label) => c[i].label = c[j].label
        /\ \A n \in DOMAIN c :
              c[n].answer = ResponseOutput(c[n], HarnessValue(HarnessOf(c, n)))

\* Whatever a crash left of the generations, a reader sees every turn once, and
\* if it is not refused gets back the history of the latest request it reads and
\* the answer to it, if there was one: through requests that extend, edit or
\* compact the history, turns without an answer, drains and seals cut short.
ReaderRebuildsConversation ==
    /\ ReaderSeesEveryTurnOnce
    /\ (FlockFree /\ ReadTurns \notin {Conflict, <<>>}) =>
        \A c \in Conversations :
            LET state == Reconstruct([i \in DOMAIN ReadTurns |-> Envelope(c, ReadTurns[i].seq)])
                last == c[Len(ReadTurns)]
            IN /\ state.ok /\ state.envelopes = Len(ReadTurns)
               /\ Conversation(state) = last.body.history \o last.answer

-----------------------------------------------------------------------------
(* The parts of the codec, over bounded inputs: what they owe the turns that *)
(* are reserved, and the reader of those that are drained.                 *)

Plain(label, key) ==
    [label |-> label, key |-> key, turn |-> "", complete |-> FALSE, events |-> <<>>,
     delta |-> [form |-> "legacy", append |-> <<>>]]

\* The two derivations of the harness, over a whole capture and from envelope
\* to envelope, agree on every capture that is not refused, and only one with
\* two labels is.
OneHarness ==
    \A envs \in SeqOf({Plain(l, k) : l \in {Codex, Claude, "other"}, k \in {"messages", "input"}}, 3) :
        LET state == Reconstruct(envs) IN
        IF \E i, j \in DOMAIN envs : /\ Recognized(envs[i].label) /\ Recognized(envs[j].label)
                                     /\ envs[i].label # envs[j].label
        THEN ~state.ok
        ELSE HarnessValue(state.harness) = FoldLeft(FromEnvelope, Unknown, envs)

\* The events of block b, whose number in the message is n.
EventsOf(b, n) ==
    <<[type |-> "content_block_start", kind |-> b.kind]>>
        \o [i \in DOMAIN b.deltas |-> [type |-> "content_block_delta", index |-> n,
                                       field |-> b.deltas[i].field, piece |-> b.deltas[i].piece]]
Stop == [type |-> "message_stop"]

\* All ways to merge two sequences in which the second is not the first to begin.
Merges(s, t) ==
    LET places == 1..(Len(s) + Len(t))
        upto(P, i) == Cardinality({j \in P : j <= i})
    IN {[i \in places |-> IF i \in P THEN s[upto(P, i)] ELSE t[upto(places \ P, i)]] :
           P \in {Q \in kSubset(Len(s), places) : 1 \in Q}}

\* The pieces of block b under field, in the order of their deltas.
Picked(text, d, field) == IF d.field = field THEN Append(text, d.piece) ELSE text
Text(b, field) == FoldLeft(LAMBDA text, d : Picked(text, d, field), <<>>, b.deltas)

\* However the deltas of two blocks are interleaved, the answer has each block
\* with its own text, in order; a stream that is cut off has none.
AllStreamsRebuild ==
    LET message == [role |-> "assistant",
                    content |-> [n \in 1..2 |->
                        [kind |-> Blocks[n].kind,
                         parts |-> [f \in DOMAIN NoText |-> Text(Blocks[n], f)]]]]
    IN \A events \in Merges(EventsOf(Blocks[1], 0), EventsOf(Blocks[2], 1)) :
          /\ AnthropicOutput(Append(events, Stop)) = <<message>>
          /\ \A n \in 0..Len(events) : AnthropicOutput(SubSeq(events, 1, n)) = <<>>

\* A request in one of the three forms; known are the messages given before.
DeltaOf(form, prior, history, known) ==
    CASE form = "order" -> [form |-> "order", order |-> history,
                            new |-> [m \in ToSet(history) \ known |-> m]]
      [] form = "legacy" /\ IsPrefix(prior, history) ->
            [form |-> "legacy", append |-> SubSeq(history, Len(prior) + 1, Len(history))]
      [] OTHER -> EncodeDelta([NoBody EXCEPT !.history = prior], [NoBody EXCEPT !.history = history])

\* The reader at the next request of a capture, whose messages so far are given.
Replaying(acc, r) ==
    LET delta == DeltaOf(r.form, acc.state.history, r.history, acc.given)
        next == ApplyDelta(delta, acc.state)
    IN IF ~acc.ok \/ ~Valid(delta, acc.state) THEN [acc EXCEPT !.ok = FALSE]
       ELSE [state |-> next, ok |-> next.history = r.history,
             given |-> IF r.form = "order" THEN acc.given \cup ToSet(r.history) ELSE acc.given]

\* A capture that changes its form from request to request, and gives no
\* message twice in the content-addressed form, is read to its last history.
AllFormsReplay ==
    \A requests \in [1..3 -> [history : Histories, form : {"append", "legacy", "order"}]] :
        FoldLeft(Replaying, [state |-> Start, given |-> {}, ok |-> TRUE], requests).ok

\* What is stored can be read back: every request that is reserved, as a delta
\* against any body before it (encode_delta: "replay reconstructs body
\* exactly"); every drained capture, in whichever forms its deltas are, whenever
\* its labels come, and in whatever order its answers were streamed.
CodecIsFaithful ==
    /\ reserved > 0 => AllReplay
    /\ drained > 0 => AllFormsReplay /\ OneHarness /\ AllStreamsRebuild
==============================================================================
