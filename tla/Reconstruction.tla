---------------------------- MODULE Reconstruction ----------------------------
(***************************************************************************)
(* What a reader makes of the envelopes of one capture                     *)
(* (crates/vaultr/src/recon.rs): the history, the answer of the last turn, *)
(* and the harness that was captured.                                      *)
(*                                                                         *)
(* An envelope is [label, key, delta, turn, complete, events]: the harness *)
(* label, the history key, the delta of its request, the turn id ("" if    *)
(* none), and the response, whose events are those of its stream.  Text is *)
(* a sequence of pieces.  JSON and the framing of SSE are left out.        *)
(***************************************************************************)
EXTENDS DeltaCodec, SequencesExt

Codex == "codex"
Claude == "claude"
Unknown == "unknown"
Provisional == "provisional"    \* codex, as long as no label says otherwise

Recognized(label) == label \in {Codex, Claude}

-----------------------------------------------------------------------------
(* The answer in a response.                                               *)

NoText == [text |-> <<>>, thinking |-> <<>>, input |-> <<>>]

\* A delta goes to the block it names.
Named(blocks, e) == e.index + 1

Accumulate(blocks, e) ==
    CASE e.type = "content_block_start" -> Append(blocks, [kind |-> e.kind, parts |-> NoText])
      [] e.type = "content_block_delta" /\ e.index < Len(blocks) ->
            [blocks EXCEPT ![Named(blocks, e)].parts[e.field] = Append(@, e.piece)]
      [] OTHER -> blocks

\* A stream that did not stop gives no message; nor does one without blocks.
AnthropicOutput(events) ==
    LET blocks == FoldLeft(Accumulate, <<>>, events)
        stopped == \E i \in DOMAIN events : events[i].type = "message_stop"
    IN IF stopped /\ blocks # <<>> THEN <<[role |-> "assistant", content |-> blocks]>> ELSE <<>>

\* Items that were done, or else the output of the latest completed response.
CodexOutput(events) ==
    LET of(type) == SelectSeq(events, LAMBDA e : e.type = type)
        done == of("response.output_item.done")
        completed == of("response.completed")
    IN IF done # <<>> THEN [i \in DOMAIN done |-> done[i].item]
       ELSE IF completed # <<>> THEN Last(completed).output ELSE <<>>

\* Codex replays its items with the id of their turn.
Stamped(items, turn) ==
    [i \in DOMAIN items |-> [role |-> "assistant", content |-> items[i], turn |-> turn]]

ResponseOutput(env, harness) ==
    IF ~env.complete THEN <<>>
    ELSE IF harness = Codex THEN Stamped(CodexOutput(env.events), env.turn)
    ELSE AnthropicOutput(env.events)

-----------------------------------------------------------------------------
(* The harness.                                                            *)

\* ReconState: a label is final, and another one is a conflict; a history
\* under "input" suggests codex.
NextHarness(harness, env) ==
    IF Recognized(env.label) THEN env.label
    ELSE IF harness = Unknown /\ env.key = "input" THEN Provisional
    ELSE harness

Conflicting(harness, env) ==
    Recognized(env.label) /\ Recognized(harness) /\ harness # env.label

HarnessValue(harness) == IF harness = Provisional THEN Codex ELSE harness

\* Harness::from_envelope, by which plant's coverage report goes on from one
\* envelope to the next.
FromEnvelope(current, env) ==
    IF Recognized(env.label) THEN env.label
    ELSE IF current = Unknown /\ env.key = "input" THEN Codex
    ELSE current

-----------------------------------------------------------------------------
(* ReconState.                                                             *)

Start == [history |-> <<>>, dict |-> <<>>, key |-> "messages", harness |-> Unknown,
          trailing |-> <<>>, envelopes |-> 0, ok |-> TRUE]

\* The answer of an earlier turn is in the history of the next request; the
\* last one is kept (mutant: all of them).
EveryAnswer(state, answer) == state.trailing \o answer
LastAnswer(state, answer) == answer

Apply(state, env) ==
    LET harness == NextHarness(state.harness, env)
        answer == ResponseOutput(env, HarnessValue(harness))
    IN IF ~state.ok \/ Conflicting(state.harness, env) \/ ~Valid(env.delta, state)
       THEN [state EXCEPT !.ok = FALSE]
       ELSE [ApplyDelta(env.delta, state) EXCEPT
                !.key = env.key, !.harness = harness, !.envelopes = @ + 1,
                !.trailing = LastAnswer(state, answer)]

Reconstruct(envelopes) == FoldLeft(Apply, Start, envelopes)

\* finish: the history with the trailing answer.
Conversation(state) == state.history \o state.trailing
===============================================================================
