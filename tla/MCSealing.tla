------------------------------ MODULE MCSealing ------------------------------
(* An instance of Sealing and its reader for TLC.                            *)
EXTENDS Reading

MCLeaky == {1, 3}

\* Bodies of two fields, one of them big, and at most two messages.
TwoFields == {"model", "tools"}
Tools == {"tools"}
TwoValues == {1, 2}
Content(n) == <<[kind |-> "text", parts |-> [NoText EXCEPT !.text = <<n>>]]>>
User(n) == [role |-> "user", content |-> Content(n)]
Said(n) == [role |-> "assistant", content |-> Content(n)]
AnyMessages == {User(n) : n \in 1..4} \cup {Said(7), Said(8)}
TwoMessages == {User(1), User(2)}
ShortHistories == SeqOf(TwoMessages, 2)
SmallBodies ==
    [object : {TRUE}, fields : UNION {[S -> TwoValues] : S \in SUBSET TwoFields},
     history : ShortHistories]

\* An answer of a text and a tool call.
TwoBlocks ==
    <<[kind |-> "text", deltas |-> <<[field |-> "text", piece |-> 1], [field |-> "text", piece |-> 2]>>],
      [kind |-> "tool_use", deltas |-> <<[field |-> "input", piece |-> 3], [field |-> "input", piece |-> 4]>>]>>

Body(history) == [object |-> TRUE, fields |-> [k \in {"tools"} |-> 1], history |-> history]
Streamed ==
    <<[type |-> "content_block_start", kind |-> "text"],
      [type |-> "content_block_delta", index |-> 0, field |-> "text", piece |-> 7],
      [type |-> "message_stop"]>>
OfClaude(history, complete) ==
    [label |-> Claude, key |-> "messages", body |-> Body(history), turn |-> "",
     complete |-> complete, events |-> Streamed, answer |-> IF complete THEN <<Said(7)>> ELSE <<>>]
OfCodex(label, history, events, items) ==
    [label |-> label, key |-> "input", body |-> Body(history), turn |-> "t", complete |-> TRUE,
     events |-> events,
     answer |-> [i \in DOMAIN items |-> [role |-> "assistant", content |-> items[i], turn |-> "t"]]]

\* A history that grows by an answer and is then edited; one that is compacted,
\* whose turns are labelled late and answered in both ways of codex.
TwoConversations ==
    {<<OfClaude(<<User(1)>>, TRUE), OfClaude(<<User(1), Said(7), User(2)>>, FALSE),
       OfClaude(<<User(1), Said(8), User(2), User(3)>>, TRUE)>>,
     <<OfCodex("", <<User(1), User(2)>>,
               <<[type |-> "response.output_item.done", item |-> Content(1)],
                 [type |-> "response.output_item.done", item |-> Content(2)],
                 [type |-> "response.completed", output |-> <<Content(3)>>]>>, <<Content(1), Content(2)>>),
       OfCodex(Codex, <<User(3)>>, <<[type |-> "response.completed", output |-> <<Content(4)>>]>>, <<Content(4)>>),
       OfCodex("", <<User(3), User(4)>>, <<>>, <<>>)>>}
==============================================================================
