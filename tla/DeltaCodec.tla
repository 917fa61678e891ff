------------------------------ MODULE DeltaCodec ------------------------------
(***************************************************************************)
(* body_delta: how a request body is stored against the one before it      *)
(* (encode_delta and apply_delta in crates/vaultr/src/recon.rs).  plant    *)
(* encodes when it reserves a turn, against the body kept in state.json;   *)
(* a reader applies the deltas of a session in order.                      *)
(*                                                                         *)
(* A body is an object: a history, the array under the harness's history   *)
(* key, and other fields.  Anything else, null before the first request    *)
(* included, has neither.                                                  *)
(***************************************************************************)
EXTENDS Integers, Sequences

CONSTANTS
    Fields,         \* names of the other fields
    BigFields,      \* those stored only when they change (tools, system, ...)
    Values,         \* what a field may hold
    Messages,       \* what a history is made of
    Bodies          \* bodies that are encoded after each other

Objects ==
    [object : {TRUE}, fields : UNION {[S -> Values] : S \in SUBSET Fields},
     history : Seq(Messages)]

NoBody == [object |-> FALSE, fields |-> <<>>, history |-> <<>>]

ASSUME CodecAssumption ==
    /\ BigFields \subseteq Fields
    /\ \A b \in Bodies : b \in Objects

-----------------------------------------------------------------------------
\* The prefixes that two histories share, and the longest of them.
Shared(a, b) == {n \in 0..Len(a) : n <= Len(b) /\ \A i \in 1..n : a[i] = b[i]}
CommonPrefix(a, b) == CHOOSE n \in Shared(a, b) : \A m \in Shared(a, b) : m <= n

\* A big field is stored unless the prior body holds the same.
Unchanged(prior, body, k) ==
    k \in DOMAIN prior.fields /\ prior.fields[k] = body.fields[k]

EncodeDelta(prior, body) ==
    LET stored == {k \in DOMAIN body.fields : ~(k \in BigFields /\ Unchanged(prior, body, k))}
        prefix == CommonPrefix(prior.history, body.history)
    IN [form   |-> "append",
        set    |-> [k \in stored |-> body.fields[k]],
        remove |-> IF body.object THEN DOMAIN prior.fields \ DOMAIN body.fields ELSE {},
        prefix |-> prefix,
        append |-> SubSeq(body.history, prefix + 1, Len(body.history))]

\* A delta in one of three forms: after a prefix of the history so far; after
\* all of it (legacy); or a list of hashes, each of a new message or of one
\* given before (content-addressed).
Valid(delta, state) ==
    CASE delta.form = "append" -> delta.prefix <= Len(state.history)
      [] delta.form = "legacy" -> TRUE
      [] delta.form = "order"  ->
            \A i \in DOMAIN delta.order :
                delta.order[i] \in DOMAIN delta.new \cup DOMAIN state.dict

\* New hashes are kept for later deltas (mutant: for this one).
Discarded(delta, dict) == dict
Remembered(delta, dict) ==
    [k \in DOMAIN delta.new \cup DOMAIN dict |->
        IF k \in DOMAIN delta.new THEN delta.new[k] ELSE dict[k]]

ApplyDelta(delta, state) ==
    CASE delta.form = "append" ->
            [state EXCEPT !.history = SubSeq(@, 1, delta.prefix) \o delta.append]
      [] delta.form = "legacy" -> [state EXCEPT !.history = @ \o delta.append]
      [] delta.form = "order"  ->
            LET known == [k \in DOMAIN delta.new \cup DOMAIN state.dict |->
                             IF k \in DOMAIN delta.new THEN delta.new[k] ELSE state.dict[k]]
            IN [state EXCEPT !.history = [i \in DOMAIN delta.order |-> known[delta.order[i]]],
                             !.dict = Remembered(delta, @)]

-----------------------------------------------------------------------------
\* What set and remove say of the other fields.
Replayed(delta, fields) ==
    [k \in (DOMAIN fields \ delta.remove) \cup DOMAIN delta.set |->
        IF k \in DOMAIN delta.set THEN delta.set[k] ELSE fields[k]]

\* Applied to the body it was encoded against, a delta gives back the body.
Replays(prior, body) ==
    LET delta == EncodeDelta(prior, body)
        state == [history |-> prior.history, dict |-> <<>>]
    IN /\ Valid(delta, state)
       /\ ApplyDelta(delta, state).history = body.history
       /\ Replayed(delta, prior.fields) = body.fields

AllReplay == \A prior \in Bodies \cup {NoBody}, body \in Bodies : Replays(prior, body)
===============================================================================
