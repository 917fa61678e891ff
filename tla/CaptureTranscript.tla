-------------------------- MODULE CaptureTranscript --------------------------
(***************************************************************************)
(* What the capture journal promises to the readers of a session: every   *)
(* reservation owns one place in the transcript, the transcript only       *)
(* grows, places are filled in reservation order, and a place is filled by *)
(* a synthesized ("recovery") envelope only when the proxy task that       *)
(* reserved it can no longer deliver the real one.                         *)
(*                                                                         *)
(* How this is achieved - a durable journal, staged files, a crash         *)
(* tolerant append, markers and recovery sweeps - is CaptureJournal.       *)
(***************************************************************************)
EXTENDS Integers, Sequences

CONSTANT Sessions       \* session ids

VARIABLES
    reserved,           \* reserved[s]: how many turns of s were ever reserved
    transcript,         \* transcript[s]: the envelopes of s, oldest first
    inflight            \* the turns <<s, n>> whose proxy task is still alive

transcriptVars == <<reserved, transcript, inflight>>

Envelopes == [seq : Nat, by : {"tee", "recovery"}]

TranscriptInit ==
    /\ reserved \in [Sessions -> Nat]
    /\ transcript \in [Sessions -> Seq(Envelopes)]
    /\ \A s \in Sessions : Len(transcript[s]) <= reserved[s]
    /\ inflight = {}

(* A request is admitted; its task may already be gone when the journal    *)
(* holds the reservation.                                                  *)
Admit(s) ==
    /\ reserved' = [reserved EXCEPT ![s] = @ + 1]
    /\ inflight' \in {inflight, inflight \union {<<s, reserved[s]>>}}
    /\ UNCHANGED transcript

(* The next place of the transcript is filled, once.                       *)
Settle(s, by) ==
    LET n == Len(transcript[s]) IN
    /\ n < reserved[s]
    /\ by = "recovery" => <<s, n>> \notin inflight
    /\ transcript' = [transcript EXCEPT ![s] = Append(@, [seq |-> n, by |-> by])]
    /\ UNCHANGED <<reserved, inflight>>

(* Tasks end: delivered, dropped, or lost with the daemon.                 *)
Leave ==
    /\ inflight' \subseteq inflight
    /\ UNCHANGED <<reserved, transcript>>

TranscriptNext ==
    \/ \E s \in Sessions : Admit(s)
    \/ \E s \in Sessions, by \in {"tee", "recovery"} : Settle(s, by)
    \/ Leave

TranscriptSpec == TranscriptInit /\ [][TranscriptNext]_transcriptVars
=============================================================================
