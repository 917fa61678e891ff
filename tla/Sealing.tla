------------------------------- MODULE Sealing -------------------------------
(***************************************************************************)
(* The generations of one session directory                                *)
(* (crates/plant/src/capture/generation.rs over session_fs.rs).            *)
(*                                                                         *)
(* A stream of records is written to a raw file, turns.jsonl for the       *)
(* capture and herdr.jsonl for pane snapshots.  A sweep detaches an idle   *)
(* session: it redacts turns.jsonl, renames each raw file to               *)
(* <raw>.sealing-<base>-<digest>, where base is the length of the sealed   *)
(* file, and then appends the compressed generation to the sealed file by  *)
(* writing a merged copy and renaming it, verifies the suffix, and unlinks *)
(* the detached file.  The process may die between any two of these steps; *)
(* the next sweep resumes from what the names and lengths say.             *)
(*                                                                         *)
(* The capture side is the drain of CaptureJournal reduced to the turns    *)
(* that are next in order: stage, append, advance the journal, unlink.     *)
(* It is here because sealing takes turns.jsonl away from it: the tail a   *)
(* retry would reconcile with is gone once a generation is detached.       *)
(*                                                                         *)
(* Reserving, committing and sealing hold the session's flock, a seal from *)
(* its first check to its last unlink; a herdr snapshot takes only the     *)
(* session mutex, which a seal gives up once both streams are detached.    *)
(* Lengths in bytes are numbers of frames, a digest is the content it is   *)
(* of.  Symbolic links, legacy names and power loss are left out.          *)
(***************************************************************************)
EXTENDS Integers, Sequences, FiniteSets, SequencesExt

CONSTANTS
    Leaky,          \* turns whose text holds something the scrub redacts
    MaxTurns,       \* bound: turns reserved
    MaxSnapshots,   \* bound: herdr snapshots
    MaxCrashes,     \* bound: deaths of the process
    MaxFaults,      \* bound: calls that go wrong
    Faults          \* which: "io" (a journal write or the unlink of a stage),
                    \* "fails" (zstd) or "lies" (zstd succeeds with bad output)

ASSUME SealingAssumption ==
    /\ Leaky \subseteq Nat
    /\ {MaxTurns, MaxSnapshots, MaxCrashes, MaxFaults} \subseteq Nat
    /\ Faults \subseteq {"io", "fails", "lies"}

VARIABLES
    \* durable: the session directory, by stream
    raw,            \* the raw file; <<>> when there is none
    detached,       \* the detached generation: None or [base, body]
    sealed,         \* the sealed file: the frames it concatenates
    temps,          \* temporaries in the directory: "scrub", "frame", "merged"
    \* durable: the capture journal and its stages
    reserved, drained, staged,
    \* volatile
    daemon,         \* "down", "recovering" (before it accepts) or "serving"
    commit,         \* the drain under the flock: "idle" or its next step
    seal,           \* the seal: [step, stream, frame]
    \* history
    snapshots,      \* the herdr snapshots appended so far
    crashes, faults

vars == <<raw, detached, sealed, temps, reserved, drained, staged, daemon, commit,
          seal, snapshots, crashes, faults>>

Streams == {"turns", "herdr"}
None == [base |-> -1, body |-> <<>>]
Garbage == [seq |-> 0, clear |-> FALSE]
Torn == [seq |-> -1, clear |-> FALSE]      \* an unterminated record

\* A record of turns.jsonl, and the redacted form the scrub leaves of it.
Turn(n) == [seq |-> n, clear |-> n \in Leaky]
Redacted(r) == [r EXCEPT !.clear = FALSE]

\* A file without the unterminated record at its end.
Whole(body) == IF body # <<>> /\ Last(body) = Torn THEN Front(body) ELSE body

NotSealing == [step |-> "idle", stream |-> "turns", frame |-> <<>>]
Detaching == {"scrub", "replace", "detach", "sidecar"}
Merging == {"open", "frame", "merge", "cleanup", "verify", "retire"}

FlockFree == seal.step = "idle" /\ commit = "idle"
MutexFree == seal.step \notin Detaching /\ commit = "idle"

-----------------------------------------------------------------------------
Init ==
    /\ raw = [s \in Streams |-> <<>>]
    /\ detached = [s \in Streams |-> None]
    /\ sealed = [s \in Streams |-> <<>>]
    /\ temps = [s \in Streams |-> {}]
    /\ reserved = 0 /\ drained = 0 /\ staged = {}
    /\ daemon = "serving"
    /\ commit = "idle"
    /\ seal = NotSealing
    /\ snapshots = 0
    /\ crashes = 0 /\ faults = 0

-----------------------------------------------------------------------------
(* The capture side.                                                       *)

Failing ==
    /\ "io" \in Faults /\ faults < MaxFaults
    /\ faults' = faults + 1

Reserve ==
    /\ daemon = "serving" /\ FlockFree /\ reserved < MaxTurns
    /\ reserved' = reserved + 1
    /\ UNCHANGED <<raw, detached, sealed, temps, drained, staged, daemon, commit, seal,
                   snapshots, crashes, faults>>

\* drain stops where the journal ends.
TurnOpen == drained < reserved

\* The next turn in order is staged, by its response or by a recovery, which
\* unlinks the retired stages first.
CommitBegin ==
    /\ daemon # "down" /\ FlockFree /\ TurnOpen
    /\ daemon = "recovering" => \A n \in staged : n > drained
    /\ staged' = staged \cup {drained + 1}
    /\ commit' = "append"
    /\ UNCHANGED <<raw, detached, sealed, temps, reserved, drained, daemon, seal,
                   snapshots, crashes, faults>>

\* reconcile_append: the record may have reached the file before a crash,
\* whole, or in part: then the part is cut off.
Reconciled ==
    LET turns == Whole(raw["turns"]) IN
    IF turns # <<>> /\ Last(turns) = Turn(drained + 1) THEN turns
    ELSE Append(turns, Turn(drained + 1))

CommitAppend ==
    /\ commit = "append"
    /\ raw' = [raw EXCEPT !["turns"] = Reconciled]
    /\ commit' = "advance"
    /\ UNCHANGED <<detached, sealed, temps, reserved, drained, staged, daemon, seal,
                   snapshots, crashes, faults>>

\* The journal is written, or the write fails and the commit ends in an error.
CommitAdvance ==
    /\ commit = "advance"
    /\ \/ /\ drained' = drained + 1
          /\ commit' = "unlink"
          /\ UNCHANGED faults
       \/ /\ Failing
          /\ commit' = "idle"
          /\ UNCHANGED drained
    /\ UNCHANGED <<raw, detached, sealed, temps, reserved, staged, daemon, seal,
                   snapshots, crashes>>

CommitUnlink ==
    /\ commit = "unlink"
    /\ commit' = "idle"
    /\ \/ /\ staged' = staged \ {drained}
          /\ UNCHANGED faults
       \/ /\ Failing
          /\ UNCHANGED staged
    /\ UNCHANGED <<raw, detached, sealed, temps, reserved, drained, daemon, seal,
                   snapshots, crashes>>

\* A stage behind the journal is unlinked only if its record ends turns.jsonl.
Explained(n) == raw["turns"] # <<>> /\ Last(raw["turns"]) = Turn(n)

RecoverRetired ==
    /\ daemon # "down" /\ FlockFree
    /\ \E n \in staged : n <= drained /\ Explained(n) /\ staged' = staged \ {n}
    /\ UNCHANGED <<raw, detached, sealed, temps, reserved, drained, daemon, commit, seal,
                   snapshots, crashes, faults>>

\* append_herdr_snapshot: the session mutex only, and a new open of the file.
AppendSnapshot ==
    /\ daemon = "serving" /\ MutexFree /\ snapshots < MaxSnapshots
    /\ snapshots' = snapshots + 1
    /\ raw' = [raw EXCEPT !["herdr"] = Append(@, [seq |-> snapshots + 1, clear |-> FALSE])]
    /\ UNCHANGED <<detached, sealed, temps, reserved, drained, staged, daemon, commit,
                   seal, crashes, faults>>

-----------------------------------------------------------------------------
(* Sealing.                                                                *)

\* What sealing_readiness demands of the journal.
JournalQuiet == drained = reserved /\ staged = {}

\* What a directory holds of a stream.
Generations(s) == [sealed |-> sealed[s], detached |-> detached[s], raw |-> raw[s]]

\* create_temp; replace_entry and unlink_if_same leave no temporary.
WithTemp(s, t) == [temps EXCEPT ![s] = @ \cup {t}]
Replaced(s, t) == [temps EXCEPT ![s] = @ \ {t}]

\* pending_seal, ready_to_seal: a session with a detached generation, or with a
\* raw one that is idle, which it may be at any moment.
Resumes(g) == g.detached # None
Starts(g) == g.detached = None /\ g.raw # <<>>

\* With the mutex and the flock.
SealBegin ==
    /\ daemon = "serving" /\ FlockFree
    /\ \/ /\ Resumes(Generations("turns"))
          /\ seal' = [NotSealing EXCEPT !.step = "sidecar"]
       \/ /\ Starts(Generations("turns")) /\ JournalQuiet
          /\ seal' = [NotSealing EXCEPT !.step = "scrub"]
    /\ UNCHANGED <<raw, detached, sealed, temps, reserved, drained, staged, daemon, commit,
                   snapshots, crashes, faults>>

\* scrub_entry: old temporaries go, a redacted copy is written beside the file.
Scrub ==
    /\ seal.step = "scrub"
    /\ temps' = WithTemp("turns", "scrub")
    /\ seal' = [seal EXCEPT !.step = "replace"]
    /\ UNCHANGED <<raw, detached, sealed, reserved, drained, staged, daemon, commit,
                   snapshots, crashes, faults>>

\* scrub_entry redacts every line (mutant: it does not).
Unscrubbed(body) == body
Scrubbed(body) == [i \in DOMAIN body |-> Redacted(body[i])]

\* With hits the copy is renamed over turns.jsonl, without it is removed.
ScrubReplace ==
    /\ seal.step = "replace"
    /\ raw' = [raw EXCEPT !["turns"] = Scrubbed(@)]
    /\ temps' = Replaced("turns", "scrub")
    /\ seal' = [seal EXCEPT !.step = "detach"]
    /\ UNCHANGED <<detached, sealed, reserved, drained, staged, daemon, commit,
                   snapshots, crashes, faults>>

\* Where the next frame is to start (mutant: always at the beginning).
NoBase(s) == 0
BaseLength(s) == Len(sealed[s])

Detached(s) ==
    /\ detached' = [detached EXCEPT ![s] = [base |-> BaseLength(s), body |-> raw[s]]]
    /\ raw' = [raw EXCEPT ![s] = <<>>]

DetachCapture ==
    /\ seal.step = "detach"
    /\ Detached("turns")
    /\ seal' = [seal EXCEPT !.step = "sidecar"]
    /\ UNCHANGED <<sealed, temps, reserved, drained, staged, daemon, commit,
                   snapshots, crashes, faults>>

\* detached_sidecar: one left by an earlier attempt comes first.
DetachSidecar ==
    /\ seal.step = "sidecar"
    /\ IF detached["herdr"] = None /\ raw["herdr"] # <<>>
       THEN Detached("herdr")
       ELSE UNCHANGED <<raw, detached>>
    /\ seal' = [seal EXCEPT !.step = "open",
                   !.stream = IF detached["herdr"] = None /\ raw["herdr"] = <<>>
                              THEN "turns" ELSE "herdr"]
    /\ UNCHANGED <<sealed, temps, reserved, drained, staged, daemon, commit,
                   snapshots, crashes, faults>>

\* cleanup_temps before a merge.
Cleaned(s) == temps[s] \ {"frame", "merged"}

\* seal_generation_in: temporaries go; a sealed file longer than base has the
\* frame already, a shorter one is a conflict.
MergeOpen ==
    /\ seal.step = "open"
    /\ LET s == seal.stream
           len == Len(sealed[s])
           base == detached[s].base
       IN \/ /\ len > base
             /\ temps' = [temps EXCEPT ![s] = Cleaned(s)]
             /\ seal' = [seal EXCEPT !.step = "verify"]
          \/ /\ len = base
             /\ temps' = [temps EXCEPT ![s] = Cleaned(s) \cup {"frame"}]
             /\ seal' = [seal EXCEPT !.step = "frame"]
          \/ /\ len < base
             /\ temps' = [temps EXCEPT ![s] = Cleaned(s)]
             /\ seal' = NotSealing
    /\ UNCHANGED <<raw, detached, sealed, reserved, drained, staged, daemon, commit,
                   snapshots, crashes, faults>>

\* zstd writes the frame; the merged copy is assembled.
WriteFrame ==
    /\ seal.step = "frame"
    /\ temps' = WithTemp(seal.stream, "merged")
    /\ \/ /\ seal' = [seal EXCEPT !.step = "merge", !.frame = detached[seal.stream].body]
          /\ UNCHANGED faults
       \/ /\ "lies" \in Faults /\ faults < MaxFaults
          /\ seal' = [seal EXCEPT !.step = "merge", !.frame = <<Garbage>>]
          /\ faults' = faults + 1
    /\ UNCHANGED <<raw, detached, sealed, reserved, drained, staged, daemon, commit,
                   snapshots, crashes>>

\* zstd fails or exceeds its ten minutes: the sweep returns the error.
FrameFails ==
    /\ seal.step = "frame" /\ "fails" \in Faults /\ faults < MaxFaults
    /\ temps' = Replaced(seal.stream, "frame")
    /\ seal' = NotSealing
    /\ faults' = faults + 1
    /\ UNCHANGED <<raw, detached, sealed, reserved, drained, staged, daemon, commit,
                   snapshots, crashes>>

MergeRename ==
    /\ seal.step = "merge"
    /\ sealed' = [sealed EXCEPT ![seal.stream] = Append(@, seal.frame)]
    /\ temps' = Replaced(seal.stream, "merged")
    /\ seal' = [seal EXCEPT !.step = "cleanup", !.frame = <<>>]
    /\ UNCHANGED <<raw, detached, reserved, drained, staged, daemon, commit,
                   snapshots, crashes, faults>>

MergeCleanup ==
    /\ seal.step = "cleanup"
    /\ temps' = Replaced(seal.stream, "frame")
    /\ seal' = [seal EXCEPT !.step = "verify"]
    /\ UNCHANGED <<raw, detached, sealed, reserved, drained, staged, daemon, commit,
                   snapshots, crashes, faults>>

\* The decoded suffix of the sealed file beyond base is the detached body
\* (mutant: believe the length).
SuffixTrusted(s) == Len(sealed[s]) > detached[s].base
SuffixMatches(s) ==
    FlattenSeq(SubSeq(sealed[s], detached[s].base + 1, Len(sealed[s]))) = detached[s].body

Verify ==
    /\ seal.step = "verify"
    /\ seal' = IF SuffixMatches(seal.stream) THEN [seal EXCEPT !.step = "retire"]
               ELSE NotSealing
    /\ UNCHANGED <<raw, detached, sealed, temps, reserved, drained, staged, daemon, commit,
                   snapshots, crashes, faults>>

\* The detached file is unlinked; after herdr come the turns.
Retire ==
    /\ seal.step = "retire"
    /\ detached' = [detached EXCEPT ![seal.stream] = None]
    /\ seal' = IF seal.stream = "herdr"
               THEN [seal EXCEPT !.step = "open", !.stream = "turns"]
               ELSE NotSealing
    /\ UNCHANGED <<raw, sealed, temps, reserved, drained, staged, daemon, commit,
                   snapshots, crashes, faults>>

-----------------------------------------------------------------------------
\* A crash within the append leaves a part of the record.
Partly ==
    /\ commit = "append" /\ Reconciled # raw["turns"]
    /\ raw' = [raw EXCEPT !["turns"] = Append(Whole(@), Torn)]

Crash ==
    /\ daemon # "down" /\ crashes < MaxCrashes
    /\ Partly \/ UNCHANGED raw
    /\ daemon' = "down"
    /\ commit' = "idle"
    /\ seal' = NotSealing
    /\ crashes' = crashes + 1
    /\ UNCHANGED <<detached, sealed, temps, reserved, drained, staged, snapshots, faults>>

Restart ==
    /\ daemon = "down"
    /\ daemon' = "recovering"
    /\ UNCHANGED <<raw, detached, sealed, temps, reserved, drained, staged, commit, seal,
                   snapshots, crashes, faults>>

\* Startup recovery is over when no reservation is open and no stage is left.
Serve ==
    /\ daemon = "recovering" /\ commit = "idle"
    /\ drained = reserved /\ staged = {}
    /\ daemon' = "serving"
    /\ UNCHANGED <<raw, detached, sealed, temps, reserved, drained, staged, commit, seal,
                   snapshots, crashes, faults>>

Commit == CommitBegin \/ CommitAppend \/ CommitAdvance \/ CommitUnlink \/ RecoverRetired
Seal ==
    \/ SealBegin \/ Scrub \/ ScrubReplace \/ DetachCapture \/ DetachSidecar \/ MergeOpen
    \/ WriteFrame \/ FrameFails \/ MergeRename \/ MergeCleanup \/ Verify \/ Retire

Next == Reserve \/ Commit \/ AppendSnapshot \/ Seal \/ Crash \/ Restart \/ Serve

Spec == Init /\ [][Next]_vars

\* Steps of a running transaction, the respawn, recovery and the hourly sweep.
FairSpec == Spec /\ WF_vars(Commit) /\ WF_vars(Restart \/ Serve) /\ SF_vars(SealBegin)
                 /\ WF_vars(Seal /\ ~SealBegin)

-----------------------------------------------------------------------------
(* What the session has archived, and what a reader is shown.              *)

SealedBefore(s) == FlattenSeq(SubSeq(sealed[s], 1, detached[s].base))

\* What is out of the raw file's reach, and everything.
Past(s) == IF detached[s] = None THEN FlattenSeq(sealed[s])
           ELSE SealedBefore(s) \o detached[s].body
Archive(s) == Past(s) \o Whole(raw[s])

\* run_segment: one unterminated record ends the live file, and is skipped; in
\* a generation that is final it is an error.
RunSegment(kind, body) ==
    LET kept == IF kind = "raw" THEN Whole(body) ELSE body IN
    [records |-> kept, fails |-> \E i \in DOMAIN kept : kept[i] = Torn]

\* with_hook: the generations that exist, opened under the flock shared.
Snapshot == Generations("turns")

\* visit_snapshot: sealed, then the detached generation unless the suffix is
\* it, then raw.  A conflict is an error.
Conflict == <<Garbage>>
ReadTurns ==
    LET len == Len(Snapshot.sealed)
        base == Snapshot.detached.base
        final == RunSegment("sealed", FlattenSeq(Snapshot.sealed) \o
                     IF len = base THEN Snapshot.detached.body ELSE <<>>)
        live == RunSegment("raw", Snapshot.raw)
    IN IF \/ len < base
          \/ Snapshot.detached # None /\ len > base /\ ~SuffixMatches("turns")
          \/ final.fails \/ live.fails
       THEN Conflict
       ELSE final.records \o live.records

Numbers(records) == [i \in DOMAIN records |-> records[i].seq]
UpTo(n) == [i \in 1..n |-> i]

-----------------------------------------------------------------------------
Records == [seq : -1..(MaxTurns + MaxSnapshots), clear : BOOLEAN]

TypeOK ==
    /\ raw \in [Streams -> Seq(Records)]
    /\ detached \in [Streams -> [base : Nat \cup {-1}, body : Seq(Records)]]
    /\ sealed \in [Streams -> Seq(Seq(Records))]
    /\ temps \in [Streams -> SUBSET {"scrub", "frame", "merged"}]
    /\ reserved \in 0..MaxTurns /\ drained \in 0..reserved
    /\ staged \in SUBSET (1..MaxTurns)
    /\ daemon \in {"down", "recovering", "serving"}
    /\ commit \in {"idle", "append", "advance", "unlink"}
    /\ seal \in [step : {"idle"} \cup Detaching \cup Merging, stream : Streams,
                frame : Seq(Records)]
    /\ snapshots \in 0..MaxSnapshots
    /\ crashes \in 0..MaxCrashes /\ faults \in 0..MaxFaults

\* Every drained turn is in exactly one generation, in order, and at most the
\* turn in flight beside them; every snapshot likewise, whatever step of a
\* drain or of a seal a crash cut short, and whatever zstd claimed.
EveryRecordOnce ==
    /\ \E n \in {drained, drained + 1} : Numbers(Archive("turns")) = UpTo(n)
    /\ Numbers(Archive("herdr")) = UpTo(snapshots)

\* zstd reported success and wrote something else.
Lied(t) == \E f \in DOMAIN sealed[t] : sealed[t][f] = <<Garbage>>

\* Reconstruction, which takes the flock shared, reads the turns exactly once
\* in order from any generations a crash can have left; it refuses them, rather
\* than show what zstd made up, only when zstd lied.
ReaderSeesEveryTurnOnce ==
    FlockFree => IF ReadTurns = Conflict THEN Lied("turns")
                 ELSE \E n \in {drained, drained + 1} : Numbers(ReadTurns) = UpTo(n)

\* The record of the newest drained turn stays in turns.jsonl, as it was
\* appended, while its stage is left: no seal takes away, and no scrub rewrites,
\* what the recovery of that stage compares it with.
RetiredStageKeepsItsRecord ==
    drained \in staged => \E i \in DOMAIN raw["turns"] : raw["turns"][i] = Turn(drained)

\* Nothing the scrub would redact is ever detached or sealed, though the turn
\* may have been appended before, between or after earlier generations.
OnlyRedactedIsSealed ==
    \A s \in Streams :
        /\ \A i \in DOMAIN detached[s].body : ~detached[s].body[i].clear
        /\ \A f \in DOMAIN sealed[s] : \A i \in DOMAIN sealed[s][f] : ~sealed[s][f][i].clear

\* Temporaries of a merge never outlive the generation they were made for, so
\* debris of a crash is bounded by one generation.
NoDebrisWithoutGeneration ==
    \A s \in Streams : detached[s] = None => temps[s] \cap {"frame", "merged"} = {}

\* A drained stage whose unlink failed and behind which the journal moved on, or
\* the append of the next turn broke off: its record no longer ends turns.jsonl,
\* and every later recovery refuses it.
LeftBehind == \E n \in staged : n <= drained /\ ~Explained(n)

\* Every detached generation is sealed in the end, through crashes and failing
\* compressions, and the sidecar with it; unless zstd lied, whose frame nothing
\* replaces, or startup recovery refuses a stage, and no daemon serves again.
DetachedIsSealed ==
    \A s \in Streams :
        detached[s] # None ~> \/ detached[s] = None
                              \/ LeftBehind \/ \E t \in Streams : Lied(t)

\* The files of a session, between any two steps: of their shape, with every
\* record once, what a left stage needs and no debris of an ended merge.
ArchiveInv ==
    /\ TypeOK
    /\ EveryRecordOnce
    /\ RetiredStageKeepsItsRecord
    /\ NoDebrisWithoutGeneration

-----------------------------------------------------------------------------
(* What each step relies on: with the properties above, an inductive       *)
(* invariant.                                                              *)

\* A drain and a seal exclude each other, and only a daemon runs them.
OneTransaction ==
    /\ commit # "idle" => seal.step = "idle" /\ daemon # "down"
    /\ seal.step # "idle" => daemon = "serving"

\* No stage is ahead of the next turn, which is staged while it is drained; a
\* seal changes turns.jsonl only over a quiet journal.
StagesFollow ==
    /\ staged \subseteq 1..(drained + 1)
    /\ commit \in {"append", "advance"} => TurnOpen /\ drained + 1 \in staged
    /\ commit = "advance" => Explained(drained + 1)
    /\ seal.step \in Detaching \ {"sidecar"} => JournalQuiet

\* Only the last record of turns.jsonl may be torn, and then its turn is open:
\* over a quiet journal every record is whole.
OnlyTheLastIsTorn ==
    \A s \in Streams : \A i \in DOMAIN raw[s] :
        \/ raw[s][i].seq > 0
        \/ raw[s][i] = Torn /\ s = "turns" /\ i = Len(raw[s]) /\ TurnOpen

\* A record ahead of the journal is that of the open turn, and ends turns.jsonl,
\* where a retry finds it.
AheadIsNext ==
    Numbers(Archive("turns")) = UpTo(drained + 1) =>
        LET turns == Whole(raw["turns"])
        IN  TurnOpen /\ turns # <<>> /\ Last(turns) = Turn(drained + 1)

\* A detached generation follows the frames sealed before it; its own is the
\* only one after them.
FrameFits(s) ==
    LET base == detached[s].base
    IN  /\ base >= 0 /\ Len(sealed[s]) \in {base, base + 1}
        /\ Len(sealed[s]) > base => sealed[s][base + 1] \in {detached[s].body, <<Garbage>>}
FramesFit == \A s \in Streams : detached[s] # None => FrameFits(s)

\* What a seal has established at each of its steps.
DetachKnows ==
    /\ seal.step \in Detaching \ {"sidecar"} => detached["turns"] = None
    /\ seal.step = "detach" => \A i \in DOMAIN raw["turns"] : ~raw["turns"][i].clear
    /\ \A i \in DOMAIN raw["herdr"] : ~raw["herdr"][i].clear
MergeKnows ==
    LET s == seal.stream IN
    /\ seal.step \in {"sidecar"} \cup Merging => detached["turns"] # None
    /\ seal.step \in Merging => detached[s] # None
    /\ seal.step \in {"frame", "merge"} => Len(sealed[s]) = detached[s].base
    /\ seal.step = "merge" => seal.frame \in {detached[s].body, <<Garbage>>}
    /\ seal.step \in {"cleanup", "verify", "retire"} => Len(sealed[s]) = detached[s].base + 1
    /\ seal.step = "retire" => SuffixMatches(s)
    /\ seal.step = "cleanup" => "merged" \notin temps[s]
    /\ seal.step \in {"verify", "retire"} => temps[s] \cap {"frame", "merged"} = {}

ArchiveIInv ==
    /\ ArchiveInv /\ OnlyRedactedIsSealed
    /\ OneTransaction /\ StagesFollow /\ OnlyTheLastIsTorn /\ AheadIsNext
    /\ FramesFit /\ DetachKnows /\ MergeKnows
=============================================================================
