---------------------------- MODULE CaptureJournal ----------------------------
(***************************************************************************)
(* The crash-tolerant ordered capture of crates/plant/src/capture:         *)
(* persistence.rs (journal, stages, markers, recovery) and                 *)
(* persistence/commit.rs (the reconciling append).                         *)
(*                                                                         *)
(* A proxied request reserves a sequence number in its session's journal   *)
(* (state.json); when the response has been teed to the client the         *)
(* completed envelope is staged in a file of its own and every stage that  *)
(* is next in order is appended to turns.jsonl.  A process crash may fall  *)
(* between any two of these steps.  Recovery, at startup and every few     *)
(* minutes while serving, finishes what is staged and synthesizes an       *)
(* incomplete envelope for a reservation nobody will complete.             *)
(*                                                                         *)
(* Simplifications.  A torn record is long enough to tell envelopes apart  *)
(* (all of them start alike).  Malformed files, journals of another vault, *)
(* legacy journals without capture_order and a failing unlink of a marker  *)
(* are left out; so are the herdr snapshot and the meta update that follow *)
(* a staged turn, and sealing, which renames turns.jsonl between turns.    *)
(* Definitions marked (mutant) are not used: each is a plausible bug in    *)
(* the definition below it, which the properties must notice.              *)
(*                                                                         *)
(* The session mutex is not a variable: both holders of it (reserve and    *)
(* commit_completed) also hold the session directory's flock, which is     *)
(* what op[s] # Idle stands for.                                           *)
(***************************************************************************)
EXTENDS Integers, Sequences, FiniteSets

CONSTANTS
    Sessions,       \* session ids
    Fresh,          \* the sessions that have no directory yet
    MaxCaptures,    \* bound: reservations per session
    MaxCrashes,     \* bound: crashes and power cuts
    MaxFaults,      \* bound: failing file-system calls
    Faults,         \* what may fail: "space" (a write), "io" (fsync, unlink)
    PowerLoss       \* whether the machine may lose power

ASSUME CaptureAssumption ==
    /\ Fresh \subseteq Sessions
    /\ MaxCaptures \in Nat \ {0}
    /\ MaxCrashes \in Nat
    /\ MaxFaults \in Nat
    /\ Faults \subseteq {"space", "io"}
    /\ PowerLoss \in BOOLEAN

VARIABLES
    \* durable: files
    dirs,           \* sessions whose dated directory exists
    journal,        \* state.json: [exists, next, drain] (CaptureOrder)
    unsynced,       \* the older versions of it that a power cut may bring back
    stage,          \* capture-staging/<root>/<sid>/<seq>-<id>.json
    stageTemp,      \* <<s, n, by>>: a temporary beside that stage, by its writer
    raw,            \* turns.jsonl: its complete records
    torn,           \* turns.jsonl: its unterminated tail
    marker,         \* capture-recovery/<root>/pending/<sid>
    markerTemp,     \* a temporary file beside that marker
    indexed,        \* capture-recovery/<root>/indexed-v1
    \* volatile: the daemon
    active,         \* ACTIVE_CAPTURES
    op,             \* op[s]: the transaction that holds the flock of s
    daemon,         \* "down", "recovering" (before accepting) or "serving"
    sweep,          \* the recovery pass under way
    \* bounds
    crashes, faults

log      == <<journal, unsynced, raw, torn>>
staging  == <<stage, stageTemp>>
index    == <<marker, markerTemp, indexed>>
durable  == <<dirs, log, staging, index>>
process  == <<active, op, daemon, sweep>>
bounds   == <<crashes, faults>>
vars     == <<durable, process, bounds>>

SeqNos    == 0 .. MaxCaptures - 1
Sources   == {"tee", "recovery"}     \* who completed an envelope
Envelope  == [seq : SeqNos, by : Sources]
NoRecord  == [seq |-> -1, by |-> "none"]

-----------------------------------------------------------------------------
(* The journal and the files, as the code reads them.                      *)

Open(s) == journal[s].drain < journal[s].next

Staged(s, n) == stage[s][n] # "none"

NothingStaged(s) == \A n \in SeqNos : ~ Staged(s, n)

(* A session in the recovery index that has nothing left to recover.       *)
NothingLeft(s) == ~ Open(s) /\ NothingStaged(s)

(* staging_dir is not empty                                                *)
HasStageEntries(s) ==
    ~ NothingStaged(s) \/ \E t \in stageTemp : t[1] = s

(* next_sequence.checked_add                                               *)
NeverExhausted(s) == journal[s].next <= MaxCaptures     \* (mutant)
CanReserve(s) == journal[s].next < MaxCaptures

(* The envelope that the stage of the next sequence to drain holds.        *)
NextEnvelope(s) == [seq |-> journal[s].drain, by |-> stage[s][journal[s].drain]]

(* CaptureTail::ValidTerminated of exactly this envelope                   *)
TailIs(s, e) ==
    /\ torn[s] = NoRecord
    /\ raw[s] # <<>>
    /\ raw[s][Len(raw[s])] = e

(* The record was appended before a crash; appending it again would repeat *)
(* the turn.                                                               *)
NeverAppended(s) == FALSE                               \* (mutant)
AlreadyAppended(s) == TailIs(s, NextEnvelope(s))

(* the tail carries the same request id, or is unterminated, and yet is    *)
(* not (a prefix of) the staged envelope                                   *)
TailConflicts(s) ==
    \/ torn[s] \notin {NoRecord, NextEnvelope(s)}
    \/ /\ torn[s] = NoRecord
       /\ raw[s] # <<>>
       /\ raw[s][Len(raw[s])].seq = journal[s].drain
       /\ ~ TailIs(s, NextEnvelope(s))

(* A stage below next_to_drain is debris of a crash between the journal    *)
(* write and the unlink: it must be the last one drained and be, byte for  *)
(* byte, the last record of turns.jsonl.                                   *)
RetiredOrNext(s) == {n \in SeqNos : Staged(s, n) /\ n <= journal[s].drain}  \* (mutant)
Retired(s) == {n \in SeqNos : Staged(s, n) /\ n < journal[s].drain}

RetiredOk(s) ==
    \A n \in Retired(s) :
        /\ n + 1 = journal[s].drain
        /\ TailIs(s, [seq |-> n, by |-> stage[s][n]])

-----------------------------------------------------------------------------
Idle == [pc |-> "idle", by |-> "none", seq |-> 0]

(* dirs: what walk_session_dirs saw; todo: sessions still to inspect;      *)
(* clearing: the one whose marker is about to be removed; inventory: those *)
(* to recover; cause: why the pass returned an error.                      *)
NoSweep == [pc |-> "idle", live |-> FALSE, dirs |-> {}, todo |-> {},
            clearing |-> {}, inventory |-> {}, cause |-> "none"]

At(s, pc) == op[s].pc = pc

GoTo(s, pc) == op' = [op EXCEPT ![s].pc = pc]

(* The transaction of s ends, releasing the flock; a commit also drops its *)
(* ActiveCapture, a sweep goes on with the next session.                   *)
Finish(s) ==
    /\ op' = [op EXCEPT ![s] = Idle]
    /\ active' = IF op[s].by = "commit" THEN active \ {<<s, op[s].seq>>} ELSE active
    /\ sweep' = IF op[s].by = "recovery"
                THEN [sweep EXCEPT !.inventory = @ \ {s}] ELSE sweep

(* The sweep returns an error and gives up its remaining sessions.         *)
SweepError(cause) == sweep' = [NoSweep EXCEPT !.pc = "failed", !.live = sweep.live,
                                              !.cause = cause]

(* The transaction returns an error.                                       *)
Fail(s, cause) ==
    /\ op' = [op EXCEPT ![s] = Idle]
    /\ active' = IF op[s].by = "commit" THEN active \ {<<s, op[s].seq>>} ELSE active
    /\ IF op[s].by = "recovery" THEN SweepError(cause) ELSE sweep' = sweep

(* The temporary of the stage being written; its name is unique to it.     *)
OwnTemp(s) == <<s, op[s].seq, op[s].by>>

(* read_stages with recover_atomic_temps                                    *)
WithoutTemps(s) == {t \in stageTemp : t[1] # s}

-----------------------------------------------------------------------------
(* A session that earlier runs of the daemon captured has one turn, either *)
(* drained or still open; the recovery index is not written yet, as on the *)
(* first start of a build that keeps one.                                  *)
Init ==
    /\ dirs = Sessions \ Fresh
    /\ journal \in [Sessions -> [exists : BOOLEAN, next : {0, 1}, drain : {0, 1}]]
    /\ \A s \in Sessions :
          IF s \in Fresh
          THEN journal[s] = [exists |-> FALSE, next |-> 0, drain |-> 0]
          ELSE journal[s].exists /\ journal[s].next = 1
    /\ raw = [s \in Sessions |-> IF journal[s].drain = 0 THEN <<>>
                                 ELSE <<[seq |-> 0, by |-> "tee"]>>]
    /\ torn = [s \in Sessions |-> NoRecord]
    /\ unsynced = [s \in Sessions |-> {}]
    /\ stage = [s \in Sessions |-> [n \in SeqNos |-> "none"]]
    /\ stageTemp = {} /\ marker = {} /\ markerTemp = {} /\ indexed = FALSE
    /\ active = {} /\ op = [s \in Sessions |-> Idle]
    /\ daemon = "down" /\ sweep = NoSweep
    /\ crashes = 0 /\ faults = 0

(* What each replace_file asks of the disk.                                *)
StageDurability   == "Rename"
JournalDurability == "Fsync"
MarkerDurability  == "Fsync"

MayLose(durability) == durability = "Rename"

(* replace_file of the journal renames the new version over the old one    *)
(* and syncs the directory after.  Until a sync succeeds, a power cut may  *)
(* bring the old version back; the sync that succeeds settles all of them. *)
Superseded(s) == [unsynced EXCEPT ![s] = @ \union {journal[s]}]

Settled(s) == IF MayLose(JournalDurability) THEN Superseded(s)
              ELSE [unsynced EXCEPT ![s] = {}]

-----------------------------------------------------------------------------
(* Request half: capture::prepare_capture and persistence::reserve.        *)

(* session_dir creates the dated directory before the reservation starts.  *)
CreateSession(s) ==
    /\ daemon = "serving" /\ s \notin dirs
    /\ dirs' = dirs \union {s}
    /\ UNCHANGED <<log, staging, index, process, bounds>>

(* mark_pending writes the marker beside its final name ...                *)
ReserveBegin(s) ==
    /\ daemon = "serving" /\ s \in dirs /\ op[s] = Idle
    /\ CanReserve(s)
    /\ op' = [op EXCEPT ![s] = [pc |-> "mark", by |-> "reserve", seq |-> journal[s].next]]
    /\ markerTemp' = markerTemp \union {s}
    /\ UNCHANGED <<dirs, log, staging, marker, indexed, active, daemon, sweep, bounds>>

(* ... and renames it, before the journal points at the reservation.       *)
ReserveMark(s) ==
    /\ At(s, "mark")
    /\ markerTemp' = markerTemp \ {s}
    /\ marker' = marker \union {s}
    /\ GoTo(s, "reserve")
    /\ UNCHANGED <<dirs, log, staging, indexed, active, daemon, sweep, bounds>>

Reserved(s) == [journal EXCEPT ![s] = [exists |-> TRUE, next |-> @.next + 1, drain |-> @.drain]]

(* Journal::persist, then register_active, still under the flock.          *)
ReservePersist(s) ==
    /\ At(s, "reserve")
    /\ journal' = Reserved(s) /\ unsynced' = Settled(s)
    /\ active' = active \union {<<s, journal[s].next>>}
    /\ op' = [op EXCEPT ![s] = Idle]
    /\ UNCHANGED <<dirs, raw, torn, staging, index, daemon, sweep, bounds>>

(* The pending capture is dropped: the client went away while the request  *)
(* was prepared, or the capture task was aborted.                          *)
Abandon(s, n) ==
    /\ <<s, n>> \in active
    /\ ~ (op[s].by = "commit" /\ op[s].seq = n)
    /\ active' = active \ {<<s, n>>}
    /\ UNCHANGED <<durable, op, daemon, sweep, bounds>>

-----------------------------------------------------------------------------
(* Stream-end half: commit_completed, Stage::publish and drain.            *)

CommitBegin(s, n) ==
    /\ <<s, n>> \in active /\ op[s] = Idle
    /\ op' = [op EXCEPT ![s] = [pc |-> "publish", by |-> "commit", seq |-> n]]
    /\ stageTemp' = stageTemp \union {<<s, n, "commit">>}
    /\ UNCHANGED <<dirs, log, stage, index, active, daemon, sweep, bounds>>

(* The stage gets its name.                                                *)
Publish(s) ==
    /\ At(s, "publish")
    /\ stage' = [stage EXCEPT ![s][op[s].seq] =
                    IF op[s].by = "commit" THEN "tee" ELSE "recovery"]
    /\ stageTemp' = stageTemp \ {OwnTemp(s)}
    /\ GoTo(s, "drain")
    /\ UNCHANGED <<dirs, log, index, active, daemon, sweep, bounds>>

(* Everything reserved is drained: the marker goes.                        *)
DrainDone(s) ==
    /\ At(s, "drain") /\ ~ Open(s)
    /\ marker' = marker \ {s}
    /\ Finish(s)
    /\ UNCHANGED <<dirs, log, staging, markerTemp, indexed, daemon, bounds>>

DrainNext(s) ==
    /\ At(s, "drain") /\ Open(s) /\ Staged(s, journal[s].drain)
    /\ GoTo(s, "append")
    /\ UNCHANGED <<durable, active, daemon, sweep, bounds>>

(* An earlier sequence is not staged yet: the commit leaves its stage.     *)
DrainBlocked(s) ==
    /\ At(s, "drain") /\ op[s].by = "commit"
    /\ Open(s) /\ ~ Staged(s, journal[s].drain)
    /\ Finish(s)
    /\ UNCHANGED <<durable, daemon, bounds>>

-----------------------------------------------------------------------------
(* commit_stage, by a commit or by recovery.                               *)

(* reconcile_append: a record that is already there is kept; a torn one is *)
(* cut off and written again.  The write is a step of its own, so that a   *)
(* crash leaves an unterminated tail.                                      *)
AppendBegin(s) ==
    /\ At(s, "append") /\ ~ TailConflicts(s)
    /\ IF AlreadyAppended(s)
       THEN GoTo(s, "persist") /\ UNCHANGED torn
       ELSE GoTo(s, "appending") /\ torn' = [torn EXCEPT ![s] = NextEnvelope(s)]
    /\ UNCHANGED <<dirs, journal, unsynced, raw, staging, index, active, daemon, sweep, bounds>>

AppendEnd(s) ==
    /\ At(s, "appending")
    /\ raw' = [raw EXCEPT ![s] = Append(@, torn[s])]
    /\ torn' = [torn EXCEPT ![s] = NoRecord]
    /\ GoTo(s, "persist")
    /\ UNCHANGED <<dirs, journal, unsynced, staging, index, active, daemon, sweep, bounds>>

AppendConflict(s) ==
    /\ At(s, "append") /\ TailConflicts(s)
    /\ Fail(s, "conflict")
    /\ UNCHANGED <<durable, daemon, bounds>>

Advanced(s) == [journal EXCEPT ![s].drain = @ + 1]

PersistDrain(s) ==
    /\ At(s, "persist")
    /\ journal' = Advanced(s) /\ unsynced' = Settled(s)
    /\ GoTo(s, "remove")
    /\ UNCHANGED <<dirs, raw, torn, staging, index, active, daemon, sweep, bounds>>

RemoveStage(s) ==
    /\ At(s, "remove")
    /\ stage' = [stage EXCEPT ![s][journal[s].drain - 1] = "none"]
    /\ GoTo(s, "drain")
    /\ UNCHANGED <<dirs, log, stageTemp, index, active, daemon, sweep, bounds>>

-----------------------------------------------------------------------------
(* Recovery: recover_all at startup, recover_live while serving.           *)

BeginSweep(live) ==
    sweep' = [NoSweep EXCEPT !.pc = "index", !.live = live, !.dirs = dirs]

(* run_daemon: the listeners are bound, recovery runs before they accept.  *)
StartDaemon ==
    /\ daemon = "down"
    /\ daemon' = "recovering"
    /\ BeginSweep(FALSE)
    /\ UNCHANGED <<durable, active, op, bounds>>

StartLiveSweep ==
    /\ daemon = "serving" /\ sweep.pc = "idle"
    /\ BeginSweep(TRUE)
    /\ UNCHANGED <<durable, active, op, daemon, bounds>>

(* initialize_recovery_index: sessions left open by a build without one.   *)
AllIndexed == {}                                        \* (mutant)
Unindexed == {s \in sweep.dirs : journal[s].exists /\ Open(s) /\ s \notin marker}

IndexSession(s) ==
    /\ sweep.pc = "index" /\ ~ indexed
    /\ s \in Unindexed
    /\ marker' = marker \union {s}
    /\ UNCHANGED <<dirs, log, staging, markerTemp, indexed, process, bounds>>

(* indexed_pending_sessions and the scan of the staging directories; a     *)
(* file in pending/ that does not name its own session is an error.        *)
ListSessions ==
    /\ sweep.pc = "index"
    /\ indexed \/ Unindexed = {}
    /\ indexed' = TRUE
    /\ IF markerTemp # {}
       THEN SweepError("debris")
       ELSE sweep' = [sweep EXCEPT !.pc = "inspect",
                                   !.todo = marker \union {s \in Sessions : HasStageEntries(s)}]
    /\ UNCHANGED <<dirs, log, staging, marker, markerTemp, active, op, daemon, bounds>>

(* A session the walk did not see, or one without a journal, has nothing   *)
(* to recover.  Neither test is made under the flock.                      *)
InspectAbsent(s) ==
    /\ sweep.pc = "inspect" /\ s \in sweep.todo
    /\ s \notin sweep.dirs \/ ~ journal[s].exists
    /\ IF s \notin sweep.dirs /\ HasStageEntries(s)
       THEN SweepError("unlisted")
       ELSE sweep' = [sweep EXCEPT !.pc = "clear", !.todo = @ \ {s}, !.clearing = {s}]
    /\ UNCHANGED <<durable, active, op, daemon, bounds>>

ClearMarker ==
    /\ sweep.pc = "clear"
    /\ marker' = marker \ sweep.clearing
    /\ sweep' = [sweep EXCEPT !.pc = "inspect", !.clearing = {}]
    /\ UNCHANGED <<dirs, log, staging, markerTemp, indexed, active, op, daemon, bounds>>

(* Under the flock: stage temporaries are removed; a session with nothing  *)
(* open and nothing staged only loses its marker.                          *)
Inspect(s) ==
    /\ sweep.pc = "inspect" /\ s \in sweep.todo
    /\ s \in sweep.dirs /\ journal[s].exists /\ op[s] = Idle
    /\ stageTemp' = WithoutTemps(s)
    /\ IF NothingLeft(s)
       THEN /\ marker' = marker \ {s}
            /\ sweep' = [sweep EXCEPT !.todo = @ \ {s}]
       ELSE /\ marker' = marker
            /\ sweep' = [sweep EXCEPT !.todo = @ \ {s}, !.inventory = @ \union {s}]
    /\ UNCHANGED <<dirs, log, stage, markerTemp, indexed, active, op, daemon, bounds>>

(* RecoverySession::apply takes the flock, reads journal and stages again  *)
(* and reconciles the retired stages.  One session at a time.              *)
ApplyBegin(s) ==
    /\ sweep.pc = "inspect" /\ sweep.todo = {} /\ s \in sweep.inventory
    /\ op[s] = Idle
    /\ \A t \in Sessions : op[t].by # "recovery"
    /\ stageTemp' = WithoutTemps(s)
    /\ IF RetiredOk(s)
       THEN /\ stage' = [stage EXCEPT ![s] =
                            [n \in SeqNos |-> IF n \in Retired(s) THEN "none" ELSE @[n]]]
            /\ op' = [op EXCEPT ![s] = [pc |-> "drain", by |-> "recovery", seq |-> 0]]
            /\ sweep' = sweep
       ELSE SweepError("conflict") /\ UNCHANGED <<stage, op>>
    /\ UNCHANGED <<dirs, log, index, active, daemon, bounds>>

(* Recovery looks at the next turn, whose stage may be missing.            *)
HeadOpen(s) == At(s, "drain") /\ op[s].by = "recovery" /\ Open(s)

HeadMissing(s) == HeadOpen(s) /\ ~ Staged(s, journal[s].drain)

(* is_active                                                               *)
TaskForgotten(s) == FALSE                               \* (mutant)
TaskAlive(s) == <<s, journal[s].drain>> \in active

(* A live sweep leaves the head of the queue to its task while the capture *)
(* is active, or while it is younger than the cutoff (time is abstracted:  *)
(* any reservation may still be too young).                                *)
LeaveOpen(s) ==
    /\ HeadMissing(s) /\ sweep.live
    /\ Finish(s)
    /\ UNCHANGED <<durable, daemon, bounds>>

(* Otherwise the reservation is completed with {"complete": false}.        *)
Synthesize(s) ==
    /\ HeadMissing(s)
    /\ ~ (sweep.live /\ TaskAlive(s))
    /\ op' = [op EXCEPT ![s] = [pc |-> "publish", by |-> "recovery", seq |-> journal[s].drain]]
    /\ stageTemp' = stageTemp \union {<<s, journal[s].drain, "recovery">>}
    /\ UNCHANGED <<dirs, log, stage, index, active, daemon, sweep, bounds>>

SweepDone ==
    /\ sweep.pc = "inspect" /\ sweep.todo = {} /\ sweep.inventory = {}
    /\ sweep' = NoSweep
    /\ daemon' = "serving"
    /\ UNCHANGED <<durable, active, op, bounds>>

(* A failing startup recovery exits 1; a failing live sweep is logged.     *)
SweepFailed ==
    /\ sweep.pc = "failed"
    /\ daemon' = IF sweep.live THEN daemon ELSE "down"
    /\ sweep' = NoSweep
    /\ UNCHANGED <<durable, active, op, bounds>>

-----------------------------------------------------------------------------
(* The environment.                                                        *)

(* A file-system call fails before it took effect (a full disk): the       *)
(* transaction returns the error, replace_file removes its temporary, an   *)
(* interrupted append stays torn.                                          *)
WriteFails(s) ==
    /\ "space" \in Faults /\ faults < MaxFaults
    /\ op[s].pc \in {"mark", "reserve", "publish", "append", "appending", "persist"}
    /\ Fail(s, "io")
    /\ markerTemp' = IF At(s, "mark") THEN markerTemp \ {s} ELSE markerTemp
    /\ stageTemp' = IF At(s, "publish") THEN stageTemp \ {OwnTemp(s)} ELSE stageTemp
    /\ faults' = faults + 1
    /\ UNCHANGED <<dirs, log, stage, marker, indexed, daemon, crashes>>

(* replace_file fails at the directory fsync, after its rename: the caller *)
(* sees an error, every reader the new journal.  Or the unlink of a drained *)
(* stage fails.                                                            *)
SyncFails(s) ==
    /\ "io" \in Faults /\ faults < MaxFaults
    /\ \/ At(s, "reserve") /\ journal' = Reserved(s) /\ unsynced' = Superseded(s)
       \/ At(s, "persist") /\ journal' = Advanced(s) /\ unsynced' = Superseded(s)
       \/ At(s, "remove") /\ UNCHANGED <<journal, unsynced>>
    /\ Fail(s, "io")
    /\ faults' = faults + 1
    /\ UNCHANGED <<dirs, raw, torn, staging, index, daemon, crashes>>

Stop ==
    /\ daemon # "down" /\ crashes < MaxCrashes
    /\ crashes' = crashes + 1
    /\ daemon' = "down"
    /\ active' = {}
    /\ op' = [s \in Sessions |-> Idle]
    /\ sweep' = NoSweep
    /\ UNCHANGED faults

(* The process dies; what it wrote stays.                                  *)
Crash == Stop /\ UNCHANGED durable

(* The machine loses power.  A rename-only file may be gone, and so may    *)
(* the newest record of turns.jsonl, which is never fsynced.  A journal    *)
(* whose directory sync failed may go back to the version it replaced      *)
(* (or, for a first one, to none).                                         *)
PowerCut ==
    /\ PowerLoss
    /\ Stop
    /\ journal' \in [Sessions -> UNION {unsynced[s] \union {journal[s]} : s \in Sessions}]
    /\ \A s \in Sessions : journal'[s] \in unsynced[s] \union {journal[s]}
    /\ unsynced' = [s \in Sessions |-> {}]
    /\ marker' \in {marker} \union (IF MayLose(MarkerDurability) THEN {{}} ELSE {})
    /\ \E s \in Sessions, lost \in SUBSET SeqNos :
          /\ MayLose(StageDurability) \/ lost = {}
          /\ stage' = [stage EXCEPT ![s] =
                            [n \in SeqNos |-> IF n \in lost THEN "none" ELSE @[n]]]
    /\ \E s \in Sessions, lost \in 0 .. 1 :
          /\ lost <= Len(raw[s])
          /\ raw' = [raw EXCEPT ![s] = SubSeq(@, 1, Len(@) - lost)]
          /\ torn' = [torn EXCEPT ![s] = IF lost = 0 THEN @ ELSE NoRecord]
    /\ UNCHANGED <<dirs, stageTemp, markerTemp, indexed>>
-----------------------------------------------------------------------------
Capture(s) ==
    \/ CreateSession(s) \/ ReserveBegin(s) \/ ReserveMark(s) \/ ReservePersist(s)
    \/ \E n \in SeqNos : Abandon(s, n) \/ CommitBegin(s, n)

Drain(s) ==
    \/ Publish(s) \/ DrainDone(s) \/ DrainNext(s) \/ DrainBlocked(s)
    \/ AppendBegin(s) \/ AppendEnd(s) \/ AppendConflict(s)
    \/ PersistDrain(s) \/ RemoveStage(s)

Recover(s) ==
    \/ IndexSession(s) \/ InspectAbsent(s) \/ Inspect(s)
    \/ ApplyBegin(s) \/ LeaveOpen(s) \/ Synthesize(s)

Daemon == StartDaemon \/ StartLiveSweep \/ ListSessions \/ ClearMarker \/ SweepDone \/ SweepFailed

Environment == Crash \/ PowerCut \/ \E s \in Sessions : WriteFails(s) \/ SyncFails(s)

Next ==
    \/ \E s \in Sessions : Capture(s) \/ Drain(s) \/ Recover(s)
    \/ Daemon
    \/ Environment

Spec == Init /\ [][Next]_vars

(* Fairness.  Every step of a transaction and of the recovery pass is      *)
(* straight-line code on a blocking thread; launchd starts a daemon that   *)
(* died, and the live sweep is a timer.  Nothing makes a capture task end: *)
(* the tee waits for a client that stopped reading (proxy.rs, tx.send) and *)
(* a websocket turn has no idle bound.  A lock that keeps being free is    *)
(* obtained.  A reservation does not stay younger than the cutoff for ever: *)
(* a sweep that meets it again and again completes it, hence strong        *)
(* fairness of Synthesize.                                                 *)
Fairness ==
    /\ WF_vars(Daemon)
    /\ \A s \in Sessions :
          /\ WF_vars(Drain(s))
          /\ WF_vars(ReserveMark(s) \/ ReservePersist(s))
          /\ WF_vars(Recover(s))
          /\ SF_vars(Synthesize(s))

FairSpec == Spec /\ Fairness
=============================================================================
