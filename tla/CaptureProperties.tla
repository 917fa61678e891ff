-------------------------- MODULE CaptureProperties --------------------------
(***************************************************************************)
(* What must hold of CaptureJournal.  The properties live apart from the   *)
(* model so that the runs and the proofs share them.                       *)
(***************************************************************************)
EXTENDS CaptureJournal

Transactions ==
    [pc : {"idle", "mark", "reserve", "publish", "drain", "append", "appending",
           "persist", "remove"},
     by : {"none", "reserve", "commit", "recovery"}, seq : SeqNos]

Sweeps == [pc : {"idle", "index", "inspect", "clear", "failed"}, live : BOOLEAN,
           dirs : SUBSET Sessions, todo : SUBSET Sessions, clearing : SUBSET Sessions,
           inventory : SUBSET Sessions,
           cause : {"none", "debris", "unlisted", "conflict", "io"}]

Journals == [exists : BOOLEAN, next : 0 .. MaxCaptures, drain : 0 .. MaxCaptures]
OrderedJournals == {j \in Journals : j.drain <= j.next}

StageTemps == Sessions \X SeqNos \X {"commit", "recovery"}

(* The type invariant: every variable of the capture state has its shape.  *)
TypeOK ==
    /\ dirs \subseteq Sessions
    /\ journal \in [Sessions -> Journals]
    /\ unsynced \in [Sessions -> SUBSET OrderedJournals]
    /\ stage \in [Sessions -> [SeqNos -> Sources \union {"none"}]]
    /\ stageTemp \subseteq StageTemps
    /\ raw \in [Sessions -> Seq(Envelope)]
    /\ torn \in [Sessions -> Envelope \union {NoRecord}]
    /\ marker \subseteq Sessions /\ markerTemp \subseteq Sessions
    /\ indexed \in BOOLEAN
    /\ active \subseteq Sessions \X SeqNos
    /\ op \in [Sessions -> Transactions]
    /\ daemon \in {"down", "recovering", "serving"}
    /\ sweep \in Sweeps
    /\ crashes \in 0 .. MaxCrashes /\ faults \in 0 .. MaxFaults

(* What each step of a transaction relies on, whatever was lost before.    *)
FlowOk(s) ==
    /\ journal[s].drain <= journal[s].next
    /\ op[s].pc \in {"mark", "reserve"} => journal[s].next < MaxCaptures
    /\ op[s].pc \in {"append", "appending", "persist"} => Open(s)
    /\ At(s, "append") => Staged(s, journal[s].drain)
    /\ At(s, "appending") => torn[s] # NoRecord

TypeInv == TypeOK /\ \A s \in Sessions : FlowOk(s)

(* turns.jsonl and state.json agree at every step and after every crash:   *)
(* the file holds each drained turn exactly once, in preparation order,    *)
(* and at most one record beyond what the journal says is drained          *)
(* (the append precedes the journal write in commit_stage).                *)
TurnsMatch(s) ==
    /\ Len(raw[s]) \in {journal[s].drain, journal[s].drain + 1}
    /\ Len(raw[s]) <= journal[s].next
    /\ \A i \in 1 .. Len(raw[s]) : raw[s][i].seq = i - 1

JournalMatchesTurns == \A s \in Sessions : TurnsMatch(s)

-----------------------------------------------------------------------------
(* The inductive strengthening of JournalMatchesTurns.                     *)

(* What turns.jsonl holds beyond the drained turns - a record or a torn    *)
(* one - is the envelope staged for the next turn: the append can be       *)
(* repeated.                                                               *)
TailIsStaged(s) ==
    /\ Len(raw[s]) = journal[s].drain + 1 =>
          /\ stage[s][journal[s].drain] = raw[s][Len(raw[s])].by
          /\ torn[s] = NoRecord
    /\ torn[s] # NoRecord => Open(s) /\ torn[s] = NextEnvelope(s)

(* Only reserved turns are staged.                                         *)
StagesAreReserved(s) == \A n \in SeqNos : Staged(s, n) => n < journal[s].next

(* A capture whose task is still to publish has an open, unstaged place.   *)
ActiveIsOpen(s) ==
    \A n \in SeqNos :
        <<s, n>> \in active /\ ~ (op[s].by = "commit" /\ op[s].seq = n /\ ~ At(s, "publish"))
            => journal[s].drain <= n /\ n < journal[s].next /\ ~ Staged(s, n)

(* What the holder of the flock knows at each step.                        *)
TransactionOk(s) ==
    /\ \/ op[s] = Idle
       \/ op[s].pc \in {"mark", "reserve"} /\ op[s].by = "reserve"
       \/ op[s].pc \notin {"idle", "mark", "reserve"} /\ op[s].by \in {"commit", "recovery"}
    /\ At(s, "publish") =>
          /\ journal[s].drain <= op[s].seq /\ op[s].seq < journal[s].next
          /\ ~ Staged(s, op[s].seq)
          /\ (<<s, op[s].seq>> \in active) <=> op[s].by = "commit"
    /\ At(s, "persist") => Len(raw[s]) = journal[s].drain + 1
    /\ At(s, "remove") => journal[s].drain > 0

(* Recovery before the daemon serves runs alone; a pass belongs to a       *)
(* daemon; and a pass has one transaction at a time.                       *)
StartIsAlone ==
    daemon # "serving" => active = {} /\ \A s \in Sessions : op[s].by \in {"none", "recovery"}

PassHasDaemon ==
    sweep.pc # "idle" => daemon = IF sweep.live THEN "serving" ELSE "recovering"

OneRecovery ==
    \A s \in Sessions : op[s].by = "recovery" =>
        /\ sweep.pc = "inspect" /\ sweep.todo = {} /\ s \in sweep.inventory
        /\ \A t \in Sessions : op[t].by = "recovery" => t = s

SweepOk == StartIsAlone /\ PassHasDaemon /\ OneRecovery

SessionOk(s) ==
    /\ TurnsMatch(s)
    /\ TailIsStaged(s)
    /\ StagesAreReserved(s)
    /\ ActiveIsOpen(s)
    /\ TransactionOk(s)

CaptureInv ==
    /\ TypeInv
    /\ SweepOk
    /\ \A s \in Sessions : SessionOk(s)

(* What the fate of a staged answer rests on, given CaptureInv: a turn     *)
(* whose task is alive is never synthesized, and a stage that outlived its *)
(* turn holds the record of that turn.                                     *)
AliveIsNotSynthesized(s) ==
    \A n \in SeqNos : <<s, n>> \in active => stage[s][n] # "recovery"

RetiredIsRecorded(s) ==
    \A n \in SeqNos : Staged(s, n) /\ n < journal[s].drain => raw[s][n + 1].by = stage[s][n]

AnswerInv ==
    /\ CaptureInv
    /\ \A s \in Sessions : AliveIsNotSynthesized(s) /\ RetiredIsRecorded(s)

(* What MarkerTracksOpenJournal rests on: a session that had a journal is   *)
(* in every walk of the directories, so that no pass takes it for absent,  *)
(* and a reservation is marked before the journal points at it.            *)
Established == Sessions \ Fresh

MarkerInv ==
    /\ TypeInv
    /\ Established \subseteq dirs
    /\ \A s \in Established : journal[s].exists /\ \A j \in unsynced[s] : j.exists
    /\ sweep.pc \in {"index", "inspect", "clear"} => Established \subseteq sweep.dirs
    /\ sweep.clearing \cap Established = {}
    /\ \A s \in Established : At(s, "reserve") => s \in marker

(* What AcknowledgedIsKept rests on: the versions of the journal that may  *)
(* come back have the place of every capture under way, and there are none *)
(* when the stage of a drained turn is about to be removed.                *)
SyncedOk(s) ==
    /\ \A n \in SeqNos : <<s, n>> \in active =>
          n < journal[s].next /\ \A j \in unsynced[s] : n < j.next
    /\ At(s, "remove") => unsynced[s] = {}

SyncInv == TypeInv /\ \A s \in Sessions : SyncedOk(s)

(* What NothingIrreconcilable rests on, given AnswerInv.                   *)
ReservedExists == \A s \in Sessions : journal[s].next > 0 => journal[s].exists

StartHasPass == daemon = "recovering" => sweep.pc # "idle"

(* A pass that has listed the sessions and has yet to come to s.           *)
Listed == sweep.pc \in {"inspect", "clear"}
Awaits(s) ==
    \/ daemon = "down"
    \/ daemon = "recovering" /\ (Listed => s \in sweep.todo \cup sweep.inventory)

(* A retired stage is the last turn's, which turns.jsonl ends with: the    *)
(* transaction is about to remove it, or died before it could.             *)
RetiredIsLast(s) ==
    \A n \in SeqNos : Staged(s, n) /\ n < journal[s].drain =>
        /\ n + 1 = journal[s].drain /\ Len(raw[s]) = journal[s].drain /\ torn[s] = NoRecord
        /\ At(s, "remove") \/ (op[s] = Idle /\ Awaits(s))

(* A stage temporary is the one being written, or of a writer that died.   *)
TempIsKnown(t) ==
    /\ journal[t[1]].exists
    /\ \/ At(t[1], "publish") /\ t = OwnTemp(t[1])
       \/ daemon # "serving" /\ (Listed => t[1] \in sweep.todo)

RecoveryInv ==
    /\ AnswerInv
    /\ ReservedExists /\ StartHasPass
    /\ \A s \in Sessions : RetiredIsLast(s)
    /\ \A t \in stageTemp : TempIsKnown(t)
    /\ sweep.cause # "conflict"

-----------------------------------------------------------------------------
(* A session with an open journal that a recovery which reads only the     *)
(* markers would not find.                                                 *)
Unmarked(s) == indexed /\ Open(s) /\ s \notin marker

(* A session that had a journal is in the recovery index whenever that      *)
(* journal is open, whatever the instant of the crash: reserve marks       *)
(* before it persists, drain unmarks after the last persist.  One thing     *)
(* takes it out: a power cut that brings back an open version of a journal *)
(* whose directory sync had failed - a live sweep may have removed the      *)
(* stage and the marker meanwhile, on the strength of the later version.   *)
(* A first reservation may lose its marker: a live sweep that finds the     *)
(* marker and no journal yet removes it.                                   *)
MarkerTracksOpenJournal ==
    [][\A s \in Sessions \ Fresh :
          Unmarked(s)' => Unmarked(s) \/ journal'[s] \in unsynced[s]]_vars

(* The staged envelope that is next can always be appended: what the file  *)
(* ends with is that envelope, a prefix of it, or an earlier turn ("the    *)
(* durable journal and recovery marker still describe consistent state").  *)
AppendsReconcile ==
    \A s \in Sessions : At(s, "append") => ~ TailConflicts(s)

(* While the daemon serves, the only temporary stage file is the one being *)
(* written: drain reads the directory without recovering temporaries and   *)
(* rejects any other name, which would fail every commit of the session.   *)
StagingIsClean ==
    daemon = "serving" =>
        \A t \in stageTemp : At(t[1], "publish") /\ t = OwnTemp(t[1])

(* Neither commits nor recovery ever meet a tail, a retired stage or a      *)
(* temporary they must refuse: such an error returns from every later      *)
(* recovery too, and the daemon could not start again.                     *)
NothingIrreconcilable ==
    /\ sweep.cause # "conflict"
    /\ AppendsReconcile
    /\ StagingIsClean

(* An answer that was staged leaves the staging directory only as the      *)
(* record of its turn in turns.jsonl: no crash, retry or recovery replaces *)
(* it by a synthesized one or loses it.                                    *)
StagedAnswerIsKept ==
    [][\A s \in Sessions, n \in SeqNos :
          stage[s][n] = "tee" /\ stage'[s][n] # "tee"
             => n + 1 \in 1 .. Len(raw'[s]) /\ raw'[s][n + 1] = [seq |-> n, by |-> "tee"]]_vars

(* What the daemon acted on is never taken back, whatever crash, failing   *)
(* sync or power cut happens: the place of a request that was let through  *)
(* to the origin stays reserved (no later turn gets its number), and the   *)
(* stage of a turn is removed by its drain only when the drain stays ("the *)
(* journal must be at least as durable as the pointer").                   *)
AcknowledgedIsKept ==
    [][\A s \in Sessions :
          /\ \A n \in SeqNos : <<s, n>> \in active => n < journal'[s].next
          /\ At(s, "remove") => journal[s].drain <= journal'[s].drain]_vars

(* The capture journal implements the ordered, append-only transcript; in  *)
(* particular recovery never completes a turn whose task is still alive.   *)
Transcript == INSTANCE CaptureTranscript WITH
    reserved   <- [s \in Sessions |-> journal[s].next],
    transcript <- raw,
    inflight   <- active

ImplementsTranscript == Transcript!TranscriptSpec

(* A restart or a live sweep fails only for want of resources, never       *)
(* because of what a crash left behind: recovery must be able to start the *)
(* daemon again.                                                           *)
CrashNeverBlocksRecovery ==
    sweep.pc = "failed" /\ ~ sweep.live => sweep.cause = "io"

(* A marker temporary that outlived its writer: recovery refuses it (see   *)
(* the run that shows it), and nothing removes it.                         *)
MarkerDebris == \E s \in markerTemp : ~ At(s, "mark")

(* Every reservation is eventually drained into turns.jsonl, by its own    *)
(* commit, by a later one, by a live sweep or by the recovery of a         *)
(* restart.  Two things may keep it waiting: marker debris that keeps the   *)
(* daemon from starting, and a capture of this or an earlier turn that      *)
(* stays at work for ever (a client that stopped reading, a websocket that *)
(* stays open), to which commits and live sweeps leave the head of the     *)
(* queue.                                                                  *)
StaysAtWork(s, n) == <>[](\E m \in 0 .. n : <<s, m>> \in active)

ReservationsDrain ==
    \A s \in Sessions : \A n \in SeqNos :
        \/ StaysAtWork(s, n)
        \/ (n < journal[s].next) ~> (n < journal[s].drain \/ MarkerDebris)
=============================================================================
