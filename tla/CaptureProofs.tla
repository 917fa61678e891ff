-------------------------- MODULE CaptureProofs ---------------------------
(***************************************************************************)
(* Proofs about CaptureJournal, for every number of sessions, captures,    *)
(* crashes and faults: its types, what the journal keeps whatever fails,   *)
(* and - as long as the machine does not lose power, which may take an     *)
(* unsynced stage or record away - that turns.jsonl and the journal agree. *)
(* Then what crashes and recovery leave of it.                             *)
(***************************************************************************)
EXTENDS CaptureProperties, SequenceTheorems, TLAPS

-----------------------------------------------------------------------------
(* Types.                                                                  *)

LEMMA IdleType == Idle \in Transactions
  BY CaptureAssumption DEF Idle, Transactions, SeqNos

LEMMA NoSweepType == NoSweep \in Sweeps
  BY DEF NoSweep, Sweeps

(* Ending a transaction, with or without an error.                         *)
LEMMA FinishType ==
    ASSUME TypeOK, NEW s \in Sessions, Finish(s)
    PROVE  /\ op' \in [Sessions -> Transactions]
           /\ active' \subseteq Sessions \X SeqNos
           /\ sweep' \in Sweeps
<1>1. op' \in [Sessions -> Transactions]
  BY IdleType DEF TypeOK, Finish
<1>2. active' \subseteq Sessions \X SeqNos
  BY DEF TypeOK, Finish
<1>3. sweep' \in Sweeps
  BY DEF TypeOK, Finish, Sweeps
<1> QED
  BY <1>1, <1>2, <1>3

LEMMA SweepErrorType ==
    ASSUME TypeOK, NEW cause \in {"debris", "unlisted", "conflict", "io"}, SweepError(cause)
    PROVE  sweep' \in Sweeps
  BY DEF TypeOK, SweepError, Sweeps, NoSweep

LEMMA FailType ==
    ASSUME TypeOK, NEW s \in Sessions, NEW cause \in {"conflict", "io"}, Fail(s, cause)
    PROVE  /\ op' \in [Sessions -> Transactions]
           /\ active' \subseteq Sessions \X SeqNos
           /\ sweep' \in Sweeps
<1>1. op' \in [Sessions -> Transactions]
  BY IdleType DEF TypeOK, Fail
<1>2. active' \subseteq Sessions \X SeqNos
  BY DEF TypeOK, Fail
<1>3. sweep' \in Sweeps
  BY SweepErrorType DEF TypeOK, Fail
<1> QED
  BY <1>1, <1>2, <1>3

(* Moving a transaction on.                                                *)
LEMMA GoToType ==
    ASSUME TypeOK, NEW s \in Sessions,
           NEW pc \in {"reserve", "drain", "append", "appending", "persist", "remove"},
           GoTo(s, pc)
    PROVE  op' \in [Sessions -> Transactions]
  BY ZenonT(60) DEF TypeOK, GoTo, Transactions

(* The staged envelope is an envelope.                                     *)
LEMMA NextEnvelopeType ==
    ASSUME TypeOK, NEW s \in Sessions, Open(s), Staged(s, journal[s].drain)
    PROVE  /\ journal[s].drain \in SeqNos
           /\ NextEnvelope(s) \in Envelope
<1>1. journal[s].drain \in SeqNos
  BY CaptureAssumption DEF TypeOK, Open, SeqNos, Journals
<1>2. stage[s][journal[s].drain] \in Sources
  BY <1>1 DEF TypeOK, Staged
<1> QED
  BY <1>1, <1>2 DEF NextEnvelope, Envelope

(* The versions of the journal that a power cut may bring back.            *)
LEMMA UnsyncedType ==
    ASSUME TypeInv, NEW s \in Sessions
    PROVE  /\ journal[s] \in OrderedJournals
           /\ Superseded(s) \in [Sessions -> SUBSET OrderedJournals]
           /\ Settled(s) \in [Sessions -> SUBSET OrderedJournals]
<1>1. journal[s] \in Journals /\ journal[s].drain <= journal[s].next
  BY DEF TypeInv, TypeOK, FlowOk
<1>2. journal[s] \in OrderedJournals
  BY <1>1 DEF OrderedJournals
<1>3. unsynced \in [Sessions -> SUBSET OrderedJournals]
  BY DEF TypeInv, TypeOK
<1>4. Superseded(s) \in [Sessions -> SUBSET OrderedJournals]
  BY <1>2, <1>3 DEF Superseded
<1>5. [unsynced EXCEPT ![s] = {}] \in [Sessions -> SUBSET OrderedJournals]
  BY <1>3
<1> QED BY <1>2, <1>4, <1>5 DEF Settled

(* Every step keeps the shape of every variable.                           *)
LEMMA TypeStep == TypeInv /\ [Next]_vars => TypeOK'
<1> SUFFICES ASSUME TypeInv, [Next]_vars PROVE TypeOK'
  OBVIOUS
<1> USE CaptureAssumption, IdleType, NoSweepType
<1> USE DEF TypeOK, log, staging, index, durable, process, bounds
<1>0. TypeOK /\ \A s \in Sessions : FlowOk(s)
  BY DEF TypeInv
<1>a. ASSUME NEW s \in Sessions, Capture(s) PROVE TypeOK'
  <2>1. CASE CreateSession(s)
    BY <1>0, <2>1 DEF CreateSession
  <2>2. CASE ReserveBegin(s)
    <3>1. op' \in [Sessions -> Transactions]
      BY <1>0, <2>2 DEF ReserveBegin, CanReserve, Transactions, SeqNos, Journals
    <3> QED BY <1>0, <2>2, <3>1 DEF ReserveBegin
  <2>3. CASE ReserveMark(s)
    <3>1. op' \in [Sessions -> Transactions]
      BY <1>0, <2>3, GoToType DEF ReserveMark
    <3> QED BY <1>0, <2>3, <3>1 DEF ReserveMark
  <2>4. CASE ReservePersist(s)
    <3>0. journal[s].next \in SeqNos /\ journal[s].next + 1 \in 0 .. MaxCaptures
      BY <1>0, <2>4 DEF ReservePersist, FlowOk, At, SeqNos, Journals
    <3>1. journal' \in [Sessions -> Journals]
      BY <1>0, <2>4, <3>0 DEF ReservePersist, Reserved, Journals
    <3>2. op' \in [Sessions -> Transactions]
      BY <1>0, <2>4 DEF ReservePersist
    <3>4. unsynced' \in [Sessions -> SUBSET OrderedJournals]
      BY <2>4, UnsyncedType DEF ReservePersist
    <3>3. active' \subseteq Sessions \X SeqNos
      BY <1>0, <2>4, <3>0 DEF ReservePersist
    <3> QED BY <1>0, <2>4, <3>1, <3>2, <3>3, <3>4 DEF ReservePersist
  <2>5. ASSUME NEW n \in SeqNos, Abandon(s, n) PROVE TypeOK'
    BY <1>0, <2>5 DEF Abandon
  <2>6. ASSUME NEW n \in SeqNos, CommitBegin(s, n) PROVE TypeOK'
    <3>1. op' \in [Sessions -> Transactions]
      BY <1>0, <2>6 DEF CommitBegin, Transactions
    <3> QED BY <1>0, <2>6, <3>1 DEF CommitBegin, StageTemps
  <2> QED BY <1>a, <2>1, <2>2, <2>3, <2>4, <2>5, <2>6 DEF Capture
<1>b. ASSUME NEW s \in Sessions, Drain(s) PROVE TypeOK'
  <2>1. CASE Publish(s)
    <3>1. op' \in [Sessions -> Transactions]
      BY <1>0, <2>1, GoToType DEF Publish
    <3>2. stage' \in [Sessions -> [SeqNos -> Sources \union {"none"}]]
      BY <1>0, <2>1 DEF Publish, Sources
    <3> QED BY <1>0, <2>1, <3>1, <3>2 DEF Publish
  <2>2. CASE DrainDone(s)
    BY <1>0, <2>2, FinishType DEF DrainDone
  <2>3. CASE DrainNext(s)
    BY <1>0, <2>3, GoToType DEF DrainNext
  <2>4. CASE DrainBlocked(s)
    BY <1>0, <2>4, FinishType DEF DrainBlocked
  <2>5. CASE AppendBegin(s)
    <3>1. op' \in [Sessions -> Transactions]
      BY <1>0, <2>5, GoToType DEF AppendBegin
    <3>2. NextEnvelope(s) \in Envelope
      BY <1>0, <2>5, NextEnvelopeType DEF AppendBegin, FlowOk, At
    <3>3. torn' \in [Sessions -> Envelope \union {NoRecord}]
      BY <1>0, <2>5, <3>2 DEF AppendBegin
    <3> QED BY <1>0, <2>5, <3>1, <3>3 DEF AppendBegin
  <2>6. CASE AppendEnd(s)
    <3>1. op' \in [Sessions -> Transactions]
      BY <1>0, <2>6, GoToType DEF AppendEnd
    <3>2. torn[s] \in Envelope
      BY <1>0, <2>6 DEF AppendEnd, FlowOk, At
    <3>3. Append(raw[s], torn[s]) \in Seq(Envelope)
      BY <1>0, <3>2
    <3>4. raw' \in [Sessions -> Seq(Envelope)]
      BY <1>0, <2>6, <3>3 DEF AppendEnd
    <3>5. torn' \in [Sessions -> Envelope \union {NoRecord}]
      BY <1>0, <2>6 DEF AppendEnd
    <3> QED BY <1>0, <2>6, <3>1, <3>4, <3>5 DEF AppendEnd
  <2>7. CASE AppendConflict(s)
    BY <1>0, <2>7, FailType DEF AppendConflict
  <2>8. CASE PersistDrain(s)
    <3>1. op' \in [Sessions -> Transactions]
      BY <1>0, <2>8, GoToType DEF PersistDrain
    <3>2. journal[s].drain + 1 \in 0 .. MaxCaptures
      BY <1>0, <2>8 DEF PersistDrain, FlowOk, At, Open, Journals
    <3>3. journal' \in [Sessions -> Journals]
      BY <1>0, <2>8, <3>2, ZenonT(60) DEF PersistDrain, Advanced, Journals
    <3>4. unsynced' \in [Sessions -> SUBSET OrderedJournals]
      BY <2>8, UnsyncedType DEF PersistDrain
    <3> QED BY <1>0, <2>8, <3>1, <3>3, <3>4 DEF PersistDrain
  <2>9. CASE RemoveStage(s)
    <3>1. op' \in [Sessions -> Transactions]
      BY <1>0, <2>9, GoToType DEF RemoveStage
    <3>2. stage' \in [Sessions -> [SeqNos -> Sources \union {"none"}]]
      BY <1>0, <2>9 DEF RemoveStage
    <3> QED BY <1>0, <2>9, <3>1, <3>2 DEF RemoveStage
  <2> QED BY <1>b, <2>1, <2>2, <2>3, <2>4, <2>5, <2>6, <2>7, <2>8, <2>9 DEF Drain
<1>c. ASSUME NEW s \in Sessions, Recover(s) PROVE TypeOK'
  <2>1. CASE IndexSession(s)
    BY <1>0, <2>1 DEF IndexSession
  <2>2. CASE InspectAbsent(s)
    <3>1. sweep' \in Sweeps
      <4>1. CASE SweepError("unlisted")
        BY <1>0, <4>1, SweepErrorType
      <4>2. CASE sweep' = [sweep EXCEPT !.pc = "clear", !.todo = @ \ {s}, !.clearing = {s}]
        BY <1>0, <4>2, ZenonT(60) DEF Sweeps
      <4> QED BY <2>2, <4>1, <4>2 DEF InspectAbsent
    <3> QED BY <1>0, <2>2, <3>1 DEF InspectAbsent
  <2>3. CASE Inspect(s)
    <3>1. sweep' \in Sweeps
      <4>1. CASE sweep' = [sweep EXCEPT !.todo = @ \ {s}]
        BY <1>0, <4>1 DEF Sweeps
      <4>2. CASE sweep' = [sweep EXCEPT !.todo = @ \ {s}, !.inventory = @ \union {s}]
        BY <1>0, <4>2 DEF Sweeps
      <4> QED BY <2>3, <4>1, <4>2 DEF Inspect
    <3>2. stageTemp' \subseteq StageTemps
      BY <1>0, <2>3 DEF Inspect, WithoutTemps
    <3> QED BY <1>0, <2>3, <3>1, <3>2 DEF Inspect
  <2>4. CASE ApplyBegin(s)
    <3>1. stageTemp' \subseteq StageTemps
      BY <1>0, <2>4 DEF ApplyBegin, WithoutTemps
    <3>2. CASE RetiredOk(s)
      <4>1. op' \in [Sessions -> Transactions]
        <5>1. [pc |-> "drain", by |-> "recovery", seq |-> 0] \in Transactions
          BY DEF Transactions, SeqNos
        <5> QED BY <1>0, <2>4, <3>2, <5>1, ZenonT(60) DEF ApplyBegin
      <4>2. stage' \in [Sessions -> [SeqNos -> Sources \union {"none"}]]
        <5>1. [n \in SeqNos |-> IF n \in Retired(s) THEN "none" ELSE stage[s][n]]
                \in [SeqNos -> Sources \union {"none"}]
          BY <1>0
        <5>2. stage' = [stage EXCEPT ![s] =
                 [n \in SeqNos |-> IF n \in Retired(s) THEN "none" ELSE stage[s][n]]]
          BY <1>0, <2>4, <3>2 DEF ApplyBegin
        <5> QED BY <1>0, <5>1, <5>2
      <4> QED BY <1>0, <2>4, <3>1, <3>2, <4>1, <4>2 DEF ApplyBegin
    <3>3. CASE ~ RetiredOk(s)
      BY <1>0, <2>4, <3>1, <3>3, SweepErrorType DEF ApplyBegin
    <3> QED BY <3>2, <3>3
  <2>5. CASE LeaveOpen(s)
    BY <1>0, <2>5, FinishType DEF LeaveOpen
  <2>6. CASE Synthesize(s)
    <3>1. journal[s].drain \in SeqNos
      BY <1>0, <2>6 DEF Synthesize, HeadMissing, HeadOpen, Open, SeqNos, Journals
    <3>2. op' \in [Sessions -> Transactions]
      BY <1>0, <2>6, <3>1 DEF Synthesize, Transactions
    <3>3. stageTemp' \subseteq StageTemps
      BY <1>0, <2>6, <3>1 DEF Synthesize, StageTemps
    <3> QED BY <1>0, <2>6, <3>2, <3>3 DEF Synthesize
  <2> QED BY <1>c, <2>1, <2>2, <2>3, <2>4, <2>5, <2>6 DEF Recover
<1>d. CASE Daemon
  <2>1. CASE StartDaemon
    <3>1. sweep' \in Sweeps
      BY <1>0, <2>1 DEF StartDaemon, BeginSweep, Sweeps, NoSweep
    <3> QED BY <1>0, <2>1, <3>1 DEF StartDaemon
  <2>2. CASE StartLiveSweep
    <3>1. sweep' \in Sweeps
      BY <1>0, <2>2 DEF StartLiveSweep, BeginSweep, Sweeps, NoSweep
    <3> QED BY <1>0, <2>2, <3>1 DEF StartLiveSweep
  <2>3. CASE ListSessions
    <3>1. sweep' \in Sweeps
      <4>1. CASE markerTemp # {}
        BY <1>0, <2>3, <4>1, SweepErrorType DEF ListSessions
      <4>2. CASE markerTemp = {}
        <5> DEFINE listed == marker \union {s \in Sessions : HasStageEntries(s)}
        <5>1. listed \in SUBSET Sessions
          BY <1>0
        <5>2. sweep' = [sweep EXCEPT !.pc = "inspect", !.todo = listed]
          BY <2>3, <4>2 DEF ListSessions
        <5> HIDE DEF listed
        <5> QED BY <1>0, <5>1, <5>2 DEF Sweeps
      <4> QED BY <4>1, <4>2
    <3> QED BY <1>0, <2>3, <3>1 DEF ListSessions
  <2>4. CASE ClearMarker
    <3>1. sweep' \in Sweeps
      BY <1>0, <2>4 DEF ClearMarker, Sweeps
    <3> QED BY <1>0, <2>4, <3>1 DEF ClearMarker
  <2>5. CASE SweepDone
    BY <1>0, <2>5 DEF SweepDone
  <2>6. CASE SweepFailed
    BY <1>0, <2>6 DEF SweepFailed
  <2> QED BY <1>d, <2>1, <2>2, <2>3, <2>4, <2>5, <2>6 DEF Daemon
<1>e. CASE Environment
  <2>1. ASSUME Stop PROVE /\ op' \in [Sessions -> Transactions] /\ sweep' \in Sweeps
                          /\ active' \subseteq Sessions \X SeqNos
                          /\ daemon' \in {"down", "recovering", "serving"}
                          /\ crashes' \in 0 .. MaxCrashes /\ faults' \in 0 .. MaxFaults
    BY <1>0, <2>1 DEF Stop
  <2>2. CASE Crash
    BY <1>0, <2>1, <2>2 DEF Crash
  <2>3. CASE PowerCut
    <3>1. journal' \in [Sessions -> Journals]
      <4>1. \A s \in Sessions : journal'[s] \in Journals
        BY <1>0, <2>3 DEF PowerCut, OrderedJournals
      <4>2. journal' = [s \in Sessions |-> journal'[s]]
        BY <2>3 DEF PowerCut
      <4> QED BY <4>1, <4>2
    <3>6. unsynced' \in [Sessions -> SUBSET OrderedJournals]
      BY <2>3 DEF PowerCut
    <3>2. stage' \in [Sessions -> [SeqNos -> Sources \union {"none"}]]
      <4> PICK s \in Sessions, lost \in SUBSET SeqNos :
             stage' = [stage EXCEPT ![s] = [n \in SeqNos |-> IF n \in lost THEN "none" ELSE @[n]]]
        BY <2>3 DEF PowerCut
      <4>1. [n \in SeqNos |-> IF n \in lost THEN "none" ELSE stage[s][n]]
              \in [SeqNos -> Sources \union {"none"}]
        BY <1>0
      <4> QED BY <1>0, <4>1
    <3>3. raw' \in [Sessions -> Seq(Envelope)]
      <4> PICK s \in Sessions, lost \in 0 .. 1 :
             /\ lost <= Len(raw[s])
             /\ raw' = [raw EXCEPT ![s] = SubSeq(@, 1, Len(@) - lost)]
        BY <2>3 DEF PowerCut
      <4>1. SubSeq(raw[s], 1, Len(raw[s]) - lost) \in Seq(Envelope)
        BY <1>0, SubSeqProperties
      <4> QED BY <1>0, <4>1
    <3>4. torn' \in [Sessions -> Envelope \union {NoRecord}]
      BY <1>0, <2>3 DEF PowerCut
    <3>5. marker' \subseteq Sessions
      BY <1>0, <2>3 DEF PowerCut
    <3> QED BY <1>0, <2>1, <2>3, <3>1, <3>2, <3>3, <3>4, <3>5, <3>6 DEF PowerCut
  <2>4. ASSUME NEW s \in Sessions, WriteFails(s) PROVE TypeOK'
    <3>1. faults' \in 0 .. MaxFaults
      BY <1>0, <2>4 DEF WriteFails
    <3> QED BY <1>0, <2>4, <3>1, FailType DEF WriteFails
  <2>5. ASSUME NEW s \in Sessions, SyncFails(s) PROVE TypeOK'
    <3>1. faults' \in 0 .. MaxFaults
      BY <1>0, <2>5 DEF SyncFails
    <3>2. journal' \in [Sessions -> Journals]
      <4>1. CASE At(s, "reserve") /\ journal' = Reserved(s)
        <5>1. journal[s].next + 1 \in 0 .. MaxCaptures
          BY <1>0, <4>1 DEF FlowOk, At, Journals
        <5> QED BY <1>0, <4>1, <5>1 DEF Reserved, Journals
      <4>2. CASE At(s, "persist") /\ journal' = Advanced(s)
        <5>1. journal[s].drain + 1 \in 0 .. MaxCaptures
          BY <1>0, <4>2 DEF FlowOk, At, Open, Journals
        <5> QED BY <1>0, <4>2, <5>1, ZenonT(60) DEF Advanced, Journals
      <4> QED BY <1>0, <2>5, <4>1, <4>2 DEF SyncFails
    <3>3. unsynced' \in [Sessions -> SUBSET OrderedJournals]
      BY <1>0, <2>5, UnsyncedType DEF SyncFails
    <3> QED BY <1>0, <2>5, <3>1, <3>2, <3>3, FailType DEF SyncFails
  <2> QED BY <1>e, <2>2, <2>3, <2>4, <2>5 DEF Environment
<1>f. CASE UNCHANGED vars
  BY <1>0, <1>f DEF vars
<1> QED
  BY <1>a, <1>b, <1>c, <1>d, <1>e, <1>f DEF Next
-----------------------------------------------------------------------------
(* What the steps of a transaction rely on is kept by every step.          *)

(* Steps that leave a session alone.                                       *)
LEMMA FlowFrame ==
    ASSUME NEW s \in Sessions, FlowOk(s), journal'[s] = journal[s], op'[s] = op[s],
           torn'[s] = torn[s], stage'[s] = stage[s]
    PROVE  FlowOk(s)'
  BY DEF FlowOk, Open, At, Staged

(* Transactions at a step that relies on nothing more than the order of    *)
(* the two pointers.                                                       *)
LEMMA FlowRelaxed ==
    ASSUME NEW s \in Sessions, journal'[s].drain <= journal'[s].next,
           op'[s].pc \in {"idle", "publish", "drain", "remove"}
    PROVE  FlowOk(s)'
  BY DEF FlowOk, At

LEMMA FailIdles ==
    ASSUME TypeOK, NEW s \in Sessions, NEW cause, Fail(s, cause)
    PROVE  op' = [op EXCEPT ![s] = Idle] /\ op'[s].pc = "idle"
  BY DEF TypeOK, Fail, Idle

LEMMA FinishIdles ==
    ASSUME TypeOK, NEW s \in Sessions, Finish(s)
    PROVE  op' = [op EXCEPT ![s] = Idle] /\ op'[s].pc = "idle"
  BY DEF TypeOK, Finish, Idle

LEMMA GoToMoves ==
    ASSUME TypeOK, NEW s \in Sessions, NEW pc, GoTo(s, pc)
    PROVE  /\ op'[s].pc = pc /\ op'[s].by = op[s].by /\ op'[s].seq = op[s].seq
           /\ \A t \in Sessions \ {s} : op'[t] = op[t]
  BY DEF TypeOK, GoTo, Transactions

(* What Open and the pointers are, as numbers.                             *)
LEMMA PointersType ==
    ASSUME TypeOK, NEW s \in Sessions
    PROVE  /\ journal[s].next \in 0 .. MaxCaptures
           /\ journal[s].drain \in 0 .. MaxCaptures
           /\ journal[s].exists \in BOOLEAN
  BY DEF TypeOK, Journals

LEMMA ReservedPointers ==
    ASSUME TypeOK, NEW s \in Sessions, journal' = Reserved(s)
    PROVE  /\ journal'[s].next = journal[s].next + 1 /\ journal'[s].drain = journal[s].drain
           /\ \A t \in Sessions \ {s} : journal'[t] = journal[t]
  BY DEF TypeOK, Reserved

LEMMA AdvancedPointers ==
    ASSUME TypeOK, NEW s \in Sessions, journal' = Advanced(s)
    PROVE  /\ journal'[s].next = journal[s].next /\ journal'[s].drain = journal[s].drain + 1
           /\ journal'[s].exists = journal[s].exists
           /\ \A t \in Sessions \ {s} : journal'[t] = journal[t]
  BY DEF TypeOK, Advanced

LEMMA FlowStep == TypeInv /\ [Next]_vars => \A t \in Sessions : FlowOk(t)'
<1> SUFFICES ASSUME TypeInv, [Next]_vars, NEW t \in Sessions PROVE FlowOk(t)'
  OBVIOUS
<1> USE CaptureAssumption
<1> USE DEF log, staging, index, durable, process, bounds
<1>0. TypeOK /\ FlowOk(t)
  BY DEF TypeInv
<1>1. /\ journal[t].next \in Int /\ journal[t].drain \in Int
      /\ journal[t].drain <= journal[t].next
  BY <1>0, PointersType DEF FlowOk
<1>2. /\ op \in [Sessions -> Transactions]
      /\ stage \in [Sessions -> [SeqNos -> Sources \union {"none"}]]
      /\ torn \in [Sessions -> Envelope \union {NoRecord}]
  BY <1>0 DEF TypeOK
<1>a. ASSUME NEW s \in Sessions, Capture(s) PROVE FlowOk(t)'
  <2>1. CASE CreateSession(s)
    BY <1>0, <2>1, FlowFrame DEF CreateSession
  <2>2. CASE ReserveBegin(s)
    <3>1. CASE s = t
      <4>1. op'[t].pc = "mark"
        BY <1>2, <2>2, <3>1 DEF ReserveBegin
      <4> QED BY <1>1, <2>2, <3>1, <4>1 DEF ReserveBegin, CanReserve, FlowOk, At
    <3>2. CASE s # t
      BY <1>0, <1>2, <2>2, <3>2, FlowFrame DEF ReserveBegin
    <3> QED BY <3>1, <3>2
  <2>3. CASE ReserveMark(s)
    <3>1. CASE s = t
      <4>1. op'[t].pc = "reserve"
        BY <1>0, <2>3, <3>1, GoToMoves DEF ReserveMark
      <4> QED BY <1>0, <1>1, <2>3, <3>1, <4>1 DEF ReserveMark, FlowOk, At
    <3>2. CASE s # t
      BY <1>0, <2>3, <3>2, FlowFrame, GoToMoves DEF ReserveMark
    <3> QED BY <3>1, <3>2
  <2>4. CASE ReservePersist(s)
    <3>1. CASE s = t
      <4>1. op'[t].pc = "idle"
        BY <1>2, <2>4, <3>1 DEF ReservePersist, Idle
      <4> QED BY <1>0, <1>1, <2>4, <3>1, <4>1, FlowRelaxed, ReservedPointers DEF ReservePersist
    <3>2. CASE s # t
      BY <1>0, <1>2, <2>4, <3>2, FlowFrame, ReservedPointers DEF ReservePersist
    <3> QED BY <3>1, <3>2
  <2>5. ASSUME NEW n \in SeqNos, Abandon(s, n) PROVE FlowOk(t)'
    BY <1>0, <2>5, FlowFrame DEF Abandon
  <2>6. ASSUME NEW n \in SeqNos, CommitBegin(s, n) PROVE FlowOk(t)'
    <3>1. CASE s = t
      <4>1. op'[t].pc = "publish"
        BY <1>2, <2>6, <3>1 DEF CommitBegin
      <4> QED BY <1>1, <2>6, <4>1, FlowRelaxed DEF CommitBegin
    <3>2. CASE s # t
      BY <1>0, <1>2, <2>6, <3>2, FlowFrame DEF CommitBegin
    <3> QED BY <3>1, <3>2
  <2> QED BY <1>a, <2>1, <2>2, <2>3, <2>4, <2>5, <2>6 DEF Capture
<1>b. ASSUME NEW s \in Sessions, Drain(s) PROVE FlowOk(t)'
  <2>1. CASE Publish(s)
    <3>1. CASE s = t
      BY <1>0, <1>1, <2>1, <3>1, FlowRelaxed, GoToMoves DEF Publish
    <3>2. CASE s # t
      BY <1>0, <1>2, <2>1, <3>2, FlowFrame, GoToMoves DEF Publish
    <3> QED BY <3>1, <3>2
  <2>2. CASE DrainDone(s)
    <3>1. CASE s = t
      BY <1>0, <1>1, <2>2, <3>1, FlowRelaxed, FinishIdles DEF DrainDone
    <3>2. CASE s # t
      BY <1>0, <1>2, <2>2, <3>2, FlowFrame, FinishIdles DEF DrainDone
    <3> QED BY <3>1, <3>2
  <2>3. CASE DrainNext(s)
    <3>1. CASE s = t
      <4>1. op'[t].pc = "append"
        BY <1>0, <2>3, <3>1, GoToMoves DEF DrainNext
      <4> QED BY <1>1, <2>3, <3>1, <4>1 DEF DrainNext, FlowOk, At, Open, Staged
    <3>2. CASE s # t
      BY <1>0, <2>3, <3>2, FlowFrame, GoToMoves DEF DrainNext
    <3> QED BY <3>1, <3>2
  <2>4. CASE DrainBlocked(s)
    <3>1. CASE s = t
      BY <1>0, <1>1, <2>4, <3>1, FlowRelaxed, FinishIdles DEF DrainBlocked
    <3>2. CASE s # t
      BY <1>0, <1>2, <2>4, <3>2, FlowFrame, FinishIdles DEF DrainBlocked
    <3> QED BY <3>1, <3>2
  <2>5. CASE AppendBegin(s)
    <3>1. CASE s = t
      <4>1. Open(t)' /\ journal'[t] = journal[t]
        BY <1>0, <2>5, <3>1 DEF AppendBegin, FlowOk, At, Open
      <4>2. NextEnvelope(t) # NoRecord
        BY <1>1, <1>0, PointersType DEF NextEnvelope, NoRecord
      <4>3. CASE GoTo(s, "persist")
        <5>1. op'[t].pc = "persist"
          BY <1>0, <3>1, <4>3, GoToMoves
        <5> QED BY <1>1, <4>1, <5>1 DEF FlowOk, At
      <4>4. CASE GoTo(s, "appending") /\ torn' = [torn EXCEPT ![s] = NextEnvelope(s)]
        <5>1. op'[t].pc = "appending" /\ torn'[t] # NoRecord
          BY <1>0, <1>2, <3>1, <4>2, <4>4, GoToMoves
        <5> QED BY <1>1, <4>1, <5>1 DEF FlowOk, At
      <4> QED BY <2>5, <4>3, <4>4 DEF AppendBegin
    <3>2. CASE s # t
      <4>1. op'[t] = op[t]
        BY <1>0, <2>5, <3>2, GoToMoves DEF AppendBegin
      <4>2. torn'[t] = torn[t]
        BY <1>2, <2>5, <3>2 DEF AppendBegin
      <4> QED BY <1>0, <2>5, <4>1, <4>2, FlowFrame DEF AppendBegin
    <3> QED BY <3>1, <3>2
  <2>6. CASE AppendEnd(s)
    <3>1. CASE s = t
      <4>1. op'[t].pc = "persist"
        BY <1>0, <2>6, <3>1, GoToMoves DEF AppendEnd
      <4>2. Open(t)' /\ journal'[t] = journal[t]
        BY <1>0, <2>6, <3>1 DEF AppendEnd, FlowOk, At, Open
      <4> QED BY <1>1, <4>1, <4>2 DEF FlowOk, At
    <3>2. CASE s # t
      BY <1>0, <1>2, <2>6, <3>2, FlowFrame, GoToMoves DEF AppendEnd
    <3> QED BY <3>1, <3>2
  <2>7. CASE AppendConflict(s)
    <3>1. CASE s = t
      BY <1>0, <1>1, <2>7, <3>1, FlowRelaxed, FailIdles DEF AppendConflict
    <3>2. CASE s # t
      BY <1>0, <1>2, <2>7, <3>2, FlowFrame, FailIdles DEF AppendConflict
    <3> QED BY <3>1, <3>2
  <2>8. CASE PersistDrain(s)
    <3>1. CASE s = t
      <4>1. op'[t].pc = "remove"
        BY <1>0, <2>8, <3>1, GoToMoves DEF PersistDrain
      <4>2. journal[t].drain < journal[t].next
        BY <1>0, <2>8, <3>1 DEF PersistDrain, FlowOk, At, Open
      <4>3. journal'[t].drain <= journal'[t].next
        BY <1>0, <1>1, <2>8, <3>1, <4>2, AdvancedPointers DEF PersistDrain
      <4> QED BY <4>1, <4>3, FlowRelaxed
    <3>2. CASE s # t
      BY <1>0, <1>2, <2>8, <3>2, FlowFrame, GoToMoves, AdvancedPointers DEF PersistDrain
    <3> QED BY <3>1, <3>2
  <2>9. CASE RemoveStage(s)
    <3>1. CASE s = t
      BY <1>0, <1>1, <2>9, <3>1, FlowRelaxed, GoToMoves DEF RemoveStage
    <3>2. CASE s # t
      BY <1>0, <1>2, <2>9, <3>2, FlowFrame, GoToMoves DEF RemoveStage
    <3> QED BY <3>1, <3>2
  <2> QED BY <1>b, <2>1, <2>2, <2>3, <2>4, <2>5, <2>6, <2>7, <2>8, <2>9 DEF Drain
<1>c. ASSUME NEW s \in Sessions, Recover(s) PROVE FlowOk(t)'
  <2>1. CASE IndexSession(s)
    BY <1>0, <2>1, FlowFrame DEF IndexSession
  <2>2. CASE InspectAbsent(s)
    BY <1>0, <2>2, FlowFrame DEF InspectAbsent
  <2>3. CASE Inspect(s)
    BY <1>0, <2>3, FlowFrame DEF Inspect
  <2>4. CASE ApplyBegin(s)
    <3>1. CASE RetiredOk(s) /\ s = t
      <4>1. op'[t].pc = "drain"
        BY <1>2, <2>4, <3>1 DEF ApplyBegin
      <4> QED BY <1>1, <2>4, <4>1, FlowRelaxed DEF ApplyBegin
    <3>2. CASE RetiredOk(s) /\ s # t
      BY <1>0, <1>2, <2>4, <3>2, FlowFrame DEF ApplyBegin
    <3>3. CASE ~ RetiredOk(s)
      BY <1>0, <2>4, <3>3, FlowFrame DEF ApplyBegin
    <3> QED BY <3>1, <3>2, <3>3
  <2>5. CASE LeaveOpen(s)
    <3>1. CASE s = t
      BY <1>0, <1>1, <2>5, <3>1, FlowRelaxed, FinishIdles DEF LeaveOpen
    <3>2. CASE s # t
      BY <1>0, <1>2, <2>5, <3>2, FlowFrame, FinishIdles DEF LeaveOpen
    <3> QED BY <3>1, <3>2
  <2>6. CASE Synthesize(s)
    <3>1. CASE s = t
      <4>1. op'[t].pc = "publish"
        BY <1>2, <2>6, <3>1 DEF Synthesize
      <4> QED BY <1>1, <2>6, <4>1, FlowRelaxed DEF Synthesize
    <3>2. CASE s # t
      BY <1>0, <1>2, <2>6, <3>2, FlowFrame DEF Synthesize
    <3> QED BY <3>1, <3>2
  <2> QED BY <1>c, <2>1, <2>2, <2>3, <2>4, <2>5, <2>6 DEF Recover
<1>d. CASE Daemon
  <2>1. UNCHANGED <<journal, op, torn, stage>>
    BY <1>d DEF Daemon, StartDaemon, StartLiveSweep, ListSessions, ClearMarker, SweepDone,
                SweepFailed
  <2> QED BY <1>0, <2>1, FlowFrame
<1>e. CASE Environment
  <2>1. ASSUME Stop PROVE op'[t].pc = "idle"
    BY <2>1 DEF Stop, Idle
  <2>2. CASE Crash
    BY <1>1, <2>1, <2>2, FlowRelaxed DEF Crash
  <2>3. CASE PowerCut
    <3>1. journal'[t].drain <= journal'[t].next
      BY <1>0, <1>1, <2>3 DEF PowerCut, TypeOK, OrderedJournals
    <3> QED BY <2>1, <2>3, <3>1, FlowRelaxed DEF PowerCut
  <2>4. ASSUME NEW s \in Sessions, WriteFails(s) PROVE FlowOk(t)'
    <3>1. CASE s = t
      BY <1>0, <1>1, <2>4, <3>1, FlowRelaxed, FailIdles DEF WriteFails
    <3>2. CASE s # t
      BY <1>0, <1>2, <2>4, <3>2, FlowFrame, FailIdles DEF WriteFails
    <3> QED BY <3>1, <3>2
  <2>5. ASSUME NEW s \in Sessions, SyncFails(s) PROVE FlowOk(t)'
    <3>1. CASE s = t
      <4>1. journal'[t].drain <= journal'[t].next
        <5>1. CASE At(s, "reserve") /\ journal' = Reserved(s)
          BY <1>0, <1>1, <3>1, <5>1, ReservedPointers
        <5>2. CASE At(s, "persist") /\ journal' = Advanced(s)
          <6>1. journal[t].drain < journal[t].next
            BY <1>0, <3>1, <5>2 DEF FlowOk, At, Open
          <6> QED BY <1>0, <1>1, <3>1, <5>2, <6>1, AdvancedPointers
        <5>3. CASE UNCHANGED journal
          BY <1>1, <5>3
        <5> QED BY <2>5, <5>1, <5>2, <5>3 DEF SyncFails
      <4> QED BY <1>0, <2>5, <3>1, <4>1, FlowRelaxed, FailIdles DEF SyncFails
    <3>2. CASE s # t
      <4>1. journal'[t] = journal[t]
        BY <1>0, <2>5, <3>2, ReservedPointers, AdvancedPointers DEF SyncFails
      <4> QED BY <1>0, <1>2, <2>5, <3>2, <4>1, FlowFrame, FailIdles DEF SyncFails
    <3> QED BY <3>1, <3>2
  <2> QED BY <1>e, <2>2, <2>3, <2>4, <2>5 DEF Environment
<1>f. CASE UNCHANGED vars
  BY <1>0, <1>f, FlowFrame DEF vars
<1> QED
  BY <1>a, <1>b, <1>c, <1>d, <1>e, <1>f DEF Next

(* Init satisfies the invariant.                                           *)
LEMMA TypeInit == Init => TypeInv
<1> SUFFICES ASSUME Init PROVE TypeInv
  OBVIOUS
<1> USE CaptureAssumption DEF Init
<1>1. journal \in [Sessions -> Journals]
  BY DEF Journals
<1>2. raw \in [Sessions -> Seq(Envelope)]
  <2>1. <<[seq |-> 0, by |-> "tee"]>> \in Seq(Envelope)
    BY DEF Envelope, Sources, SeqNos
  <2> QED BY <2>1
<1>3. op \in [Sessions -> Transactions]
  BY IdleType
<1>4. stage \in [Sessions -> [SeqNos -> Sources \union {"none"}]]
  OBVIOUS
<1>5. torn \in [Sessions -> Envelope \union {NoRecord}]
  OBVIOUS
<1>6. TypeOK
  <2>1. /\ dirs \subseteq Sessions /\ marker \subseteq Sessions /\ markerTemp \subseteq Sessions
        /\ stageTemp \subseteq StageTemps /\ active \subseteq Sessions \X SeqNos
    OBVIOUS
  <2>2. crashes \in 0 .. MaxCrashes /\ faults \in 0 .. MaxFaults
    OBVIOUS
  <2>3. /\ indexed \in BOOLEAN /\ daemon \in {"down", "recovering", "serving"}
        /\ sweep \in Sweeps /\ unsynced \in [Sessions -> SUBSET OrderedJournals]
    BY NoSweepType
  <2> QED BY <1>1, <1>2, <1>3, <1>4, <1>5, <2>1, <2>2, <2>3 DEF TypeOK
<1>7. ASSUME NEW s \in Sessions PROVE FlowOk(s)
  <2>1. journal[s].drain <= journal[s].next
    BY <1>1, SMTT(60)
  <2> QED BY <2>1 DEF FlowOk, At, Idle
<1> QED
  BY <1>6, <1>7 DEF TypeInv

(* The capture state keeps its types and each transaction finds what its   *)
(* next step needs (a sequence number left to reserve, an open place to    *)
(* drain into, the stage it is about to append) - with any number of       *)
(* sessions and captures, under every crash, power cut and failing call.   *)
THEOREM TypeCorrect == Spec => [](TypeOK /\ \A s \in Sessions : FlowOk(s))
<1>1. Init => TypeInv
  BY TypeInit
<1>2. TypeInv /\ [Next]_vars => TypeInv'
  BY TypeStep, FlowStep DEF TypeInv
<1>3. TypeInv => TypeOK /\ \A s \in Sessions : FlowOk(s)
  BY DEF TypeInv
<1> QED
  BY <1>1, <1>2, <1>3, PTL DEF Spec

-----------------------------------------------------------------------------
(* Only a power cut takes the journal back.                                *)

JournalAdvances ==
    \A s \in Sessions :
        /\ journal[s].exists => journal'[s].exists
        /\ journal[s].next <= journal'[s].next
        /\ journal[s].drain <= journal'[s].drain

LEMMA JournalKept ==
    ASSUME TypeOK, journal' = journal
    PROVE  JournalAdvances
  BY PointersType DEF JournalAdvances

LEMMA JournalReserves ==
    ASSUME TypeOK, NEW s \in Sessions, journal' = Reserved(s)
    PROVE  JournalAdvances
<1>1. journal'[s].exists
  BY DEF TypeOK, Reserved
<1> QED BY <1>1, ReservedPointers, PointersType DEF JournalAdvances

LEMMA JournalDrains ==
    ASSUME TypeOK, NEW s \in Sessions, journal' = Advanced(s)
    PROVE  JournalAdvances
  BY AdvancedPointers, PointersType DEF JournalAdvances

LEMMA AdvanceStep == TypeOK /\ [Next]_vars /\ ~ PowerCut => JournalAdvances
<1> SUFFICES ASSUME TypeOK, [Next]_vars, ~ PowerCut PROVE JournalAdvances
  OBVIOUS
<1> USE DEF log, durable
<1>1. ASSUME NEW s \in Sessions, Capture(s) PROVE JournalAdvances
  <2>1. journal' = journal \/ journal' = Reserved(s)
    BY <1>1 DEF Capture, CreateSession, ReserveBegin, ReserveMark, ReservePersist, Abandon,
                CommitBegin
  <2> QED BY <2>1, JournalKept, JournalReserves
<1>2. ASSUME NEW s \in Sessions, Drain(s) PROVE JournalAdvances
  <2>1. journal' = journal \/ journal' = Advanced(s)
    BY <1>2 DEF Drain, Publish, DrainDone, DrainNext, DrainBlocked, AppendBegin, AppendEnd,
                AppendConflict, PersistDrain, RemoveStage
  <2> QED BY <2>1, JournalKept, JournalDrains
<1>3. ASSUME NEW s \in Sessions, Recover(s) PROVE JournalAdvances
  <2>1. journal' = journal
    BY <1>3 DEF Recover, IndexSession, InspectAbsent, Inspect, ApplyBegin, LeaveOpen, Synthesize
  <2> QED BY <2>1, JournalKept
<1>4. CASE Daemon
  <2>1. journal' = journal
    BY <1>4 DEF Daemon, StartDaemon, StartLiveSweep, ListSessions, ClearMarker, SweepDone,
                SweepFailed
  <2> QED BY <2>1, JournalKept
<1>5. ASSUME NEW s \in Sessions, WriteFails(s) \/ SyncFails(s) PROVE JournalAdvances
  <2>1. journal' = journal \/ journal' = Reserved(s) \/ journal' = Advanced(s)
    BY <1>5 DEF WriteFails, SyncFails
  <2> QED BY <2>1, JournalKept, JournalReserves, JournalDrains
<1>7. CASE Crash \/ UNCHANGED vars
  <2>1. journal' = journal
    BY <1>7 DEF Crash, vars
  <2> QED BY <2>1, JournalKept
<1> QED BY <1>1, <1>2, <1>3, <1>4, <1>5, <1>7 DEF Next, Environment

(* What a step leaves of the older versions of a journal.                  *)
LEMMA JournalWrites ==
    ASSUME [Next]_vars, ~ PowerCut
    PROVE  \/ unsynced' = unsynced
           \/ \E s \in Sessions : unsynced' \in {Superseded(s), Settled(s)}
<1> USE DEF log, durable
<1>1. ASSUME NEW s \in Sessions, Capture(s), ~ ReservePersist(s) PROVE unsynced' = unsynced
  BY <1>1 DEF Capture, CreateSession, ReserveBegin, ReserveMark, Abandon, CommitBegin
<1>2. ASSUME NEW s \in Sessions, Drain(s), ~ PersistDrain(s) PROVE unsynced' = unsynced
  BY <1>2 DEF Drain, Publish, DrainDone, DrainNext, DrainBlocked, AppendBegin, AppendEnd,
              AppendConflict, RemoveStage
<1>3. ASSUME NEW s \in Sessions, Recover(s) PROVE unsynced' = unsynced
  BY <1>3 DEF Recover, IndexSession, InspectAbsent, Inspect, ApplyBegin, LeaveOpen, Synthesize
<1>4. Daemon => unsynced' = unsynced
  BY DEF Daemon, StartDaemon, StartLiveSweep, ListSessions, ClearMarker, SweepDone, SweepFailed
<1>5. ASSUME NEW s \in Sessions, ReservePersist(s) \/ PersistDrain(s)
      PROVE  unsynced' = Settled(s)
  BY <1>5 DEF ReservePersist, PersistDrain
<1>6. ASSUME NEW s \in Sessions, SyncFails(s)
      PROVE  unsynced' = unsynced \/ unsynced' = Superseded(s)
  BY <1>6 DEF SyncFails
<1>7. Crash \/ (\E s \in Sessions : WriteFails(s)) \/ UNCHANGED vars => unsynced' = unsynced
  BY DEF Crash, WriteFails, vars
<1> QED BY <1>1, <1>2, <1>3, <1>4, <1>5, <1>6, <1>7 DEF Next, Environment, Capture, Drain

LEMMA OlderVersions ==
    ASSUME TypeOK, [Next]_vars, ~ PowerCut, NEW t \in Sessions
    PROVE  unsynced'[t] \subseteq unsynced[t] \union {journal[t]}
<1>0. unsynced \in [Sessions -> SUBSET OrderedJournals]
  BY DEF TypeOK
<1>1. ASSUME NEW s \in Sessions, unsynced' = Superseded(s)
      PROVE  unsynced'[t] \subseteq unsynced[t] \union {journal[t]}
  BY <1>0, <1>1 DEF Superseded
<1>2. ASSUME NEW s \in Sessions, unsynced' = Settled(s)
      PROVE  unsynced'[t] \subseteq unsynced[t] \union {journal[t]}
  BY <1>0, <1>2 DEF Settled, MayLose, JournalDurability
<1> QED BY <1>1, <1>2, JournalWrites

(* A capture starts when its reservation is persisted; the stage of a      *)
(* drained turn is removed after its drain is.                             *)
LEMMA CaptureStarts ==
    ASSUME TypeOK, [Next]_vars, NEW t \in Sessions, NEW n \in SeqNos,
           <<t, n>> \in active', <<t, n>> \notin active
    PROVE  ReservePersist(t) /\ n = journal[t].next
<1> USE DEF log, staging, index, durable, process, bounds
<1>1. ASSUME NEW s \in Sessions, Capture(s), ~ ReservePersist(s) PROVE active' \subseteq active
  BY <1>1 DEF Capture, CreateSession, ReserveBegin, ReserveMark, Abandon, CommitBegin
<1>2. ASSUME NEW s \in Sessions, Drain(s) PROVE active' \subseteq active
  BY <1>2 DEF Drain, Publish, DrainDone, DrainNext, DrainBlocked, AppendBegin, AppendEnd,
              AppendConflict, PersistDrain, RemoveStage, Finish, Fail
<1>3. ASSUME NEW s \in Sessions, Recover(s) PROVE active' \subseteq active
  BY <1>3 DEF Recover, IndexSession, InspectAbsent, Inspect, ApplyBegin, LeaveOpen, Synthesize,
              Finish
<1>4. Daemon => active' \subseteq active
  BY DEF Daemon, StartDaemon, StartLiveSweep, ListSessions, ClearMarker, SweepDone, SweepFailed
<1>5. Environment => active' \subseteq active
  BY DEF Environment, Crash, PowerCut, Stop, WriteFails, SyncFails, Fail
<1>6. UNCHANGED vars => active' \subseteq active
  BY DEF vars
<1>7. ASSUME NEW s \in Sessions, ReservePersist(s) PROVE s = t /\ n = journal[t].next
  BY <1>7 DEF ReservePersist
<1> QED BY <1>1, <1>2, <1>3, <1>4, <1>5, <1>6, <1>7 DEF Next, Capture

LEMMA RemovalStarts ==
    ASSUME TypeOK, [Next]_vars, NEW t \in Sessions, At(t, "remove")'
    PROVE  PersistDrain(t) \/ (At(t, "remove") /\ unsynced'[t] = unsynced[t])
<1> USE DEF log, staging, index, durable, process, bounds
<1>0. op \in [Sessions -> Transactions] /\ unsynced \in [Sessions -> SUBSET OrderedJournals]
  BY DEF TypeOK
<1>1. ASSUME NEW s \in Sessions, Capture(s)
      PROVE  At(t, "remove") /\ unsynced'[t] = unsynced[t]
  <2>1. CASE CreateSession(s) \/ \E n \in SeqNos : Abandon(s, n)
    BY <2>1 DEF CreateSession, Abandon, At
  <2>2. CASE ReserveBegin(s) \/ \E n \in SeqNos : CommitBegin(s, n)
    <3>1. op'[s].pc \in {"mark", "publish"} /\ \A u \in Sessions \ {s} : op'[u] = op[u]
      <4>1. CASE ReserveBegin(s)
        BY <1>0, <4>1 DEF ReserveBegin
      <4>2. CASE \E n \in SeqNos : CommitBegin(s, n)
        BY <1>0, <4>2 DEF CommitBegin
      <4> QED BY <2>2, <4>1, <4>2
    <3>2. unsynced' = unsynced
      BY <2>2 DEF ReserveBegin, CommitBegin
    <3> QED BY <3>1, <3>2 DEF At
  <2>3. CASE ReserveMark(s)
    BY <1>0, <2>3, GoToMoves DEF ReserveMark, At
  <2>4. CASE ReservePersist(s)
    <3>1. t # s
      BY <1>0, <2>4 DEF ReservePersist, At, Idle
    <3> QED BY <1>0, <2>4, <3>1 DEF ReservePersist, At, Settled, Superseded
  <2> QED BY <1>1, <2>1, <2>2, <2>3, <2>4 DEF Capture
<1>2. ASSUME NEW s \in Sessions, Drain(s), ~ PersistDrain(t)
      PROVE  At(t, "remove") /\ unsynced'[t] = unsynced[t]
  <2>1. CASE DrainDone(s) \/ DrainBlocked(s) \/ AppendConflict(s)
    BY <1>0, <2>1 DEF DrainDone, DrainBlocked, AppendConflict, Finish, Fail, At, Idle
  <2>2. CASE Publish(s) \/ DrainNext(s) \/ AppendEnd(s) \/ RemoveStage(s)
    BY <1>0, <2>2, GoToMoves DEF Publish, DrainNext, AppendEnd, RemoveStage, At
  <2>3. CASE AppendBegin(s)
    BY <1>0, <2>3, GoToMoves DEF AppendBegin, At
  <2>4. CASE PersistDrain(s)
    BY <1>0, <1>2, <2>4, GoToMoves DEF PersistDrain, At, Settled, Superseded
  <2> QED BY <1>2, <2>1, <2>2, <2>3, <2>4 DEF Drain
<1>3. ASSUME NEW s \in Sessions, Recover(s)
      PROVE  At(t, "remove") /\ unsynced'[t] = unsynced[t]
  <2>1. CASE IndexSession(s) \/ InspectAbsent(s) \/ Inspect(s)
    BY <2>1 DEF IndexSession, InspectAbsent, Inspect, At
  <2>2. CASE ApplyBegin(s)
    BY <1>0, <2>2 DEF ApplyBegin, At
  <2>3. CASE LeaveOpen(s) \/ Synthesize(s)
    BY <1>0, <2>3 DEF LeaveOpen, Synthesize, Finish, At, Idle
  <2> QED BY <1>3, <2>1, <2>2, <2>3 DEF Recover
<1>4. Daemon \/ UNCHANGED vars => At(t, "remove") /\ unsynced'[t] = unsynced[t]
  BY DEF Daemon, StartDaemon, StartLiveSweep, ListSessions, ClearMarker, SweepDone, SweepFailed,
         vars, At
<1>5. ~ Crash /\ ~ PowerCut
  BY DEF Crash, PowerCut, Stop, At, Idle
<1>6. ASSUME NEW s \in Sessions, WriteFails(s) \/ SyncFails(s)
      PROVE  At(t, "remove") /\ unsynced'[t] = unsynced[t]
  <2>1. op' = [op EXCEPT ![s] = Idle]
    BY <1>6 DEF WriteFails, SyncFails, Fail
  <2>2. t # s /\ op'[t] = op[t]
    BY <1>0, <2>1 DEF At, Idle
  <2> QED BY <1>0, <1>6, <2>2 DEF WriteFails, SyncFails, Superseded, At
<1> QED BY <1>1, <1>2, <1>3, <1>4, <1>5, <1>6 DEF Next, Environment

LEMMA SyncedStep ==
    ASSUME TypeInv, TypeInv', [Next]_vars, NEW t \in Sessions, SyncedOk(t)
    PROVE  SyncedOk(t)'
<1>0. TypeOK /\ TypeOK'
  BY DEF TypeInv
<1>1. CASE PowerCut
  BY <1>0, <1>1 DEF PowerCut, Stop, SyncedOk, At, Idle
<1>2. CASE ~ PowerCut
  <2>1. ASSUME NEW n \in SeqNos, <<t, n>> \in active'
        PROVE  n < journal'[t].next /\ \A j \in unsynced'[t] : n < j.next
    <3>1. CASE <<t, n>> \in active
      <4>1. n < journal[t].next /\ \A j \in unsynced[t] : n < j.next
        BY <3>1 DEF SyncedOk
      <4>2. journal[t].next <= journal'[t].next
        BY <1>0, <1>2, AdvanceStep DEF JournalAdvances
      <4>3. n \in Nat /\ journal[t].next \in Nat /\ journal'[t].next \in Nat
        BY <1>0, CaptureAssumption DEF TypeOK, Journals, SeqNos
      <4>4. n < journal'[t].next
        BY <4>1, <4>2, <4>3
      <4> QED BY <1>0, <1>2, <4>1, <4>4, OlderVersions
    <3>2. CASE <<t, n>> \notin active
      <4>1. ReservePersist(t) /\ n = journal[t].next
        BY <1>0, <2>1, <3>2, CaptureStarts
      <4>2. journal'[t].next = n + 1
        BY <1>0, <4>1, ReservedPointers DEF ReservePersist
      <4>3. unsynced'[t] = {}
        BY <1>0, <4>1 DEF ReservePersist, Settled, MayLose, JournalDurability, TypeOK
      <4>4. n \in Nat
        BY DEF SeqNos
      <4> QED BY <4>2, <4>3, <4>4
    <3> QED BY <3>1, <3>2
  <2>2. At(t, "remove")' => unsynced'[t] = {}
    <3>1. CASE PersistDrain(t)
      BY <1>0, <3>1 DEF PersistDrain, Settled, MayLose, JournalDurability, TypeOK
    <3>2. CASE At(t, "remove") /\ unsynced'[t] = unsynced[t]
      BY <3>2 DEF SyncedOk
    <3> QED BY <1>0, <3>1, <3>2, RemovalStarts
  <2> QED BY <2>1, <2>2 DEF SyncedOk
<1> QED BY <1>1, <1>2

(* A step, a power cut included, keeps what the daemon acted on.           *)
Acknowledged(s) ==
    /\ \A n \in SeqNos : <<s, n>> \in active => n < journal'[s].next
    /\ At(s, "remove") => journal[s].drain <= journal'[s].drain

LEMMA SyncedKeeps ==
    ASSUME TypeInv, TypeInv', [Next]_vars, NEW s \in Sessions, SyncedOk(s)
    PROVE  Acknowledged(s)
<1>0. TypeOK /\ TypeOK'
  BY DEF TypeInv
<1>1. /\ journal[s].next \in Nat /\ journal'[s].next \in Nat
      /\ journal[s].drain \in Nat /\ journal'[s].drain \in Nat
  BY <1>0 DEF TypeOK, Journals
<1>2. CASE PowerCut
  <2>1. journal'[s] = journal[s] \/ journal'[s] \in unsynced[s]
    BY <1>2 DEF PowerCut
  <2> QED BY <1>1, <2>1 DEF SyncedOk, Acknowledged
<1>3. CASE ~ PowerCut
  <2>1. journal[s].next <= journal'[s].next /\ journal[s].drain <= journal'[s].drain
    BY <1>0, <1>3, AdvanceStep DEF JournalAdvances
  <2>2. ASSUME NEW n \in SeqNos, <<s, n>> \in active PROVE n < journal'[s].next
    <3>1. n < journal[s].next /\ n \in Nat
      BY <2>2 DEF SyncedOk, SeqNos
    <3> QED BY <1>1, <2>1, <3>1
  <2> QED BY <2>1, <2>2 DEF Acknowledged
<1> QED BY <1>2, <1>3

(* A reservation whose request was let through, and a drain whose stage    *)
(* is being removed, outlive every crash, power cut and failing sync: the  *)
(* task is told of its place, and the stage removed, only after a sync     *)
(* that succeeded ("the journal must be at least as durable as the         *)
(* pointer").  A version whose sync failed may go.                         *)
THEOREM AcknowledgedSurvives == Spec => AcknowledgedIsKept
<1>1. Init => SyncInv
  <2> SUFFICES ASSUME Init PROVE SyncInv
    OBVIOUS
  <2>1. \A s \in Sessions : SyncedOk(s)
    BY DEF Init, SyncedOk, At, Idle
  <2> QED BY <2>1, TypeInit DEF SyncInv
<1>2. SyncInv /\ [Next]_vars => SyncInv' /\ [\A s \in Sessions : Acknowledged(s)]_vars
  <2> SUFFICES ASSUME SyncInv, [Next]_vars
               PROVE  SyncInv' /\ \A s \in Sessions : Acknowledged(s)
    OBVIOUS
  <2>1. TypeInv /\ TypeInv'
    BY TypeStep, FlowStep DEF TypeInv, SyncInv
  <2> QED BY <2>1, SyncedStep, SyncedKeeps DEF SyncInv
<1> QED BY <1>1, <1>2, PTL DEF Spec, AcknowledgedIsKept, Acknowledged

-----------------------------------------------------------------------------
(* turns.jsonl and the journal agree.                                      *)

(* A step leaves everything that SessionOk(t) speaks of alone.             *)
Untouched(t) ==
    /\ journal'[t] = journal[t] /\ raw'[t] = raw[t] /\ torn'[t] = torn[t]
    /\ stage'[t] = stage[t] /\ op'[t] = op[t]
    /\ \A n \in SeqNos : <<t, n>> \in active' <=> <<t, n>> \in active

LEMMA UntouchedOk ==
    ASSUME TypeInv, TypeOK', NEW t \in Sessions, SessionOk(t), Untouched(t)
    PROVE  SessionOk(t)'
<1>0. op[t].seq \in SeqNos
  BY DEF TypeInv, TypeOK, Transactions
<1>1. TurnsMatch(t)'
  BY DEF SessionOk, TurnsMatch, Untouched
<1>2. TailIsStaged(t)'
  BY DEF SessionOk, TailIsStaged, Untouched, Open, NextEnvelope
<1>3. StagesAreReserved(t)'
  BY DEF SessionOk, StagesAreReserved, Untouched, Staged
<1>4. ActiveIsOpen(t)'
  BY DEF SessionOk, ActiveIsOpen, Untouched, Staged, At
<1>5. TransactionOk(t)'
  BY <1>0 DEF SessionOk, TransactionOk, Untouched, Staged, At
<1> QED
  BY <1>1, <1>2, <1>3, <1>4, <1>5 DEF SessionOk

(* The steps of one session leave the others alone.                        *)
LEMMA FinishOthers ==
    ASSUME TypeOK, NEW s \in Sessions, NEW t \in Sessions \ {s}, Finish(s)
    PROVE  op'[t] = op[t] /\ \A n \in SeqNos : <<t, n>> \in active' <=> <<t, n>> \in active
  BY DEF TypeOK, Finish

LEMMA FailOthers ==
    ASSUME TypeOK, NEW s \in Sessions, NEW t \in Sessions \ {s}, NEW cause, Fail(s, cause)
    PROVE  op'[t] = op[t] /\ \A n \in SeqNos : <<t, n>> \in active' <=> <<t, n>> \in active
  BY DEF TypeOK, Fail

LEMMA CaptureOthers ==
    ASSUME TypeOK, NEW s \in Sessions, NEW t \in Sessions \ {s}, Capture(s)
    PROVE  Untouched(t)
<1> USE DEF TypeOK, Untouched, log, staging, index, durable, process, bounds
<1>1. CASE CreateSession(s)
  BY <1>1 DEF CreateSession
<1>2. CASE ReserveBegin(s)
  BY <1>2 DEF ReserveBegin
<1>3. CASE ReserveMark(s)
  BY <1>3, GoToMoves DEF ReserveMark
<1>4. CASE ReservePersist(s)
  <2>1. journal'[t] = journal[t]
    BY <1>4, ReservedPointers DEF ReservePersist
  <2> QED BY <1>4, <2>1 DEF ReservePersist
<1>5. ASSUME NEW n \in SeqNos, Abandon(s, n) PROVE Untouched(t)
  BY <1>5 DEF Abandon
<1>6. ASSUME NEW n \in SeqNos, CommitBegin(s, n) PROVE Untouched(t)
  BY <1>6 DEF CommitBegin
<1> QED BY <1>1, <1>2, <1>3, <1>4, <1>5, <1>6 DEF Capture

LEMMA DrainOthers ==
    ASSUME TypeOK, NEW s \in Sessions, NEW t \in Sessions \ {s}, Drain(s)
    PROVE  Untouched(t)
<1> USE DEF Untouched, log, staging, index, durable, process, bounds
<1>0. /\ stage \in [Sessions -> [SeqNos -> Sources \union {"none"}]]
      /\ raw \in [Sessions -> Seq(Envelope)]
      /\ torn \in [Sessions -> Envelope \union {NoRecord}]
  BY DEF TypeOK
<1>1. CASE Publish(s)
  BY <1>0, <1>1, GoToMoves DEF Publish
<1>2. CASE DrainDone(s)
  BY <1>2, FinishOthers DEF DrainDone
<1>3. CASE DrainNext(s)
  BY <1>3, GoToMoves DEF DrainNext
<1>4. CASE DrainBlocked(s)
  BY <1>4, FinishOthers DEF DrainBlocked
<1>5. CASE AppendBegin(s)
  <2>1. op'[t] = op[t]
    BY <1>5, GoToMoves DEF AppendBegin
  <2>2. torn'[t] = torn[t]
    BY <1>0, <1>5 DEF AppendBegin
  <2> QED BY <1>5, <2>1, <2>2 DEF AppendBegin
<1>6. CASE AppendEnd(s)
  BY <1>0, <1>6, GoToMoves DEF AppendEnd
<1>7. CASE AppendConflict(s)
  BY <1>7, FailOthers DEF AppendConflict
<1>8. CASE PersistDrain(s)
  BY <1>8, GoToMoves, AdvancedPointers DEF PersistDrain
<1>9. CASE RemoveStage(s)
  BY <1>0, <1>9, GoToMoves DEF RemoveStage
<1> QED BY <1>1, <1>2, <1>3, <1>4, <1>5, <1>6, <1>7, <1>8, <1>9 DEF Drain

LEMMA RecoverOthers ==
    ASSUME TypeOK, NEW s \in Sessions, NEW t \in Sessions \ {s}, Recover(s)
    PROVE  Untouched(t)
<1> USE DEF Untouched, log, staging, index, durable, process, bounds
<1>0. /\ stage \in [Sessions -> [SeqNos -> Sources \union {"none"}]]
      /\ op \in [Sessions -> Transactions]
  BY DEF TypeOK
<1>1. CASE IndexSession(s)
  BY <1>1 DEF IndexSession
<1>2. CASE InspectAbsent(s)
  BY <1>2 DEF InspectAbsent
<1>3. CASE Inspect(s)
  BY <1>3 DEF Inspect
<1>4. CASE ApplyBegin(s)
  <2>1. stage'[t] = stage[t] /\ op'[t] = op[t]
    BY <1>0, <1>4 DEF ApplyBegin
  <2> QED BY <1>4, <2>1 DEF ApplyBegin
<1>5. CASE LeaveOpen(s)
  BY <1>5, FinishOthers DEF LeaveOpen
<1>6. CASE Synthesize(s)
  BY <1>0, <1>6 DEF Synthesize
<1> QED BY <1>1, <1>2, <1>3, <1>4, <1>5, <1>6 DEF Recover

LEMMA FaultOthers ==
    ASSUME TypeOK, NEW s \in Sessions, NEW t \in Sessions \ {s},
           WriteFails(s) \/ SyncFails(s)
    PROVE  Untouched(t)
<1> USE DEF Untouched, log, staging, index, durable, process, bounds
<1>1. CASE WriteFails(s)
  BY <1>1, FailOthers DEF WriteFails
<1>2. CASE SyncFails(s)
  <2>1. journal'[t] = journal[t]
    BY <1>2, ReservedPointers, AdvancedPointers DEF SyncFails
  <2> QED BY <1>2, <2>1, FailOthers DEF SyncFails
<1> QED BY <1>1, <1>2

-----------------------------------------------------------------------------
(* The steps of a session keep what SessionOk says of it.                  *)

(* What the types give of one session, for the steps below.                *)
LEMMA SessionTypes ==
    ASSUME TypeInv, NEW s \in Sessions
    PROVE  /\ MaxCaptures \in Nat
           /\ journal[s].next \in 0 .. MaxCaptures /\ journal[s].drain \in 0 .. MaxCaptures
           /\ raw[s] \in Seq(Envelope) /\ Len(raw[s]) \in Nat
           /\ stage[s] \in [SeqNos -> Sources \union {"none"}]
           /\ torn[s] \in Envelope \union {NoRecord}
           /\ op[s] \in Transactions /\ op[s].seq \in SeqNos
           /\ journal[s].drain <= journal[s].next
<1> USE CaptureAssumption
<1>1. TypeOK /\ FlowOk(s)
  BY DEF TypeInv
<1>2. raw[s] \in Seq(Envelope) /\ op[s] \in Transactions
  BY <1>1 DEF TypeOK
<1>3. Len(raw[s]) \in Nat /\ op[s].seq \in SeqNos
  BY <1>2 DEF Transactions
<1> QED BY <1>1, <1>2, <1>3, PointersType DEF TypeOK, FlowOk

(* A record beyond the drained turns, whole or torn, is staged.            *)
LEMMA TailStagedIsStaged ==
    ASSUME TypeInv, NEW s \in Sessions, SessionOk(s),
           Len(raw[s]) = journal[s].drain + 1 \/ torn[s] # NoRecord
    PROVE  /\ journal[s].drain \in SeqNos /\ Open(s)
           /\ Staged(s, journal[s].drain)
<1> USE CaptureAssumption, SessionTypes
<1>1. CASE Len(raw[s]) = journal[s].drain + 1
  <2>1. raw[s][Len(raw[s])] \in Envelope
    BY <1>1, SessionTypes
  <2>2. stage[s][journal[s].drain] \in Sources
    BY <1>1, <2>1 DEF SessionOk, TailIsStaged, Envelope
  <2>3. Open(s) /\ journal[s].drain \in SeqNos
    BY <1>1, SessionTypes DEF SessionOk, TurnsMatch, Open, SeqNos
  <2> QED BY <2>2, <2>3 DEF Staged, Sources
<1>2. CASE torn[s] # NoRecord
  <2>1. torn[s] \in Envelope /\ Open(s) /\ torn[s] = NextEnvelope(s)
    BY <1>2, SessionTypes DEF SessionOk, TailIsStaged
  <2>2. stage[s][journal[s].drain] \in Sources
    BY <2>1 DEF NextEnvelope, Envelope
  <2>3. journal[s].drain \in SeqNos
    BY <2>1, SessionTypes DEF Open, SeqNos
  <2> QED BY <2>1, <2>2, <2>3 DEF Staged, Sources
<1> QED BY <1>1, <1>2

LEMMA CaptureOwn ==
    ASSUME TypeInv, TypeOK', SweepOk, NEW s \in Sessions, SessionOk(s), Capture(s)
    PROVE  SessionOk(s)'
<1> USE CaptureAssumption
<1> USE DEF log, staging, index, durable, process, bounds
<1>0. TypeOK
  BY DEF TypeInv
<1>t. /\ op \in [Sessions -> Transactions]
      /\ journal \in [Sessions -> [exists : BOOLEAN, next : 0 .. MaxCaptures,
                                   drain : 0 .. MaxCaptures]]
  BY <1>0 DEF TypeOK, Journals
<1>1. CASE CreateSession(s)
  BY <1>1, UntouchedOk DEF CreateSession, Untouched
<1>2. CASE ReserveBegin(s)
  <2>0. op[s].by = "none" /\ op'[s].pc = "mark" /\ op'[s].by = "reserve"
    BY <1>t, <1>2 DEF ReserveBegin, Idle
  <2>1. TurnsMatch(s)' /\ TailIsStaged(s)' /\ StagesAreReserved(s)'
    BY <1>2 DEF ReserveBegin, SessionOk, TurnsMatch, TailIsStaged, StagesAreReserved, Open,
                NextEnvelope, Staged
  <2>2. ActiveIsOpen(s)'
    BY <1>2, <2>0 DEF ReserveBegin, SessionOk, ActiveIsOpen, Staged, At
  <2>3. TransactionOk(s)'
    BY <2>0 DEF TransactionOk, At
  <2> QED BY <2>1, <2>2, <2>3 DEF SessionOk
<1>3. CASE ReserveMark(s)
  <2>0. op[s].by = "reserve" /\ op'[s].pc = "reserve" /\ op'[s].by = "reserve"
    BY <1>0, <1>3, GoToMoves DEF ReserveMark, SessionOk, TransactionOk, At, Idle
  <2>1. TurnsMatch(s)' /\ TailIsStaged(s)' /\ StagesAreReserved(s)'
    BY <1>3 DEF ReserveMark, SessionOk, TurnsMatch, TailIsStaged, StagesAreReserved, Open,
                NextEnvelope, Staged
  <2>2. ActiveIsOpen(s)'
    BY <1>3, <2>0 DEF ReserveMark, SessionOk, ActiveIsOpen, Staged, At
  <2>3. TransactionOk(s)'
    BY <2>0 DEF TransactionOk, At
  <2> QED BY <2>1, <2>2, <2>3 DEF SessionOk
<1>4. CASE ReservePersist(s)
  <2>0. op[s].by = "reserve" /\ op'[s] = Idle
    BY <1>t, <1>4 DEF ReservePersist, SessionOk, TransactionOk, At, Idle
  <2>1. /\ journal'[s].next = journal[s].next + 1 /\ journal'[s].drain = journal[s].drain
        /\ journal[s].next \in SeqNos
    BY <1>0, <1>4, ReservedPointers, SessionTypes DEF ReservePersist, TypeInv, FlowOk, At, SeqNos
  <2>2. TurnsMatch(s)' /\ TailIsStaged(s)' /\ StagesAreReserved(s)'
    <3>1. TurnsMatch(s)'
      BY <1>4, <2>1, SessionTypes DEF ReservePersist, SessionOk, TurnsMatch
    <3>2. TailIsStaged(s)'
      BY <1>4, <2>1, SessionTypes DEF ReservePersist, SessionOk, TailIsStaged, Open, NextEnvelope
    <3>3. StagesAreReserved(s)'
      BY <1>4, <2>1, SessionTypes DEF ReservePersist, SessionOk, StagesAreReserved, Staged, SeqNos
    <3> QED BY <3>1, <3>2, <3>3
  <2>3. ActiveIsOpen(s)'
    <3> SUFFICES ASSUME NEW n \in SeqNos, <<s, n>> \in active'
                 PROVE  /\ journal'[s].drain <= n /\ n < journal'[s].next
                        /\ stage'[s][n] = "none"
      BY DEF ActiveIsOpen, Staged
    <3>1. CASE n = journal[s].next
      BY <1>4, <2>1, <3>1, SessionTypes DEF ReservePersist, SessionOk, StagesAreReserved, Staged
    <3>2. CASE n # journal[s].next
      <4>1. <<s, n>> \in active
        BY <1>4, <3>2 DEF ReservePersist
      <4>2. journal[s].drain <= n /\ n < journal[s].next /\ ~ Staged(s, n)
        BY <2>0, <4>1 DEF SessionOk, ActiveIsOpen
      <4> QED BY <1>4, <2>1, <4>2, SessionTypes DEF ReservePersist, Staged, SeqNos
    <3> QED BY <3>1, <3>2
  <2>4. TransactionOk(s)'
    BY <2>0 DEF TransactionOk, At, Idle
  <2> QED BY <2>2, <2>3, <2>4 DEF SessionOk
<1>5. ASSUME NEW n \in SeqNos, Abandon(s, n) PROVE SessionOk(s)'
  <2>0. op' = op /\ journal' = journal /\ stage' = stage /\ raw' = raw /\ torn' = torn
    BY <1>5 DEF Abandon
  <2>1. TurnsMatch(s)' /\ TailIsStaged(s)' /\ StagesAreReserved(s)'
    BY <2>0 DEF SessionOk, TurnsMatch, TailIsStaged, StagesAreReserved, Open,
                NextEnvelope, Staged
  <2>2. ActiveIsOpen(s)'
    BY <1>5, <2>0 DEF Abandon, SessionOk, ActiveIsOpen, Staged, At
  <2>3. TransactionOk(s)'
    <3>1. At(s, "publish") => (<<s, op[s].seq>> \in active' <=> op[s].by = "commit")
      BY <1>5 DEF Abandon, SessionOk, TransactionOk
    <3> QED BY <2>0, <3>1 DEF SessionOk, TransactionOk, At, Staged
  <2> QED BY <2>1, <2>2, <2>3 DEF SessionOk
<1>6. ASSUME NEW n \in SeqNos, CommitBegin(s, n) PROVE SessionOk(s)'
  <2>0. /\ journal' = journal /\ stage' = stage /\ raw' = raw /\ torn' = torn
        /\ active' = active
        /\ op'[s].pc = "publish" /\ op'[s].by = "commit" /\ op'[s].seq = n
        /\ op[s].by = "none" /\ <<s, n>> \in active
    BY <1>t, <1>6 DEF CommitBegin, Idle
  <2>1. TurnsMatch(s)' /\ TailIsStaged(s)' /\ StagesAreReserved(s)'
    BY <2>0 DEF SessionOk, TurnsMatch, TailIsStaged, StagesAreReserved, Open,
                NextEnvelope, Staged
  <2>2. ActiveIsOpen(s)'
    BY <2>0 DEF SessionOk, ActiveIsOpen, Staged, At
  <2>3. journal[s].drain <= n /\ n < journal[s].next /\ ~ Staged(s, n)
    BY <2>0 DEF SessionOk, ActiveIsOpen
  <2>4. TransactionOk(s)'
    BY <2>0, <2>3 DEF TransactionOk, At, Staged
  <2> QED BY <2>1, <2>2, <2>4 DEF SessionOk
<1> QED BY <1>1, <1>2, <1>3, <1>4, <1>5, <1>6 DEF Capture

(* What the end of a transaction does to the captures of its session.      *)
LEMMA FinishOwn ==
    ASSUME TypeInv, NEW s \in Sessions, SessionOk(s), Finish(s), op[s].pc # "publish",
           journal'[s] = journal[s], stage'[s] = stage[s]
    PROVE  op'[s] = Idle /\ ActiveIsOpen(s)' /\ TransactionOk(s)'
<1>1. op \in [Sessions -> Transactions]
  BY DEF TypeInv, TypeOK
<1>2. op'[s] = Idle
  BY <1>1 DEF Finish
<1>3. ActiveIsOpen(s)'
  <2> SUFFICES ASSUME NEW n \in SeqNos, <<s, n>> \in active'
               PROVE  /\ journal'[s].drain <= n /\ n < journal'[s].next
                      /\ stage'[s][n] = "none"
    BY DEF ActiveIsOpen, Staged
  <2>1. <<s, n>> \in active /\ ~ (op[s].by = "commit" /\ op[s].seq = n)
    BY DEF Finish
  <2> QED BY <2>1 DEF SessionOk, ActiveIsOpen, Staged
<1>4. TransactionOk(s)'
  BY <1>2 DEF TransactionOk, At, Idle
<1> QED BY <1>2, <1>3, <1>4

LEMMA FailOwn ==
    ASSUME TypeInv, NEW s \in Sessions, SessionOk(s), NEW cause, Fail(s, cause)
    PROVE  /\ op'[s] = Idle /\ TransactionOk(s)'
           /\ \A n \in SeqNos : <<s, n>> \in active' =>
                 /\ journal[s].drain <= n /\ n < journal[s].next /\ ~ Staged(s, n)
<1>1. op \in [Sessions -> Transactions]
  BY DEF TypeInv, TypeOK
<1>2. op'[s] = Idle
  BY <1>1 DEF Fail
<1>3. TransactionOk(s)'
  BY <1>2 DEF TransactionOk, At, Idle
<1>4. ASSUME NEW n \in SeqNos, <<s, n>> \in active'
      PROVE  /\ journal[s].drain <= n /\ n < journal[s].next /\ ~ Staged(s, n)
  <2>1. <<s, n>> \in active /\ ~ (op[s].by = "commit" /\ op[s].seq = n)
    BY <1>4 DEF Fail
  <2> QED BY <2>1 DEF SessionOk, ActiveIsOpen
<1> QED BY <1>2, <1>3, <1>4

(* The steps of a commit or a recovery that leave the captures alone.      *)
LEMMA StepOwn ==
    ASSUME TypeInv, NEW s \in Sessions, SessionOk(s), active' = active,
           op'[s].by = op[s].by, op'[s].seq = op[s].seq,
           op'[s].pc \in {"drain", "append", "appending", "persist", "remove"},
           op[s].pc \in {"drain", "append", "appending", "persist", "remove"},
           \A n \in SeqNos : stage'[s][n] = stage[s][n] \/ stage'[s][n] = "none",
           journal'[s].next = journal[s].next,
           \/ journal'[s].drain = journal[s].drain
           \/ journal'[s].drain = journal[s].drain + 1 /\ Staged(s, journal[s].drain)
    PROVE  ActiveIsOpen(s)' /\ StagesAreReserved(s)'
<1>1. ActiveIsOpen(s)'
  <2> SUFFICES ASSUME NEW n \in SeqNos, <<s, n>> \in active,
                      ~ (op[s].by = "commit" /\ op[s].seq = n)
               PROVE  /\ journal'[s].drain <= n /\ n < journal'[s].next
                      /\ stage'[s][n] = "none"
    BY DEF ActiveIsOpen, Staged, At
  <2>1. journal[s].drain <= n /\ n < journal[s].next /\ ~ Staged(s, n)
    BY DEF SessionOk, ActiveIsOpen
  <2>2. journal'[s].drain <= n
    BY <2>1, SessionTypes DEF SeqNos
  <2> QED BY <2>1, <2>2 DEF Staged
<1>2. StagesAreReserved(s)'
  BY DEF SessionOk, StagesAreReserved, Staged
<1> QED BY <1>1, <1>2

LEMMA DrainOwn ==
    ASSUME TypeInv, TypeOK', NEW s \in Sessions, SessionOk(s), Drain(s)
    PROVE  SessionOk(s)'
<1> USE CaptureAssumption
<1> USE DEF log, staging, index, durable, process, bounds
<1>0. TypeOK /\ FlowOk(s)
  BY DEF TypeInv
<1>t. /\ op \in [Sessions -> Transactions]
      /\ stage \in [Sessions -> [SeqNos -> Sources \union {"none"}]]
      /\ raw \in [Sessions -> Seq(Envelope)]
      /\ torn \in [Sessions -> Envelope \union {NoRecord}]
  BY <1>0 DEF TypeOK
<1>b. op[s].pc \notin {"idle", "mark", "reserve"} => op[s].by \in {"commit", "recovery"}
  BY DEF SessionOk, TransactionOk, Idle
<1>1. CASE Publish(s)
  <2> DEFINE k == op[s].seq
  <2>0. /\ journal' = journal /\ raw' = raw /\ torn' = torn /\ active' = active
        /\ op'[s].pc = "drain" /\ op'[s].by = op[s].by /\ op'[s].seq = k
        /\ op[s].pc = "publish" /\ op[s].by \in {"commit", "recovery"}
    BY <1>0, <1>1, <1>b, GoToMoves DEF Publish, At
  <2>1. /\ journal[s].drain <= k /\ k < journal[s].next /\ ~ Staged(s, k) /\ k \in SeqNos
        /\ (<<s, k>> \in active) <=> op[s].by = "commit"
    BY <2>0, SessionTypes DEF SessionOk, TransactionOk, At
  <2>2. \A n \in SeqNos \ {k} : stage'[s][n] = stage[s][n]
    BY <1>t, <1>1 DEF Publish
  <2>3. TurnsMatch(s)'
    BY <2>0 DEF SessionOk, TurnsMatch
  <2>4. TailIsStaged(s)'
    <3>1. CASE Len(raw[s]) = journal[s].drain + 1 \/ torn[s] # NoRecord
      <4>1. journal[s].drain \in SeqNos /\ journal[s].drain # k
        BY <2>1, <3>1, TailStagedIsStaged
      <4> HIDE DEF k
      <4> QED BY <2>0, <2>2, <4>1 DEF SessionOk, TailIsStaged, Open, NextEnvelope
    <3>2. CASE ~ (Len(raw[s]) = journal[s].drain + 1 \/ torn[s] # NoRecord)
      BY <2>0, <3>2 DEF TailIsStaged
    <3> QED BY <3>1, <3>2
  <2> HIDE DEF k
  <2>5. StagesAreReserved(s)'
    BY <2>0, <2>1, <2>2 DEF SessionOk, StagesAreReserved, Staged
  <2>6. ActiveIsOpen(s)'
    <3> SUFFICES ASSUME NEW n \in SeqNos, <<s, n>> \in active, ~ (op[s].by = "commit" /\ k = n)
                 PROVE  /\ journal[s].drain <= n /\ n < journal[s].next
                        /\ stage'[s][n] = "none"
      BY <2>0 DEF ActiveIsOpen, Staged, At
    <3>1. n # k
      BY <2>1
    <3>2. journal[s].drain <= n /\ n < journal[s].next /\ ~ Staged(s, n)
      BY <3>1 DEF SessionOk, ActiveIsOpen, k
    <3> QED BY <2>2, <3>1, <3>2 DEF Staged
  <2>7. TransactionOk(s)'
    BY <2>0 DEF TransactionOk, At
  <2> QED BY <2>3, <2>4, <2>5, <2>6, <2>7 DEF SessionOk
<1>2. CASE DrainDone(s)
  <2>0. journal' = journal /\ raw' = raw /\ torn' = torn /\ stage' = stage
    BY <1>2 DEF DrainDone
  <2>1. ActiveIsOpen(s)' /\ TransactionOk(s)'
    BY <1>2, <2>0, FinishOwn DEF DrainDone, At
  <2>2. TurnsMatch(s)' /\ TailIsStaged(s)' /\ StagesAreReserved(s)'
    BY <2>0 DEF SessionOk, TurnsMatch, TailIsStaged, StagesAreReserved, Open,
                NextEnvelope, Staged
  <2> QED BY <2>1, <2>2 DEF SessionOk
<1>3. CASE DrainNext(s)
  <2>0. /\ journal' = journal /\ raw' = raw /\ torn' = torn /\ stage' = stage /\ active' = active
        /\ op'[s].pc = "append" /\ op'[s].by = op[s].by /\ op'[s].seq = op[s].seq
        /\ op[s].pc = "drain"
    BY <1>0, <1>3, GoToMoves DEF DrainNext, At
  <2>1. ActiveIsOpen(s)' /\ StagesAreReserved(s)'
    BY <2>0, StepOwn
  <2>2. TurnsMatch(s)' /\ TailIsStaged(s)'
    BY <2>0 DEF SessionOk, TurnsMatch, TailIsStaged, Open, NextEnvelope
  <2>3. TransactionOk(s)'
    BY <1>b, <2>0 DEF TransactionOk, At
  <2> QED BY <2>1, <2>2, <2>3 DEF SessionOk
<1>4. CASE DrainBlocked(s)
  <2>0. journal' = journal /\ raw' = raw /\ torn' = torn /\ stage' = stage
    BY <1>4 DEF DrainBlocked
  <2>1. ActiveIsOpen(s)' /\ TransactionOk(s)'
    BY <1>4, <2>0, FinishOwn DEF DrainBlocked, At
  <2>2. TurnsMatch(s)' /\ TailIsStaged(s)' /\ StagesAreReserved(s)'
    BY <2>0 DEF SessionOk, TurnsMatch, TailIsStaged, StagesAreReserved, Open,
                NextEnvelope, Staged
  <2> QED BY <2>1, <2>2 DEF SessionOk
<1>5. CASE AppendBegin(s)
  <2>0. /\ journal' = journal /\ raw' = raw /\ stage' = stage /\ active' = active
        /\ op'[s].pc \in {"persist", "appending"}
        /\ op'[s].by = op[s].by /\ op'[s].seq = op[s].seq
        /\ op[s].pc = "append"
    BY <1>0, <1>5, GoToMoves DEF AppendBegin, At
  <2>1. ActiveIsOpen(s)' /\ StagesAreReserved(s)'
    BY <2>0, StepOwn
  <2>2. TurnsMatch(s)'
    BY <2>0 DEF SessionOk, TurnsMatch
  <2>3. Open(s) /\ journal[s].drain \in SeqNos /\ Staged(s, journal[s].drain)
    BY <1>0, <2>0, SessionTypes DEF FlowOk, At, Open, SeqNos
  <2>4. CASE AlreadyAppended(s) /\ GoTo(s, "persist") /\ torn' = torn
    <3>1. op'[s].pc = "persist"
      BY <1>0, <2>4, GoToMoves
    <3>2. Len(raw[s]) = journal[s].drain + 1
      <4>1. raw[s] # <<>> /\ raw[s][Len(raw[s])].seq = journal[s].drain
        BY <2>4 DEF AlreadyAppended, TailIs, NextEnvelope
      <4>2. Len(raw[s]) \in 1 .. Len(raw[s])
        BY <4>1, SessionTypes, EmptySeq
      <4> QED BY <4>1, <4>2, SessionTypes DEF SessionOk, TurnsMatch
    <3>3. TailIsStaged(s)'
      BY <2>0, <2>4 DEF SessionOk, TailIsStaged, Open, NextEnvelope
    <3>4. TransactionOk(s)'
      BY <1>b, <2>0, <3>1, <3>2 DEF TransactionOk, At
    <3> QED BY <2>1, <2>2, <3>3, <3>4 DEF SessionOk
  <2>5. CASE ~ AlreadyAppended(s) /\ GoTo(s, "appending")
             /\ torn' = [torn EXCEPT ![s] = NextEnvelope(s)]
    <3>1. op'[s].pc = "appending"
      BY <1>0, <2>5, GoToMoves
    <3>2. Len(raw[s]) # journal[s].drain + 1
      <4> SUFFICES ASSUME Len(raw[s]) = journal[s].drain + 1 PROVE FALSE
        OBVIOUS
      <4>1. /\ torn[s] = NoRecord /\ raw[s][Len(raw[s])] \in Envelope
            /\ raw[s][Len(raw[s])].seq = journal[s].drain
            /\ raw[s][Len(raw[s])].by = stage[s][journal[s].drain]
        BY SessionTypes, SMTT(60) DEF SessionOk, TailIsStaged, TurnsMatch
      <4>2. raw[s][Len(raw[s])] = NextEnvelope(s)
        BY <4>1 DEF NextEnvelope, Envelope
      <4> QED BY <2>5, <4>1, <4>2, SessionTypes DEF AlreadyAppended, TailIs
    <3>3. TailIsStaged(s)'
      BY <1>t, <2>0, <2>3, <2>5, <3>2 DEF TailIsStaged, Open, NextEnvelope
    <3>4. TransactionOk(s)'
      BY <1>b, <2>0, <3>1 DEF TransactionOk, At
    <3> QED BY <2>1, <2>2, <3>3, <3>4 DEF SessionOk
  <2> QED BY <1>5, <2>4, <2>5 DEF AppendBegin
<1>6. CASE AppendEnd(s)
  <2>0. /\ journal' = journal /\ stage' = stage /\ active' = active
        /\ op'[s].pc = "persist" /\ op'[s].by = op[s].by /\ op'[s].seq = op[s].seq
        /\ op[s].pc = "appending"
        /\ raw'[s] = Append(raw[s], torn[s]) /\ torn'[s] = NoRecord
    BY <1>0, <1>t, <1>6, GoToMoves DEF AppendEnd, At
  <2>1. ActiveIsOpen(s)' /\ StagesAreReserved(s)'
    BY <2>0, StepOwn
  <2>2. torn[s] # NoRecord /\ torn[s] = NextEnvelope(s) /\ Open(s) /\ torn[s] \in Envelope
    BY <1>0, <2>0, SessionTypes DEF FlowOk, At, SessionOk, TailIsStaged
  <2>3. Len(raw[s]) = journal[s].drain
    BY <2>2 DEF SessionOk, TailIsStaged, TurnsMatch
  <2>4. /\ Len(raw'[s]) = journal[s].drain + 1
        /\ raw'[s][journal[s].drain + 1] = torn[s]
        /\ \A i \in 1 .. Len(raw[s]) : raw'[s][i] = raw[s][i]
    BY <2>0, <2>2, <2>3, SessionTypes, AppendProperties
  <2>5. TurnsMatch(s)'
    <3>1. \A i \in 1 .. Len(raw'[s]) : raw'[s][i].seq = i - 1
      <4> SUFFICES ASSUME NEW i \in 1 .. Len(raw'[s]) PROVE raw'[s][i].seq = i - 1
        OBVIOUS
      <4>1. CASE i = journal[s].drain + 1
        BY <2>2, <2>4, <4>1, SessionTypes DEF NextEnvelope
      <4>2. CASE i # journal[s].drain + 1
        <5>1. i \in 1 .. Len(raw[s])
          BY <2>3, <2>4, <4>2, SessionTypes
        <5> QED BY <2>4, <5>1 DEF SessionOk, TurnsMatch
      <4> QED BY <4>1, <4>2
    <3>2. Len(raw'[s]) = journal'[s].drain + 1 /\ Len(raw'[s]) <= journal'[s].next
      BY <2>0, <2>2, <2>4, SessionTypes DEF Open
    <3> QED BY <3>1, <3>2 DEF TurnsMatch
  <2>6. TailIsStaged(s)'
    BY <2>0, <2>2, <2>4 DEF TailIsStaged, NextEnvelope
  <2>7. TransactionOk(s)'
    BY <1>b, <2>0, <2>4 DEF TransactionOk, At
  <2> QED BY <2>1, <2>5, <2>6, <2>7 DEF SessionOk
<1>7. CASE AppendConflict(s)
  <2>0. journal' = journal /\ raw' = raw /\ torn' = torn /\ stage' = stage
    BY <1>7 DEF AppendConflict
  <2>1. TransactionOk(s)' /\ ActiveIsOpen(s)'
    BY <1>7, <2>0, FailOwn DEF AppendConflict, ActiveIsOpen, Staged
  <2>2. TurnsMatch(s)' /\ TailIsStaged(s)' /\ StagesAreReserved(s)'
    BY <2>0 DEF SessionOk, TurnsMatch, TailIsStaged, StagesAreReserved, Open,
                NextEnvelope, Staged
  <2> QED BY <2>1, <2>2 DEF SessionOk
<1>8. CASE PersistDrain(s)
  <2>0. /\ raw' = raw /\ torn' = torn /\ stage' = stage /\ active' = active
        /\ op'[s].pc = "remove" /\ op'[s].by = op[s].by /\ op'[s].seq = op[s].seq
        /\ op[s].pc = "persist"
        /\ journal'[s].next = journal[s].next /\ journal'[s].drain = journal[s].drain + 1
    BY <1>0, <1>8, GoToMoves, AdvancedPointers DEF PersistDrain, At
  <2>1. Len(raw[s]) = journal[s].drain + 1
    BY <2>0 DEF SessionOk, TransactionOk, At
  <2>2. Staged(s, journal[s].drain) /\ torn[s] = NoRecord
    BY <2>1, TailStagedIsStaged DEF SessionOk, TailIsStaged
  <2>3. ActiveIsOpen(s)' /\ StagesAreReserved(s)'
    BY <2>0, <2>2, StepOwn
  <2>4. TurnsMatch(s)'
    BY <2>0, <2>1, SessionTypes DEF SessionOk, TurnsMatch
  <2>5. TailIsStaged(s)'
    BY <2>0, <2>1, <2>2, SessionTypes DEF TailIsStaged
  <2>6. TransactionOk(s)'
    BY <1>b, <2>0, SessionTypes DEF TransactionOk, At
  <2> QED BY <2>3, <2>4, <2>5, <2>6 DEF SessionOk
<1>9. CASE RemoveStage(s)
  <2>0. /\ journal' = journal /\ raw' = raw /\ torn' = torn /\ active' = active
        /\ op'[s].pc = "drain" /\ op'[s].by = op[s].by /\ op'[s].seq = op[s].seq
        /\ op[s].pc = "remove"
    BY <1>0, <1>9, GoToMoves DEF RemoveStage, At
  <2>1. \A n \in SeqNos : stage'[s][n] = IF n = journal[s].drain - 1 THEN "none" ELSE stage[s][n]
    BY <1>t, <1>9 DEF RemoveStage
  <2>2. ActiveIsOpen(s)' /\ StagesAreReserved(s)'
    BY <2>0, <2>1, StepOwn
  <2>3. TurnsMatch(s)'
    BY <2>0 DEF SessionOk, TurnsMatch
  <2>4. TailIsStaged(s)'
    <3>1. CASE Len(raw[s]) = journal[s].drain + 1 \/ torn[s] # NoRecord
      <4>1. journal[s].drain \in SeqNos /\ journal[s].drain # journal[s].drain - 1
        BY <3>1, TailStagedIsStaged, SessionTypes
      <4>2. stage'[s][journal[s].drain] = stage[s][journal[s].drain]
        BY <2>1, <4>1
      <4> QED BY <2>0, <4>2 DEF SessionOk, TailIsStaged, Open, NextEnvelope
    <3>2. CASE ~ (Len(raw[s]) = journal[s].drain + 1 \/ torn[s] # NoRecord)
      BY <2>0, <3>2 DEF TailIsStaged
    <3> QED BY <3>1, <3>2
  <2>5. TransactionOk(s)'
    BY <1>b, <2>0 DEF TransactionOk, At
  <2> QED BY <2>2, <2>3, <2>4, <2>5 DEF SessionOk
<1> QED BY <1>1, <1>2, <1>3, <1>4, <1>5, <1>6, <1>7, <1>8, <1>9 DEF Drain

LEMMA RecoverOwn ==
    ASSUME TypeInv, TypeOK', SweepOk, NEW s \in Sessions, SessionOk(s), Recover(s)
    PROVE  SessionOk(s)'
<1> USE CaptureAssumption
<1> USE DEF log, staging, index, durable, process, bounds
<1>0. TypeOK
  BY DEF TypeInv
<1>t. /\ op \in [Sessions -> Transactions]
      /\ stage \in [Sessions -> [SeqNos -> Sources \union {"none"}]]
  BY <1>0 DEF TypeOK
<1>1. CASE IndexSession(s)
  BY <1>1, UntouchedOk DEF IndexSession, Untouched
<1>2. CASE InspectAbsent(s)
  BY <1>2, UntouchedOk DEF InspectAbsent, Untouched
<1>3. CASE Inspect(s)
  BY <1>3, UntouchedOk DEF Inspect, Untouched
<1>4. CASE ApplyBegin(s)
  <2>1. CASE RetiredOk(s)
    <3>0. /\ journal' = journal /\ raw' = raw /\ torn' = torn /\ active' = active
          /\ op'[s].pc = "drain" /\ op'[s].by = "recovery" /\ op[s] = Idle
      BY <1>t, <1>4, <2>1 DEF ApplyBegin
    <3>1. \A n \in SeqNos : stage'[s][n] = IF n \in Retired(s) THEN "none" ELSE stage[s][n]
      BY <1>t, <1>4, <2>1 DEF ApplyBegin
    <3>2. ActiveIsOpen(s)'
      <4> SUFFICES ASSUME NEW n \in SeqNos, <<s, n>> \in active
                   PROVE  /\ journal[s].drain <= n /\ n < journal[s].next
                          /\ stage'[s][n] = "none"
        BY <3>0 DEF ActiveIsOpen, Staged
      <4>1. journal[s].drain <= n /\ n < journal[s].next /\ ~ Staged(s, n)
        BY <3>0 DEF SessionOk, ActiveIsOpen, Idle
      <4> QED BY <3>1, <4>1 DEF Staged
    <3>3. StagesAreReserved(s)'
      BY <3>0, <3>1 DEF SessionOk, StagesAreReserved, Staged
    <3>4. TurnsMatch(s)'
      BY <3>0 DEF SessionOk, TurnsMatch
    <3>5. TailIsStaged(s)'
      <4>1. CASE Len(raw[s]) = journal[s].drain + 1 \/ torn[s] # NoRecord
        <5>1. journal[s].drain \in SeqNos
          BY <4>1, TailStagedIsStaged
        <5>2. stage'[s][journal[s].drain] = stage[s][journal[s].drain]
          BY <3>1, <5>1, SessionTypes DEF Retired
        <5> QED BY <3>0, <5>2 DEF SessionOk, TailIsStaged, Open, NextEnvelope
      <4>2. CASE ~ (Len(raw[s]) = journal[s].drain + 1 \/ torn[s] # NoRecord)
        BY <3>0, <4>2 DEF TailIsStaged
      <4> QED BY <4>1, <4>2
    <3>6. TransactionOk(s)'
      BY <3>0 DEF TransactionOk, At
    <3> QED BY <3>2, <3>3, <3>4, <3>5, <3>6 DEF SessionOk
  <2>2. CASE ~ RetiredOk(s)
    BY <1>4, <2>2, UntouchedOk DEF ApplyBegin, Untouched
  <2> QED BY <2>1, <2>2
<1>5. CASE LeaveOpen(s)
  <2>0. journal' = journal /\ raw' = raw /\ torn' = torn /\ stage' = stage
    BY <1>5 DEF LeaveOpen
  <2>1. ActiveIsOpen(s)' /\ TransactionOk(s)'
    BY <1>5, <2>0, FinishOwn DEF LeaveOpen, HeadMissing, HeadOpen, At
  <2>2. TurnsMatch(s)' /\ TailIsStaged(s)' /\ StagesAreReserved(s)'
    BY <2>0 DEF SessionOk, TurnsMatch, TailIsStaged, StagesAreReserved, Open,
                NextEnvelope, Staged
  <2> QED BY <2>1, <2>2 DEF SessionOk
<1>6. CASE Synthesize(s)
  <2>1. journal[s].drain \in SeqNos /\ journal[s].drain < journal[s].next
    BY <1>6, SessionTypes DEF Synthesize, HeadMissing, HeadOpen, Open, SeqNos
  <2>0. /\ journal' = journal /\ raw' = raw /\ torn' = torn /\ active' = active
        /\ stage' = stage
        /\ op'[s].pc = "publish" /\ op'[s].by = "recovery" /\ op'[s].seq = journal[s].drain
        /\ op[s].by = "recovery" /\ ~ Staged(s, journal[s].drain)
    BY <1>t, <1>6 DEF Synthesize, HeadMissing, HeadOpen
  <2>2. <<s, journal[s].drain>> \notin active
    <3>1. CASE sweep.live
      BY <1>6, <3>1 DEF Synthesize, TaskAlive
    <3>2. CASE ~ sweep.live
      BY <2>0, <3>2 DEF SweepOk, StartIsAlone, PassHasDaemon, OneRecovery
    <3> QED BY <3>1, <3>2
  <2>3. TurnsMatch(s)' /\ TailIsStaged(s)' /\ StagesAreReserved(s)'
    BY <2>0 DEF SessionOk, TurnsMatch, TailIsStaged, StagesAreReserved, Open,
                NextEnvelope, Staged
  <2>4. ActiveIsOpen(s)'
    BY <2>0 DEF SessionOk, ActiveIsOpen, Staged, At
  <2>5. TransactionOk(s)'
    BY <2>0, <2>1, <2>2, SessionTypes DEF TransactionOk, At, Staged
  <2> QED BY <2>3, <2>4, <2>5 DEF SessionOk
<1> QED BY <1>1, <1>2, <1>3, <1>4, <1>5, <1>6 DEF Recover

LEMMA FaultOwn ==
    ASSUME TypeInv, TypeOK', NEW s \in Sessions, SessionOk(s), WriteFails(s) \/ SyncFails(s)
    PROVE  SessionOk(s)'
<1> USE CaptureAssumption
<1> USE DEF log, staging, index, durable, process, bounds
<1>0. TypeOK
  BY DEF TypeInv
<1>1. CASE WriteFails(s)
  <2>0. journal' = journal /\ raw' = raw /\ torn' = torn /\ stage' = stage
    BY <1>1 DEF WriteFails
  <2>1. TransactionOk(s)' /\ ActiveIsOpen(s)'
    BY <1>1, <2>0, FailOwn DEF WriteFails, ActiveIsOpen, Staged
  <2>2. TurnsMatch(s)' /\ TailIsStaged(s)' /\ StagesAreReserved(s)'
    BY <2>0 DEF SessionOk, TurnsMatch, TailIsStaged, StagesAreReserved, Open,
                NextEnvelope, Staged
  <2> QED BY <2>1, <2>2 DEF SessionOk
<1>2. CASE SyncFails(s)
  <2>0. raw' = raw /\ torn' = torn /\ stage' = stage
    BY <1>2 DEF SyncFails
  <2>1. /\ TransactionOk(s)'
        /\ \A n \in SeqNos : <<s, n>> \in active' =>
              journal[s].drain <= n /\ n < journal[s].next /\ ~ Staged(s, n)
    BY <1>2, FailOwn DEF SyncFails
  <2>2. CASE At(s, "reserve") /\ journal' = Reserved(s)
    <3>0. /\ journal'[s].next = journal[s].next + 1 /\ journal'[s].drain = journal[s].drain
      BY <1>0, <2>2, ReservedPointers
    <3>1. TurnsMatch(s)'
      BY <2>0, <3>0, SessionTypes DEF SessionOk, TurnsMatch
    <3>2. TailIsStaged(s)'
      BY <2>0, <3>0, SessionTypes DEF SessionOk, TailIsStaged, Open, NextEnvelope
    <3>3. StagesAreReserved(s)'
      BY <2>0, <3>0, SessionTypes, SMTT(60) DEF SessionOk, StagesAreReserved, Staged, SeqNos
    <3>4. ActiveIsOpen(s)'
      BY <2>0, <2>1, <3>0, SessionTypes DEF ActiveIsOpen, Staged, SeqNos
    <3> QED BY <2>1, <3>1, <3>2, <3>3, <3>4 DEF SessionOk
  <2>3. CASE At(s, "persist") /\ journal' = Advanced(s)
    <3>0. /\ journal'[s].next = journal[s].next /\ journal'[s].drain = journal[s].drain + 1
      BY <1>0, <2>3, AdvancedPointers
    <3>1. Len(raw[s]) = journal[s].drain + 1
      BY <2>3 DEF SessionOk, TransactionOk
    <3>2. Staged(s, journal[s].drain) /\ torn[s] = NoRecord
      BY <3>1, TailStagedIsStaged DEF SessionOk, TailIsStaged
    <3>3. TurnsMatch(s)'
      BY <2>0, <3>0, <3>1, SessionTypes DEF SessionOk, TurnsMatch
    <3>4. TailIsStaged(s)'
      BY <2>0, <3>0, <3>1, <3>2, SessionTypes DEF TailIsStaged
    <3>5. StagesAreReserved(s)'
      BY <2>0, <3>0 DEF SessionOk, StagesAreReserved, Staged
    <3>6. ActiveIsOpen(s)'
      <4> SUFFICES ASSUME NEW n \in SeqNos, <<s, n>> \in active'
                   PROVE  /\ journal'[s].drain <= n /\ n < journal'[s].next
                          /\ stage'[s][n] = "none"
        BY DEF ActiveIsOpen, Staged
      <4>1. journal[s].drain <= n /\ n < journal[s].next /\ ~ Staged(s, n)
        BY <2>1
      <4>2. n # journal[s].drain
        BY <3>2, <4>1
      <4> QED BY <2>0, <3>0, <4>1, <4>2, SessionTypes DEF Staged, SeqNos
    <3> QED BY <2>1, <3>3, <3>4, <3>5, <3>6 DEF SessionOk
  <2>4. CASE At(s, "remove") /\ UNCHANGED journal
    <3>1. ActiveIsOpen(s)'
      BY <2>0, <2>1, <2>4 DEF ActiveIsOpen, Staged
    <3>2. TurnsMatch(s)' /\ TailIsStaged(s)' /\ StagesAreReserved(s)'
      BY <2>0, <2>4 DEF SessionOk, TurnsMatch, TailIsStaged, StagesAreReserved, Open,
                  NextEnvelope, Staged
    <3> QED BY <2>1, <3>1, <3>2 DEF SessionOk
  <2> QED BY <1>2, <2>2, <2>3, <2>4 DEF SyncFails
<1> QED BY <1>1, <1>2

LEMMA CrashOwn ==
    ASSUME TypeInv, NEW s \in Sessions, SessionOk(s), Crash
    PROVE  SessionOk(s)'
<1> USE DEF log, staging, index, durable, process, bounds
<1>1. /\ journal' = journal /\ raw' = raw /\ torn' = torn /\ stage' = stage
      /\ op'[s] = Idle /\ active' = {}
  BY DEF Crash, Stop
<1>2. TurnsMatch(s)' /\ TailIsStaged(s)' /\ StagesAreReserved(s)'
  BY <1>1 DEF SessionOk, TurnsMatch, TailIsStaged, StagesAreReserved, Open,
              NextEnvelope, Staged
<1>3. ActiveIsOpen(s)' /\ TransactionOk(s)'
  BY <1>1 DEF ActiveIsOpen, TransactionOk, At, Idle
<1> QED BY <1>2, <1>3 DEF SessionOk

LEMMA SessionStep ==
    ASSUME PowerLoss = FALSE, CaptureInv, TypeOK', [Next]_vars, NEW t \in Sessions
    PROVE  SessionOk(t)'
<1> USE DEF log, staging, index, durable, process, bounds
<1>0. TypeInv /\ TypeOK /\ SweepOk /\ SessionOk(t)
  BY DEF CaptureInv, TypeInv
<1>1. ASSUME NEW s \in Sessions, Capture(s) PROVE SessionOk(t)'
  <2>1. CASE s = t
    BY <1>0, <1>1, <2>1, CaptureOwn
  <2>2. CASE s # t
    BY <1>0, <1>1, <2>2, CaptureOthers, UntouchedOk
  <2> QED BY <2>1, <2>2
<1>2. ASSUME NEW s \in Sessions, Drain(s) PROVE SessionOk(t)'
  <2>1. CASE s = t
    BY <1>0, <1>2, <2>1, DrainOwn
  <2>2. CASE s # t
    BY <1>0, <1>2, <2>2, DrainOthers, UntouchedOk
  <2> QED BY <2>1, <2>2
<1>3. ASSUME NEW s \in Sessions, Recover(s) PROVE SessionOk(t)'
  <2>1. CASE s = t
    BY <1>0, <1>3, <2>1, RecoverOwn
  <2>2. CASE s # t
    BY <1>0, <1>3, <2>2, RecoverOthers, UntouchedOk
  <2> QED BY <2>1, <2>2
<1>4. CASE Daemon
  <2>1. Untouched(t)
    BY <1>4 DEF Untouched, Daemon, StartDaemon, StartLiveSweep, ListSessions, ClearMarker,
                SweepDone, SweepFailed
  <2> QED BY <1>0, <2>1, UntouchedOk
<1>5. CASE Environment
  <2>1. CASE Crash
    BY <1>0, <2>1, CrashOwn
  <2>2. ASSUME NEW s \in Sessions, WriteFails(s) \/ SyncFails(s) PROVE SessionOk(t)'
    <3>1. CASE s = t
      BY <1>0, <2>2, <3>1, FaultOwn
    <3>2. CASE s # t
      BY <1>0, <2>2, <3>2, FaultOthers, UntouchedOk
    <3> QED BY <3>1, <3>2
  <2> QED BY <1>5, <2>1, <2>2 DEF Environment, PowerCut
<1>6. CASE UNCHANGED vars
  BY <1>0, <1>6, UntouchedOk DEF Untouched, vars
<1> QED
  BY <1>1, <1>2, <1>3, <1>4, <1>5, <1>6 DEF Next

-----------------------------------------------------------------------------
(* Recovery passes.                                                        *)

(* A step that changes neither the daemon nor the pass, and whose session  *)
(* neither starts nor stops a recovery.                                    *)
LEMMA PassUnchanged ==
    ASSUME SweepOk, daemon' = daemon, sweep' = sweep,
           \A t \in Sessions : op'[t].by = op[t].by,
           active' \subseteq active
    PROVE  SweepOk'
  BY DEF SweepOk, StartIsAlone, PassHasDaemon, OneRecovery

(* The end of a transaction.                                               *)
LEMMA PassFinish ==
    ASSUME TypeOK, SweepOk, NEW s \in Sessions, Finish(s), daemon' = daemon
    PROVE  SweepOk'
<1>0. op'[s].by = "none" /\ \A t \in Sessions \ {s} : op'[t] = op[t]
  BY FinishOthers DEF TypeOK, Finish, Idle
<1>1. active' \subseteq active
  BY DEF Finish
<1>2. CASE op[s].by = "recovery"
  <2>1. sweep'.pc = sweep.pc /\ sweep'.live = sweep.live
    BY <1>2 DEF Finish, TypeOK, Sweeps
  <2>2. \A t \in Sessions : op'[t].by # "recovery"
    BY <1>0, <1>2 DEF SweepOk, OneRecovery
  <2> QED BY <1>0, <1>1, <2>1, <2>2 DEF SweepOk, StartIsAlone, PassHasDaemon, OneRecovery
<1>3. CASE op[s].by # "recovery"
  <2>1. sweep' = sweep
    BY <1>3 DEF Finish
  <2> QED BY <1>0, <1>1, <1>3, <2>1 DEF SweepOk, StartIsAlone, PassHasDaemon, OneRecovery
<1> QED BY <1>2, <1>3

LEMMA PassFail ==
    ASSUME TypeOK, SweepOk, NEW s \in Sessions, NEW cause, Fail(s, cause), daemon' = daemon
    PROVE  SweepOk'
<1>0. op'[s].by = "none" /\ \A t \in Sessions \ {s} : op'[t] = op[t]
  BY FailOthers DEF TypeOK, Fail, Idle
<1>1. active' \subseteq active
  BY DEF Fail
<1>2. CASE op[s].by = "recovery"
  <2>1. sweep'.pc = "failed" /\ sweep'.live = sweep.live /\ sweep.pc = "inspect"
    BY <1>2 DEF Fail, SweepError, NoSweep, SweepOk, OneRecovery
  <2>2. \A t \in Sessions : op'[t].by # "recovery"
    BY <1>0, <1>2 DEF SweepOk, OneRecovery
  <2> QED BY <1>0, <1>1, <2>1, <2>2 DEF SweepOk, StartIsAlone, PassHasDaemon, OneRecovery
<1>3. CASE op[s].by # "recovery"
  <2>1. sweep' = sweep
    BY <1>3 DEF Fail
  <2> QED BY <1>0, <1>1, <1>3, <2>1 DEF SweepOk, StartIsAlone, PassHasDaemon, OneRecovery
<1> QED BY <1>2, <1>3

(* The pass itself moves on while no session is being recovered.           *)
LEMMA PassMoves ==
    ASSUME SweepOk, sweep.pc # "inspect" \/ sweep.todo # {}, op' = op,
           active' = active, daemon' = daemon,
           sweep'.live = sweep.live, sweep.pc # "idle"
    PROVE  SweepOk'
  BY DEF SweepOk, StartIsAlone, PassHasDaemon, OneRecovery

LEMMA SweepStep ==
    ASSUME PowerLoss = FALSE, CaptureInv, [Next]_vars
    PROVE  SweepOk'
<1> USE DEF log, staging, index, durable, process, bounds
<1>0. TypeInv /\ TypeOK /\ SweepOk /\ \A s \in Sessions : TransactionOk(s)
  BY DEF CaptureInv, TypeInv, SessionOk
<1>t. op \in [Sessions -> Transactions] /\ sweep \in Sweeps
  BY <1>0 DEF TypeOK
<1>1. ASSUME NEW s \in Sessions, Capture(s) PROVE SweepOk'
  <2>1. CASE CreateSession(s)
    BY <1>0, <2>1, PassUnchanged DEF CreateSession
  <2>2. CASE ReserveBegin(s)
    <3>1. op'[s].by = "reserve" /\ \A t \in Sessions \ {s} : op'[t] = op[t]
      BY <1>t, <2>2 DEF ReserveBegin
    <3> QED BY <1>0, <2>2, <3>1 DEF ReserveBegin, SweepOk, StartIsAlone, PassHasDaemon, OneRecovery
  <2>3. CASE ReserveMark(s)
    <3>1. \A t \in Sessions : op'[t].by = op[t].by
      BY <1>0, <2>3, GoToMoves DEF ReserveMark
    <3> QED BY <1>0, <2>3, <3>1, PassUnchanged DEF ReserveMark
  <2>4. CASE ReservePersist(s)
    <3>1. op'[s].by = "none" /\ \A t \in Sessions \ {s} : op'[t] = op[t]
      BY <1>t, <2>4 DEF ReservePersist, Idle
    <3>2. op[s].by = "reserve"
      <4>1. TransactionOk(s) /\ op[s].pc = "reserve"
        BY <1>0, <2>4 DEF ReservePersist, At
      <4> QED BY <4>1 DEF TransactionOk, Idle
    <3>3. daemon = "serving"
      BY <1>0, <3>2 DEF SweepOk, StartIsAlone
    <3> QED BY <1>0, <2>4, <3>1, <3>3 DEF ReservePersist, SweepOk, StartIsAlone, PassHasDaemon,
                                         OneRecovery
  <2>5. ASSUME NEW n \in SeqNos, Abandon(s, n) PROVE SweepOk'
    BY <1>0, <2>5, PassUnchanged DEF Abandon
  <2>6. ASSUME NEW n \in SeqNos, CommitBegin(s, n) PROVE SweepOk'
    <3>1. op'[s].by = "commit" /\ \A t \in Sessions \ {s} : op'[t] = op[t]
      BY <1>t, <2>6 DEF CommitBegin
    <3>2. daemon = "serving"
      BY <1>0, <2>6 DEF CommitBegin, SweepOk, StartIsAlone
    <3> QED BY <1>0, <2>6, <3>1, <3>2 DEF CommitBegin, SweepOk, StartIsAlone, PassHasDaemon,
                                         OneRecovery
  <2> QED BY <1>1, <2>1, <2>2, <2>3, <2>4, <2>5, <2>6 DEF Capture
<1>2. ASSUME NEW s \in Sessions, Drain(s) PROVE SweepOk'
  <2>1. CASE DrainDone(s) \/ DrainBlocked(s)
    BY <1>0, <2>1, PassFinish DEF DrainDone, DrainBlocked
  <2>2. CASE AppendConflict(s)
    BY <1>0, <2>2, PassFail DEF AppendConflict
  <2>3. CASE Publish(s) \/ DrainNext(s) \/ AppendBegin(s) \/ AppendEnd(s) \/ PersistDrain(s)
             \/ RemoveStage(s)
    <3>1. \A t \in Sessions : op'[t].by = op[t].by
      BY <1>0, <2>3, GoToMoves DEF Publish, DrainNext, AppendBegin, AppendEnd, PersistDrain,
                                   RemoveStage
    <3>2. daemon' = daemon /\ sweep' = sweep /\ active' = active
      BY <2>3 DEF Publish, DrainNext, AppendBegin, AppendEnd, PersistDrain, RemoveStage
    <3> QED BY <1>0, <3>1, <3>2, PassUnchanged
  <2> QED BY <1>2, <2>1, <2>2, <2>3 DEF Drain
<1>3. ASSUME NEW s \in Sessions, Recover(s) PROVE SweepOk'
  <2>1. CASE IndexSession(s)
    BY <1>0, <2>1, PassUnchanged DEF IndexSession
  <2>2. CASE InspectAbsent(s)
    <3>1. sweep'.live = sweep.live
      BY <1>t, <2>2 DEF InspectAbsent, SweepError, NoSweep, Sweeps
    <3> QED BY <1>0, <2>2, <3>1, PassMoves DEF InspectAbsent
  <2>3. CASE Inspect(s)
    <3>1. sweep'.live = sweep.live
      BY <1>t, <2>3 DEF Inspect, Sweeps
    <3> QED BY <1>0, <2>3, <3>1, PassMoves DEF Inspect
  <2>4. CASE ApplyBegin(s)
    <3>0. /\ active' = active /\ daemon' = daemon
          /\ \A t \in Sessions : op[t].by # "recovery"
      BY <2>4 DEF ApplyBegin
    <3>1. CASE RetiredOk(s)
      <4>1. op'[s].by = "recovery" /\ \A t \in Sessions \ {s} : op'[t] = op[t]
        BY <1>t, <2>4, <3>1 DEF ApplyBegin
      <4> QED BY <1>0, <2>4, <3>0, <3>1, <4>1 DEF ApplyBegin, SweepOk, StartIsAlone, PassHasDaemon,
                                                 OneRecovery
    <3>2. CASE ~ RetiredOk(s)
      <4>1. sweep'.pc = "failed" /\ sweep'.live = sweep.live /\ sweep.pc = "inspect" /\ op' = op
        BY <2>4, <3>2 DEF ApplyBegin, SweepError, NoSweep
      <4> QED BY <1>0, <3>0, <4>1 DEF SweepOk, StartIsAlone, PassHasDaemon, OneRecovery
    <3> QED BY <3>1, <3>2
  <2>5. CASE LeaveOpen(s)
    BY <1>0, <2>5, PassFinish DEF LeaveOpen
  <2>6. CASE Synthesize(s)
    <3>1. \A t \in Sessions : op'[t].by = op[t].by
      BY <1>t, <2>6 DEF Synthesize, HeadMissing, HeadOpen
    <3> QED BY <1>0, <2>6, <3>1, PassUnchanged DEF Synthesize
  <2> QED BY <1>3, <2>1, <2>2, <2>3, <2>4, <2>5, <2>6 DEF Recover
<1>4. CASE Daemon
  <2>1. CASE StartDaemon \/ StartLiveSweep
    <3>1. sweep.pc = "idle" /\ op' = op /\ active' = active
      BY <1>0, <2>1 DEF StartDaemon, StartLiveSweep, SweepOk, PassHasDaemon
    <3>2. \A t \in Sessions : op[t].by # "recovery"
      BY <1>0, <3>1 DEF SweepOk, OneRecovery
    <3>3. CASE StartDaemon
      BY <1>0, <3>1, <3>2, <3>3 DEF StartDaemon, BeginSweep, NoSweep, SweepOk, StartIsAlone,
                                    PassHasDaemon, OneRecovery
    <3>4. CASE StartLiveSweep
      BY <1>0, <3>1, <3>2, <3>4 DEF StartLiveSweep, BeginSweep, NoSweep, SweepOk, StartIsAlone,
                                    PassHasDaemon, OneRecovery
    <3> QED BY <2>1, <3>3, <3>4
  <2>2. CASE ListSessions
    <3>1. sweep'.live = sweep.live
      BY <1>t, <2>2 DEF ListSessions, SweepError, NoSweep, Sweeps
    <3> QED BY <1>0, <2>2, <3>1, PassMoves DEF ListSessions
  <2>3. CASE ClearMarker
    <3>1. sweep'.live = sweep.live
      BY <1>t, <2>3 DEF ClearMarker, Sweeps
    <3> QED BY <1>0, <2>3, <3>1, PassMoves DEF ClearMarker
  <2>4. CASE SweepDone
    BY <1>0, <2>4 DEF SweepDone, NoSweep, SweepOk, StartIsAlone, PassHasDaemon, OneRecovery
  <2>5. CASE SweepFailed
    BY <1>0, <2>5 DEF SweepFailed, NoSweep, SweepOk, StartIsAlone, PassHasDaemon, OneRecovery
  <2> QED BY <1>4, <2>1, <2>2, <2>3, <2>4, <2>5 DEF Daemon
<1>5. CASE Environment
  <2>1. CASE Crash
    BY <2>1 DEF Crash, Stop, NoSweep, Idle, SweepOk, StartIsAlone, PassHasDaemon, OneRecovery
  <2>2. ASSUME NEW s \in Sessions, WriteFails(s) \/ SyncFails(s) PROVE SweepOk'
    BY <1>0, <2>2, PassFail DEF WriteFails, SyncFails
  <2> QED BY <1>5, <2>1, <2>2 DEF Environment, PowerCut
<1>6. CASE UNCHANGED vars
  BY <1>0, <1>6, PassUnchanged DEF vars
<1> QED
  BY <1>1, <1>2, <1>3, <1>4, <1>5, <1>6 DEF Next

-----------------------------------------------------------------------------
LEMMA CaptureInit == Init => CaptureInv
<1> SUFFICES ASSUME Init PROVE CaptureInv
  OBVIOUS
<1>1. TypeInv
  BY TypeInit
<1>2. SweepOk
  BY DEF Init, Idle, NoSweep, SweepOk, StartIsAlone, PassHasDaemon, OneRecovery
<1>3. ASSUME NEW s \in Sessions PROVE SessionOk(s)
  <2>0. /\ op[s] = Idle /\ active = {} /\ torn[s] = NoRecord
        /\ \A n \in SeqNos : stage[s][n] = "none"
        /\ journal[s].drain \in {0, 1} /\ journal[s].next \in {0, 1}
        /\ journal[s].drain <= journal[s].next
        /\ raw[s] = IF journal[s].drain = 0 THEN <<>> ELSE <<[seq |-> 0, by |-> "tee"]>>
    BY <1>1, SessionTypes DEF Init
  <2>1. Len(raw[s]) = journal[s].drain /\ \A i \in 1 .. Len(raw[s]) : raw[s][i].seq = i - 1
    BY <2>0
  <2>2. TurnsMatch(s) /\ TailIsStaged(s)
    BY <2>0, <2>1 DEF TurnsMatch, TailIsStaged
  <2>3. StagesAreReserved(s) /\ ActiveIsOpen(s) /\ TransactionOk(s)
    BY <2>0 DEF StagesAreReserved, Staged, ActiveIsOpen, TransactionOk, At, Idle
  <2> QED BY <2>2, <2>3 DEF SessionOk
<1> QED BY <1>1, <1>2, <1>3 DEF CaptureInv

LEMMA CaptureStep ==
    ASSUME PowerLoss = FALSE
    PROVE  CaptureInv /\ [Next]_vars => CaptureInv'
<1> SUFFICES ASSUME CaptureInv, [Next]_vars PROVE CaptureInv'
  OBVIOUS
<1>1. TypeInv'
  BY TypeStep, FlowStep DEF CaptureInv, TypeInv
<1>2. TypeOK'
  BY <1>1 DEF TypeInv
<1>3. SweepOk'
  BY SweepStep
<1>4. ASSUME NEW t \in Sessions PROVE SessionOk(t)'
  BY <1>2, SessionStep
<1> QED BY <1>1, <1>3, <1>4 DEF CaptureInv

(* Whatever crashes, wherever a file-system call fails, and however        *)
(* requests, commits and recoveries of any number of sessions interleave,  *)
(* turns.jsonl holds the drained turns exactly once and in preparation     *)
(* order, and the journal is at most one turn behind it.                   *)
THEOREM JournalSafe ==
    ASSUME PowerLoss = FALSE
    PROVE  Spec => []JournalMatchesTurns
<1>1. Init => CaptureInv
  BY CaptureInit
<1>2. CaptureInv /\ [Next]_vars => CaptureInv'
  BY CaptureStep
<1>3. CaptureInv => JournalMatchesTurns
  BY DEF CaptureInv, SessionOk, JournalMatchesTurns
<1> QED BY <1>1, <1>2, <1>3, PTL DEF Spec

LEMMA InvReconciles == CaptureInv => AppendsReconcile
<1> SUFFICES ASSUME CaptureInv, NEW s \in Sessions, At(s, "append"), TailConflicts(s)
             PROVE  FALSE
  BY DEF AppendsReconcile
<1>0. TypeInv /\ SessionOk(s)
  BY DEF CaptureInv
<1>1. torn[s] = NoRecord /\ raw[s] # <<>> /\ raw[s][Len(raw[s])].seq = journal[s].drain
  BY <1>0 DEF TailConflicts, SessionOk, TailIsStaged
<1>2. Len(raw[s]) \in 1 .. Len(raw[s])
  BY <1>0, <1>1, SessionTypes, EmptySeq
<1>3. Len(raw[s]) = journal[s].drain + 1 /\ raw[s][Len(raw[s])] \in Envelope
  BY <1>0, <1>1, <1>2, SessionTypes DEF SessionOk, TurnsMatch
<1>4. raw[s][Len(raw[s])] = NextEnvelope(s)
  BY <1>0, <1>1, <1>3 DEF SessionOk, TailIsStaged, NextEnvelope, Envelope
<1> QED BY <1>1, <1>4 DEF TailConflicts, TailIs

-----------------------------------------------------------------------------
(***************************************************************************)
(* What crashes and recovery leave of the capture journal: the answers it  *)
(* staged, the transcript it promises, the markers of open journals, and   *)
(* that the next recovery copes with whatever a crash left behind.         *)
(***************************************************************************)

-----------------------------------------------------------------------------
(* Records stay where they are.                                            *)
Kept(t) == \A i \in 1 .. Len(raw[t]) : raw'[t][i] = raw[t][i]

LEMMA AppendKeeps ==
    ASSUME TypeInv, NEW s \in Sessions, AppendEnd(s)
    PROVE  /\ raw'[s] = Append(raw[s], torn[s]) /\ torn[s] \in Envelope
           /\ Len(raw'[s]) = Len(raw[s]) + 1
           /\ raw'[s][Len(raw[s]) + 1] = torn[s]
           /\ \A t \in Sessions : Kept(t)
           /\ \A t \in Sessions \ {s} : raw'[t] = raw[t]
<1> USE CaptureAssumption
<1>0. raw \in [Sessions -> Seq(Envelope)]
  BY DEF TypeInv, TypeOK
<1>1. torn[s] \in Envelope
  BY SessionTypes DEF AppendEnd, TypeInv, FlowOk, At
<1>2. raw'[s] = Append(raw[s], torn[s]) /\ \A t \in Sessions \ {s} : raw'[t] = raw[t]
  BY <1>0 DEF AppendEnd
<1>3. /\ Len(raw'[s]) = Len(raw[s]) + 1 /\ raw'[s][Len(raw[s]) + 1] = torn[s]
      /\ \A i \in 1 .. Len(raw[s]) : raw'[s][i] = raw[s][i]
  BY <1>0, <1>1, <1>2, AppendProperties
<1> QED BY <1>1, <1>2, <1>3 DEF Kept

(* Only AppendEnd changes turns.jsonl.                                     *)
LEMMA RawChanges ==
    ASSUME PowerLoss = FALSE, [Next]_vars, raw' # raw
    PROVE  \E s \in Sessions : AppendEnd(s)
<1> USE DEF log, staging, index, durable, process, bounds
<1>1. ASSUME NEW s \in Sessions, Capture(s) PROVE raw' = raw
  BY <1>1 DEF Capture, CreateSession, ReserveBegin, ReserveMark, ReservePersist, Abandon,
              CommitBegin
<1>2. ASSUME NEW s \in Sessions, Drain(s), ~ AppendEnd(s) PROVE raw' = raw
  BY <1>2 DEF Drain, Publish, DrainDone, DrainNext, DrainBlocked, AppendBegin,
              AppendConflict, PersistDrain, RemoveStage
<1>3. ASSUME NEW s \in Sessions, Recover(s) PROVE raw' = raw
  BY <1>3 DEF Recover, IndexSession, InspectAbsent, Inspect, ApplyBegin, LeaveOpen, Synthesize
<1>4. Daemon => raw' = raw
  BY DEF Daemon, StartDaemon, StartLiveSweep, ListSessions, ClearMarker, SweepDone, SweepFailed
<1>5. Environment => raw' = raw
  BY DEF Environment, Crash, PowerCut, WriteFails, SyncFails
<1>6. UNCHANGED vars => raw' = raw
  BY DEF vars
<1> QED BY <1>1, <1>2, <1>3, <1>4, <1>5, <1>6 DEF Next

(* Only Publish stages an envelope.                                        *)
LEMMA StageChanges ==
    ASSUME PowerLoss = FALSE, CaptureInv, [Next]_vars, NEW t \in Sessions, NEW n \in SeqNos,
           stage'[t][n] # stage[t][n]
    PROVE  \/ Publish(t) /\ n = op[t].seq
           \/ n < journal[t].drain /\ stage'[t][n] = "none"
<1> USE DEF log, staging, index, durable, process, bounds
<1>0. /\ stage \in [Sessions -> [SeqNos -> Sources \union {"none"}]]
      /\ journal[t].drain \in Int
  BY SessionTypes DEF CaptureInv, TypeInv, TypeOK
<1>1. ASSUME NEW s \in Sessions, Capture(s) PROVE stage' = stage
  BY <1>1 DEF Capture, CreateSession, ReserveBegin, ReserveMark, ReservePersist, Abandon,
              CommitBegin
<1>2. ASSUME NEW s \in Sessions, Drain(s), ~ Publish(s), ~ RemoveStage(s) PROVE stage' = stage
  BY <1>2 DEF Drain, DrainDone, DrainNext, DrainBlocked, AppendBegin, AppendEnd,
              AppendConflict, PersistDrain
<1>3. ASSUME NEW s \in Sessions, Publish(s)
      PROVE  Publish(t) /\ n = op[t].seq
  BY <1>0, <1>3 DEF Publish
<1>4. ASSUME NEW s \in Sessions, RemoveStage(s)
      PROVE  n < journal[t].drain /\ stage'[t][n] = "none"
  <2>1. s = t /\ n = journal[t].drain - 1 /\ stage'[t][n] = "none"
    BY <1>0, <1>4 DEF RemoveStage
  <2> QED BY <1>0, <2>1
<1>5. ASSUME NEW s \in Sessions, Recover(s), ~ ApplyBegin(s) PROVE stage' = stage
  BY <1>5 DEF Recover, IndexSession, InspectAbsent, Inspect, LeaveOpen, Synthesize
<1>6. ASSUME NEW s \in Sessions, ApplyBegin(s)
      PROVE  n < journal[t].drain /\ stage'[t][n] = "none"
  <2>1. RetiredOk(s) /\ s = t
    BY <1>0, <1>6 DEF ApplyBegin
  <2>2. stage'[t][n] = IF n \in Retired(t) THEN "none" ELSE stage[t][n]
    BY <1>0, <1>6, <2>1 DEF ApplyBegin
  <2> QED BY <2>2 DEF Retired
<1>7. Daemon => stage' = stage
  BY DEF Daemon, StartDaemon, StartLiveSweep, ListSessions, ClearMarker, SweepDone, SweepFailed
<1>8. Environment => stage' = stage
  BY DEF Environment, Crash, PowerCut, WriteFails, SyncFails
<1>9. UNCHANGED vars => stage' = stage
  BY DEF vars
<1> QED BY <1>1, <1>2, <1>3, <1>4, <1>5, <1>6, <1>7, <1>8, <1>9 DEF Next, Drain, Recover

(* Only ReservePersist adds a task.                                        *)
LEMMA ActiveChanges ==
    ASSUME PowerLoss = FALSE, [Next]_vars
    PROVE  \/ active' \subseteq active
           \/ \E s \in Sessions : ReservePersist(s)
<1> USE DEF log, staging, index, durable, process, bounds
<1>1. ASSUME NEW s \in Sessions, Capture(s), ~ ReservePersist(s) PROVE active' \subseteq active
  BY <1>1 DEF Capture, CreateSession, ReserveBegin, ReserveMark, Abandon, CommitBegin
<1>2. ASSUME NEW s \in Sessions, Drain(s) PROVE active' \subseteq active
  BY <1>2 DEF Drain, Publish, DrainDone, DrainNext, DrainBlocked, AppendBegin, AppendEnd,
              AppendConflict, PersistDrain, RemoveStage, Finish, Fail
<1>3. ASSUME NEW s \in Sessions, Recover(s) PROVE active' \subseteq active
  BY <1>3 DEF Recover, IndexSession, InspectAbsent, Inspect, ApplyBegin, LeaveOpen, Synthesize,
              Finish
<1>4. Daemon => active' \subseteq active
  BY DEF Daemon, StartDaemon, StartLiveSweep, ListSessions, ClearMarker, SweepDone, SweepFailed
<1>5. Environment => active' \subseteq active
  BY DEF Environment, Crash, PowerCut, Stop, WriteFails, SyncFails, Fail
<1>6. UNCHANGED vars => active' \subseteq active
  BY DEF vars
<1> QED BY <1>1, <1>2, <1>3, <1>4, <1>5, <1>6 DEF Next

(* A drain pointer that moved passed a turn that is recorded and staged.   *)
LEMMA JournalChanges ==
    ASSUME PowerLoss = FALSE, CaptureInv, [Next]_vars, NEW t \in Sessions
    PROVE  \/ journal'[t].next = journal[t].next /\ journal'[t].drain = journal[t].drain
           \/ /\ journal'[t].next = journal[t].next + 1 /\ journal'[t].drain = journal[t].drain
              /\ ReservePersist(t) \/ (SyncFails(t) /\ At(t, "reserve"))
           \/ /\ journal'[t].next = journal[t].next /\ journal'[t].drain = journal[t].drain + 1
              /\ At(t, "persist") /\ raw' = raw /\ stage' = stage
<1> USE DEF log, staging, index, durable, process, bounds
<1>0. TypeOK
  BY DEF CaptureInv, TypeInv
<1>1. ASSUME NEW s \in Sessions, Capture(s), ~ ReservePersist(s) PROVE journal' = journal
  BY <1>1 DEF Capture, CreateSession, ReserveBegin, ReserveMark, Abandon, CommitBegin
<1>2. ASSUME NEW s \in Sessions, Drain(s), ~ PersistDrain(s) PROVE journal' = journal
  BY <1>2 DEF Drain, Publish, DrainDone, DrainNext, DrainBlocked, AppendBegin, AppendEnd,
              AppendConflict, RemoveStage
<1>3. ASSUME NEW s \in Sessions, Recover(s) PROVE journal' = journal
  BY <1>3 DEF Recover, IndexSession, InspectAbsent, Inspect, ApplyBegin, LeaveOpen, Synthesize
<1>4. Daemon => journal' = journal
  BY DEF Daemon, StartDaemon, StartLiveSweep, ListSessions, ClearMarker, SweepDone, SweepFailed
<1>5. ASSUME NEW s \in Sessions, ReservePersist(s)
      PROVE  \/ journal'[t] = journal[t]
             \/ /\ journal'[t].next = journal[t].next + 1 /\ journal'[t].drain = journal[t].drain
                /\ ReservePersist(t)
  BY <1>0, <1>5, ReservedPointers DEF ReservePersist
<1>6. ASSUME NEW s \in Sessions, PersistDrain(s)
      PROVE  \/ journal'[t] = journal[t]
             \/ /\ journal'[t].next = journal[t].next /\ journal'[t].drain = journal[t].drain + 1
                /\ At(t, "persist") /\ raw' = raw /\ stage' = stage
  BY <1>0, <1>6, AdvancedPointers DEF PersistDrain
<1>7. ASSUME NEW s \in Sessions, SyncFails(s)
      PROVE  \/ journal'[t] = journal[t]
             \/ /\ journal'[t].next = journal[t].next + 1 /\ journal'[t].drain = journal[t].drain
                /\ SyncFails(t) /\ At(t, "reserve")
             \/ /\ journal'[t].next = journal[t].next /\ journal'[t].drain = journal[t].drain + 1
                /\ At(t, "persist") /\ raw' = raw /\ stage' = stage
  <2>1. raw' = raw /\ stage' = stage
    BY <1>7 DEF SyncFails
  <2>2. CASE At(s, "reserve") /\ journal' = Reserved(s)
    BY <1>0, <1>7, <2>2, ReservedPointers
  <2>3. CASE At(s, "persist") /\ journal' = Advanced(s)
    BY <1>0, <2>1, <2>3, AdvancedPointers
  <2> QED BY <1>7, <2>2, <2>3 DEF SyncFails
<1>8. Crash \/ (\E s \in Sessions : WriteFails(s)) \/ UNCHANGED vars => journal' = journal
  BY DEF Crash, WriteFails, vars
<1> QED BY <1>1, <1>2, <1>3, <1>4, <1>5, <1>6, <1>7, <1>8 DEF Next, Capture, Drain, Environment,
                                                              PowerCut

-----------------------------------------------------------------------------
(* AnswerInv is inductive.                                                 *)
LEMMA AliveStep ==
    ASSUME PowerLoss = FALSE, AnswerInv, [Next]_vars, NEW t \in Sessions
    PROVE  AliveIsNotSynthesized(t)'
<1>0. /\ TypeOK /\ SessionOk(t) /\ AliveIsNotSynthesized(t)
      /\ stage \in [Sessions -> [SeqNos -> Sources \union {"none"}]]
  BY DEF AnswerInv, CaptureInv, TypeInv, TypeOK
<1> SUFFICES ASSUME NEW n \in SeqNos, <<t, n>> \in active', stage'[t][n] = "recovery"
             PROVE  FALSE
  BY DEF AliveIsNotSynthesized
<1>1. CASE stage'[t][n] = stage[t][n]
  <2>1. <<t, n>> \notin active
    BY <1>0, <1>1 DEF AliveIsNotSynthesized
  <2>2. PICK s \in Sessions : ReservePersist(s)
    BY <2>1, ActiveChanges
  <2>3. t = s /\ n = journal[t].next
    BY <2>1, <2>2 DEF ReservePersist
  <2>4. Staged(t, n)
    BY <1>1 DEF Staged
  <2> QED BY <1>0, <2>3, <2>4, PointersType DEF SessionOk, StagesAreReserved
<1>2. CASE stage'[t][n] # stage[t][n]
  <2>1. Publish(t) /\ n = op[t].seq
    BY <1>2, StageChanges DEF AnswerInv
  <2>2. active' = active
    BY <2>1 DEF Publish, process
  <2>3. op[t].by = "commit"
    BY <1>0, <2>1, <2>2 DEF Publish, SessionOk, TransactionOk
  <2> QED BY <1>0, <2>1, <2>3 DEF Publish
<1> QED BY <1>1, <1>2

LEMMA RetiredStep ==
    ASSUME PowerLoss = FALSE, AnswerInv, [Next]_vars, NEW t \in Sessions
    PROVE  RetiredIsRecorded(t)'
<1>0. /\ TypeInv /\ SessionOk(t) /\ RetiredIsRecorded(t) /\ CaptureInv
  BY DEF AnswerInv, CaptureInv
<1>1. /\ Len(raw[t]) \in Nat /\ journal[t].drain \in Nat /\ journal[t].drain <= Len(raw[t])
  BY <1>0, SessionTypes DEF SessionOk, TurnsMatch
<1>2. Kept(t)
  <2>1. CASE raw' = raw
    BY <2>1 DEF Kept
  <2>2. CASE raw' # raw
    BY <1>0, <2>2, RawChanges, AppendKeeps
  <2> QED BY <2>1, <2>2
<1> SUFFICES ASSUME NEW n \in SeqNos, stage'[t][n] # "none", n < journal'[t].drain
             PROVE  raw'[t][n + 1].by = stage'[t][n]
  BY DEF RetiredIsRecorded, Staged
<1>n. n \in Nat
  BY CaptureAssumption DEF SeqNos
<1>3. CASE stage'[t][n] = stage[t][n] /\ n < journal[t].drain
  <2>1. raw[t][n + 1].by = stage[t][n]
    BY <1>0, <1>3 DEF RetiredIsRecorded, Staged
  <2>2. n + 1 \in 1 .. Len(raw[t])
    BY <1>1, <1>3, <1>n
  <2> QED BY <1>2, <1>3, <2>1, <2>2 DEF Kept
<1>4. CASE n >= journal[t].drain
  <2>1. /\ journal'[t].drain = journal[t].drain + 1 /\ At(t, "persist")
        /\ raw' = raw /\ stage' = stage
    <3>1. journal'[t].drain # journal[t].drain
      BY <1>1, <1>4, <1>n
    <3> QED BY <1>0, <3>1, JournalChanges
  <2>2. n = journal[t].drain
    BY <1>1, <1>4, <1>n, <2>1
  <2>3. Len(raw[t]) = journal[t].drain + 1
    BY <1>0, <2>1 DEF SessionOk, TransactionOk
  <2> QED BY <1>0, <2>1, <2>2, <2>3 DEF SessionOk, TailIsStaged
<1>5. CASE stage'[t][n] # stage[t][n] /\ n < journal[t].drain
  <2>1. Publish(t) /\ n = op[t].seq
    BY <1>0, <1>5, StageChanges
  <2>2. journal[t].drain <= n
    BY <1>0, <2>1 DEF Publish, SessionOk, TransactionOk
  <2> QED BY <1>1, <1>5, <1>n, <2>2
<1> QED BY <1>1, <1>3, <1>4, <1>5, <1>n

LEMMA AnswerInit == Init => AnswerInv
<1> SUFFICES ASSUME Init PROVE AnswerInv
  OBVIOUS
<1>1. ASSUME NEW s \in Sessions, NEW n \in SeqNos PROVE stage[s][n] = "none" /\ active = {}
  BY DEF Init
<1> QED BY <1>1, CaptureInit DEF AnswerInv, AliveIsNotSynthesized, RetiredIsRecorded, Staged

LEMMA AnswerStep ==
    ASSUME PowerLoss = FALSE
    PROVE  AnswerInv /\ [Next]_vars => AnswerInv'
<1> SUFFICES ASSUME AnswerInv, [Next]_vars PROVE AnswerInv'
  OBVIOUS
<1>1. CaptureInv'
  BY CaptureStep DEF AnswerInv
<1>2. \A t \in Sessions : AliveIsNotSynthesized(t)' /\ RetiredIsRecorded(t)'
  BY AliveStep, RetiredStep
<1> QED BY <1>1, <1>2 DEF AnswerInv

-----------------------------------------------------------------------------
(* What StagedAnswerIsKept says of one step.                               *)
AnswerKept ==
    \A s \in Sessions, n \in SeqNos :
        stage[s][n] = "tee" /\ stage'[s][n] # "tee"
           => n + 1 \in 1 .. Len(raw'[s]) /\ raw'[s][n + 1] = [seq |-> n, by |-> "tee"]

LEMMA AnswerKeptStep ==
    ASSUME PowerLoss = FALSE, AnswerInv, [Next]_vars
    PROVE  AnswerKept
<1> SUFFICES ASSUME NEW s \in Sessions, NEW n \in SeqNos,
                    stage[s][n] = "tee", stage'[s][n] # "tee"
             PROVE  n + 1 \in 1 .. Len(raw'[s]) /\ raw'[s][n + 1] = [seq |-> n, by |-> "tee"]
  BY DEF AnswerKept
<1>0. TypeInv /\ SessionOk(s) /\ RetiredIsRecorded(s) /\ CaptureInv
  BY DEF AnswerInv, CaptureInv
<1>n. n \in Nat
  BY CaptureAssumption DEF SeqNos
<1>1. ~ (Publish(s) /\ n = op[s].seq)
  BY <1>0 DEF Publish, SessionOk, TransactionOk, Staged
<1>2. n < journal[s].drain /\ stage'[s][n] = "none"
  BY <1>0, <1>1, StageChanges
<1>3. raw' = raw
  <2>1. ASSUME NEW t \in Sessions, AppendEnd(t) PROVE FALSE
    <3>1. stage' = stage
      BY <2>1 DEF AppendEnd, staging
    <3> QED BY <3>1
  <2> QED BY <2>1, RawChanges
<1>4. n + 1 \in 1 .. Len(raw[s])
  BY <1>0, <1>2, <1>n, SessionTypes DEF SessionOk, TurnsMatch
<1>5. raw[s][n + 1] \in Envelope
  BY <1>0, <1>4, SessionTypes
<1>6. raw[s][n + 1].seq = n
  BY <1>0, <1>4, <1>n DEF SessionOk, TurnsMatch
<1>7. raw[s][n + 1].by = "tee"
  BY <1>0, <1>2 DEF RetiredIsRecorded, Staged
<1>8. raw[s][n + 1] = [seq |-> n, by |-> "tee"]
  BY <1>5, <1>6, <1>7 DEF Envelope
<1> QED BY <1>3, <1>4, <1>8

(* An answer that was staged leaves the staging directory only as the      *)
(* record of its turn: no crash, failing call, retry or recovery loses it  *)
(* or replaces it by a synthesized one.                                    *)
THEOREM StagedAnswersSurvive ==
    ASSUME PowerLoss = FALSE
    PROVE  Spec => StagedAnswerIsKept
<1>1. Init => AnswerInv
  BY AnswerInit
<1>2. AnswerInv /\ [Next]_vars => AnswerInv'
  BY AnswerStep
<1>3. AnswerInv /\ [Next]_vars => [AnswerKept]_vars
  BY AnswerKeptStep
<1> QED BY <1>1, <1>2, <1>3, PTL DEF Spec, StagedAnswerIsKept, AnswerKept

-----------------------------------------------------------------------------
(* The refinement.                                                         *)
LEMMA TranscriptInits == Init => Transcript!TranscriptInit
<1> SUFFICES ASSUME Init PROVE Transcript!TranscriptInit
  OBVIOUS
<1>1. CaptureInv
  BY CaptureInit
<1>2. ASSUME NEW s \in Sessions
      PROVE  /\ journal[s].next \in Nat /\ raw[s] \in Seq(Transcript!Envelopes)
             /\ Len(raw[s]) <= journal[s].next
  <2>1. /\ journal[s].next \in Nat /\ raw[s] \in Seq(Envelope) /\ Len(raw[s]) <= journal[s].next
    BY <1>1, SessionTypes DEF CaptureInv, SessionOk, TurnsMatch
  <2>2. Envelope \subseteq Transcript!Envelopes
    BY CaptureAssumption DEF Envelope, Transcript!Envelopes, SeqNos, Sources
  <2> QED BY <2>1, <2>2
<1>3. raw = [s \in Sessions |-> raw[s]]
  BY <1>1 DEF CaptureInv, TypeInv, TypeOK
<1>4. active = {}
  BY DEF Init
<1> QED BY <1>2, <1>3, <1>4 DEF Transcript!TranscriptInit

LEMMA TranscriptSteps ==
    ASSUME PowerLoss = FALSE, AnswerInv, [Next]_vars
    PROVE  [Transcript!TranscriptNext]_(Transcript!transcriptVars)
<1> DEFINE reserved == [s \in Sessions |-> journal[s].next]
<1>0. CaptureInv /\ TypeInv /\ TypeOK
  BY DEF AnswerInv, CaptureInv, TypeInv
<1>1. CASE \E s \in Sessions : AppendEnd(s)
  <2> PICK s \in Sessions : AppendEnd(s)
    BY <1>1
  <2>1. /\ SessionOk(s) /\ AliveIsNotSynthesized(s) /\ journal' = journal /\ active' = active
        /\ torn[s] # NoRecord
    BY <1>0 DEF AppendEnd, AnswerInv, CaptureInv, TypeInv, FlowOk, At
  <2>2. torn[s] = NextEnvelope(s) /\ Open(s) /\ Len(raw[s]) = journal[s].drain
    BY <2>1 DEF SessionOk, TailIsStaged, TurnsMatch
  <2>3. journal[s].drain \in SeqNos /\ Staged(s, journal[s].drain)
    BY <1>0, <2>1, TailStagedIsStaged
  <2>4. torn[s].by \in {"tee", "recovery"} /\ torn[s] \in Envelope
    BY <1>0, AppendKeeps DEF Envelope, Sources
  <2>5. torn[s] = [seq |-> Len(raw[s]), by |-> torn[s].by]
    BY <2>2 DEF NextEnvelope
  <2>6. torn[s].by = "recovery" => <<s, Len(raw[s])>> \notin active
    BY <2>1, <2>2, <2>3 DEF AliveIsNotSynthesized, NextEnvelope
  <2>7. raw' = [raw EXCEPT ![s] = Append(@, [seq |-> Len(raw[s]), by |-> torn[s].by])]
    BY <2>5 DEF AppendEnd
  <2>8. Len(raw[s]) < reserved[s]
    BY <2>2 DEF Open
  <2>9. Transcript!Settle(s, torn[s].by)
    BY <2>1, <2>6, <2>7, <2>8 DEF Transcript!Settle
  <2> QED BY <2>4, <2>9 DEF Transcript!TranscriptNext
<1>2. CASE raw' = raw
  <2>1. CASE \E s \in Sessions : ReservePersist(s) \/ (SyncFails(s) /\ At(s, "reserve"))
    <3> PICK s \in Sessions : ReservePersist(s) \/ (SyncFails(s) /\ At(s, "reserve"))
      BY <2>1
    <3>1. journal' = Reserved(s)
      BY DEF ReservePersist, SyncFails, At
    <3>2. \A t \in Sessions : journal'[t].next = IF t = s THEN journal[t].next + 1
                                                 ELSE journal[t].next
      BY <1>0, <3>1, ReservedPointers
    <3>3. reserved' = [reserved EXCEPT ![s] = @ + 1]
      BY <3>2
    <3>4. active' \in {active, active \union {<<s, reserved[s]>>}}
      <4>1. CASE ReservePersist(s)
        BY <4>1 DEF ReservePersist
      <4>2. CASE SyncFails(s) /\ At(s, "reserve")
        <5>1. op[s].by = "reserve"
          <6>1. TransactionOk(s) /\ op[s].pc = "reserve"
            BY <1>0, <4>2 DEF CaptureInv, SessionOk, At
          <6> QED BY <6>1 DEF TransactionOk, Idle
        <5> QED BY <4>2, <5>1 DEF SyncFails, Fail
      <4> QED BY <4>1, <4>2
    <3>5. Transcript!Admit(s)
      BY <1>2, <3>3, <3>4 DEF Transcript!Admit
    <3> QED BY <3>5 DEF Transcript!TranscriptNext
  <2>2. CASE ~ \E s \in Sessions : ReservePersist(s) \/ (SyncFails(s) /\ At(s, "reserve"))
    <3>1. \A t \in Sessions : journal'[t].next = journal[t].next
      BY <1>0, <2>2, JournalChanges
    <3>2. reserved' = reserved
      BY <3>1
    <3>3. active' \subseteq active
      BY <2>2, ActiveChanges
    <3>4. Transcript!Leave
      BY <1>2, <3>2, <3>3 DEF Transcript!Leave
    <3> QED BY <3>4 DEF Transcript!TranscriptNext
  <2> QED BY <2>1, <2>2
<1> QED BY <1>1, <1>2, RawChanges

(* The journal, its stages, markers and recovery passes implement the      *)
(* ordered, append-only transcript: every place is filled once, in         *)
(* preparation order, and never by recovery while its task is alive.       *)
THEOREM JournalImplementsTranscript ==
    ASSUME PowerLoss = FALSE
    PROVE  Spec => ImplementsTranscript
<1>1. Init => AnswerInv /\ Transcript!TranscriptInit
  BY AnswerInit, TranscriptInits
<1>2. AnswerInv /\ [Next]_vars => AnswerInv'
  BY AnswerStep
<1>3. AnswerInv /\ [Next]_vars => [Transcript!TranscriptNext]_(Transcript!transcriptVars)
  BY TranscriptSteps
<1> QED BY <1>1, <1>2, <1>3, PTL DEF Spec, ImplementsTranscript, Transcript!TranscriptSpec

-----------------------------------------------------------------------------
(* The recovery index.                                                     *)

LEMMA DirsGrow == [Next]_vars => dirs \subseteq dirs'
<1> SUFFICES ASSUME [Next]_vars PROVE dirs \subseteq dirs'
  OBVIOUS
<1> USE DEF durable
<1>1. ASSUME NEW s \in Sessions, Capture(s) \/ Drain(s) \/ Recover(s) PROVE dirs \subseteq dirs'
  BY <1>1 DEF Capture, CreateSession, ReserveBegin, ReserveMark, ReservePersist, Abandon,
              CommitBegin, Drain, Publish, DrainDone, DrainNext, DrainBlocked, AppendBegin,
              AppendEnd, AppendConflict, PersistDrain, RemoveStage, Recover, IndexSession,
              InspectAbsent, Inspect, ApplyBegin, LeaveOpen, Synthesize
<1>2. CASE Daemon \/ Environment \/ UNCHANGED vars
  BY <1>2 DEF Daemon, StartDaemon, StartLiveSweep, ListSessions, ClearMarker, SweepDone,
              SweepFailed, Environment, Crash, PowerCut, WriteFails, SyncFails, vars
<1> QED BY <1>1, <1>2 DEF Next

(* Every walk of the directories sees the established sessions, so that no *)
(* pass is about to clear the marker of one.                               *)
WalkSees ==
    /\ sweep.pc \in {"index", "inspect", "clear"} => Established \subseteq sweep.dirs
    /\ sweep.clearing \cap Established = {}

LEMMA WalkNarrows ==
    ASSUME WalkSees, sweep'.clearing \subseteq sweep.clearing,
           sweep'.pc \in {"inspect", "clear"} =>
               sweep.pc \in {"index", "inspect", "clear"} /\ sweep'.dirs = sweep.dirs,
           sweep'.pc # "index"
    PROVE  WalkSees'
  BY DEF WalkSees

LEMMA WalkEnds ==
    ASSUME NEW cause, SweepError(cause) \/ sweep' = NoSweep
    PROVE  WalkSees'
<1>1. sweep'.pc \in {"failed", "idle"} /\ sweep'.clearing = {}
  <2>1. CASE SweepError(cause)
    BY <2>1 DEF SweepError, NoSweep
  <2>2. CASE sweep' = NoSweep
    BY <2>2 DEF NoSweep
  <2> QED BY <2>1, <2>2
<1> QED BY <1>1 DEF WalkSees

LEMMA WalkFinish ==
    ASSUME TypeOK, WalkSees, NEW s \in Sessions, NEW cause, Finish(s) \/ Fail(s, cause)
    PROVE  WalkSees'
<1>1. CASE sweep' = sweep \/ sweep' = [sweep EXCEPT !.inventory = @ \ {s}]
  BY <1>1 DEF TypeOK, Sweeps, WalkSees
<1> QED BY <1>1, WalkEnds DEF Finish, Fail

LEMMA WalkStep ==
    ASSUME TypeInv, WalkSees, Established \subseteq dirs,
           \A s \in Established : journal[s].exists, [Next]_vars
    PROVE  WalkSees'
<1> USE DEF durable, process
<1>t. TypeOK /\ sweep \in Sweeps
  BY DEF TypeInv, TypeOK
<1>0. sweep' = sweep => WalkSees'
  BY DEF WalkSees
<1>1. ASSUME NEW s \in Sessions, Capture(s) PROVE sweep' = sweep
  BY <1>1 DEF Capture, CreateSession, ReserveBegin, ReserveMark, ReservePersist, Abandon,
              CommitBegin
<1>2. ASSUME NEW s \in Sessions, Drain(s) PROVE WalkSees'
  <2>1. CASE DrainDone(s) \/ DrainBlocked(s) \/ AppendConflict(s)
    BY <1>t, <2>1, WalkFinish DEF DrainDone, DrainBlocked, AppendConflict
  <2>2. CASE Publish(s) \/ DrainNext(s) \/ AppendBegin(s) \/ AppendEnd(s) \/ PersistDrain(s)
             \/ RemoveStage(s)
    BY <1>0, <2>2 DEF Publish, DrainNext, AppendBegin, AppendEnd, PersistDrain, RemoveStage
  <2> QED BY <1>2, <2>1, <2>2 DEF Drain
<1>3. ASSUME NEW s \in Sessions, Recover(s) PROVE WalkSees'
  <2>1. CASE IndexSession(s) \/ Synthesize(s)
    BY <1>0, <2>1 DEF IndexSession, Synthesize
  <2>2. CASE InspectAbsent(s)
    <3>1. CASE s \notin sweep.dirs /\ HasStageEntries(s)
      BY <2>2, <3>1, WalkEnds DEF InspectAbsent
    <3>2. CASE ~ (s \notin sweep.dirs /\ HasStageEntries(s))
      <4>1. s \notin Established
        BY <2>2 DEF InspectAbsent, WalkSees
      <4>2. /\ sweep'.pc = "clear" /\ sweep'.clearing = {s} /\ sweep'.dirs = sweep.dirs
            /\ sweep.pc = "inspect"
        BY <1>t, <2>2, <3>2 DEF InspectAbsent, Sweeps
      <4> QED BY <4>1, <4>2 DEF WalkSees
    <3> QED BY <3>1, <3>2
  <2>3. CASE Inspect(s)
    <3>1. /\ sweep'.pc = sweep.pc /\ sweep'.dirs = sweep.dirs /\ sweep'.clearing = sweep.clearing
      BY <1>t, <2>3 DEF Inspect, Sweeps
    <3> QED BY <3>1 DEF WalkSees
  <2>4. CASE ApplyBegin(s)
    BY <1>0, <2>4, WalkEnds DEF ApplyBegin
  <2>5. CASE LeaveOpen(s)
    BY <1>t, <2>5, WalkFinish DEF LeaveOpen
  <2> QED BY <1>3, <2>1, <2>2, <2>3, <2>4, <2>5 DEF Recover
<1>4. CASE Daemon
  <2>1. CASE StartDaemon \/ StartLiveSweep
    BY <2>1 DEF StartDaemon, StartLiveSweep, BeginSweep, NoSweep, WalkSees
  <2>2. CASE ListSessions
    <3>1. CASE markerTemp # {}
      BY <2>2, <3>1, WalkEnds DEF ListSessions
    <3>2. CASE markerTemp = {}
      <4>1. /\ sweep'.pc = "inspect" /\ sweep.pc = "index" /\ sweep'.dirs = sweep.dirs
            /\ sweep'.clearing = sweep.clearing
        BY <1>t, <2>2, <3>2 DEF ListSessions, Sweeps
      <4> QED BY <4>1 DEF WalkSees
    <3> QED BY <3>1, <3>2
  <2>3. CASE ClearMarker
    <3>1. /\ sweep'.pc = "inspect" /\ sweep.pc = "clear" /\ sweep'.dirs = sweep.dirs
          /\ sweep'.clearing = {}
      BY <1>t, <2>3 DEF ClearMarker, Sweeps
    <3> QED BY <3>1 DEF WalkSees
  <2>4. CASE SweepDone \/ SweepFailed
    BY <2>4, WalkEnds DEF SweepDone, SweepFailed
  <2> QED BY <1>4, <2>1, <2>2, <2>3, <2>4 DEF Daemon
<1>5. CASE Environment
  <2>1. CASE Crash \/ PowerCut
    BY <2>1, WalkEnds DEF Crash, PowerCut, Stop
  <2>2. ASSUME NEW s \in Sessions, WriteFails(s) \/ SyncFails(s) PROVE WalkSees'
    BY <1>t, <2>2, WalkFinish DEF WriteFails, SyncFails
  <2> QED BY <1>5, <2>1, <2>2 DEF Environment
<1>6. CASE UNCHANGED vars
  BY <1>0, <1>6 DEF vars
<1> QED BY <1>0, <1>1, <1>2, <1>3, <1>4, <1>5, <1>6 DEF Next

(* A reservation is marked before it is persisted; and what a step does to *)
(* the marker of an open journal.                                          *)
ReserveMarked(t) == At(t, "reserve") => t \in marker

MarkerKept(t) ==
    /\ ReserveMarked(t)'
    /\ Unmarked(t)' => Unmarked(t) \/ journal'[t] \in unsynced[t]

(* The marker is only removed, and the journal only opened, under the      *)
(* flock.                                                                  *)
LEMMA MarkerFrame ==
    ASSUME NEW t \in Sessions, ReserveMarked(t), t \in marker => t \in marker', indexed' = indexed,
           Open(t)' => Open(t), At(t, "reserve")' => At(t, "reserve")
    PROVE  MarkerKept(t)
  BY DEF ReserveMarked, MarkerKept, Unmarked

LEMMA MarkerStaysMarked ==
    ASSUME NEW t \in Sessions, t \in marker'
    PROVE  MarkerKept(t)
  BY DEF ReserveMarked, MarkerKept, Unmarked

LEMMA IdleIsNotReserving ==
    ASSUME TypeOK, NEW s \in Sessions, NEW cause, Finish(s) \/ Fail(s, cause), NEW t \in Sessions
    PROVE  (At(t, "reserve")' => At(t, "reserve")) /\ ~ At(s, "reserve")'
<1>1. op' = [op EXCEPT ![s] = Idle] /\ op \in [Sessions -> Transactions]
  BY DEF TypeOK, Finish, Fail
<1> QED BY <1>1 DEF At, Idle

LEMMA GoesNotToReserve ==
    ASSUME TypeOK, NEW s \in Sessions, NEW pc, pc # "reserve", GoTo(s, pc), NEW t \in Sessions
    PROVE  At(t, "reserve")' => At(t, "reserve")
<1>1. CASE t = s
  BY <1>1, GoToMoves DEF At
<1>2. CASE t # s
  BY <1>2, GoToMoves DEF At
<1> QED BY <1>1, <1>2

LEMMA MarkerStep ==
    ASSUME TypeInv, WalkSees, [Next]_vars, NEW t \in Established, ReserveMarked(t),
           journal[t].exists
    PROVE  MarkerKept(t)
<1> USE DEF log, staging, index, durable, process
<1>t. TypeOK /\ op \in [Sessions -> Transactions] /\ sweep \in Sweeps /\ t \in Sessions
  BY DEF TypeInv, TypeOK, Established
<1>0. ASSUME journal' = journal, indexed' = indexed, op' = op, t \in marker => t \in marker'
      PROVE  MarkerKept(t)
  BY <1>0, <1>t, MarkerFrame DEF Open, At
<1>1. ASSUME NEW s \in Sessions, Capture(s) PROVE MarkerKept(t)
  <2>1. CASE CreateSession(s) \/ \E n \in SeqNos : Abandon(s, n)
    BY <1>0, <2>1 DEF CreateSession, Abandon
  <2>2. CASE ReserveBegin(s) \/ \E n \in SeqNos : CommitBegin(s, n)
    <3>1. journal' = journal /\ indexed' = indexed /\ marker' = marker
      BY <2>2 DEF ReserveBegin, CommitBegin
    <3>2. At(t, "reserve")' => At(t, "reserve")
      <4>1. op'[s].pc \in {"mark", "publish"} /\ \A u \in Sessions \ {s} : op'[u] = op[u]
        <5>1. CASE ReserveBegin(s)
          BY <1>t, <5>1 DEF ReserveBegin
        <5>2. CASE \E n \in SeqNos : CommitBegin(s, n)
          BY <1>t, <5>2 DEF CommitBegin
        <5> QED BY <2>2, <5>1, <5>2
      <4> QED BY <1>t, <4>1 DEF At
    <3> QED BY <1>t, <3>1, <3>2, MarkerFrame DEF Open
  <2>3. CASE ReserveMark(s)
    <3>1. journal' = journal /\ indexed' = indexed /\ marker' = marker \union {s}
      BY <2>3 DEF ReserveMark
    <3>2. CASE t = s
      BY <1>t, <3>1, <3>2, MarkerStaysMarked
    <3>3. CASE t # s
      <4>1. op'[t] = op[t]
        BY <1>t, <2>3, <3>3 DEF ReserveMark, GoTo
      <4> QED BY <1>t, <3>1, <4>1, MarkerFrame DEF Open, At
    <3> QED BY <3>2, <3>3
  <2>4. CASE ReservePersist(s)
    <3>1. indexed' = indexed /\ marker' = marker
      BY <2>4 DEF ReservePersist
    <3>2. CASE t = s
      BY <1>t, <2>4, <3>1, <3>2, MarkerStaysMarked DEF ReservePersist, ReserveMarked
    <3>3. CASE t # s
      <4>1. op'[t] = op[t]
        BY <1>t, <2>4, <3>3 DEF ReservePersist
      <4>2. Open(t)' => Open(t)
        BY <1>t, <2>4, <3>3, ReservedPointers DEF ReservePersist, Open
      <4> QED BY <1>t, <3>1, <4>1, <4>2, MarkerFrame DEF At
    <3> QED BY <3>2, <3>3
  <2> QED BY <1>1, <2>1, <2>2, <2>3, <2>4 DEF Capture
<1>2. ASSUME NEW s \in Sessions, Drain(s) PROVE MarkerKept(t)
  <2>1. CASE DrainDone(s)
    <3>1. journal' = journal /\ indexed' = indexed /\ marker' = marker \ {s}
      BY <2>1 DEF DrainDone
    <3>2. CASE t = s
      BY <1>t, <2>1, <3>1, <3>2, IdleIsNotReserving DEF DrainDone, ReserveMarked, MarkerKept, Unmarked, Open
    <3>3. CASE t # s
      BY <1>t, <2>1, <3>1, <3>3, IdleIsNotReserving, MarkerFrame DEF DrainDone, Open
    <3> QED BY <3>2, <3>3
  <2>2. CASE DrainBlocked(s) \/ AppendConflict(s)
    <3>1. journal' = journal /\ indexed' = indexed /\ marker' = marker
      BY <2>2 DEF DrainBlocked, AppendConflict
    <3>2. At(t, "reserve")' => At(t, "reserve")
      BY <1>t, <2>2, IdleIsNotReserving DEF DrainBlocked, AppendConflict
    <3> QED BY <1>t, <3>1, <3>2, MarkerFrame DEF Open
  <2>3. CASE Publish(s) \/ DrainNext(s) \/ AppendBegin(s) \/ AppendEnd(s) \/ PersistDrain(s)
             \/ RemoveStage(s)
    <3>1. indexed' = indexed /\ marker' = marker
      BY <2>3 DEF Publish, DrainNext, AppendBegin, AppendEnd, PersistDrain, RemoveStage
    <3>2. At(t, "reserve")' => At(t, "reserve")
      BY <1>t, <2>3, GoesNotToReserve DEF Publish, DrainNext, AppendBegin, AppendEnd, PersistDrain,
                                          RemoveStage
    <3>3. journal' = journal \/ journal' = Advanced(s)
      BY <2>3 DEF Publish, DrainNext, AppendBegin, AppendEnd, PersistDrain, RemoveStage
    <3>4. Open(t)' => Open(t)
      <4>1. CASE journal' = journal
        BY <4>1 DEF Open
      <4>2. CASE journal' = Advanced(s)
        BY <1>t, <4>2, AdvancedPointers, PointersType DEF Open
      <4> QED BY <3>3, <4>1, <4>2
    <3> QED BY <1>t, <3>1, <3>2, <3>4, MarkerFrame
  <2> QED BY <1>2, <2>1, <2>2, <2>3 DEF Drain
<1>3. ASSUME NEW s \in Sessions, Recover(s) PROVE MarkerKept(t)
  <2>1. CASE IndexSession(s) \/ InspectAbsent(s)
    BY <1>0, <2>1 DEF IndexSession, InspectAbsent
  <2>2. CASE Inspect(s)
    <3>1. journal' = journal /\ indexed' = indexed /\ op' = op
      BY <2>2 DEF Inspect
    <3>2. CASE t = s /\ NothingLeft(s)
      BY <1>t, <2>2, <3>1, <3>2 DEF Inspect, NothingLeft, ReserveMarked, MarkerKept, Unmarked, At, Idle, Open
    <3>3. CASE t # s \/ ~ NothingLeft(s)
      <4>1. t \in marker => t \in marker'
        BY <2>2, <3>3 DEF Inspect
      <4> QED BY <1>0, <3>1, <4>1
    <3> QED BY <3>2, <3>3
  <2>3. CASE ApplyBegin(s) \/ Synthesize(s)
    <3>1. journal' = journal /\ indexed' = indexed /\ marker' = marker
      BY <2>3 DEF ApplyBegin, Synthesize
    <3>2. At(t, "reserve")' => At(t, "reserve")
      BY <1>t, <2>3 DEF ApplyBegin, Synthesize, At
    <3> QED BY <1>t, <3>1, <3>2, MarkerFrame DEF Open
  <2>4. CASE LeaveOpen(s)
    <3>1. journal' = journal /\ indexed' = indexed /\ marker' = marker
      BY <2>4 DEF LeaveOpen
    <3> QED BY <1>t, <2>4, <3>1, IdleIsNotReserving, MarkerFrame DEF LeaveOpen, Open
  <2> QED BY <1>3, <2>1, <2>2, <2>3, <2>4 DEF Recover
<1>4. CASE Daemon
  <2>1. CASE StartDaemon \/ StartLiveSweep \/ SweepDone \/ SweepFailed
    BY <1>0, <2>1 DEF StartDaemon, StartLiveSweep, SweepDone, SweepFailed
  <2>2. CASE ListSessions
    <3>1. journal' = journal /\ op' = op /\ marker' = marker
      BY <2>2 DEF ListSessions
    <3>2. CASE indexed
      BY <1>t, <3>1, <3>2 DEF ReserveMarked, MarkerKept, Unmarked, Open, At
    <3>3. CASE ~ indexed
      <4>1. Unindexed = {} /\ t \in sweep.dirs
        BY <2>2, <3>3 DEF ListSessions, WalkSees
      <4>2. Open(t) => t \in marker
        BY <1>t, <4>1 DEF Unindexed
      <4> QED BY <3>1, <4>2 DEF ReserveMarked, MarkerKept, Unmarked, Open, At
    <3> QED BY <3>2, <3>3
  <2>3. CASE ClearMarker
    BY <1>0, <2>3 DEF ClearMarker, WalkSees
  <2> QED BY <1>4, <2>1, <2>2, <2>3 DEF Daemon
<1>5. CASE Environment
  <2>1. CASE Crash \/ PowerCut
    <3>1. ~ At(t, "reserve")' /\ indexed' = indexed
      BY <1>t, <2>1 DEF Crash, PowerCut, Stop, At, Idle
    <3>2. marker' = marker
      BY <2>1 DEF Crash, PowerCut, MayLose, MarkerDurability
    <3>3. CASE journal'[t] = journal[t]
      BY <1>t, <3>1, <3>2, <3>3, MarkerFrame DEF Open
    <3>4. CASE journal'[t] \in unsynced[t]
      BY <3>1, <3>4 DEF MarkerKept, ReserveMarked
    <3> QED BY <1>t, <2>1, <3>3, <3>4 DEF Crash, PowerCut
  <2>2. ASSUME NEW s \in Sessions, WriteFails(s) PROVE MarkerKept(t)
    <3>1. journal' = journal /\ indexed' = indexed /\ marker' = marker
      BY <2>2 DEF WriteFails
    <3> QED BY <1>t, <2>2, <3>1, IdleIsNotReserving, MarkerFrame DEF WriteFails, Open
  <2>3. ASSUME NEW s \in Sessions, SyncFails(s) PROVE MarkerKept(t)
    <3>1. indexed' = indexed /\ marker' = marker
      BY <2>3 DEF SyncFails
    <3>2. At(t, "reserve")' => At(t, "reserve")
      BY <1>t, <2>3, IdleIsNotReserving DEF SyncFails
    <3>3. CASE t = s /\ At(s, "reserve")
      BY <1>t, <3>1, <3>3, MarkerStaysMarked DEF ReserveMarked, MarkerKept, Unmarked
    <3>4. CASE ~ (t = s /\ At(s, "reserve"))
      <4>1. Open(t)' => Open(t)
        <5>1. CASE At(s, "reserve") /\ journal' = Reserved(s)
          BY <1>t, <3>4, <5>1, ReservedPointers DEF Open
        <5>2. CASE At(s, "persist") /\ journal' = Advanced(s)
          BY <1>t, <5>2, AdvancedPointers, PointersType DEF Open
        <5>3. CASE journal' = journal
          BY <5>3 DEF Open
        <5> QED BY <2>3, <5>1, <5>2, <5>3 DEF SyncFails
      <4> QED BY <1>t, <3>1, <3>2, <4>1, MarkerFrame
    <3> QED BY <3>3, <3>4
  <2> QED BY <1>5, <2>1, <2>2, <2>3 DEF Environment
<1>6. CASE UNCHANGED vars
  BY <1>0, <1>6 DEF vars
<1> QED BY <1>1, <1>2, <1>3, <1>4, <1>5, <1>6 DEF Next

(* Whatever the instant of a crash, a failing call or a power cut, an      *)
(* established session whose journal is open has its marker: a recovery    *)
(* that reads only the markers finds it.  The only step that can leave one *)
(* without is the power cut that undoes a journal whose sync had failed.   *)
THEOREM MarkersFindOpenJournals == Spec => MarkerTracksOpenJournal
<1>1. Init => MarkerInv
  <2> SUFFICES ASSUME Init PROVE MarkerInv
    OBVIOUS
  <2>1. TypeInv
    BY TypeInit
  <2>2. \A s \in Established : journal[s].exists /\ unsynced[s] = {} /\ ~ At(s, "reserve")
    BY DEF Init, Established, At, Idle
  <2> QED BY <2>1, <2>2 DEF Init, MarkerInv, Established, NoSweep
<1>2. MarkerInv /\ [Next]_vars
        => /\ MarkerInv'
           /\ \A s \in Sessions \ Fresh :
                 Unmarked(s)' => Unmarked(s) \/ journal'[s] \in unsynced[s]
  <2> SUFFICES ASSUME MarkerInv, [Next]_vars
               PROVE  /\ MarkerInv'
                      /\ \A s \in Sessions \ Fresh :
                            Unmarked(s)' => Unmarked(s) \/ journal'[s] \in unsynced[s]
    OBVIOUS
  <2>1. TypeInv' /\ TypeInv /\ TypeOK
    BY TypeStep, FlowStep DEF TypeInv, MarkerInv
  <2>2. Established \subseteq dirs'
    BY DirsGrow DEF MarkerInv
  <2>3. WalkSees'
    BY <2>1, WalkStep DEF MarkerInv, WalkSees
  <2>4. ASSUME NEW t \in Established PROVE MarkerKept(t)
    BY <2>1, <2>4, MarkerStep DEF MarkerInv, ReserveMarked, WalkSees
  <2>5. ASSUME NEW t \in Established
        PROVE  journal'[t].exists /\ \A j \in unsynced'[t] : j.exists
    <3>0. t \in Sessions /\ journal[t].exists /\ \A j \in unsynced[t] : j.exists
      BY DEF MarkerInv, Established
    <3>1. CASE PowerCut
      BY <3>0, <3>1 DEF PowerCut
    <3>2. CASE ~ PowerCut
      <4>1. journal'[t].exists
        BY <2>1, <3>0, <3>2, AdvanceStep DEF JournalAdvances
      <4>2. unsynced'[t] \subseteq unsynced[t] \union {journal[t]}
        BY <2>1, <3>0, <3>2, OlderVersions
      <4> QED BY <3>0, <4>1, <4>2
    <3> QED BY <3>1, <3>2
  <2>6. \A t \in Established : At(t, "reserve")' => t \in marker'
    BY <2>4 DEF MarkerKept, ReserveMarked
  <2>7. \A s \in Sessions \ Fresh :
           Unmarked(s)' => Unmarked(s) \/ journal'[s] \in unsynced[s]
    BY <2>4 DEF MarkerKept, Established
  <2> QED BY <2>1, <2>2, <2>3, <2>5, <2>6, <2>7 DEF MarkerInv, WalkSees, Established
<1> QED BY <1>1, <1>2, PTL DEF Spec, MarkerTracksOpenJournal, Unmarked

-----------------------------------------------------------------------------
(* What a crash leaves behind, and that the next recovery copes with it.   *)

(* A step is one of t's own, ends every transaction, or leaves t alone.    *)
Own(t) == Capture(t) \/ Drain(t) \/ Recover(t) \/ WriteFails(t) \/ SyncFails(t)

LEMMA StepKinds ==
    ASSUME PowerLoss = FALSE, TypeOK, [Next]_vars, NEW t \in Sessions
    PROVE  Own(t) \/ Crash \/ Untouched(t)
<1> USE DEF log, staging, index, durable, process, bounds
<1>1. ASSUME NEW s \in Sessions, s # t,
             Capture(s) \/ Drain(s) \/ Recover(s) \/ WriteFails(s) \/ SyncFails(s)
      PROVE  Untouched(t)
  BY <1>1, CaptureOthers, DrainOthers, RecoverOthers, FaultOthers
<1>2. CASE Daemon \/ UNCHANGED vars
  BY <1>2 DEF Untouched, Daemon, StartDaemon, StartLiveSweep, ListSessions, ClearMarker,
              SweepDone, SweepFailed, vars
<1> QED BY <1>1, <1>2 DEF Next, Own, Environment, PowerCut

(* A session that holds no flock and may not take one, and one that is     *)
(* about to remove a stage: nothing but that happens to it.                *)
LEMMA RestingStep ==
    ASSUME PowerLoss = FALSE, CaptureInv, [Next]_vars, NEW t \in Sessions,
           op[t] = Idle, daemon # "serving", ~ ApplyBegin(t)
    PROVE  /\ op'[t] = Idle
           /\ journal'[t] = journal[t] /\ raw'[t] = raw[t] /\ torn'[t] = torn[t]
<1> USE DEF log, staging, index, durable, process, bounds
<1>0. TypeOK /\ SweepOk /\ active = {} /\ op \in [Sessions -> Transactions]
  BY DEF CaptureInv, TypeInv, TypeOK, SweepOk, StartIsAlone
<1>1. CASE Crash
  BY <1>1 DEF Crash, Stop
<1>2. CASE Untouched(t)
  BY <1>2 DEF Untouched
<1>3. CASE Capture(t)
  BY <1>0, <1>3 DEF Capture, CreateSession, ReserveBegin, ReserveMark, ReservePersist, Abandon,
                    CommitBegin, At, Idle
<1>4. CASE Drain(t)
  BY <1>4 DEF Drain, Publish, DrainDone, DrainNext, DrainBlocked, AppendBegin, AppendEnd,
              AppendConflict, PersistDrain, RemoveStage, At, Idle
<1>5. CASE Recover(t)
  BY <1>5 DEF Recover, IndexSession, InspectAbsent, Inspect, LeaveOpen, Synthesize, HeadMissing,
              HeadOpen, At, Idle
<1>6. CASE WriteFails(t) \/ SyncFails(t)
  BY <1>6 DEF WriteFails, SyncFails, At, Idle
<1> QED BY <1>0, <1>1, <1>2, <1>3, <1>4, <1>5, <1>6, StepKinds DEF Own

LEMMA RemovingStep ==
    ASSUME PowerLoss = FALSE, "io" \notin Faults, CaptureInv, [Next]_vars, NEW t \in Sessions,
           At(t, "remove"), ~ RemoveStage(t)
    PROVE  /\ op'[t] = op[t] \/ (op'[t] = Idle /\ daemon' = "down")
           /\ journal'[t] = journal[t] /\ raw'[t] = raw[t] /\ torn'[t] = torn[t]
<1> USE DEF log, staging, index, durable, process, bounds
<1>0. TypeOK
  BY DEF CaptureInv, TypeInv
<1>1. CASE Crash
  BY <1>1 DEF Crash, Stop
<1>2. CASE Untouched(t)
  BY <1>2 DEF Untouched
<1>3. CASE Capture(t)
  <2>1. op[t] # Idle
    BY DEF At, Idle
  <2>2. CreateSession(t) \/ \E n \in SeqNos : Abandon(t, n)
    BY <1>3, <2>1 DEF Capture, ReserveBegin, ReserveMark, ReservePersist, CommitBegin, At
  <2> QED BY <2>2 DEF CreateSession, Abandon
<1>4. CASE Drain(t)
  BY <1>4 DEF Drain, Publish, DrainDone, DrainNext, DrainBlocked, AppendBegin, AppendEnd,
              AppendConflict, PersistDrain, At
<1>5. CASE Recover(t)
  BY <1>5 DEF Recover, IndexSession, InspectAbsent, Inspect, ApplyBegin, LeaveOpen, Synthesize,
              HeadMissing, HeadOpen, At, Idle
<1>6. CASE WriteFails(t) \/ SyncFails(t)
  BY <1>6 DEF WriteFails, SyncFails, At
<1> QED BY <1>0, <1>1, <1>2, <1>3, <1>4, <1>5, <1>6, StepKinds DEF Own

(* The pass never loses sight of a session with something staged, before   *)
(* it comes to it.                                                         *)
LEMMA SweepMoves ==
    ASSUME TypeOK, [Next]_vars
    PROVE  \/ sweep' = sweep
           \/ sweep'.pc \in {"idle", "index", "failed"}
           \/ /\ sweep'.todo = sweep.todo /\ sweep'.pc = sweep.pc
              /\ \E s \in Sessions :
                      op[s].by = "recovery" /\ sweep'.inventory = sweep.inventory \ {s}
           \/ /\ ListSessions /\ \A s \in Sessions : HasStageEntries(s) => s \in sweep'.todo
           \/ /\ Listed /\ sweep'.todo = sweep.todo /\ sweep'.inventory = sweep.inventory
           \/ \E s \in Sessions :
                 /\ Listed /\ sweep'.todo = sweep.todo \ {s}
                 /\ \/ /\ InspectAbsent(s) /\ (HasStageEntries(s) => ~ journal[s].exists)
                       /\ sweep'.inventory = sweep.inventory
                    \/ /\ Inspect(s)
                       /\ sweep'.inventory = IF NothingLeft(s) THEN sweep.inventory
                                             ELSE sweep.inventory \union {s}
<1> USE DEF durable, process
<1>t. sweep \in Sweeps
  BY DEF TypeOK
<1>e. ASSUME NEW cause, SweepError(cause) PROVE sweep'.pc = "failed"
  BY <1>e DEF SweepError, NoSweep
<1>f. ASSUME NEW s \in Sessions, NEW cause, Finish(s) \/ Fail(s, cause)
      PROVE  \/ sweep' = sweep \/ sweep'.pc = "failed"
             \/ /\ sweep'.todo = sweep.todo /\ sweep'.pc = sweep.pc
                /\ op[s].by = "recovery" /\ sweep'.inventory = sweep.inventory \ {s}
  <2>1. CASE Finish(s)
    BY <1>t, <2>1 DEF Finish, Sweeps
  <2>2. CASE Fail(s, cause)
    BY <1>e, <2>2 DEF Fail
  <2> QED BY <1>f, <2>1, <2>2
<1>1. ASSUME NEW s \in Sessions, Capture(s) PROVE sweep' = sweep
  BY <1>1 DEF Capture, CreateSession, ReserveBegin, ReserveMark, ReservePersist, Abandon,
              CommitBegin
<1>2. ASSUME NEW s \in Sessions,
             \/ Publish(s) \/ DrainNext(s) \/ AppendBegin(s) \/ AppendEnd(s) \/ PersistDrain(s)
             \/ RemoveStage(s) \/ IndexSession(s) \/ Synthesize(s)
      PROVE  sweep' = sweep
  BY <1>2 DEF Publish, DrainNext, AppendBegin, AppendEnd, PersistDrain, RemoveStage, IndexSession,
              Synthesize
<1>3. ASSUME NEW s \in Sessions,
             \/ DrainDone(s) \/ DrainBlocked(s) \/ AppendConflict(s) \/ LeaveOpen(s)
             \/ WriteFails(s) \/ SyncFails(s)
      PROVE  \E cause : Finish(s) \/ Fail(s, cause)
  BY <1>3 DEF DrainDone, DrainBlocked, AppendConflict, LeaveOpen, WriteFails, SyncFails
<1>4. ASSUME NEW s \in Sessions, InspectAbsent(s)
      PROVE  \/ sweep'.pc = "failed"
             \/ /\ Listed /\ sweep'.todo = sweep.todo \ {s} /\ sweep'.inventory = sweep.inventory
                /\ HasStageEntries(s) => ~ journal[s].exists
  <2>1. CASE s \notin sweep.dirs /\ HasStageEntries(s)
    BY <1>4, <1>e, <2>1 DEF InspectAbsent
  <2>2. CASE ~ (s \notin sweep.dirs /\ HasStageEntries(s))
    BY <1>t, <1>4, <2>2 DEF InspectAbsent, Sweeps, Listed
  <2> QED BY <2>1, <2>2
<1>5. ASSUME NEW s \in Sessions, Inspect(s)
      PROVE  /\ Listed /\ sweep'.todo = sweep.todo \ {s}
             /\ sweep'.inventory = IF NothingLeft(s) THEN sweep.inventory
                                   ELSE sweep.inventory \union {s}
  BY <1>t, <1>5 DEF Inspect, Sweeps, Listed
<1>6. ASSUME NEW s \in Sessions, ApplyBegin(s) PROVE sweep' = sweep \/ sweep'.pc = "failed"
  BY <1>6, <1>e DEF ApplyBegin
<1>7. StartDaemon \/ StartLiveSweep => sweep'.pc = "index"
  BY DEF StartDaemon, StartLiveSweep, BeginSweep, NoSweep
<1>8. ASSUME ListSessions
      PROVE  sweep'.pc = "failed" \/ \A s \in Sessions : HasStageEntries(s) => s \in sweep'.todo
  <2>1. CASE markerTemp # {}
    BY <1>8, <1>e, <2>1 DEF ListSessions
  <2>2. CASE markerTemp = {}
    BY <1>t, <1>8, <2>2, ZenonT(60) DEF ListSessions, Sweeps
  <2> QED BY <2>1, <2>2
<1>9. ClearMarker => Listed /\ sweep'.todo = sweep.todo /\ sweep'.inventory = sweep.inventory
  BY <1>t DEF ClearMarker, Sweeps, Listed
<1>10. SweepDone \/ SweepFailed \/ Stop => sweep'.pc = "idle"
  BY DEF SweepDone, SweepFailed, Stop, NoSweep
<1>11. UNCHANGED vars => sweep' = sweep
  BY DEF vars
<1> QED BY <1>f, <1>1, <1>2, <1>3, <1>4, <1>5, <1>6, <1>7, <1>8, <1>9, <1>10, <1>11
           DEF Next, Drain, Recover, Daemon, Environment, Crash, PowerCut

(* The pass goes idle as the daemon begins to serve or goes down.          *)
LEMMA DaemonMoves ==
    ASSUME SweepOk, StartHasPass, [Next]_vars
    PROVE  \/ daemon' = daemon \/ daemon' = "down"
           \/ daemon = "down" /\ daemon' = "recovering" /\ sweep'.pc = "index"
           \/ SweepDone
<1> USE DEF durable, process
<1>1. ASSUME NEW s \in Sessions, Capture(s) PROVE daemon' = daemon
  BY <1>1 DEF Capture, CreateSession, ReserveBegin, ReserveMark, ReservePersist, Abandon,
              CommitBegin
<1>2. ASSUME NEW s \in Sessions, Drain(s) PROVE daemon' = daemon
  BY <1>2 DEF Drain, Publish, DrainDone, DrainNext, DrainBlocked, AppendBegin, AppendEnd,
              AppendConflict, PersistDrain, RemoveStage
<1>3. ASSUME NEW s \in Sessions, Recover(s) PROVE daemon' = daemon
  BY <1>3 DEF Recover, IndexSession, InspectAbsent, Inspect, ApplyBegin, LeaveOpen, Synthesize
<1>4. ASSUME NEW s \in Sessions, WriteFails(s) \/ SyncFails(s) PROVE daemon' = daemon
  BY <1>4 DEF WriteFails, SyncFails
<1>5. StartDaemon => daemon = "down" /\ daemon' = "recovering" /\ sweep'.pc = "index"
  BY DEF StartDaemon, BeginSweep, NoSweep
<1>6. StartLiveSweep \/ ListSessions \/ ClearMarker \/ UNCHANGED vars => daemon' = daemon
  BY DEF StartLiveSweep, ListSessions, ClearMarker, vars
<1>7. SweepFailed \/ Crash \/ PowerCut => daemon' = daemon \/ daemon' = "down"
  BY DEF SweepFailed, Crash, PowerCut, Stop
<1> QED BY <1>1, <1>2, <1>3, <1>4, <1>5, <1>6, <1>7 DEF Next, Daemon, Environment

LEMMA StartStep ==
    ASSUME TypeOK, SweepOk, SweepOk', StartHasPass, [Next]_vars
    PROVE  StartHasPass'
<1> USE DEF durable, process
<1>t. sweep \in Sweeps
  BY DEF TypeOK
<1>f. ASSUME NEW s \in Sessions, NEW cause, Finish(s) \/ Fail(s, cause)
      PROVE  sweep'.pc = sweep.pc \/ sweep'.pc = "failed"
  <2>1. CASE Finish(s)
    BY <1>t, <2>1 DEF Finish, Sweeps
  <2>2. CASE Fail(s, cause)
    BY <2>2 DEF Fail, SweepError, NoSweep
  <2> QED BY <1>f, <2>1, <2>2
<1> SUFFICES ASSUME daemon' = "recovering", sweep'.pc = "idle" PROVE FALSE
  BY DEF StartHasPass
<1>1. daemon = "recovering"
  BY DaemonMoves DEF SweepDone
<1>2. sweep.pc # "idle" /\ ~ sweep.live
  BY <1>1, <1>t DEF StartHasPass, SweepOk, PassHasDaemon, Sweeps
<1>3. ASSUME NEW s \in Sessions, Capture(s) \/ Drain(s) PROVE FALSE
  BY <1>2, <1>3, <1>f DEF Capture, CreateSession, ReserveBegin, ReserveMark, ReservePersist,
       Abandon, CommitBegin, Drain, Publish, DrainDone, DrainNext, DrainBlocked, AppendBegin,
       AppendEnd, AppendConflict, PersistDrain, RemoveStage
<1>4. ASSUME NEW s \in Sessions, Recover(s) PROVE FALSE
  <2>1. sweep'.pc = sweep.pc \/ sweep'.pc \in {"failed", "clear"}
    <3>1. CASE IndexSession(s) \/ Synthesize(s) \/ LeaveOpen(s)
      BY <1>f, <3>1 DEF IndexSession, Synthesize, LeaveOpen
    <3>2. CASE InspectAbsent(s) \/ Inspect(s) \/ ApplyBegin(s)
      BY <1>t, <3>2 DEF InspectAbsent, Inspect, ApplyBegin, SweepError, NoSweep, Sweeps
    <3> QED BY <1>4, <3>1, <3>2 DEF Recover
  <2> QED BY <1>2, <2>1
<1>5. ASSUME NEW s \in Sessions, WriteFails(s) \/ SyncFails(s) PROVE FALSE
  BY <1>2, <1>5, <1>f DEF WriteFails, SyncFails
<1>6. ~ Daemon
  BY <1>1, <1>2, <1>t DEF Daemon, StartDaemon, StartLiveSweep, ListSessions, ClearMarker, SweepDone,
                          SweepFailed, BeginSweep, SweepError, NoSweep, Sweeps
<1>7. ~ Crash /\ ~ PowerCut /\ ~ UNCHANGED vars
  BY <1>2 DEF Crash, PowerCut, Stop, vars
<1> QED BY <1>3, <1>4, <1>5, <1>6, <1>7 DEF Next, Environment

LEMMA AwaitsStays ==
    ASSUME CaptureInv, StartHasPass, [Next]_vars, NEW t \in Sessions, HasStageEntries(t),
           journal[t].exists, daemon # "serving"
    PROVE  /\ (Listed => t \in sweep.todo) =>
                  /\ daemon' # "serving"
                  /\ Inspect(t) \/ (Listed' => t \in sweep'.todo)
           /\ Awaits(t) /\ op[t] = Idle /\ ~ NothingStaged(t) => Awaits(t)'
<1>0. TypeOK /\ SweepOk /\ daemon \in {"down", "recovering"}
  BY DEF CaptureInv, TypeInv, TypeOK
<1>1. daemon = "down" => ~ Listed
  BY <1>0 DEF SweepOk, PassHasDaemon, Listed
<1>2. (Listed => t \in sweep.todo \/ t \in sweep.inventory) => daemon' \in {"down", "recovering"}
  BY <1>0, DaemonMoves DEF SweepDone, Listed
<1>3. (Listed => t \in sweep.todo) => Inspect(t) \/ (Listed' => t \in sweep'.todo)
  <2> HAVE Listed => t \in sweep.todo
  <2> QED BY <1>0, SweepMoves DEF Listed
<1>4. ASSUME Listed => t \in sweep.todo \cup sweep.inventory, op[t] = Idle, ~ NothingStaged(t)
      PROVE  Listed' => t \in sweep'.todo \cup sweep'.inventory
  <2>1. op[t].by # "recovery" /\ ~ NothingLeft(t)
    BY <1>4 DEF Idle, NothingLeft
  <2> QED BY <1>0, <1>4, <2>1, SweepMoves DEF Listed
<1> QED BY <1>0, <1>1, <1>2, <1>3, <1>4 DEF Awaits, Listed

(* A retired stage stays the last turn's until it is removed.              *)
LEMMA RetiredLastStep ==
    ASSUME PowerLoss = FALSE, "io" \notin Faults, RecoveryInv, [Next]_vars, NEW t \in Sessions
    PROVE  RetiredIsLast(t)'
<1> USE DEF log, staging, index, durable, process, bounds
<1>0. /\ TypeInv /\ TypeOK /\ SweepOk /\ SessionOk(t) /\ CaptureInv /\ StartHasPass
      /\ RetiredIsLast(t) /\ ReservedExists
  BY DEF RecoveryInv, AnswerInv, CaptureInv, TypeInv
<1> SUFFICES ASSUME NEW n \in SeqNos, stage'[t][n] # "none", n < journal'[t].drain
             PROVE  /\ n + 1 = journal'[t].drain /\ Len(raw'[t]) = journal'[t].drain
                    /\ torn'[t] = NoRecord
                    /\ At(t, "remove")' \/ (op'[t] = Idle /\ Awaits(t)')
  BY DEF RetiredIsLast, Staged, At
<1>n. n \in Nat /\ journal[t].drain \in Nat /\ Len(raw[t]) \in Nat
  BY <1>0, CaptureAssumption, SessionTypes DEF SeqNos
<1>1. stage'[t][n] = stage[t][n]
  <2>1. ASSUME Publish(t), n = op[t].seq PROVE FALSE
    <3>1. journal[t].drain <= n
      BY <1>0, <2>1 DEF Publish, SessionOk, TransactionOk
    <3>2. journal' = journal
      BY <2>1 DEF Publish
    <3> QED BY <1>n, <3>1, <3>2
  <2> QED BY <1>0, <2>1, StageChanges
<1>2. CASE n < journal[t].drain
  <2>1. /\ n + 1 = journal[t].drain /\ Len(raw[t]) = journal[t].drain /\ torn[t] = NoRecord
        /\ At(t, "remove") \/ (op[t] = Idle /\ Awaits(t))
    BY <1>0, <1>1, <1>2 DEF RetiredIsLast, Staged
  <2>2. CASE At(t, "remove")
    <3>1. ~ RemoveStage(t)
      <4>1. RemoveStage(t) => stage'[t][n] = "none"
        BY <1>0, <1>n, <2>1, SessionTypes DEF RemoveStage, TypeOK
      <4> QED BY <4>1
    <3>2. /\ op'[t] = op[t] \/ (op'[t] = Idle /\ daemon' = "down")
          /\ journal'[t] = journal[t] /\ raw'[t] = raw[t] /\ torn'[t] = torn[t]
      BY <1>0, <2>2, <3>1, RemovingStep
    <3> QED BY <2>1, <2>2, <3>2 DEF At, Awaits
  <2>3. CASE op[t] = Idle /\ Awaits(t)
    <3>1. daemon # "serving" /\ HasStageEntries(t) /\ ~ NothingStaged(t)
      BY <1>1, <2>3 DEF Awaits, HasStageEntries, NothingStaged, Staged
    <3>2. journal[t].exists
      <4>1. journal[t].next > 0
        BY <1>0, <1>n, <1>2, SessionTypes
      <4> QED BY <1>0, <4>1 DEF ReservedExists
    <3>3. Awaits(t)'
      BY <1>0, <2>3, <3>1, <3>2, AwaitsStays
    <3>4. ~ ApplyBegin(t) \/ (journal' = journal /\ raw' = raw /\ torn' = torn /\ op'[t] = Idle)
      <4>1. n \in Retired(t)
        BY <1>1, <1>2 DEF Retired, Staged
      <4>2. ApplyBegin(t) /\ RetiredOk(t) => stage'[t][n] = "none"
        BY <1>0, <4>1 DEF ApplyBegin, TypeOK
      <4> QED BY <2>3, <4>2 DEF ApplyBegin
    <3>5. /\ op'[t] = Idle
          /\ journal'[t] = journal[t] /\ raw'[t] = raw[t] /\ torn'[t] = torn[t]
      BY <1>0, <2>3, <3>1, <3>4, RestingStep
    <3> QED BY <2>1, <3>3, <3>5
  <2> QED BY <2>1, <2>2, <2>3
<1>3. CASE ~ (n < journal[t].drain)
  <2>1. journal'[t].drain = journal[t].drain + 1 /\ At(t, "persist") /\ raw' = raw
    BY <1>0, <1>n, <1>3, JournalChanges
  <2>2. PersistDrain(t)
    <3>1. ~ Crash /\ ~ Untouched(t)
      BY <1>n, <2>1 DEF Crash, Untouched
    <3>2. ~ Capture(t)
      <4>1. op[t] # Idle /\ ~ ReserveMark(t) /\ ~ ReservePersist(t)
        BY <2>1 DEF At, Idle, ReserveMark, ReservePersist
      <4>2. Capture(t) => journal' = journal
        BY <4>1 DEF Capture, CreateSession, ReserveBegin, Abandon, CommitBegin
      <4> QED BY <1>n, <2>1, <4>2
    <3>3. Drain(t) => PersistDrain(t)
      BY <2>1 DEF Drain, Publish, DrainDone, DrainNext, DrainBlocked, AppendBegin, AppendEnd,
                  AppendConflict, RemoveStage, At
    <3>4. ~ Recover(t)
      BY <1>n, <2>1 DEF Recover, IndexSession, InspectAbsent, Inspect, ApplyBegin, LeaveOpen,
                        Synthesize
    <3>5. ~ WriteFails(t) /\ ~ SyncFails(t)
      BY <1>n, <2>1 DEF WriteFails, SyncFails
    <3> QED BY <1>0, <3>1, <3>2, <3>3, <3>4, <3>5, StepKinds DEF Own
  <2>3. At(t, "remove")' /\ torn' = torn
    BY <1>0, <2>2, GoToMoves DEF PersistDrain, At
  <2>4. Len(raw[t]) = journal[t].drain + 1 /\ torn[t] = NoRecord
    BY <1>0, <2>1 DEF SessionOk, TransactionOk, TailIsStaged
  <2> QED BY <1>n, <1>3, <2>1, <2>3, <2>4
<1> QED BY <1>2, <1>3

(* A temporary is its writer's, or waits for the pass to remove it.        *)
LEMMA TempStep ==
    ASSUME PowerLoss = FALSE, RecoveryInv, [Next]_vars, NEW x \in stageTemp'
    PROVE  TempIsKnown(x)'
<1> USE DEF log, staging, index, durable, process, bounds
<1>0. TypeInv /\ TypeOK /\ SweepOk /\ CaptureInv /\ StartHasPass /\ ReservedExists
  BY DEF RecoveryInv, AnswerInv, CaptureInv, TypeInv
<1>1. CASE x \in stageTemp
  <2> DEFINE t == x[1]
  <2>0. t \in Sessions
    BY <1>0, <1>1 DEF TypeOK, StageTemps
  <2>1. TempIsKnown(x)
    BY <1>1 DEF RecoveryInv
  <2>2. journal'[t].exists
    BY <1>0, <2>0, <2>1, AdvanceStep DEF TempIsKnown, JournalAdvances, PowerCut
  <2>3. CASE At(t, "publish") /\ x = OwnTemp(t)
    <3>1. CASE Crash
      BY <2>2, <3>1 DEF Crash, Stop, NoSweep, Listed, TempIsKnown
    <3>2. CASE op'[t] = op[t]
      BY <2>2, <2>3, <3>2 DEF TempIsKnown, At, OwnTemp
    <3>3. ~ Publish(t) /\ ~ WriteFails(t)
      BY <1>0, <2>0, <2>3 DEF Publish, WriteFails
    <3>4. Capture(t) => op'[t] = op[t]
      <4>1. op[t] # Idle
        BY <2>3 DEF At, Idle
      <4>2. Capture(t) => CreateSession(t) \/ \E n \in SeqNos : Abandon(t, n)
        BY <2>3, <4>1 DEF Capture, ReserveBegin, ReserveMark, ReservePersist, CommitBegin, At
      <4> QED BY <4>2 DEF CreateSession, Abandon
    <3>5. ~ Drain(t) /\ ~ SyncFails(t)
      BY <2>3, <3>3 DEF Drain, DrainDone, DrainNext, DrainBlocked, AppendBegin, AppendEnd,
                        AppendConflict, PersistDrain, RemoveStage, SyncFails, At
    <3>6. Recover(t) => op'[t] = op[t]
      BY <2>3 DEF Recover, IndexSession, InspectAbsent, Inspect, ApplyBegin, LeaveOpen, Synthesize,
                  HeadMissing, HeadOpen, At, Idle
    <3> QED BY <1>0, <2>0, <3>1, <3>2, <3>3, <3>4, <3>5, <3>6, StepKinds DEF Own, Untouched
  <2>4. CASE daemon # "serving" /\ (Listed => t \in sweep.todo)
    <3>1. HasStageEntries(t) /\ journal[t].exists
      BY <1>1, <2>1 DEF HasStageEntries, TempIsKnown
    <3>2. ~ Inspect(t)
      BY DEF Inspect, WithoutTemps
    <3>3. daemon' # "serving" /\ (Listed' => t \in sweep'.todo)
      BY <1>0, <2>0, <2>4, <3>1, <3>2, AwaitsStays
    <3> QED BY <2>2, <3>3 DEF TempIsKnown
  <2> QED BY <2>1, <2>3, <2>4 DEF TempIsKnown
<1>2. CASE x \notin stageTemp
  <2>1. \E s \in Sessions : Synthesize(s) \/ \E n \in SeqNos : CommitBegin(s, n)
    <3>1. ASSUME NEW s \in Sessions, Capture(s), ~ \E n \in SeqNos : CommitBegin(s, n) PROVE FALSE
      BY <1>2, <3>1 DEF Capture, CreateSession, ReserveBegin, ReserveMark, ReservePersist, Abandon
    <3>2. ASSUME NEW s \in Sessions, Drain(s) PROVE FALSE
      BY <1>2, <3>2 DEF Drain, Publish, DrainDone, DrainNext, DrainBlocked, AppendBegin, AppendEnd,
                        AppendConflict, PersistDrain, RemoveStage
    <3>3. ASSUME NEW s \in Sessions, Recover(s), ~ Synthesize(s) PROVE FALSE
      BY <1>2, <3>3 DEF Recover, IndexSession, InspectAbsent, Inspect, ApplyBegin, LeaveOpen,
                        WithoutTemps
    <3>4. ~ Daemon /\ ~ UNCHANGED vars
      BY <1>2 DEF Daemon, StartDaemon, StartLiveSweep, ListSessions, ClearMarker, SweepDone,
                  SweepFailed, vars
    <3>5. ~ Environment
      BY <1>2 DEF Environment, Crash, PowerCut, WriteFails, SyncFails
    <3> QED BY <3>1, <3>2, <3>3, <3>4, <3>5 DEF Next
  <2>2. PICK s \in Sessions : Synthesize(s) \/ \E n \in SeqNos : CommitBegin(s, n)
    BY <2>1
  <2>3. SessionOk(s) /\ op \in [Sessions -> Transactions] /\ journal' = journal
    BY <1>0, <2>2 DEF CaptureInv, TypeOK, Synthesize, CommitBegin
  <2>4. CASE Synthesize(s)
    <3>1. x = <<s, journal[s].drain, "recovery">>
      BY <1>2, <2>4 DEF Synthesize
    <3>2. op'[s] = [pc |-> "publish", by |-> "recovery", seq |-> journal[s].drain]
      BY <2>3, <2>4 DEF Synthesize
    <3>3. journal[s].next > 0
      BY <1>0, <2>4, SessionTypes DEF Synthesize, HeadMissing, HeadOpen, Open
    <3> QED BY <1>0, <2>3, <3>1, <3>2, <3>3 DEF TempIsKnown, At, OwnTemp, ReservedExists
  <2>5. CASE \E n \in SeqNos : CommitBegin(s, n)
    <3>1. PICK n \in SeqNos : CommitBegin(s, n)
      BY <2>5
    <3>2. x = <<s, n, "commit">>
      BY <1>2, <3>1 DEF CommitBegin
    <3>3. op'[s] = [pc |-> "publish", by |-> "commit", seq |-> n]
      BY <2>3, <3>1 DEF CommitBegin
    <3>4. n < journal[s].next /\ n \in Nat
      <4>1. <<s, n>> \in active /\ op[s].by # "commit"
        BY <3>1 DEF CommitBegin, Idle
      <4> QED BY <2>3, <4>1, CaptureAssumption DEF SessionOk, ActiveIsOpen, SeqNos
    <3>5. journal[s].next > 0
      BY <1>0, <3>4, SessionTypes
    <3> QED BY <1>0, <2>3, <3>2, <3>3, <3>5 DEF TempIsKnown, At, OwnTemp, ReservedExists
  <2> QED BY <2>2, <2>4, <2>5
<1> QED BY <1>1, <1>2

(* Recovery meets no retired stage that it must refuse.                    *)
LEMMA RetiredReconciles ==
    ASSUME RecoveryInv, NEW s \in Sessions, op[s] = Idle
    PROVE  RetiredOk(s)
<1> SUFFICES ASSUME NEW n \in SeqNos, Staged(s, n), n < journal[s].drain
             PROVE  n + 1 = journal[s].drain /\ TailIs(s, [seq |-> n, by |-> stage[s][n]])
  BY DEF RetiredOk, Retired
<1>0. TypeInv /\ SessionOk(s) /\ RetiredIsRecorded(s) /\ RetiredIsLast(s)
  BY DEF RecoveryInv, AnswerInv, CaptureInv
<1>1. n + 1 = journal[s].drain /\ Len(raw[s]) = n + 1 /\ torn[s] = NoRecord
  BY <1>0 DEF RetiredIsLast
<1>2. n \in Nat /\ raw[s] \in Seq(Envelope) /\ Len(raw[s]) \in 1 .. Len(raw[s])
  BY <1>0, <1>1, SessionTypes, CaptureAssumption DEF SeqNos
<1>3. raw[s][n + 1] \in Envelope /\ raw[s] # <<>>
  BY <1>1, <1>2, EmptySeq
<1>4. raw[s][n + 1].seq = n /\ raw[s][n + 1].by = stage[s][n]
  BY <1>0, <1>1, <1>2 DEF SessionOk, TurnsMatch, RetiredIsRecorded
<1>5. raw[s][n + 1] = [seq |-> n, by |-> stage[s][n]]
  BY <1>3, <1>4 DEF Envelope
<1> QED BY <1>1, <1>3, <1>5 DEF TailIs

LEMMA CauseStep ==
    ASSUME RecoveryInv, [Next]_vars
    PROVE  sweep'.cause # "conflict"
<1> USE DEF durable, process
<1>t. TypeOK /\ sweep \in Sweeps /\ sweep.cause # "conflict"
  BY DEF RecoveryInv, AnswerInv, CaptureInv, TypeInv, TypeOK
<1>e. ASSUME NEW cause, cause # "conflict", SweepError(cause) PROVE sweep'.cause # "conflict"
  BY <1>e DEF SweepError, NoSweep
<1>f. ASSUME NEW s \in Sessions, Finish(s) \/ Fail(s, "io") PROVE sweep'.cause # "conflict"
  BY <1>t, <1>e, <1>f DEF Finish, Fail, Sweeps
<1>0. sweep' = sweep => sweep'.cause # "conflict"
  BY <1>t
<1>1. ASSUME NEW s \in Sessions, Capture(s) PROVE sweep' = sweep
  BY <1>1 DEF Capture, CreateSession, ReserveBegin, ReserveMark, ReservePersist, Abandon,
              CommitBegin
<1>2. ASSUME NEW s \in Sessions, Drain(s) PROVE sweep'.cause # "conflict"
  <2>1. ~ AppendConflict(s)
    BY InvReconciles DEF AppendConflict, AppendsReconcile, RecoveryInv, AnswerInv
  <2>2. CASE DrainDone(s) \/ DrainBlocked(s)
    BY <1>f, <2>2 DEF DrainDone, DrainBlocked
  <2>3. CASE \/ Publish(s) \/ DrainNext(s) \/ AppendBegin(s) \/ AppendEnd(s) \/ PersistDrain(s)
             \/ RemoveStage(s)
    BY <1>0, <2>3 DEF Publish, DrainNext, AppendBegin, AppendEnd, PersistDrain, RemoveStage
  <2> QED BY <1>2, <2>1, <2>2, <2>3 DEF Drain
<1>3. ASSUME NEW s \in Sessions, Recover(s) PROVE sweep'.cause # "conflict"
  <2>1. CASE IndexSession(s) \/ Synthesize(s)
    BY <1>0, <2>1 DEF IndexSession, Synthesize
  <2>2. CASE InspectAbsent(s)
    <3>1. CASE s \notin sweep.dirs /\ HasStageEntries(s)
      BY <1>e, <2>2, <3>1 DEF InspectAbsent
    <3>2. CASE ~ (s \notin sweep.dirs /\ HasStageEntries(s))
      BY <1>t, <2>2, <3>2 DEF InspectAbsent, Sweeps
    <3> QED BY <3>1, <3>2
  <2>3. CASE Inspect(s)
    BY <1>t, <2>3 DEF Inspect, Sweeps
  <2>4. CASE ApplyBegin(s)
    BY <1>0, <2>4, RetiredReconciles DEF ApplyBegin
  <2>5. CASE LeaveOpen(s)
    BY <1>f, <2>5 DEF LeaveOpen
  <2> QED BY <1>3, <2>1, <2>2, <2>3, <2>4, <2>5 DEF Recover
<1>4. CASE Daemon
  <2>1. CASE ListSessions
    <3>1. CASE markerTemp # {}
      BY <1>e, <2>1, <3>1 DEF ListSessions
    <3>2. CASE markerTemp = {}
      BY <1>t, <2>1, <3>2 DEF ListSessions, Sweeps
    <3> QED BY <3>1, <3>2
  <2>2. CASE ClearMarker
    BY <1>t, <2>2 DEF ClearMarker, Sweeps
  <2>3. CASE StartDaemon \/ StartLiveSweep \/ SweepDone \/ SweepFailed
    <3>1. CASE StartDaemon \/ StartLiveSweep
      BY <3>1 DEF StartDaemon, StartLiveSweep, BeginSweep, NoSweep
    <3>2. CASE SweepDone \/ SweepFailed
      BY <3>2 DEF SweepDone, SweepFailed, NoSweep
    <3> QED BY <2>3, <3>1, <3>2
  <2> QED BY <1>4, <2>1, <2>2, <2>3 DEF Daemon
<1>5. CASE Environment
  BY <1>5, <1>f DEF Environment, Crash, PowerCut, Stop, NoSweep, WriteFails, SyncFails
<1>6. CASE UNCHANGED vars
  BY <1>0, <1>6 DEF vars
<1> QED BY <1>0, <1>1, <1>2, <1>3, <1>4, <1>5, <1>6 DEF Next

LEMMA ExistsStep ==
    ASSUME PowerLoss = FALSE, RecoveryInv, [Next]_vars
    PROVE  ReservedExists'
<1>0. TypeOK /\ CaptureInv /\ ReservedExists
  BY DEF RecoveryInv, AnswerInv, CaptureInv, TypeInv
<1> SUFFICES ASSUME NEW t \in Sessions, journal'[t].next > 0 PROVE journal'[t].exists
  BY DEF ReservedExists
<1>1. CASE journal'[t].next = journal[t].next
  BY <1>0, <1>1, AdvanceStep DEF ReservedExists, JournalAdvances, PowerCut
<1>2. CASE journal'[t].next # journal[t].next
  <2>1. ReservePersist(t) \/ (SyncFails(t) /\ At(t, "reserve"))
    BY <1>0, <1>2, JournalChanges
  <2>2. journal' = Reserved(t)
    BY <2>1 DEF ReservePersist, SyncFails, At
  <2> QED BY <1>0, <2>2 DEF TypeOK, Reserved
<1> QED BY <1>1, <1>2

LEMMA RecoveryInit == Init => RecoveryInv
<1> SUFFICES ASSUME Init PROVE RecoveryInv
  OBVIOUS
<1>1. AnswerInv
  BY AnswerInit
<1>2. ReservedExists
  BY DEF ReservedExists, Init
<1>3. ASSUME NEW s \in Sessions PROVE RetiredIsLast(s)
  BY DEF RetiredIsLast, Staged, Init
<1> QED BY <1>1, <1>2, <1>3 DEF RecoveryInv, StartHasPass, Init, NoSweep

LEMMA RecoveryStep ==
    ASSUME PowerLoss = FALSE, "io" \notin Faults
    PROVE  RecoveryInv /\ [Next]_vars => RecoveryInv'
<1> SUFFICES ASSUME RecoveryInv, [Next]_vars PROVE RecoveryInv'
  OBVIOUS
<1>1. AnswerInv /\ AnswerInv'
  BY AnswerStep DEF RecoveryInv
<1>2. StartHasPass'
  BY <1>1, StartStep DEF RecoveryInv, AnswerInv, CaptureInv, TypeInv
<1> QED BY <1>1, <1>2, ExistsStep, RetiredLastStep, TempStep, CauseStep DEF RecoveryInv

(* Whatever a crash left behind - a torn record, a stage whose turn is     *)
(* already drained, a temporary - no commit and no recovery has to refuse  *)
(* it, and the daemon never serves beside a leftover.  A failing unlink is *)
(* the exception, and a power cut.                                         *)
THEOREM RecoveryReconciles ==
    ASSUME PowerLoss = FALSE, "io" \notin Faults
    PROVE  Spec => []NothingIrreconcilable
<1>1. Init => RecoveryInv
  BY RecoveryInit
<1>2. RecoveryInv /\ [Next]_vars => RecoveryInv'
  BY RecoveryStep
<1>3. RecoveryInv => NothingIrreconcilable
  BY InvReconciles DEF RecoveryInv, AnswerInv, NothingIrreconcilable, StagingIsClean, TempIsKnown
<1> QED BY <1>1, <1>2, <1>3, PTL DEF Spec
=============================================================================
