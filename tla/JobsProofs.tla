---------------------------- MODULE JobsProofs ----------------------------
(***************************************************************************)
(* A job's fence, ledger and flock keep its attempts apart and accounted   *)
(* for, for any number of attempts, deaths and faults; and the daemon's    *)
(* queue and its slots keep the workers of a class within its capacity,    *)
(* for any number of jobs, classes, slots, workers and restarts.           *)
(***************************************************************************)
EXTENDS JobAttempts, WorkerCapacity, FiniteSetTheorems, SequenceTheorems,
        WellFoundedInduction, TLAPS

-----------------------------------------------------------------------------
(***************************************************************************)
(* The attempts of one job.                                                *)
(***************************************************************************)

\* The fence is of the latest attempt, the later ones have done nothing, and
\* only a script that asked for it made it retryable.
FenceIsLatest ==
    /\ fence.id = 0 => fence = NoFence
    /\ fence.retryable => script[fence.id] = "exit75"
    /\ \A k \in DOMAIN ledger : ledger[k].id <= attempts
    /\ \A id \in Ids : id > attempts => id \notin scheduled /\ script[id] = "none"

\* What the holder of the flock has found out stays true until it acts on it.
HolderKnows(c) ==
    /\ call[c].pc \in {"append", "abandon", "execute", "running"} =>
           fence.id # 0 /\ call[c].id = fence.id /\ ~InLedger(fence.id) /\ ~fence.retryable
    /\ call[c].pc = "append" => receipt[fence.id] \in Conclusive
    /\ call[c].pc = "publish" => fence = NoFence
    /\ call[c].pc = "remove" =>
           fence.id # 0 /\ (fence.retryable \/ InLedger(fence.id) \/ job.idempotent)
    /\ call[c].pc = "clear" => fence.id # 0 /\ InLedger(fence.id)

\* A scheduled attempt is of the interval that is running, until it is recorded.
DueUntilRecorded == fence.id \in scheduled /\ ~InLedger(fence.id) => due

\* Each interval that ended, and the current one once it is not due, has one
\* scheduled record at most.
Recorded == {id \in scheduled : InLedger(id)}
Spent == IF due THEN intervals - 1 ELSE intervals
RecordsAreSpent == intervals < MaxAttempts => Cardinality(Recorded) <= Spent

AttemptIInv ==
    /\ TypeOK
    /\ FenceIsLatest
    /\ \A c \in Callers : HolderKnows(c)
    /\ OneRecordPerAttempt
    /\ EveryAttemptIsAccounted
    /\ DueUntilRecorded
    /\ RecordsAreSpent

-----------------------------------------------------------------------------
(* How a call moves, and what an append does to the ledger.                *)

LEMMA GotoMoves ==
    ASSUME call \in [Callers -> Calls], NEW c \in Callers, NEW pc \in Steps, Goto(c, pc)
    PROVE  /\ call' \in [Callers -> Calls]
           /\ call'[c].pc = pc /\ call'[c].id = call[c].id
           /\ \A d \in Callers : d # c => call'[d] = call[d]
<1>1. [call[c] EXCEPT !.pc = pc] \in Calls
  BY DEF Calls
<1> QED  BY <1>1 DEF Goto, Calls

LEMMA GoesMoves ==
    ASSUME call \in [Callers -> Calls], NEW c \in Callers, NEW pc \in Steps,
           NEW id \in 0..MaxAttempts, Goes(c, pc, id)
    PROVE  /\ call' \in [Callers -> Calls]
           /\ call'[c].pc = pc /\ call'[c].id = id
           /\ \A d \in Callers : d # c => call'[d] = call[d]
<1>1. [call[c] EXCEPT !.pc = pc, !.id = id] \in Calls
  BY DEF Calls
<1> QED  BY <1>1 DEF Goes, Calls

LEMMA ReleaseMoves ==
    ASSUME call \in [Callers -> Calls], NEW c \in Callers, Release(c)
    PROVE  /\ call' \in [Callers -> Calls]
           /\ call'[c].pc = "idle" /\ lock' = "free"
           /\ \A d \in Callers : d # c => call'[d] = call[d]
<1>1. Idle \in Calls
  BY JobAttemptsAssumption DEF Idle, Calls, Steps
<1> QED  BY <1>1 DEF Release, Idle

LEMMA AppendedIsIn ==
    ASSUME ledger \in Seq(Records), NEW id \in Ids, NEW outcome \in Conclusive,
           ledger' = Append(ledger, [id |-> id, outcome |-> outcome])
    PROVE  /\ ledger' \in Seq(Records)
           /\ \A i : InLedger(i)' <=> InLedger(i) \/ i = id
           /\ DOMAIN ledger' = 1..(Len(ledger) + 1)
           /\ \A k \in DOMAIN ledger : ledger'[k] = ledger[k]
           /\ ledger'[Len(ledger) + 1].id = id
<1>1. [id |-> id, outcome |-> outcome] \in Records
  BY DEF Records
<1>2. /\ ledger' \in Seq(Records)
      /\ DOMAIN ledger' = 1..(Len(ledger) + 1)
      /\ \A k \in DOMAIN ledger : ledger'[k] = ledger[k]
      /\ ledger'[Len(ledger) + 1] = [id |-> id, outcome |-> outcome]
  BY <1>1
<1>3. DOMAIN ledger = 1..Len(ledger) /\ Len(ledger) \in Nat
  OBVIOUS
<1>4. ASSUME NEW i
      PROVE  InLedger(i)' <=> InLedger(i) \/ i = id
  BY <1>2, <1>3 DEF InLedger
<1> QED  BY <1>2, <1>4

LEMMA RecordedIsFinite ==
    ASSUME TypeOK
    PROVE  /\ IsFiniteSet(scheduled) /\ IsFiniteSet(Recorded)
           /\ Cardinality(Recorded) \in Nat /\ Cardinality(Recorded) <= MaxAttempts
<1>1. IsFiniteSet(Ids) /\ Cardinality(Ids) = MaxAttempts
  <2>1. 1 \in Int /\ MaxAttempts \in Int /\ 1 <= MaxAttempts /\ MaxAttempts - 1 + 1 = MaxAttempts
    BY JobAttemptsAssumption
  <2> QED  BY <2>1, FS_Interval DEF Ids
<1>2. scheduled \in SUBSET Ids /\ Recorded \in SUBSET scheduled /\ Recorded \in SUBSET Ids
  BY DEF TypeOK, Recorded
<1> QED  BY <1>1, <1>2, FS_Subset, FS_CardinalityType

\* Two callers do not hold the flock at once.
Holds(c) == call[c].pc \notin {"idle", "admitted"}

LEMMA OneHolder ==
    ASSUME TypeOK, NEW c \in Callers, NEW d \in Callers, Holds(c), Holds(d)
    PROVE  c = d
BY DEF TypeOK, Holds

\* Whoever gives the flock back knows nothing any more.
LEMMA ReleaseKeeps ==
    ASSUME NEW c \in Callers, AttemptIInv, Holds(c), Release(c),
           UNCHANGED <<job, fence, ledger, torn, receipt, due, script, attempts, intervals,
                       scheduled, deaths, faults>>
    PROVE  AttemptIInv'
<1> USE JobAttemptsAssumption DEF AttemptIInv
<1>1. TypeOK'
  BY ReleaseMoves DEF TypeOK, Holds
<1>2. \A d \in Callers : HolderKnows(d)'
  BY ReleaseMoves DEF TypeOK, HolderKnows, InLedger
<1>3. /\ FenceIsLatest' /\ OneRecordPerAttempt' /\ EveryAttemptIsAccounted'
      /\ DueUntilRecorded' /\ RecordsAreSpent'
  BY DEF FenceIsLatest, OneRecordPerAttempt, EveryAttemptIsAccounted, InLedger, DueUntilRecorded,
         RecordsAreSpent, Recorded, Spent
<1> QED  BY <1>1, <1>2, <1>3

\* A torn ledger ends the dispatch.
LEMMA LedgerUnreadableKeeps ==
    ASSUME NEW c \in Callers, AttemptIInv, LedgerUnreadable(c)
    PROVE  AttemptIInv'
BY ReleaseKeeps DEF LedgerUnreadable, At, Holds

\* An interval passes.
LEMMA IntervalPassesKeeps ==
    ASSUME AttemptIInv, IntervalPasses
    PROVE  AttemptIInv'
<1> USE JobAttemptsAssumption DEF AttemptIInv, TypeOK, At, IntervalPasses
<1>1. TypeOK'
  BY DEF Ids, Conclusive, Ended, Fences, Steps, FenceIsLatest, HolderKnows, NoFence
<1>2. DueUntilRecorded'
  BY DEF DueUntilRecorded, HolderKnows, InLedger, FenceIsLatest, NoFence, Ids
<1>3. RecordsAreSpent'
  BY DEF RecordsAreSpent, Recorded, Spent, InLedger, Ids
<1>4. /\ FenceIsLatest' /\ \A d \in Callers : HolderKnows(d)'
      /\ OneRecordPerAttempt' /\ EveryAttemptIsAccounted'
  BY DEF FenceIsLatest, HolderKnows, InLedger, OneRecordPerAttempt, EveryAttemptIsAccounted
<1> QED  BY <1>1, <1>2, <1>3, <1>4

\* The scheduler finds the job due.
LEMMA AdmitKeeps ==
    ASSUME AttemptIInv, Admit
    PROVE  AttemptIInv'
<1> USE JobAttemptsAssumption DEF AttemptIInv, TypeOK, At, Admit
<1>1. TypeOK'
  BY GotoMoves DEF Ids, Conclusive, Ended, Fences, Steps, FenceIsLatest, HolderKnows, NoFence
<1>2. \A d \in Callers : HolderKnows(d)'
  BY GotoMoves, OneHolder, SMTT(60) DEF HolderKnows, InLedger, FenceIsLatest, Conclusive,
     Steps, Holds, Ids
<1>3. /\ FenceIsLatest' /\ OneRecordPerAttempt' /\ EveryAttemptIsAccounted'
      /\ DueUntilRecorded' /\ RecordsAreSpent'
  BY DEF FenceIsLatest, OneRecordPerAttempt, EveryAttemptIsAccounted, InLedger, DueUntilRecorded,
         RecordsAreSpent, Recorded, Spent
<1> QED  BY <1>1, <1>2, <1>3

\* What taking the flock does.
LEMMA AcquireFacts ==
    ASSUME NEW c \in Callers, Acquire(c)
    PROVE  /\ UNCHANGED <<job, fence, ledger, torn, receipt, due, script, attempts, intervals,
                          scheduled, deaths, faults>>
           /\ At(c, "idle") \/ At(c, "admitted")
           /\ \/ lock' = lock /\ call' = [call EXCEPT ![c] = Idle]
              \/ /\ lock = "free" /\ lock' = c
                 /\ \E u \in BOOLEAN :
                        call' = [call EXCEPT ![c] = [pc |-> "reconcile", id |-> 0, unblocks |-> u]]
<1>1. CASE lock = "free"
  BY <1>1 DEF Acquire, At
<1>2. CASE lock # "free"
  BY <1>2 DEF Acquire, At
<1> QED  BY <1>1, <1>2

\* The flock is taken, or the dispatch given up.
LEMMA AcquireKeeps ==
    ASSUME NEW c \in Callers, AttemptIInv, Acquire(c)
    PROVE  AttemptIInv'
<1> USE JobAttemptsAssumption DEF AttemptIInv
<1>1. Idle \in Calls /\ \A u \in BOOLEAN : [pc |-> "reconcile", id |-> 0, unblocks |-> u] \in Calls
  BY DEF Calls, Steps, Idle
<1>2. /\ call' \in [Callers -> Calls]
      /\ \A d \in Callers : d # c => call'[d] = call[d]
      /\ \/ lock' = lock /\ call'[c].pc = "idle"
         \/ lock = "free" /\ lock' = c /\ call'[c].pc = "reconcile"
  <2>1. CASE lock' = lock /\ call' = [call EXCEPT ![c] = Idle]
    BY <1>1, <2>1 DEF TypeOK, Idle
  <2>2. CASE /\ lock = "free" /\ lock' = c
             /\ \E u \in BOOLEAN :
                    call' = [call EXCEPT ![c] = [pc |-> "reconcile", id |-> 0, unblocks |-> u]]
    BY <1>1, <2>2 DEF TypeOK
  <2> QED  BY <2>1, <2>2, AcquireFacts
<1>3. TypeOK'
  <2>1. \A d \in Callers : lock' = d <=> call'[d].pc \notin {"idle", "admitted"}
    BY <1>2, AcquireFacts DEF TypeOK, At
  <2> QED  BY <1>2, <2>1, AcquireFacts DEF TypeOK
<1>4. \A d \in Callers : HolderKnows(d)'
  BY <1>2, AcquireFacts DEF HolderKnows, InLedger
<1>5. /\ FenceIsLatest' /\ OneRecordPerAttempt' /\ EveryAttemptIsAccounted'
      /\ DueUntilRecorded' /\ RecordsAreSpent'
  <2>1. UNCHANGED <<job, fence, ledger, due, script, attempts, intervals, scheduled>>
    BY AcquireFacts
  <2> QED  BY <2>1 DEF FenceIsLatest, OneRecordPerAttempt, EveryAttemptIsAccounted, InLedger,
                       DueUntilRecorded, RecordsAreSpent, Recorded, Spent
<1> QED  BY <1>3, <1>4, <1>5

\* The fence is judged.
LEMMA ReconcileKeeps ==
    ASSUME NEW c \in Callers, AttemptIInv, Reconcile(c)
    PROVE  AttemptIInv'
<1> USE JobAttemptsAssumption DEF AttemptIInv, TypeOK, At, Reconcile, Settled, Blocked, SafeToRepeat
<1>1. TypeOK'
  <2>1. call' \in [Callers -> Calls] /\ lock' \in Callers \cup {"free"}
    BY GotoMoves, GoesMoves, ReleaseMoves DEF Steps, Fences
  <2>2. \A d \in Callers : lock' = d <=> call'[d].pc \notin {"idle", "admitted"}
    BY GotoMoves, GoesMoves, ReleaseMoves DEF Steps, Fences
  <2> QED  BY <2>1, <2>2
<1>2. \A d \in Callers : HolderKnows(d)'
  <2>1. \A d \in Callers : d # c => call'[d] = call[d] /\ call[d].pc \in {"idle", "admitted"}
    BY GotoMoves, GoesMoves, ReleaseMoves DEF Steps, Fences
  <2>2. \/ call'[c].pc = "idle"
        \/ fence = NoFence /\ call'[c].pc = "publish"
        \/ fence # NoFence /\ call'[c].pc = "remove"
           /\ (fence.retryable \/ InLedger(fence.id) \/ job.idempotent)
        \/ fence # NoFence /\ ~fence.retryable /\ ~InLedger(fence.id) /\ call'[c].id = fence.id
           /\ call'[c].pc \in {"execute", "abandon", "append"}
           /\ (call'[c].pc = "append" => receipt[fence.id] \in Conclusive)
    BY GotoMoves, GoesMoves, ReleaseMoves DEF Steps, Fences, Conclusive
  <2>3. HolderKnows(c)'
    BY <2>2 DEF HolderKnows, InLedger, FenceIsLatest
  <2> QED  BY <2>1, <2>3 DEF HolderKnows, InLedger
<1>3. /\ FenceIsLatest' /\ OneRecordPerAttempt' /\ EveryAttemptIsAccounted'
      /\ DueUntilRecorded' /\ RecordsAreSpent'
  BY DEF FenceIsLatest, OneRecordPerAttempt, EveryAttemptIsAccounted, InLedger, DueUntilRecorded,
         RecordsAreSpent, Recorded, Spent
<1> QED  BY <1>1, <1>2, <1>3

\* A pending agent run is recovered.
LEMMA RecoverKeeps ==
    ASSUME NEW c \in Callers, AttemptIInv, Recover(c)
    PROVE  AttemptIInv'
<1> USE JobAttemptsAssumption DEF AttemptIInv, TypeOK, At, Recover, Blocked
<1>1. TypeOK'
  BY DEF Ids, Conclusive, Ended, Fences, Steps, FenceIsLatest, HolderKnows, NoFence
<1>2. \A d \in Callers : HolderKnows(d)'
  BY OneHolder DEF HolderKnows, InLedger, FenceIsLatest, Conclusive, Holds, Ids
<1>3. /\ FenceIsLatest' /\ OneRecordPerAttempt' /\ EveryAttemptIsAccounted'
      /\ DueUntilRecorded' /\ RecordsAreSpent'
  BY DEF FenceIsLatest, OneRecordPerAttempt, EveryAttemptIsAccounted, InLedger, DueUntilRecorded,
         RecordsAreSpent, Recorded, Spent
<1> QED  BY <1>1, <1>2, <1>3

\* A settled fence is removed.
LEMMA RemoveFenceKeeps ==
    ASSUME NEW c \in Callers, AttemptIInv, RemoveFence(c)
    PROVE  AttemptIInv'
<1> USE JobAttemptsAssumption DEF AttemptIInv, TypeOK, At, RemoveFence
<1>1. TypeOK'
  <2>1. call' \in [Callers -> Calls] /\ lock' \in Callers \cup {"free"}
    BY GotoMoves, ReleaseMoves DEF Steps
  <2>2. \A d \in Callers : lock' = d <=> call'[d].pc \notin {"idle", "admitted"}
    BY GotoMoves, ReleaseMoves DEF Steps
  <2>3. fence' \in Fences /\ fence'.id = 0
    BY DEF Fences, NoFence
  <2> QED  BY <2>1, <2>2, <2>3
<1>2. FenceIsLatest'
  BY DEF FenceIsLatest, HolderKnows, NoFence, Ids
<1>3. \A d \in Callers : HolderKnows(d)'
  BY GotoMoves, ReleaseMoves, OneHolder DEF HolderKnows, InLedger, FenceIsLatest, Conclusive,
     Steps, Holds, Ids
<1>4. EveryAttemptIsAccounted'
  BY SMTT(60) DEF EveryAttemptIsAccounted, HolderKnows, InLedger, FenceIsLatest, NoFence, Ids
<1>5. DueUntilRecorded'
  BY DEF DueUntilRecorded, HolderKnows, InLedger, FenceIsLatest, NoFence, Ids
<1>6. OneRecordPerAttempt' /\ RecordsAreSpent'
  BY DEF OneRecordPerAttempt, RecordsAreSpent, Recorded, Spent, InLedger
<1> QED  BY <1>1, <1>2, <1>3, <1>4, <1>5, <1>6

\* What publishing does, case by case.
LEMMA PublishFacts ==
    ASSUME NEW c \in Callers, Publish(c)
    PROVE  /\ At(c, "publish")
           /\ UNCHANGED <<job, ledger, torn, receipt, due, script, intervals, deaths, faults>>
           /\ (c = "scheduled" /\ ~due) => Release(c) /\ UNCHANGED <<attempts, fence, scheduled>>
           /\ (c # "scheduled" \/ due) =>
                  /\ attempts' = attempts + 1 /\ attempts < MaxAttempts
                  /\ \E a \in {"script", job.action} :
                         fence' = [id |-> attempts + 1, retryable |-> FALSE, action |-> a]
                  /\ Goes(c, "execute", attempts + 1) /\ lock' = lock
           /\ (c = "scheduled" /\ due) => scheduled' = scheduled \cup {attempts + 1}
           /\ c # "scheduled" => scheduled' = scheduled
<1>1. CASE c = "scheduled" 
  BY <1>1 DEF Publish, StillDue
<1>2. CASE c # "scheduled" 
  BY <1>2 DEF Publish, StillDue
<1> QED BY <1>1, <1>2

\* A fence is published of an attempt that nothing knows yet.
LEMMA PublishKeeps ==
    ASSUME NEW c \in Callers, AttemptIInv, Publish(c)
    PROVE  AttemptIInv'
<1> USE JobAttemptsAssumption DEF AttemptIInv
<1>1. CASE c = "scheduled" /\ ~due
  BY <1>1, PublishFacts, ReleaseKeeps DEF At, Holds
<1>2. CASE c # "scheduled" \/ due
  <2>1. PICK a \in {"script", job.action} :
            fence' = [id |-> attempts + 1, retryable |-> FALSE, action |-> a]
    BY <1>2, PublishFacts
  <2>2. attempts' = attempts + 1 /\ attempts' \in Ids /\ fence = NoFence
    BY <1>2, PublishFacts DEF TypeOK, Ids, At, HolderKnows
  <2>3. ~InLedger(attempts + 1)
    BY <2>2 DEF TypeOK, FenceIsLatest, InLedger, Ids
  <2>4. /\ scheduled' = scheduled \/ (scheduled' = scheduled \cup {attempts + 1} /\ due)
        /\ UNCHANGED <<job, ledger, torn, receipt, due, script, intervals, deaths, faults>>
        /\ Goes(c, "execute", attempts + 1) /\ lock' = lock /\ Holds(c)
    BY <1>2, PublishFacts DEF At, Holds
  <2>5. /\ call' \in [Callers -> Calls]
        /\ call'[c].pc = "execute" /\ call'[c].id = attempts + 1
        /\ \A d \in Callers : d # c => call'[d] = call[d] /\ ~Holds(d)
    BY <2>2, <2>4, GoesMoves, OneHolder DEF TypeOK, Steps, Ids
  <2>6. TypeOK'
    <3>1. fence' \in Fences /\ fence'.id = attempts'
      <4>1. job.action \in {"script", "compression"} /\ attempts + 1 \in 0..MaxAttempts
        BY <2>2 DEF TypeOK, Ids
      <4> QED  BY <2>1, <2>2, <4>1 DEF Fences
    <3>2. \A d \in Callers : lock' = d <=> call'[d].pc \notin {"idle", "admitted"}
      BY <2>4, <2>5 DEF TypeOK, Holds
    <3>3. scheduled' \subseteq Ids /\ attempts' \in 0..MaxAttempts
      <4>1. scheduled' \subseteq scheduled \cup {attempts + 1}
        BY <1>2, PublishFacts
      <4> QED  BY <2>2, <4>1 DEF TypeOK, Ids
    <3>4. /\ job' \in Jobs /\ ledger' \in Seq(Records) /\ torn' \in BOOLEAN /\ due' \in BOOLEAN
          /\ receipt' \in [Ids -> {"absent", "pending"} \cup Conclusive]
          /\ script' \in [Ids -> {"none", "running"} \cup Ended]
          /\ lock' \in Callers \cup {"free"} /\ intervals' \in 1..MaxAttempts
          /\ {deaths', faults'} \subseteq Nat /\ call' \in [Callers -> Calls]
      BY <2>4, <2>5 DEF TypeOK
    <3> QED  BY <3>1, <3>2, <3>3, <3>4 DEF TypeOK
  <2>7. FenceIsLatest'
    <3>1. fence'.id # 0 /\ ~fence'.retryable
      BY <2>1, <2>2 DEF Ids
    <3>2. \A k \in DOMAIN ledger' : ledger'[k].id <= attempts'
      <4>1. \A k \in DOMAIN ledger : ledger[k] \in Records /\ ledger[k].id <= attempts
        BY DEF TypeOK, FenceIsLatest
      <4>2. ledger' = ledger /\ attempts \in Nat /\ attempts' = attempts + 1
        BY <2>2, <2>4 DEF TypeOK
      <4> QED  BY <4>1, <4>2 DEF Records, Ids
    <3>3. \A id \in Ids : id > attempts' => id \notin scheduled' /\ script'[id] = "none"
      BY <2>2, <2>4 DEF FenceIsLatest, TypeOK, Ids
    <3> QED  BY <3>1, <3>2, <3>3 DEF FenceIsLatest
  <2>8. \A d \in Callers : HolderKnows(d)'
    <3>1. HolderKnows(c)'
      BY <2>1, <2>2, <2>3, <2>4, <2>5 DEF HolderKnows, InLedger, Ids
    <3> QED  BY <2>5, <3>1 DEF HolderKnows, Holds
  <2>9. EveryAttemptIsAccounted' /\ OneRecordPerAttempt'
    <3>1. OneRecordPerAttempt'
      BY <2>4 DEF OneRecordPerAttempt
    <3>2. attempts \in Nat /\ attempts' = attempts + 1 /\ fence'.id = attempts + 1
      BY <2>1, <2>2 DEF TypeOK
    <3>3. ASSUME NEW id \in 1..attempts'
          PROVE  fence'.id = id \/ InLedger(id)' \/ script'[id] = "exit75" \/ job'.idempotent
      <4>1. CASE id = attempts + 1
        BY <3>2, <4>1
      <4>2. CASE id # attempts + 1
        <5>1. id \in 1..attempts
          BY <3>2, <4>2
        <5>2. fence.id # id
          BY <2>2, <5>1 DEF NoFence
        <5> QED  BY <2>4, <5>1, <5>2 DEF EveryAttemptIsAccounted, InLedger
      <4> QED  BY <4>1, <4>2
    <3> QED  BY <3>1, <3>3 DEF EveryAttemptIsAccounted
  <2>10. DueUntilRecorded'
    BY <2>1, <2>4 DEF DueUntilRecorded, FenceIsLatest, TypeOK, Ids, InLedger
  <2>11. RecordsAreSpent'
    <3>1. Recorded' = Recorded
      BY <2>3, <2>4 DEF Recorded, InLedger
    <3> QED  BY <2>4, <3>1 DEF RecordsAreSpent, Spent
  <2> QED  BY <2>6, <2>7, <2>8, <2>9, <2>10, <2>11
<1> QED  BY <1>1, <1>2

\* The script starts.
LEMMA ExecuteKeeps ==
    ASSUME NEW c \in Callers, AttemptIInv, Execute(c)
    PROVE  AttemptIInv'
<1> USE JobAttemptsAssumption DEF AttemptIInv, TypeOK, At, Execute
<1>1. TypeOK'
  <2>1. call' \in [Callers -> Calls]
    BY GotoMoves DEF Steps
  <2>2. \A d \in Callers : lock' = d <=> call'[d].pc \notin {"idle", "admitted"}
    BY GotoMoves DEF Steps
  <2>3. script' \in [Ids -> {"none", "running"} \cup Ended]
    OBVIOUS
  <2> QED  BY <2>1, <2>2, <2>3
<1>2. FenceIsLatest'
  BY DEF FenceIsLatest, HolderKnows, NoFence, Ids
<1>3. \A d \in Callers : HolderKnows(d)'
  <2>1. \A d \in Callers : d # c => call'[d] = call[d] /\ call[d].pc \in {"idle", "admitted"}
    BY GotoMoves DEF Steps
  <2>2. HolderKnows(c)'
    BY GotoMoves DEF Steps, HolderKnows, InLedger
  <2> QED  BY <2>1, <2>2 DEF HolderKnows, InLedger
<1>4. EveryAttemptIsAccounted'
  BY DEF EveryAttemptIsAccounted, HolderKnows, InLedger, FenceIsLatest, NoFence, Ids
<1>5. OneRecordPerAttempt' /\ DueUntilRecorded' /\ RecordsAreSpent'
  BY DEF OneRecordPerAttempt, DueUntilRecorded, InLedger, RecordsAreSpent, Recorded, Spent
<1> QED  BY <1>1, <1>2, <1>3, <1>4, <1>5

\* The script is killed.
LEMMA BackstopExpiresKeeps ==
    ASSUME NEW c \in Callers, AttemptIInv, BackstopExpires(c)
    PROVE  AttemptIInv'
<1> USE JobAttemptsAssumption DEF AttemptIInv, TypeOK, At, BackstopExpires
<1>1. TypeOK'
  BY DEF Ids, Conclusive, Ended, Fences, Steps, FenceIsLatest, HolderKnows, NoFence
<1>2. FenceIsLatest'
  BY DEF FenceIsLatest, HolderKnows, NoFence, Ids
<1>3. EveryAttemptIsAccounted'
  BY DEF EveryAttemptIsAccounted, HolderKnows, InLedger, FenceIsLatest, NoFence, Ids
<1>4. /\ \A d \in Callers : HolderKnows(d)'
      /\ OneRecordPerAttempt' /\ DueUntilRecorded' /\ RecordsAreSpent'
  BY DEF HolderKnows, InLedger, OneRecordPerAttempt, DueUntilRecorded, RecordsAreSpent, Recorded,
         Spent
<1> QED  BY <1>1, <1>2, <1>3, <1>4

\* The fence of a recorded attempt is removed.
LEMMA ClearKeeps ==
    ASSUME NEW c \in Callers, AttemptIInv, Clear(c)
    PROVE  AttemptIInv'
<1> USE JobAttemptsAssumption DEF AttemptIInv, TypeOK, At, Clear
<1>1. TypeOK'
  <2>1. call' \in [Callers -> Calls] /\ lock' \in Callers \cup {"free"}
    BY ReleaseMoves DEF Steps
  <2>2. \A d \in Callers : lock' = d <=> call'[d].pc \notin {"idle", "admitted"}
    BY ReleaseMoves DEF Steps
  <2>3. fence' \in Fences /\ fence'.id = 0
    BY DEF Fences, NoFence
  <2> QED  BY <2>1, <2>2, <2>3
<1>2. FenceIsLatest'
  BY DEF FenceIsLatest, HolderKnows, NoFence, Ids
<1>3. \A d \in Callers : HolderKnows(d)'
  BY ReleaseMoves, OneHolder, ZenonT(60) DEF HolderKnows, InLedger, FenceIsLatest, Conclusive,
     Steps, Holds, Ids
<1>4. EveryAttemptIsAccounted'
  BY DEF EveryAttemptIsAccounted, HolderKnows, InLedger, FenceIsLatest, NoFence, Ids
<1>5. DueUntilRecorded'
  BY DEF DueUntilRecorded, HolderKnows, InLedger, FenceIsLatest, NoFence, Ids
<1>6. OneRecordPerAttempt' /\ RecordsAreSpent'
  BY DEF OneRecordPerAttempt, RecordsAreSpent, Recorded, Spent, InLedger
<1> QED  BY <1>1, <1>2, <1>3, <1>4, <1>5, <1>6

\* The script asked to be repeated.
LEMMA MarkRetryableKeeps ==
    ASSUME NEW c \in Callers, AttemptIInv, MarkRetryable(c)
    PROVE  AttemptIInv'
<1> USE JobAttemptsAssumption DEF AttemptIInv, TypeOK, At, MarkRetryable
<1>1. TypeOK'
  <2>1. call' \in [Callers -> Calls] /\ lock' \in Callers \cup {"free"}
    BY ReleaseMoves
  <2>2. \A d \in Callers : lock' = d <=> call'[d].pc \notin {"idle", "admitted"}
    BY ReleaseMoves
  <2>3. fence' \in Fences /\ fence'.id = fence.id
    BY DEF Fences
  <2> QED  BY <2>1, <2>2, <2>3
<1>2. FenceIsLatest'
  BY DEF FenceIsLatest, HolderKnows, NoFence, Ids
<1>3. \A d \in Callers : HolderKnows(d)'
  BY ReleaseMoves, OneHolder, ZenonT(60) DEF HolderKnows, InLedger, FenceIsLatest, Conclusive,
     Steps, Holds, Ids
<1>4. EveryAttemptIsAccounted'
  BY DEF EveryAttemptIsAccounted, HolderKnows, InLedger, FenceIsLatest, NoFence, Ids
<1>5. DueUntilRecorded'
  BY DEF DueUntilRecorded, HolderKnows, InLedger, FenceIsLatest, NoFence, Ids
<1>6. OneRecordPerAttempt' /\ RecordsAreSpent'
  BY DEF OneRecordPerAttempt, RecordsAreSpent, Recorded, Spent, InLedger
<1> QED  BY <1>1, <1>2, <1>3, <1>4, <1>5, <1>6

\* A dispatch dies.
LEMMA DiesKeeps ==
    ASSUME NEW c \in Callers, AttemptIInv, Dies(c)
    PROVE  AttemptIInv'
<1> USE JobAttemptsAssumption DEF AttemptIInv, TypeOK, At, Dies
<1>1. TypeOK'
  <2>1. Idle \in Calls /\ Idle.pc = "idle"
    BY DEF Calls, Steps, Idle
  <2>2. /\ call' \in [Callers -> Calls]
        /\ \A d \in Callers : call'[d] = IF d = c THEN Idle ELSE call[d]
    BY <2>1
  <2>3. \A d \in Callers : lock' = d <=> call'[d].pc \notin {"idle", "admitted"}
    BY <2>1, <2>2
  <2>4. script' \in [Ids -> {"none", "running"} \cup Ended]
    OBVIOUS
  <2> QED  BY <2>2, <2>3, <2>4
<1>2. FenceIsLatest'
  BY DEF FenceIsLatest, HolderKnows, NoFence, Ids
<1>3. \A d \in Callers : HolderKnows(d)'
  <2>1. Idle.pc = "idle"
    BY DEF Idle
  <2> QED  BY <2>1 DEF HolderKnows, InLedger
<1>4. EveryAttemptIsAccounted'
  BY DEF EveryAttemptIsAccounted, HolderKnows, InLedger, FenceIsLatest, NoFence, Ids
<1>5. OneRecordPerAttempt' /\ DueUntilRecorded' /\ RecordsAreSpent'
  BY DEF OneRecordPerAttempt, DueUntilRecorded, InLedger, RecordsAreSpent, Recorded, Spent
<1> QED  BY <1>1, <1>2, <1>3, <1>4, <1>5

\* The script runs an agent.
LEMMA RunsAgentKeeps ==
    ASSUME NEW id \in Ids, AttemptIInv, RunsAgent(id)
    PROVE  AttemptIInv'
<1> USE JobAttemptsAssumption DEF AttemptIInv, TypeOK, At, RunsAgent, OfScript
<1>1. TypeOK'
  BY DEF Ids, Conclusive, Ended, Fences, Steps, FenceIsLatest, HolderKnows, NoFence
<1>2. \A d \in Callers : HolderKnows(d)'
  BY OneHolder DEF HolderKnows, InLedger, FenceIsLatest, Conclusive, Holds, Ids
<1>3. /\ FenceIsLatest' /\ OneRecordPerAttempt' /\ EveryAttemptIsAccounted'
      /\ DueUntilRecorded' /\ RecordsAreSpent'
  BY DEF FenceIsLatest, OneRecordPerAttempt, EveryAttemptIsAccounted, InLedger, DueUntilRecorded,
         RecordsAreSpent, Recorded, Spent
<1> QED  BY <1>1, <1>2, <1>3

\* The agent run concludes.
LEMMA AgentEndsKeeps ==
    ASSUME NEW id \in Ids, AttemptIInv, AgentEnds(id)
    PROVE  AttemptIInv'
<1> USE JobAttemptsAssumption DEF AttemptIInv, TypeOK, At, AgentEnds
<1>1. TypeOK'
  BY DEF Ids, Conclusive, Ended, Fences, Steps, FenceIsLatest, HolderKnows, NoFence
<1>2. \A d \in Callers : HolderKnows(d)'
  BY OneHolder DEF HolderKnows, InLedger, FenceIsLatest, Conclusive, Holds, Ids
<1>3. /\ FenceIsLatest' /\ OneRecordPerAttempt' /\ EveryAttemptIsAccounted'
      /\ DueUntilRecorded' /\ RecordsAreSpent'
  BY DEF FenceIsLatest, OneRecordPerAttempt, EveryAttemptIsAccounted, InLedger, DueUntilRecorded,
         RecordsAreSpent, Recorded, Spent
<1> QED  BY <1>1, <1>2, <1>3

\* The script ends.
LEMMA ScriptEndsKeeps ==
    ASSUME NEW id \in Ids, AttemptIInv, ScriptEnds(id)
    PROVE  AttemptIInv'
<1> USE JobAttemptsAssumption DEF AttemptIInv, TypeOK, At, ScriptEnds, OfScript, Ended
<1>1. TypeOK'
  BY DEF Ids, Conclusive, Ended, Fences, Steps, FenceIsLatest, HolderKnows, NoFence
<1>2. FenceIsLatest'
  BY DEF FenceIsLatest, HolderKnows, NoFence, Ids
<1>3. EveryAttemptIsAccounted'
  BY DEF EveryAttemptIsAccounted, HolderKnows, InLedger, FenceIsLatest, NoFence, Ids
<1>4. /\ \A d \in Callers : HolderKnows(d)'
      /\ OneRecordPerAttempt' /\ DueUntilRecorded' /\ RecordsAreSpent'
  BY DEF HolderKnows, InLedger, OneRecordPerAttempt, DueUntilRecorded, RecordsAreSpent, Recorded,
         Spent
<1> QED  BY <1>1, <1>2, <1>3, <1>4

\* An outcome is appended, or not, or half of it.
LEMMA AppendKeeps ==
    ASSUME NEW c \in Callers, AttemptIInv, NEW outcome \in Conclusive,
           NEW pc \in {"remove", "clear"},
           call[c].pc \in {"append", "abandon", "running"}, AppendRecord(c, outcome, pc),
           UNCHANGED <<job, fence, receipt, script, attempts, intervals, scheduled, deaths>>
    PROVE  AttemptIInv'
<1> USE JobAttemptsAssumption DEF AttemptIInv
<1>1. /\ Holds(c) /\ call[c].id = fence.id /\ fence.id \in Ids /\ fence.id = attempts
      /\ ~InLedger(fence.id)
  BY DEF Holds, HolderKnows, TypeOK, Ids, Fences
<1>2. /\ call' \in [Callers -> Calls]
      /\ \A d \in Callers : d # c => call'[d] = call[d] /\ ~Holds(d)
      /\ call'[c].pc \in {pc, "idle"}
      /\ \A d \in Callers : lock' = d <=> call'[d].pc \notin {"idle", "admitted"}
      /\ lock' \in Callers \cup {"free"}
  <2>1. CASE Goto(c, pc) /\ UNCHANGED lock
    BY <1>1, <2>1, GotoMoves, OneHolder DEF TypeOK, Steps, Holds
  <2>2. CASE Release(c)
    BY <1>1, <2>2, ReleaseMoves, OneHolder DEF TypeOK, Holds
  <2> QED  BY <2>1, <2>2 DEF AppendRecord
<1>3. torn' \in BOOLEAN /\ faults' \in Nat /\ deaths' \in Nat
  <2>1. faults \in Nat /\ deaths \in Nat /\ torn \in BOOLEAN
    BY DEF TypeOK
  <2>2. torn' = torn \/ torn' = TRUE
    BY DEF AppendRecord
  <2>3. faults' = faults \/ faults' = faults + 1
    BY DEF AppendRecord
  <2>4. torn' \in BOOLEAN
    BY <2>1, <2>2
  <2>5. faults' \in Nat
    BY <2>1, <2>3
  <2> QED  BY <2>1, <2>4, <2>5
<1>4. CASE ledger' = ledger /\ due' = due /\ call'[c].pc = "idle"
  <2>1. TypeOK'
    BY <1>2, <1>3, <1>4 DEF TypeOK
  <2>2. \A d \in Callers : HolderKnows(d)'
    BY <1>2, <1>4 DEF HolderKnows, InLedger, Holds
  <2>3. FenceIsLatest' /\ OneRecordPerAttempt' /\ EveryAttemptIsAccounted'
    BY <1>4 DEF FenceIsLatest, OneRecordPerAttempt, EveryAttemptIsAccounted, InLedger
  <2>4. DueUntilRecorded' /\ RecordsAreSpent'
    BY <1>4 DEF DueUntilRecorded, InLedger, RecordsAreSpent, Recorded, Spent
  <2> QED  BY <2>1, <2>2, <2>3, <2>4
<1>5. CASE ledger' = Append(ledger, [id |-> call[c].id, outcome |-> outcome]) /\ due' = FALSE
  <2>1. /\ ledger' \in Seq(Records)
        /\ \A i : InLedger(i)' <=> InLedger(i) \/ i = fence.id
        /\ DOMAIN ledger' = 1..(Len(ledger) + 1)
        /\ \A k \in DOMAIN ledger : ledger'[k] = ledger[k]
        /\ ledger'[Len(ledger) + 1].id = fence.id
    BY <1>1, <1>5, AppendedIsIn DEF TypeOK
  <2>2. DOMAIN ledger = 1..Len(ledger) /\ Len(ledger) \in Nat
    BY DEF TypeOK
  <2>3. TypeOK'
    BY <1>2, <1>3, <1>5, <2>1 DEF TypeOK
  <2>4. \A d \in Callers : HolderKnows(d)'
    <3>1. HolderKnows(c)'
      BY <1>1, <1>2, <2>1 DEF HolderKnows, Ids
    <3> QED  BY <1>2, <3>1 DEF HolderKnows, Holds
  <2>5. FenceIsLatest'
    <3>1. fence.id <= attempts /\ attempts \in Nat /\ UNCHANGED <<fence, script, attempts, scheduled>>
      BY <1>1, <1>2, <1>5 DEF FenceIsLatest, TypeOK
    <3>2. \A k \in DOMAIN ledger' : ledger'[k].id <= attempts
      BY <2>1, <2>2, <3>1 DEF FenceIsLatest
    <3> QED  BY <3>1, <3>2 DEF FenceIsLatest
  <2>6. OneRecordPerAttempt'
    BY <1>1, <2>1, <2>2 DEF OneRecordPerAttempt, InLedger
  <2>7. EveryAttemptIsAccounted' /\ DueUntilRecorded'
    BY <2>1 DEF EveryAttemptIsAccounted, DueUntilRecorded
  <2>8. RecordsAreSpent'
    <3>1. IsFiniteSet(scheduled) /\ IsFiniteSet(Recorded)
      BY RecordedIsFinite
    <3>2. CASE fence.id \in scheduled
      <4>1. due /\ fence.id \notin Recorded
        BY <1>1, <3>2 DEF DueUntilRecorded, Recorded
      <4>2. Recorded' = Recorded \cup {fence.id}
        BY <2>1, <3>2 DEF Recorded
      <4>3. Cardinality(Recorded') = Cardinality(Recorded) + 1
        BY <3>1, <4>1, <4>2, FS_AddElement
      <4> QED  BY <1>5, <3>1, <4>1, <4>3, FS_CardinalityType DEF RecordsAreSpent, Spent, TypeOK
    <3>3. CASE fence.id \notin scheduled
      <4>1. Recorded' = Recorded
        BY <2>1, <3>3 DEF Recorded
      <4> QED  BY <1>5, <3>1, <4>1, FS_CardinalityType DEF RecordsAreSpent, Spent, TypeOK
    <3> QED  BY <3>2, <3>3
  <2> QED  BY <2>3, <2>4, <2>5, <2>6, <2>7, <2>8
<1> QED  BY <1>1, <1>2, <1>4, <1>5 DEF AppendRecord, Release, Idle, TypeOK

\* The three who append.
LEMMA RecordsKeep ==
    ASSUME NEW c \in Callers, AttemptIInv, RecordReceipt(c) \/ Abandon(c) \/ Finish(c)
    PROVE  AttemptIInv'
<1>1. CASE RecordReceipt(c)
  BY <1>1, AppendKeeps DEF RecordReceipt, At, AttemptIInv, HolderKnows
<1>2. CASE Abandon(c)
  BY <1>2, AppendKeeps DEF Abandon, At, Conclusive
<1>3. CASE Finish(c)
  BY <1>3, AppendKeeps DEF Finish, At, Conclusive
<1> QED  BY <1>1, <1>2, <1>3

LEMMA AttemptInit == Init => AttemptIInv
<1> SUFFICES ASSUME Init
             PROVE  AttemptIInv
  OBVIOUS
<1>1. NoFence \in Fences /\ NoFence.id = 0 /\ Idle \in Calls /\ Idle.pc = "idle"
  BY JobAttemptsAssumption DEF NoFence, Fences, Idle, Calls, Steps
<1>2. ledger \in Seq(Records) /\ DOMAIN ledger = {}
  BY DEF Init
<1>3. TypeOK
  <2>1. /\ receipt \in [Ids -> {"absent", "pending"} \cup Conclusive]
        /\ script \in [Ids -> {"none", "running"} \cup Ended]
        /\ call \in [Callers -> Calls]
    BY <1>1 DEF Init
  <2>2. \A c \in Callers : lock = c <=> call[c].pc \notin {"idle", "admitted"}
    BY <1>1, JobAttemptsAssumption DEF Init
  <2>3. attempts \in 0..MaxAttempts /\ intervals \in 1..MaxAttempts /\ scheduled \subseteq Ids
    BY JobAttemptsAssumption DEF Init
  <2>4. /\ job \in Jobs /\ fence \in Fences /\ torn \in BOOLEAN /\ due \in BOOLEAN
        /\ lock \in Callers \cup {"free"}
        /\ fence.id # 0 => fence.id = attempts
    BY <1>1 DEF Init
  <2>5. deaths \in Nat /\ faults \in Nat
    BY DEF Init
  <2> QED  BY <1>2, <2>1, <2>2, <2>3, <2>4, <2>5 DEF TypeOK
<1>4. FenceIsLatest /\ \A c \in Callers : HolderKnows(c)
  BY <1>1, <1>2 DEF FenceIsLatest, HolderKnows, NoFence, Init
<1>5. OneRecordPerAttempt /\ EveryAttemptIsAccounted /\ DueUntilRecorded
  BY <1>2 DEF OneRecordPerAttempt, EveryAttemptIsAccounted, DueUntilRecorded, Init
<1>6. RecordsAreSpent
  <2>1. Recorded = {}
    BY DEF Recorded, Init
  <2> QED  BY <2>1, FS_EmptySet DEF RecordsAreSpent, Spent, Init
<1> QED  BY <1>3, <1>4, <1>5, <1>6 DEF AttemptIInv

LEMMA AttemptStep == AttemptIInv /\ [Next]_vars => AttemptIInv'
<1> SUFFICES ASSUME AttemptIInv, [Next]_vars
             PROVE  AttemptIInv'
  OBVIOUS
<1>1. CASE IntervalPasses \/ Admit
  BY <1>1, IntervalPassesKeeps, AdmitKeeps
<1>2. ASSUME NEW c \in Callers, Dispatch(c) \/ BackstopExpires(c) \/ Dies(c)
      PROVE  AttemptIInv'
  BY <1>2, AcquireKeeps, ReconcileKeeps, LedgerUnreadableKeeps, RecoverKeeps, RecordsKeep,
     RemoveFenceKeeps, PublishKeeps, ExecuteKeeps, ClearKeeps, MarkRetryableKeeps,
     BackstopExpiresKeeps, DiesKeeps DEF Dispatch
<1>3. ASSUME NEW id \in Ids, RunsAgent(id) \/ AgentEnds(id) \/ ScriptEnds(id)
      PROVE  AttemptIInv'
  BY <1>3, RunsAgentKeeps, AgentEndsKeeps, ScriptEndsKeeps
<1>4. CASE UNCHANGED vars
  BY <1>4 DEF vars, AttemptIInv, TypeOK, FenceIsLatest, HolderKnows, InLedger, OneRecordPerAttempt,
              EveryAttemptIsAccounted, DueUntilRecorded, RecordsAreSpent, Recorded, Spent
<1> QED  BY <1>1, <1>2, <1>3, <1>4 DEF Next

-----------------------------------------------------------------------------
\* No attempt gets two outcomes, and none disappears without one.
THEOREM AttemptInvHolds == Spec => []AttemptInv
<1>1. AttemptIInv => AttemptInv
  BY DEF AttemptIInv, AttemptInv
<1> QED  BY AttemptInit, AttemptStep, <1>1, PTL DEF Spec

\* While an attempt is at work without an outcome on record, the fence is its
\* own, and it is the latest: no other begins.
THEOREM AttemptsDoNotOverlap == Spec => []NoUnsettledOverlap
<1>1. AttemptIInv => NoUnsettledOverlap
  BY DEF AttemptIInv, TypeOK, EveryAttemptIsAccounted, FenceIsLatest, NoUnsettledOverlap,
         Unsettled, Ids
<1> QED  BY AttemptInit, AttemptStep, <1>1, PTL DEF Spec

\* A job is not run more often than its schedule says, however the scheduler,
\* operators and deaths interleave.
THEOREM CadenceIsKept == Spec => []Cadence
<1>1. ASSUME AttemptIInv
      PROVE  Cadence
  <2>1. Cardinality(Recorded) \in Nat /\ Cardinality(Recorded) <= MaxAttempts
    BY <1>1, RecordedIsFinite DEF AttemptIInv
  <2>2. intervals \in 1..MaxAttempts
    BY <1>1 DEF AttemptIInv, TypeOK
  <2>3. ASSUME intervals < MaxAttempts
        PROVE  Cardinality(Recorded) <= intervals
    <3>1. Spent \in Int /\ Spent <= intervals
      BY <2>2, JobAttemptsAssumption DEF Spent
    <3>2. Cardinality(Recorded) <= Spent
      BY <1>1, <2>3 DEF AttemptIInv, RecordsAreSpent
    <3> QED  BY <2>1, <2>2, <3>1, <3>2
  <2>4. ASSUME ~(intervals < MaxAttempts)
        PROVE  Cardinality(Recorded) <= intervals
    BY <2>1, <2>2, <2>4, JobAttemptsAssumption
  <2> QED  BY <2>3, <2>4 DEF Cadence, Recorded
<1> QED  BY AttemptInit, AttemptStep, <1>1, PTL DEF Spec

-----------------------------------------------------------------------------
(***************************************************************************)
(* The workers of all jobs: every live worker holds a slot of its own, so a *)
(* class has no more of them than slots.                                   *)
(***************************************************************************)

-----------------------------------------------------------------------------
(* What the queue keeps.                                                   *)

\* A set of numbers with a member has a least one.
LEMMA LeastNatural ==
    ASSUME NEW S \in SUBSET Nat, S # {}
    PROVE  \E m \in S : \A n \in S : m <= n
<1> DEFINE R == {ss \in Nat \X Nat : ss[1] < ss[2]}
<1>1. IsWellFoundedOn(R, Nat)
  BY NatLessThanWellFounded DEF OpToRel
<1>2. PICK m \in S : \A n \in S : ~(<<n, m>> \in R)
  <2> HIDE DEF R
  <2> QED  BY <1>1, WFMin
<1>3. ASSUME NEW n \in S PROVE m <= n
  <2>1. m \in Nat /\ n \in Nat /\ ~(n < m)
    BY <1>2
  <2> QED  BY <2>1
<1> HIDE DEF R
<1> QED  BY <1>3

\* What Only says of the first n members of a queue.
Filters(q, S, f, n) ==
    \A i \in 0..n : f[i] = IF i = 0 THEN <<>>
                           ELSE IF q[i] \in S THEN Append(f[i - 1], q[i]) ELSE f[i - 1]

\* There is such a function for every n, by the least one without.
LEMMA FilterExists ==
    ASSUME NEW A, NEW q \in Seq(A), NEW S
    PROVE  \A n \in 0..Len(q) : \E g \in [0..n -> Seq(A)] : Filters(q, S, g, n)
<1> DEFINE Good(n) == \E g \in [0..n -> Seq(A)] : Filters(q, S, g, n)
           Bad == {n \in 0..Len(q) : ~Good(n)}
<1> SUFFICES ASSUME Bad # {} PROVE FALSE
  OBVIOUS
<1>1. Bad \in SUBSET Nat
  OBVIOUS
<1>2. PICK n \in Bad : \A m \in Bad : n <= m
  <2> HIDE DEF Bad
  <2> QED  BY <1>1, LeastNatural
<1>3. n \in 0..Len(q) /\ ~Good(n)
  OBVIOUS
<1>4. CASE n = 0
  <2> DEFINE g == [i \in 0..0 |-> <<>>]
  <2>1. g \in [0..n -> Seq(A)] /\ Filters(q, S, g, n)
    BY <1>4 DEF Filters
  <2> QED  BY <2>1, <1>3
<1>5. CASE n > 0
  <2>1. n - 1 \in 0..Len(q) /\ ~(n <= n - 1) /\ n \in 1..Len(q) /\ q[n] \in A
    BY <1>3, <1>5
  <2>2. Good(n - 1)
    BY <2>1, <1>2
  <2>3. PICK g \in [0..(n-1) -> Seq(A)] : Filters(q, S, g, n - 1)
    BY <2>2
  <2> DEFINE last == IF q[n] \in S THEN Append(g[n - 1], q[n]) ELSE g[n - 1]
             h == [i \in 0..n |-> IF i < n THEN g[i] ELSE last]
  <2>4. last \in Seq(A)
    <3>1. g[n - 1] \in Seq(A)
      BY <2>1
    <3> QED  BY <3>1, <2>1, AppendProperties
  <2>5. h \in [0..n -> Seq(A)]
    <3> HIDE DEF last
    <3> QED  BY <1>3, <2>4
  <2>6. Filters(q, S, h, n)
    <3> SUFFICES ASSUME NEW i \in 0..n
                 PROVE  h[i] = IF i = 0 THEN <<>>
                               ELSE IF q[i] \in S THEN Append(h[i - 1], q[i]) ELSE h[i - 1]
      BY DEF Filters
    <3>1. CASE i < n
      <4>1. i \in 0..(n-1) /\ h[i] = g[i] /\ (i # 0 => i - 1 \in 0..n /\ i - 1 < n)
        BY <3>1, <1>3
      <4>2. i # 0 => h[i - 1] = g[i - 1]
        BY <4>1
      <4>3. g[i] = IF i = 0 THEN <<>>
                   ELSE IF q[i] \in S THEN Append(g[i - 1], q[i]) ELSE g[i - 1]
        BY <4>1, <2>3 DEF Filters
      <4> QED  BY <4>1, <4>2, <4>3
    <3>2. CASE ~(i < n)
      <4>1. i = n /\ i # 0 /\ n - 1 \in 0..n /\ n - 1 < n /\ ~(n < n) /\ n \in 0..n
        BY <3>2, <1>3, <1>5
      <4>2. h[n] = last /\ h[n - 1] = g[n - 1]
        <5> HIDE DEF last
        <5> QED  BY <4>1
      <4> QED  BY <4>1, <4>2
    <3> QED  BY <3>1, <3>2
  <2> HIDE DEF h
  <2> QED  BY <2>5, <2>6, <1>3
<1> HIDE DEF Bad, Good
<1> QED  BY <1>3, <1>4, <1>5

\* What one more member does to a queue without repetitions.
LEMMA AppendIsInjective ==
    ASSUME NEW A, NEW q \in Seq(A), NEW a \in A, IsInjective(q), a \notin Members(q)
    PROVE  /\ Append(q, a) \in Seq(A) /\ IsInjective(Append(q, a))
           /\ Members(Append(q, a)) = Members(q) \cup {a}
<1> DEFINE r == Append(q, a)
<1>1. /\ r \in Seq(A) /\ Len(r) = Len(q) + 1 /\ Len(q) \in Nat
      /\ r[Len(q) + 1] = a /\ \A i \in 1..Len(q) : r[i] = q[i]
      /\ DOMAIN r = 1..(Len(q) + 1) /\ DOMAIN q = 1..Len(q)
  BY AppendProperties
<1> HIDE DEF r
<1>2. IsInjective(r)
  <2> SUFFICES ASSUME NEW i \in 1..(Len(q) + 1), NEW j \in 1..(Len(q) + 1), r[i] = r[j]
               PROVE  i = j
    BY <1>1 DEF IsInjective
  <2>1. CASE i \in 1..Len(q) /\ j \in 1..Len(q)
    BY <2>1, <1>1 DEF IsInjective
  <2>2. CASE i \in 1..Len(q) /\ j = Len(q) + 1
    BY <2>2, <1>1 DEF Members
  <2>3. CASE j \in 1..Len(q) /\ i = Len(q) + 1
    BY <2>3, <1>1 DEF Members
  <2> QED  BY <2>1, <2>2, <2>3, <1>1
<1>3. Members(r) = Members(q) \cup {a}
  <2>1. \A x \in Members(r) : x \in Members(q) \cup {a}
    <3> SUFFICES ASSUME NEW i \in 1..(Len(q) + 1) PROVE r[i] \in Members(q) \cup {a}
      BY <1>1 DEF Members
    <3>1. CASE i \in 1..Len(q)
      BY <3>1, <1>1 DEF Members
    <3>2. CASE i = Len(q) + 1
      BY <3>2, <1>1
    <3> QED  BY <3>1, <3>2, <1>1
  <2>2. \A i \in 1..Len(q) : q[i] \in Members(r)
    <3> SUFFICES ASSUME NEW i \in 1..Len(q) PROVE q[i] \in Members(r)
      OBVIOUS
    <3>1. i \in DOMAIN r /\ r[i] = q[i]
      BY <1>1
    <3> QED  BY <3>1 DEF Members
  <2>3. a \in Members(r)
    <3>1. Len(q) + 1 \in DOMAIN r
      BY <1>1
    <3> QED  BY <3>1, <1>1 DEF Members
  <2> QED  BY <1>1, <2>1, <2>2, <2>3 DEF Members
<1> QED  BY <1>1, <1>2, <1>3 DEF r

\* Only takes those members of a queue that are in the set, each once.
LEMMA OnlyTakes ==
    ASSUME NEW A, NEW q \in Seq(A), IsInjective(q), NEW S
    PROVE  /\ Only(q, S) \in Seq(A) /\ IsInjective(Only(q, S))
           /\ Members(Only(q, S)) = Members(q) \cap S
<1> DEFINE Step(f) == [n \in 0..Len(q) |->
                IF n = 0 THEN <<>>
                ELSE IF q[n] \in S THEN Append(f[n - 1], q[n]) ELSE f[n - 1]]
           c == CHOOSE f : f = Step(f)
           First(n) == {q[k] : k \in 1..n}
           Good(n) == c[n] \in Seq(A) /\ IsInjective(c[n]) /\ Members(c[n]) = First(n) \cap S
           Bad == {n \in 0..Len(q) : ~Good(n)}
<1>1. Len(q) \in Nat /\ Len(q) \in 0..Len(q) /\ DOMAIN q = 1..Len(q)
  OBVIOUS
<1>2. PICK g \in [0..Len(q) -> Seq(A)] : Filters(q, S, g, Len(q))
  BY <1>1, FilterExists
<1>3. g = Step(g)
  BY <1>2 DEF Filters
<1>4. c = Step(c)
  <2> HIDE DEF Step
  <2> QED  BY <1>3
<1>5. Only(q, S) = c[Len(q)]
  BY DEF Only
<1> HIDE DEF c
<1>6. ASSUME NEW n \in 0..Len(q)
      PROVE  c[n] = IF n = 0 THEN <<>>
                    ELSE IF q[n] \in S THEN Append(c[n - 1], q[n]) ELSE c[n - 1]
  BY <1>4
<1>7. ASSUME Bad # {} PROVE FALSE
  <2>1. Bad \in SUBSET Nat
    OBVIOUS
  <2>2. PICK n \in Bad : \A m \in Bad : n <= m
    <3> HIDE DEF Bad
    <3> QED  BY <1>7, <2>1, LeastNatural
  <2>3. n \in 0..Len(q) /\ ~Good(n)
    OBVIOUS
  <2>4. CASE n = 0
    <3>1. c[n] = <<>>
      BY <2>4, <1>6, <2>3
    <3>2. First(n) = {}
      BY <2>4
    <3>3. IsInjective(<<>>) /\ Members(<<>>) = {} /\ <<>> \in Seq(A)
      BY DEF IsInjective, Members
    <3> QED  BY <2>3, <3>1, <3>2, <3>3
  <2>5. CASE n # 0
    <3>1. n - 1 \in 0..Len(q) /\ ~(n <= n - 1) /\ n \in 1..Len(q) /\ q[n] \in A
      BY <2>3, <2>5
    <3>2. Good(n - 1)
      BY <3>1, <2>2
    <3>3. First(n) = First(n - 1) \cup {q[n]}
      <4>1. 1..n = 1..(n-1) \cup {n}
        BY <3>1
      <4> QED  BY <4>1
    <3>4. q[n] \notin First(n - 1)
      <4> SUFFICES ASSUME NEW k \in 1..(n-1), q[n] = q[k] PROVE FALSE
        OBVIOUS
      <4>1. k \in 1..Len(q) /\ k # n
        BY <3>1
      <4> QED  BY <4>1, <3>1, <1>1 DEF IsInjective
    <3>5. c[n] = IF q[n] \in S THEN Append(c[n - 1], q[n]) ELSE c[n - 1]
      BY <2>3, <2>5, <1>6
    <3> HIDE DEF First
    <3>6. CASE q[n] \in S
      <4>1. q[n] \notin Members(c[n - 1])
        BY <3>2, <3>4
      <4>2. /\ Append(c[n - 1], q[n]) \in Seq(A) /\ IsInjective(Append(c[n - 1], q[n]))
            /\ Members(Append(c[n - 1], q[n])) = Members(c[n - 1]) \cup {q[n]}
        BY <4>1, <3>1, <3>2, AppendIsInjective
      <4>3. First(n) \cap S = (First(n - 1) \cap S) \cup {q[n]}
        BY <3>3, <3>6
      <4> QED  BY <3>5, <3>6, <4>2, <4>3, <3>2, <2>3
    <3>7. CASE q[n] \notin S
      <4>1. First(n) \cap S = First(n - 1) \cap S
        BY <3>3, <3>7
      <4> QED  BY <3>5, <3>7, <4>1, <3>2, <2>3
    <3> QED  BY <3>6, <3>7
  <2> QED  BY <2>4, <2>5
<1>8. Good(Len(q))
  <2> HIDE DEF Good
  <2> QED  BY <1>1, <1>7
<1>9. First(Len(q)) = Members(q)
  BY <1>1 DEF Members
<1> QED  BY <1>5, <1>8, <1>9

\* Two queues without repetitions that share no member.
LEMMA ConcatIsInjective ==
    ASSUME NEW A, NEW p \in Seq(A), NEW q \in Seq(A), IsInjective(p), IsInjective(q),
           Members(p) \cap Members(q) = {}
    PROVE  p \o q \in Seq(A) /\ IsInjective(p \o q)
<1> DEFINE r == p \o q
           m == Len(p)
           n == Len(q)
<1>1. /\ r \in Seq(A) /\ m \in Nat /\ n \in Nat /\ DOMAIN r = 1..(m + n)
      /\ DOMAIN p = 1..m /\ DOMAIN q = 1..n
      /\ \A i \in 1..(m + n) : r[i] = IF i <= m THEN p[i] ELSE q[i - m]
  BY ConcatProperties
<1> HIDE DEF r, m, n
<1>2. ASSUME NEW i \in 1..(m + n), NEW j \in 1..(m + n), i <= j, r[i] = r[j] PROVE i = j
  <2>1. CASE j <= m
    <3>1. i \in 1..m /\ j \in 1..m /\ p[i] = p[j]
      BY <2>1, <1>1, <1>2
    <3> QED  BY <3>1, <1>1 DEF IsInjective
  <2>2. CASE i > m
    <3>1. i - m \in 1..n /\ j - m \in 1..n /\ q[i - m] = q[j - m]
      BY <2>2, <1>1, <1>2
    <3>2. i - m = j - m
      BY <3>1, <1>1 DEF IsInjective
    <3> QED  BY <3>2, <1>1
  <2>3. CASE i <= m /\ j > m
    <3>1. i \in 1..m /\ j - m \in 1..n /\ p[i] = q[j - m]
      BY <2>3, <1>1, <1>2
    <3>2. p[i] \in Members(p) /\ q[j - m] \in Members(q)
      BY <3>1, <1>1 DEF Members
    <3> QED  BY <3>1, <3>2
  <2> QED  BY <2>1, <2>2, <2>3, <1>1
<1>3. IsInjective(r)
  <2> SUFFICES ASSUME NEW i \in 1..(m + n), NEW j \in 1..(m + n), r[i] = r[j] PROVE i = j
    BY <1>1 DEF IsInjective
  <2>1. i <= j \/ j <= i
    BY <1>1
  <2> QED  BY <2>1, <1>2
<1> QED  BY <1>1, <1>3 DEF r

-----------------------------------------------------------------------------
(* The slots.                                                              *)

IsAlive(w) == worker[w].pc # "none"

\* A worker is among the holders of a slot exactly while it is alive and was
\* given that slot.
HeldWhileAlive ==
    \A w \in Workers, s \in Slots : w \in held[s] <=> IsAlive(w) /\ worker[w].slot = s

\* The slot is one of its class.
OfItsClass ==
    \A w \in Workers : IsAlive(w) =>
        worker[w].job \in JobNames /\ worker[w].slot \in Members(Pool(worker[w].job))

\* No two workers have the same.
SlotsAreOwn ==
    \A v, w \in Workers :
        IsAlive(v) /\ IsAlive(w) /\ worker[v].slot = worker[w].slot => v = w


\* The slots of a job are slots.
LEMMA PoolsAreSlots ==
    ASSUME NEW j \in JobNames
    PROVE  Pool(j) \in Seq(Slots) /\ Members(Pool(j)) \subseteq Slots
<1>1. CapacitySlots \in Seq(Slots)
  <2>1. Len(CapacitySlots) \in Nat /\ CapacitySlots \in [1..Len(CapacitySlots) -> Members(CapacitySlots)]
    BY WorkerCapacityAssumption
  <2>2. CapacitySlots \in [1..Len(CapacitySlots) -> Slots]
    BY <2>1 DEF Slots
  <2> QED  BY <2>1, <2>2
<1>2. <<"supervisory">> \in Seq(Slots) /\ <<"durability">> \in Seq(Slots)
  BY DEF Slots
<1>3. Pool(j) \in Seq(Slots)
  BY <1>1, <1>2 DEF Pool
<1> QED  BY <1>3 DEF Members

-----------------------------------------------------------------------------
(* The queue and the ages.                                                 *)

QueueOK ==
    /\ pending \in Seq(JobNames) /\ IsInjective(pending)
    /\ selected \in Seq(JobNames) /\ IsInjective(selected)

\* What is left of a queue without repetitions, and what is added at its end.
LEMMA TailIsInjective ==
    ASSUME NEW A, NEW q \in Seq(A), q # <<>>, IsInjective(q)
    PROVE  Tail(q) \in Seq(A) /\ IsInjective(Tail(q)) /\ Head(q) \in A
<1>1. /\ Tail(q) \in Seq(A) /\ Len(q) \in Nat \ {0} /\ Len(Tail(q)) = Len(q) - 1
      /\ \A i \in 1..(Len(q) - 1) : Tail(q)[i] = q[i + 1]
      /\ DOMAIN q = 1..Len(q) /\ DOMAIN Tail(q) = 1..(Len(q) - 1)
  BY HeadTailProperties, EmptySeq
<1>2. IsInjective(Tail(q))
  <2> SUFFICES ASSUME NEW i \in 1..(Len(q) - 1), NEW j \in 1..(Len(q) - 1), Tail(q)[i] = Tail(q)[j]
               PROVE  i = j
    BY <1>1 DEF IsInjective
  <2>1. i + 1 \in 1..Len(q) /\ j + 1 \in 1..Len(q) /\ q[i + 1] = q[j + 1]
    BY <1>1
  <2>2. i + 1 = j + 1
    BY <2>1, <1>1 DEF IsInjective
  <2> QED  BY <2>2
<1> QED  BY <1>1, <1>2, HeadTailProperties

LEMMA RequeueKeeps ==
    ASSUME QueueOK, NEW j \in JobNames, Requeue(j)
    PROVE  pending' \in Seq(JobNames) /\ IsInjective(pending')
BY AppendIsInjective DEF QueueOK, Requeue

LEMMA RefreshKeeps ==
    ASSUME QueueOK, NEW jobs
    PROVE  Refresh(jobs) \in Seq(JobNames) /\ IsInjective(Refresh(jobs))
<1> DEFINE kept == Only(pending, jobs)
           new == Only(JobOrder, jobs \ Members(kept))
<1>1. kept \in Seq(JobNames) /\ IsInjective(kept)
  BY OnlyTakes DEF QueueOK
<1> HIDE DEF kept
<1>2. new \in Seq(JobNames) /\ IsInjective(new) /\ Members(new) \subseteq jobs \ Members(kept)
  BY OnlyTakes, WorkerCapacityAssumption
<1> HIDE DEF new
<1>3. kept \o new \in Seq(JobNames) /\ IsInjective(kept \o new)
  BY <1>1, <1>2, ConcatIsInjective
<1> QED  BY <1>3 DEF Refresh, kept, new

\* Every step keeps the queue free of repetitions.
LEMMA QueueStep ==
    ASSUME QueueOK, AdmissionNext
    PROVE  QueueOK'
<1>1. CASE Tick
  <2>1. PICK jobs : /\ selected' = Only(Refresh(jobs), Turns(Refresh(jobs)))
                    /\ pending' = Only(Refresh(jobs), JobNames \ Turns(Refresh(jobs)))
    BY <1>1 DEF Tick
  <2>2. Refresh(jobs) \in Seq(JobNames) /\ IsInjective(Refresh(jobs))
    BY RefreshKeeps
  <2> QED  BY <2>1, <2>2, OnlyTakes DEF QueueOK
<1>2. CASE Reject
  <2>1. selected # <<>> /\ Requeue(Head(selected)) /\ selected' = Tail(selected)
    BY <1>2 DEF Reject
  <2>2. Head(selected) \in JobNames /\ selected' \in Seq(JobNames) /\ IsInjective(selected')
    BY <2>1, TailIsInjective DEF QueueOK
  <2> QED  BY <2>1, <2>2, RequeueKeeps DEF QueueOK
<1>3. CASE SpawnFails
  <2>1. selected # <<>> /\ Requeue(Head(selected)) /\ selected' = Tail(selected)
    BY <1>3 DEF SpawnFails
  <2>2. Head(selected) \in JobNames /\ selected' \in Seq(JobNames) /\ IsInjective(selected')
    BY <2>1, TailIsInjective DEF QueueOK
  <2> QED  BY <2>1, <2>2, RequeueKeeps DEF QueueOK
<1>4. ASSUME NEW w \in Workers, Spawn(w) PROVE QueueOK'
  BY <1>4, TailIsInjective DEF Spawn, QueueOK
<1>5. CASE DaemonRestarts
  BY <1>5 DEF DaemonRestarts, QueueOK, IsInjective
<1>6. ASSUME UNCHANGED <<pending, selected>> PROVE QueueOK'
  BY <1>6 DEF QueueOK
<1>7. ASSUME NEW w \in Workers, Begin(w) \/ LeaveProcess(w) \/ WorkerFinishes(w) \/ WorkerDies(w)
      PROVE  UNCHANGED <<pending, selected>>
  BY <1>7 DEF Begin, LeaveProcess, WorkerFinishes, WorkerDies
<1>8. ASSUME NEW s \in Slots, LeftEnds(s) PROVE UNCHANGED <<pending, selected>>
  BY <1>8 DEF LeftEnds
<1> QED  BY <1>1, <1>2, <1>3, <1>4, <1>5, <1>6, <1>7, <1>8 DEF AdmissionNext, Scheduler

-----------------------------------------------------------------------------
(* Each step leaves every slot to one worker of its class.                 *)

SlotsOK ==
    /\ worker \in [Workers -> [pc : {"none", "spawned", "running"},
                               job : JobNames \cup {"none"}, slot : Slots \cup {"none"}]]
    /\ held \in [Slots -> SUBSET (Workers \cup {"left"})]
    /\ HeldWhileAlive /\ OfItsClass /\ SlotsAreOwn

LEMMA SlotsInit == AdmissionInit => SlotsOK
<1> SUFFICES ASSUME AdmissionInit PROVE SlotsOK
  OBVIOUS
<1>1. \A w \in Workers : worker[w] = NoWorker /\ ~IsAlive(w)
  BY DEF AdmissionInit, NoWorker, IsAlive
<1>2. worker \in [Workers -> [pc : {"none", "spawned", "running"},
                              job : JobNames \cup {"none"}, slot : Slots \cup {"none"}]]
  BY DEF AdmissionInit, NoWorker
<1>3. held \in [Slots -> SUBSET (Workers \cup {"left"})] /\ \A s \in Slots : held[s] = {}
  BY DEF AdmissionInit
<1> QED  BY <1>1, <1>2, <1>3 DEF SlotsOK, HeldWhileAlive, OfItsClass, SlotsAreOwn

\* A free slot is no live worker's, so whoever is given it has it alone.
LEMMA SpawnKeepsSlots ==
    ASSUME SlotsOK, QueueOK, NEW w \in Workers, Spawn(w)
    PROVE  SlotsOK'
<1> DEFINE j == Head(selected)
<1>1. j \in JobNames
  BY TailIsInjective DEF Spawn, QueueOK
<1>2. PICK k \in DOMAIN Pool(j) :
        /\ Free(Pool(j)[k])
        /\ worker' = [worker EXCEPT ![w] = [pc |-> "spawned", job |-> j, slot |-> Pool(j)[k]]]
        /\ held' = [held EXCEPT ![Pool(j)[k]] = {w}]
  BY DEF Spawn, Inherits
<1> DEFINE slot == Pool(j)[k]
<1>3. slot \in Members(Pool(j)) /\ slot \in Slots
  BY <1>1, PoolsAreSlots DEF Members
<1>4. held[slot] = {}
  BY <1>2 DEF Free
<1>5. ~IsAlive(w)
  BY DEF Spawn, NoWorker, IsAlive
<1> HIDE DEF j, slot
<1>6. /\ worker' = [worker EXCEPT ![w] = [pc |-> "spawned", job |-> j, slot |-> slot]]
      /\ held' = [held EXCEPT ![slot] = {w}]
  BY <1>2 DEF slot
<1>7. /\ worker'[w] = [pc |-> "spawned", job |-> j, slot |-> slot] /\ IsAlive(w)'
      /\ \A v \in Workers \ {w} : worker'[v] = worker[v] /\ (IsAlive(v)' <=> IsAlive(v))
  BY <1>6 DEF SlotsOK, IsAlive
<1>8. /\ held'[slot] = {w} /\ \A s \in Slots \ {slot} : held'[s] = held[s]
  BY <1>6, <1>3 DEF SlotsOK
<1>9. \A v \in Workers : IsAlive(v) => worker[v].slot # slot
  BY <1>3, <1>4 DEF SlotsOK, HeldWhileAlive
<1>10. worker' \in [Workers -> [pc : {"none", "spawned", "running"},
                                job : JobNames \cup {"none"}, slot : Slots \cup {"none"}]]
  BY <1>6, <1>1, <1>3 DEF SlotsOK
<1>11. held' \in [Slots -> SUBSET (Workers \cup {"left"})]
  BY <1>6, <1>3 DEF SlotsOK
<1>12. HeldWhileAlive'
  <2> SUFFICES ASSUME NEW v \in Workers, NEW s \in Slots
               PROVE  v \in held'[s] <=> IsAlive(v)' /\ worker'[v].slot = s
    BY DEF HeldWhileAlive
  <2>1. CASE v = w
    <3>1. \A t \in Slots : w \notin held[t]
      BY <1>5 DEF SlotsOK, HeldWhileAlive
    <3> QED  BY <2>1, <3>1, <1>7, <1>8
  <2>2. CASE v # w
    <3>1. v \in held[s] <=> IsAlive(v) /\ worker[v].slot = s
      BY DEF SlotsOK, HeldWhileAlive
    <3> QED  BY <2>2, <3>1, <1>7, <1>8, <1>9
  <2> QED  BY <2>1, <2>2
<1>13. OfItsClass'
  <2> SUFFICES ASSUME NEW v \in Workers, IsAlive(v)'
               PROVE  worker'[v].job \in JobNames /\ worker'[v].slot \in Members(Pool(worker'[v].job))
    BY DEF OfItsClass, Pool, Members
  <2> QED  BY <1>7, <1>1, <1>3, j = j DEF SlotsOK, OfItsClass, j
<1>14. SlotsAreOwn'
  <2> SUFFICES ASSUME NEW u \in Workers, NEW v \in Workers, IsAlive(u)', IsAlive(v)',
                      worker'[u].slot = worker'[v].slot
               PROVE  u = v
    BY DEF SlotsAreOwn
  <2> QED  BY <1>7, <1>9 DEF SlotsOK, SlotsAreOwn
<1> QED  BY <1>10, <1>11, <1>12, <1>13, <1>14 DEF SlotsOK

\* A worker that ends closes its slot, and nobody else's.
LEMMA EndKeepsSlots ==
    ASSUME SlotsOK, NEW w \in Workers, IsAlive(w), Ends(w)
    PROVE  SlotsOK'
<1> DEFINE slot == worker[w].slot
<1>1. slot \in Slots
  <2>1. worker[w].job \in JobNames /\ slot \in Members(Pool(worker[w].job))
    BY DEF SlotsOK, OfItsClass
  <2> QED  BY <2>1, PoolsAreSlots
<1>2. /\ worker' = [worker EXCEPT ![w] = NoWorker]
      /\ held' = [held EXCEPT ![slot] = held[slot] \ {w}]
  BY DEF Ends
<1> HIDE DEF slot
<1>3. /\ worker'[w] = NoWorker /\ ~IsAlive(w)'
      /\ \A v \in Workers \ {w} : worker'[v] = worker[v] /\ (IsAlive(v)' <=> IsAlive(v))
  BY <1>2 DEF SlotsOK, IsAlive, NoWorker
<1>4. held'[slot] = held[slot] \ {w} /\ \A s \in Slots \ {slot} : held'[s] = held[s]
  BY <1>1, <1>2 DEF SlotsOK
<1>5. worker' \in [Workers -> [pc : {"none", "spawned", "running"},
                               job : JobNames \cup {"none"}, slot : Slots \cup {"none"}]]
  BY <1>2 DEF SlotsOK, NoWorker
<1>6. held' \in [Slots -> SUBSET (Workers \cup {"left"})]
  BY <1>1, <1>2 DEF SlotsOK
<1>7. HeldWhileAlive'
  <2> SUFFICES ASSUME NEW v \in Workers, NEW s \in Slots
               PROVE  v \in held'[s] <=> IsAlive(v)' /\ worker'[v].slot = s
    BY DEF HeldWhileAlive
  <2>1. v \in held[s] <=> IsAlive(v) /\ worker[v].slot = s
    BY DEF SlotsOK, HeldWhileAlive
  <2> QED  BY <2>1, <1>3, <1>4 DEF slot
<1>8. OfItsClass'
  <2> SUFFICES ASSUME NEW v \in Workers, IsAlive(v)'
               PROVE  worker'[v].job \in JobNames /\ worker'[v].slot \in Members(Pool(worker'[v].job))
    BY DEF OfItsClass, Pool, Members
  <2> QED  BY <1>3 DEF SlotsOK, OfItsClass
<1>9. SlotsAreOwn'
  <2> SUFFICES ASSUME NEW u \in Workers, NEW v \in Workers, IsAlive(u)', IsAlive(v)',
                      worker'[u].slot = worker'[v].slot
               PROVE  u = v
    BY DEF SlotsAreOwn
  <2> QED  BY <1>3 DEF SlotsOK, SlotsAreOwn
<1> QED  BY <1>5, <1>6, <1>7, <1>8, <1>9 DEF SlotsOK

\* A worker that begins has what it had.
LEMMA RunningKeepsSlots ==
    ASSUME SlotsOK, NEW w \in Workers, worker[w].pc = "spawned",
           worker' = [worker EXCEPT ![w].pc = "running"], UNCHANGED held
    PROVE  SlotsOK'
<1>1. \A v \in Workers : /\ worker'[v].job = worker[v].job /\ worker'[v].slot = worker[v].slot
                         /\ (IsAlive(v)' <=> IsAlive(v))
  BY DEF SlotsOK, IsAlive
<1>2. worker' \in [Workers -> [pc : {"none", "spawned", "running"},
                               job : JobNames \cup {"none"}, slot : Slots \cup {"none"}]]
  BY DEF SlotsOK
<1>3. HeldWhileAlive'
  BY <1>1 DEF SlotsOK, HeldWhileAlive
<1>4. OfItsClass'
  BY <1>1 DEF SlotsOK, OfItsClass, Pool, Members
<1>5. SlotsAreOwn'
  BY <1>1 DEF SlotsOK, SlotsAreOwn
<1> QED  BY <1>2, <1>3, <1>4, <1>5 DEF SlotsOK

\* What a script left is no worker.
LEMMA LeftKeepsSlots ==
    ASSUME SlotsOK, UNCHANGED worker, held' \in [Slots -> SUBSET (Workers \cup {"left"})],
           \A w \in Workers, s \in Slots : w \in held'[s] <=> w \in held[s]
    PROVE  SlotsOK'
<1>1. \A v \in Workers : IsAlive(v)' <=> IsAlive(v)
  BY DEF IsAlive
<1>2. HeldWhileAlive'
  BY <1>1 DEF SlotsOK, HeldWhileAlive
<1>3. OfItsClass'
  BY <1>1 DEF SlotsOK, OfItsClass, Pool, Members
<1>4. SlotsAreOwn'
  BY <1>1 DEF SlotsOK, SlotsAreOwn
<1> QED  BY <1>2, <1>3, <1>4 DEF SlotsOK

\* What ends with the daemon gives back what it held.
LEMMA RestartKeepsSlots ==
    ASSUME SlotsOK, DaemonRestarts
    PROVE  SlotsOK'
<1> DEFINE gone == {w \in Workers : worker[w].job \in Compression}
<1>1. /\ worker' = [w \in Workers |-> IF w \in gone THEN NoWorker ELSE worker[w]]
      /\ held' = [s \in Slots |-> held[s] \ gone]
  BY DEF DaemonRestarts
<1> HIDE DEF gone
<1>2. \A v \in Workers : /\ v \in gone => ~IsAlive(v)'
                         /\ v \notin gone => worker'[v] = worker[v] /\ (IsAlive(v)' <=> IsAlive(v))
  BY <1>1 DEF IsAlive, NoWorker
<1>3. worker' \in [Workers -> [pc : {"none", "spawned", "running"},
                               job : JobNames \cup {"none"}, slot : Slots \cup {"none"}]]
  BY <1>1 DEF SlotsOK, NoWorker
<1>4. held' \in [Slots -> SUBSET (Workers \cup {"left"})] /\ \A s \in Slots : held'[s] = held[s] \ gone
  BY <1>1 DEF SlotsOK
<1>5. HeldWhileAlive'
  BY <1>2, <1>4 DEF SlotsOK, HeldWhileAlive
<1>6. OfItsClass'
  <2> SUFFICES ASSUME NEW v \in Workers, IsAlive(v)'
               PROVE  worker'[v].job \in JobNames /\ worker'[v].slot \in Members(Pool(worker'[v].job))
    BY DEF OfItsClass, Pool, Members
  <2> QED  BY <1>2 DEF SlotsOK, OfItsClass
<1>7. SlotsAreOwn'
  <2> SUFFICES ASSUME NEW u \in Workers, NEW v \in Workers, IsAlive(u)', IsAlive(v)',
                      worker'[u].slot = worker'[v].slot
               PROVE  u = v
    BY DEF SlotsAreOwn
  <2> QED  BY <1>2 DEF SlotsOK, SlotsAreOwn
<1> QED  BY <1>3, <1>4, <1>5, <1>6, <1>7 DEF SlotsOK

\* Every step does one of these, or touches neither workers nor slots.
LEMMA SlotsStep ==
    ASSUME SlotsOK, QueueOK, AdmissionNext
    PROVE  SlotsOK'
<1>1. ASSUME UNCHANGED <<worker, held>> PROVE SlotsOK'
  BY <1>1, LeftKeepsSlots DEF SlotsOK
<1>2. CASE Tick \/ Reject \/ SpawnFails
  BY <1>2, <1>1 DEF Tick, Reject, SpawnFails
<1>3. ASSUME NEW w \in Workers, Spawn(w) PROVE SlotsOK'
  BY <1>3, SpawnKeepsSlots
<1>4. ASSUME NEW w \in Workers, Begin(w) PROVE SlotsOK'
  <2>1. worker[w].pc = "spawned" /\ IsAlive(w)
    BY <1>4 DEF Begin, IsAlive
  <2>2. \/ worker' = [worker EXCEPT ![w].pc = "running"] /\ UNCHANGED held
        \/ Ends(w)
    BY <1>4 DEF Begin
  <2> QED  BY <2>1, <2>2, RunningKeepsSlots, EndKeepsSlots
<1>5. ASSUME NEW w \in Workers, LeaveProcess(w) PROVE SlotsOK'
  <2>1. IsAlive(w) /\ UNCHANGED worker
    BY <1>5 DEF LeaveProcess, IsAlive
  <2>2. worker[w].slot \in Slots
    <3>1. worker[w].job \in JobNames /\ worker[w].slot \in Members(Pool(worker[w].job))
      BY <2>1 DEF SlotsOK, OfItsClass
    <3> QED  BY <3>1, PoolsAreSlots
  <2>3. held' = [held EXCEPT ![worker[w].slot] = @ \cup {"left"}]
    BY <1>5 DEF LeaveProcess
  <2>4. \A v \in Workers, s \in Slots : v \in held'[s] <=> v \in held[s]
    BY <2>2, <2>3, WorkerCapacityAssumption DEF SlotsOK
  <2>5. held' \in [Slots -> SUBSET (Workers \cup {"left"})]
    BY <2>2, <2>3 DEF SlotsOK
  <2> QED  BY <2>1, <2>4, <2>5, LeftKeepsSlots
<1>6. ASSUME NEW w \in Workers, WorkerFinishes(w) \/ WorkerDies(w) PROVE SlotsOK'
  <2>1. IsAlive(w) /\ Ends(w)
    BY <1>6 DEF WorkerFinishes, WorkerDies, IsAlive
  <2> QED  BY <2>1, EndKeepsSlots
<1>7. CASE DaemonRestarts
  BY <1>7, RestartKeepsSlots
<1>8. ASSUME NEW s \in Slots, LeftEnds(s) PROVE SlotsOK'
  <2>1. UNCHANGED worker /\ held' = [held EXCEPT ![s] = @ \ {"left"}]
    BY <1>8 DEF LeftEnds
  <2>2. \A v \in Workers, t \in Slots : v \in held'[t] <=> v \in held[t]
    BY <2>1, WorkerCapacityAssumption DEF SlotsOK
  <2>3. held' \in [Slots -> SUBSET (Workers \cup {"left"})]
    BY <2>1 DEF SlotsOK
  <2> QED  BY <2>1, <2>2, <2>3, LeftKeepsSlots
<1> QED  BY <1>2, <1>3, <1>4, <1>5, <1>6, <1>7, <1>8 DEF AdmissionNext, Scheduler

-----------------------------------------------------------------------------
(* The cap.                                                                *)

\* Workers that have each a slot of their own in S are no more than S.
LEMMA NoMoreThanSlots ==
    ASSUME SlotsOK, NEW W \in SUBSET Workers, NEW S, IsFiniteSet(S),
           \A w \in W : IsAlive(w) /\ worker[w].slot \in S
    PROVE  Cardinality(W) <= Cardinality(S) /\ Cardinality(W) \in Nat
<1> DEFINE f == [w \in W |-> worker[w].slot]
<1>1. f \in Injection(W, S)
  <2>1. f \in [W -> S]
    OBVIOUS
  <2>2. \A v, w \in W : f[v] = f[w] => v = w
    BY DEF SlotsOK, SlotsAreOwn
  <2> QED  BY <2>1, <2>2 DEF Injection, IsInjective
<1>2. IsFiniteSet(W) /\ Cardinality(W) <= Cardinality(S)
  <2> HIDE DEF f
  <2> QED  BY <1>1, FS_Injection
<1> QED  BY <1>2, FS_CardinalityType

\* A list has no more members than places.
LEMMA MembersAreFew ==
    ASSUME NEW A, NEW q \in Seq(A)
    PROVE  IsFiniteSet(Members(q)) /\ Cardinality(Members(q)) <= Len(q)
<1> DEFINE n == Len(q)
           S == Members(q)
<1>1. n \in Nat /\ q \in [1..n -> S] /\ \A x \in S : \E k \in 1..n : q[k] = x
  BY DEF Members
<1>2. q \in Surjection(1..n, S)
  BY <1>1 DEF Surjection
<1> HIDE DEF n, S
<1>3. IsFiniteSet(1..n) /\ Cardinality(1..n) = n
  <2>1. 1 \in Int /\ n \in Int
    BY <1>1
  <2>2. IsFiniteSet(1..n) /\ Cardinality(1..n) = IF 1 > n THEN 0 ELSE n - 1 + 1
    BY <2>1, FS_Interval
  <2> QED  BY <2>2, <1>1
<1>4. IsFiniteSet(S) /\ Cardinality(S) <= Cardinality(1..n)
  BY <1>2, <1>3, FS_Surjection
<1> QED  BY <1>3, <1>4 DEF n, S

LEMMA CapHolds == SlotsOK => CapIsKept
<1> SUFFICES ASSUME SlotsOK PROVE CapIsKept
  OBVIOUS
<1> DEFINE Of(Class) == {w \in Workers : worker[w].pc # "none" /\ worker[w].job \in Class}
           plain == {w \in Workers : worker[w].pc # "none" /\ Ordinary(worker[w].job)}
<1>1. Cardinality(plain) <= Len(CapacitySlots)
  <2>1. \A w \in plain : IsAlive(w) /\ worker[w].slot \in Members(CapacitySlots)
    BY DEF IsAlive, Ordinary, Pool, SlotsOK, OfItsClass
  <2>2. /\ IsFiniteSet(Members(CapacitySlots))
        /\ Cardinality(Members(CapacitySlots)) <= Len(CapacitySlots)
        /\ Cardinality(Members(CapacitySlots)) \in Nat /\ Len(CapacitySlots) \in Nat
    BY MembersAreFew, WorkerCapacityAssumption, FS_CardinalityType
  <2> HIDE DEF plain
  <2>3. plain \in SUBSET Workers
    BY DEF plain
  <2>4. /\ Cardinality(plain) <= Cardinality(Members(CapacitySlots))
        /\ Cardinality(plain) \in Nat
    BY <2>1, <2>2, <2>3, NoMoreThanSlots
  <2> QED  BY <2>2, <2>4
<1>2. ASSUME NEW s, NEW Class, \A j \in Class : Members(Pool(j)) = {s}
      PROVE  Cardinality(Of(Class)) <= 1
  <2>1. \A w \in Of(Class) : IsAlive(w) /\ worker[w].slot \in {s}
    BY <1>2 DEF IsAlive, SlotsOK, OfItsClass
  <2>2. IsFiniteSet({s}) /\ Cardinality({s}) = 1
    BY FS_Singleton
  <2>3. Of(Class) \in SUBSET Workers
    OBVIOUS
  <2> HIDE DEF Of
  <2>4. Cardinality(Of(Class)) <= Cardinality({s})
    BY <2>1, <2>2, <2>3, NoMoreThanSlots
  <2> QED  BY <2>2, <2>4
<1>3. \A j \in Supervisory : Members(Pool(j)) = {"supervisory"}
  BY DEF Pool, Members
<1>4. \A j \in Durability : Members(Pool(j)) = {"durability"}
  BY WorkerCapacityAssumption DEF Pool, Members
<1>5. Cardinality(Of(Supervisory)) <= 1
  BY <1>2, <1>3
<1>6. Cardinality(Of(Durability)) <= 1
  BY <1>2, <1>4
<1> QED  BY <1>1, <1>5, <1>6 DEF CapIsKept, Alive

-----------------------------------------------------------------------------
(* The counters, and the theorem.                                          *)

CountersOK ==
    /\ age \in [JobNames -> 0..Every]
    /\ restarts \in 0..MaxRestarts /\ mishaps \in 0..MaxMishaps

CapacityIInv == QueueOK /\ CountersOK /\ SlotsOK

LEMMA CountersStep ==
    ASSUME CountersOK, SlotsOK, AdmissionNext
    PROVE  CountersOK'
<1> USE WorkerCapacityAssumption
<1>1. CASE Tick
  <2>1. age' = [j \in JobNames |-> IF age[j] < Every THEN age[j] + 1 ELSE Every]
        /\ UNCHANGED <<restarts, mishaps>>
    BY <1>1 DEF Tick
  <2>2. \A j \in JobNames : (IF age[j] < Every THEN age[j] + 1 ELSE Every) \in 0..Every
    BY DEF CountersOK
  <2> QED  BY <2>1, <2>2 DEF CountersOK
<1>2. CASE Reject
  BY <1>2 DEF Reject, CountersOK
<1>3. CASE SpawnFails
  BY <1>3 DEF SpawnFails, CountersOK
<1>4. ASSUME NEW w \in Workers, Spawn(w) PROVE CountersOK'
  BY <1>4 DEF Spawn, CountersOK
<1>5. ASSUME NEW w \in Workers, Begin(w) \/ LeaveProcess(w) PROVE CountersOK'
  BY <1>5 DEF Begin, LeaveProcess, CountersOK
<1>6. ASSUME NEW w \in Workers, WorkerFinishes(w) PROVE CountersOK'
  <2>1. /\ age' = [age EXCEPT ![worker[w].job] = 0] \/ UNCHANGED age
        /\ UNCHANGED <<restarts, mishaps>>
    BY <1>6 DEF WorkerFinishes
  <2> QED  BY <2>1 DEF CountersOK
<1>7. ASSUME NEW w \in Workers, WorkerDies(w) PROVE CountersOK'
  BY <1>7 DEF WorkerDies, CountersOK
<1>8. CASE DaemonRestarts
  BY <1>8 DEF DaemonRestarts, CountersOK
<1>9. ASSUME NEW s \in Slots, LeftEnds(s) PROVE CountersOK'
  BY <1>9 DEF LeftEnds, CountersOK
<1> QED
  BY <1>1, <1>2, <1>3, <1>4, <1>5, <1>6, <1>7, <1>8, <1>9 DEF AdmissionNext, Scheduler

\* The invariant is inductive.
LEMMA CapacityInit == AdmissionInit => CapacityIInv
<1> SUFFICES ASSUME AdmissionInit PROVE CapacityIInv
  OBVIOUS
<1>1. pending = <<>> /\ selected = <<>> /\ age = [j \in JobNames |-> Every]
      /\ restarts = 0 /\ mishaps = 0
  BY DEF AdmissionInit
<1>2. QueueOK
  BY <1>1 DEF QueueOK, IsInjective
<1>3. CountersOK
  BY <1>1, WorkerCapacityAssumption DEF CountersOK
<1> QED  BY <1>2, <1>3, SlotsInit DEF CapacityIInv

LEMMA CapacityStep ==
    ASSUME CapacityIInv, [AdmissionNext]_admissionVars
    PROVE  CapacityIInv'
<1>1. CASE AdmissionNext
  BY <1>1, QueueStep, CountersStep, SlotsStep DEF CapacityIInv
<1>2. CASE UNCHANGED admissionVars
  BY <1>2 DEF admissionVars, CapacityIInv, QueueOK, CountersOK, SlotsOK, HeldWhileAlive,
              OfItsClass, SlotsAreOwn, IsAlive, Pool, Members, IsInjective
<1> QED  BY <1>1, <1>2

\* A live worker holds the slot it was given, which is of its class and its own,
\* so that no more workers of a class are alive than it has slots: for any jobs,
\* slots, workers, restarts of the daemon and deaths (WorkerCapacityLease,
\* try_acquire_job_capacity).
THEOREM CapIsNeverExceeded == AdmissionSpec => []CapacityInv
<1>1. CapacityIInv => CapacityInv
  <2> SUFFICES ASSUME CapacityIInv PROVE CapacityInv
    OBVIOUS
  <2>1. \A w \in Workers : worker[w].pc # "none" => w \in held[worker[w].slot]
    <3> SUFFICES ASSUME NEW w \in Workers, IsAlive(w) PROVE w \in held[worker[w].slot]
      BY DEF IsAlive
    <3>1. worker[w].slot \in Slots
      <4>1. worker[w].job \in JobNames /\ worker[w].slot \in Members(Pool(worker[w].job))
        BY DEF CapacityIInv, SlotsOK, OfItsClass
      <4> QED  BY <4>1, PoolsAreSlots
    <3> QED  BY <3>1 DEF CapacityIInv, SlotsOK, HeldWhileAlive
  <2>2. CapIsKept
    BY CapHolds DEF CapacityIInv
  <2> QED  BY <2>1, <2>2 DEF CapacityIInv, QueueOK, CountersOK, SlotsOK, AdmissionTypeOK, CapacityInv
<1> QED  BY <1>1, CapacityInit, CapacityStep, PTL DEF AdmissionSpec
=============================================================================
