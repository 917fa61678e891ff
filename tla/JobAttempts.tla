----------------------------- MODULE JobAttempts -----------------------------
(***************************************************************************)
(* The attempts of one scheduled job (crates/plant/src/jobs.rs).           *)
(*                                                                         *)
(* A dispatch takes the job's flock, settles the fence an earlier attempt  *)
(* left, publishes a fence of its own, runs the script, appends the        *)
(* outcome to the ledger and removes the fence.  It may die between any    *)
(* two of these, and its script goes on without it.  The same flock guards *)
(* the scheduler's dispatch, plant jobs run and plant jobs unblock.        *)
(*                                                                         *)
(* A script may run agents under the attempt's id; their receipts are      *)
(* those of AgentRuns, reduced to what reconciliation asks of them.  A     *)
(* compression runs inside the daemon and ends with it.                    *)
(***************************************************************************)
EXTENDS Integers, Sequences, FiniteSets

CONSTANTS
    Jobs,           \* the jobs to try: [action, idempotent], the action "script" or
                    \* "compression", idempotent as # plant: idempotent declares it
    Callers,        \* who dispatches: "scheduled" and "operator", who runs the job
                    \* (plant jobs run) or unblocks it (plant jobs unblock)
    MaxAttempts,    \* bound: fences published
    MaxDeaths,      \* bound: processes that die
    MaxFaults,      \* bound: appends to the ledger that fail
    Faults          \* how: "early" (nothing written), "late" (all written), "torn"

ASSUME JobAttemptsAssumption ==
    /\ Jobs \subseteq [action : {"script", "compression"}, idempotent : BOOLEAN]
    /\ Callers \subseteq {"scheduled", "operator"}
    /\ MaxAttempts \in Nat \ {0} /\ {MaxDeaths, MaxFaults} \subseteq Nat
    /\ Faults \subseteq {"early", "late", "torn"}

VARIABLES
    job,            \* the job, one of Jobs
    fence,          \* durable: NoFence or [id, action, retryable]
    ledger,         \* durable: [id, outcome] in the order appended
    torn,           \* durable: the ledger ends in half a record
    receipt,        \* durable: each attempt's agent run
    due,            \* the ledger's last record is older than the interval
    lock,           \* who holds the attempt flock, or "free"
    call,           \* each caller: [pc, id, unblocks]
    script,         \* each attempt's script: "none", "running", or how it ended
    attempts, intervals, scheduled,
    deaths, faults

vars == <<job, fence, ledger, torn, receipt, due, lock, call, script, attempts, intervals,
          scheduled, deaths, faults>>

Ids == 1..MaxAttempts
NoFence == [id |-> 0, action |-> "script", retryable |-> FALSE]
Idle == [pc |-> "idle", id |-> 0, unblocks |-> FALSE]
Conclusive == {"success", "failed"}
Ended == {"exit0", "exit75", "exit1"}

Init ==
    /\ job \in Jobs
    /\ fence = NoFence /\ ledger = <<>> /\ torn = FALSE
    /\ receipt = [i \in Ids |-> "absent"]
    /\ due = TRUE /\ intervals = 1
    /\ lock = "free"
    /\ call = [c \in Callers |-> Idle]
    /\ script = [i \in Ids |-> "none"]
    /\ attempts = 0 /\ scheduled = {} /\ deaths = 0 /\ faults = 0

\* ledger_has_attempt_at (mutant: the ledger is not consulted)
NotConsulted(id) == FALSE
InLedger(id) == \E k \in DOMAIN ledger : ledger[k].id = id

-----------------------------------------------------------------------------
(* The clock and the flock.                                                *)

IntervalPasses ==
    /\ ~due
    /\ due' = TRUE
    /\ intervals' = IF intervals < MaxAttempts THEN intervals + 1 ELSE intervals
    /\ UNCHANGED <<job, fence, ledger, torn, receipt, lock, call, script, attempts,
                   scheduled, deaths, faults>>

At(c, pc) == call[c].pc = pc
Goto(c, pc) == call' = [call EXCEPT ![c].pc = pc]
Goes(c, pc, id) == call' = [call EXCEPT ![c].pc = pc, ![c].id = id]
\* (mutant: the flock outlives the dispatch)
Leak(c) ==
    /\ call' = [call EXCEPT ![c] = Idle]
    /\ UNCHANGED lock
Release(c) ==
    /\ call' = [call EXCEPT ![c] = Idle]
    /\ lock' = "free"

\* The scheduler finds the job due on a tick and dispatches it some time later.
Admit ==
    /\ "scheduled" \in Callers /\ At("scheduled", "idle")
    /\ due /\ ~torn /\ lock = "free"
    /\ Goto("scheduled", "admitted")
    /\ UNCHANGED <<job, fence, ledger, torn, receipt, due, lock, script, attempts,
                   intervals, scheduled, deaths, faults>>

\* A dispatch that finds the flock held is given up.
Acquire(c) ==
    /\ At(c, IF c = "scheduled" THEN "admitted" ELSE "idle")
    /\ IF lock = "free"
       THEN /\ lock' = c
            /\ \E u \in IF c = "operator" THEN BOOLEAN ELSE {FALSE} :
                   call' = [call EXCEPT ![c] = [pc |-> "reconcile", id |-> 0, unblocks |-> u]]
       ELSE call' = [call EXCEPT ![c] = Idle] /\ UNCHANGED lock
    /\ UNCHANGED <<job, fence, ledger, torn, receipt, due, script, attempts, intervals,
                   scheduled, deaths, faults>>

-----------------------------------------------------------------------------
(* reconcile_fence_at: what the fence, the ledger and the receipt say.     *)

\* No receipt does not prove that nothing ran (mutant: it does).
AbsentIsIdle == TRUE
SafeToRepeat == job.idempotent /\ fence.action = "script"

Settled == fence.retryable \/ InLedger(fence.id)
Blocked ==
    /\ fence # NoFence /\ ~Settled /\ fence.action = "script"
    /\ \/ receipt[fence.id] = "pending"
       \/ receipt[fence.id] = "absent" /\ ~SafeToRepeat

\* A torn ledger stops a dispatch (verify_ledger_writable), and an unblock
\* unless there is no fence, or it is settled before half a record is read.
Stopped(c) == torn /\ ~(call[c].unblocks /\ (fence = NoFence \/ Settled))

Reconcile(c) ==
    /\ At(c, "reconcile") /\ ~Stopped(c)
    /\ \/ /\ fence = NoFence
          /\ IF call[c].unblocks THEN Release(c) ELSE Goto(c, "publish") /\ UNCHANGED lock
       \/ /\ fence # NoFence /\ Settled
          /\ Goto(c, "remove") /\ UNCHANGED lock
       \/ /\ fence # NoFence /\ ~Settled /\ fence.action = "compression"
          /\ IF c = "scheduled"
             THEN Goes(c, "execute", fence.id) /\ UNCHANGED lock
             ELSE Release(c)
       \/ /\ fence # NoFence /\ ~Settled /\ fence.action = "script"
          /\ receipt[fence.id] \in Conclusive
          /\ Goes(c, "append", fence.id) /\ UNCHANGED lock
       \/ /\ fence # NoFence /\ ~Settled /\ fence.action = "script"
          /\ receipt[fence.id] = "absent" /\ SafeToRepeat
          /\ Goto(c, "remove") /\ UNCHANGED lock
       \/ /\ Blocked
          /\ IF call[c].unblocks
             THEN Goes(c, "abandon", fence.id) /\ UNCHANGED lock
             ELSE Release(c)
    /\ UNCHANGED <<job, fence, ledger, torn, receipt, due, script, attempts, intervals,
                   scheduled, deaths, faults>>

LedgerUnreadable(c) ==
    /\ At(c, "reconcile") /\ Stopped(c)
    /\ Release(c)
    /\ UNCHANGED <<job, fence, ledger, torn, receipt, due, script, attempts, intervals,
                   scheduled, deaths, faults>>

\* reconcile_fence_live has the pending run recovered and looks again.
Recover(c) ==
    /\ At(c, "reconcile") /\ ~call[c].unblocks /\ ~torn
    /\ Blocked /\ receipt[fence.id] = "pending"
    /\ \E outcome \in Conclusive : receipt' = [receipt EXCEPT ![fence.id] = outcome]
    /\ UNCHANGED <<job, fence, ledger, torn, due, lock, call, script, attempts,
                   intervals, scheduled, deaths, faults>>

\* append_ledger_record goes well and the caller goes on to pc, or it fails
\* before, in or after the write and the caller returns with the error.
AppendRecord(c, outcome, pc) ==
    \/ /\ ledger' = Append(ledger, [id |-> call[c].id, outcome |-> outcome])
       /\ due' = FALSE
       /\ Goto(c, pc)
       /\ UNCHANGED <<torn, lock, faults>>
    \/ /\ faults < MaxFaults /\ faults' = faults + 1
       /\ Release(c)
       /\ \/ "early" \in Faults /\ UNCHANGED <<ledger, torn, due>>
          \/ "torn" \in Faults /\ torn' = TRUE /\ UNCHANGED <<ledger, due>>
          \/ /\ "late" \in Faults
             /\ ledger' = Append(ledger, [id |-> call[c].id, outcome |-> outcome])
             /\ due' = FALSE
             /\ UNCHANGED torn

\* The outcome of a receipt is recorded, or that an operator gave it up.
RecordReceipt(c) ==
    /\ At(c, "append")
    /\ AppendRecord(c, receipt[call[c].id], "remove")
    /\ UNCHANGED <<job, fence, receipt, script, attempts, intervals, scheduled, deaths>>

Abandon(c) ==
    /\ At(c, "abandon")
    /\ AppendRecord(c, "failed", "clear")
    /\ UNCHANGED <<job, fence, receipt, script, attempts, intervals, scheduled, deaths>>

RemoveFence(c) ==
    /\ At(c, "remove")
    /\ fence' = NoFence
    /\ IF call[c].unblocks THEN Release(c) ELSE Goto(c, "publish") /\ UNCHANGED lock
    /\ UNCHANGED <<job, ledger, torn, receipt, due, script, attempts, intervals,
                   scheduled, deaths, faults>>

-----------------------------------------------------------------------------
(* The attempt.                                                            *)

\* begin_scheduled_attempt_live asks again under the flock (mutant: it relies
\* on what the tick saw).
DueAtTheTick == TRUE
StillDue == due

Publish(c) ==
    /\ At(c, "publish")
    /\ \/ /\ c = "scheduled" => StillDue
          /\ attempts < MaxAttempts
          /\ attempts' = attempts + 1
          /\ fence' = [id |-> attempts + 1, retryable |-> FALSE,
                       action |-> IF c = "scheduled" THEN job.action ELSE "script"]
          /\ scheduled' = IF c = "scheduled" THEN scheduled \cup {attempts + 1} ELSE scheduled
          /\ Goes(c, "execute", attempts + 1)
          /\ UNCHANGED lock
       \/ /\ c = "scheduled" /\ ~StillDue
          /\ Release(c)
          /\ UNCHANGED <<attempts, fence, scheduled>>
    /\ UNCHANGED <<job, ledger, torn, receipt, due, script, intervals, deaths, faults>>

Execute(c) ==
    /\ At(c, "execute")
    /\ script' = [script EXCEPT ![call[c].id] = "running"]
    /\ Goto(c, "running")
    /\ UNCHANGED <<job, fence, ledger, torn, receipt, due, lock, attempts, intervals,
                   scheduled, deaths, faults>>

\* The backstop kills the script, though not what it has started.
BackstopExpires(c) ==
    /\ At(c, "running") /\ script[call[c].id] = "running"
    /\ script' = [script EXCEPT ![call[c].id] = "exit1"]
    /\ UNCHANGED <<job, fence, ledger, torn, receipt, due, lock, call, attempts,
                   intervals, scheduled, deaths, faults>>

\* finish_execution: the record before the fence is cleared.
Finish(c) ==
    /\ At(c, "running") /\ script[call[c].id] \in {"exit0", "exit1"}
    /\ AppendRecord(c, IF script[call[c].id] = "exit0" THEN "success" ELSE "failed", "clear")
    /\ UNCHANGED <<job, fence, receipt, script, attempts, intervals, scheduled, deaths>>

Clear(c) ==
    /\ At(c, "clear")
    /\ fence' = NoFence
    /\ Release(c)
    /\ UNCHANGED <<job, ledger, torn, receipt, due, script, attempts, intervals,
                   scheduled, deaths, faults>>

MarkRetryable(c) ==
    /\ At(c, "running") /\ script[call[c].id] = "exit75"
    /\ fence' = [fence EXCEPT !.retryable = TRUE]
    /\ Release(c)
    /\ UNCHANGED <<job, ledger, torn, receipt, due, script, attempts, intervals,
                   scheduled, deaths, faults>>

-----------------------------------------------------------------------------
(* The script, with or without the process that started it.                *)

OfScript(id) == script[id] = "running" /\ ~(job.action = "compression" /\ id \in scheduled)

RunsAgent(id) ==
    /\ OfScript(id) /\ receipt[id] = "absent"
    /\ receipt' = [receipt EXCEPT ![id] = "pending"]
    /\ UNCHANGED <<job, fence, ledger, torn, due, lock, call, script, attempts,
                   intervals, scheduled, deaths, faults>>

\* An agent run concludes, also after its script, or releases its claim.
AgentEnds(id) ==
    /\ receipt[id] = "pending"
    /\ \E r \in Conclusive \cup {"absent"} : receipt' = [receipt EXCEPT ![id] = r]
    /\ UNCHANGED <<job, fence, ledger, torn, due, lock, call, script, attempts,
                   intervals, scheduled, deaths, faults>>

\* A compression only succeeds or fails.
ScriptEnds(id) ==
    /\ script[id] = "running"
    /\ \E e \in IF OfScript(id) THEN Ended ELSE {"exit0", "exit1"} :
           script' = [script EXCEPT ![id] = e]
    /\ UNCHANGED <<job, fence, ledger, torn, receipt, due, lock, call, attempts,
                   intervals, scheduled, deaths, faults>>

\* The process dies and the flock with it; a compression dies with the daemon.
Dies(c) ==
    /\ ~At(c, "idle") /\ deaths < MaxDeaths
    /\ deaths' = deaths + 1
    /\ call' = [call EXCEPT ![c] = Idle]
    /\ lock' = IF lock = c THEN "free" ELSE lock
    /\ script' = IF At(c, "running") /\ ~OfScript(call[c].id) /\ script[call[c].id] = "running"
                 THEN [script EXCEPT ![call[c].id] = "none"] ELSE script
    /\ UNCHANGED <<job, fence, ledger, torn, receipt, due, attempts, intervals,
                   scheduled, faults>>

Dispatch(c) ==
    \/ Acquire(c) \/ Reconcile(c) \/ LedgerUnreadable(c) \/ Recover(c) \/ RecordReceipt(c)
    \/ Abandon(c) \/ RemoveFence(c) \/ Publish(c) \/ Execute(c) \/ Finish(c) \/ Clear(c)
    \/ MarkRetryable(c)

Next ==
    \/ IntervalPasses \/ Admit
    \/ \E c \in Callers : Dispatch(c) \/ BackstopExpires(c) \/ Dies(c)
    \/ \E id \in Ids : RunsAgent(id) \/ AgentEnds(id) \/ ScriptEnds(id)

Spec == Init /\ [][Next]_vars

\* Ticks come, scripts and agents end, and who has begun a dispatch goes on
\* with it.  An operator looks after a job that is blocked.
FairSpec ==
    /\ Spec
    /\ WF_vars(IntervalPasses)
    /\ WF_vars((\E id \in Ids : ScriptEnds(id)))
    /\ "scheduled" \in Callers =>
           /\ SF_vars(Admit)
           /\ SF_vars(Acquire("scheduled") /\ lock = "free")
    /\ "operator" \in Callers =>
           SF_vars(/\ Acquire("operator") /\ lock = "free" /\ Blocked
                   /\ call'["operator"].unblocks)
    /\ WF_vars((\E c \in Callers : Dispatch(c) /\ lock = c))

-----------------------------------------------------------------------------
Fences == [id : 0..MaxAttempts, action : {"script", "compression"}, retryable : BOOLEAN]
Records == [id : Ids, outcome : Conclusive]
Steps == {"idle", "admitted", "reconcile", "append", "abandon", "remove", "publish", "execute",
          "running", "clear"}
Calls == [pc : Steps, id : 0..MaxAttempts, unblocks : BOOLEAN]

TypeOK ==
    /\ job \in Jobs
    /\ fence \in Fences
    /\ ledger \in Seq(Records)
    /\ torn \in BOOLEAN /\ due \in BOOLEAN
    /\ receipt \in [Ids -> {"absent", "pending"} \cup Conclusive]
    /\ lock \in Callers \cup {"free"}
    /\ call \in [Callers -> Calls]
    /\ script \in [Ids -> {"none", "running"} \cup Ended]
    /\ scheduled \subseteq Ids /\ attempts \in 0..MaxAttempts /\ intervals \in 1..MaxAttempts
    /\ {deaths, faults} \subseteq Nat
    /\ fence.id # 0 => fence.id = attempts
    /\ \A c \in Callers : lock = c <=> call[c].pc \notin {"idle", "admitted"}

\* No attempt gets two outcomes: neither a dispatch that died between record
\* and clear, nor a receipt, nor an operator repeats one.
OneRecordPerAttempt ==
    \A j, k \in DOMAIN ledger : ledger[j].id = ledger[k].id => j = k

\* An attempt leaves no trace only if it asked to be repeated or its script
\* says it may be: any other is still fenced, or in the ledger.
EveryAttemptIsAccounted ==
    \A id \in 1..attempts :
        \/ fence.id = id
        \/ InLedger(id)
        \/ script[id] = "exit75"
        \/ job.idempotent

\* While a script or its agent is at work and has no outcome on record, no
\* other attempt at a script that may not be repeated begins.
Unsettled(id) == ~InLedger(id) /\ (script[id] = "running" \/ receipt[id] = "pending")
NoUnsettledOverlap ==
    ~job.idempotent =>
        \A i, j \in Ids : i < j /\ Unsettled(i) => script[j] = "none" \/ script[i] = "exit75"

\* The ledger holds no more scheduled attempts than there were intervals: an
\* outcome recorded between the tick and the dispatch, by whomever, counts.
Cadence == Cardinality({id \in scheduled : InLedger(id)}) <= intervals

\* A fence does not stay: the job runs again, or an operator clears it, unless
\* a torn record has made the ledger unreadable.
FenceIsCleared == fence.id # 0 ~> fence.id = 0 \/ torn

\* An attempt has one outcome, and does not disappear without one.
AttemptInv == TypeOK /\ OneRecordPerAttempt /\ EveryAttemptIsAccounted
=============================================================================
