------------------------------ MODULE AgentRuns ------------------------------
(***************************************************************************)
(* One keyed agent run and its receipt (crates/plant/src/agent_run.rs over *)
(* herdr.rs and envelope.rs).                                              *)
(*                                                                         *)
(* plant agent run --idempotency-key claims the receipt of its key, drives *)
(* an agent in a herdr pane from workspace to completed turn, and leaves a *)
(* checkpoint in the receipt before and after each irrevocable step.  When *)
(* the worker that started it dies, the scheduler's fence reconciliation   *)
(* recovers the pending receipt from the checkpoint, herdr and the vault.  *)
(*                                                                         *)
(* A checkpoint is its rank, 0 WorkspaceCreated .. 6 Captured, and the     *)
(* identity of the pane: terminal and session, 0 when not known.  What     *)
(* herdr reports as the session, 1, is the id of the capture in the vault, *)
(* or a path that is not (Pi); the capture's own id is then 2.  The run    *)
(* has one workspace, one pane in it and one session; herdr, the agent and *)
(* the vault are the environment.  A failing herdr call, a timeout and a   *)
(* closed subscription are the same: the step may fail.                    *)
(***************************************************************************)
EXTENDS Integers, FiniteSets

CONSTANTS
    Runners,        \* processes that run the key, one after another or not
    Settings,       \* the ways to run it, [preset, path, cleanup, orphans]: the
                    \* session id is minted with the launch (claude); herdr reports
                    \* a path, not the capture's id; the workspace is closed
                    \* "never", "always" or on "success"; a runner may outlive the
                    \* worker that started it
    MaxDeaths,      \* bound: runners that are killed
    MaxFailures,    \* bound: steps of a runner, and writes of a recovery, that fail
    MaxUpsets       \* bound: panes replaced, closed or left by their agent

ASSUME AgentRunsAssumption ==
    /\ IsFiniteSet(Runners)
    /\ Settings \subseteq [preset : BOOLEAN, path : BOOLEAN,
                            cleanup : {"never", "always", "success"}, orphans : BOOLEAN]
    /\ {MaxDeaths, MaxFailures, MaxUpsets} \subseteq Nat

VARIABLES
    setting,        \* one of Settings
    receipt,        \* durable: [state, rank, id]; rank -1 is no checkpoint
    workspace,      \* "none", "open" or "closed"
    pane,           \* [agent, id]: its agent's status, what herdr reports
    prompted,       \* the prompt was submitted
    capture,        \* the session in the vault: "none", "partial", "complete"
    worker,         \* the dispatch that started the runners: "alive" or "dead"
    run,            \* each runner: [pc, rank, id, outcome]
    recovery,       \* the reconciling scheduler: [pc, rank, saw, outcome]
    ledger,         \* the outcome the job's ledger got from the receipt
    launches, deaths, failures, upsets

vars == <<setting, receipt, workspace, pane, prompted, capture, worker, run, recovery, ledger,
          launches, deaths, failures, upsets>>
environment == <<workspace, pane, prompted, capture, upsets>>

NoId == [terminal |-> 0, session |-> 0]
Absent == [state |-> "absent", rank |-> -1, id |-> NoId]
Conclusive == {"succeeded", "failed"}

Pending(rank, id) == [state |-> "pending", rank |-> rank, id |-> id]
Concluded(outcome) == [state |-> outcome, rank |-> -1, id |-> NoId]
NotRunning == [pc |-> "start", rank |-> -1, id |-> NoId, outcome |-> "none"]
NotRecovering == [pc |-> "idle", rank |-> -1, saw |-> Absent, outcome |-> "none"]
Settled == {"idle", "done"}

Init ==
    /\ setting \in Settings
    /\ receipt = Absent
    /\ workspace = "none" /\ pane = [agent |-> "none", id |-> NoId]
    /\ prompted = FALSE /\ capture = "none" /\ worker = "alive"
    /\ run = [r \in Runners |-> NotRunning]
    /\ recovery = NotRecovering
    /\ ledger = "none"
    /\ launches = 0 /\ deaths = 0 /\ failures = 0 /\ upsets = 0

-----------------------------------------------------------------------------
(* Checkpoints.                                                            *)

PaneCanFollow(current, next) ==
    /\ current.terminal = next.terminal
    /\ current.session = 0 \/ current.session = next.session

\* The target is always the one workspace.
CanFollow(rank, id, nextRank, next) ==
    IF rank = nextRank
    THEN id = next \/ (id # NoId /\ next # NoId /\ PaneCanFollow(id, next))
    ELSE id = NoId \/ (IF next = NoId THEN rank > nextRank ELSE PaneCanFollow(id, next))

\* persist_agent_checkpoint reads the receipt first: it refuses a checkpoint,
\* finds nothing to do, or goes on to replace the receipt.
Refuses(rank, id) ==
    \/ receipt.state \notin Conclusive \cup {"pending"}
    \/ receipt.state = "pending" /\ receipt.rank >= 0 /\ ~CanFollow(receipt.rank, receipt.id, rank, id)
\* (mutant: a later checkpoint and a conclusive receipt are replaced)
NeverSuperseded(rank) == FALSE
Superseded(rank) == receipt.state \in Conclusive \/ receipt.rank > rank

-----------------------------------------------------------------------------
(* The runner.  To(r, pc) moves it on, Fail(r) ends the agent's part of it *)
(* in failure: the rest, from "register" on, is common.                    *)

To(r, pc) == run' = [run EXCEPT ![r].pc = pc]
SaveNext(r, rank, id) ==
    run' = [run EXCEPT ![r].pc = "save", ![r].rank = rank, ![r].id = id]
Fail(r) == run' = [run EXCEPT ![r].pc = "register", ![r].outcome = "failed"]
MayFail(r) ==
    /\ failures < MaxFailures /\ failures' = failures + 1
    /\ Fail(r)

\* Where the runner is once a checkpoint is saved.
After(rank) ==
    CASE rank = 0 -> "launch" [] rank = 1 -> "ready" [] rank = 2 -> "subscribe"
      [] rank = 3 -> "submit" [] rank = 4 -> "wait" [] rank = 5 -> "register"
      [] OTHER -> "envelope"

\* create_new, then the claim is written, or removed when that fails; a death in
\* between leaves it empty.
\* A receipt that exists is replayed, or refused when it is not conclusive
\* (mutant: a pending claim is taken over).
ClaimsPending == {"absent", "pending"}
Claimable == {"absent"}
Claim(r) ==
    /\ run[r].pc = "start" /\ worker = "alive"
    /\ IF receipt.state \in Claimable
       THEN receipt' = [Absent EXCEPT !.state = "empty"] /\ To(r, "claimed")
       ELSE To(r, "ended") /\ UNCHANGED receipt
    /\ UNCHANGED <<setting, environment, worker, recovery, ledger, launches, deaths,
                   failures>>

ClaimWritten(r) ==
    /\ run[r].pc = "claimed"
    /\ \/ receipt' = Pending(-1, NoId) /\ To(r, "probe") /\ UNCHANGED failures
       \/ failures < MaxFailures /\ failures' = failures + 1
          /\ receipt' = Absent /\ To(r, "ended")
    /\ UNCHANGED <<setting, environment, worker, recovery, ledger, launches, deaths>>

Probe(r) ==
    /\ run[r].pc = "probe"
    /\ \/ To(r, "create") /\ UNCHANGED failures
       \/ failures < MaxFailures /\ failures' = failures + 1 /\ To(r, "release")
    /\ UNCHANGED <<setting, receipt, environment, worker, recovery, ledger, launches,
                   deaths>>

\* An unavailable herdr releases the claim, if it can be removed.
ReleaseClaim(r) ==
    /\ run[r].pc = "release"
    /\ receipt' \in {receipt, Absent}
    /\ To(r, "ended")
    /\ UNCHANGED <<setting, environment, worker, recovery, ledger, launches, deaths,
                   failures>>

\* A creation that fails may have created it, and closed it by its label.
CreateWorkspace(r) ==
    /\ run[r].pc = "create"
    /\ \/ /\ workspace' = "open"
          /\ SaveNext(r, 0, NoId)
          /\ UNCHANGED failures
       \/ MayFail(r) /\ workspace' \in {workspace, "open", "closed"}
    /\ UNCHANGED <<setting, receipt, pane, prompted, capture, worker, recovery, ledger,
                   launches, deaths, upsets>>

\* herdr pane run; one that fails or times out may have launched the agent.
Launch(r) ==
    /\ run[r].pc = "launch"
    /\ \/ /\ workspace = "open"
          /\ pane' = [agent |-> "starting", id |-> [terminal |-> 1, session |-> 0]]
          /\ launches' = launches + 1
          /\ \/ SaveNext(r, 1, NoId) /\ UNCHANGED failures
             \/ MayFail(r)
       \/ /\ UNCHANGED <<pane, launches>>
          /\ \/ MayFail(r)
             \/ workspace = "closed" /\ Fail(r) /\ UNCHANGED failures
    /\ UNCHANGED <<setting, receipt, workspace, prompted, capture, worker, recovery,
                   ledger, deaths, upsets>>

\* wait_for_prompt_ready, with the preset session where herdr has none yet.
CaptureId == IF setting.path THEN 2 ELSE 1
Known(id) ==
    [terminal |-> id.terminal,
     session |-> IF setting.preset /\ id.session = 0 THEN CaptureId ELSE id.session]
AgentReady(r) ==
    /\ run[r].pc = "ready"
    /\ \/ /\ workspace = "open" /\ pane.agent \in Settled
          /\ SaveNext(r, 2, Known(pane.id))
          /\ UNCHANGED failures
       \/ MayFail(r)
       \/ (workspace = "closed" \/ pane.agent = "none") /\ Fail(r) /\ UNCHANGED failures
    /\ UNCHANGED <<setting, receipt, environment, worker, recovery, ledger, launches,
                   deaths>>

\* No acknowledgment of the subscription within two seconds.
NotSubscribed(r) == MayFail(r)
Subscribe(r) ==
    /\ run[r].pc = "subscribe"
    /\ \/ SaveNext(r, 3, run[r].id) /\ UNCHANGED failures
       \/ NotSubscribed(r)
    /\ UNCHANGED <<setting, receipt, environment, worker, recovery, ledger, launches,
                   deaths>>

\* Typing, retyping and Enter; a failed call may have submitted the prompt.
Submit(r) ==
    /\ run[r].pc = "submit"
    /\ \/ /\ workspace = "open" /\ pane.agent # "none"
          /\ prompted' = TRUE
          /\ To(r, "wait")
          /\ UNCHANGED failures
       \/ MayFail(r) /\ prompted' \in {prompted, workspace = "open" /\ pane.agent # "none"}
       \/ (workspace = "closed" \/ pane.agent = "none") /\ Fail(r) /\ UNCHANGED <<prompted, failures>>
    /\ UNCHANGED <<setting, receipt, workspace, pane, capture, worker, recovery, ledger,
                   launches, deaths, upsets>>

SamePane(id) ==
    /\ workspace = "open" /\ pane.agent # "none"
    /\ id.terminal = pane.id.terminal /\ id.session \in {0, pane.id.session}

\* AgentStartSubscription::wait: it has to see the agent work before it is done.
AgentWorks(r) ==
    /\ run[r].pc = "wait" /\ run[r].rank < 4
    /\ SamePane(run[r].id) /\ pane.agent = "working"
    /\ SaveNext(r, 4, run[r].id)
    /\ UNCHANGED <<setting, receipt, environment, worker, recovery, ledger, launches,
                   deaths, failures>>

\* A turn over between two looks is seen in the buffered events.
Completed(r) == run[r].rank = 4 /\ SamePane(run[r].id) /\ pane.agent \in Settled
AgentDone(r) ==
    /\ run[r].pc = "wait" /\ Completed(r)
    /\ SaveNext(r, 5, run[r].id)
    /\ UNCHANGED <<setting, receipt, environment, worker, recovery, ledger, launches,
                   deaths, failures>>

WaitFails(r) ==
    /\ run[r].pc = "wait"
    /\ \/ MayFail(r)
       \/ ~SamePane(run[r].id) /\ Fail(r) /\ UNCHANGED failures
    /\ UNCHANGED <<setting, receipt, environment, worker, recovery, ledger, launches,
                   deaths>>

SaveRead(r) ==
    /\ run[r].pc = "save"
    /\ IF Refuses(run[r].rank, run[r].id) THEN Fail(r)
       ELSE To(r, IF Superseded(run[r].rank) THEN After(run[r].rank) ELSE "write")
    /\ UNCHANGED <<setting, receipt, environment, worker, recovery, ledger, launches,
                   deaths, failures>>

\* A replacement that fails may have been renamed into its place.
SaveWrite(r) ==
    /\ run[r].pc = "write"
    /\ \/ /\ receipt' = Pending(run[r].rank, run[r].id)
          /\ \/ To(r, After(run[r].rank)) /\ UNCHANGED failures
             \/ MayFail(r)
       \/ UNCHANGED receipt /\ MayFail(r)
    /\ UNCHANGED <<setting, environment, worker, recovery, ledger, launches, deaths>>

\* The session is registered as a job's; without one the run has failed, and
\* the Captured checkpoint wants the pane settled once more.
\* Pi's id is in a record of its own; others' are what the pane reports.
Discovered == setting.path \/ (workspace = "open" /\ pane.id.session = 1)
Registrable == workspace = "open" /\ pane.agent \in Settled /\ (setting.preset \/ Discovered)
Captured(id) ==
    [terminal |-> id.terminal, session |-> IF id.session = 0 THEN CaptureId ELSE id.session]
NotRegistered(r) == run' = [run EXCEPT ![r].pc = "cleanup", ![r].outcome = "failed"]
Register(r) ==
    /\ run[r].pc = "register"
    /\ \/ /\ run[r].outcome = "failed"
          /\ To(r, "cleanup")
          /\ UNCHANGED failures
       \/ /\ run[r].outcome # "failed" /\ Registrable
          /\ SaveNext(r, 6, Captured(pane.id))
          /\ UNCHANGED failures
       \/ /\ run[r].outcome # "failed" /\ ~Registrable
          /\ NotRegistered(r)
          /\ UNCHANGED failures
       \/ /\ run[r].outcome # "failed" /\ failures < MaxFailures
          /\ NotRegistered(r)
          /\ failures' = failures + 1
    /\ UNCHANGED <<setting, receipt, environment, worker, recovery, ledger, launches, deaths>>

\* wait_for_completed_envelope looks for five seconds.
Envelope(r) ==
    /\ run[r].pc = "envelope"
    /\ run' = [run EXCEPT ![r].pc = "cleanup",
                          ![r].outcome = IF capture = "complete" THEN "succeeded" ELSE "failed"]
    /\ UNCHANGED <<setting, receipt, environment, worker, recovery, ledger, launches,
                   deaths, failures>>

\* should_cleanup
Cleans(outcome) == setting.cleanup = "always" \/ (setting.cleanup = "success" /\ outcome = "succeeded")
\* The close is best effort, of a workspace the runner knows of.
CloseWorkspace == workspace' \in {workspace, "closed"}
CleanUp(r) ==
    /\ run[r].pc = "cleanup"
    /\ IF Cleans(run[r].outcome) /\ run[r].rank >= 0 /\ workspace = "open"
       THEN CloseWorkspace ELSE UNCHANGED workspace
    /\ To(r, "conclude")
    /\ UNCHANGED <<setting, receipt, pane, prompted, capture, worker, recovery, ledger,
                   launches, deaths, failures, upsets>>

\* One that cannot be persisted leaves the receipt as it is, for good.
Conclude(r) ==
    /\ run[r].pc = "conclude"
    /\ \/ receipt' = Concluded(run[r].outcome) /\ UNCHANGED failures
       \/ /\ failures < MaxFailures /\ failures' = failures + 1
          /\ receipt' \in {receipt, Concluded(run[r].outcome)}
    /\ To(r, "ended")
    /\ UNCHANGED <<setting, environment, worker, recovery, ledger, launches, deaths>>

Live(r) == run[r].pc \notin {"start", "ended"}

-----------------------------------------------------------------------------
(* Fence reconciliation, once the worker and its attempt lock are gone.    *)

RecoverTo(pc) == recovery' = [recovery EXCEPT !.pc = pc]
Retain == recovery' = NotRecovering

\* A pending receipt with a checkpoint is recovered, a conclusive one recorded.
Reconcile ==
    /\ worker = "dead" /\ ledger = "none" /\ recovery.pc = "idle"
    /\ \/ /\ receipt.state \in Conclusive
          /\ ledger' = receipt.state
          /\ UNCHANGED recovery
       \/ /\ receipt.state = "pending" /\ receipt.rank >= 0
          /\ recovery' = [NotRecovering EXCEPT !.pc = "recheck", !.saw = receipt]
          /\ UNCHANGED ledger
    /\ UNCHANGED <<setting, receipt, environment, worker, run, launches, deaths,
                   failures>>

Recheck ==
    /\ recovery.pc = "recheck"
    /\ IF receipt = recovery.saw THEN RecoverTo("observe") ELSE Retain
    /\ UNCHANGED <<setting, receipt, environment, worker, run, ledger, launches, deaths,
                   failures>>

RecoverSave(rank) == recovery' = [recovery EXCEPT !.pc = "save", !.rank = rank]

\* An agent at rest is proof only of work that was seen (mutants: always, and
\* only of work seen to end).
AlwaysSubmitted == TRUE
SeenToEnd == recovery.saw.rank >= 5
HasSubmittedWork == recovery.saw.rank >= 4

\* observe_agent_run: exact identity or nothing, and only of a known session.
ExactPane ==
    workspace = "open" /\ pane.agent \notin {"none", "starting"} /\ pane.id = recovery.saw.id
Observe ==
    /\ recovery.pc = "observe"
    /\ \/ Retain
       \/ /\ recovery.saw.id.session # 0
          /\ \/ ExactPane /\ pane.agent = "working" /\ RecoverSave(4)
             \/ ExactPane /\ pane.agent \in Settled /\ HasSubmittedWork /\ RecoverSave(5)
             \/ workspace = "closed" /\ HasSubmittedWork /\ RecoverTo("envelope")
    /\ UNCHANGED <<setting, receipt, environment, worker, run, ledger, launches, deaths,
                   failures>>

RecoverRead ==
    /\ recovery.pc = "save"
    /\ IF Refuses(recovery.rank, recovery.saw.id) THEN Retain
       ELSE RecoverTo(IF Superseded(recovery.rank)
                      THEN IF recovery.rank = 4 THEN "wait" ELSE "envelope"
                      ELSE "write")
    /\ UNCHANGED <<setting, receipt, environment, worker, run, ledger, launches, deaths,
                   failures>>

\* A recovery that cannot write retains the receipt for the next tick.
CannotRecover == failures < MaxFailures /\ failures' = failures + 1 /\ Retain
RecoverWrite ==
    /\ recovery.pc = "write"
    /\ \/ /\ receipt' = Pending(recovery.rank, recovery.saw.id)
          /\ RecoverTo(IF recovery.rank = 4 THEN "wait" ELSE "envelope")
          /\ UNCHANGED failures
       \/ receipt' \in {receipt, Pending(recovery.rank, recovery.saw.id)} /\ CannotRecover
    /\ UNCHANGED <<setting, environment, worker, run, ledger, launches, deaths>>

\* It waits for three hours at most, and while the subscription lasts.
RecoverWait ==
    /\ recovery.pc = "wait"
    /\ (ExactPane /\ pane.agent \in Settled /\ RecoverSave(5)) \/ Retain
    /\ UNCHANGED <<setting, receipt, environment, worker, run, ledger, launches, deaths,
                   failures>>

\* The capture decides, not an agent at rest; one that cannot be found, by the
\* session of the checkpoint, decides nothing.
NamesCapture(rank, id) == rank = 6 \/ id.session = CaptureId
RecoveredOutcome == IF capture = "complete" THEN "succeeded" ELSE "failed"
RecoverEnvelope ==
    /\ recovery.pc = "envelope"
    /\ IF capture = "none" \/ ~NamesCapture(recovery.saw.rank, recovery.saw.id) THEN Retain
       ELSE recovery' = [recovery EXCEPT !.pc = "conclude", !.outcome = RecoveredOutcome]
    /\ UNCHANGED <<setting, receipt, environment, worker, run, ledger, launches, deaths,
                   failures>>

RecoverConclude ==
    /\ recovery.pc = "conclude"
    /\ \/ receipt' = Concluded(recovery.outcome) /\ Retain /\ UNCHANGED failures
       \/ receipt' \in {receipt, Concluded(recovery.outcome)} /\ CannotRecover
    /\ UNCHANGED <<setting, environment, worker, run, ledger, launches, deaths>>

-----------------------------------------------------------------------------
(* Deaths and the environment.                                             *)

RunnerDies(r) ==
    /\ Live(r) /\ deaths < MaxDeaths
    /\ To(r, "ended")
    /\ deaths' = deaths + 1
    /\ UNCHANGED <<setting, receipt, environment, worker, recovery, ledger, launches,
                   failures>>

WorkerDies ==
    /\ worker = "alive"
    /\ setting.orphans \/ \A r \in Runners : ~Live(r)
    /\ worker' = "dead"
    /\ UNCHANGED <<setting, receipt, environment, run, recovery, ledger, launches,
                   deaths, failures>>

\* The agent: ready, its session reported, at work once prompted, done whether
\* or not the proxy captured it; the terminal that replaces its own was never
\* prompted.
AgentSteps ==
    /\ workspace = "open"
    /\ \/ pane.agent = "starting" /\ pane' = [pane EXCEPT !.agent = "idle"]
       \/ pane.agent # "none" /\ pane.id.session = 0 /\ pane' = [pane EXCEPT !.id.session = 1]
       \/ pane.agent = "idle" /\ prompted /\ pane.id.terminal = 1 /\ pane' = [pane EXCEPT !.agent = "working"]
       \/ pane.agent = "working" /\ pane' = [pane EXCEPT !.agent = "done"]
    /\ UNCHANGED <<setting, receipt, workspace, prompted, capture, worker, run, recovery,
                   ledger, launches, deaths, failures, upsets>>

\* The proxy captures its session, or does not, and may commit a turn after the
\* agent is done.
CaptureTurn ==
    /\ prompted
    /\ \/ capture = "none" /\ capture' = "partial"
       \/ capture # "complete" /\ capture' = "complete"
    /\ UNCHANGED <<setting, receipt, workspace, pane, prompted, worker, run, recovery,
                   ledger, launches, deaths, failures, upsets>>

\* The agent quits, the pane gets another terminal, or another run with the
\* label reclaims the workspace, which it does unless the agent works.
Upset ==
    /\ workspace = "open" /\ upsets < MaxUpsets
    /\ upsets' = upsets + 1
    /\ \/ pane.agent # "none" /\ pane' = [pane EXCEPT !.agent = "none"] /\ UNCHANGED workspace
       \/ /\ pane.agent # "none"
          /\ pane' = [agent |-> "idle", id |-> [terminal |-> 2, session |-> 0]]
          /\ UNCHANGED workspace
       \/ pane.agent # "working" /\ workspace' = "closed" /\ UNCHANGED pane
    /\ UNCHANGED <<setting, receipt, prompted, capture, worker, run, recovery, ledger,
                   launches, deaths, failures>>

Runs(r) ==
    \/ Claim(r) \/ ClaimWritten(r) \/ Probe(r) \/ ReleaseClaim(r) \/ CreateWorkspace(r)
    \/ Launch(r) \/ AgentReady(r) \/ Subscribe(r) \/ Submit(r) \/ AgentWorks(r) \/ AgentDone(r)
    \/ WaitFails(r) \/ SaveRead(r) \/ SaveWrite(r) \/ Register(r) \/ Envelope(r)
    \/ CleanUp(r) \/ Conclude(r)
Recovers ==
    \/ Reconcile \/ Recheck \/ Observe \/ RecoverRead \/ RecoverWrite \/ RecoverWait
    \/ RecoverEnvelope \/ RecoverConclude

Next ==
    \/ \E r \in Runners : Runs(r) \/ RunnerDies(r)
    \/ Recovers
    \/ WorkerDies \/ AgentSteps \/ CaptureTurn \/ Upset


Spec == Init /\ [][Next]_vars

\* The scheduler reconciles on every tick, and herdr answers again and again.
\* Nothing makes the agent end or the proxy capture it.
FairSpec ==
    /\ Spec
    /\ SF_vars(Observe /\ recovery.pc' # "idle")
    /\ WF_vars(Recovers)

-----------------------------------------------------------------------------
Ids == [terminal : 0..2, session : 0..2]
Receipts == [state : Conclusive \cup {"absent", "empty", "pending"}, rank : -1..6, id : Ids]
RunSteps ==
    {"start", "claimed", "probe", "release", "create", "launch", "ready", "subscribe", "submit",
     "wait", "save", "write", "register", "envelope", "cleanup", "conclude", "ended"}
RunStates == [pc : RunSteps, rank : -1..6, id : Ids, outcome : {"none"} \cup Conclusive]
RecoverySteps == {"idle", "recheck", "observe", "save", "write", "wait", "envelope", "conclude"}
RecoveryStates ==
    [pc : RecoverySteps, rank : -1..6, saw : Receipts, outcome : {"none"} \cup Conclusive]

TypeOK ==
    /\ setting \in Settings
    /\ receipt \in Receipts
    /\ workspace \in {"none", "open", "closed"}
    /\ pane \in [agent : {"none", "starting", "idle", "working", "done"}, id : Ids]
    /\ prompted \in BOOLEAN /\ capture \in {"none", "partial", "complete"}
    /\ worker \in {"alive", "dead"} /\ ledger \in {"none"} \cup Conclusive
    /\ run \in [Runners -> RunStates]
    /\ recovery \in RecoveryStates
    /\ receipt.rank >= 2 => receipt.id # NoId
    /\ {launches, deaths, failures, upsets} \subseteq Nat

\* However often the key is run, and whoever dies, it launches one agent.
LaunchedOnce == launches <= 1

\* A receipt says succeeded only of a prompt that was submitted and of a turn
\* the vault has completely, whether the runner concluded it or a recovery did.
SuccessIsProven ==
    receipt.state = "succeeded" \/ ledger = "succeeded" => prompted /\ capture = "complete"

\* A recovery concludes nothing of an agent that is at work or is yet to begin.
RecoveryWaitsForTheAgent ==
    [][RecoverConclude => prompted /\ (workspace = "open" => pane.agent \in Settled \cup {"none"})]_vars

\* Progress is never undone, unless a runner outlives its worker: a receipt once
\* conclusive stays as it is, and a checkpoint gives way to later ones only.
ProgressIsKept ==
    [][~setting.orphans =>
           /\ receipt.state \in Conclusive => receipt' = receipt
           /\ receipt.state = "pending" /\ receipt'.state = "pending"
                  => receipt'.rank >= receipt.rank]_vars

\* All of what a recovery asks for: a checkpoint of submitted work that names its
\* session, the pane with that identity at rest or the whole workspace gone, and
\* a capture that can be found by the session.
Evidence ==
    /\ receipt.state = "pending" /\ receipt.rank >= 4 /\ receipt.id.session # 0
    /\ workspace = "closed" \/ (pane.agent \in Settled /\ pane.id = receipt.id)
    /\ capture # "none" /\ NamesCapture(receipt.rank, receipt.id)

\* When all that knew of a run died, its job does not wait for ever on a receipt
\* that is conclusive or that the evidence can conclude.
PendingIsConcluded ==
    []<>~(worker = "dead" /\ ledger = "none" /\ (receipt.state \in Conclusive \/ Evidence))

\* A key stands for one run: it launches once, and what its receipt says of
\* success is true.
RunInv == TypeOK /\ LaunchedOnce /\ SuccessIsProven
=============================================================================
