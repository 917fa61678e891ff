# Formal model of vaultr

vaultr records the API traffic of coding agents. `plant` is a local daemon that
proxies their requests, captures every turn in a per-session directory of a
vault, runs scheduled jobs and agents, and seals old captures. `vaultr` reads a
vault and rewrites sessions into native formats. `broker` hands sealed captures
to the machines of a tenant. `vaultr-door` (TypeScript) gives new files of a
directory to an agent. This directory holds TLA+ modules translated from that
code, the TLC configurations that check them, and TLAPS proofs.

Paths below are relative to the repository's `src/`; `persistence.rs`,
`commit.rs` and `generation.rs` are under `crates/plant/src/capture/`, other Rust
files under `crates/plant/src/` unless they say otherwise.

    cd tla
    tlc -workers 2 -config MCCapture_crash.cfg MCCapture
    tlapm CaptureProofs.tla

## 1. Inventory

| Component | State | Operations | What is hard, and what makes it correct | Modules |
|---|---|---|---|---|
| Capture journal (`persistence.rs`, `commit.rs`, `state.rs`) | `state.json` (next, drain, pending requests), stage files, `turns.jsonl`, recovery markers, `ACTIVE_CAPTURES`, session mutex and flock | `reserve`, `commit_completed`, `drain`, `commit_stage`, `recover_all`, `recover_live` | Crashes between any two writes, out-of-order completions, live sweeps racing requests, torn appends, power cuts. Each turn once and in order; no answer lost; every reservation ends; recovery always possible | `CaptureJournal` over `CaptureTranscript` |
| Capture requests (`capture.rs`) | drop counters, `meta.json` | `prepare_capture`, `finish_capture`, `update_meta`, `record_drop` | Read-modify-write of `meta.json` outside the flock | the first two in `CaptureJournal`, `Proxy` |
| Generations (`generation.rs`, `session_fs.rs`) | sealed, detached and raw generation of two streams, temporaries | `scrub_entry`, `detach_capture`, `seal_generation_in`, `append_herdr_snapshot` | Renames and unlinks with crash points, captures in parallel, a compressor that fails or lies. All generations together hold every record once, and only redacted text is sealed | `Sealing` |
| Reader and codec (`crates/vaultr/src/vault.rs`, `recon.rs`) | none durable | `CaptureGenerations::load`, `run_segment`, `encode_delta`, `apply_delta`, `ReconState` | What a reader gets back is the conversation, from whatever a crash left | `Reading`, `Reconstruction`, `DeltaCodec` |
| Sweep and learners (`sweep.rs`, `crates/vaultr/src/learn.rs`) | records of passes, in-flight lease, its lock file | `eligible --claim`, record | Lease expiry during work, a lease given up early. No session in two runs, but for two ways the code leaves open; none left out | `Learning` |
| Jobs (`jobs.rs`) | fence, attempt flock, ledger, retry flag | admit, dispatch, reconcile, run, unblock | A crash between fence and record, scripts that outlive their worker, torn records. One record an attempt; no overlap | `JobAttempts` |
| Worker capacity (`jobs.rs`) | admission queue, slot files with inherited flocks | tick, spawn, begin, finish | Slots held by the dead or the left behind. The cap is kept; reserved work runs | `WorkerCapacity` |
| Agent runs (`agent_run.rs`, `herdr.rs`, `envelope.rs`) | receipt: claim, checkpoint, outcome; pane; capture | `run_idempotent`, `run_agent_with_progress`, `recover_pending` | Racing claimers, crash after claim, observations out of date. One launch, one true outcome | `AgentRuns` |
| Proxy (`proxy.rs`, `proxy/connect.rs`, `adapter.rs`) | connections, capture tasks, `DOM_GATE` | admit, prepare, tee, commit, drain | Idle timeout against late data, clients that leave, shutdown with tasks in flight. What is captured is what was answered; the listener is released | `Proxy` |
| WebSocket relay (`proxy/websocket.rs`) | history of the connection, active turn | `normalize_request`, `observe_response`, `finish_turn` | The input of a request is rebuilt from what was relayed | `Relay` |
| Broker (`crates/broker/src`) | permits, listing cache, verdict caches | list, read, put, whois, token review | Futures dropped at any wait, stale caches, waits without a timeout. Acknowledgments are true; a request waits only for what it asked for | `Broker` |
| Door (`ts/vaultr-door`) | lock file; claim, frontier, breaker | `acquireLock`, list, claim, bind, launch, persist | Recovery of a stale lock by two, a crash between outcome and frontier. One run at a time; one launch a file; no file missed | `DoorLock` over `DoorMutex`; `Door` |
| Daemon (`main.rs`) | listeners, leases, exit | bind, ask the incumbent, recover, serve, drain, exit | A drain with tasks in flight, a second daemon beside it. Recovery alone and before serving; somebody serves again | `Handover`; parts in `CaptureJournal`, `Proxy`, `Sealing` |
| Credentials, CA, telemetry, coverage, CLI, digest, writers, fork, secret scan, shell plugin, packaging | files, counters | | Sequential I/O, text or byte formats | not modelled (section 7) |

Interactions. The proxy calls `prepare_capture` before it forwards a response and
`finish_capture` from the task that tees it. Both take the session mutex and the
flock of the session directory. The recovery passes take only the flock: one runs
after the listeners are bound and before they accept, the others on a timer
(180 s) while the daemon serves. Sealing takes the same flock, and the mutex while
it detaches; a reader takes the flock shared while it opens the generations. Jobs
run scripts, scripts run agents, whose traffic goes through the same proxy and
whose end is observed as a completed envelope in the capture. When a dispatch
dies, the next one settles its fence from the ledger and the receipts of its
agents. The door is driven by a job and calls `plant agent run` with a key.

The modules meet at these interfaces. `Sealing` repeats the drain of
`CaptureJournal`, reduced to the turn that is next in order, because sealing
takes away the file a retry compares with. `Reading` composes `Sealing` with the
codec: the files come from one, their meaning from the other. `Relay` extends
`Proxy`: they share the gate and the drain; `Handover` extends both with the
daemon's exit and its successor. `JobAttempts` and `Door` see a
receipt of `AgentRuns` by its states alone, and `Door` assumes the exclusion that
`DoorLock` is shown to implement.

`PROJECT.json` lists each hazard of this code with its line and the properties
that answer it.

## 2. Modules

| Module | Role |
|---|---|
| `CaptureTranscript` | What readers of a session are promised: reservations own places, the transcript only grows, in order, and a place is synthesized only when its task is gone |
| `CaptureJournal` | The implementation: files, daemon, transactions, recovery, faults |
| `CaptureProperties` | Type invariant, inductive invariants, safety, action and liveness properties, the refinement mapping |
| `CaptureProofs` | Proofs: the journal and its turns, and what crashes and recovery leave of them |
| `Sealing` | The generations of a session: drain, snapshot, scrub, detach, merge, verify, retire, crash |
| `DeltaCodec`, `Reconstruction` | The codec as operators: deltas in three forms; answers, harness, reader state |
| `Reading` | `Sealing` read through `Reconstruction` |
| `VaultProofs` | Proofs about `Sealing`, `DeltaCodec`, `Reconstruction` and `Reading` |
| `Learning`, `LearningProofs` | One learner's sessions, passes and lease; proofs |
| `AgentRuns`, `AgentRunsProofs` | One key: runners, checkpoints, recovery, herdr, capture; proofs |
| `JobAttempts` | One job: fence, ledger, receipts, scripts |
| `WorkerCapacity` | Admission and slots of all jobs |
| `JobsProofs` | Proofs about both |
| `DoorMutex`, `DoorLock`, `Door` | The exclusion, the lock file that implements it, and a door's claims and frontier |
| `DoorProofs` | Proofs about `DoorLock` and `Door` |
| `Broker`, `BrokerProofs` | Names, listings and puts; proofs |
| `Proxy`, `Relay` | One listener over HTTP and WebSocket |
| `Handover` | A daemon that exits and the copies that follow it |
| `ProxyProofs` | Proofs about `Proxy`, `Relay` and `Handover` |
| `MC*` and their `.cfg` | Instances for TLC |

`PROJECT.json` maps each definition to the lines it stands for. Definitions
marked `(mutant)` are plausible bugs in the definition below them and are used by
no other definition.

### CaptureJournal

| Variable | In the code |
|---|---|
| `dirs` | the dated session directories that exist |
| `journal[s]` | `state.json`: it exists, `next_sequence`, `next_to_drain` |
| `unsynced[s]` | older versions of `state.json` that a power cut may bring back, because the directory sync after a rename failed |
| `stage[s][n]`, `stageTemp` | `capture-staging/<root>/<sid>/<seq>-<id>.json` and temporaries beside it |
| `raw[s]`, `torn[s]` | complete records of `turns.jsonl` and its unterminated tail |
| `marker`, `markerTemp`, `indexed` | `capture-recovery/<root>/pending/*`, temporaries there, `indexed-v1` |
| `active` | `ACTIVE_CAPTURES`: reservations whose task is alive |
| `op[s]` | the transaction that holds the flock of `s` and where it stands |
| `daemon`, `sweep` | the process, and the recovery pass with its walk, to-do set and inventory |
| `crashes`, `faults` | bounds only |

An envelope is its sequence number and who completed it: `"tee"` (a response was
captured, complete or not) or `"recovery"` (synthesized). The session mutex has
no variable: whoever holds it also holds the flock.

| Actions | Code |
|---|---|
| `CreateSession`, `ReserveBegin`, `ReserveMark`, `ReservePersist` | `session_dir`; `reserve`: temporary marker, rename, journal and registration |
| `Abandon` | a pending capture is dropped (client gone, aborted task) |
| `CommitBegin`, `Publish` | `commit_completed`: stage temporary, rename |
| `DrainNext`, `DrainBlocked`, `DrainDone` | the loop of `drain` (and of `RecoverySession::apply`) |
| `AppendBegin`, `AppendEnd`, `AppendConflict` | `reconcile_append`: skip, cut and append, or refuse |
| `PersistDrain`, `RemoveStage` | the end of `commit_stage` |
| `StartDaemon`, `StartLiveSweep`, `IndexSession`, `ListSessions` | `run_daemon`, the timer, the index of an older build, the listing of markers and stages |
| `InspectAbsent`, `ClearMarker`, `Inspect` | first loop of `recover`; the removal for an absent journal is a step of its own because it is not under the flock |
| `ApplyBegin`, `LeaveOpen`, `Synthesize` | `RecoverySession::apply` |
| `SweepDone`, `SweepFailed` | the pass ends; a failed startup pass exits the daemon |
| `WriteFails`, `SyncFails`, `Crash`, `PowerCut` | the environment |

A transaction is split at each durable write, so that a crash or a step of
another actor may fall between any two. Steps between two writes of one
transaction that only read what its flock protects are merged. Abstractions:

- A torn record is long enough to tell its envelope from another one. All start
  with the same fields; a tail cut inside them is a prefix of both and is
  truncated, which is harmless.
- `LeaveOpen` is possible for any unfinished head, since any reservation may be
  younger than the cutoff; `Synthesize` requires only that its task is not alive.
  A live task older than the cutoff is excluded by the registry, in the code too.
- The listing of markers is one step. A marker removed while it is listed makes
  the real pass fail with NotFound; the next pass repeats it.
- Not represented: journals without `capture_order` or of another vault, a
  missing vault, malformed files, a failing unlink of a marker, the temporary of
  a marker written while indexing, creation and removal of stage directories,
  `pending` request bodies. Truncating a torn tail and starting to write again
  are one step. `AppendConflict` has no fault of its own.
- A power cut loses any set of stages of one session, at most the newest record of
  one `turns.jsonl`, and brings back a version of a journal that was replaced
  without a successful directory sync since (`state.rs:126-134`). It does not undo
  unlinks.

### Sealing, Reading, Reconstruction, DeltaCodec

`raw`, `detached` and `sealed` are the three generations of `turns.jsonl` and
`herdr.jsonl`; a sealed file is the sequence of frames it concatenates, lengths
are numbers of frames and a digest is the content it is of. `commit` and `seal`
are the two transactions, with a step for each rename, write and unlink; the
session mutex and the flock are what `FlockFree` and `MutexFree` say of them. A
herdr snapshot takes only the mutex and so appends while a seal merges. A crash
cuts either transaction anywhere, also inside the append (`Partly`). `zstd` may
fail or succeed with garbage. The daemon recovers before it serves, and only a
serving one sweeps.

`DeltaCodec` has `EncodeDelta` and `ApplyDelta` over bodies that are objects with
a history, some big fields and others; `Reconstruction` folds envelopes into the
reader's state, as `ReconState` does, with both derivations of the harness and
both forms of answers. `ReadTurns` of `Sealing` is `visit_snapshot`. `Reading`
gives the captured numbers their envelopes and asks for the conversation back. A
conversation is of one harness and carries, for each turn, the answer that its
response shows (`ConversationAssumption`, which TLC evaluates on the run's two).
JSON, SSE framing, bodies that are no objects, symbolic links and legacy names
are left out.

### Learning

Ages stand for time: a lease counts down, a file counts up since it was written, the
raw one and the one before it. Nothing ends a run that outlives its claim; it only has
no time left. `Idle` is the learner's own `--idle`, which nothing relates to `Duration`,
its `--claim`; `SealIdle` is that of the sweep. A renamed file keeps its time, a
redacting scrub writes a new one. `compress_sweep` decides on all sessions and then
seals them one by one, so a turn may arrive in between: that is a shorter `SealIdle`,
and the run has 0. A pass keeps the two comparisons of time stamps the code makes of
it, updated where a file changes. The lock file serializes selection and publication,
and is free when its holder dies. Learners share nothing, so there is one.

### AgentRuns

A checkpoint is its rank (0 WorkspaceCreated to 6 Captured) and an identity
(terminal, session). Each runner goes through claim, probe, create, launch,
ready, subscribe, submit, wait, register, envelope, clean up and conclude; each
checkpoint is read, compared and then written in two steps, as the code does
without a lock. `recovery` is the scheduler's fence reconciliation. herdr, the
agent and the vault are the environment: panes are replaced, closed or left, the agent
ends whether the proxy captured it or not, and the capture may complete after it. A
write of the receipt may fail before its rename or after; a launch that timed out may
have launched. Settings are: the session id is minted with the launch (claude) or
discovered; herdr reports a path that is not the capture's id (Pi); when the workspace
is closed; a runner may outlive its worker.

### JobAttempts, WorkerCapacity

`JobAttempts` is one job under the flock that scheduler, `plant jobs run` and
`plant jobs unblock` share. Every durable step is an action: publish the fence,
execute, record, clear, mark retryable. An append to the ledger may fail before,
after or in the write. Scripts and the agents they run go on when their dispatch
dies; a scheduled compression ends with its daemon.

`WorkerCapacity` is the scheduler over all jobs: `Tick` refreshes the queue and
takes from it as `take_with_reserved` does; `Spawn` hands the slot's descriptor to
the worker, which hands it to whatever its script leaves behind. A tick may fall
a tick early or late in an interval, so due is a range.

### DoorLock, Door

`DoorLock` has one action for each system call of `acquireLock`, of the recovery
of a stale lock and of `release`; process ids are reused by strangers. It
implements `DoorMutex`. `Door` is a run with the lock: list, load one file at a
time, claim, bind to contents, check, launch, await, persist, each a step at
which it may die, while writers write. The receipt of Plant is pending while a runner
is at work on it, conclusive, or lost: pending, and its runner dead (`RunnerDies`) or
its outcome not persisted. No run of the door settles a lost one. The door's state may be that of an earlier version
(a time or a last path instead of a frontier, a claim without contents), read as
`migrateLegacyState` reads it. How writers behave is chosen at the start (`manners`).

### Broker

A request is named (cached verdict or lookup), then lists, reads or puts. Each
wait is a state in which the future may be dropped; what follows the wait then
never runs. Bodies, children and lookups of an address have no timeout and may last
for ever; a TokenReview and a drain have one. The verdicts on tokens and on addresses
are separate maps (`Verdicts`), the first one bounded; an entry knows how late it got
there after its lookup had answered. The store is linearizable and answers `head` by
size, as the code asks it. `scene` selects what callers ask and how often the clock
ticks. Spool files are left out: they are named after their request, and nothing else
reads them.

### Proxy, Relay, Handover

`Proxy`: a connection, admission by `DOM_GATE`, the response of the origin, the
preparation on a blocking thread, the tee with its channel to the client and its
idle timer, the commit, and the drain with its deadline, cancellation and
release. The origin and the client may do anything at any time. `Relay`: one
WebSocket, whose client names the response it continues, warms up, sends binary
or ambiguous frames; `created` is what the origin knows. A response is a number
of chunks, an input a sequence of numbers. Headers, TLS and tunnels that are only
spliced are left out.

`Handover` puts that listener into `run_daemon`, with a second one that has nothing
to do but to drain and join (`sibling`). Both leases are dropped, one after the
other, once both supervisors have joined, and the process exits; whatever was
begun goes on until then. Meanwhile `copy` is another plant: it binds both ports or
gives up those it got, asks each listener's `/health`, leaves, or recovers the
vault and serves. Recovery lists the turns without an answer and then closes them
one by one, so that a late commit may fall before the listing, between, or after
(`Stray`: it finds its turn closed, and leaves a stage that no recovery accepts).
There is one copy at a time: two that contend are, for the port, one that gives up.
Every request is a session of its own, and the copies' recovery is that of
`CaptureJournal` reduced to who wrote a turn first.

## 3. Properties

A property whose name ends in `Inv`, and a few others, is a conjunction of named
parts; the parts are what a run checks.

| Property | Says |
|---|---|
| `CaptureProperties!TypeOK` | every variable has its shape |
| `JournalMatchesTurns` | `turns.jsonl` holds each drained turn once, in order, and at most one more |
| `MarkerTracksOpenJournal` | once the index exists, the open journal of a session that had one before gets out of it in one way only: a power cut brings back an unsynced version (action property) |
| `NothingIrreconcilable` | no pass or commit meets a tail (`AppendsReconcile`) or a retired stage it must refuse, nor a stage temporary that drain refuses (`StagingIsClean`) |
| `StagedAnswerIsKept` | a staged answer leaves only as the record of its turn |
| `AcknowledgedIsKept` | over crashes, failing syncs and power cuts: the place of a request that was let through stays reserved, and a stage is removed by its drain only if the drain stays |
| `ImplementsTranscript` | the refinement of `CaptureTranscript` |
| `ReservationsDrain` | every reservation is drained, unless a capture of this or an earlier turn stays at work for ever (`StaysAtWork`), or marker debris keeps the daemon down (liveness) |
| `CrashNeverBlocksRecovery` | startup recovery fails only for want of resources (violated) |
| `ArchiveInv` | `EveryRecordOnce`: the three generations hold every drained record once, in order; `RetiredStageKeepsItsRecord`: no seal takes away what the recovery of a stage compares with; `NoDebrisWithoutGeneration` |
| `OnlyRedactedIsSealed` | nothing the scrub redacts is ever detached or sealed |
| `ReaderRebuildsConversation` | a reader sees every turn once (`ReaderSeesEveryTurnOnce`) and gets the history and answer of the latest |
| `CodecIsFaithful` | a delta replays against its body (`AllReplay`), mixed forms replay (`AllFormsReplay`), both derivations of the harness agree (`OneHarness`), interleaved streams rebuild (`AllStreamsRebuild`) |
| `DetachedIsSealed` | a detached generation is sealed in the end (liveness) |
| `LeaseIInv` | a session of a working run is leased for as long as the run has, or looks learned, or one of the two excuses below holds |
| `NoSessionInTwoRuns` | no run is offered a session another works on, but when that one outlived its lease (`Overran`), or when its lease was given up because an earlier pass made the session look learned and a file of it was written since (`Touched`) |
| `EverySessionIsLearned` | a sealed session gets a pass, though runs die or hang with the lease (liveness) |
| `RunInv` | `LaunchedOnce` for a key; `SuccessIsProven`: prompted, and completely captured |
| `ProgressIsKept` | checkpoints only advance and an outcome stays, unless a runner outlives its worker |
| `RecoveryWaitsForTheAgent` | a recovery concludes nothing of an agent at work |
| `PendingIsConcluded` | when the worker died, its job does not wait for ever on a receipt that is conclusive, or for which all the evidence is there that a recovery asks for (`Evidence`; liveness) |
| `AttemptInv` | `OneRecordPerAttempt`; `EveryAttemptIsAccounted`: fenced, recorded, or repeatable |
| `NoUnsettledOverlap` | no second attempt at a script that may not be repeated while the first, or its agent, is unsettled |
| `Cadence` | no more recorded scheduled attempts than intervals |
| `FenceIsCleared` | a fence does not stay, unless the ledger is torn (liveness) |
| `CapacityInv` | `CapIsKept`: no more live workers of a class than slots, over restarts |
| `ReservedRuns` | due reserved work runs though all ordinary scripts hang (liveness) |
| `LockInv`, `IsMutex` | whoever is inside is named by the lock (`OwnerIsNamed`); the lock implements `DoorMutex` |
| `NoStaleLock` | the lock of a dead run goes, also after deaths in the recovery of it (liveness) |
| `FilesInv` | `OneLaunchPerVersion`, `LaunchIsSettled`, `NothingIsMissed` (with quiet writers), `StateIsReadable` |
| `NewFilesAreHanded` | with careful writers every file is handed to an agent, unless the receipt of the claim was lost with its runner (`HeldForGood`; liveness) |
| `Broker!TypeOK` | a permit is out exactly while a child runs, the lock held exactly while the store is listed, the verdict cache bounded |
| `AcksAreTrue` | `UploadedIsListed`: a listing shows what was acknowledged before it was asked for; `AckedWasStored` |
| `NamedRecently` | a caller is taken only for whom it was within the lifetime of a verdict, and the time its lookup's answer was on its way |
| `EveryRequestEnds` | a request that was admitted ends, unless its own body, child or lookup never does (`HangsFor`), or a child that never ends has a permit (`ChildHangs`; liveness) |
| `TurnsInv` | `CompleteIsWhole` over HTTP; `RelayedTurnIsWhole` and `AnswerIsItsOwn` over the WebSocket |
| `EndFollowsCommit` | a client that saw the end finds its turn in the vault |
| `HandoverIsClean` | a listener is released over ended tasks (`ReleasedIsQuiet`); a copy recovers only when the incumbent gave up both listeners and each capture it waits for (`RecoveryIsAlone`); a turn that was closed is committed late only if the drain was cut short, or in a tunnel (`LateCommitsAreCutShort`); a copy leaves with success only for a daemon that serves both ports (`YieldsToOwner`) |
| `ServiceResumes` | a listener is released (`DrainEnds`), and then another daemon serves, unless a late commit spoiled the vault (`SuccessorServes`; liveness) |
| `RequestsGoOn` | `RequestsAreAdmitted`: nobody waits at the gate but behind unanswered requests; `TurnsEnd` (liveness) |

Each property of a passing run has a mutant in `PROJECT.json`: a change of one
mapped definition that violates it.

## 4. Runs

| Run | Instance | States |
|---|---|---|
| `crash` | 1 known session, 4 turns, 3 crashes, 2 failing writes, fairness | 139,246 |
| `power` | 2 sessions, one without a directory, 2 turns, a crash or power cut, one failing write, fsync or unlink | 1,953,811 |
| `debris` | 1 session, 1 crash; violated (section 6) | |
| `seal` | 3 turns, 2 of them to redact, 2 snapshots, 2 crashes, 2 faults; two conversations read from each state | 203,303 |
| `learn` | 2 sessions, one of them resumed, 2 overlapping runs, batches of 2, an idle window of 1 tick, a claim of 1 and a grace of 1 | 305,214 |
| `agent` | 2 runners, three settings (a discovered session, a minted one, a path), a death, a failure and an upset | 441,496 |
| `attempt` | a script that may not be repeated or a compression; scheduler and operator, 2 attempts, a death, a fault | 490,909 |
| `capacity` | 2 ordinary jobs, the compression and a reserved job on one slot, 3 workers, a restart, a fault | 183,804 |
| `lock` | 3 runs with 3 process ids, 2 deaths | 31,137 |
| `door` | 3 paths, 1 unwanted, 3 writes, up to 2 files of an earlier version, a death of a run or of Plant's runner, a busy agent, one outcome an hour | 486,721 |
| `broker` | 3 requests, 3 callers, 1 permit, 1 cached verdict, 1 seal in 2 sizes, two scenes | 297,825 |
| `proxy` | 2 requests (one tunnelled), a WebSocket of up to 3 messages, 1 permit, 2 chunks, six scenes, two of them with a successor | 281,839 |

Why the bounds are enough.

- *Journal.* The interesting distance in one session is between the head of the
  queue, a later completion and the turn being reserved: three open turns show
  every order of completion, and the initial state holds one more that an earlier
  daemon left. Two crashes are needed to crash during the recovery of a crash,
  three to do so again with the debris of both. Sessions share only the index,
  the pass and the staging root, so two suffice to show a pass that works on one
  while the other moves. The proofs hold for every value of the bounds.
- *Sealing.* Three turns make two sealed frames and a raw turn behind a detached
  one, which are all the generations there can be; two crashes interrupt a seal
  and the seal that resumes it; two faults are a failing journal write and a lying
  compressor, or a stage that is left twice.
- *Learning.* Two runs and two sessions show every overlap of batches; a resumed session
  has a turn before its pass and one after it, of which the second may arrive at every
  step of a run. The lease is longer than the idle window, which is what the second excuse of
  `NoSessionInTwoRuns` needs to occur (where it is shorter, TLC finds no such overlap),
  and a run may go on after it for any time.
- *AgentRuns.* A second runner races or follows the first; what a third would see
  is a state the second saw. A setting fixes how the session is known, and each of the
  three ways of closing and both lives of a runner occur in one of the three.
- *JobAttempts.* Two attempts: one whose traces are left, one that meets them.
- *WorkerCapacity.* One slot and three jobs for it: contention, the queue's order
  and a job that outlives a restart.
- *DoorLock.* A dead owner, the contender that removes its lock and a slower one
  that has read the same owner; two deaths make the first contender the next dead
  owner, or one that dies in the recovery of the lock. *Door*: two wanted files of equal or different times and one unwanted,
  which a rewrite or a removal turns into every listing a frontier can meet.
- *Broker.* One permit and a cache of one entry are the limits themselves; two
  writers of one key and a reader make every overlap of puts and a listing.
- *Proxy.* A buffer of one makes the channel full at once; two chunks are a
  response that is cut and one that is not; a chain of three messages has a named
  response that is not the first. A successor meets one plain request, or one
  tunnel: each turn is a session of its own, so a second adds no case. Copies are
  started without bound, one at a time.

Constants named `Max...` are bounds of the model, and appear only in guards, with
three exceptions that the code has: `MaxBatch` (`--max`), `MaxFires`
(`maxFiresPerHour`), `MaxObject` and `MaxAws`, `MaxCached` of the broker.
`MaxCaptures` stands for the end of the 64-bit sequence, which `checked_add`
refuses.

Deadlock is checked in the capture runs and in `broker` (there an explicit `Done`
ends the scenes). Elsewhere the model may really stop: an agent run, the runs of a
door, the lives of a listener end, and a session whose bounds are used up is at
rest.

### Fairness

- *Capture.* Transactions and passes are straight-line code on blocking threads:
  weak fairness of `Drain`, of the two steps of `reserve` and of `Recover`.
  launchd restarts a dead daemon and the sweep is a timer: weak fairness of
  `Daemon`. Capture tasks have none: the tee gives up an idle origin, but waits without
  a timeout for a client that stopped reading (`proxy.rs:491`), and a turn of a websocket
  has no idle bound; `ReservationsDrain` excuses them. `Synthesize` has strong fairness: a pass
  may leave a head that is still young, but a reservation does not stay young for
  ever. `ReservationsDrain` also excuses marker debris, because of the finding
  `debris`: there the daemon does not start again.
- *Sealing.* Weak fairness of the running transaction, of restart and recovery;
  strong fairness of `SealBegin`, which the hourly sweep tries again and again
  between captures. `DetachedIsSealed` excuses a lying zstd and a stage that
  recovery refuses, since both stop the real sweep for good.
- *Learning.* Time passes; strong fairness of the script's steps, claim, publish and
  record, since the job starts again and again and not every run dies early; weak
  fairness of the end of a run that has recorded its whole batch. Nothing ends a run
  that outlives its claim: it may hang for good.
- *AgentRuns.* The scheduler reconciles on every tick (weak fairness of `Recovers`), and
  herdr's answers are not for ever inconclusive (strong fairness of an `Observe` that
  decides). Runner, agent and capture have none: the runner may die, the agent may never
  end, and may end without a capture.
- *JobAttempts.* Scripts end (the backstop), a dispatch that holds the flock goes
  on, ticks come and find the flock free from time to time, and an operator looks
  after a job that is blocked, which the code leaves to one.
- *WorkerCapacity.* Ticks and the start of workers. Scripts need not end.
- *DoorLock, Door.* Jobs start the door again; a live run and the hour go on; the
  operator re-arms a paused door. A pending receipt becomes conclusive while its runner
  lives, since each of the runner's waits has a timeout (weak fairness of `AgentEnds`);
  nothing settles one whose runner died. Writers have none.
- *Broker.* For each request, weak fairness of the steps that the broker takes by itself
  once what they wait for is there (`Own`), and of the two waits that have a timeout: a
  TokenReview (`kube.rs:135`) and a drain (`DrainEnds`). None of a body
  (`main.rs:788`), a child (`store.rs:173-177`) or a lookup of an address
  (`tenant.rs:288-334`), which have no timeout.
- *Proxy.* Threads and timers; strong fairness of `Admit`, since a tokio semaphore
  serves its waiters in order. Clients and origins have none. In `Handover` the
  incumbent's exit goes on, and launchd (`KeepAlive`) and the code of a copy do.
- No fairness anywhere of new requests, faults, crashes or deaths.

## 5. Proofs

The theorems hold for every value of the constants: any number of sessions, turns,
runs, jobs, slots, files, requests, process ids, crashes, deaths and faults, caches,
buffers and permits of any size, and for the codec all fields, values and histories of
any length. Together they state every invariant, every step property and every
refinement that a passing run checks, but for `ProgressIsKept`. What a
theorem assumes of the constants beyond the `ASSUME` of its module is in the table.

| Theorem | Statement |
|---|---|
| `TypeCorrect` | `Spec => [](TypeOK /\ \A s \in Sessions : FlowOk(s))` |
| `AcknowledgedSurvives` | `Spec => AcknowledgedIsKept`, failing syncs and power cuts included |
| `JournalSafe` | without power loss, `Spec => []JournalMatchesTurns` |
| `StagedAnswersSurvive` | without power loss, `Spec => StagedAnswerIsKept` |
| `JournalImplementsTranscript` | without power loss, `Spec => ImplementsTranscript` |
| `MarkersFindOpenJournals` | `Spec => MarkerTracksOpenJournal`, failing syncs and power cuts included |
| `RecoveryReconciles` | without power loss and failing unlinks, `Spec => []NothingIrreconcilable` |
| `ArchiveHolds` | `Spec => []ArchiveInv` of `Sealing` |
| `RedactedIsSealed` | `Spec => []OnlyRedactedIsSealed` |
| `ReaderIsFaithful` | `Spec => []ReaderSeesEveryTurnOnce`, the part of `ReaderRebuildsConversation` that is about files |
| `ConversationIsRebuilt` | `Spec => []ReaderRebuildsConversation` of `Reading`: what is read is the latest history and its answer |
| `DeltasReplay` | `AllReplay` of `DeltaCodec`: every delta gives back its body |
| `CodecHolds` | `Spec => []CodecIsFaithful` of `Reading`: `AllReplay`, `AllFormsReplay`, `OneHarness` and `AllStreamsRebuild` |
| `WorkStaysProtected` | `Spec => []LeaseIInv` of `Learning`, for any `Idle` and `Duration` |
| `SessionsAreApart` | `Spec => NoSessionInTwoRuns`, for any `Idle` and `Duration` |
| `RunInvHolds` | `Spec => []RunInv` of `AgentRuns` |
| `RecoveryWaits` | `Spec => RecoveryWaitsForTheAgent` |
| `AttemptInvHolds` | `Spec => []AttemptInv` of `JobAttempts` |
| `AttemptsDoNotOverlap` | `Spec => []NoUnsettledOverlap` |
| `CadenceIsKept` | `Spec => []Cadence` |
| `CapIsNeverExceeded` | `AdmissionSpec => []CapacityInv` of `WorkerCapacity` |
| `OwnersAreNamed` | `Spec => []LockInv` of `DoorLock` |
| `LockIsMutex` | `Spec => IsMutex`: the lock file implements `DoorMutex` |
| `FilesAreHandedOnce` | `DoorSpec => []FilesInv` of `Door` |
| `BrokerIsConsistent` | `Spec => []TypeOK` of `Broker`: permits, lock and cache bound |
| `AcknowledgmentsAreTrue` | `Spec => AcksAreTrue` |
| `NamesAreRecent` | `Spec => NamedRecently` |
| `CapturedIsWhatPassed` | `Spec => []TurnsInv` of `Proxy` and `Relay` |
| `ClientsSeeCommittedTurns` | `Spec => []EndFollowsCommit` |
| `DaemonsFollowCleanly` | `HandoverSpec => HandoverIsClean` |

Each invariant named below was model-checked on its run's instance before it was
proved, and each proof has one lemma for each action (the small modules one for a
group of them).

*Type correctness* is not inductive alone: incrementing `journal[s].drain` needs
that a transaction at `persist` has an open journal. `FlowOk` adds what each step
relies on whatever was lost before, so the theorem covers power cuts.

*What was acknowledged.* A journal may revert, to a version whose replacement was never
synced. `SyncInv` says why that undoes nothing anybody acted on: each of these versions
has the place of every capture under way, since a reservation whose own sync fails is not
handed out, and one whose sync succeeds settles the versions before it; and there is none
when a drain is about to remove its stage.

*The inductive invariant* `CaptureInv` is the safety argument of the code, by
session: `TurnsMatch` (the goal); `TailIsStaged`, what `turns.jsonl` holds beyond
the journal is the envelope staged for the next turn, so the append can be
repeated; `StagesAreReserved`; `ActiveIsOpen`, a capture whose task still has to
publish has an open place nobody staged, so that a commit never overwrites a
stage; `TransactionOk`, what the holder of the flock knows; and, for the passes,
`SweepOk`: startup recovery is alone, a pass belongs to a daemon, one transaction
per pass. Without `TailIsStaged` a crash after the append could be followed by a
second, different record; without `ActiveIsOpen` a task could publish a turn that
recovery had synthesized. `CaptureProofs` shows it for each action; each
lemma has one step for each conjunct that the action can disturb.

*Staged answers and refinement* need two more facts (`AnswerInv`): a turn whose
task is alive is never staged as synthesized, and a stage that outlived its turn
holds the record of that turn. The refinement maps `reserved` to
`next_sequence`, `transcript` to the complete records and `inflight` to the
active captures: `ReservePersist` is `Admit`, `AppendEnd` is `Settle`, the end of a
task and a crash are `Leave`, everything else stutters.

*Markers.* `MarkerInv` needs only types: a session that ever had a journal
(`Established`) is in every walk of the directories, so no pass takes it for absent
and clears its marker; a reservation is marked before the journal points at it; the
marker goes only when the journal is found closed under the flock. A power cut takes
one thing back: a journal that was found closed, and whose sync had failed, may be open
again, which the property names. A session's first reservation is excused (section 6).

*Recovery reconciles.* `RecoveryInv` adds to `AnswerInv` what debris there can be: a
stage that outlived its turn is the one before the next to drain (`RetiredIsLast`),
and there is one such stage only while no unlink fails; a stage temporary belongs to
the writer under the flock or to a session that the startup pass has still to visit
(`TempIsKnown`). Then no pass and no commit meets anything it must refuse.

`JournalSafe`, `StagedAnswersSurvive`, `JournalImplementsTranscript` and `RecoveryReconciles` assume `PowerLoss = FALSE`;
section 6 says how `AppendsReconcile` fails without it. `RecoveryReconciles` also
assumes that no unlink fails (`"io"` is no member of `Faults`): two stages left behind in a row
are the hazard at `commit.rs:296`.

*Sealing.* `ArchiveIInv` says who runs (`OneTransaction`), which stages there are
(`StagesFollow`), that only the last record of `turns.jsonl` may be torn or ahead of
the journal (`OnlyTheLastIsTorn`, `AheadIsNext`), that a detached generation is the
frame after those sealed before it, or was sealed as exactly that frame or as zstd's
garbage (`FramesFit`), and what a seal has established at each step (`DetachKnows`,
`MergeKnows`): it detaches only over a quiet journal and a scrubbed herdr file, and
retires only what it has verified. Without `FramesFit` a seal that resumes a crashed
one could append its frame a second time. A sealed file is flattened by the library's
`FlattenSeq`, which chooses a function by its recursive equations: that there is one,
and what it makes of one frame more, is shown by the least counterexample, since
induction over an operator is out of reach.

*Learning.* `LeaseIInv` has one fact about each session of a working run
(`WorkIsProtected`): the lease names it for at least as long as the run has left, or it
looks learned, or one of the two excuses holds already. A claim replaces the lease only
when all its sessions look learned or it has expired, and offers neither what is leased
nor what looks learned; so what it does offer of another run is excused. A session that
looked learned stops to do so only when one of its files is written, which is since the
claim when the file is younger than the run (`Touched`). Nothing is assumed of `Idle`
and `Duration`.

*Agent runs.* `RunIInv`: the key has one live runner, from whose claim on there is a
receipt; nothing is launched or prompted earlier than the runner's own step; every
outcome on its way to the receipt is a true one; an agent that was seen at work does
not start again in its own terminal, so what a recovery has seen at rest stays at
rest until it concludes. None of it needs that the runner and the recovery take turns:
both theorems hold of a runner that outlives its worker.

*Jobs.* `AttemptIInv`: what the holder of the flock has found out stays true until it
acts on it (`HolderKnows`), the fence is of the latest attempt, and a scheduled
attempt belongs to the interval that is running until it is recorded
(`DueUntilRecorded`), so that intervals pay for records (`RecordsAreSpent`).

*Worker capacity.* `CapacityIInv`: a worker that is alive holds the kernel's lock of the
slot it was given (`HeldWhileAlive`), that slot is of its job's class (`OfItsClass`), and
no other live worker was given it (`SlotsAreOwn`): a slot is only given when nobody
holds it, what a script left behind included. So the live workers of a class map one to
one into its slots, which is `CapIsKept`. A count of workers would not do: a restarted
daemon knows of none, and only the locks tell it who is there. `QueueOK` keeps the
admission queue free of repetitions.

*The broker.* `BrokerIInv` has for each future that it fits its place, and three facts
about what it carries. A listing that is being made is no older than what was
acknowledged, because an acknowledgment needs the listing's lock, and forgets what is
kept of it (`Current`, `ListingIsCurrent`). A put under way has seen every size that its
key had (`SizesSeen`). A verdict names who is there, or its age says since when not: no
longer than its answer has been on its way, which is at most a tick for a token
(`Aged`), and in the cache no longer than that and its age there (`NamesAge`). Each step of a request replaces one future, gives back what it held, and
keeps the cache within its bound, wherever the future is dropped.

*The door's lock* is deleted by name, so whoever removes a dead owner's file has to
be sure that the name still is that file. `DoorInv` is the argument: the owner a
lock file names is inside, or dead, or about to remove it; a file that is opened
for recovery is locked in the kernel by one live run; what that run is about to
remove is the opened file, under its name, of an owner that is dead. Without the
last part a slow contender could remove the lock that a faster one has published
since. The refinement maps the run that is inside to the holder of `DoorMutex`.

*The door.* `DoorIInv` relates what is on disk and what a run carries to the frontier.
What was handed over is behind it, and what is claimed is ahead of it (`FrontierOK`);
an agent was launched either on the claim that is open, under the key that is made of
it and still with a receipt, or on files that were handed over (`LaunchesOK`). So a run
that dies between the outcome and the frontier is followed by one that asks for the
same key again, and not by a second launch. With quiet writers (`QuietOK`) what is ahead
of the frontier and not claimed comes after the claim in the order of the listing, so
that the frontier passes over nothing. `MigratedIsGood` shows that a state of either
earlier version, as `migrateLegacyState` reads it, satisfies all of it.

*The proxy.* `HttpIInv` follows each request through its three threads (`Flow`): what the
tee has is what the origin sent, what the client has seen and what is in its channel
make up what the tee has passed on, and the end is put there only after the commit, or
after a drain that was cut short. A permit is held only by a captured request
that was admitted and not answered (`HandlerFlow`), and never by more than there are
permits (`GateOK`). `SocketIInv` is about the relay: the turn that is open is
the latest and its text begins the events of its response (`TurnsOK`, `ActiveOK`); the
remembered history is the input and the answer of the response it names (`HistoryOK`);
and while the connection is captured, no response runs but the awaited one
(`RunningOK`), without which an event could be put to the wrong turn.

*The handover.* `HandoverIInv` adds to `HttpIInv` that a port is given up only after the
listener was released and its sibling joined, that a copy gets to recovery only with
both (`PortsOK`), and that a turn which recovery closed is one that no waited-for task
will commit (`ClosedOK`). Every step of `HandoverSpec` is one of `Relay` or leaves its
variables alone (the lemma `IncumbentIsRelay`), so `TurnsInv` and `EndFollowsCommit` hold
beside any number of copies (`CapturedBesideCopies`).

*The codec.* The set of lengths of shared prefixes is not empty and bounded, so it
has a longest (well-founded induction on what remains of the history); that prefix
and the rest are the history; fields that are set or removed leave exactly those of
the body. So `ApplyDelta` of `EncodeDelta` is the body, in each of the forms.

*What a reader folds.* `Reconstruct`, the blocks of an answer, the harness, a capture of
mixed forms and the text of a field are all `FoldLeft`, which the library defines by
a chosen function over sets of places. The prover cannot be given an operator, so
`Step` tells the five by name, and the facts are shown once: such a function exists
(`FoldExists`), any of them takes one step at each place (`FoldsInOrder`), and so a fold
ends where its trace ends (`Traces`, `ReconstructEndsIn` and its like), each by the least
place that would be a counterexample.

- `ConversationIsRebuilt`: the state after n envelopes is `StateOf(c, n)`, the history of
  turn n with its answer, under the harness that the first n labels show; an envelope
  takes it one turn further (`EnvelopeApplies`), since its delta replays against the
  body before it and no label conflicts. The turns shown are the first ones, in order
  (`TurnsShown`, from `ReaderIsFaithful`'s lemma), so the last of them is what is read.
- `AllFormsReplay`: the dictionary of the reader is the identity on the messages given so
  far, and its history the last one, whatever the form of each request
  (`MixedFormsReplay`, for any number of requests).
- `OneHarness`: `HarnessAgrees`, for any number of envelopes, from the harness that a
  prefix shows (`HarnessOf`), which both derivations have.
- `AllStreamsRebuild`: a merge is given by the places of the first block's events. After
  i of them the blocks are those of as many events of each as have come by then
  (`BlocksAfter`, `StreamGrows`), for deltas of any length.

Only model-checked: `ProgressIsKept`, which is no more than that runner and recovery take
turns where a runner does not outlive its worker; and every liveness property, since fairness and ENABLED are out of the
prover's reach: `ReservationsDrain`, `DetachedIsSealed`, `EverySessionIsLearned`,
`PendingIsConcluded`, `FenceIsCleared`, `ReservedRuns`, `NoStaleLock`,
`NewFilesAreHanded`, `EveryRequestEnds`, `RequestsGoOn`, `ServiceResumes`.

## 6. Findings and observations

`debris` (`persistence.rs:852`) is shown by a run. The marker's temporary lies
among the markers. A crash between its creation and its rename leaves a file that
the listing refuses, which is fatal at startup, at every restart. Stage
temporaries have a recovery path (`read_stages`); markers have none.

The following was met while modelling. Each is behaviour the models contain, or
a reading of the code next to them; the properties are stated so that they hold
beside it, and name the excuse where one is needed.

Capture.
- `persistence.rs:1006`: a pass tests for `state.json` without the flock and then
  removes the marker. Between `mark_pending` and the first `persist` of a new
  session this removes a marker that is needed; if the daemon then dies, no
  recovery visits the session until it is used again.
- `persistence.rs:354`: a power cut that loses an unsynced stage whose record, or
  part of it, had reached `turns.jsonl` makes recovery synthesize another envelope
  for the turn, which `reconcile_append` refuses at every start.
- `commit.rs:296`: a drained stage whose unlink failed, and behind which the
  journal moved on or the next append broke off, is refused by every later
  recovery (`LeftBehind` of `Sealing`).
- `state.rs:126-134`: when the directory sync after the rename of a journal fails, the
  drain reports an error, but every reader sees the new version. A live sweep that meets
  it removes the retired stage and, when the journal is closed, the marker. A power cut
  that then brings the old version back leaves an open journal without its marker, and
  without the stage of its head (`MarkerTracksOpenJournal` names it).
- `proxy.rs:491`: a capture whose client stopped reading stays active; commits and live
  sweeps leave the head of the queue to it, so later turns of the session are not drained
  either until it ends (`StaysAtWork`).
- `capture.rs:186`: `update_meta` and the drop counters are read, changed and
  written without a lock; an update may be lost.
- A sealed file whose frame zstd wrote wrongly is a conflict that no later sweep
  resolves; nothing is lost, the detached file stays.

Learning, jobs, agent runs.
- `sweep.rs:94`: a pass counts for a raw generation if it is later than the one
  before, so turns that came after the pass are not offered until they are sealed
  and something else is written.
- `sweep.rs:98`, `sweep.rs:549-567`: two runs may get one session in two ways. Nothing
  ends a run that outlives its `--claim`: its lease expires under it. And a lease is given
  up once its sessions look learned, which an earlier pass makes them while only the
  frozen generation is there: the raw turns that a run is reading are detached, the lease
  goes, and a new turn, a redacting scrub (a new file, with a new time) or the next
  generation makes the session eligible again. The second way needs an idle window that is
  no longer than the lease: nothing relates `--idle` to `--claim`, and
  `crates/plant/tests/runtime_contracts.rs:252,267` use `--idle 0s --claim 1h`.
- `sweep.rs`: `compress_sweep` decides on an inventory it took before; a turn that arrives
  in between is sealed before it was idle.
- Receipts that stay pending for ever, and with them the job's fence: the recovery looks
  for a session it knows (a checkpoint of rank 4 or later with a session, or `Captured`), for
  the pane with exactly that identity at rest or the workspace gone, and for the capture. One
  that was never captured (`envelope.rs:46-49`, `agent_run.rs:78`), a Pi run before
  `Captured`, whose session is a path no capture has (`herdr.rs:214-217`,
  `vault.rs:163-173`), a replaced pane, or a prompt that nobody saw at work is retained at
  every tick. `Evidence` is what is left.
- `agent_run.rs:254`: a checkpoint is read, compared and written without a lock. A
  runner that outlives its worker may overwrite the conclusive outcome that a
  recovery wrote. `ProgressIsKept` is about workers that take their runners along;
  `RunInv` and `RecoveryWaitsForTheAgent` hold in both cases.
- `agent_run.rs:340-345`: an outcome that could not be persisted leaves the receipt
  pending, with a runner that is gone.
- `jobs.rs:656`: a torn record makes the ledger unreadable; the job is never due
  until the file is repaired. `unblock_job` refuses it too, unless there is no fence, or
  the fence is one it removes unread (retryable; `jobs.rs:835-857`).
- `jobs.rs:475`, `jobs.rs:525`: a process that a script leaves behind keeps the
  slot's descriptor, and with it the slot.
- `jobs.rs:1532`: a job rejected for want of a slot goes to the back of the queue;
  with more ordinary jobs than slots one of them may never find a slot free when
  it is tried. Reserved jobs do (`ReservedRuns`).

Door.
- `index.ts:114`: a file written, while a run loads others, at a time before the
  latest it loads, is behind the frontier the run leaves. Hence "quiet" writers.
- `index.ts:72`: a claimed file that changes or goes stops the door on that claim.
  Hence "patient" writers.
- `agent_run.rs:309-313`, `jobs.rs:808-814`: when Plant's runner dies with the receipt of
  a claim pending, or cannot persist its outcome, `run_idempotent` says Indeterminate of
  that key for ever: `recover_pending` is only called with the id of a job's fence, never
  with a claim's key. The door holds the claim (`index.ts:240-248`), and none of its files
  nor of those after them is handed, until somebody removes the receipt or the claim.
  `NewFilesAreHanded` names it (`HeldForGood`).

Broker.
- An upload that is dropped at a wait leaves its spool file until the next start,
  and may have landed without the listing being forgotten.
- A seal of the same size as the stored one is answered "unchanged".
- `main.rs:788`, `store.rs:173-177`, `tenant.rs:288-334`: a body, a child of the store and a
  lookup of an address have no timeout. A child that never ends keeps its permit; with as many
  of them as there are permits every request waits until the broker is stopped.
- A name is trusted for the lifetime of a verdict, counted from its insertion: the time
  that a lookup of an address took to answer comes on top, and has no bound.

Proxy.
- The preparation of a request whose client left goes on without a permit of
  `DOM_GATE`; requests that the origin does not answer keep theirs.
- A client that keeps its connection and reads nothing holds its turn open; a turn
  of the WebSocket has no idle bound.
- A tee that is cut off by the idle timeout or aborted ends the client's body as if
  it were complete. A client sees the end of a response only after the commit.
- After a failed response, the next create finds `awaiting_terminal` set and
  capture is disabled for the connection, without a drop record.
- `main.rs:728`: `README.md` of plant (lines 44-47) says that both descriptors stay
  owned until both supervisors join, "so a replacement cannot overlap a dying
  instance's capture writes". It holds of the tasks a supervisor waits for. Tunnels
  of intercepted CONNECTs are spawned outside the tracker, and at the deadline only
  the wrapper of a commit is aborted, not the blocking closure: either may write
  between the drop of the leases and the exit. If a replacement has closed the turn
  by then, the stage that is left is refused ("retired stage conflicts") by every
  later startup recovery, which is fatal. `LateCommitsAreCutShort` says that nothing
  else overlaps, and `SuccessorServes` names the excuse.
- `credentials.rs:334-370`: the digest covers the sources alone, so a destination
  changed by hand, or back, is not noticed.

## 7. Not modelled, and why

- *Credentials*: two passes over a directory by one process; the hazards are in
  cryptography and file formats.
- *Writers, fork, translate, render*: sequential conversion between formats.
- *Secret scanning, redaction patterns*: matching over text. `Sealing` models that
  the scrub runs, and where, not what it matches.
- *Certificate authority, telemetry, coverage, CLI, selftest, digest, shell plugin,
  packaging*: library calls, counters, argument parsing and glue, with no state
  another component relies on.
- *Parts of modelled components*: `meta.json` and drop records; the dispatch of
  commands; session lookup, listing and validation of the reader;
  bodies that are no objects; SSE framing; the registry of job sessions beyond
  `JobSids`; the parsing of job headers; health and metrics endpoints; the TLS
  layer; presigned URLs of the broker beyond the child that makes them, and its spool
  files. `PROJECT.json` has them by component.

What would come next: `Handover` over the vault of `CaptureJournal` instead of one
turn a session; the composition of `JobAttempts` with `AgentRuns` instead of its
receipts alone.
