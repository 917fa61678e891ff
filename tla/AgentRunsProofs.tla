--------------------------- MODULE AgentRunsProofs ---------------------------
(***************************************************************************)
(* What a receipt says is true, for any number of runners, deaths,         *)
(* failures and upsets: one agent is launched, success is proven, and a    *)
(* recovery concludes nothing of an agent still at work.                   *)
(***************************************************************************)
EXTENDS AgentRuns, TLAPS

Saving(r, ranks) == run[r].pc \in {"save", "write"} /\ run[r].rank \in ranks

\* A runner that has not launched its agent, and one that has not prompted it.
BeforeLaunch(r) ==
    \/ run[r].pc \in {"claimed", "probe", "release", "create", "launch"}
    \/ Saving(r, {0})
BeforePrompt(r) ==
    \/ BeforeLaunch(r)
    \/ run[r].pc \in {"ready", "subscribe", "submit"}
    \/ Saving(r, {1, 2, 3})

\* The key belongs to one runner, who holds its receipt from the claim on.
OneRunner ==
    /\ \A r, q \in Runners : Live(r) /\ Live(q) => r = q
    /\ \A r \in Runners : Live(r) => receipt.state # "absent"

\* Nothing was launched or prompted while the key can be claimed, nor before the
\* runner got that far.
LaunchesAreClaimed ==
    /\ receipt.state = "absent" => launches = 0 /\ ~prompted
    /\ \A r \in Runners : BeforeLaunch(r) => launches = 0
    /\ \A r \in Runners : BeforePrompt(r) => ~prompted
    /\ LaunchedOnce

\* What the agent does and what is captured of it comes from the prompt.
PromptComesFirst ==
    /\ pane.agent # "none" => launches = 1 /\ pane.id.terminal # 0
    /\ pane.agent \in {"working", "done"} => prompted
    /\ capture # "none" => prompted

\* Every outcome on its way to the receipt is a true one.
OutcomesAreProven ==
    /\ \A r \in Runners : /\ run[r].pc \in {"cleanup", "conclude"} => run[r].outcome # "none"
                          /\ run[r].outcome = "succeeded" => capture = "complete"
    /\ recovery.pc = "conclude" => recovery.outcome # "none" /\ capture # "none"
    /\ recovery.outcome = "succeeded" => capture = "complete"
    /\ SuccessIsProven

\* The checkpoints from AgentReady on name the agent.
IdsAreKnown ==
    /\ \A r \in Runners : run[r].rank >= 2 => run[r].id # NoId
    /\ recovery.pc \in {"save", "write", "wait"} => recovery.saw.id.session # 0
    /\ recovery.pc \in {"save", "write"} => recovery.rank \in {4, 5}

\* An agent that was seen at work does not begin again in its own terminal.
Worked == launches = 1 /\ pane.agent # "starting" /\ (pane.agent = "idle" => pane.id.terminal = 2)
SeenAtWork ==
    /\ receipt.rank >= 4 \/ recovery.saw.rank >= 4 \/ recovery.rank >= 4 => Worked
    /\ \A r \in Runners : run[r].rank >= 4 => Worked
    /\ recovery.pc \in {"wait", "envelope", "conclude"} => Worked

\* What a recovery has seen at rest is at rest.
AtRest == workspace = "open" => pane.agent \in Settled \cup {"none"}
RecoveryFollowsRest ==
    /\ recovery.pc \in {"envelope", "conclude"} => AtRest
    /\ recovery.pc \in {"save", "write"} /\ recovery.rank = 5 => AtRest

RunIInv ==
    /\ TypeOK
    /\ OneRunner
    /\ LaunchesAreClaimed
    /\ PromptComesFirst
    /\ OutcomesAreProven
    /\ IdsAreKnown
    /\ SeenAtWork
    /\ RecoveryFollowsRest

-----------------------------------------------------------------------------
(* The steps of the runners and of the recovery stay within their types.   *)

LEMMA ToIsTyped ==
    ASSUME run \in [Runners -> RunStates], NEW r \in Runners, NEW pc \in RunSteps, To(r, pc)
    PROVE  run' \in [Runners -> RunStates]
<1>1. [run[r] EXCEPT !.pc = pc] \in RunStates
  BY DEF RunStates
<1> QED  BY <1>1 DEF To

LEMMA SaveNextIsTyped ==
    ASSUME run \in [Runners -> RunStates], NEW r \in Runners, NEW rank \in -1..6, NEW id \in Ids,
           SaveNext(r, rank, id)
    PROVE  run' \in [Runners -> RunStates]
<1>1. [run[r] EXCEPT !.pc = "save", !.rank = rank, !.id = id] \in RunStates
  BY DEF RunStates, RunSteps
<1> QED  BY <1>1 DEF SaveNext

LEMMA FailIsTyped ==
    ASSUME run \in [Runners -> RunStates], NEW r \in Runners, Fail(r)
    PROVE  run' \in [Runners -> RunStates]
<1>1. [run[r] EXCEPT !.pc = "register", !.outcome = "failed"] \in RunStates
  BY DEF RunStates, RunSteps, Conclusive
<1> QED  BY <1>1 DEF Fail

LEMMA EndIsTyped ==
    ASSUME run \in [Runners -> RunStates], NEW r \in Runners, NEW outcome \in Conclusive,
           run' = [run EXCEPT ![r].pc = "cleanup", ![r].outcome = outcome]
    PROVE  run' \in [Runners -> RunStates]
<1>1. [run[r] EXCEPT !.pc = "cleanup", !.outcome = outcome] \in RunStates
  BY DEF RunStates, RunSteps
<1> QED  BY <1>1

LEMMA RecoverToIsTyped ==
    ASSUME recovery \in RecoveryStates, NEW pc \in RecoverySteps, RecoverTo(pc)
    PROVE  recovery' \in RecoveryStates
BY DEF RecoverTo, RecoveryStates

LEMMA RecoverSaveIsTyped ==
    ASSUME recovery \in RecoveryStates, NEW rank \in -1..6, RecoverSave(rank)
    PROVE  recovery' \in RecoveryStates
BY DEF RecoverSave, RecoveryStates, RecoverySteps

LEMMA RetainIsTyped ==
    ASSUME Retain
    PROVE  recovery' \in RecoveryStates
<1>1. Absent \in Receipts
  BY DEF Absent, NoId, Receipts, Ids
<1> QED  BY <1>1 DEF Retain, NotRecovering, RecoveryStates, RecoverySteps

\* An identity that is known is some terminal or some session.
LEMMA Identities ==
    \A id \in Ids : id # NoId <=> id.terminal # 0 \/ id.session # 0
BY DEF Ids, NoId

-----------------------------------------------------------------------------
(* Every step keeps the invariant.                                         *)

\* The key is claimed, or it is another's.
LEMMA ClaimKeeps ==
    ASSUME NEW r \in Runners, RunIInv, Claim(r)
    PROVE  RunIInv'
<1> USE AgentRunsAssumption DEF RunIInv, TypeOK, Live, environment, Claim, Claimable, Absent
<1>1. TypeOK'
  <2>1. run[r].id \in Ids
    BY DEF RunStates
  <2>2. run' \in [Runners -> RunStates]
    BY <2>1, ToIsTyped DEF RunSteps, Ids, NoId
  <2> QED  BY <2>2 DEF Receipts, Ids, NoId, RunStates, IdsAreKnown, OutcomesAreProven
<1>2. OneRunner'
  BY DEF To, OneRunner, RunStates, Conclusive
<1>3. LaunchesAreClaimed'
  BY DEF To, OneRunner, LaunchesAreClaimed, LaunchedOnce, BeforeLaunch, BeforePrompt, Saving,
         RunStates, Conclusive
<1>4. OutcomesAreProven'
  BY DEF To, OutcomesAreProven, SuccessIsProven, PromptComesFirst, LaunchesAreClaimed,
         BeforePrompt, RunStates
<1>5. IdsAreKnown'
  BY DEF To, IdsAreKnown, PromptComesFirst, Settled, RunStates, Ids
<1>6. SeenAtWork'
  BY DEF To, SeenAtWork, Worked, LaunchesAreClaimed, BeforeLaunch, PromptComesFirst, IdsAreKnown,
         Settled, Receipts, RunStates
<1>7. PromptComesFirst' /\ RecoveryFollowsRest'
  BY DEF PromptComesFirst, RecoveryFollowsRest, AtRest
<1> QED  BY <1>1, <1>2, <1>3, <1>4, <1>5, <1>6, <1>7

\* The claim becomes pending, or is undone.
LEMMA ClaimWrittenKeeps ==
    ASSUME NEW r \in Runners, RunIInv, ClaimWritten(r)
    PROVE  RunIInv'
<1> USE AgentRunsAssumption DEF RunIInv, TypeOK, Live, environment, ClaimWritten, Pending, Absent
<1>1. TypeOK'
  <2>1. run[r].id \in Ids
    BY DEF RunStates
  <2>2. run' \in [Runners -> RunStates]
    BY <2>1, ToIsTyped DEF RunSteps, Ids, NoId
  <2> QED  BY <2>2 DEF Receipts, Ids, NoId, RunStates, IdsAreKnown, OutcomesAreProven
<1>2. OneRunner'
  BY DEF To, OneRunner, RunStates, Conclusive
<1>3. LaunchesAreClaimed'
  BY DEF To, OneRunner, LaunchesAreClaimed, LaunchedOnce, BeforeLaunch, BeforePrompt, Saving,
         RunStates, Conclusive
<1>4. OutcomesAreProven'
  BY DEF To, OutcomesAreProven, SuccessIsProven, PromptComesFirst, LaunchesAreClaimed,
         BeforePrompt, RunStates
<1>5. IdsAreKnown'
  BY DEF To, IdsAreKnown, PromptComesFirst, Settled, RunStates, Ids
<1>6. SeenAtWork'
  BY DEF To, SeenAtWork, Worked, LaunchesAreClaimed, BeforeLaunch, PromptComesFirst, IdsAreKnown,
         Settled, Receipts, RunStates
<1>7. PromptComesFirst' /\ RecoveryFollowsRest'
  BY DEF PromptComesFirst, RecoveryFollowsRest, AtRest
<1> QED  BY <1>1, <1>2, <1>3, <1>4, <1>5, <1>6, <1>7

\* herdr answers or not.
LEMMA ProbeKeeps ==
    ASSUME NEW r \in Runners, RunIInv, Probe(r)
    PROVE  RunIInv'
<1> USE AgentRunsAssumption DEF RunIInv, TypeOK, Live, environment, Probe
<1>1. TypeOK'
  <2>1. run[r].id \in Ids
    BY DEF RunStates
  <2>2. run' \in [Runners -> RunStates]
    BY <2>1, ToIsTyped DEF RunSteps, Ids, NoId
  <2> QED  BY <2>2 DEF Receipts, Ids, NoId, RunStates, IdsAreKnown, OutcomesAreProven
<1>2. OneRunner'
  BY DEF To, OneRunner, RunStates, Conclusive
<1>3. LaunchesAreClaimed'
  BY DEF To, OneRunner, LaunchesAreClaimed, LaunchedOnce, BeforeLaunch, BeforePrompt, Saving,
         RunStates, Conclusive
<1>4. OutcomesAreProven'
  BY DEF To, OutcomesAreProven, SuccessIsProven, PromptComesFirst, LaunchesAreClaimed,
         BeforePrompt, RunStates
<1>5. IdsAreKnown'
  BY SMTT(60) DEF To, IdsAreKnown, PromptComesFirst, Settled, RunStates, Ids
<1>6. SeenAtWork'
  BY DEF To, SeenAtWork, Worked, LaunchesAreClaimed, BeforeLaunch, PromptComesFirst, IdsAreKnown,
         Settled, Receipts, RunStates
<1>7. PromptComesFirst' /\ RecoveryFollowsRest'
  BY DEF PromptComesFirst, RecoveryFollowsRest, AtRest
<1> QED  BY <1>1, <1>2, <1>3, <1>4, <1>5, <1>6, <1>7

\* A claim is released before anything is launched.
LEMMA ReleaseClaimKeeps ==
    ASSUME NEW r \in Runners, RunIInv, ReleaseClaim(r)
    PROVE  RunIInv'
<1> USE AgentRunsAssumption DEF RunIInv, TypeOK, Live, environment, ReleaseClaim, Absent
<1>1. TypeOK'
  <2>1. run[r].id \in Ids
    BY DEF RunStates
  <2>2. run' \in [Runners -> RunStates]
    BY <2>1, ToIsTyped DEF RunSteps, Ids, NoId
  <2> QED  BY <2>2 DEF Receipts, Ids, NoId, RunStates, IdsAreKnown, OutcomesAreProven
<1>2. OneRunner'
  BY DEF To, OneRunner, RunStates, Conclusive
<1>3. LaunchesAreClaimed'
  BY DEF To, OneRunner, LaunchesAreClaimed, LaunchedOnce, BeforeLaunch, BeforePrompt, Saving,
         RunStates, Conclusive
<1>4. OutcomesAreProven'
  BY DEF To, OutcomesAreProven, SuccessIsProven, PromptComesFirst, LaunchesAreClaimed,
         BeforePrompt, RunStates
<1>5. IdsAreKnown'
  BY DEF To, IdsAreKnown, PromptComesFirst, Settled, RunStates, Ids
<1>6. SeenAtWork'
  BY DEF To, SeenAtWork, Worked, LaunchesAreClaimed, BeforeLaunch, PromptComesFirst, IdsAreKnown,
         Settled, Receipts, RunStates
<1>7. PromptComesFirst' /\ RecoveryFollowsRest'
  BY DEF PromptComesFirst, RecoveryFollowsRest, AtRest
<1> QED  BY <1>1, <1>2, <1>3, <1>4, <1>5, <1>6, <1>7

\* The workspace.
LEMMA CreateWorkspaceKeeps ==
    ASSUME NEW r \in Runners, RunIInv, CreateWorkspace(r)
    PROVE  RunIInv'
<1> USE AgentRunsAssumption DEF RunIInv, TypeOK, Live, environment, CreateWorkspace, MayFail
<1>1. TypeOK'
  <2>1. run[r].id \in Ids
    BY DEF RunStates
  <2>2. run' \in [Runners -> RunStates]
    BY <2>1, SaveNextIsTyped, FailIsTyped DEF RunSteps, Ids, NoId
  <2> QED  BY <2>2 DEF Receipts, Ids, NoId, RunStates, IdsAreKnown, OutcomesAreProven
<1>2. OneRunner'
  BY DEF SaveNext, Fail, OneRunner, RunStates, Conclusive
<1>3. LaunchesAreClaimed'
  BY DEF SaveNext, Fail, OneRunner, LaunchesAreClaimed, LaunchedOnce, BeforeLaunch, BeforePrompt,
         Saving, RunStates, Conclusive
<1>4. OutcomesAreProven'
  BY DEF SaveNext, Fail, OutcomesAreProven, SuccessIsProven, PromptComesFirst, LaunchesAreClaimed,
         BeforePrompt, RunStates
<1>5. IdsAreKnown'
  BY Identities DEF SaveNext, Fail, IdsAreKnown, PromptComesFirst, Settled, RunStates, Ids
<1>6. SeenAtWork'
  BY DEF SaveNext, Fail, SeenAtWork, Worked, LaunchesAreClaimed, BeforeLaunch, PromptComesFirst,
         IdsAreKnown, Settled, Receipts, RunStates
<1>7. RecoveryFollowsRest'
  BY DEF SaveNext, Fail, RecoveryFollowsRest, AtRest, Settled, SeenAtWork, Worked, IdsAreKnown,
         LaunchesAreClaimed, BeforeLaunch, RecoveryStates
<1>8. PromptComesFirst'
  BY DEF PromptComesFirst
<1> QED  BY <1>1, <1>2, <1>3, <1>4, <1>5, <1>6, <1>7, <1>8

\* The only launch.
LEMMA LaunchKeeps ==
    ASSUME NEW r \in Runners, RunIInv, Launch(r)
    PROVE  RunIInv'
<1> USE AgentRunsAssumption DEF RunIInv, TypeOK, Live, environment, Launch, MayFail
<1>1. TypeOK'
  <2>1. run[r].id \in Ids
    BY DEF RunStates
  <2>2. run' \in [Runners -> RunStates]
    BY <2>1, SaveNextIsTyped, FailIsTyped DEF RunSteps, Ids, NoId
  <2> QED  BY <2>2 DEF Receipts, Ids, NoId, RunStates, IdsAreKnown, OutcomesAreProven
<1>2. OneRunner'
  BY DEF SaveNext, Fail, OneRunner, RunStates, Conclusive
<1>3. LaunchesAreClaimed'
  BY DEF SaveNext, Fail, OneRunner, LaunchesAreClaimed, LaunchedOnce, BeforeLaunch, BeforePrompt,
         Saving, RunStates, Conclusive
<1>4. PromptComesFirst'
  BY DEF SaveNext, Fail, PromptComesFirst, LaunchesAreClaimed, BeforeLaunch, BeforePrompt, Saving,
         Ids
<1>5. OutcomesAreProven'
  BY DEF SaveNext, Fail, OutcomesAreProven, SuccessIsProven, PromptComesFirst, LaunchesAreClaimed,
         BeforePrompt, RunStates
<1>6. IdsAreKnown'
  <2>1. CASE SaveNext(r, 1, NoId)
    BY <2>1 DEF SaveNext, IdsAreKnown, RunStates
  <2>2. CASE Fail(r)
    BY <2>2 DEF Fail, IdsAreKnown, RunStates
  <2> QED  BY <2>1, <2>2
<1>7. SeenAtWork'
  BY DEF SaveNext, Fail, SeenAtWork, Worked, LaunchesAreClaimed, BeforeLaunch, PromptComesFirst,
         IdsAreKnown, Settled, Receipts, RunStates
<1>8. RecoveryFollowsRest'
  BY DEF SaveNext, Fail, RecoveryFollowsRest, AtRest, Settled, SeenAtWork, Worked, IdsAreKnown,
         LaunchesAreClaimed, BeforeLaunch, RecoveryStates
<1> QED  BY <1>1, <1>2, <1>3, <1>4, <1>5, <1>6, <1>7, <1>8

\* The agent is named.
LEMMA AgentReadyKeeps ==
    ASSUME NEW r \in Runners, RunIInv, AgentReady(r)
    PROVE  RunIInv'
<1> USE AgentRunsAssumption DEF RunIInv, TypeOK, Live, environment, AgentReady, MayFail,
                                Known, CaptureId
<1>1. TypeOK'
  <2>1. run[r].id \in Ids
    BY DEF RunStates
  <2>2. run' \in [Runners -> RunStates]
    BY <2>1, SaveNextIsTyped, FailIsTyped DEF RunSteps, Ids, NoId
  <2> QED  BY <2>2 DEF Receipts, Ids, NoId, RunStates, IdsAreKnown, OutcomesAreProven
<1>2. OneRunner'
  BY DEF SaveNext, Fail, OneRunner, RunStates, Conclusive
<1>3. LaunchesAreClaimed'
  BY DEF SaveNext, Fail, OneRunner, LaunchesAreClaimed, LaunchedOnce, BeforeLaunch, BeforePrompt,
         Saving, RunStates, Conclusive
<1>4. OutcomesAreProven'
  BY DEF SaveNext, Fail, OutcomesAreProven, SuccessIsProven, PromptComesFirst, LaunchesAreClaimed,
         BeforePrompt, RunStates
<1>5. IdsAreKnown'
  BY Identities, SMTT(60) DEF SaveNext, Fail, IdsAreKnown, PromptComesFirst, Settled, RunStates, Ids
<1>6. SeenAtWork'
  BY DEF SaveNext, Fail, SeenAtWork, Worked, LaunchesAreClaimed, BeforeLaunch, PromptComesFirst,
         IdsAreKnown, Settled, Receipts, RunStates
<1>7. PromptComesFirst' /\ RecoveryFollowsRest'
  BY DEF PromptComesFirst, RecoveryFollowsRest, AtRest
<1> QED  BY <1>1, <1>2, <1>3, <1>4, <1>5, <1>6, <1>7

\* The subscription.
LEMMA SubscribeKeeps ==
    ASSUME NEW r \in Runners, RunIInv, Subscribe(r)
    PROVE  RunIInv'
<1> USE AgentRunsAssumption DEF RunIInv, TypeOK, Live, environment, Subscribe, NotSubscribed,
                                MayFail
<1>1. TypeOK'
  <2>1. run[r].id \in Ids
    BY DEF RunStates
  <2>2. run' \in [Runners -> RunStates]
    BY <2>1, SaveNextIsTyped, FailIsTyped DEF RunSteps, Ids, NoId
  <2> QED  BY <2>2 DEF Receipts, Ids, NoId, RunStates, IdsAreKnown, OutcomesAreProven
<1>2. OneRunner'
  BY DEF SaveNext, Fail, OneRunner, RunStates, Conclusive
<1>3. LaunchesAreClaimed'
  BY DEF SaveNext, Fail, OneRunner, LaunchesAreClaimed, LaunchedOnce, BeforeLaunch, BeforePrompt,
         Saving, RunStates, Conclusive
<1>4. OutcomesAreProven'
  BY DEF SaveNext, Fail, OutcomesAreProven, SuccessIsProven, PromptComesFirst, LaunchesAreClaimed,
         BeforePrompt, RunStates
<1>5. IdsAreKnown'
  BY DEF SaveNext, Fail, IdsAreKnown, PromptComesFirst, Settled, RunStates, Ids
<1>6. SeenAtWork'
  BY DEF SaveNext, Fail, SeenAtWork, Worked, LaunchesAreClaimed, BeforeLaunch, PromptComesFirst,
         IdsAreKnown, Settled, Receipts, RunStates
<1>7. PromptComesFirst' /\ RecoveryFollowsRest'
  BY DEF PromptComesFirst, RecoveryFollowsRest, AtRest
<1> QED  BY <1>1, <1>2, <1>3, <1>4, <1>5, <1>6, <1>7

\* The prompt.
LEMMA SubmitKeeps ==
    ASSUME NEW r \in Runners, RunIInv, Submit(r)
    PROVE  RunIInv'
<1> USE AgentRunsAssumption DEF RunIInv, TypeOK, Live, environment, Submit, MayFail
<1>1. TypeOK'
  <2>1. run[r].id \in Ids
    BY DEF RunStates
  <2>2. run' \in [Runners -> RunStates]
    BY <2>1, ToIsTyped, FailIsTyped DEF RunSteps, Ids, NoId
  <2>3. prompted' \in BOOLEAN
    OBVIOUS
  <2> QED  BY <2>3, <2>2 DEF Receipts, Ids, NoId, RunStates, IdsAreKnown, OutcomesAreProven
<1>2. OneRunner'
  BY DEF To, Fail, OneRunner, RunStates, Conclusive
<1>3. LaunchesAreClaimed'
  BY DEF To, Fail, OneRunner, LaunchesAreClaimed, LaunchedOnce, BeforeLaunch, BeforePrompt, Saving,
         RunStates, Conclusive
<1>4. PromptComesFirst'
  BY DEF To, Fail, PromptComesFirst, LaunchesAreClaimed, BeforeLaunch, BeforePrompt, Saving, Ids
<1>5. OutcomesAreProven'
  BY DEF To, Fail, OutcomesAreProven, SuccessIsProven, PromptComesFirst, LaunchesAreClaimed,
         BeforePrompt, RunStates
<1>6. IdsAreKnown'
  BY SMTT(60) DEF To, Fail, IdsAreKnown, PromptComesFirst, Settled, RunStates, Ids
<1>7. SeenAtWork'
  BY DEF To, Fail, SeenAtWork, Worked, LaunchesAreClaimed, BeforeLaunch, PromptComesFirst,
         IdsAreKnown, Settled, Receipts, RunStates
<1>8. RecoveryFollowsRest'
  BY DEF RecoveryFollowsRest, AtRest
<1> QED  BY <1>1, <1>2, <1>3, <1>4, <1>5, <1>6, <1>7, <1>8

\* The agent is seen at work.
LEMMA AgentWorksKeeps ==
    ASSUME NEW r \in Runners, RunIInv, AgentWorks(r)
    PROVE  RunIInv'
<1> USE AgentRunsAssumption DEF RunIInv, TypeOK, Live, environment, AgentWorks, SamePane
<1>1. TypeOK'
  <2>1. run[r].id \in Ids
    BY DEF RunStates
  <2>2. run' \in [Runners -> RunStates]
    BY <2>1, SaveNextIsTyped DEF RunSteps, Ids, NoId
  <2> QED  BY <2>2 DEF Receipts, Ids, NoId, RunStates, IdsAreKnown, OutcomesAreProven
<1>2. OneRunner'
  BY DEF SaveNext, OneRunner, RunStates, Conclusive
<1>3. LaunchesAreClaimed'
  BY DEF SaveNext, OneRunner, LaunchesAreClaimed, LaunchedOnce, BeforeLaunch, BeforePrompt, Saving,
         RunStates, Conclusive
<1>4. OutcomesAreProven'
  BY DEF SaveNext, OutcomesAreProven, SuccessIsProven, PromptComesFirst, LaunchesAreClaimed,
         BeforePrompt, RunStates
<1>5. IdsAreKnown'
  BY DEF SaveNext, IdsAreKnown, PromptComesFirst, Settled, RunStates, Ids
<1>6. SeenAtWork'
  BY DEF SaveNext, SeenAtWork, Worked, LaunchesAreClaimed, BeforeLaunch, PromptComesFirst,
         IdsAreKnown, Settled, Receipts, RunStates
<1>7. PromptComesFirst' /\ RecoveryFollowsRest'
  BY DEF PromptComesFirst, RecoveryFollowsRest, AtRest
<1> QED  BY <1>1, <1>2, <1>3, <1>4, <1>5, <1>6, <1>7

\* Its turn is over.
LEMMA AgentDoneKeeps ==
    ASSUME NEW r \in Runners, RunIInv, AgentDone(r)
    PROVE  RunIInv'
<1> USE AgentRunsAssumption DEF RunIInv, TypeOK, Live, environment, AgentDone, SamePane, Completed
<1>1. TypeOK'
  <2>1. run[r].id \in Ids
    BY DEF RunStates
  <2>2. run' \in [Runners -> RunStates]
    BY <2>1, SaveNextIsTyped DEF RunSteps, Ids, NoId
  <2> QED  BY <2>2 DEF Receipts, Ids, NoId, RunStates, IdsAreKnown, OutcomesAreProven
<1>2. OneRunner'
  BY DEF SaveNext, OneRunner, RunStates, Conclusive
<1>3. LaunchesAreClaimed'
  BY DEF SaveNext, OneRunner, LaunchesAreClaimed, LaunchedOnce, BeforeLaunch, BeforePrompt, Saving,
         RunStates, Conclusive
<1>4. OutcomesAreProven'
  BY DEF SaveNext, OutcomesAreProven, SuccessIsProven, PromptComesFirst, LaunchesAreClaimed,
         BeforePrompt, RunStates
<1>5. IdsAreKnown'
  BY DEF SaveNext, IdsAreKnown, PromptComesFirst, Settled, RunStates, Ids
<1>6. SeenAtWork'
  BY DEF SaveNext, SeenAtWork, Worked, LaunchesAreClaimed, BeforeLaunch, PromptComesFirst,
         IdsAreKnown, Settled, Receipts, RunStates
<1>7. PromptComesFirst' /\ RecoveryFollowsRest'
  BY DEF PromptComesFirst, RecoveryFollowsRest, AtRest
<1> QED  BY <1>1, <1>2, <1>3, <1>4, <1>5, <1>6, <1>7

\* The wait fails.
LEMMA WaitFailsKeeps ==
    ASSUME NEW r \in Runners, RunIInv, WaitFails(r)
    PROVE  RunIInv'
<1> USE AgentRunsAssumption DEF RunIInv, TypeOK, Live, environment, WaitFails, MayFail
<1>1. TypeOK'
  <2>1. run[r].id \in Ids
    BY DEF RunStates
  <2>2. run' \in [Runners -> RunStates]
    BY <2>1, FailIsTyped DEF RunSteps, Ids, NoId
  <2> QED  BY <2>2 DEF Receipts, Ids, NoId, RunStates, IdsAreKnown, OutcomesAreProven
<1>2. OneRunner'
  BY DEF Fail, OneRunner, RunStates, Conclusive
<1>3. LaunchesAreClaimed'
  BY DEF Fail, OneRunner, LaunchesAreClaimed, LaunchedOnce, BeforeLaunch, BeforePrompt, Saving,
         RunStates, Conclusive
<1>4. OutcomesAreProven'
  BY DEF Fail, OutcomesAreProven, SuccessIsProven, PromptComesFirst, LaunchesAreClaimed,
         BeforePrompt, RunStates
<1>5. IdsAreKnown'
  <2>1. \A q \in Runners : run'[q].rank = run[q].rank /\ run'[q].id = run[q].id
    BY DEF Fail, RunStates
  <2> QED  BY <2>1 DEF IdsAreKnown
<1>6. SeenAtWork'
  BY DEF Fail, SeenAtWork, Worked, LaunchesAreClaimed, BeforeLaunch, PromptComesFirst, IdsAreKnown,
         Settled, Receipts, RunStates
<1>7. PromptComesFirst' /\ RecoveryFollowsRest'
  BY DEF PromptComesFirst, RecoveryFollowsRest, AtRest
<1> QED  BY <1>1, <1>2, <1>3, <1>4, <1>5, <1>6, <1>7

\* The receipt is read before a checkpoint.
LEMMA SaveReadKeeps ==
    ASSUME NEW r \in Runners, RunIInv, SaveRead(r)
    PROVE  RunIInv'
<1> USE AgentRunsAssumption DEF RunIInv, TypeOK, Live, environment, SaveRead, Refuses, Superseded,
                                After
<1>1. TypeOK'
  <2>1. run[r].id \in Ids
    BY DEF RunStates
  <2>2. run' \in [Runners -> RunStates]
    BY <2>1, ToIsTyped, FailIsTyped DEF RunSteps, Ids, NoId
  <2> QED  BY <2>2 DEF Receipts, Ids, NoId, RunStates, IdsAreKnown, OutcomesAreProven
<1>2. OneRunner'
  BY DEF To, Fail, OneRunner, RunStates, Conclusive
<1>3. LaunchesAreClaimed'
  BY DEF To, Fail, OneRunner, LaunchesAreClaimed, LaunchedOnce, BeforeLaunch, BeforePrompt, Saving,
         RunStates, Conclusive
<1>4. OutcomesAreProven'
  BY DEF To, Fail, OutcomesAreProven, SuccessIsProven, PromptComesFirst, LaunchesAreClaimed,
         BeforePrompt, RunStates
<1>5. IdsAreKnown'
  BY SMTT(60) DEF To, Fail, IdsAreKnown, PromptComesFirst, Settled, RunStates, Ids
<1>6. SeenAtWork'
  BY DEF To, Fail, SeenAtWork, Worked, LaunchesAreClaimed, BeforeLaunch, PromptComesFirst,
         IdsAreKnown, Settled, Receipts, RunStates
<1>7. PromptComesFirst' /\ RecoveryFollowsRest'
  BY DEF PromptComesFirst, RecoveryFollowsRest, AtRest
<1> QED  BY <1>1, <1>2, <1>3, <1>4, <1>5, <1>6, <1>7

\* A checkpoint is written.
LEMMA SaveWriteKeeps ==
    ASSUME NEW r \in Runners, RunIInv, SaveWrite(r)
    PROVE  RunIInv'
<1> USE AgentRunsAssumption DEF RunIInv, TypeOK, Live, environment, SaveWrite, Pending, After,
                                MayFail
<1>1. TypeOK'
  <2>1. run[r].id \in Ids
    BY DEF RunStates
  <2>2. run' \in [Runners -> RunStates]
    BY <2>1, ToIsTyped, FailIsTyped DEF RunSteps, Ids, NoId
  <2> QED  BY <2>2 DEF Receipts, Ids, NoId, RunStates, IdsAreKnown, OutcomesAreProven
<1>2. OneRunner'
  BY DEF To, Fail, OneRunner, RunStates, Conclusive
<1>3. LaunchesAreClaimed'
  BY DEF To, Fail, OneRunner, LaunchesAreClaimed, LaunchedOnce, BeforeLaunch, BeforePrompt, Saving,
         RunStates, Conclusive
<1>4. OutcomesAreProven'
  BY DEF To, Fail, OutcomesAreProven, SuccessIsProven, PromptComesFirst, LaunchesAreClaimed,
         BeforePrompt, RunStates
<1>5. IdsAreKnown'
  BY DEF To, Fail, IdsAreKnown, PromptComesFirst, Settled, RunStates, Ids
<1>6. SeenAtWork'
  BY DEF To, Fail, SeenAtWork, Worked, LaunchesAreClaimed, BeforeLaunch, PromptComesFirst,
         IdsAreKnown, Settled, Receipts, RunStates
<1>7. PromptComesFirst' /\ RecoveryFollowsRest'
  BY DEF PromptComesFirst, RecoveryFollowsRest, AtRest
<1> QED  BY <1>1, <1>2, <1>3, <1>4, <1>5, <1>6, <1>7

\* The session is registered.
LEMMA RegisterKeeps ==
    ASSUME NEW r \in Runners, RunIInv, Register(r)
    PROVE  RunIInv'
<1> USE AgentRunsAssumption DEF RunIInv, TypeOK, Live, environment, Register, NotRegistered,
                                Registrable, Captured, CaptureId
<1>1. TypeOK'
  <2>1. run[r].id \in Ids
    BY DEF RunStates
  <2>2. run' \in [Runners -> RunStates]
    BY <2>1, ToIsTyped, SaveNextIsTyped, EndIsTyped DEF RunSteps, Ids, NoId, Conclusive
  <2> QED  BY <2>2 DEF Receipts, Ids, NoId, RunStates, IdsAreKnown, OutcomesAreProven
<1>2. OneRunner'
  BY DEF To, SaveNext, OneRunner, RunStates, Conclusive
<1>3. LaunchesAreClaimed'
  BY DEF To, SaveNext, OneRunner, LaunchesAreClaimed, LaunchedOnce, BeforeLaunch, BeforePrompt,
         Saving, RunStates, Conclusive
<1>4. OutcomesAreProven'
  BY DEF To, SaveNext, OutcomesAreProven, SuccessIsProven, PromptComesFirst, LaunchesAreClaimed,
         BeforePrompt, RunStates
<1>5. IdsAreKnown'
  BY Identities DEF To, SaveNext, IdsAreKnown, PromptComesFirst, Settled, RunStates, Ids
<1>6. SeenAtWork'
  BY DEF To, SaveNext, SeenAtWork, Worked, LaunchesAreClaimed, BeforeLaunch, PromptComesFirst,
         IdsAreKnown, Settled, Receipts, RunStates
<1>7. PromptComesFirst' /\ RecoveryFollowsRest'
  BY DEF PromptComesFirst, RecoveryFollowsRest, AtRest
<1> QED  BY <1>1, <1>2, <1>3, <1>4, <1>5, <1>6, <1>7

\* The vault decides.
LEMMA EnvelopeKeeps ==
    ASSUME NEW r \in Runners, RunIInv, Envelope(r)
    PROVE  RunIInv'
<1> USE AgentRunsAssumption DEF RunIInv, TypeOK, Live, environment, Envelope
<1>1. TypeOK'
  <2>1. run[r].id \in Ids
    BY DEF RunStates
  <2>2. run' \in [Runners -> RunStates]
    BY <2>1, EndIsTyped DEF RunSteps, Ids, NoId, Conclusive
  <2> QED  BY <2>2 DEF Receipts, Ids, NoId, RunStates, IdsAreKnown, OutcomesAreProven
<1>2. OneRunner'
  BY DEF OneRunner, RunStates, Conclusive
<1>3. LaunchesAreClaimed'
  BY DEF OneRunner, LaunchesAreClaimed, LaunchedOnce, BeforeLaunch, BeforePrompt, Saving,
         RunStates, Conclusive
<1>4. OutcomesAreProven'
  BY DEF OutcomesAreProven, SuccessIsProven, PromptComesFirst, LaunchesAreClaimed, BeforePrompt,
         RunStates
<1>5. IdsAreKnown'
  BY DEF IdsAreKnown, PromptComesFirst, Settled, RunStates, Ids
<1>6. SeenAtWork'
  BY DEF SeenAtWork, Worked, LaunchesAreClaimed, BeforeLaunch, PromptComesFirst, IdsAreKnown,
         Settled, Receipts, RunStates
<1>7. PromptComesFirst' /\ RecoveryFollowsRest'
  BY DEF PromptComesFirst, RecoveryFollowsRest, AtRest
<1> QED  BY <1>1, <1>2, <1>3, <1>4, <1>5, <1>6, <1>7

\* The workspace is closed or not.
LEMMA CleanUpKeeps ==
    ASSUME NEW r \in Runners, RunIInv, CleanUp(r)
    PROVE  RunIInv'
<1> USE AgentRunsAssumption DEF RunIInv, TypeOK, Live, environment, CleanUp, CloseWorkspace
<1>1. TypeOK'
  <2>1. run[r].id \in Ids
    BY DEF RunStates
  <2>2. run' \in [Runners -> RunStates]
    BY <2>1, ToIsTyped DEF RunSteps, Ids, NoId
  <2> QED  BY <2>2 DEF Receipts, Ids, NoId, RunStates, IdsAreKnown, OutcomesAreProven
<1>2. OneRunner'
  BY DEF To, OneRunner, RunStates, Conclusive
<1>3. LaunchesAreClaimed'
  BY DEF To, OneRunner, LaunchesAreClaimed, LaunchedOnce, BeforeLaunch, BeforePrompt, Saving,
         RunStates, Conclusive
<1>4. OutcomesAreProven'
  BY DEF To, OutcomesAreProven, SuccessIsProven, PromptComesFirst, LaunchesAreClaimed,
         BeforePrompt, RunStates
<1>5. IdsAreKnown'
  BY DEF To, IdsAreKnown, PromptComesFirst, Settled, RunStates, Ids
<1>6. SeenAtWork'
  BY DEF To, SeenAtWork, Worked, LaunchesAreClaimed, BeforeLaunch, PromptComesFirst, IdsAreKnown,
         Settled, Receipts, RunStates
<1>7. RecoveryFollowsRest'
  BY DEF To, RecoveryFollowsRest, AtRest, Settled, SeenAtWork, Worked, IdsAreKnown,
         LaunchesAreClaimed, BeforeLaunch, RecoveryStates
<1>8. PromptComesFirst'
  BY DEF PromptComesFirst
<1> QED  BY <1>1, <1>2, <1>3, <1>4, <1>5, <1>6, <1>7, <1>8

\* The outcome becomes the receipt's.
LEMMA ConcludeKeeps ==
    ASSUME NEW r \in Runners, RunIInv, Conclude(r)
    PROVE  RunIInv'
<1> USE AgentRunsAssumption DEF RunIInv, TypeOK, Live, environment, Conclude, Concluded
<1>1. TypeOK'
  <2>1. run[r].id \in Ids
    BY DEF RunStates
  <2>2. run' \in [Runners -> RunStates]
    BY <2>1, ToIsTyped DEF RunSteps, Ids, NoId
  <2> QED  BY <2>2 DEF Receipts, Ids, NoId, RunStates, IdsAreKnown, OutcomesAreProven
<1>2. OneRunner'
  BY DEF To, OneRunner, RunStates, Conclusive
<1>3. LaunchesAreClaimed'
  BY DEF To, OneRunner, LaunchesAreClaimed, LaunchedOnce, BeforeLaunch, BeforePrompt, Saving,
         RunStates, Conclusive
<1>4. OutcomesAreProven'
  BY DEF To, OutcomesAreProven, SuccessIsProven, PromptComesFirst, LaunchesAreClaimed,
         BeforePrompt, RunStates
<1>5. IdsAreKnown'
  BY DEF To, IdsAreKnown, PromptComesFirst, Settled, RunStates, Ids
<1>6. SeenAtWork'
  BY DEF To, SeenAtWork, Worked, LaunchesAreClaimed, BeforeLaunch, PromptComesFirst, IdsAreKnown,
         Settled, Receipts, RunStates
<1>7. PromptComesFirst' /\ RecoveryFollowsRest'
  BY DEF PromptComesFirst, RecoveryFollowsRest, AtRest
<1> QED  BY <1>1, <1>2, <1>3, <1>4, <1>5, <1>6, <1>7

\* A runner dies.
LEMMA RunnerDiesKeeps ==
    ASSUME NEW r \in Runners, RunIInv, RunnerDies(r)
    PROVE  RunIInv'
<1> USE AgentRunsAssumption DEF RunIInv, TypeOK, Live, environment, RunnerDies
<1>1. TypeOK'
  <2>1. run[r].id \in Ids
    BY DEF RunStates
  <2>2. run' \in [Runners -> RunStates]
    BY <2>1, ToIsTyped DEF RunSteps, Ids, NoId
  <2> QED  BY <2>2 DEF Receipts, Ids, NoId, RunStates, IdsAreKnown, OutcomesAreProven
<1>2. OneRunner'
  BY DEF To, OneRunner, RunStates, Conclusive
<1>3. LaunchesAreClaimed'
  BY DEF To, OneRunner, LaunchesAreClaimed, LaunchedOnce, BeforeLaunch, BeforePrompt, Saving,
         RunStates, Conclusive
<1>4. OutcomesAreProven'
  BY DEF To, OutcomesAreProven, SuccessIsProven, PromptComesFirst, LaunchesAreClaimed,
         BeforePrompt, RunStates
<1>5. IdsAreKnown'
  BY DEF To, IdsAreKnown, PromptComesFirst, Settled, RunStates, Ids
<1>6. SeenAtWork'
  BY DEF To, SeenAtWork, Worked, LaunchesAreClaimed, BeforeLaunch, PromptComesFirst, IdsAreKnown,
         Settled, Receipts, RunStates
<1>7. PromptComesFirst' /\ RecoveryFollowsRest'
  BY DEF PromptComesFirst, RecoveryFollowsRest, AtRest
<1> QED  BY <1>1, <1>2, <1>3, <1>4, <1>5, <1>6, <1>7

\* A recovery that gives up leaves everything to the next one.
LEMMA RetainKeeps ==
    ASSUME RunIInv, Retain,
           UNCHANGED <<setting, receipt, environment, worker, run, ledger, launches, deaths,
                       failures>>
    PROVE  RunIInv'
<1> USE AgentRunsAssumption DEF RunIInv, TypeOK, Live, environment
<1>1. TypeOK'
  BY RetainIsTyped
<1>2. OneRunner' /\ LaunchesAreClaimed' /\ PromptComesFirst'
  BY DEF OneRunner, LaunchesAreClaimed, LaunchedOnce, BeforeLaunch, BeforePrompt, Saving,
         PromptComesFirst
<1>3. /\ recovery'.pc = "idle" /\ recovery'.outcome = "none"
      /\ recovery'.rank = -1 /\ recovery'.saw.rank = -1
  BY DEF Retain, NotRecovering, Absent
<1>4. OutcomesAreProven' /\ IdsAreKnown' /\ SeenAtWork'
      /\ RecoveryFollowsRest'
  BY <1>3 DEF OutcomesAreProven, SuccessIsProven, IdsAreKnown, SeenAtWork, Worked,
              RecoveryFollowsRest, AtRest
<1> QED  BY <1>1, <1>2, <1>4

\* The receipt of a dead worker is read.
LEMMA ReconcileKeeps ==
    ASSUME RunIInv, Reconcile
    PROVE  RunIInv'
<1> USE AgentRunsAssumption DEF RunIInv, TypeOK, Live, environment, Reconcile, NotRecovering, Absent
<1>1. TypeOK'
  <2>1. NotRecovering \in RecoveryStates
    BY DEF RecoveryStates, RecoverySteps, NoId, Ids, Receipts
  <2>2. recovery' \in RecoveryStates
    BY <2>1 DEF RecoveryStates, RecoverySteps
  <2> QED  BY <2>2 DEF Conclusive
<1>2. OutcomesAreProven'
  BY DEF OutcomesAreProven, SuccessIsProven, PromptComesFirst, LaunchesAreClaimed, BeforePrompt,
         RecoveryStates
<1>3. IdsAreKnown'
  BY DEF IdsAreKnown, PromptComesFirst, Settled, RecoveryStates, Ids
<1>4. SeenAtWork'
  <2>1. recovery'.pc \in {"idle", "recheck"} /\ recovery'.rank \in {-1, recovery.rank}
    OBVIOUS
  <2>2. recovery'.saw.rank \in {receipt.rank, recovery.saw.rank}
    OBVIOUS
  <2> QED  BY <2>1, <2>2 DEF SeenAtWork, Worked, Receipts
<1>5. RecoveryFollowsRest'
  BY DEF RecoveryFollowsRest, AtRest, Settled, SeenAtWork, Worked, IdsAreKnown, LaunchesAreClaimed,
         BeforeLaunch, RecoveryStates
<1>6. OneRunner' /\ LaunchesAreClaimed' /\ PromptComesFirst'
  BY DEF OneRunner, LaunchesAreClaimed, LaunchedOnce, BeforeLaunch, BeforePrompt, Saving,
         PromptComesFirst
<1> QED  BY <1>1, <1>2, <1>3, <1>4, <1>5, <1>6

\* It is read again.
LEMMA RecheckKeeps ==
    ASSUME RunIInv, Recheck
    PROVE  RunIInv'
<1> USE AgentRunsAssumption DEF RunIInv, TypeOK, Live, environment, Recheck
<1> SUFFICES ASSUME ~Retain
             PROVE  RunIInv'
  BY RetainKeeps
<1>1. TypeOK'
  <2>1. recovery' \in RecoveryStates
    BY RecoverToIsTyped DEF RecoverySteps
  <2>2. receipt' \in Receipts /\ (receipt'.rank >= 2 => receipt'.id # NoId)
    BY DEF RecoveryStates, Receipts, Ids, NoId, IdsAreKnown, OutcomesAreProven
  <2> QED  BY <2>1, <2>2 DEF Receipts, Conclusive
<1>2. OutcomesAreProven'
  BY DEF RecoverTo, OutcomesAreProven, SuccessIsProven, PromptComesFirst, LaunchesAreClaimed,
         BeforePrompt, RecoveryStates
<1>3. IdsAreKnown'
  BY DEF RecoverTo, IdsAreKnown, PromptComesFirst, Settled, RecoveryStates, Ids
<1>4. SeenAtWork'
  BY DEF RecoverTo, SeenAtWork, Worked, LaunchesAreClaimed, BeforeLaunch, PromptComesFirst,
         IdsAreKnown, Settled, Receipts, RecoveryStates
<1>5. RecoveryFollowsRest'
  BY DEF RecoverTo, RecoveryFollowsRest, AtRest, Settled, SeenAtWork, Worked, IdsAreKnown,
         LaunchesAreClaimed, BeforeLaunch, RecoveryStates
<1>6. OneRunner' /\ LaunchesAreClaimed' /\ PromptComesFirst'
  BY DEF OneRunner, LaunchesAreClaimed, LaunchedOnce, BeforeLaunch, BeforePrompt, Saving,
         PromptComesFirst
<1> QED  BY <1>1, <1>2, <1>3, <1>4, <1>5, <1>6

\* herdr is asked.
LEMMA ObserveKeeps ==
    ASSUME RunIInv, Observe
    PROVE  RunIInv'
<1> USE AgentRunsAssumption DEF RunIInv, TypeOK, Live, environment, Observe, ExactPane,
                                HasSubmittedWork
<1> SUFFICES ASSUME ~Retain
             PROVE  RunIInv'
  BY RetainKeeps
<1>1. TypeOK'
  <2>1. recovery' \in RecoveryStates
    BY RecoverToIsTyped, RecoverSaveIsTyped DEF RecoverySteps
  <2>2. receipt' \in Receipts /\ (receipt'.rank >= 2 => receipt'.id # NoId)
    BY DEF RecoveryStates, Receipts, Ids, NoId, IdsAreKnown, OutcomesAreProven
  <2> QED  BY <2>1, <2>2 DEF Receipts, Conclusive
<1>2. OutcomesAreProven'
  BY DEF RecoverTo, RecoverSave, OutcomesAreProven, SuccessIsProven, PromptComesFirst,
         LaunchesAreClaimed, BeforePrompt, RecoveryStates
<1>3. IdsAreKnown'
  BY DEF RecoverTo, RecoverSave, IdsAreKnown, PromptComesFirst, Settled, RecoveryStates, Ids
<1>4. SeenAtWork'
  BY DEF RecoverTo, RecoverSave, SeenAtWork, Worked, LaunchesAreClaimed, BeforeLaunch,
         PromptComesFirst, IdsAreKnown, Settled, Receipts, RecoveryStates
<1>5. RecoveryFollowsRest'
  <2>1. CASE RecoverSave(4)
    BY <2>1 DEF RecoverSave, RecoveryFollowsRest, RecoveryStates
  <2>2. CASE AtRest
    BY <2>2 DEF RecoveryFollowsRest, AtRest
  <2> QED  BY <2>1, <2>2 DEF AtRest, Settled
<1>6. OneRunner' /\ LaunchesAreClaimed' /\ PromptComesFirst'
  BY DEF OneRunner, LaunchesAreClaimed, LaunchedOnce, BeforeLaunch, BeforePrompt, Saving,
         PromptComesFirst
<1> QED  BY <1>1, <1>2, <1>3, <1>4, <1>5, <1>6

\* The receipt is read before a recovered checkpoint.
LEMMA RecoverReadKeeps ==
    ASSUME RunIInv, RecoverRead
    PROVE  RunIInv'
<1> USE AgentRunsAssumption DEF RunIInv, TypeOK, Live, environment, RecoverRead, Refuses, Superseded
<1> SUFFICES ASSUME ~Retain
             PROVE  RunIInv'
  BY RetainKeeps
<1>1. TypeOK'
  <2>1. recovery' \in RecoveryStates
    BY RecoverToIsTyped DEF RecoverySteps
  <2>2. receipt' \in Receipts /\ (receipt'.rank >= 2 => receipt'.id # NoId)
    BY DEF RecoveryStates, Receipts, Ids, NoId, IdsAreKnown, OutcomesAreProven
  <2> QED  BY <2>1, <2>2 DEF Receipts, Conclusive
<1>2. OutcomesAreProven'
  BY DEF RecoverTo, OutcomesAreProven, SuccessIsProven, PromptComesFirst, LaunchesAreClaimed,
         BeforePrompt, RecoveryStates
<1>3. IdsAreKnown'
  BY DEF RecoverTo, IdsAreKnown, PromptComesFirst, Settled, RecoveryStates, Ids
<1>4. SeenAtWork'
  BY DEF RecoverTo, SeenAtWork, Worked, LaunchesAreClaimed, BeforeLaunch, PromptComesFirst,
         IdsAreKnown, Settled, Receipts, RecoveryStates
<1>5. RecoveryFollowsRest'
  BY DEF RecoverTo, RecoveryFollowsRest, AtRest, Settled, SeenAtWork, Worked, IdsAreKnown,
         LaunchesAreClaimed, BeforeLaunch, RecoveryStates
<1>6. OneRunner' /\ LaunchesAreClaimed' /\ PromptComesFirst'
  BY DEF OneRunner, LaunchesAreClaimed, LaunchedOnce, BeforeLaunch, BeforePrompt, Saving,
         PromptComesFirst
<1> QED  BY <1>1, <1>2, <1>3, <1>4, <1>5, <1>6

\* A recovered checkpoint is written.
LEMMA RecoverWriteKeeps ==
    ASSUME RunIInv, RecoverWrite
    PROVE  RunIInv'
<1> USE AgentRunsAssumption DEF RunIInv, TypeOK, Live, environment, RecoverWrite, Pending,
                                CannotRecover
<1>1. TypeOK'
  <2>1. recovery' \in RecoveryStates
    BY RecoverToIsTyped, RetainIsTyped DEF RecoverySteps
  <2>2. receipt' \in Receipts /\ (receipt'.rank >= 2 => receipt'.id # NoId)
    BY DEF RecoveryStates, Receipts, Ids, NoId, IdsAreKnown, OutcomesAreProven
  <2> QED  BY <2>1, <2>2 DEF Receipts, Conclusive
<1>2. OneRunner'
  BY DEF RecoverTo, Retain, NotRecovering, Absent, OneRunner, RecoveryStates, Conclusive
<1>3. LaunchesAreClaimed'
  BY DEF RecoverTo, Retain, NotRecovering, Absent, OneRunner, LaunchesAreClaimed, LaunchedOnce,
         BeforeLaunch, BeforePrompt, Saving, RecoveryStates, Conclusive
<1>4. OutcomesAreProven'
  BY DEF RecoverTo, Retain, NotRecovering, Absent, OutcomesAreProven, SuccessIsProven,
         PromptComesFirst, LaunchesAreClaimed, BeforePrompt, RecoveryStates
<1>5. IdsAreKnown'
  BY DEF RecoverTo, Retain, NotRecovering, Absent, IdsAreKnown, PromptComesFirst, Settled,
         RecoveryStates, Ids
<1>6. SeenAtWork'
  BY DEF RecoverTo, Retain, NotRecovering, Absent, SeenAtWork, Worked, LaunchesAreClaimed,
         BeforeLaunch, PromptComesFirst, IdsAreKnown, Settled, Receipts, RecoveryStates
<1>7. RecoveryFollowsRest'
  BY DEF RecoverTo, Retain, NotRecovering, Absent, RecoveryFollowsRest, AtRest, Settled, SeenAtWork,
         Worked, IdsAreKnown, LaunchesAreClaimed, BeforeLaunch, RecoveryStates
<1>8. PromptComesFirst'
  BY DEF PromptComesFirst
<1> QED  BY <1>1, <1>2, <1>3, <1>4, <1>5, <1>6, <1>7, <1>8

\* The agent is at rest, or gone.
LEMMA RecoverWaitKeeps ==
    ASSUME RunIInv, RecoverWait
    PROVE  RunIInv'
<1> USE AgentRunsAssumption DEF RunIInv, TypeOK, Live, environment, RecoverWait, ExactPane
<1> SUFFICES ASSUME ~Retain
             PROVE  RunIInv'
  BY RetainKeeps
<1>1. TypeOK'
  <2>1. recovery' \in RecoveryStates
    BY RecoverSaveIsTyped DEF RecoverySteps
  <2>2. receipt' \in Receipts /\ (receipt'.rank >= 2 => receipt'.id # NoId)
    BY DEF RecoveryStates, Receipts, Ids, NoId, IdsAreKnown, OutcomesAreProven
  <2> QED  BY <2>1, <2>2 DEF Receipts, Conclusive
<1>2. OutcomesAreProven'
  BY DEF RecoverSave, OutcomesAreProven, SuccessIsProven, PromptComesFirst, LaunchesAreClaimed,
         BeforePrompt, RecoveryStates
<1>3. IdsAreKnown'
  BY DEF RecoverSave, IdsAreKnown, PromptComesFirst, Settled, RecoveryStates, Ids
<1>4. SeenAtWork'
  BY DEF RecoverSave, SeenAtWork, Worked, LaunchesAreClaimed, BeforeLaunch, PromptComesFirst,
         IdsAreKnown, Settled, Receipts, RecoveryStates
<1>5. RecoveryFollowsRest'
  BY DEF RecoverSave, RecoveryFollowsRest, AtRest, Settled, SeenAtWork, Worked, IdsAreKnown,
         LaunchesAreClaimed, BeforeLaunch, RecoveryStates
<1>6. OneRunner' /\ LaunchesAreClaimed' /\ PromptComesFirst'
  BY DEF OneRunner, LaunchesAreClaimed, LaunchedOnce, BeforeLaunch, BeforePrompt, Saving,
         PromptComesFirst
<1> QED  BY <1>1, <1>2, <1>3, <1>4, <1>5, <1>6

\* The vault decides.
LEMMA RecoverEnvelopeKeeps ==
    ASSUME RunIInv, RecoverEnvelope
    PROVE  RunIInv'
<1> USE AgentRunsAssumption DEF RunIInv, TypeOK, Live, environment, RecoverEnvelope,
                                RecoveredOutcome, NamesCapture
<1> SUFFICES ASSUME ~Retain
             PROVE  RunIInv'
  BY RetainKeeps
<1>1. TypeOK'
  <2>1. recovery' \in RecoveryStates
    BY DEF RecoveryStates, RecoverySteps, Conclusive
  <2>2. receipt' \in Receipts /\ (receipt'.rank >= 2 => receipt'.id # NoId)
    BY DEF RecoveryStates, Receipts, Ids, NoId, IdsAreKnown, OutcomesAreProven
  <2> QED  BY <2>1, <2>2 DEF Receipts, Conclusive
<1>2. OutcomesAreProven'
  BY DEF OutcomesAreProven, SuccessIsProven, PromptComesFirst, LaunchesAreClaimed, BeforePrompt,
         RecoveryStates
<1>3. IdsAreKnown'
  BY DEF IdsAreKnown, PromptComesFirst, Settled, RecoveryStates, Ids
<1>4. SeenAtWork'
  BY DEF SeenAtWork, Worked, LaunchesAreClaimed, BeforeLaunch, PromptComesFirst, IdsAreKnown,
         Settled, Receipts, RecoveryStates
<1>5. RecoveryFollowsRest'
  BY DEF RecoveryFollowsRest, AtRest, Settled, SeenAtWork, Worked, IdsAreKnown, LaunchesAreClaimed,
         BeforeLaunch, RecoveryStates
<1>6. OneRunner' /\ LaunchesAreClaimed' /\ PromptComesFirst'
  BY DEF OneRunner, LaunchesAreClaimed, LaunchedOnce, BeforeLaunch, BeforePrompt, Saving,
         PromptComesFirst
<1> QED  BY <1>1, <1>2, <1>3, <1>4, <1>5, <1>6

\* The recovered outcome becomes the receipt's.
LEMMA RecoverConcludeKeeps ==
    ASSUME RunIInv, RecoverConclude
    PROVE  RunIInv'
<1> USE AgentRunsAssumption DEF RunIInv, TypeOK, Live, environment, RecoverConclude, Concluded,
                                CannotRecover
<1>1. TypeOK'
  <2>1. recovery' \in RecoveryStates
    BY RetainIsTyped DEF RecoverySteps
  <2>2. receipt' \in Receipts /\ (receipt'.rank >= 2 => receipt'.id # NoId)
    BY DEF RecoveryStates, Receipts, Ids, NoId, IdsAreKnown, OutcomesAreProven
  <2> QED  BY <2>1, <2>2 DEF Receipts, Conclusive
<1>2. OneRunner'
  BY DEF Retain, NotRecovering, Absent, OneRunner, RecoveryStates, Conclusive
<1>3. LaunchesAreClaimed'
  BY DEF Retain, NotRecovering, Absent, OneRunner, LaunchesAreClaimed, LaunchedOnce, BeforeLaunch,
         BeforePrompt, Saving, RecoveryStates, Conclusive
<1>4. OutcomesAreProven'
  BY DEF Retain, NotRecovering, Absent, OutcomesAreProven, SuccessIsProven, PromptComesFirst,
         LaunchesAreClaimed, BeforePrompt, RecoveryStates
<1>5. IdsAreKnown'
  BY DEF Retain, NotRecovering, Absent, IdsAreKnown, PromptComesFirst, Settled, RecoveryStates, Ids
<1>6. SeenAtWork'
  BY DEF Retain, NotRecovering, Absent, SeenAtWork, Worked, LaunchesAreClaimed, BeforeLaunch,
         PromptComesFirst, IdsAreKnown, Settled, Receipts, RecoveryStates
<1>7. RecoveryFollowsRest'
  BY DEF Retain, NotRecovering, Absent, RecoveryFollowsRest, AtRest, Settled, SeenAtWork, Worked,
         IdsAreKnown, LaunchesAreClaimed, BeforeLaunch, RecoveryStates
<1>8. PromptComesFirst'
  BY DEF PromptComesFirst
<1> QED  BY <1>1, <1>2, <1>3, <1>4, <1>5, <1>6, <1>7, <1>8

\* The worker dies.
LEMMA WorkerDiesKeeps ==
    ASSUME RunIInv, WorkerDies
    PROVE  RunIInv'
<1> USE AgentRunsAssumption DEF RunIInv, TypeOK, Live, environment, WorkerDies
<1>1. TypeOK'
  BY DEF Receipts, Ids, NoId, RunStates, RunSteps, Conclusive
<1>2. OneRunner' /\ LaunchesAreClaimed' /\ PromptComesFirst' /\ OutcomesAreProven' /\ IdsAreKnown'
      /\ SeenAtWork' /\ RecoveryFollowsRest'
  BY DEF OneRunner, LaunchesAreClaimed, LaunchedOnce, BeforeLaunch, BeforePrompt, Saving,
         PromptComesFirst, OutcomesAreProven, SuccessIsProven, IdsAreKnown, SeenAtWork, Worked,
         RecoveryFollowsRest, AtRest
<1> QED  BY <1>1, <1>2

\* The agent goes on.
LEMMA AgentStepsKeeps ==
    ASSUME RunIInv, AgentSteps
    PROVE  RunIInv'
<1> USE AgentRunsAssumption DEF RunIInv, TypeOK, Live, environment, AgentSteps
<1>1. TypeOK'
  BY DEF Receipts, Ids, NoId, RunStates, RunSteps, Conclusive
<1>2. PromptComesFirst'
  BY DEF PromptComesFirst, LaunchesAreClaimed, BeforeLaunch, BeforePrompt, Saving, Ids
<1>3. SeenAtWork'
  <2>1. Worked => Worked'
    BY DEF Worked, Ids
  <2> QED  BY <2>1 DEF SeenAtWork
<1>4. RecoveryFollowsRest'
  BY DEF RecoveryFollowsRest, AtRest, Settled, SeenAtWork, Worked, IdsAreKnown, LaunchesAreClaimed,
         BeforeLaunch, RecoveryStates
<1>5. OneRunner' /\ LaunchesAreClaimed' /\ OutcomesAreProven' /\ IdsAreKnown'
  BY DEF OneRunner, LaunchesAreClaimed, LaunchedOnce, BeforeLaunch, BeforePrompt, Saving,
         OutcomesAreProven, SuccessIsProven, IdsAreKnown
<1> QED  BY <1>1, <1>2, <1>3, <1>4, <1>5

\* The vault gets its turn.
LEMMA CaptureTurnKeeps ==
    ASSUME RunIInv, CaptureTurn
    PROVE  RunIInv'
<1> USE AgentRunsAssumption DEF RunIInv, TypeOK, Live, environment, CaptureTurn
<1>1. TypeOK'
  BY DEF Receipts, Ids, NoId, RunStates, RunSteps, Conclusive
<1>2. PromptComesFirst'
  BY DEF PromptComesFirst, LaunchesAreClaimed, BeforeLaunch, BeforePrompt, Saving, Ids
<1>3. OutcomesAreProven'
  BY DEF OutcomesAreProven, SuccessIsProven, PromptComesFirst, LaunchesAreClaimed, BeforePrompt,
         RunStates
<1>4. OneRunner' /\ LaunchesAreClaimed' /\ IdsAreKnown' /\ SeenAtWork'
      /\ RecoveryFollowsRest'
  BY DEF OneRunner, LaunchesAreClaimed, LaunchedOnce, BeforeLaunch, BeforePrompt, Saving,
         IdsAreKnown, SeenAtWork, Worked, RecoveryFollowsRest, AtRest
<1> QED  BY <1>1, <1>2, <1>3, <1>4

\* Somebody touches the pane.
LEMMA UpsetKeeps ==
    ASSUME RunIInv, Upset
    PROVE  RunIInv'
<1> USE AgentRunsAssumption DEF RunIInv, TypeOK, Live, environment, Upset
<1>1. TypeOK'
  BY DEF Receipts, Ids, NoId, RunStates, RunSteps, Conclusive
<1>2. PromptComesFirst'
  BY DEF PromptComesFirst, LaunchesAreClaimed, BeforeLaunch, BeforePrompt, Saving, Ids
<1>3. SeenAtWork'
  BY DEF SeenAtWork, Worked, LaunchesAreClaimed, BeforeLaunch, PromptComesFirst, IdsAreKnown,
         Settled, Receipts, RunStates
<1>4. RecoveryFollowsRest'
  BY DEF RecoveryFollowsRest, AtRest, Settled, SeenAtWork, Worked, IdsAreKnown, LaunchesAreClaimed,
         BeforeLaunch, RecoveryStates
<1>5. OneRunner' /\ LaunchesAreClaimed' /\ OutcomesAreProven' /\ IdsAreKnown'
  BY DEF OneRunner, LaunchesAreClaimed, LaunchedOnce, BeforeLaunch, BeforePrompt, Saving,
         OutcomesAreProven, SuccessIsProven, IdsAreKnown
<1> QED  BY <1>1, <1>2, <1>3, <1>4, <1>5

LEMMA RunInit == Init => RunIInv
<1> SUFFICES ASSUME Init
             PROVE  RunIInv
  OBVIOUS
<1> USE AgentRunsAssumption DEF Init
<1>1. TypeOK
  <2>1. receipt \in Receipts /\ NotRunning \in RunStates /\ NotRecovering \in RecoveryStates
    BY DEF NotRunning, NotRecovering, Absent, NoId, RunStates, RunSteps, RecoveryStates,
           RecoverySteps,
           Receipts, Ids
  <2>2. receipt.rank = -1
    BY DEF Absent
  <2>3. run \in [Runners -> RunStates] /\ pane.id \in Ids
    BY <2>1 DEF NoId, Ids
  <2>4. pane \in [agent : {"none", "starting", "idle", "working", "done"}, id : Ids]
    BY <2>3
  <2>5. receipt.rank >= 2 => receipt.id # NoId
    BY <2>2
  <2>6. {launches, deaths, failures, upsets} \subseteq Nat
    BY <2>2
  <2> QED  BY <2>1, <2>3, <2>4, <2>5, <2>6 DEF TypeOK
<1> USE DEF NotRunning, NotRecovering, Absent, NoId
<1>2. OneRunner /\ LaunchesAreClaimed
  BY DEF OneRunner, LaunchesAreClaimed, LaunchedOnce, Live, BeforeLaunch, BeforePrompt, Saving
<1>3. PromptComesFirst /\ OutcomesAreProven /\ IdsAreKnown
  BY DEF PromptComesFirst, OutcomesAreProven, SuccessIsProven, IdsAreKnown
<1>4. SeenAtWork /\ RecoveryFollowsRest
  BY DEF SeenAtWork, RecoveryFollowsRest, Live
<1> QED  BY <1>1, <1>2, <1>3, <1>4 DEF RunIInv

LEMMA RunnerStep ==
    ASSUME NEW r \in Runners, RunIInv, Runs(r) \/ RunnerDies(r)
    PROVE  RunIInv'
BY ClaimKeeps, ClaimWrittenKeeps, ProbeKeeps, ReleaseClaimKeeps, CreateWorkspaceKeeps, LaunchKeeps,
   AgentReadyKeeps, SubscribeKeeps, SubmitKeeps, AgentWorksKeeps, AgentDoneKeeps, WaitFailsKeeps,
   SaveReadKeeps, SaveWriteKeeps, RegisterKeeps, EnvelopeKeeps, CleanUpKeeps, ConcludeKeeps,
   RunnerDiesKeeps DEF Runs

LEMMA RunStep == RunIInv /\ [Next]_vars => RunIInv'
<1> SUFFICES ASSUME RunIInv, [Next]_vars
             PROVE  RunIInv'
  OBVIOUS
<1>1. ASSUME NEW r \in Runners, Runs(r) \/ RunnerDies(r)
      PROVE  RunIInv'
  BY <1>1, RunnerStep
<1>2. CASE Recovers
  BY <1>2, ReconcileKeeps, RecheckKeeps, ObserveKeeps, RecoverReadKeeps, RecoverWriteKeeps,
     RecoverWaitKeeps, RecoverEnvelopeKeeps, RecoverConcludeKeeps DEF Recovers
<1>3. CASE WorkerDies \/ AgentSteps \/ CaptureTurn \/ Upset
  BY <1>3, WorkerDiesKeeps, AgentStepsKeeps, CaptureTurnKeeps, UpsetKeeps
<1>4. CASE UNCHANGED vars
  BY <1>4 DEF vars, RunIInv, TypeOK, OneRunner, LaunchesAreClaimed, LaunchedOnce, PromptComesFirst,
              OutcomesAreProven, SuccessIsProven, IdsAreKnown, SeenAtWork, RecoveryFollowsRest,
              Live, BeforeLaunch, BeforePrompt, Saving, Worked, AtRest
<1> QED  BY <1>1, <1>2, <1>3, <1>4 DEF Next

-----------------------------------------------------------------------------
\* A key stands for one run: whoever runs it, dies or recovers it, one agent is
\* launched, and a receipt or a ledger that says success is right.
THEOREM RunInvHolds == Spec => []RunInv
<1>1. RunIInv => RunInv
  BY DEF RunIInv, RunInv, LaunchesAreClaimed, OutcomesAreProven
<1> QED  BY RunInit, RunStep, <1>1, PTL DEF Spec

\* A recovery concludes nothing of an agent that is at work or is yet to begin.
THEOREM RecoveryWaits == Spec => RecoveryWaitsForTheAgent
<1>1. RunIInv /\ [Next]_vars =>
          [RecoverConclude =>
              prompted /\ (workspace = "open" => pane.agent \in Settled \cup {"none"})]_vars
  BY DEF RunIInv, RecoverConclude, OutcomesAreProven, PromptComesFirst, RecoveryFollowsRest, AtRest
<1> QED  BY RunInit, RunStep, <1>1, PTL DEF Spec, RecoveryWaitsForTheAgent
=============================================================================
