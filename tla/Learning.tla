------------------------------ MODULE Learning -------------------------------
(***************************************************************************)
(* Which sessions a learner is offered, and the lease that keeps two runs  *)
(* of it apart (crates/plant/src/sweep.rs, crates/vaultr/src/learn.rs).    *)
(*                                                                         *)
(* plant sessions eligible --claim selects, under a lock file, the idle,   *)
(* substantive sessions whose current generation the learner's records do  *)
(* not cover, and publishes them as the learner's only in-flight lease.    *)
(* The calling script then reads the sessions and adds a create-only       *)
(* record to each one it is done with; it may die at any point.            *)
(*                                                                         *)
(* One learner; leases, records and locks of different learners share      *)
(* nothing.  Time is kept as ages: a lease counts down, and goes on being  *)
(* nobody's business but the next claim's: no one stops a run that         *)
(* outlives it.  Files count up since they were written.  Timestamps of    *)
(* records and files are only ever compared, so a pass keeps the two       *)
(* comparisons the code makes of it, brought up to date when a file is     *)
(* written.                                                                *)
(***************************************************************************)
EXTENDS Integers, FiniteSets

CONSTANTS
    Sessions,       \* session ids, the lower the older
    JobSids,        \* sessions of agent runs (job-sids.txt)
    Claimers,       \* processes that run the learner's script
    MaxBatch,       \* --max
    Idle,           \* --idle of the learner's script, in ticks
    SealIdle,       \* --idle of the seal sweep, in ticks
    Duration,       \* --claim, in ticks: how long the script means to run
    Grace,          \* the 300 s a lease outlives the claim, in ticks
    Substance,      \* turns a raw generation needs to be worth a pass
    MaxTurns,       \* bound: how many turns each session gets
    MaxAge          \* bound: ages are told apart up to here

Free == 0           \* no process holds the lock file

\* What a run may count on: its claim and some grace.
Allowance == Duration + Grace

ASSUME LearningAssumption ==
    /\ Sessions \subseteq Nat /\ IsFiniteSet(Sessions)
    /\ JobSids \subseteq Sessions
    /\ Free \notin Claimers
    /\ {MaxBatch, Duration, Grace, Substance} \subseteq Nat \ {0}
    /\ {Idle, SealIdle, MaxAge} \subseteq Nat /\ MaxTurns \in [Sessions -> Nat]
    /\ \A n \in {Idle, SealIdle, Allowance, 1} : MaxAge >= n

VARIABLES
    \* durable: the session directories
    sealed,         \* turns in the sealed generation
    detached,       \* turns in the detached generation
    raw,            \* turns in the raw generation
    age,            \* ticks since the raw generation was written, 0 if there is none
    prior,          \* ticks since the one before it was, 0 if there is none
    pass,           \* the latest record: NoPass or which files it postdates
    \* durable: the in-flight lease, and who holds its lock file
    lease,          \* [sids, left]; NoLease once it has expired
    lock,
    \* volatile: the learner's runs
    run             \* [step, batch, left of its own lease]

files == <<sealed, detached, raw, age, prior>>
vars == <<files, pass, lease, lock, run>>

NoPass == [given |-> FALSE, afterRaw |-> FALSE, afterPrevious |-> FALSE]
NoLease == [sids |-> {}, left |-> 0]
IdleRun == [step |-> "idle", batch |-> {}, left |-> 0]

Turns(s) == sealed[s] + detached[s] + raw[s]
Frozen(s) == sealed[s] + detached[s] > 0

-----------------------------------------------------------------------------
Init ==
    /\ sealed = [s \in Sessions |-> 0]
    /\ detached = [s \in Sessions |-> 0]
    /\ raw = [s \in Sessions |-> 0]
    /\ age = [s \in Sessions |-> 0]
    /\ prior = [s \in Sessions |-> 0]
    /\ pass = [s \in Sessions |-> NoPass]
    /\ lease = NoLease
    /\ lock = Free
    /\ run = [c \in Claimers |-> IdleRun]

-----------------------------------------------------------------------------
(* The session: turns arrive, an idle raw generation is scrubbed and sealed. *)

Turn(s) ==
    /\ Turns(s) < MaxTurns[s]
    /\ raw' = [raw EXCEPT ![s] = @ + 1]
    /\ age' = [age EXCEPT ![s] = 0]
    /\ pass' = [pass EXCEPT ![s].afterRaw = FALSE]
    /\ UNCHANGED <<sealed, detached, prior, lease, lock, run>>

\* The sweep scrubs and renames the raw generation.  A renamed file keeps its
\* time, a redacted one is a new file; a pass is now compared with it as with the
\* generation before the current one.  (compress_sweep decides on all sessions,
\* then seals them one after the other: a turn that arrives in between makes this
\* a shorter SealIdle.)
Detach(s) ==
    /\ raw[s] > 0 /\ detached[s] = 0 /\ age[s] >= SealIdle
    /\ detached' = [detached EXCEPT ![s] = raw[s]]
    /\ raw' = [raw EXCEPT ![s] = 0]
    /\ \E redacted \in BOOLEAN :
        /\ prior' = [prior EXCEPT ![s] = IF redacted THEN 0 ELSE age[s]]
        /\ pass' = [pass EXCEPT ![s] = [given |-> @.given, afterRaw |-> FALSE,
                                        afterPrevious |-> @.afterRaw /\ ~redacted]]
    /\ age' = [age EXCEPT ![s] = 0]
    /\ UNCHANGED <<sealed, lease, lock, run>>

\* The sealed file is given the time of the detached one.
Seal(s) ==
    /\ detached[s] > 0
    /\ sealed' = [sealed EXCEPT ![s] = @ + detached[s]]
    /\ detached' = [detached EXCEPT ![s] = 0]
    /\ UNCHANGED <<raw, age, prior, pass, lease, lock, run>>

-----------------------------------------------------------------------------
(* Eligibility.                                                            *)

\* learned_current: a frozen generation is learned by any record, a raw one by
\* a record later than the generation before it, if there is one.
LearnedCurrent(s) ==
    /\ pass[s] # NoPass
    /\ \/ raw[s] = 0
       \/ ~Frozen(s)
       \/ pass[s].afterPrevious

\* idle_for and substantive look at a raw generation only (mutant: at any, by the
\* time of a raw one).
IdleFile(s) == age[s] >= Idle
IdleEnough(s) == raw[s] = 0 \/ age[s] >= Idle
Substantive(s) == raw[s] = 0 \/ raw[s] >= Substance

\* read_inflight: an expired lease is none.
InFlight == lease.sids

Eligible ==
    {s \in Sessions :
        /\ Turns(s) > 0
        /\ s \notin JobSids
        /\ ~LearnedCurrent(s)
        /\ s \notin InFlight
        /\ IdleEnough(s)
        /\ Substantive(s)}

\* The oldest first, at most MaxBatch of them.
Batch == {s \in Eligible : Cardinality({t \in Eligible : t < s}) < MaxBatch}

\* An active lease blocks until each of its sessions is learned.
LeaseDone == \A s \in InFlight : Turns(s) > 0 /\ LearnedCurrent(s)

-----------------------------------------------------------------------------
(* The learner's script.                                                   *)

\* The lock file serializes selection and publication (mutant: it does not).
Unlocked == TRUE
LockFree == lock = Free

ClaimSelect(c) ==
    /\ run[c].step = "idle" /\ LockFree
    /\ LeaseDone /\ Batch # {}
    /\ lock' = c
    /\ run' = [run EXCEPT ![c] = [IdleRun EXCEPT !.step = "selected", !.batch = Batch]]
    /\ UNCHANGED <<files, pass, lease>>

\* When a lease expires (mutant: with the claim).
NoGrace == Duration
LeaseTime == Duration + Grace

ClaimPublish(c) ==
    /\ run[c].step = "selected"
    /\ lease' = [sids |-> run[c].batch, left |-> LeaseTime]
    /\ lock' = Free
    /\ run' = [run EXCEPT ![c].step = "working", ![c].left = Allowance]
    /\ UNCHANGED <<files, pass>>

\* The script reads a session of its batch and records a pass over it, later than
\* any file not written just now.
Record(c, s) ==
    /\ run[c].step = "working" /\ s \in run[c].batch
    /\ pass' = [pass EXCEPT ![s] = [given |-> TRUE, afterRaw |-> age[s] > 0,
                                    afterPrevious |-> prior[s] > 0]]
    /\ run' = [run EXCEPT ![c].batch = @ \ {s}]
    /\ UNCHANGED <<files, lease, lock>>

\* The script ends, or dies, in which case the lock file is free too.
RunEnds(c) ==
    /\ run[c].step # "idle"
    /\ run' = [run EXCEPT ![c] = IdleRun]
    /\ lock' = IF lock = c THEN Free ELSE lock
    /\ UNCHANGED <<files, pass, lease>>

\* An expired lease is none.
LeaseLeft == IF lease.left > 1 THEN [lease EXCEPT !.left = @ - 1] ELSE NoLease

\* Time passes: nothing stops a run that is slower than its claim.
CountDown(n) == IF n > 0 THEN n - 1 ELSE 0
CountUp(n) == IF n < MaxAge THEN n + 1 ELSE MaxAge
Tick ==
    /\ age' = [s \in Sessions |-> IF raw[s] > 0 THEN CountUp(age[s]) ELSE 0]
    /\ prior' = [s \in Sessions |-> IF Frozen(s) THEN CountUp(prior[s]) ELSE 0]
    /\ lease' = LeaseLeft
    /\ run' = [c \in Claimers |-> [run[c] EXCEPT !.left = CountDown(@)]]
    /\ UNCHANGED <<sealed, detached, raw, pass, lock>>

Next ==
    \/ \E s \in Sessions : Turn(s) \/ Detach(s) \/ Seal(s)
    \/ \E c \in Claimers : \/ ClaimSelect(c) \/ ClaimPublish(c) \/ RunEnds(c)
                           \/ \E s \in Sessions : Record(c, s)
    \/ Tick

Spec == Init /\ [][Next]_vars

\* The job runs again and again, and not every run of it dies early: that is the
\* script's and its scheduler's part.  A run may hang for good with what it has
\* claimed; one that has recorded its whole batch ends.
FairSpec ==
    /\ Spec
    /\ WF_vars(Tick)
    /\ SF_vars(\E c \in Claimers : ClaimSelect(c))
    /\ SF_vars(\E c \in Claimers : ClaimPublish(c))
    /\ WF_vars(\E c \in Claimers : RunEnds(c) /\ run[c].batch = {})
    /\ SF_vars(\E c \in Claimers, s \in Sessions : Record(c, s))

-----------------------------------------------------------------------------
Pass == [given : BOOLEAN, afterRaw : BOOLEAN, afterPrevious : BOOLEAN]

Runs == [step : {"idle", "selected", "working"}, batch : SUBSET Sessions,
         left : 0..Allowance]

TypeOK ==
    /\ {sealed, detached, raw} \subseteq [Sessions -> Nat]
    /\ \A s \in Sessions : Turns(s) <= MaxTurns[s]
    /\ {age, prior} \subseteq [Sessions -> 0..MaxAge]
    /\ pass \in [Sessions -> Pass]
    /\ lease \in [sids : SUBSET Sessions, left : 0..Allowance]
    /\ lock \in Claimers \cup {Free}
    /\ run \in [Claimers -> Runs]
    /\ \A c \in Claimers : Cardinality(run[c].batch) <= MaxBatch

-----------------------------------------------------------------------------
\* The run has worked for longer than its lease.
Overran(c) == run[c].step = "working" /\ run[c].left = 0

\* A file of a session that had a pass was written since the run claimed it: the
\* pass had made the session look learned, and does so no more.
Touched(c, s) ==
    /\ run[c].step = "working" /\ pass[s] # NoPass
    /\ \/ raw[s] > 0 /\ age[s] + run[c].left <= Allowance
       \/ Frozen(s) /\ prior[s] + run[c].left <= Allowance

\* No run is offered a session another one works on, although a lease is given
\* up when its sessions look learned, expires by the clock, and is replaced as a
\* whole.  The two ways in which it happens all the same: the other run has
\* outlived its lease, or its lease was given up early because an earlier pass
\* made the session look learned, and a file of it has been written since.
NoSessionInTwoRuns ==
    [][\A c, d \in Claimers, s \in Sessions :
          c # d /\ s \in run[d].batch /\ s \notin run[c].batch /\ s \in run'[c].batch
              => Overran(d) \/ Touched(d, s)]_vars

\* A session that has none gets a pass, if it is worth one and no job's own:
\* however many runs die with the lease or outlive it, and whether it is sealed
\* before or not.
EverySessionIsLearned ==
    \A s \in Sessions \ JobSids : sealed[s] > 0 ~> pass[s] # NoPass

-----------------------------------------------------------------------------
(* What NoSessionInTwoRuns rests on.                                       *)

\* Without a record nothing is compared.
PassesAreGiven == \A s \in Sessions : pass[s].given \/ pass[s] = NoPass

\* Whoever selects holds the lock file.
SelectorHoldsLock ==
    \A c \in Claimers : run[c].step = "selected" <=> lock = c

IdleIsEmpty == \A c \in Claimers : run[c].step = "idle" => run[c].batch = {}

\* The lease names the session and lasts as long as the run's own.
Leased(c, s) == s \in lease.sids /\ lease.left >= run[c].left

WorkIsProtected ==
    \A c \in Claimers : run[c].step = "working" =>
        \A s \in run[c].batch :
            \/ lock = Free /\ Leased(c, s)
            \/ LearnedCurrent(s) \/ Overran(c) \/ Touched(c, s)

LeaseIInv ==
    /\ TypeOK /\ PassesAreGiven
    /\ SelectorHoldsLock /\ IdleIsEmpty /\ WorkIsProtected
=============================================================================
