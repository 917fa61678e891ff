--------------------------------- MODULE Door ---------------------------------
(***************************************************************************)
(* A door (ts/vaultr-door): a job that hands the files that are new under  *)
(* a directory to one agent run.                                           *)
(*                                                                         *)
(* A run lists the directory, loads each file that the frontier calls new, *)
(* persists a claim of them, checks that they have not changed, and asks   *)
(* Plant for a run keyed by the claim.  Only a durable outcome moves the   *)
(* frontier and drops the claim.  A run may die between any two steps; the *)
(* next resumes its claim.  Runs exclude each other: DoorLock.  Plant's    *)
(* side is AgentRuns reduced to the receipt of a key: pending while Plant's*)
(* runner is there, and lost when it dies with it pending.  Recovery looks *)
(* for receipts by a job's fence, and never finds one of a claim.          *)
(*                                                                         *)
(* The state file may be one of an earlier version, with a time, or with   *)
(* the last file in order, instead of a frontier, and with a claim that    *)
(* knows paths and times only.  It is read as a frontier that is closed    *)
(* through a path; the claim keeps its key and is bound to contents first. *)
(***************************************************************************)
EXTENDS Integers, FiniteSets

CONSTANTS
    Paths,          \* positive numbers, in the order of the names
    Earlier,        \* files that an earlier version of the door may have left
    Unwanted,       \* paths that the door's filter rejects
    MaxFires,       \* maxFiresPerHour
    Manners,        \* how writers may behave: sets of "quiet", not to write while a
                    \* run lists and loads, and "patient", not to change claimed files
    MaxWrites,      \* bound: versions of files
    MaxRunDeaths,   \* bound: runs and runners of Plant that die
    MaxRetries      \* bound: times Plant has no agent to give

ASSUME DoorAssumption ==
    /\ Paths \subseteq Nat \ {0} /\ Unwanted \subseteq Paths
    /\ \E p \in Paths : \A q \in Paths : q <= p
    /\ MaxFires \in Nat \ {0}
    /\ Manners \subseteq SUBSET {"quiet", "patient"}
    /\ {MaxWrites, MaxRunDeaths, MaxRetries} \subseteq Nat
    /\ Earlier \in 0..MaxWrites /\ 1..Earlier \subseteq Paths

VARIABLES
    manners,      \* what the writers keep to, one of Manners
    files,        \* the directory: versions [path, mtime, id], one for each path
    clock, writes, last,      \* the time, the versions so far, each path's last time
    frontier,     \* durable: [mtime, seen, through]; through is 0 when not closed
    claim,        \* durable: {} or the claimed versions; its key is they and the frontier
    bound,        \* durable: the claim knows the contents of its files
    fires,        \* durable: outcomes in the last hour
    paused,       \* durable: the breaker
    receipt,      \* Plant's: [key, outcome], "pending" or "lost" without a real one
    step, listing, matched,     \* the run that has the lock
    launched,     \* each launch of an agent, [key, nth]
    handed,       \* versions whose run has a durable outcome the door acted on
    runDeaths, retries

disk == <<frontier, claim, bound, fires, paused>>
doorVars == <<manners, files, clock, writes, last, disk, receipt, step, listing, matched,
              launched, handed, runDeaths, retries>>

OpenAt(mtime, seen) == [mtime |-> mtime, seen |-> seen, through |-> 0]
ClosedAt(mtime, path) == [mtime |-> mtime, seen |-> {}, through |-> path]
Wanted(v) == v.path \notin Unwanted

Fresh ==
    /\ files = {} /\ clock = 1 /\ writes = 0 /\ last = [p \in Paths |-> 0]
    /\ frontier = OpenAt(0, {}) /\ claim = {} /\ bound = TRUE
    /\ receipt = {} /\ launched = {} /\ handed = {}

\* The files that were there, all of one time, and the claim of those after p,
\* whose agent may have been launched already.
Older == {[path |-> p, mtime |-> 1, id |-> p] : p \in 1..Earlier}
LegacyClaim(p) == {v \in Older : v.path > p /\ Wanted(v)}
LegacyKey == <<frontier, claim, 0>>
Past(done) == IF done = {} THEN {} ELSE {[key |-> <<OpenAt(0, {}), done, 0>>, nth |-> 0]}

\* A time alone becomes the next number after it, which is past every path.
ConservativeFrontier == ClosedAt(1, CHOOSE p \in Paths : \A q \in Paths : q <= p)

\* migrateLegacyState; a cursor that has met no file has time 0.
Migrated ==
    /\ Earlier > 0
    /\ files = Older /\ clock = 2 /\ writes = Earlier
    /\ last = [p \in Paths |-> IF p <= Earlier THEN 1 ELSE 0]
    /\ \/ /\ frontier = ConservativeFrontier
          /\ claim = {} /\ bound = TRUE /\ handed = Older
          /\ receipt = {} /\ launched = Past(handed)
       \/ \E p \in 0..Earlier :
              /\ frontier = IF p = 0 THEN OpenAt(0, {}) ELSE ClosedAt(1, p)
              /\ handed = {v \in Older : v.path <= p}
              /\ claim \in {{}, LegacyClaim(p)} /\ bound = (claim = {})
              /\ \/ receipt = {} /\ launched = Past(handed)
                 \/ /\ claim # {}
                    /\ receipt \in {{[key |-> LegacyKey, outcome |-> o]} : o \in {"pending", "failed"}}
                    /\ launched = Past(handed) \cup {[key |-> LegacyKey, nth |-> 1]}

DoorInit ==
    /\ manners \in Manners
    /\ Fresh \/ Migrated
    /\ fires = 0 /\ paused = FALSE
    /\ step = "idle" /\ listing = {} /\ matched = {}
    /\ runDeaths = 0 /\ retries = 0

Of(p) == {v \in files : v.path = p}

-----------------------------------------------------------------------------
(* The directory.  Clocks do not go back, and the writes of one file have  *)
(* different times; files written at the same time may be many.            *)

MayWrite(p) ==
    /\ "quiet" \in manners => step # "scan"
    /\ "patient" \in manners => \A v \in claim \cup matched : v.path # p

Write(p) ==
    /\ MayWrite(p) /\ writes < MaxWrites
    /\ writes' = writes + 1
    /\ \E t \in {clock, clock + 1} :
           /\ last[p] < t
           /\ clock' = t /\ last' = [last EXCEPT ![p] = t]
           /\ files' = (files \ Of(p)) \cup {[path |-> p, mtime |-> t, id |-> writes']}
    /\ UNCHANGED <<manners, disk, receipt, step, listing, matched, launched, handed, runDeaths,
                   retries>>

Delete(p) ==
    /\ MayWrite(p) /\ Of(p) # {} /\ writes < MaxWrites
    /\ writes' = writes + 1
    /\ files' = files \ Of(p)
    /\ UNCHANGED <<manners, clock, last, disk, receipt, step, listing, matched, launched,
                   handed, runDeaths, retries>>

-----------------------------------------------------------------------------
(* One run.                                                                *)

Idle == step' = "idle" /\ listing' = {} /\ matched' = {}

\* isNew (mutants: by time alone; a closed frontier is as good as an open one).
LaterOnly(v) == v.mtime > frontier.mtime
Unclosed(v) ==
    v.mtime > frontier.mtime \/ (v.mtime = frontier.mtime /\ v.path \notin frontier.seen)
IsNew(v) ==
    \/ v.mtime > frontier.mtime
    \/ /\ v.mtime = frontier.mtime
       /\ v.path > frontier.through /\ v.path \notin frontier.seen

\* What loadState demands of a state file, or every run fails.
ParseState ==
    /\ \A p \in frontier.seen : p > frontier.through
    /\ \A v \in claim : IsNew(v)
    /\ \A v, w \in claim : v.path = w.path => v = w

Begin ==
    /\ step = "idle" /\ ~paused /\ ParseState
    /\ IF claim # {} THEN step' = "bind" /\ UNCHANGED listing
                     ELSE step' = "scan" /\ listing' = {v.path : v \in files}
    /\ UNCHANGED <<manners, files, clock, writes, last, disk, receipt, matched, launched,
                   handed, runDeaths, retries>>

\* A file that has gone is passed over, one that is not new is not read.
Load(p) ==
    /\ step = "scan" /\ p \in listing
    /\ listing' = listing \ {p}
    /\ matched' = matched \cup {v \in Of(p) : IsNew(v)}
    /\ UNCHANGED <<manners, files, clock, writes, last, disk, receipt, step, launched, handed,
                   runDeaths, retries>>

\* A file that changes while it is read ends the run; nothing is claimed.
LoadFails(p) ==
    /\ step = "scan" /\ p \in listing /\ "quiet" \notin manners
    /\ Idle
    /\ UNCHANGED <<manners, files, clock, writes, last, disk, receipt, launched, handed,
                   runDeaths, retries>>

\* The breaker.
Trips == fires >= MaxFires

PrepareClaim ==
    /\ step = "scan" /\ listing = {}
    /\ LET new == {v \in matched : Wanted(v)} IN
           \/ new = {} /\ Idle /\ UNCHANGED disk
           \/ /\ new # {} /\ Trips
              /\ paused' = TRUE /\ Idle /\ UNCHANGED <<frontier, claim, bound, fires>>
           \/ /\ new # {} /\ ~Trips
              /\ claim' = new /\ bound' = TRUE
              /\ step' = "bind" /\ listing' = {} /\ matched' = {}
              /\ UNCHANGED <<frontier, fires, paused>>
    /\ UNCHANGED <<manners, files, clock, writes, last, receipt, launched, handed, runDeaths,
                   retries>>

\* An old claim is bound to the contents of files that still have its times.
Bind ==
    /\ step = "bind"
    /\ \/ /\ bound \/ claim \subseteq files
          /\ bound' = TRUE
          /\ step' = "hydrate" /\ UNCHANGED <<listing, matched>>
       \/ ~bound /\ ~(claim \subseteq files) /\ Idle /\ UNCHANGED bound
    /\ UNCHANGED <<manners, files, clock, writes, last, frontier, claim, fires, paused, receipt,
                   launched, handed, runDeaths, retries>>

\* Every claimed file is what was claimed, or the run fails and the claim stays.
Hydrate ==
    /\ step = "hydrate"
    /\ IF claim \subseteq files THEN step' = "launch" /\ UNCHANGED <<listing, matched>> ELSE Idle
    /\ UNCHANGED <<manners, files, clock, writes, last, disk, receipt, launched, handed,
                   runDeaths, retries>>

\* claimKey.
Key == <<frontier, claim, 0>>
OutcomeOf(k) == {r.outcome : r \in {s \in receipt : s.key = k}}

\* plant agent run --idempotency-key.
AgentRun ==
    /\ step = "launch"
    /\ \/ /\ OutcomeOf(Key) = {}
          /\ receipt' = receipt \cup {[key |-> Key, outcome |-> "pending"]}
          /\ launched' = launched \cup {[key |-> Key, nth |-> Cardinality(launched)]}
          /\ step' = "await" /\ UNCHANGED <<listing, matched, retries>>
       \/ /\ OutcomeOf(Key) = {} /\ retries < MaxRetries
          /\ retries' = retries + 1
          /\ Idle /\ UNCHANGED <<receipt, launched>>
       \/ /\ OutcomeOf(Key) \in {{"pending"}, {"lost"}}
          /\ Idle /\ UNCHANGED <<receipt, launched, retries>>
       \/ /\ OutcomeOf(Key) \in {{"succeeded"}, {"failed"}}
          /\ step' = "await" /\ UNCHANGED <<receipt, launched, listing, matched, retries>>
    /\ UNCHANGED <<manners, files, clock, writes, last, disk, handed, runDeaths>>

\* receiptDurable
Durable == OutcomeOf(Key) \in {{"succeeded"}, {"failed"}}

\* advanceFrontier
LastTime == CHOOSE t \in {v.mtime : v \in claim} : \A v \in claim : v.mtime <= t
AtLastTime == {v.path : v \in {w \in claim : w.mtime = LastTime}}
Advanced ==
    IF LastTime = frontier.mtime THEN [frontier EXCEPT !.seen = @ \cup AtLastTime]
    ELSE OpenAt(LastTime, AtLastTime)

Persist ==
    /\ step = "await" /\ Durable
    /\ fires' = fires + 1
    /\ frontier' = Advanced
    /\ claim' = {} /\ bound' = TRUE
    /\ handed' = handed \cup claim
    /\ Idle
    /\ UNCHANGED <<manners, files, clock, writes, last, paused, receipt, launched, runDeaths,
                   retries>>

\* Plant died, or could not persist the outcome: indeterminate, the claim is kept.
Indeterminate ==
    /\ step = "await" /\ OutcomeOf(Key) = {"lost"}
    /\ Idle
    /\ UNCHANGED <<manners, files, clock, writes, last, disk, receipt, launched, handed,
                   runDeaths, retries>>

RunDies ==
    /\ step # "idle" /\ runDeaths < MaxRunDeaths
    /\ runDeaths' = runDeaths + 1
    /\ Idle
    /\ UNCHANGED <<manners, files, clock, writes, last, disk, receipt, launched, handed,
                   retries>>

-----------------------------------------------------------------------------
(* Plant, the hour and the operator.                                       *)

\* All that a runner waits for has a timeout.
PendingBecomes(outcomes) ==
    /\ \E r \in receipt, outcome \in outcomes :
           /\ r.outcome = "pending"
           /\ receipt' = (receipt \ {r}) \cup {[r EXCEPT !.outcome = outcome]}
    /\ UNCHANGED <<manners, files, clock, writes, last, disk, step, listing, matched, launched,
                   handed, retries>>

AgentEnds == PendingBecomes({"succeeded", "failed"}) /\ UNCHANGED runDeaths

RunnerDies ==
    /\ PendingBecomes({"lost"})
    /\ runDeaths < MaxRunDeaths /\ runDeaths' = runDeaths + 1

WindowPasses ==
    /\ fires > 0
    /\ fires' = 0
    /\ UNCHANGED <<manners, files, clock, writes, last, frontier, claim, bound, paused, receipt,
                   step, listing, matched, launched, handed, runDeaths, retries>>

ReArm ==
    /\ paused /\ step = "idle"
    /\ paused' = FALSE
    /\ UNCHANGED <<manners, files, clock, writes, last, frontier, claim, bound, fires, receipt,
                   step, listing, matched, launched, handed, runDeaths, retries>>

Run ==
    \/ Begin \/ (\E p \in Paths : Load(p)) \/ PrepareClaim \/ Bind \/ Hydrate \/ AgentRun
    \/ Persist \/ Indeterminate

DoorNext ==
    \/ \E p \in Paths : Write(p) \/ Delete(p) \/ LoadFails(p)
    \/ Run \/ RunDies \/ AgentEnds \/ RunnerDies \/ WindowPasses \/ ReArm

DoorSpec == DoorInit /\ [][DoorNext]_doorVars

DoorFairSpec ==
    /\ DoorSpec
    /\ WF_doorVars(Run) /\ WF_doorVars(AgentEnds) /\ WF_doorVars(WindowPasses)
    /\ WF_doorVars(ReArm)

-----------------------------------------------------------------------------
Version == [path : Paths, mtime : 1..(MaxWrites + 1), id : 1..MaxWrites]

DoorTypeOK ==
    /\ manners \in Manners
    /\ files \subseteq Version /\ \A v, w \in files : v.path = w.path => v = w
    /\ claim \subseteq Version /\ matched \subseteq Version /\ handed \subseteq Version
    /\ frontier.mtime \in 0..clock /\ frontier.seen \subseteq Paths
    /\ frontier.through \in {0} \cup Paths /\ bound \in BOOLEAN /\ (claim = {} => bound)
    /\ fires \in 0..MaxFires /\ paused \in BOOLEAN
    /\ step \in {"idle", "scan", "bind", "hydrate", "launch", "await"}
    /\ listing \subseteq Paths

\* Every state that a run leaves, a migrated one included, is one that the
\* next accepts: a claim that loadState refuses would stop the door for good.
StateIsReadable == ParseState

\* No agent is launched twice for a claim, nor for a file in two claims.
OneLaunchPerVersion ==
    \A l, m \in launched : l # m => l.key[2] \cap m.key[2] = {}

\* What an agent was launched on is not lost: its claim is held until an
\* outcome that Plant has on record has moved the frontier.
LaunchIsSettled ==
    \A l \in launched :
        \/ l.key[2] = claim
        \/ l.key[2] \subseteq handed /\ OutcomeOf(l.key) \subseteq {"succeeded", "failed"}

\* If nobody writes while a run lists and loads, a file in the directory is new,
\* or claimed, or was handed to an agent.
NothingIsMissed ==
    "quiet" \in manners =>
        \A v \in files : Wanted(v) => IsNew(v) \/ v \in claim \cup handed

\* A claim whose receipt is lost: every run finds it indeterminate, for good.
HeldForGood == claim # {} /\ OutcomeOf(Key) = {"lost"}

\* A file that stays is handed to an agent, if writers are quiet and patient,
\* unless Plant's runner died with the claim's receipt pending.
NewFilesAreHanded ==
    \A i \in 1..MaxWrites :
        (manners = {"quiet", "patient"} /\ \E v \in files : v.id = i /\ Wanted(v))
            ~> (\E v \in handed : v.id = i) \/ ~(\E v \in files : v.id = i) \/ HeldForGood

\* What the state file, the directory and the receipts are to each other between
\* any two steps: no file is launched on twice, dropped or passed over, and the
\* next run can read the state.
FilesInv ==
    /\ DoorTypeOK
    /\ StateIsReadable
    /\ OneLaunchPerVersion
    /\ LaunchIsSettled
    /\ NothingIsMissed
=============================================================================
