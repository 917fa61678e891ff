---------------------------- MODULE DoorProofs ----------------------------
(***************************************************************************)
(* A door's lock file is a mutual exclusion, for any number of runs,       *)
(* deaths, process ids and rounds; and of the files it watches every       *)
(* version a run claims is handed to its script once, for any number of    *)
(* files, writes, runs and deaths between them.                            *)
(***************************************************************************)
EXTENDS DoorLock, Door, WellFoundedInduction, TLAPS

-----------------------------------------------------------------------------
(***************************************************************************)
(* The lock.                                                               *)
(***************************************************************************)

Recovering == {"parse", "recheck", "remove"}

\* A lock's file names a run that is inside or died inside.
NameIsOwners == name \in Runs => pc[name] \in {"inside", "unlink", "dead"}

\* Whoever recovers holds the kernel's lock on the file it opened, and nobody
\* else holds one.
KernelIsRecoverers ==
    /\ \A r \in Runs : pc[r] = "flock" => handle[r] \in Runs
    /\ \A r \in Runs : pc[r] \in Recovering => handle[r] \in Runs /\ kernel[handle[r]] = r
    /\ \A i, r \in Runs : kernel[i] = r => pc[r] \in Recovering /\ handle[r] = i

\* What is about to be removed is still the file that was opened, of a run
\* that died: between the second proof and the unlink nobody can change that.
RemovesTheDead ==
    \A r \in Runs : pc[r] = "remove" => name = handle[r] /\ pc[handle[r]] = "dead"

\* A run that is not over has rounds left.
RoundsLeft == \A r \in Runs : pc[r] # "ended" => round[r] < Attempts

DoorInv ==
    /\ TypeOK
    /\ OwnerIsNamed
    /\ NameIsOwners
    /\ KernelIsRecoverers
    /\ RemovesTheDead
    /\ RoundsLeft

\* A run starts.
LEMMA StartKeeps ==
    ASSUME NEW r \in Runs, DoorInv, Start(r)
    PROVE  DoorInv'
<1> USE DoorLockAssumption DEF At, Goto, Start
<1>1. TypeOK'
  BY DEF DoorInv, TypeOK, Live
<1>2. OwnerIsNamed'
  BY DEF DoorInv, OwnerIsNamed, Inside
<1>3. NameIsOwners'
  BY DEF DoorInv, NameIsOwners
<1>4. KernelIsRecoverers'
  BY DEF DoorInv, KernelIsRecoverers, Recovering
<1>5. RemovesTheDead'
  BY DEF DoorInv, RemovesTheDead
<1>6. RoundsLeft'
  BY DEF DoorInv, RoundsLeft
<1> QED  BY <1>1, <1>2, <1>3, <1>4, <1>5, <1>6 DEF DoorInv

\* Publishing succeeds only where nobody is inside.
LEMMA PublishKeeps ==
    ASSUME NEW r \in Runs, DoorInv, Publish(r)
    PROVE  DoorInv'
<1> USE DoorLockAssumption DEF At, Goto, Publish, Unlinked
<1>1. TypeOK'
  BY DEF DoorInv, TypeOK, Over, Live
<1>2. OwnerIsNamed'
  BY DEF DoorInv, TypeOK, OwnerIsNamed, Inside
<1>3. NameIsOwners'
  BY DEF DoorInv, TypeOK, NameIsOwners
<1>4. KernelIsRecoverers'
  BY DEF DoorInv, TypeOK, KernelIsRecoverers, Recovering
<1>5. RemovesTheDead'
  BY DEF DoorInv, TypeOK, RemovesTheDead, KernelIsRecoverers, Recovering
<1>6. RoundsLeft'
  BY DEF DoorInv, TypeOK, RoundsLeft
<1> QED  BY <1>1, <1>2, <1>3, <1>4, <1>5, <1>6 DEF DoorInv

\* The owner is read.
LEMMA ReadOwnerKeeps ==
    ASSUME NEW r \in Runs, DoorInv, ReadOwner(r)
    PROVE  DoorInv'
<1> USE DoorLockAssumption DEF At, Goto, ReadOwner, Retry
<1>1. TypeOK'
  BY DEF DoorInv, TypeOK, Live, KernelIsRecoverers, RoundsLeft, Recovering
<1>2. OwnerIsNamed'
  BY DEF DoorInv, TypeOK, OwnerIsNamed, Inside
<1>3. NameIsOwners'
  BY DEF DoorInv, TypeOK, NameIsOwners
<1>4. KernelIsRecoverers'
  BY DEF DoorInv, TypeOK, KernelIsRecoverers, Recovering
<1>5. RemovesTheDead'
  BY DEF DoorInv, TypeOK, RemovesTheDead, KernelIsRecoverers, Recovering
<1>6. RoundsLeft'
  BY DEF DoorInv, TypeOK, RoundsLeft
<1> QED  BY <1>1, <1>2, <1>3, <1>4, <1>5, <1>6 DEF DoorInv

\* The file is opened.
LEMMA OpenKeeps ==
    ASSUME NEW r \in Runs, DoorInv, Open(r)
    PROVE  DoorInv'
<1> USE DoorLockAssumption DEF At, Goto, Open, Retry
<1>1. TypeOK'
  BY DEF DoorInv, TypeOK, Live, KernelIsRecoverers, RoundsLeft, Recovering
<1>2. OwnerIsNamed'
  BY DEF DoorInv, TypeOK, OwnerIsNamed, Inside
<1>3. NameIsOwners'
  BY DEF DoorInv, TypeOK, NameIsOwners
<1>4. KernelIsRecoverers'
  BY DEF DoorInv, TypeOK, KernelIsRecoverers, Recovering
<1>5. RemovesTheDead'
  BY DEF DoorInv, TypeOK, RemovesTheDead, KernelIsRecoverers, Recovering
<1>6. RoundsLeft'
  BY DEF DoorInv, TypeOK, RoundsLeft
<1> QED  BY <1>1, <1>2, <1>3, <1>4, <1>5, <1>6 DEF DoorInv

\* The kernel's lock serializes the recoveries of one file.
LEMMA FlockKeeps ==
    ASSUME NEW r \in Runs, DoorInv, Flock(r)
    PROVE  DoorInv'
<1> USE DoorLockAssumption DEF At, Goto, Flock, MayRecover
<1>1. TypeOK'
  BY DEF DoorInv, TypeOK, Over, Live, KernelIsRecoverers, Recovering
<1>2. OwnerIsNamed'
  BY DEF DoorInv, TypeOK, OwnerIsNamed, Inside
<1>3. NameIsOwners'
  BY DEF DoorInv, TypeOK, NameIsOwners
<1>4. KernelIsRecoverers'
  BY DEF DoorInv, TypeOK, KernelIsRecoverers, Recovering
<1>5. RemovesTheDead'
  BY DEF DoorInv, TypeOK, RemovesTheDead, KernelIsRecoverers, Recovering
<1>6. RoundsLeft'
  BY DEF DoorInv, TypeOK, RoundsLeft
<1> QED  BY <1>1, <1>2, <1>3, <1>4, <1>5, <1>6 DEF DoorInv

\* The first proof.
LEMMA ParseKeeps ==
    ASSUME NEW r \in Runs, DoorInv, Parse(r)
    PROVE  DoorInv'
<1> USE DoorLockAssumption DEF At, Goto, Parse, GiveUp, Retry
<1>1. TypeOK'
  BY DEF DoorInv, TypeOK, Over, Live, RoundsLeft
<1>2. OwnerIsNamed'
  BY DEF DoorInv, TypeOK, OwnerIsNamed, Inside
<1>3. NameIsOwners'
  BY DEF DoorInv, TypeOK, NameIsOwners
<1>4. KernelIsRecoverers'
  BY DEF DoorInv, TypeOK, KernelIsRecoverers, Recovering
<1>5. RemovesTheDead'
  BY DEF DoorInv, TypeOK, RemovesTheDead, KernelIsRecoverers, Recovering
<1>6. RoundsLeft'
  BY DEF DoorInv, TypeOK, RoundsLeft
<1> QED  BY <1>1, <1>2, <1>3, <1>4, <1>5, <1>6 DEF DoorInv

\* The second proof: the owner is not alive, so it died inside.
LEMMA RecheckKeeps ==
    ASSUME NEW r \in Runs, DoorInv, Recheck(r)
    PROVE  DoorInv'
<1> USE DoorLockAssumption DEF At, Goto, Recheck, StillStale, PidAlive, GiveUp, Retry
<1>1. TypeOK'
  BY DEF DoorInv, TypeOK, Over, Live, RoundsLeft
<1>2. OwnerIsNamed'
  BY DEF DoorInv, TypeOK, OwnerIsNamed, Inside
<1>3. NameIsOwners'
  BY DEF DoorInv, TypeOK, NameIsOwners
<1>4. KernelIsRecoverers'
  BY DEF DoorInv, TypeOK, KernelIsRecoverers, Recovering
<1>5. RemovesTheDead'
  BY DEF DoorInv, TypeOK, RemovesTheDead, KernelIsRecoverers, Recovering, NameIsOwners, Over, Live
<1>6. RoundsLeft'
  BY DEF DoorInv, TypeOK, RoundsLeft
<1> QED  BY <1>1, <1>2, <1>3, <1>4, <1>5, <1>6 DEF DoorInv

\* The removal: whoever is named died, so nobody is inside.
LEMMA RemoveKeeps ==
    ASSUME NEW r \in Runs, DoorInv, Remove(r)
    PROVE  DoorInv'
<1> USE DoorLockAssumption DEF At, Goto, Remove, GiveUp, Retry
<1>1. TypeOK'
  BY DEF DoorInv, TypeOK, Live, RoundsLeft
<1>2. OwnerIsNamed'
  BY DEF DoorInv, TypeOK, OwnerIsNamed, Inside, RemovesTheDead
<1>3. NameIsOwners'
  BY DEF DoorInv, NameIsOwners
<1>4. KernelIsRecoverers'
  BY DEF DoorInv, TypeOK, KernelIsRecoverers, Recovering
<1>5. RemovesTheDead'
  BY DEF DoorInv, TypeOK, RemovesTheDead, KernelIsRecoverers, Recovering
<1>6. RoundsLeft'
  BY DEF DoorInv, TypeOK, RoundsLeft
<1> QED  BY <1>1, <1>2, <1>3, <1>4, <1>5, <1>6 DEF DoorInv

\* Release finds its own token.
LEMMA CompareKeeps ==
    ASSUME NEW r \in Runs, DoorInv, Compare(r)
    PROVE  DoorInv'
<1> USE DoorLockAssumption DEF At, Goto, Compare, Owns
<1>1. TypeOK'
  BY DEF DoorInv, TypeOK, Live, KernelIsRecoverers, Recovering
<1>2. OwnerIsNamed'
  BY DEF DoorInv, OwnerIsNamed, Inside
<1>3. NameIsOwners'
  BY DEF DoorInv, NameIsOwners
<1>4. KernelIsRecoverers'
  BY DEF DoorInv, KernelIsRecoverers, Recovering
<1>5. RemovesTheDead'
  BY DEF DoorInv, RemovesTheDead
<1>6. RoundsLeft'
  BY DEF DoorInv, RoundsLeft
<1> QED  BY <1>1, <1>2, <1>3, <1>4, <1>5, <1>6 DEF DoorInv

\* Release removes the run's own lock.
LEMMA UnlinkKeeps ==
    ASSUME NEW r \in Runs, DoorInv, Unlink(r)
    PROVE  DoorInv'
<1> USE DoorLockAssumption DEF At, Goto, Unlink
<1>1. TypeOK'
  BY DEF DoorInv, TypeOK, Live, KernelIsRecoverers, Recovering
<1>2. OwnerIsNamed'
  BY DEF DoorInv, TypeOK, OwnerIsNamed, Inside
<1>3. NameIsOwners'
  BY DEF DoorInv, NameIsOwners
<1>4. KernelIsRecoverers'
  BY DEF DoorInv, KernelIsRecoverers, Recovering
<1>5. RemovesTheDead'
  BY DEF DoorInv, RemovesTheDead, OwnerIsNamed, Inside
<1>6. RoundsLeft'
  BY DEF DoorInv, RoundsLeft
<1> QED  BY <1>1, <1>2, <1>3, <1>4, <1>5, <1>6 DEF DoorInv

\* A death leaves the name and drops the kernel's locks.
LEMMA DiesKeeps ==
    ASSUME NEW r \in Runs, DoorInv, Dies(r)
    PROVE  DoorInv'
<1> USE DoorLockAssumption DEF At, Goto, Dies
<1>1. TypeOK'
  BY DEF DoorInv, TypeOK, Live
<1>2. OwnerIsNamed'
  BY DEF DoorInv, OwnerIsNamed, Inside
<1>3. NameIsOwners'
  BY DEF DoorInv, NameIsOwners
<1>4. KernelIsRecoverers'
  BY DEF DoorInv, TypeOK, KernelIsRecoverers, Recovering
<1>5. RemovesTheDead'
  BY DEF DoorInv, RemovesTheDead
<1>6. RoundsLeft'
  BY DEF DoorInv, RoundsLeft, Live, Over
<1> QED  BY <1>1, <1>2, <1>3, <1>4, <1>5, <1>6 DEF DoorInv

-----------------------------------------------------------------------------
\* No run has started: nothing is published, opened or locked.
LEMMA InitDoor == Init => DoorInv
BY DoorLockAssumption
   DEF Init, DoorInv, TypeOK, OwnerIsNamed, Inside, NameIsOwners, KernelIsRecoverers,
       Recovering, RemovesTheDead, RoundsLeft

\* Every step of every run keeps the invariant.
LEMMA NextDoor == DoorInv /\ [Next]_vars => DoorInv'
<1> SUFFICES ASSUME DoorInv, [Next]_vars PROVE DoorInv'
  OBVIOUS
<1>1. ASSUME NEW r \in Runs, Start(r) \/ Acquire(r) \/ Release(r) \/ Dies(r)
      PROVE  DoorInv'
  BY <1>1, StartKeeps, PublishKeeps, ReadOwnerKeeps, OpenKeeps, FlockKeeps, ParseKeeps, RecheckKeeps, RemoveKeeps, CompareKeeps, UnlinkKeeps, DiesKeeps
     DEF Acquire, Release
<1>2. CASE UNCHANGED vars
  BY <1>2 DEF vars, DoorInv, TypeOK, Over, Live, OwnerIsNamed, Inside, NameIsOwners,
              KernelIsRecoverers, Recovering, RemovesTheDead, RoundsLeft
<1> QED  BY <1>1, <1>2 DEF Next

\* The invariant holds throughout.
LEMMA AlwaysDoorInv == Spec => []DoorInv
BY InitDoor, NextDoor, PTL DEF Spec

\* Whoever is inside is who the lock's file names, and the kernel's locks are
\* those of live runs (acquireLock, recoverStaleLock and release together).
THEOREM OwnersAreNamed == Spec => []LockInv
<1>1. DoorInv => LockInv
  BY DEF DoorInv, LockInv
<1> QED  BY <1>1, AlwaysDoorInv, PTL

-----------------------------------------------------------------------------
(* The lock file implements the exclusion.                                 *)

\* Publishing enters, and only where nobody is inside.
LEMMA PublishEnters ==
    ASSUME NEW r \in Runs, DoorInv, Publish(r)
    PROVE  Mutex!Enter(r) \/ UNCHANGED Inside
<1> USE DEF Publish, At, Goto, Unlinked, DoorInv, TypeOK
<1>1. CASE Unlinked
  <2>1. Inside = {}
    BY <1>1, DoorLockAssumption DEF OwnerIsNamed, Inside
  <2>2. Inside' = {r}
    BY <1>1, <2>1 DEF Inside
  <2> QED  BY <2>1, <2>2 DEF Mutex!Enter
<1>2. CASE ~Unlinked
  BY <1>2 DEF Inside
<1> QED  BY <1>1, <1>2

\* Release and death leave; a run that is inside owns the lock.
LEMMA LeavesOrStays ==
    ASSUME NEW r \in Runs, DoorInv, Compare(r) \/ Unlink(r) \/ Dies(r)
    PROVE  Mutex!Leave(r) \/ UNCHANGED Inside
<1> USE DEF At, Goto, DoorInv, TypeOK
<1>1. CASE Compare(r)
  BY <1>1 DEF Compare, Owns, OwnerIsNamed, Inside
<1>2. CASE Unlink(r)
  BY <1>2 DEF Unlink, Inside, Mutex!Leave
<1>3. CASE Dies(r)
  BY <1>3 DEF Dies, Inside, Mutex!Leave
<1> QED  BY <1>1, <1>2, <1>3

\* Recovering a dead owner's lock neither enters nor leaves.
LEMMA RecoveryStutters ==
    ASSUME NEW r \in Runs, DoorInv,
           Start(r) \/ ReadOwner(r) \/ Open(r) \/ Flock(r) \/ Parse(r) \/ Recheck(r) \/ Remove(r)
    PROVE  UNCHANGED Inside
<1> USE DEF At, Goto, Retry, GiveUp, DoorInv, TypeOK, Inside
<1>1. CASE Start(r)
  BY <1>1 DEF Start
<1>2. CASE ReadOwner(r)
  BY <1>2 DEF ReadOwner
<1>3. CASE Open(r) \/ Flock(r)
  BY <1>3 DEF Open, Flock
<1>4. CASE Parse(r) \/ Recheck(r)
  BY <1>4 DEF Parse, Recheck
<1>5. CASE Remove(r)
  BY <1>5 DEF Remove
<1> QED  BY <1>1, <1>2, <1>3, <1>4, <1>5

\* At most one run is between acquireLock and release, however many contend
\* for a dead owner's lock and die on the way: the lock file implements DoorMutex.
THEOREM LockIsMutex == Spec => IsMutex
<1>1. Init => Mutex!Init
  BY DEF Init, Inside, Mutex!Init
<1>2. DoorInv /\ [Next]_vars => [Mutex!Next]_Inside
  <2> SUFFICES ASSUME DoorInv, [Next]_vars PROVE [Mutex!Next]_Inside
    OBVIOUS
  <2>1. ASSUME NEW r \in Runs, Start(r) \/ Acquire(r) \/ Release(r) \/ Dies(r)
        PROVE  Mutex!Enter(r) \/ Mutex!Leave(r) \/ UNCHANGED Inside
    BY <2>1, PublishEnters, LeavesOrStays, RecoveryStutters DEF Acquire, Release
  <2>2. CASE UNCHANGED vars
    BY <2>2 DEF vars, Inside
  <2> QED  BY <2>1, <2>2 DEF Next, Mutex!Next
<1> QED  BY <1>1, <1>2, AlwaysDoorInv, PTL DEF Spec, IsMutex, Mutex!Spec

-----------------------------------------------------------------------------
(***************************************************************************)
(* The files: what is behind the frontier was handed over, what is claimed *)
(* is ahead of it.                                                         *)
(***************************************************************************)

\* What every version on disk or in a run is.
VersionsOK ==
    /\ manners \in Manners
    /\ files \subseteq Version /\ claim \subseteq Version
    /\ matched \subseteq Version /\ handed \subseteq Version
    /\ \A v, w \in files : v.path = w.path => v = w
    /\ clock \in 1..(writes + 1) /\ writes \in 0..MaxWrites
    /\ last \in [Paths -> 0..clock]
    /\ \A v \in files \cup claim \cup matched : v.mtime <= last[v.path]

FrontierOK ==
    /\ frontier \in [mtime : 0..clock, seen : SUBSET Paths, through : {0} \cup Paths]
    /\ \A p \in frontier.seen : p > frontier.through /\ frontier.mtime <= last[p]
    /\ frontier.through # 0 => frontier.mtime < clock
    /\ \A v \in handed : ~IsNew(v)
    /\ \A v \in claim : IsNew(v)
    /\ \A v, w \in claim : v.path = w.path => v = w

\* Where a run is, with the claim and the counts it finds there.
RunOK ==
    /\ step \in {"idle", "scan", "bind", "hydrate", "launch", "await"}
    /\ listing \subseteq Paths /\ paused \in BOOLEAN /\ bound \in BOOLEAN
    /\ fires \in 0..MaxFires
    /\ claim # {} => fires < MaxFires
    /\ claim = {} => bound
    /\ step = "scan" => claim = {}
    /\ step \notin {"idle", "scan"} => claim # {}
    /\ step # "scan" => matched = {} /\ listing = {}
    /\ \A v \in matched : IsNew(v) /\ v.path \notin listing
    /\ \A v, w \in matched : v.path = w.path => v = w

LaunchesOK ==
    /\ \A r \in receipt : r = [key |-> r.key, outcome |-> r.outcome]
    /\ \A l \in launched :
           \/ claim # {} /\ l.key = Key /\ OutcomeOf(Key) # {}
           \/ l.key[2] \subseteq handed /\ OutcomeOf(l.key) \subseteq {"succeeded", "failed"}
    /\ OneLaunchPerVersion

QuietOK ==
    "quiet" \in manners =>
        /\ NothingIsMissed
        /\ step = "scan" => \A v \in files : IsNew(v) => v.path \in listing \/ v \in matched
        /\ claim # {} =>
               \A v \in files : Wanted(v) /\ IsNew(v) /\ v \notin claim =>
                   \A w \in claim : w.mtime <= v.mtime /\ (w.mtime = v.mtime => w.path # v.path)

DoorIInv == VersionsOK /\ FrontierOK /\ RunOK /\ LaunchesOK /\ QuietOK

-----------------------------------------------------------------------------
LEMMA LeastNatural ==
    ASSUME NEW S \in SUBSET Nat, S # {}
    PROVE  \E m \in S : \A n \in S : m <= n
<1> DEFINE R == {ss \in Nat \X Nat : ss[1] < ss[2]}
<1>1. IsWellFoundedOn(R, Nat)
  BY NatLessThanWellFounded DEF OpToRel
<1>2. PICK m \in S : \A n \in S : ~(<<n, m>> \in R)
  <2> HIDE DEF R
  <2> QED  BY <1>1, WFMin
<1>3. ASSUME NEW n \in S PROVE m <= n
  <2>1. m \in Nat /\ n \in Nat /\ ~(n < m)
    BY <1>2
  <2> QED  BY <2>1
<1> HIDE DEF R
<1> QED  BY <1>3

\* The sizes of things, apart from the rest of the assumption.
LEMMA DoorBounds ==
    /\ \A p \in Paths : p \in Nat /\ p > 0
    /\ MaxWrites \in Nat /\ MaxFires \in Nat /\ MaxFires > 0 /\ MaxRunDeaths \in Nat
    /\ \A v \in Version : v.path \in Paths /\ v.path \in Nat /\ v.path > 0 /\ v.mtime \in Nat
<1>1. Paths \subseteq Nat \ {0} /\ MaxFires \in Nat \ {0}
      /\ {MaxWrites, MaxRunDeaths, MaxRetries} \subseteq Nat
    BY DoorAssumption
<1>2. MaxWrites \in Nat /\ MaxRunDeaths \in Nat BY <1>1
<1>3. \A v \in Version : v.path \in Paths /\ v.mtime \in 1..(MaxWrites + 1) BY DEF Version
<1>4. \A p \in Paths : p \in Nat /\ p > 0 BY <1>1
<1>5. \A m \in 1..(MaxWrites + 1) : m \in Nat BY <1>2
<1>6. \A v \in Version : v.path \in Nat /\ v.path > 0 /\ v.mtime \in Nat BY <1>3, <1>4, <1>5
<1> QED BY <1>1, <1>2, <1>3, <1>4, <1>6

-----------------------------------------------------------------------------
(* The parts of the invariant that a step leaves alone.                    *)

LEMMA RunOnlyKeeps ==
    ASSUME VersionsOK, FrontierOK, LaunchesOK,
           UNCHANGED <<manners, files, clock, writes, last, frontier, claim, handed, receipt,
                       launched>>,
           matched' \subseteq matched
    PROVE  VersionsOK' /\ FrontierOK' /\ LaunchesOK'
<1>1. VersionsOK' BY DEF VersionsOK, Version
<1>2. FrontierOK' BY DEF FrontierOK, IsNew
<1>3. LaunchesOK' BY DEF LaunchesOK, OneLaunchPerVersion, OutcomeOf, Key
<1> QED BY <1>1, <1>2, <1>3

LEMMA QuietKept ==
    ASSUME QuietOK,
           UNCHANGED <<manners, files, frontier, claim, handed>>,
           step' # "scan"
    PROVE  QuietOK'
BY DEF QuietOK, NothingIsMissed, IsNew, Wanted

-----------------------------------------------------------------------------
(* One lemma for each action of a run.                                     *)

LEMMA LeavesKeep ==
    ASSUME DoorIInv,
           \/ \E p \in Paths : LoadFails(p)
           \/ Bind \/ Hydrate \/ Indeterminate \/ RunDies
    PROVE  DoorIInv'
<1> USE DEF DoorIInv
<1>1. /\ UNCHANGED <<manners, files, clock, writes, last, frontier, claim, handed, receipt,
                     launched>>
      /\ matched' \subseteq matched
    BY DEF LoadFails, Bind, Hydrate, Indeterminate, RunDies, Idle, disk
<1>2. VersionsOK' /\ FrontierOK' /\ LaunchesOK' BY <1>1, RunOnlyKeeps
<1>3. RunOK'
    BY <1>1 DEF RunOK, LoadFails, Bind, Hydrate, Indeterminate, RunDies, Idle, disk, IsNew
<1>4. step' # "scan"
    BY DEF RunOK, LoadFails, Bind, Hydrate, Indeterminate, RunDies, Idle, disk
<1>5. QuietOK' BY <1>1, <1>4, QuietKept
<1> QED BY <1>2, <1>3, <1>5

LEMMA BeginKeeps ==
    ASSUME DoorIInv, Begin
    PROVE  DoorIInv'
<1> USE DEF DoorIInv
<1>1. /\ UNCHANGED <<manners, files, clock, writes, last, frontier, claim, handed, receipt,
                     launched>>
      /\ matched' \subseteq matched
    BY DEF Begin, disk
<1>2. VersionsOK' /\ FrontierOK' /\ LaunchesOK' BY <1>1, RunOnlyKeeps
<1>3. RunOK'
  <2>1. \A v \in files : v.path \in Paths BY DEF VersionsOK, Version
  <2>2. listing' \subseteq Paths BY <2>1 DEF Begin, RunOK
  <2> QED BY <1>1, <2>2 DEF RunOK, Begin, disk
<1>5. QuietOK' BY <1>1 DEF QuietOK, Begin, NothingIsMissed, IsNew, Wanted, disk
<1> QED BY <1>2, <1>3, <1>5

LEMMA LoadKeeps ==
    ASSUME DoorIInv, NEW p \in Paths, Load(p)
    PROVE  DoorIInv'
<1> USE DEF DoorIInv
<1>1. UNCHANGED <<manners, files, clock, writes, last, frontier, claim, handed, receipt,
                  launched, step, fires, paused, bound>>
    BY DEF Load, disk
<1>2. matched' = matched \cup {v \in Of(p) : IsNew(v)} /\ listing' = listing \ {p}
      /\ step = "scan" /\ p \in listing
    BY DEF Load
<1>3. VersionsOK' BY <1>1, <1>2 DEF VersionsOK, Of
<1>4. FrontierOK' BY <1>1 DEF FrontierOK, IsNew
<1>5. LaunchesOK' BY <1>1 DEF LaunchesOK, OneLaunchPerVersion, OutcomeOf, Key
<1>6. RunOK'
  <2>1. \A v \in matched' : IsNew(v) /\ v.path \notin listing'
      BY <1>2 DEF RunOK, Of
  <2>2. \A v, w \in matched' : v.path = w.path => v = w
      BY <1>2 DEF RunOK, Of, VersionsOK
  <2>3. \A v \in matched' : IsNew(v)' BY <2>1, <1>1 DEF IsNew
  <2> QED BY <1>1, <1>2, <2>1, <2>2, <2>3 DEF RunOK
<1>7. QuietOK' BY <1>1, <1>2 DEF QuietOK, NothingIsMissed, IsNew, Wanted, Of
<1> QED BY <1>3, <1>4, <1>5, <1>6, <1>7

LEMMA PrepareClaimKeeps ==
    ASSUME DoorIInv, PrepareClaim
    PROVE  DoorIInv'
<1> USE DEF DoorIInv
<1>1. UNCHANGED <<manners, files, clock, writes, last, receipt, launched, handed, frontier, fires>>
    BY DEF PrepareClaim, disk
<1>2. step = "scan" /\ listing = {} /\ claim = {} BY DEF PrepareClaim, RunOK
<1>3. matched' = {} /\ listing' = {} /\ step' # "scan" BY DEF PrepareClaim, Idle
<1>4. CASE claim' = claim
  <2>1. VersionsOK' /\ FrontierOK' /\ LaunchesOK' BY <1>1, <1>3, <1>4, RunOnlyKeeps
  <2>2. QuietOK' BY <1>1, <1>3, <1>4, QuietKept
  <2>3. RunOK' BY <1>1, <1>2, <1>3, <1>4 DEF RunOK, PrepareClaim, Idle, disk
  <2> QED BY <2>1, <2>2, <2>3
<1>5. CASE claim' # claim
  <2>1. /\ claim' = {v \in matched : Wanted(v)} /\ claim' # {} /\ ~Trips
        /\ bound' = TRUE /\ step' = "bind" /\ UNCHANGED paused
      BY <1>2, <1>5 DEF PrepareClaim, disk
  <2>2. VersionsOK' BY <1>1, <1>3, <2>1 DEF VersionsOK
  <2>3. FrontierOK' BY <1>1, <2>1 DEF FrontierOK, RunOK, IsNew
  <2>4. fires < MaxFires BY <2>1, DoorAssumption DEF RunOK, Trips
  <2>7. RunOK' BY <1>1, <1>3, <2>1, <2>4 DEF RunOK, IsNew
  <2>5. LaunchesOK' BY <1>1, <1>2, <2>1 DEF LaunchesOK, OneLaunchPerVersion, OutcomeOf
  <2>6. QuietOK' BY <1>1, <1>2, <1>3, <2>1 DEF QuietOK, NothingIsMissed, IsNew, Wanted
  <2> QED BY <2>2, <2>3, <2>5, <2>6, <2>7
<1> QED BY <1>4, <1>5

LEMMA AgentRunKeeps ==
    ASSUME DoorIInv, AgentRun
    PROVE  DoorIInv'
<1> USE DEF DoorIInv
<1>1. UNCHANGED <<manners, files, clock, writes, last, frontier, claim, bound, fires, paused, handed>>
    BY DEF AgentRun, disk
<1>2. step = "launch" /\ claim # {} /\ matched = {} /\ listing = {} BY DEF AgentRun, RunOK
<1>3. matched' = {} /\ listing' = {} /\ step' \in {"idle", "await"} BY <1>2 DEF AgentRun, Idle
<1>4. VersionsOK' BY <1>1, <1>2, <1>3 DEF VersionsOK
<1>5. FrontierOK' BY <1>1 DEF FrontierOK, IsNew
<1>6. RunOK' BY <1>1, <1>2, <1>3 DEF RunOK
<1>7. QuietOK' BY <1>1, <1>3, QuietKept
<1>8. LaunchesOK'
  <2>1. CASE UNCHANGED <<receipt, launched>>
      BY <1>1, <2>1 DEF LaunchesOK, OneLaunchPerVersion, OutcomeOf, Key
  <2>2. CASE ~UNCHANGED <<receipt, launched>>
    <3> DEFINE r == [key |-> Key, outcome |-> "pending"]
               n == [key |-> Key, nth |-> Cardinality(launched)]
    <3>1. /\ OutcomeOf(Key) = {}
          /\ receipt' = receipt \cup {r} /\ launched' = launched \cup {n}
        BY <2>2 DEF AgentRun
    <3>2. Key' = Key BY <1>1 DEF Key
    <3>3. r \in receipt' /\ r.key = Key /\ n.key = Key /\ n.key[2] = claim BY <3>1 DEF Key
    <3>4. OutcomeOf(Key)' # {} BY <3>2, <3>3 DEF OutcomeOf
    <3>5. \A l \in launched :
              l.key[2] \subseteq handed /\ OutcomeOf(l.key) \subseteq {"succeeded", "failed"}
        BY <3>1 DEF LaunchesOK
    <3>6. \A v \in claim : v \notin handed BY DEF FrontierOK
    <3>7. \A l \in launched : l.key # Key \/ claim = {} BY <3>5, <3>6 DEF Key
    <3>8. \A l \in launched : OutcomeOf(l.key)' \subseteq {"succeeded", "failed"}
      <4> SUFFICES ASSUME NEW l \in launched PROVE OutcomeOf(l.key)' = OutcomeOf(l.key)
          BY <3>5
      <4>1. l.key # r.key BY <3>7, <1>2, <3>3
      <4> HIDE DEF r
      <4> QED BY <4>1, <3>1 DEF OutcomeOf
    <3>9. \A l \in launched' :
              \/ claim # {} /\ l.key = Key /\ OutcomeOf(Key)' # {}
              \/ l.key[2] \subseteq handed /\ OutcomeOf(l.key)' \subseteq {"succeeded", "failed"}
        BY <3>1, <3>3, <3>4, <3>5, <3>8, <1>2
    <3>10. OneLaunchPerVersion'
        BY <3>1, <3>3, <3>5, <3>6 DEF OneLaunchPerVersion, LaunchesOK
    <3>11. \A s \in receipt' : s = [key |-> s.key, outcome |-> s.outcome]
        BY <3>1 DEF LaunchesOK
    <3> QED BY <3>9, <3>10, <3>11, <3>2, <1>1 DEF LaunchesOK
  <2> QED BY <2>1, <2>2
<1> QED BY <1>4, <1>5, <1>6, <1>7, <1>8

-----------------------------------------------------------------------------
(* The outcome moves the frontier past the claim, and past nothing else.   *)

LEMMA LastTimeExists ==
    ASSUME VersionsOK, claim # {}
    PROVE  /\ LastTime \in Nat
           /\ \A v \in claim : v.mtime <= LastTime
           /\ \E v \in claim : v.mtime = LastTime
<1> DEFINE T == {v.mtime : v \in claim}
           Bound(n) == \A v \in claim : v.mtime <= n
<1>1. \A v \in claim : v.mtime \in 1..(MaxWrites + 1) BY DEF VersionsOK, Version
<1>2. MaxWrites + 1 \in Nat /\ Bound(MaxWrites + 1) BY <1>1, DoorAssumption
<1>3. PICK n \in {k \in Nat : Bound(k)} : \A m \in {k \in Nat : Bound(k)} : n <= m
  <2> HIDE DEF Bound
  <2>1. {k \in Nat : Bound(k)} \in SUBSET Nat /\ {k \in Nat : Bound(k)} # {} BY <1>2
  <2> QED BY <2>1, LeastNatural
<1>4. \E v \in claim : v.mtime = n
  <2> SUFFICES ASSUME \A v \in claim : v.mtime < n PROVE FALSE
      BY <1>1, <1>3
  <2>1. n - 1 \in Nat BY <1>1, <1>3
  <2>2. Bound(n - 1) BY <1>1, <2>1
  <2> QED BY <2>1, <2>2, <1>3
<1>5. n \in T /\ \A v \in claim : v.mtime <= n BY <1>3, <1>4
<1>6. /\ LastTime \in T /\ \A v \in claim : v.mtime <= LastTime
    BY <1>5 DEF LastTime
<1> QED BY <1>1, <1>6

LEMMA NewAfterAdvance ==
    ASSUME VersionsOK, FrontierOK, claim # {}, frontier' = Advanced, NEW v \in Version
    PROVE  /\ v \in handed \cup claim => ~IsNew(v)'
           /\ IsNew(v)' => IsNew(v)
           /\ IsNew(v) /\ (\A w \in claim : w.mtime <= v.mtime /\ (w.mtime = v.mtime => w.path # v.path))
                  => IsNew(v)'
<1>1. /\ LastTime \in Nat
      /\ \A w \in claim : w.mtime <= LastTime
      /\ \E w \in claim : w.mtime = LastTime
    BY LastTimeExists
<1>2. \A w \in claim : w.mtime \in Nat /\ w.path \in Nat \ {0} /\ IsNew(w)
    BY DoorBounds DEF VersionsOK, FrontierOK
<1>3. v.mtime \in Nat /\ v.path \in Nat \ {0} BY DoorBounds
<1>4. frontier.mtime \in Nat /\ frontier.through \in Nat /\ clock \in Nat
    BY DoorBounds DEF FrontierOK, VersionsOK
<1>5. v \in handed => ~IsNew(v) BY DEF FrontierOK
<1>6. CASE LastTime = frontier.mtime
  <2>1. frontier' = [frontier EXCEPT !.seen = @ \cup AtLastTime] BY <1>6 DEF Advanced
  <2>2. /\ frontier'.mtime = frontier.mtime /\ frontier'.through = frontier.through
        /\ frontier'.seen = frontier.seen \cup AtLastTime
      BY <2>1 DEF FrontierOK
  <2>3. \A w \in claim : w.mtime = LastTime BY <1>1, <1>2, <1>4, <1>6 DEF IsNew
  <2>4. v \in claim => v.path \in AtLastTime BY <2>3 DEF AtLastTime
  <2>5. v.path \in AtLastTime => \E w \in claim : w.mtime = LastTime /\ w.path = v.path
      BY DEF AtLastTime
  <2> HIDE DEF LastTime, AtLastTime
  <2> QED BY <1>1, <1>2, <1>3, <1>4, <1>5, <1>6, <2>2, <2>3, <2>4, <2>5 DEF IsNew
<1>7. CASE LastTime # frontier.mtime
  <2>1. frontier' = OpenAt(LastTime, AtLastTime) BY <1>7 DEF Advanced
  <2>2. /\ frontier'.mtime = LastTime /\ frontier'.through = 0
        /\ frontier'.seen = AtLastTime
      BY <2>1 DEF OpenAt
  <2>3. LastTime > frontier.mtime BY <1>1, <1>2, <1>4, <1>7 DEF IsNew
  <2>4. v \in claim /\ v.mtime = LastTime => v.path \in AtLastTime BY DEF AtLastTime
  <2>5. v.path \in AtLastTime => \E w \in claim : w.mtime = LastTime /\ w.path = v.path
      BY DEF AtLastTime
  <2>6. /\ v \in handed \cup claim => ~IsNew(v)'
        /\ IsNew(v)' => IsNew(v)
      BY <1>1, <1>2, <1>3, <1>4, <1>5, <2>2, <2>3, <2>4 DEF IsNew
  <2>7. ASSUME \A w \in claim : w.mtime <= v.mtime /\ (w.mtime = v.mtime => w.path # v.path)
        PROVE  IsNew(v)'
      BY <1>1, <1>2, <1>3, <2>2, <2>5, <2>7 DEF IsNew
  <2> QED BY <2>6, <2>7
<1> QED BY <1>6, <1>7

LEMMA PersistKeeps ==
    ASSUME DoorIInv, Persist
    PROVE  DoorIInv'
<1> USE DEF DoorIInv
<1>1. UNCHANGED <<manners, files, clock, writes, last, receipt, launched, paused>>
    BY DEF Persist
<1>2. claim # {} /\ claim' = {} /\ bound' = TRUE /\ handed' = handed \cup claim
      /\ fires' = fires + 1 /\ step' = "idle" /\ matched' = {} /\ listing' = {}
    BY DEF Persist, RunOK, Idle
<1>3. frontier' = Advanced BY DEF Persist
<1>4. VersionsOK' BY <1>1, <1>2 DEF VersionsOK
<1>5. RunOK' BY <1>1, <1>2, DoorBounds DEF RunOK
<1>6. LaunchesOK'
  <2>1. OutcomeOf(Key) \subseteq {"succeeded", "failed"} BY DEF Persist, Durable
  <2>2. \A l \in launched :
            l.key[2] \subseteq handed' /\ OutcomeOf(l.key) \subseteq {"succeeded", "failed"}
      BY <1>2, <2>1 DEF LaunchesOK, Key
  <2>3. \A k : OutcomeOf(k)' = OutcomeOf(k) BY <1>1 DEF OutcomeOf
  <2> QED BY <1>1, <2>2, <2>3 DEF LaunchesOK, OneLaunchPerVersion
<1>7. FrontierOK'
  <2>1. \A v \in handed' : ~IsNew(v)'
      BY <1>2, <1>3, NewAfterAdvance DEF VersionsOK
  <2>2. /\ LastTime \in Nat
        /\ \A w \in claim : w.mtime <= LastTime
        /\ \E w \in claim : w.mtime = LastTime
      BY <1>2, LastTimeExists
  <2>3. \A p \in AtLastTime : p \in Paths /\ LastTime <= last[p] /\
            (LastTime = frontier.mtime => p > frontier.through)
      BY <2>2, DoorBounds DEF AtLastTime, VersionsOK, Version, FrontierOK, IsNew
  <2>4. LastTime \in 0..clock
    <3>1. PICK w \in claim : w.mtime = LastTime BY <2>2
    <3>2. LastTime <= last[w.path] /\ last[w.path] \in 0..clock /\ clock \in Nat
        BY <3>1, DoorBounds DEF VersionsOK
    <3> QED BY <2>2, <3>2
  <2>5. /\ frontier' \in [mtime : 0..clock, seen : SUBSET Paths, through : {0} \cup Paths]
        /\ \A p \in frontier'.seen : p > frontier'.through /\ frontier'.mtime <= last[p]
        /\ frontier'.through # 0 => frontier'.mtime < clock
    <3>1. CASE LastTime = frontier.mtime
      <4>1. frontier' = [frontier EXCEPT !.seen = @ \cup AtLastTime] BY <1>3, <3>1 DEF Advanced
      <4> HIDE DEF AtLastTime
      <4> QED BY <2>3, <3>1, <4>1 DEF FrontierOK
    <3>2. CASE LastTime # frontier.mtime
      <4>1. frontier' = OpenAt(LastTime, AtLastTime) BY <1>3, <3>2 DEF Advanced
      <4>2. \A p \in AtLastTime : p > 0 BY <2>3, DoorBounds
      <4> HIDE DEF AtLastTime
      <4> QED BY <2>3, <2>4, <4>1, <4>2 DEF OpenAt
    <3> QED BY <3>1, <3>2
  <2> QED BY <1>1, <1>2, <2>1, <2>5 DEF FrontierOK
<1>8. QuietOK'
  <2> SUFFICES ASSUME "quiet" \in manners, NEW v \in files, Wanted(v), v \notin handed'
               PROVE  IsNew(v)'
      BY <1>1, <1>2 DEF QuietOK, NothingIsMissed, Wanted
  <2>1. v \in Version BY DEF VersionsOK
  <2>2. IsNew(v) /\ v \notin claim BY <1>2 DEF QuietOK, NothingIsMissed
  <2> QED BY <1>2, <1>3, <2>1, <2>2, NewAfterAdvance DEF QuietOK
<1> QED BY <1>4, <1>5, <1>6, <1>7, <1>8

-----------------------------------------------------------------------------
(* The directory, Plant, the hour and the operator.                        *)

LEMMA WriteKeeps ==
    ASSUME DoorIInv, NEW p \in Paths, Write(p)
    PROVE  DoorIInv'
<1> USE DEF DoorIInv
<1>1. UNCHANGED <<manners, frontier, claim, bound, fires, paused, receipt, step, listing, matched,
                  launched, handed>>
    BY DEF Write, disk
<1>2. PICK t \in {clock, clock + 1} :
          /\ last[p] < t
          /\ clock' = t /\ last' = [last EXCEPT ![p] = t]
          /\ files' = (files \ Of(p)) \cup {[path |-> p, mtime |-> t, id |-> writes + 1]}
          /\ writes < MaxWrites /\ writes' = writes + 1
    BY DEF Write
<1> DEFINE n == [path |-> p, mtime |-> t, id |-> writes + 1]
<1>3. /\ clock \in Nat /\ t \in Nat /\ writes \in Nat /\ MaxWrites \in Nat /\ p \in Nat \ {0}
      /\ clock >= 1 /\ clock <= writes + 1 /\ clock <= t /\ writes <= MaxWrites
    BY DoorBounds DEF VersionsOK
<1>4. n \in Version BY <1>2, <1>3 DEF Version
<1>5. n.path = p /\ n.mtime = t OBVIOUS
<1>6. /\ files' = (files \ Of(p)) \cup {n} /\ last' = [last EXCEPT ![p] = t]
      /\ \A q \in Paths : last[q] \in 0..clock
    BY <1>2 DEF VersionsOK
<1>7. /\ last' \in [Paths -> 0..clock']
      /\ last'[p] = t /\ \A q \in Paths : last[q] <= last'[q]
    BY <1>2, <1>3, <1>6 DEF VersionsOK
<1> HIDE DEF n
<1>8. VersionsOK'
  <2>1. files' \subseteq Version BY <1>4, <1>6 DEF VersionsOK
  <2>2. \A v, w \in files' : v.path = w.path => v = w BY <1>5, <1>6 DEF VersionsOK, Of
  <2>3. \A v \in files \cup claim \cup matched :
            v.path \in Paths /\ v.mtime \in Nat /\ last[v.path] \in Nat /\ v.mtime <= last[v.path]
      BY <1>3, <1>6, DoorBounds DEF VersionsOK
  <2>4. \A q \in Paths : last'[q] \in Nat BY <1>2, <1>3, <1>7
  <2>5. \A v \in files' \cup claim \cup matched : v.mtime <= last'[v.path]
      BY <1>3, <1>5, <1>6, <1>7, <2>3, <2>4
  <2>6. clock' \in 1..(writes' + 1) /\ writes' \in 0..MaxWrites BY <1>2, <1>3
  <2> QED BY <1>1, <1>7, <2>1, <2>2, <2>5, <2>6 DEF VersionsOK
<1>9. FrontierOK'
  <2>1. frontier.mtime \in Nat /\ frontier.mtime <= t /\ (frontier.mtime < clock => frontier.mtime < t)
      BY <1>3 DEF FrontierOK
  <2>2. \A q \in frontier.seen : frontier.mtime <= last'[q]
      BY <1>3, <1>6, <1>7, <2>1 DEF FrontierOK
  <2> QED BY <1>1, <1>2, <1>3, <2>1, <2>2 DEF FrontierOK, IsNew
<1>10. RunOK' BY <1>1 DEF RunOK, IsNew
<1>11. LaunchesOK' BY <1>1 DEF LaunchesOK, OneLaunchPerVersion, OutcomeOf, Key
<1>12. QuietOK'
  <2>1. IsNew(n)
    <3>1. frontier.mtime \in Nat /\ frontier.mtime <= t BY <1>3 DEF FrontierOK
    <3>2. CASE frontier.mtime < t BY <1>5, <3>1, <3>2 DEF IsNew
    <3>3. CASE frontier.mtime = t
      <4>1. frontier.through = 0 BY <1>3, <3>3 DEF FrontierOK
      <4>2. p \notin frontier.seen BY <1>2, <1>3, <1>6, <3>3 DEF FrontierOK
      <4> QED BY <1>3, <1>5, <3>3, <4>1, <4>2 DEF IsNew
    <3> QED BY <1>3, <3>1, <3>2, <3>3
  <2>2. \A w \in claim : w.mtime <= t /\ (w.mtime = t => w.path # p)
      BY <1>2, <1>3, <1>6, DoorBounds DEF VersionsOK
  <2>3. "quiet" \in manners => step # "scan" BY DEF Write, MayWrite
  <2>4. \A v : IsNew(v)' = IsNew(v) BY <1>1 DEF IsNew
  <2>5. \A v \in files' : v \in files \/ v = n BY <1>6
  <2> QED BY <1>1, <1>5, <2>1, <2>2, <2>3, <2>4, <2>5 DEF QuietOK, NothingIsMissed, Wanted
<1> QED BY <1>8, <1>9, <1>10, <1>11, <1>12

LEMMA DeleteKeeps ==
    ASSUME DoorIInv, NEW p \in Paths, Delete(p)
    PROVE  DoorIInv'
<1> USE DEF DoorIInv
<1>1. UNCHANGED <<manners, clock, last, frontier, claim, bound, fires, paused, receipt, step, listing,
                  matched, launched, handed>>
      /\ files' \subseteq files /\ writes < MaxWrites /\ writes' = writes + 1
    BY DEF Delete, disk
<1>2. VersionsOK'
  <2>1. clock \in 1..(writes' + 1) /\ writes' \in 0..MaxWrites
      BY <1>1, DoorBounds DEF VersionsOK
  <2> QED BY <1>1, <2>1 DEF VersionsOK, Version
<1>3. FrontierOK' BY <1>1 DEF FrontierOK, IsNew
<1>4. RunOK' BY <1>1 DEF RunOK, IsNew
<1>5. LaunchesOK' BY <1>1 DEF LaunchesOK, OneLaunchPerVersion, OutcomeOf, Key
<1>6. QuietOK' BY <1>1 DEF QuietOK, NothingIsMissed, IsNew, Wanted
<1> QED BY <1>2, <1>3, <1>4, <1>5, <1>6

LEMMA AgentEndsKeeps ==
    ASSUME DoorIInv, AgentEnds \/ RunnerDies
    PROVE  DoorIInv'
<1> USE DEF DoorIInv
<1>1. UNCHANGED <<manners, files, clock, writes, last, frontier, claim, bound, fires, paused, step,
                  listing, matched, launched, handed>>
    BY DEF AgentEnds, RunnerDies, PendingBecomes, disk
<1>2. VersionsOK' BY <1>1 DEF VersionsOK
<1>3. FrontierOK' BY <1>1 DEF FrontierOK, IsNew
<1>4. RunOK' BY <1>1 DEF RunOK, IsNew
<1>5. QuietOK' BY <1>1 DEF QuietOK, NothingIsMissed, IsNew, Wanted
<1>6. PICK r \in receipt, o \in {"succeeded", "failed", "lost"} :
          /\ r.outcome = "pending"
          /\ receipt' = (receipt \ {r}) \cup {[r EXCEPT !.outcome = o]}
    BY DEF AgentEnds, RunnerDies, PendingBecomes
<1> DEFINE e == [r EXCEPT !.outcome = o]
<1>7. e = [key |-> r.key, outcome |-> o]
  <2>1. r = [key |-> r.key, outcome |-> r.outcome] BY DEF LaunchesOK
  <2> QED BY <2>1
<1>8. receipt' = (receipt \ {r}) \cup {e} /\ e.key = r.key /\ e.outcome = o BY <1>6, <1>7
<1> HIDE DEF e
<1>9. \A k : /\ OutcomeOf(k) # {} => OutcomeOf(k)' # {}
           /\ OutcomeOf(k) \subseteq {"succeeded", "failed"} =>
                  OutcomeOf(k)' \subseteq {"succeeded", "failed"}
    BY <1>6, <1>8 DEF OutcomeOf
<1>10. LaunchesOK'
  <2>1. Key' = Key BY <1>1 DEF Key
  <2>2. \A l \in launched :
            \/ claim # {} /\ l.key = Key /\ OutcomeOf(Key)' # {}
            \/ l.key[2] \subseteq handed /\ OutcomeOf(l.key)' \subseteq {"succeeded", "failed"}
    <3> SUFFICES ASSUME NEW l \in launched
                 PROVE  \/ claim # {} /\ l.key = Key /\ OutcomeOf(Key)' # {}
                        \/ l.key[2] \subseteq handed /\ OutcomeOf(l.key)' \subseteq {"succeeded", "failed"}
        OBVIOUS
    <3>1. CASE claim # {} /\ l.key = Key /\ OutcomeOf(Key) # {}
      <4>0. OutcomeOf(l.key) # {} BY <3>1
      <4>1. OutcomeOf(l.key)' # {} BY <1>8, <4>0 DEF OutcomeOf
      <4>2. OutcomeOf(Key)' = OutcomeOf(l.key)' BY <2>1, <3>1 DEF OutcomeOf
      <4> QED BY <3>1, <4>1, <4>2
    <3>2. CASE l.key[2] \subseteq handed /\ OutcomeOf(l.key) \subseteq {"succeeded", "failed"}
        BY <1>9, <3>2
    <3> QED BY <3>1, <3>2 DEF LaunchesOK
  <2>3. OneLaunchPerVersion' BY <1>1 DEF OneLaunchPerVersion, LaunchesOK
  <2>4. \A s \in receipt' : s = [key |-> s.key, outcome |-> s.outcome]
      BY <1>7, <1>8 DEF LaunchesOK
  <2> QED BY <1>1, <2>1, <2>2, <2>3, <2>4 DEF LaunchesOK
<1> QED BY <1>2, <1>3, <1>4, <1>5, <1>10

LEMMA HourKeeps ==
    ASSUME DoorIInv, WindowPasses \/ ReArm
    PROVE  DoorIInv'
<1> USE DEF DoorIInv
<1>1. UNCHANGED <<manners, files, clock, writes, last, frontier, claim, bound, step, listing, matched,
                  receipt, launched, handed>>
    BY DEF WindowPasses, ReArm
<1>2. VersionsOK' /\ FrontierOK' /\ LaunchesOK' BY <1>1, RunOnlyKeeps
<1>3. RunOK'
  <2>1. UNCHANGED bound /\ paused' \in BOOLEAN BY DEF WindowPasses, ReArm, RunOK
  <2>2. fires' \in 0..MaxFires /\ (fires' = fires \/ fires' = 0)
      BY DoorBounds DEF WindowPasses, ReArm, RunOK
  <2>3. claim # {} => fires' < MaxFires BY <2>2, DoorBounds DEF RunOK
  <2> QED BY <1>1, <2>1, <2>2, <2>3 DEF RunOK, IsNew
<1>4. QuietOK' BY <1>1 DEF QuietOK, NothingIsMissed, IsNew, Wanted
<1> QED BY <1>2, <1>3, <1>4

LEMMA DoorStutterKeeps ==
    ASSUME DoorIInv, UNCHANGED doorVars
    PROVE  DoorIInv'
<1> USE DEF DoorIInv, doorVars, disk
<1>1. VersionsOK' /\ FrontierOK' /\ LaunchesOK' BY RunOnlyKeeps
<1>2. RunOK' BY DEF RunOK, IsNew
<1>3. QuietOK' BY DEF QuietOK, NothingIsMissed, IsNew, Wanted
<1> QED BY <1>1, <1>2, <1>3

LEMMA DoorStepKeeps == DoorIInv /\ [DoorNext]_doorVars => DoorIInv'
<1> SUFFICES ASSUME DoorIInv, [DoorNext]_doorVars PROVE DoorIInv'
    OBVIOUS
<1>1. CASE \E p \in Paths : Write(p) \/ Delete(p) \/ LoadFails(p)
    BY <1>1, WriteKeeps, DeleteKeeps, LeavesKeep
<1>2. CASE Begin \/ (\E p \in Paths : Load(p)) \/ PrepareClaim
    BY <1>2, BeginKeeps, LoadKeeps, PrepareClaimKeeps
<1>3. CASE Bind \/ Hydrate \/ Indeterminate \/ RunDies
    BY <1>3, LeavesKeep
<1>4. CASE AgentRun \/ Persist \/ AgentEnds \/ RunnerDies
    BY <1>4, AgentRunKeeps, PersistKeeps, AgentEndsKeeps
<1>5. CASE WindowPasses \/ ReArm \/ UNCHANGED doorVars
    BY <1>5, HourKeeps, DoorStutterKeeps
<1> QED BY <1>1, <1>2, <1>3, <1>4, <1>5 DEF DoorNext, Run

-----------------------------------------------------------------------------
(* The states a run may find at first, an earlier version's included.      *)

LEMMA FreshIsGood ==
    ASSUME DoorInit, Fresh
    PROVE  DoorIInv
<1> USE DEF DoorInit, Fresh
<1>1. VersionsOK BY DoorAssumption DEF VersionsOK
<1>2. FrontierOK BY DoorAssumption DEF FrontierOK, OpenAt
<1>3. RunOK
  <2>1. fires \in 0..MaxFires BY DoorBounds
  <2> QED BY <2>1 DEF RunOK
<1>4. LaunchesOK BY DEF LaunchesOK, OneLaunchPerVersion
<1>5. QuietOK BY DEF QuietOK, NothingIsMissed
<1> QED BY <1>1, <1>2, <1>3, <1>4, <1>5 DEF DoorIInv

LEMMA MigratedIsGood ==
    ASSUME DoorInit, Migrated
    PROVE  DoorIInv
<1>1. /\ Earlier \in Nat \ {0} /\ Earlier <= MaxWrites /\ 1..Earlier \subseteq Paths
      /\ Paths \subseteq Nat \ {0} /\ MaxWrites \in Nat
    BY DoorAssumption DEF Migrated
<1>2. /\ files = Older /\ clock = 2 /\ writes = Earlier
      /\ last = [p \in Paths |-> IF p <= Earlier THEN 1 ELSE 0]
      /\ manners \in Manners /\ fires = 0 /\ paused = FALSE /\ step = "idle"
      /\ listing = {} /\ matched = {}
    BY DEF Migrated, DoorInit
<1>3. Older \subseteq Version /\ \A v \in Older : v.mtime = 1 /\ v.path = v.id /\ v.path \in 1..Earlier
    BY <1>1 DEF Older, Version
<1>4. \A v, w \in Older : v.path = w.path => v = w BY DEF Older
<1>5. PICK p \in Nat :
          /\ (frontier = OpenAt(0, {}) /\ p = 0) \/ (frontier = ClosedAt(1, p) /\ p \in Paths)
          /\ handed = {v \in Older : v.path <= p}
          /\ claim \in {{}, LegacyClaim(p)} /\ bound = (claim = {})
          /\ \/ receipt = {} /\ launched = Past(handed)
             \/ /\ claim # {}
                /\ receipt \in {{[key |-> LegacyKey, outcome |-> o]} : o \in {"pending", "failed"}}
                /\ launched = Past(handed) \cup {[key |-> LegacyKey, nth |-> 1]}
  <2> DEFINE Left == \/ receipt = {} /\ launched = Past(handed)
                    \/ /\ claim # {}
                       /\ receipt \in {{[key |-> LegacyKey, outcome |-> o]} : o \in {"pending", "failed"}}
                       /\ launched = Past(handed) \cup {[key |-> LegacyKey, nth |-> 1]}
  <2>1. CASE frontier = ConservativeFrontier /\ claim = {} /\ bound = TRUE /\ handed = Older
             /\ receipt = {} /\ launched = Past(handed)
    <3> DEFINE top == CHOOSE p \in Paths : \A q \in Paths : q <= p
    <3>1. top \in Paths /\ \A q \in Paths : q <= top BY DoorAssumption
    <3>2. frontier = ClosedAt(1, top) BY <2>1 DEF ConservativeFrontier
    <3> HIDE DEF top
    <3>3. Older = {v \in Older : v.path <= top} BY <1>1, <1>3, <3>1
    <3>4. top \in Nat BY <1>1, <3>1
    <3> QED BY <2>1, <3>1, <3>2, <3>3, <3>4
  <2>2. CASE \E p \in 0..Earlier :
              /\ frontier = IF p = 0 THEN OpenAt(0, {}) ELSE ClosedAt(1, p)
              /\ handed = {v \in Older : v.path <= p}
              /\ claim \in {{}, LegacyClaim(p)} /\ bound = (claim = {})
              /\ Left
    <3> HIDE DEF Left
    <3>1. PICK p \in 0..Earlier :
              /\ frontier = IF p = 0 THEN OpenAt(0, {}) ELSE ClosedAt(1, p)
              /\ handed = {v \in Older : v.path <= p}
              /\ claim \in {{}, LegacyClaim(p)} /\ bound = (claim = {})
              /\ Left
        BY <2>2
    <3>2. p \in Nat /\ (p # 0 => p \in Paths) BY <1>1
    <3>3. (frontier = OpenAt(0, {}) /\ p = 0) \/ (frontier = ClosedAt(1, p) /\ p \in Paths)
        BY <3>1, <3>2
    <3>4. WITNESS p \in Nat
    <3> QED BY <3>1, <3>3 DEF Left
  <2> QED BY <2>1, <2>2 DEF Migrated
<1>6. \A v \in Older : IsNew(v) <=> v.path > p
  <2>1. CASE p = 0 /\ frontier = OpenAt(0, {}) BY <1>1, <1>3, <2>1 DEF IsNew, OpenAt
  <2>2. CASE p \in Paths /\ frontier = ClosedAt(1, p)
      BY <1>1, <1>3, <2>2 DEF IsNew, ClosedAt
  <2> QED BY <1>5, <2>1, <2>2
<1>7. claim \subseteq Older /\ handed \subseteq Older /\ \A v \in claim : v.path > p
    BY <1>5 DEF LegacyClaim
<1>8. VersionsOK BY <1>1, <1>2, <1>3, <1>4, <1>7 DEF VersionsOK
<1>9. FrontierOK
  <2>1. /\ \A v \in handed : ~IsNew(v)
        /\ \A v \in claim : IsNew(v)
        /\ \A v, w \in claim : v.path = w.path => v = w
      BY <1>1, <1>3, <1>4, <1>5, <1>6, <1>7
  <2> QED BY <1>1, <1>2, <1>5, <2>1 DEF FrontierOK, OpenAt, ClosedAt
<1>10. RunOK
  <2>1. fires \in 0..MaxFires /\ fires < MaxFires BY <1>2, DoorBounds
  <2> QED BY <1>2, <1>5, <2>1 DEF RunOK
<1>11. LaunchesOK
  <2>1. \A l \in Past(handed) : l.key[2] = handed /\ l.key = <<OpenAt(0, {}), handed, 0>>
        /\ handed # {}
      BY DEF Past
  <2>2. claim \cap handed = {} BY <1>1, <1>3, <1>5, <1>7
  <2>3. \A l, m \in Past(handed) : l = m BY DEF Past
  <2>4. CASE receipt = {} /\ launched = Past(handed)
      BY <2>1, <2>3, <2>4 DEF LaunchesOK, OneLaunchPerVersion, OutcomeOf
  <2>5. CASE /\ claim # {}
             /\ receipt \in {{[key |-> LegacyKey, outcome |-> o]} : o \in {"pending", "failed"}}
             /\ launched = Past(handed) \cup {[key |-> LegacyKey, nth |-> 1]}
    <3>1. PICK o \in {"pending", "failed"} : receipt = {[key |-> LegacyKey, outcome |-> o]}
        BY <2>5
    <3>2. LegacyKey = Key /\ Key[2] = claim BY DEF LegacyKey, Key
    <3>3. OutcomeOf(Key) # {}
      <4> DEFINE r == [key |-> LegacyKey, outcome |-> o]
      <4>1. r \in receipt /\ r.key = Key BY <3>1, <3>2
      <4> HIDE DEF r
      <4> QED BY <4>1 DEF OutcomeOf
    <3>4. \A l \in Past(handed) : OutcomeOf(l.key) = {}
      <4>1. \A l \in Past(handed) : l.key # Key BY <2>1, <2>2, <3>2
      <4> QED BY <3>1, <3>2, <4>1 DEF OutcomeOf
    <3>5. \A l \in launched :
              \/ claim # {} /\ l.key = Key /\ OutcomeOf(Key) # {}
              \/ l.key[2] \subseteq handed /\ OutcomeOf(l.key) \subseteq {"succeeded", "failed"}
        BY <2>1, <2>5, <3>2, <3>3, <3>4
    <3>6. OneLaunchPerVersion BY <2>1, <2>2, <2>3, <2>5, <3>2 DEF OneLaunchPerVersion
    <3> QED BY <3>1, <3>5, <3>6 DEF LaunchesOK
  <2> QED BY <1>5, <2>4, <2>5
<1>12. QuietOK
  <2>1. \A v \in files : IsNew(v) \/ v \in handed BY <1>1, <1>2, <1>3, <1>5, <1>6
  <2>2. claim # {} => \A v \in files : Wanted(v) /\ IsNew(v) => v \in claim
      BY <1>2, <1>5, <1>6 DEF LegacyClaim
  <2> QED BY <1>2, <2>1, <2>2 DEF QuietOK, NothingIsMissed
<1> QED BY <1>8, <1>9, <1>10, <1>11, <1>12 DEF DoorIInv

-----------------------------------------------------------------------------
LEMMA FilesFollow == DoorIInv => FilesInv
<1> SUFFICES ASSUME DoorIInv PROVE FilesInv
    OBVIOUS
<1> USE DEF DoorIInv
<1>1. DoorTypeOK
    BY DoorAssumption DEF DoorTypeOK, VersionsOK, FrontierOK, RunOK
<1>2. StateIsReadable BY DEF StateIsReadable, ParseState, FrontierOK
<1>3. LaunchIsSettled BY DEF LaunchIsSettled, LaunchesOK, Key
<1>4. OneLaunchPerVersion BY DEF LaunchesOK
<1>5. NothingIsMissed BY DEF QuietOK, NothingIsMissed
<1> QED BY <1>1, <1>2, <1>3, <1>4, <1>5 DEF FilesInv

\* Between any two steps of a run, of its writers and of Plant (index.ts,
\* state.ts and plant.ts), whatever a run that died left: what an agent was
\* launched on is claimed or was handed over, no version is launched on twice,
\* no file is passed over when nobody writes during a scan, and the next run can
\* read the state.
THEOREM FilesAreHandedOnce == DoorSpec => []FilesInv
<1>1. DoorInit => DoorIInv BY FreshIsGood, MigratedIsGood DEF DoorInit
<1> QED BY <1>1, DoorStepKeeps, FilesFollow, PTL DEF DoorSpec
=============================================================================
