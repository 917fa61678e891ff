------------------------------- MODULE DoorLock -------------------------------
(***************************************************************************)
(* The lock of one door (ts/vaultr-door/state.ts).                         *)
(*                                                                         *)
(* The lock is a file that names its owner.  It is published by a hard     *)
(* link, which fails if the name exists, and removed by name.  A contender *)
(* that finds a dead owner opens the file, takes the kernel's lock on what *)
(* it opened, and removes the name only after proving, twice, that the     *)
(* name is still that file and the file still that owner's.  Any run may   *)
(* die between two steps.                                                  *)
(*                                                                         *)
(* A run is a process with a token of its own.  Its lock file is the inode *)
(* of the same name: it publishes at most one.                             *)
(***************************************************************************)
EXTENDS Integers, FiniteSets

CONSTANTS
    Runs,            \* processes that run the door, each once
    Pids,            \* their process ids, which are reused
    NoFile,
    MaxDeaths,       \* bound: runs that die
    Attempts         \* rounds of acquireLock, three in the code

ASSUME DoorLockAssumption ==
    /\ NoFile \notin Runs /\ MaxDeaths \in Nat /\ Attempts \in Nat \ {0}

VARIABLES
    name,        \* the inode the lock's name is linked to, or NoFile
    pid,         \* each run's process id
    pc,          \* where each run is
    observed,    \* the owner a contender read, or NoFile
    handle,      \* the inode it opened, or NoFile
    kernel,      \* who holds the kernel's lock on an inode, or NoFile
    round,       \* rounds used
    deaths

vars == <<name, pid, pc, observed, handle, kernel, round, deaths>>

Init ==
    /\ name = NoFile
    /\ pid \in [Runs -> Pids]
    /\ pc = [r \in Runs |-> "new"]
    /\ observed = [r \in Runs |-> NoFile]
    /\ handle = [r \in Runs |-> NoFile]
    /\ kernel = [i \in Runs |-> NoFile]
    /\ round = [r \in Runs |-> 0]
    /\ deaths = 0

At(r, where) == pc[r] = where
Goto(r, where) == pc' = [pc EXCEPT ![r] = where]

Over == {"ended", "dead"}
Live(r) == pc[r] \notin Over \cup {"new"}
\* pidAlive: some live process has the id, the owner or a stranger.
PidAlive(p) == \E r \in Runs : Live(r) /\ pid[r] = p

-----------------------------------------------------------------------------
(* acquireLock.                                                            *)

\* No two processes that live have the same id.
Start(r) ==
    /\ At(r, "new") /\ ~PidAlive(pid[r])
    /\ Goto(r, "publish")
    /\ UNCHANGED <<name, pid, observed, handle, kernel, round, deaths>>

\* publishNoReplace: link() of the owner file.
Unlinked == name = NoFile

Publish(r) ==
    /\ At(r, "publish")
    /\ IF Unlinked THEN name' = r /\ Goto(r, "inside") ELSE Goto(r, "read") /\ UNCHANGED name
    /\ UNCHANGED <<pid, observed, handle, kernel, round, deaths>>

Retry(r) ==
    /\ round' = [round EXCEPT ![r] = @ + 1]
    /\ Goto(r, IF round[r] + 1 < Attempts THEN "publish" ELSE "ended")

\* readPublishedLockOwner: gone, alive, or dead.
ReadOwner(r) ==
    /\ At(r, "read")
    /\ \/ name = NoFile /\ Retry(r) /\ UNCHANGED observed
       \/ /\ name # NoFile /\ PidAlive(pid[name])
          /\ Goto(r, "ended") /\ UNCHANGED <<observed, round>>
       \/ /\ name # NoFile /\ ~PidAlive(pid[name])
          /\ observed' = [observed EXCEPT ![r] = name]
          /\ Goto(r, "open") /\ UNCHANGED round
    /\ UNCHANGED <<name, pid, handle, kernel, deaths>>

-----------------------------------------------------------------------------
(* recoverStaleLock.                                                       *)

Open(r) ==
    /\ At(r, "open")
    /\ \/ name = NoFile /\ Retry(r) /\ UNCHANGED handle
       \/ name # NoFile /\ handle' = [handle EXCEPT ![r] = name] /\ Goto(r, "flock") /\ UNCHANGED round
    /\ UNCHANGED <<name, pid, observed, kernel, deaths>>

\* flock of the descriptor; the wait is bounded and fails closed
\* (mutant: the recovery is not serialized).
AnyTime(r) == TRUE
MayRecover(r) == kernel[handle[r]] = NoFile

Flock(r) ==
    /\ At(r, "flock")
    /\ \/ /\ MayRecover(r)
          /\ kernel' = [kernel EXCEPT ![handle[r]] = r]
          /\ Goto(r, "parse")
       \/ ~MayRecover(r) /\ Goto(r, "ended") /\ UNCHANGED kernel
    /\ UNCHANGED <<name, pid, observed, handle, round, deaths>>

\* The descriptor is still what the name is linked to, and of that dead owner
\* (mutants: only the owner is asked; the token compared is the run's own).
OwnerOnly(r) == handle[r] = observed[r] /\ ~PidAlive(pid[observed[r]])
OwnToken(r) == name = handle[r] /\ handle[r] = r /\ ~PidAlive(pid[observed[r]])
StillStale(r) ==
    /\ name = handle[r]
    /\ handle[r] = observed[r]
    /\ ~PidAlive(pid[observed[r]])

\* The descriptor is unlocked and closed.
GiveUp(r) ==
    /\ Retry(r)
    /\ kernel' = [kernel EXCEPT ![handle[r]] = NoFile]
    /\ handle' = [handle EXCEPT ![r] = NoFile]

Parse(r) ==
    /\ At(r, "parse")
    /\ \/ StillStale(r) /\ Goto(r, "recheck") /\ UNCHANGED <<round, kernel, handle>>
       \/ ~StillStale(r) /\ GiveUp(r)
    /\ UNCHANGED <<name, pid, observed, deaths>>

Recheck(r) ==
    /\ At(r, "recheck")
    /\ \/ StillStale(r) /\ Goto(r, "remove") /\ UNCHANGED <<round, kernel, handle>>
       \/ ~StillStale(r) /\ GiveUp(r)
    /\ UNCHANGED <<name, pid, observed, deaths>>

\* unlink is by name, whatever it names now; if it names nothing it fails.
Remove(r) ==
    /\ At(r, "remove")
    /\ name' = NoFile
    /\ IF name = NoFile
       THEN Goto(r, "ended") /\ UNCHANGED round
            /\ kernel' = [kernel EXCEPT ![handle[r]] = NoFile]
            /\ handle' = [handle EXCEPT ![r] = NoFile]
       ELSE GiveUp(r)
    /\ UNCHANGED <<pid, observed, deaths>>

-----------------------------------------------------------------------------
(* release.                                                                *)

\* The token in the file is read and compared, then the name is removed; a
\* lock that is not the run's own is left.
Owns(r) == name = r

Compare(r) ==
    /\ At(r, "inside")
    /\ Goto(r, IF Owns(r) THEN "unlink" ELSE "ended")
    /\ UNCHANGED <<name, pid, observed, handle, kernel, round, deaths>>

Unlink(r) ==
    /\ At(r, "unlink")
    /\ name' = NoFile
    /\ Goto(r, "ended")
    /\ UNCHANGED <<pid, observed, handle, kernel, round, deaths>>

\* The kernel drops a dead process's locks; the name stays.
Dies(r) ==
    /\ Live(r) /\ deaths < MaxDeaths
    /\ deaths' = deaths + 1
    /\ Goto(r, "dead")
    /\ kernel' = [i \in Runs |-> IF kernel[i] = r THEN NoFile ELSE kernel[i]]
    /\ UNCHANGED <<name, pid, observed, handle, round>>

Acquire(r) ==
    Publish(r) \/ ReadOwner(r) \/ Open(r) \/ Flock(r) \/ Parse(r) \/ Recheck(r) \/ Remove(r)
Release(r) == Compare(r) \/ Unlink(r)

Next == \E r \in Runs : Start(r) \/ Acquire(r) \/ Release(r) \/ Dies(r)

Spec == Init /\ [][Next]_vars

\* Jobs start the door again and again, and a live run goes on.
FairSpec == Spec /\ \A r \in Runs : WF_vars(Start(r)) /\ WF_vars(Acquire(r) \/ Release(r))

-----------------------------------------------------------------------------
TypeOK ==
    /\ name \in Runs \cup {NoFile}
    /\ pid \in [Runs -> Pids]
    /\ pc \in [Runs -> {"new", "publish", "read", "open", "flock", "parse", "recheck",
                        "remove", "inside", "unlink", "ended", "dead"}]
    /\ observed \in [Runs -> Runs \cup {NoFile}]
    /\ handle \in [Runs -> Runs \cup {NoFile}]
    /\ kernel \in [Runs -> Runs \cup {NoFile}]
    /\ round \in [Runs -> 0..Attempts]
    /\ deaths \in 0..MaxDeaths
    /\ \A i, r \in Runs : kernel[i] = r => Live(r) /\ handle[r] = i

\* The runs that have the lock and have not given it up.
Inside == {r \in Runs : pc[r] \in {"inside", "unlink"}}

\* Whoever is inside is who the lock names: no recovery removes a live
\* owner's lock, so its release never fails.
OwnerIsNamed == \A r \in Inside : name = r

\* The lock is a mutual exclusion.
Mutex == INSTANCE DoorMutex WITH inside <- Inside
IsMutex == Mutex!Spec

\* A run that died inside does not close the door: a run that starts after gets
\* rid of its lock, also when others died in the recovery of it before, unless
\* one dies from now on, or a stranger got the process id and keeps it.
NoStaleLock ==
    \A r \in Runs, n \in 1..MaxDeaths :
        /\ pc[r] = "dead" /\ name = r /\ deaths = n
        /\ \E q \in Runs : pc[q] = "new"
        /\ \A q \in Runs \ {r} : pid[q] # pid[r]
        ~> name # r \/ deaths > n

\* The kernel's locks belong to live runs that opened the file, and the name to
\* whoever is inside.
LockInv == TypeOK /\ OwnerIsNamed
=============================================================================
