---------------------------- MODULE WorkerCapacity ----------------------------
(***************************************************************************)
(* The scheduler's admission of due jobs and the slots their workers hold  *)
(* (crates/plant/src/jobs.rs).                                             *)
(*                                                                         *)
(* Every tick the daemon queues the jobs that are due and takes from the   *)
(* queue as many ordinary jobs as it has slots, and every reserved one.  A *)
(* slot is a file whose flock goes to the worker with the descriptor, and  *)
(* to whatever the worker starts; it is free when the last of them closed  *)
(* it.  Workers outlive the daemon, a compression does not: it is a task   *)
(* of the daemon.  JobAttempts models what an attempt does; here a worker  *)
(* holds the attempt lock while it runs and may or may not add a record.   *)
(***************************************************************************)
EXTENDS Integers, Sequences, FiniteSets, Functions

CONSTANTS
    JobOrder,         \* the jobs in the order of their names
    Supervisory,      \* jobs of the class of "health"
    Durability,       \* jobs of the class of "seal-push"
    Compression,      \* jobs that run as a task of the daemon
    CapacitySlots,    \* the ordinary slots, in the order they are tried
    Workers,          \* identities of live workers
    Every,            \* a job's interval in ticks, at least two
    RepeatsUnrecorded,\* a run may end without a record (exit 75, a fence)
    LeavesProcesses,  \* a script may leave a process behind
    MaxRestarts,      \* bound: deaths of the daemon
    MaxMishaps        \* bound: deaths of workers and spawns that fail

Members(s) == {s[k] : k \in DOMAIN s}
JobNames == Members(JobOrder)
Slots == Members(CapacitySlots) \cup {"supervisory", "durability"}

ASSUME WorkerCapacityAssumption ==
    /\ JobOrder \in Seq(JobNames) /\ IsInjective(JobOrder) /\ "none" \notin JobNames
    /\ Supervisory \cup Durability \cup Compression \subseteq JobNames
    /\ Supervisory \cap Durability = {}
    /\ CapacitySlots \in Seq(Members(CapacitySlots)) /\ "none" \notin Members(CapacitySlots)
    /\ "left" \notin Workers
    /\ Every \in Nat /\ Every >= 2
    /\ RepeatsUnrecorded \in BOOLEAN /\ LeavesProcesses \in BOOLEAN
    /\ {MaxRestarts, MaxMishaps} \subseteq Nat

VARIABLES
    pending,      \* DueJobAdmission: jobs waiting for a turn
    selected,     \* taken on this tick and not yet handled
    age,          \* ticks since a job's last record, up to its interval
    worker,       \* each worker: [pc, job, slot]
    held,         \* who has a slot's descriptor open: workers, "left" for others
    restarts, mishaps

admissionVars == <<pending, selected, age, worker, held, restarts, mishaps>>

NoWorker == [pc |-> "none", job |-> "none", slot |-> "none"]

AdmissionInit ==
    /\ pending = <<>> /\ selected = <<>>
    /\ age = [j \in JobNames |-> Every]
    /\ worker = [w \in Workers |-> NoWorker]
    /\ held = [s \in Slots |-> {}]
    /\ restarts = 0 /\ mishaps = 0

-----------------------------------------------------------------------------
(* One tick.                                                               *)

Ordinary(j) == j \notin Supervisory \cup Durability

\* worker_class, worker_capacity_paths (mutant: every job is ordinary).
OnePool(j) == CapacitySlots
Pool(j) ==
    IF j \in Supervisory THEN <<"supervisory">>
    ELSE IF j \in Durability THEN <<"durability">> ELSE CapacitySlots

Runs(j) == \E w \in Workers : worker[w].pc = "running" /\ worker[w].job = j
Free(s) == held[s] = {}

\* A tick falls anywhere within its interval: one tick early a job may be due.
MustBeDue == {j \in JobNames : age[j] >= Every}
MayBeDue == {j \in JobNames : age[j] >= Every - 1}

\* The members of a queue that are in S, in their order.
Only(q, S) ==
    LET upto[n \in 0..Len(q)] ==
            IF n = 0 THEN <<>>
            ELSE IF q[n] \in S THEN Append(upto[n - 1], q[n]) ELSE upto[n - 1]
    IN  upto[Len(q)]

\* refresh: keep the order of those still due, add the newly due by name.
Refresh(due) ==
    LET kept == Only(pending, due)
    IN  kept \o Only(JobOrder, due \ Members(kept))

\* take_with_reserved: the jobs it takes.
Turns(q) == {q[k] : k \in {n \in DOMAIN q :
    ~Ordinary(q[n]) \/ Cardinality({i \in 1..(n-1) : Ordinary(q[i])}) < Len(CapacitySlots)}}

\* Ticks are a minute apart: whoever was started on one has begun by the next.
Tick ==
    /\ selected = <<>>
    /\ \A w \in Workers : worker[w].pc # "spawned"
    /\ \E q \in {Refresh(MustBeDue \cup extra) : extra \in SUBSET (MayBeDue \ MustBeDue)} :
           /\ selected' = Only(q, Turns(q))
           /\ pending' = Only(q, JobNames \ Turns(q))
    /\ age' = [j \in JobNames |-> IF age[j] < Every THEN age[j] + 1 ELSE Every]
    /\ UNCHANGED <<worker, held, restarts, mishaps>>

Requeue(j) == pending' = IF j \in Members(pending) THEN pending ELSE Append(pending, j)

\* The lock is held or no slot is free: the job goes to the back of the queue.
Reject ==
    /\ selected # <<>>
    /\ LET j == Head(selected) IN
           /\ Runs(j) \/ \A s \in Members(Pool(j)) : ~Free(s)
           /\ Requeue(j)
    /\ selected' = Tail(selected)
    /\ UNCHANGED <<age, worker, held, restarts, mishaps>>

\* The worker gets the descriptor, the daemon closes its own (mutant: the
\* descriptor is closed on exec).
ClosedOnExec(w) == {}
Inherits(w) == {w}

\* The first free slot of its class.
Spawn(w) ==
    /\ selected # <<>> /\ worker[w] = NoWorker
    /\ LET j == Head(selected) IN
       \E k \in DOMAIN Pool(j) :
           LET slot == Pool(j)[k] IN
           /\ ~Runs(j) /\ Free(slot) /\ \A i \in 1..(k - 1) : ~Free(Pool(j)[i])
           /\ worker' = [worker EXCEPT ![w] = [pc |-> "spawned", job |-> j, slot |-> slot]]
           /\ held' = [held EXCEPT ![slot] = Inherits(w)]
    /\ selected' = Tail(selected)
    /\ UNCHANGED <<pending, age, restarts, mishaps>>

SpawnFails ==
    /\ selected # <<>> /\ mishaps < MaxMishaps
    /\ mishaps' = mishaps + 1
    /\ LET j == Head(selected) IN
           /\ ~Runs(j) /\ j \notin Compression
           /\ \E s \in Members(Pool(j)) : Free(s)
           /\ Requeue(j)
    /\ selected' = Tail(selected)
    /\ UNCHANGED <<age, worker, held, restarts>>

-----------------------------------------------------------------------------
(* Workers.                                                                *)

Ends(w) ==
    /\ worker' = [worker EXCEPT ![w] = NoWorker]
    /\ held' = [held EXCEPT ![worker[w].slot] = @ \ {w}]

\* The attempt lock is free and the job still due, or the worker ends at once.
Begin(w) ==
    /\ worker[w].pc = "spawned"
    /\ LET j == worker[w].job IN
           \/ /\ ~Runs(j) /\ j \in MayBeDue
              /\ worker' = [worker EXCEPT ![w].pc = "running"]
              /\ UNCHANGED held
           \/ /\ Runs(j) \/ j \notin MustBeDue
              /\ Ends(w)
    /\ UNCHANGED <<pending, selected, age, restarts, mishaps>>

\* What a script starts has the slot's descriptor too.
LeaveProcess(w) ==
    /\ LeavesProcesses /\ worker[w].pc = "running" /\ worker[w].job \notin Compression
    /\ held' = [held EXCEPT ![worker[w].slot] = @ \cup {"left"}]
    /\ UNCHANGED <<pending, selected, age, worker, restarts, mishaps>>

LeftEnds(s) ==
    /\ "left" \in held[s]
    /\ held' = [held EXCEPT ![s] = @ \ {"left"}]
    /\ UNCHANGED <<pending, selected, age, worker, restarts, mishaps>>

WorkerFinishes(w) ==
    /\ worker[w].pc = "running"
    /\ Ends(w)
    /\ \/ age' = [age EXCEPT ![worker[w].job] = 0]
       \/ RepeatsUnrecorded /\ UNCHANGED age
    /\ UNCHANGED <<pending, selected, restarts, mishaps>>

WorkerDies(w) ==
    /\ worker[w].pc # "none" /\ worker[w].job \notin Compression
    /\ mishaps < MaxMishaps /\ mishaps' = mishaps + 1
    /\ Ends(w)
    /\ UNCHANGED <<pending, selected, age, restarts>>

\* The daemon's queue and its compression end with it; workers do not.
DaemonRestarts ==
    /\ restarts < MaxRestarts /\ restarts' = restarts + 1
    /\ pending' = <<>> /\ selected' = <<>>
    /\ LET gone == {w \in Workers : worker[w].job \in Compression}
       IN  /\ worker' = [w \in Workers |-> IF w \in gone THEN NoWorker ELSE worker[w]]
           /\ held' = [s \in Slots |-> held[s] \ gone]
    /\ UNCHANGED <<age, mishaps>>

Scheduler == Tick \/ Reject \/ SpawnFails \/ (\E w \in Workers : Spawn(w))

AdmissionNext ==
    \/ Scheduler \/ DaemonRestarts
    \/ \E w \in Workers : Begin(w) \/ LeaveProcess(w) \/ WorkerFinishes(w) \/ WorkerDies(w)
    \/ \E s \in Slots : LeftEnds(s)

AdmissionSpec == AdmissionInit /\ [][AdmissionNext]_admissionVars

\* Ticks come and workers begin.  How long a script takes is not known.
Progress == WF_admissionVars(Scheduler) /\ \A w \in Workers : WF_admissionVars(Begin(w))
EndlessSpec == AdmissionSpec /\ Progress

-----------------------------------------------------------------------------
AdmissionTypeOK ==
    /\ pending \in Seq(JobNames) /\ IsInjective(pending)
    /\ selected \in Seq(JobNames) /\ IsInjective(selected)
    /\ age \in [JobNames -> 0..Every]
    /\ worker \in [Workers -> [pc : {"none", "spawned", "running"},
                               job : JobNames \cup {"none"}, slot : Slots \cup {"none"}]]
    /\ held \in [Slots -> SUBSET (Workers \cup {"left"})]
    /\ \A w \in Workers : worker[w].pc # "none" => w \in held[worker[w].slot]
    /\ restarts \in 0..MaxRestarts /\ mishaps \in 0..MaxMishaps

\* No more ordinary workers than slots are ever alive, whatever daemons
\* started them, and one of each reserved class.
Alive(P(_)) == Cardinality({w \in Workers : worker[w].pc # "none" /\ P(worker[w].job)})
CapIsKept ==
    /\ Alive(Ordinary) <= Len(CapacitySlots)
    /\ Alive(LAMBDA j : j \in Supervisory) <= 1
    /\ Alive(LAMBDA j : j \in Durability) <= 1

\* Reserved work runs when it is due, though every ordinary script hangs and the
\* daemon restarts, unless a process that its own script left keeps its slot.
Waiting(j) == age[j] >= Every
ReservedRuns ==
    \A j \in Supervisory \cup Durability :
        Waiting(j) ~> Runs(j) \/ ~Waiting(j) \/ \E s \in Members(Pool(j)) : "left" \in held[s]

\* A live worker holds the slot it was given, and the cap is kept.
CapacityInv == AdmissionTypeOK /\ CapIsKept
=============================================================================
