---------------------------- MODULE LearningProofs ----------------------------
(***************************************************************************)
(* Proofs about Learning: for every number of sessions and runs and every  *)
(* clock, no run of a learner is offered a session that another one works  *)
(* on, unless that one has outlived its lease, or a file of the session    *)
(* has been written since its lease was given up.                          *)
(***************************************************************************)
EXTENDS Learning, FiniteSetTheorems, TLAPS

-----------------------------------------------------------------------------
(* The oldest k of a finite set of numbers are at most k.                  *)

LEMMA GreatestExists ==
    ASSUME NEW B \in SUBSET Nat, IsFiniteSet(B), B # {}
    PROVE  \E m \in B : \A t \in B : t <= m
<1> DEFINE Above(s) == {t \in B : t > s}
           Uppers == {Above(s) : s \in B}
<1>1. IsWellFoundedOn(StrictSubsetOrdering(B), FiniteSubsetsOf(B))
  BY FS_StrictSubsetOrderingWellFounded
<1>2. Uppers \subseteq FiniteSubsetsOf(B) /\ Uppers # {}
  <2>1. Uppers \subseteq SUBSET B
    OBVIOUS
  <2>2. Uppers # {}
    OBVIOUS
  <2> QED BY <2>1, <2>2, FS_FiniteSubsetsOfFinite
<1>3. \E U \in Uppers : \A V \in Uppers : <<V, U>> \notin StrictSubsetOrdering(B)
  <2> HIDE DEF Uppers
  <2> QED BY <1>1, <1>2, WFMin
<1>4. PICK m \in B : \A s \in B : <<Above(s), Above(m)>> \notin StrictSubsetOrdering(B)
  BY <1>3
<1>5. ASSUME NEW t \in B, t > m
      PROVE  FALSE
  <2>1. Above(t) \subseteq Above(m)
    <3> SUFFICES ASSUME NEW u \in B, u > t PROVE u > m
      OBVIOUS
    <3>1. u \in Nat /\ t \in Nat /\ m \in Nat
      OBVIOUS
    <3> QED BY <1>5, <3>1
  <2>2. t \in Above(m) /\ t \notin Above(t)
    BY <1>5
  <2>3. <<Above(t), Above(m)>> \in StrictSubsetOrdering(B)
    BY <2>1, <2>2 DEF StrictSubsetOrdering
  <2> QED BY <1>4, <2>3
<1>6. \A t \in B : t \in Nat /\ m \in Nat
  OBVIOUS
<1> QED BY <1>5, <1>6

Below(E, s) == {t \in E : t < s}

LEMMA OldestAreFew ==
    ASSUME NEW E \in SUBSET Nat, IsFiniteSet(E), NEW k \in Nat,
           NEW B, B = {s \in E : Cardinality(Below(E, s)) < k}
    PROVE  IsFiniteSet(B) /\ Cardinality(B) <= k
<1>1. ASSUME NEW s \in E
      PROVE  IsFiniteSet(Below(E, s)) /\ Cardinality(Below(E, s)) \in Nat
  BY FS_Subset, FS_CardinalityType DEF Below
<1>2. IsFiniteSet(B)
  BY FS_Subset
<1>3. CASE B = {}
  <2>1. Cardinality(B) = 0
    BY <1>3, FS_EmptySet
  <2> QED BY <1>2, <2>1
<1>4. CASE B # {}
  <2>1. PICK m \in B : \A t \in B : t <= m
    BY <1>2, <1>4, GreatestExists
  <2>2. m \in Nat /\ m \notin Below(E, m) /\ IsFiniteSet(Below(E, m))
    BY <1>1 DEF Below
  <2>3. /\ IsFiniteSet(Below(E, m) \cup {m})
        /\ Cardinality(Below(E, m) \cup {m}) = Cardinality(Below(E, m)) + 1
    BY <2>2, FS_AddElement
  <2>4. B \subseteq Below(E, m) \cup {m}
    <3> SUFFICES ASSUME NEW t \in B, t # m PROVE t \in E /\ t < m
      BY DEF Below
    <3>1. t \in Nat /\ m \in Nat /\ t <= m
      BY <2>1
    <3> QED BY <3>1
  <2>5. Cardinality(B) <= Cardinality(Below(E, m)) + 1
    BY <2>3, <2>4, FS_Subset
  <2> QED BY <1>1, <1>2, <2>5, FS_CardinalityType
<1> QED BY <1>3, <1>4

-----------------------------------------------------------------------------
(* Types.                                                                  *)

LEMMA Parameters ==
    /\ MaxBatch \in Nat /\ MaxBatch > 0 /\ Idle \in Nat /\ SealIdle \in Nat
    /\ Allowance \in Nat /\ Allowance > 0 /\ MaxAge \in Nat /\ MaxAge >= Allowance
    /\ Substance \in Nat /\ Substance > 0 /\ MaxTurns \in [Sessions -> Nat]
    /\ Sessions \subseteq Nat /\ IsFiniteSet(Sessions)
  BY LearningAssumption DEF Allowance

LEMMA FileTypes ==
    ASSUME TypeOK, NEW s \in Sessions
    PROVE  /\ sealed[s] \in Nat /\ detached[s] \in Nat /\ raw[s] \in Nat
           /\ age[s] \in 0..MaxAge /\ age[s] \in Nat
           /\ prior[s] \in 0..MaxAge /\ prior[s] \in Nat
           /\ Turns(s) \in Nat /\ Turns(s) <= MaxTurns[s]
           /\ Turns(s) = sealed[s] + detached[s] + raw[s]
<1>1. sealed[s] \in Nat /\ detached[s] \in Nat /\ raw[s] \in Nat /\ Turns(s) <= MaxTurns[s]
  BY DEF TypeOK
<1>2. age[s] \in 0..MaxAge /\ prior[s] \in 0..MaxAge
  BY DEF TypeOK
<1> QED BY <1>1, <1>2, Parameters DEF Turns

LEMMA RunTypes ==
    ASSUME TypeOK, NEW c \in Claimers
    PROVE  /\ run[c] \in Runs
           /\ run[c].step \in {"idle", "selected", "working"}
           /\ run[c].batch \in SUBSET Sessions
           /\ run[c].left \in 0..Allowance /\ run[c].left \in Nat
<1>1. run[c] \in Runs
  BY DEF TypeOK
<1> QED BY <1>1, Parameters DEF Runs

LEMMA BatchType ==
    /\ Batch \subseteq Eligible /\ Batch \subseteq Sessions
    /\ Cardinality(Batch) <= MaxBatch
<1>1. Eligible \in SUBSET Nat /\ IsFiniteSet(Eligible)
  BY Parameters, FS_Subset DEF Eligible
<1>2. Batch = {s \in Eligible : Cardinality(Below(Eligible, s)) < MaxBatch}
  BY DEF Batch, Below
<1>3. Cardinality(Batch) <= MaxBatch
  BY <1>1, <1>2, OldestAreFew, Parameters
<1> QED BY <1>3 DEF Batch, Eligible

LEMMA IdleRunType == IdleRun \in Runs
  BY Parameters DEF IdleRun, Runs

(* What each step makes of the runs.                                       *)
Becomes(c, step, batch, left) ==
    /\ run' \in [Claimers -> Runs]
    /\ run'[c].step = step /\ run'[c].batch = batch /\ run'[c].left = left
    /\ \A d \in Claimers \ {c} : run'[d] = run[d]

LEMMA SelectRun ==
    ASSUME TypeOK, NEW c \in Claimers, ClaimSelect(c)
    PROVE  Becomes(c, "selected", Batch, 0)
<1> DEFINE r == [IdleRun EXCEPT !.step = "selected", !.batch = Batch]
<1>1. r \in Runs /\ r.step = "selected" /\ r.batch = Batch /\ r.left = 0
  BY IdleRunType, BatchType DEF IdleRun, Runs
<1>2. run' = [run EXCEPT ![c] = r] /\ run \in [Claimers -> Runs]
  BY DEF ClaimSelect, TypeOK
<1> HIDE DEF r
<1> QED BY <1>1, <1>2 DEF Becomes

LEMMA PublishRun ==
    ASSUME TypeOK, NEW c \in Claimers, ClaimPublish(c)
    PROVE  Becomes(c, "working", run[c].batch, Allowance)
<1> DEFINE r == [run[c] EXCEPT !.step = "working", !.left = Allowance]
<1>0. Allowance \in 0..Allowance
  BY Parameters
<1>1. r \in Runs /\ r.step = "working" /\ r.batch = run[c].batch /\ r.left = Allowance
  BY <1>0, RunTypes DEF Runs
<1>2. run' = [run EXCEPT ![c] = r] /\ run \in [Claimers -> Runs]
  BY DEF ClaimPublish, TypeOK
<1> HIDE DEF r
<1> QED BY <1>1, <1>2 DEF Becomes

LEMMA RecordRun ==
    ASSUME TypeOK, NEW c \in Claimers, NEW s \in Sessions, Record(c, s)
    PROVE  Becomes(c, run[c].step, run[c].batch \ {s}, run[c].left)
<1> DEFINE r == [run[c] EXCEPT !.batch = run[c].batch \ {s}]
<1>1. /\ r \in Runs /\ r.step = run[c].step /\ r.batch = run[c].batch \ {s}
      /\ r.left = run[c].left
  BY RunTypes DEF Runs
<1>2. run' = [run EXCEPT ![c] = r] /\ run \in [Claimers -> Runs]
  BY DEF Record, TypeOK
<1> HIDE DEF r
<1> QED BY <1>1, <1>2 DEF Becomes

LEMMA EndRun ==
    ASSUME TypeOK, NEW c \in Claimers, RunEnds(c)
    PROVE  Becomes(c, "idle", {}, 0)
<1>1. IdleRun \in Runs /\ IdleRun.step = "idle" /\ IdleRun.batch = {} /\ IdleRun.left = 0
  BY IdleRunType DEF IdleRun
<1>2. run' = [run EXCEPT ![c] = IdleRun] /\ run \in [Claimers -> Runs]
  BY DEF RunEnds, TypeOK
<1> QED BY <1>1, <1>2 DEF Becomes

LEMMA TickRuns ==
    ASSUME TypeOK, Tick
    PROVE  /\ run' \in [Claimers -> Runs]
           /\ \A c \in Claimers :
                /\ run'[c].step = run[c].step /\ run'[c].batch = run[c].batch
                /\ run'[c].left = CountDown(run[c].left)
<1> DEFINE r(c) == [run[c] EXCEPT !.left = CountDown(run[c].left)]
<1>1. ASSUME NEW c \in Claimers
      PROVE  /\ r(c) \in Runs /\ r(c).step = run[c].step /\ r(c).batch = run[c].batch
             /\ r(c).left = CountDown(run[c].left)
  <2>1. CountDown(run[c].left) \in 0..Allowance
    BY RunTypes, Parameters DEF CountDown
  <2> QED BY <2>1, RunTypes DEF Runs
<1>2. run' = [c \in Claimers |-> r(c)]
  BY DEF Tick
<1> HIDE DEF r
<1> QED BY <1>1, <1>2

-----------------------------------------------------------------------------
(* What each step makes of the types.                                      *)

LEMMA FilesStep ==
    ASSUME TypeOK, [Next]_vars
    PROVE  /\ {sealed, detached, raw}' \subseteq [Sessions -> Nat]
           /\ \A s \in Sessions : Turns(s)' <= MaxTurns[s]
<1>1. CASE UNCHANGED <<sealed, detached, raw>>
  BY <1>1 DEF TypeOK, Turns
<1>2. ASSUME NEW t \in Sessions, Turn(t) \/ Detach(t) \/ Seal(t)
      PROVE  /\ {sealed, detached, raw}' \subseteq [Sessions -> Nat]
             /\ \A s \in Sessions : Turns(s)' <= MaxTurns[s]
  <2>1. \A s \in Sessions : /\ sealed[s] \in Nat /\ detached[s] \in Nat /\ raw[s] \in Nat
                            /\ sealed[s] + detached[s] + raw[s] <= MaxTurns[s]
                            /\ MaxTurns[s] \in Nat
    BY FileTypes, Parameters
  <2>2. \A g \in {sealed, detached, raw} : DOMAIN g = Sessions /\ g = [s \in Sessions |-> g[s]]
    BY DEF TypeOK
  <2>3. CASE Turn(t)
    BY <2>1, <2>2, <2>3 DEF Turn, Turns
  <2>4. CASE Detach(t)
    BY <2>1, <2>2, <2>4 DEF Detach, Turns
  <2>5. CASE Seal(t)
    BY <2>1, <2>2, <2>5 DEF Seal, Turns
  <2> QED BY <1>2, <2>3, <2>4, <2>5
<1> QED BY <1>1, <1>2 DEF Next, vars, files, ClaimSelect, ClaimPublish, RunEnds, Record, Tick

LEMMA PassStep ==
    ASSUME TypeOK, PassesAreGiven, [Next]_vars
    PROVE  pass' \in [Sessions -> Pass] /\ PassesAreGiven'
<1>0. /\ pass \in [Sessions -> Pass]
      /\ \A s \in Sessions : /\ pass[s] \in Pass /\ pass[s].given \in BOOLEAN
                             /\ pass[s].afterRaw \in BOOLEAN /\ pass[s].afterPrevious \in BOOLEAN
  BY DEF TypeOK, Pass
<1>1. ASSUME NEW t \in Sessions, NEW p \in Pass, pass' = [pass EXCEPT ![t] = p],
             p = NoPass \/ p.given
      PROVE  pass' \in [Sessions -> Pass] /\ PassesAreGiven'
  BY <1>0, <1>1 DEF PassesAreGiven
<1>2. CASE UNCHANGED pass
  BY <1>0, <1>2 DEF PassesAreGiven
<1>3. ASSUME NEW t \in Sessions, Turn(t)
      PROVE  pass' \in [Sessions -> Pass] /\ PassesAreGiven'
  <2> DEFINE p == [pass[t] EXCEPT !.afterRaw = FALSE]
  <2>1. p \in Pass /\ p.given = pass[t].given
    BY <1>0 DEF Pass
  <2>2. ASSUME pass[t] = NoPass PROVE p = NoPass
    <3>1. p.given = FALSE /\ p.afterRaw = FALSE /\ p.afterPrevious = FALSE
      BY <1>0, <2>2 DEF NoPass, Pass
    <3>2. p = [given |-> p.given, afterRaw |-> p.afterRaw, afterPrevious |-> p.afterPrevious]
      <4> HIDE DEF p
      <4> QED BY <2>1 DEF Pass
    <3> HIDE DEF p
    <3> QED BY <3>1, <3>2 DEF NoPass
  <2>3. pass' = [pass EXCEPT ![t] = p]
    BY <1>0, <1>3 DEF Turn
  <2> HIDE DEF p
  <2> QED BY <1>1, <2>1, <2>2, <2>3 DEF PassesAreGiven
<1>4. ASSUME NEW t \in Sessions, Detach(t)
      PROVE  pass' \in [Sessions -> Pass] /\ PassesAreGiven'
  <2>1. PICK redacted \in BOOLEAN :
            pass' = [pass EXCEPT ![t] = [given |-> pass[t].given, afterRaw |-> FALSE,
                                         afterPrevious |-> pass[t].afterRaw /\ ~redacted]]
    BY <1>0, <1>4 DEF Detach
  <2> DEFINE p == [given |-> pass[t].given, afterRaw |-> FALSE,
                   afterPrevious |-> pass[t].afterRaw /\ ~redacted]
  <2>2. (pass[t].afterRaw /\ ~redacted) \in BOOLEAN
    OBVIOUS
  <2>3. p \in Pass /\ p.given = pass[t].given
    BY <1>0, <2>2 DEF Pass
  <2>4. ASSUME pass[t] = NoPass PROVE p = NoPass
    <3>1. pass[t].given = FALSE /\ pass[t].afterRaw = FALSE
      BY <2>4 DEF NoPass
    <3>2. (pass[t].afterRaw /\ ~redacted) = FALSE
      BY <3>1
    <3> QED BY <3>1, <3>2, Zenon DEF NoPass
  <2>5. pass' = [pass EXCEPT ![t] = p]
    BY <2>1
  <2> HIDE DEF p
  <2> QED BY <1>1, <2>3, <2>4, <2>5 DEF PassesAreGiven
<1>5. ASSUME NEW c \in Claimers, NEW t \in Sessions, Record(c, t)
      PROVE  pass' \in [Sessions -> Pass] /\ PassesAreGiven'
  <2> DEFINE p == [given |-> TRUE, afterRaw |-> age[t] > 0, afterPrevious |-> prior[t] > 0]
  <2>1. (age[t] > 0) \in BOOLEAN /\ (prior[t] > 0) \in BOOLEAN
    OBVIOUS
  <2>2. p \in Pass /\ p.given
    BY <2>1 DEF Pass
  <2>3. pass' = [pass EXCEPT ![t] = p]
    BY <1>5 DEF Record
  <2> HIDE DEF p
  <2> QED BY <1>1, <2>2, <2>3
<1> QED BY <1>2, <1>3, <1>4, <1>5 DEF Next, vars, Seal, ClaimSelect, ClaimPublish, RunEnds, Tick

LEMMA AgesStep ==
    ASSUME TypeOK, [Next]_vars
    PROVE  {age, prior}' \subseteq [Sessions -> 0..MaxAge]
<1>0. /\ age \in [Sessions -> 0..MaxAge] /\ prior \in [Sessions -> 0..MaxAge]
      /\ 0 \in 0..MaxAge
  BY Parameters DEF TypeOK
<1>1. CASE UNCHANGED <<age, prior>>
  BY <1>0, <1>1
<1>2. ASSUME NEW t \in Sessions, Turn(t) PROVE {age, prior}' \subseteq [Sessions -> 0..MaxAge]
  BY <1>0, <1>2 DEF Turn
<1>3. ASSUME NEW t \in Sessions, Detach(t)
      PROVE  {age, prior}' \subseteq [Sessions -> 0..MaxAge]
  BY <1>0, <1>3 DEF Detach
<1>4. CASE Tick
  <2>1. \A n \in 0..MaxAge : CountUp(n) \in 0..MaxAge
    BY Parameters DEF CountUp
  <2>2. \A s \in Sessions : CountUp(age[s]) \in 0..MaxAge /\ CountUp(prior[s]) \in 0..MaxAge
    BY <1>0, <2>1
  <2> QED BY <1>0, <1>4, <2>2 DEF Tick
<1> QED BY <1>1, <1>2, <1>3, <1>4 DEF Next, vars, files, Seal, ClaimSelect, ClaimPublish, RunEnds,
                                      Record

Leases == [sids : SUBSET Sessions, left : 0..Allowance]

LEMMA LeaseStep ==
    ASSUME TypeOK, [Next]_vars
    PROVE  lease' \in Leases /\ lock' \in Claimers \cup {Free}
<1>1. lease' \in Leases
  <2>1. CASE UNCHANGED lease
    BY <2>1 DEF TypeOK, Leases
  <2>2. ASSUME NEW c \in Claimers, ClaimPublish(c)
        PROVE  lease' \in Leases
    <3>1. Allowance \in 0..Allowance
      BY Parameters
    <3> QED BY <2>2, <3>1, RunTypes DEF ClaimPublish, LeaseTime, Allowance, Leases
  <2>3. CASE Tick
    <3>0. lease \in Leases /\ lease.left \in 0..Allowance
      BY DEF TypeOK, Leases
    <3>1. CASE lease.left > 1
      <4>1. lease.left - 1 \in 0..Allowance
        BY <3>0, <3>1, Parameters
      <4> QED BY <2>3, <3>0, <3>1, <4>1 DEF Tick, LeaseLeft, Leases
    <3>2. CASE ~(lease.left > 1)
      BY <2>3, <3>2, Parameters DEF Tick, LeaseLeft, NoLease, Leases
    <3> QED BY <3>1, <3>2
  <2> QED BY <2>1, <2>2, <2>3 DEF Next, vars, Turn, Detach, Seal, ClaimSelect, RunEnds, Record
<1>2. lock' \in Claimers \cup {Free}
  BY DEF TypeOK, Next, vars, Turn, Detach, Seal, ClaimSelect, ClaimPublish, RunEnds, Record, Tick
<1> QED BY <1>1, <1>2

LEMMA RunsStep ==
    ASSUME TypeOK, [Next]_vars
    PROVE  /\ run' \in [Claimers -> Runs]
           /\ \A c \in Claimers : Cardinality(run'[c].batch) <= MaxBatch
<1>1. CASE UNCHANGED run
  BY <1>1 DEF TypeOK
<1>2. ASSUME NEW c \in Claimers, NEW step, NEW batch, NEW left, Becomes(c, step, batch, left),
             Cardinality(batch) <= MaxBatch
      PROVE  /\ run' \in [Claimers -> Runs]
             /\ \A d \in Claimers : Cardinality(run'[d].batch) <= MaxBatch
  BY <1>2 DEF Becomes, TypeOK
<1>3. ASSUME NEW c \in Claimers,
             \/ ClaimSelect(c) \/ ClaimPublish(c) \/ RunEnds(c)
             \/ \E s \in Sessions : Record(c, s)
      PROVE  /\ run' \in [Claimers -> Runs]
             /\ \A d \in Claimers : Cardinality(run'[d].batch) <= MaxBatch
  <2>1. CASE ClaimSelect(c)
    BY <1>2, <2>1, SelectRun, BatchType
  <2>2. CASE ClaimPublish(c)
    BY <1>2, <2>2, PublishRun DEF TypeOK
  <2>3. CASE RunEnds(c)
    <3>1. Cardinality({}) <= MaxBatch
      BY FS_EmptySet, Parameters
    <3> QED BY <1>2, <2>3, <3>1, EndRun
  <2>4. ASSUME NEW s \in Sessions, Record(c, s)
        PROVE  /\ run' \in [Claimers -> Runs]
               /\ \A d \in Claimers : Cardinality(run'[d].batch) <= MaxBatch
    <3>1. IsFiniteSet(run[c].batch)
      BY RunTypes, Parameters, FS_Subset
    <3>2. Cardinality(run[c].batch \ {s}) <= Cardinality(run[c].batch)
      BY <3>1, FS_Subset
    <3>3. Cardinality(run[c].batch \ {s}) <= MaxBatch
      BY <3>1, <3>2, FS_Subset, FS_CardinalityType, Parameters DEF TypeOK
    <3> QED BY <1>2, <2>4, <3>3, RecordRun
  <2> QED BY <1>3, <2>1, <2>2, <2>3, <2>4
<1>4. CASE Tick
  BY <1>4, TickRuns DEF TypeOK
<1> QED BY <1>1, <1>3, <1>4 DEF Next, vars, Turn, Detach, Seal

-----------------------------------------------------------------------------
(* The lock file.                                                          *)

LEMMA SelectorStep ==
    ASSUME TypeOK, SelectorHoldsLock, [Next]_vars
    PROVE  SelectorHoldsLock'
<1>0. Free \notin Claimers
  BY LearningAssumption
<1>1. CASE UNCHANGED <<run, lock>>
  BY <1>1 DEF SelectorHoldsLock
<1>2. ASSUME NEW c \in Claimers, ClaimSelect(c) PROVE SelectorHoldsLock'
  BY <1>0, <1>2, SelectRun DEF SelectorHoldsLock, ClaimSelect, LockFree, Becomes
<1>3. ASSUME NEW c \in Claimers, ClaimPublish(c) PROVE SelectorHoldsLock'
  <2>1. run'[c].step = "working" /\ \A d \in Claimers \ {c} : run'[d] = run[d]
    BY <1>3, PublishRun DEF Becomes
  <2>2. lock = c /\ lock' = Free
    BY <1>3 DEF ClaimPublish, SelectorHoldsLock
  <2> QED BY <1>0, <2>1, <2>2 DEF SelectorHoldsLock
<1>4. ASSUME NEW c \in Claimers, RunEnds(c) PROVE SelectorHoldsLock'
  <2>1. run'[c].step = "idle" /\ \A d \in Claimers \ {c} : run'[d] = run[d]
    BY <1>4, EndRun DEF Becomes
  <2>2. lock' # c /\ \A d \in Claimers \ {c} : lock' = d <=> lock = d
    BY <1>0, <1>4 DEF RunEnds
  <2> QED BY <2>1, <2>2 DEF SelectorHoldsLock
<1>5. ASSUME NEW c \in Claimers, NEW s \in Sessions, Record(c, s) PROVE SelectorHoldsLock'
  BY <1>5, RecordRun DEF SelectorHoldsLock, Record, Becomes
<1>6. CASE Tick
  BY <1>6, TickRuns DEF SelectorHoldsLock, Tick
<1> QED BY <1>1, <1>2, <1>3, <1>4, <1>5, <1>6 DEF Next, vars, Turn, Detach, Seal

-----------------------------------------------------------------------------
(* What is selected is not worked on.                                      *)

LEMMA SelectionIsExcused ==
    ASSUME LeaseIInv, NEW c \in Claimers, ClaimSelect(c), NEW d \in Claimers, d # c,
           NEW s \in Batch, s \in run[d].batch
    PROVE  Overran(d) \/ Touched(d, s)
<1>0. TypeOK /\ s \in Sessions
  BY BatchType DEF LeaseIInv
<1>1. ~LearnedCurrent(s) /\ s \notin lease.sids
  BY BatchType DEF Eligible, InFlight
<1>2. run[d].step = "working"
  <2>1. run[d].step # "selected"
    BY LearningAssumption DEF LeaseIInv, SelectorHoldsLock, ClaimSelect, LockFree
  <2>2. run[d].step # "idle"
    BY DEF LeaseIInv, IdleIsEmpty
  <2> QED BY <1>0, <2>1, <2>2, RunTypes
<1>3. Leased(d, s) \/ LearnedCurrent(s) \/ Overran(d) \/ Touched(d, s)
  BY <1>2, Zenon DEF LeaseIInv, WorkIsProtected
<1> QED BY <1>1, <1>3 DEF Leased

(* A batch only ever shrinks, but for a selection.                         *)
LEMMA BatchesShrink ==
    ASSUME LeaseIInv, [Next]_vars, NEW c \in Claimers, ~ClaimSelect(c)
    PROVE  /\ run'[c].batch \subseteq run[c].batch
           /\ IdleIsEmpty => (run'[c].step = "idle" => run'[c].batch = {})
<1>0. TypeOK
  BY DEF LeaseIInv
<1>1. CASE UNCHANGED run
  BY <1>1 DEF IdleIsEmpty
<1>2. ASSUME NEW d \in Claimers, ClaimSelect(d) PROVE run'[c] = run[c]
  BY <1>0, <1>2, SelectRun DEF Becomes
<1>3. ASSUME NEW d \in Claimers, NEW step, NEW batch, NEW left, Becomes(d, step, batch, left),
             batch \subseteq run[d].batch, step = "idle" => batch = {}
      PROVE  /\ run'[c].batch \subseteq run[c].batch
             /\ IdleIsEmpty => (run'[c].step = "idle" => run'[c].batch = {})
  BY <1>3 DEF IdleIsEmpty, Becomes
<1>4. ASSUME NEW d \in Claimers, ClaimPublish(d)
      PROVE  /\ run'[c].batch \subseteq run[c].batch
             /\ IdleIsEmpty => (run'[c].step = "idle" => run'[c].batch = {})
  BY <1>0, <1>3, <1>4, PublishRun
<1>5. ASSUME NEW d \in Claimers, RunEnds(d)
      PROVE  /\ run'[c].batch \subseteq run[c].batch
             /\ IdleIsEmpty => (run'[c].step = "idle" => run'[c].batch = {})
  BY <1>0, <1>3, <1>5, EndRun
<1>6. ASSUME NEW d \in Claimers, NEW s \in Sessions, Record(d, s)
      PROVE  /\ run'[c].batch \subseteq run[c].batch
             /\ IdleIsEmpty => (run'[c].step = "idle" => run'[c].batch = {})
  <2>1. Becomes(d, run[d].step, run[d].batch \ {s}, run[d].left) /\ run[d].step = "working"
    BY <1>0, <1>6, RecordRun DEF Record
  <2> QED BY <1>3, <2>1
<1>7. CASE Tick
  BY <1>0, <1>7, TickRuns DEF IdleIsEmpty
<1> QED BY <1>1, <1>2, <1>4, <1>5, <1>6, <1>7 DEF Next, vars, Turn, Detach, Seal, IdleIsEmpty

LEMMA IdleStep ==
    ASSUME LeaseIInv, [Next]_vars
    PROVE  IdleIsEmpty'
<1> SUFFICES ASSUME NEW c \in Claimers, run'[c].step = "idle"
             PROVE  run'[c].batch = {}
  BY DEF IdleIsEmpty
<1>1. CASE ClaimSelect(c)
  BY <1>1, SelectRun DEF LeaseIInv, Becomes
<1>2. CASE ~ClaimSelect(c)
  BY <1>2, BatchesShrink DEF LeaseIInv
<1> QED BY <1>1, <1>2

LEMMA OffersAreExcused ==
    ASSUME LeaseIInv, [Next]_vars, NEW c \in Claimers, NEW d \in Claimers, NEW s \in Sessions,
           c # d, s \in run[d].batch, s \notin run[c].batch, s \in run'[c].batch
    PROVE  Overran(d) \/ Touched(d, s)
<1>1. ClaimSelect(c)
  BY BatchesShrink
<1>2. s \in Batch
  BY <1>1, SelectRun DEF LeaseIInv, Becomes
<1> QED BY <1>1, <1>2, SelectionIsExcused

-----------------------------------------------------------------------------
(* A session in work is in the lease, looks learned, or is excused.        *)

Excused(c, s) == LearnedCurrent(s) \/ Overran(c) \/ Touched(c, s)

LEMMA FilesKeepExcused ==
    ASSUME NEW c \in Claimers, NEW s \in Sessions,
           UNCHANGED <<raw[s], detached[s], sealed[s], age[s], prior[s], pass[s]>>,
           UNCHANGED <<run[c].step, run[c].left>>, Excused(c, s)
    PROVE  Excused(c, s)'
  BY DEF Excused, LearnedCurrent, Overran, Touched, Frozen

LEMMA NoPassNotGiven == NoPass.given = FALSE
  BY DEF NoPass

(* What the session does while it is worked on leaves it excused.          *)
LEMMA ExcuseKept ==
    ASSUME LeaseIInv, NEW c \in Claimers, run[c].step = "working", NEW s \in Sessions,
           Excused(c, s), NEW t \in Sessions, Turn(t) \/ Detach(t) \/ Seal(t), UNCHANGED run
    PROVE  Excused(c, s)'
<1>0. /\ TypeOK /\ run[c].left \in Nat /\ run[c].left <= Allowance
      /\ sealed[s] \in Nat /\ detached[s] \in Nat /\ raw[s] \in Nat
      /\ s \in DOMAIN raw /\ s \in DOMAIN detached /\ s \in DOMAIN sealed /\ s \in DOMAIN age
      /\ s \in DOMAIN pass /\ s \in DOMAIN prior
  BY FileTypes, RunTypes, Parameters DEF LeaseIInv, TypeOK
<1>1. CASE s # t
  <2>1. UNCHANGED <<raw[s], detached[s], sealed[s], age[s], prior[s], pass[s]>>
    BY <1>0, <1>1 DEF Turn, Detach, Seal
  <2> QED BY <2>1, FilesKeepExcused
<1>2. CASE Overran(c)
  BY <1>2 DEF Excused, Overran
<1>3. ASSUME s = t, ~Overran(c)
      PROVE  Excused(c, s)'
  <2>1. pass[s] # NoPass
    BY <1>3 DEF Excused, LearnedCurrent, Touched
  <2>2. pass[s].given
    BY <2>1 DEF LeaseIInv, PassesAreGiven
  <2>3. CASE Turn(t)
    <3>1. raw'[s] > 0 /\ age'[s] = 0
      BY <1>0, <1>3, <2>3 DEF Turn
    <3>2. pass'[s].given
      BY <1>0, <1>3, <2>2, <2>3 DEF Turn, TypeOK, Pass
    <3>3. age'[s] + run'[c].left <= Allowance
      BY <1>0, <3>1
    <3> QED BY <3>1, <3>2, <3>3, NoPassNotGiven DEF Excused, Touched
  <2>4. CASE Detach(t)
    <3>1. raw'[s] = 0
      BY <1>0, <1>3, <2>4 DEF Detach
    <3>2. pass'[s].given
      BY <1>0, <1>3, <2>2, <2>4 DEF Detach
    <3> QED BY <3>1, <3>2, NoPassNotGiven DEF Excused, LearnedCurrent
  <2>5. CASE Seal(t)
    <3>1. /\ UNCHANGED <<raw[s], age[s], prior[s], pass[s]>>
          /\ detached'[s] + sealed'[s] = detached[s] + sealed[s]
          /\ sealed'[s] + detached'[s] = sealed[s] + detached[s]
      BY <1>0, <1>3, <2>5 DEF Seal
    <3> QED BY <3>1 DEF Excused, LearnedCurrent, Overran, Touched, Frozen
  <2> QED BY <2>3, <2>4, <2>5
<1> QED BY <1>1, <1>2, <1>3

(* A record of another run makes it look learned, or the generation before  *)
(* was written in this very tick.                                           *)
LEMMA RecordExcuses ==
    ASSUME LeaseIInv, NEW d \in Claimers, NEW s \in Sessions, Record(d, s),
           NEW c \in Claimers, run'[c].step = "working"
    PROVE  Excused(c, s)'
<1>0. TypeOK /\ prior[s] \in Nat /\ s \in DOMAIN pass
  BY FileTypes DEF LeaseIInv, TypeOK
<1>1. /\ pass'[s].given /\ pass'[s].afterPrevious = (prior[s] > 0)
      /\ UNCHANGED <<raw, sealed, detached, age, prior>>
  BY <1>0 DEF Record, files
<1>2. run'[c].left \in Nat /\ run'[c].left <= Allowance
  <2>1. run'[c] \in Runs
    BY <1>0, RecordRun DEF Becomes
  <2> QED BY <2>1, Parameters DEF Runs
<1>3. pass'[s] # NoPass
  BY <1>1, NoPassNotGiven
<1>4. CASE ~Frozen(s) \/ prior[s] > 0
  BY <1>1, <1>3, <1>4 DEF Excused, LearnedCurrent, Frozen
<1>5. CASE Frozen(s) /\ prior[s] = 0
  BY <1>1, <1>2, <1>3, <1>5 DEF Excused, Touched, Frozen
<1> QED BY <1>0, <1>4, <1>5

LEMMA TickKeeps ==
    ASSUME LeaseIInv, Tick, NEW c \in Claimers, run[c].step = "working", NEW s \in Sessions,
           (lock = Free /\ Leased(c, s)) \/ Excused(c, s)
    PROVE  ((lock = Free /\ Leased(c, s)) \/ Excused(c, s))'
<1>0. /\ TypeOK /\ run[c].left \in Nat /\ run[c].left <= Allowance /\ lease.left \in Nat
      /\ age[s] \in Nat /\ prior[s] \in Nat
      /\ lease \in Leases
  BY FileTypes, RunTypes, Parameters DEF LeaseIInv, TypeOK, Leases
<1>1. run'[c].step = "working" /\ run'[c].left = CountDown(run[c].left)
  BY <1>0, TickRuns
<1>2. CASE run[c].left <= 1
  BY <1>0, <1>1, <1>2 DEF CountDown, Excused, Overran
<1>3. CASE run[c].left > 1
  <2>1. run'[c].left = run[c].left - 1
    BY <1>0, <1>1, <1>3 DEF CountDown
  <2>2. UNCHANGED <<sealed, detached, raw, pass, lock>>
    BY DEF Tick
  <2>3. CASE lock = Free /\ Leased(c, s)
    <3>1. lease.left > 1
      BY <1>0, <1>3, <2>3 DEF Leased
    <3>2. lease' = [lease EXCEPT !.left = lease.left - 1]
      BY <3>1 DEF Tick, LeaseLeft
    <3>3. lease'.sids = lease.sids /\ lease'.left = lease.left - 1
      BY <1>0, <3>2 DEF Leases
    <3> QED BY <1>0, <2>1, <2>2, <2>3, <3>3 DEF Leased
  <2>4. CASE LearnedCurrent(s)
    BY <2>2, <2>4 DEF Excused, LearnedCurrent, Frozen
  <2>5. CASE Touched(c, s)
    <3>1. raw[s] > 0 => age'[s] = CountUp(age[s])
      BY DEF Tick
    <3>2. Frozen(s) => prior'[s] = CountUp(prior[s])
      BY DEF Tick
    <3>3. CountUp(age[s]) <= age[s] + 1 /\ CountUp(prior[s]) <= prior[s] + 1
          /\ CountUp(age[s]) \in Nat /\ CountUp(prior[s]) \in Nat
      BY <1>0, Parameters DEF CountUp
    <3>4. raw[s] > 0 /\ age[s] + run[c].left <= Allowance
            => age'[s] + run'[c].left <= Allowance
      BY <1>0, <1>3, <2>1, <3>1, <3>3, Parameters
    <3>5. Frozen(s) /\ prior[s] + run[c].left <= Allowance
            => prior'[s] + run'[c].left <= Allowance
      BY <1>0, <1>3, <2>1, <3>2, <3>3, Parameters
    <3> QED BY <1>1, <2>2, <2>5, <3>4, <3>5 DEF Excused, Touched, Frozen
  <2>6. ~Overran(c)
    BY <1>0, <1>3 DEF Overran
  <2> QED BY <2>3, <2>4, <2>5, <2>6 DEF Excused
<1> QED BY <1>0, <1>2, <1>3

LEMMA ProtectedStep ==
    ASSUME LeaseIInv, [Next]_vars
    PROVE  WorkIsProtected'
<1> DEFINE Protected(c, s) == (lock = Free /\ Leased(c, s)) \/ Excused(c, s)
<1>0. /\ TypeOK /\ SelectorHoldsLock /\ Free \notin Claimers
  BY LearningAssumption DEF LeaseIInv
<1> SUFFICES ASSUME NEW c \in Claimers, run'[c].step = "working", NEW s \in run'[c].batch
             PROVE  Protected(c, s)'
  BY DEF WorkIsProtected, Excused
<1>1. s \in Sessions
  BY <1>0, RunsStep DEF Runs
<1>2. ASSUME run[c].step = "working", s \in run[c].batch
      PROVE  Protected(c, s)
  BY <1>2 DEF LeaseIInv, WorkIsProtected, Excused
<1>3. ASSUME run'[c] = run[c], UNCHANGED <<files, pass, lease>>, lock = Free => lock' = Free
      PROVE  Protected(c, s)'
  BY <1>1, <1>2, <1>3, FilesKeepExcused DEF Leased, files
<1>4. ASSUME NEW t \in Sessions, Turn(t) \/ Detach(t) \/ Seal(t)
      PROVE  Protected(c, s)'
  <2>1. UNCHANGED <<run, lease, lock>>
    BY <1>4 DEF Turn, Detach, Seal
  <2>2. CASE lock = Free /\ Leased(c, s)
    BY <2>1, <2>2 DEF Leased
  <2>3. CASE Excused(c, s)
    BY <1>1, <1>4, <2>1, <2>3, ExcuseKept
  <2> QED BY <1>2, <2>1, <2>2, <2>3
<1>5. ASSUME NEW d \in Claimers, ClaimSelect(d)
      PROVE  Protected(c, s)'
  <2>1. d # c /\ run'[c] = run[c]
    BY <1>0, <1>5, SelectRun DEF Becomes
  <2>2. ASSUME Leased(c, s) PROVE LearnedCurrent(s)
    BY <1>5, <2>2, Zenon DEF ClaimSelect, LeaseDone, InFlight, Leased
  <2>3. Excused(c, s)
    BY <1>2, <2>1, <2>2 DEF Excused
  <2>4. UNCHANGED <<sealed, detached, raw, age, prior, pass>>
    BY <1>5 DEF ClaimSelect, files
  <2> QED BY <1>1, <2>1, <2>3, <2>4, FilesKeepExcused
<1>6. ASSUME NEW d \in Claimers, ClaimPublish(d)
      PROVE  Protected(c, s)'
  <2>1. CASE c = d
    <3>1. lease' = [sids |-> run[c].batch, left |-> Allowance] /\ lock' = Free
      BY <1>6, <2>1 DEF ClaimPublish, LeaseTime, Allowance
    <3>2. run'[c].batch = run[c].batch /\ run'[c].left = Allowance
      BY <1>0, <1>6, <2>1, PublishRun DEF Becomes
    <3> QED BY <3>1, <3>2, Parameters DEF Leased
  <2>2. CASE c # d
    <3>1. run'[c] = run[c]
      BY <1>0, <1>6, <2>2, PublishRun DEF Becomes
    <3>2. lock # Free
      BY <1>0, <1>6 DEF ClaimPublish, SelectorHoldsLock
    <3>3. Excused(c, s)
      BY <1>2, <3>1, <3>2
    <3>4. UNCHANGED <<sealed, detached, raw, age, prior, pass>>
      BY <1>6 DEF ClaimPublish, files
    <3> QED BY <1>1, <3>1, <3>3, <3>4, FilesKeepExcused
  <2> QED BY <2>1, <2>2
<1>7. ASSUME NEW d \in Claimers, RunEnds(d)
      PROVE  Protected(c, s)'
  <2>1. run'[c] = run[c]
    BY <1>0, <1>7, EndRun DEF Becomes
  <2> QED BY <1>3, <1>7, <2>1 DEF RunEnds
<1>8. ASSUME NEW d \in Claimers, NEW t \in Sessions, Record(d, t)
      PROVE  Protected(c, s)'
  <2>0. Becomes(d, run[d].step, run[d].batch \ {t}, run[d].left)
    BY <1>0, <1>8, RecordRun
  <2>1. /\ run'[c].step = run[c].step /\ run'[c].left = run[c].left
        /\ s \in run[c].batch
    BY <2>0 DEF Becomes
  <2>2. CASE s = t
    BY <1>8, <2>2, RecordExcuses
  <2>3. CASE s # t
    <3>1. UNCHANGED <<sealed, detached, raw, age, prior, pass[s], lease, lock>>
      BY <1>0, <1>1, <1>8, <2>3 DEF Record, TypeOK, files
    <3> QED BY <1>1, <1>2, <2>1, <3>1, FilesKeepExcused DEF Leased
  <2> QED BY <2>2, <2>3
<1>9. CASE Tick
  <2>1. run[c].step = "working" /\ s \in run[c].batch
    BY <1>0, <1>9, TickRuns
  <2>2. Protected(c, s)
    BY <1>2, <2>1
  <2> HIDE DEF Protected
  <2> QED BY <1>1, <1>9, <2>1, <2>2, TickKeeps DEF Protected
<1>10. CASE UNCHANGED vars
  BY <1>3, <1>10 DEF vars
<1> QED BY <1>4, <1>5, <1>6, <1>7, <1>8, <1>9, <1>10 DEF Next

-----------------------------------------------------------------------------
LEMMA LeaseIInvInit == Init => LeaseIInv
<1> SUFFICES ASSUME Init PROVE LeaseIInv
  OBVIOUS
<1>1. NoPass \in Pass /\ 0 \in 0..MaxAge /\ 0 \in Nat /\ NoLease \in Leases
  BY Parameters DEF NoPass, Pass, NoLease, Leases
<1>2. IdleRun \in Runs /\ IdleRun.batch = {} /\ IdleRun.step = "idle"
  BY IdleRunType DEF IdleRun
<1>3. Cardinality({}) <= MaxBatch
  BY FS_EmptySet, Parameters
<1>4. \A s \in Sessions : Turns(s) <= MaxTurns[s]
  BY Parameters DEF Init, Turns
<1>5. TypeOK
  BY <1>1, <1>2, <1>3, <1>4 DEF Init, TypeOK, Leases
<1>6. PassesAreGiven
  BY DEF Init, PassesAreGiven
<1>7. SelectorHoldsLock /\ IdleIsEmpty /\ WorkIsProtected
  BY <1>2, LearningAssumption DEF Init, SelectorHoldsLock, IdleIsEmpty, WorkIsProtected
<1> QED BY <1>5, <1>6, <1>7 DEF LeaseIInv

(* Whatever a run works on is in the lease for as long as its own claim and *)
(* grace last, or was given up with a lease whose sessions looked learned.  *)
THEOREM WorkStaysProtected == Spec => []LeaseIInv
<1>1. LeaseIInv /\ [Next]_vars => LeaseIInv'
  <2> SUFFICES ASSUME LeaseIInv, [Next]_vars PROVE LeaseIInv'
    OBVIOUS
  <2>1. TypeOK /\ PassesAreGiven /\ SelectorHoldsLock
    BY DEF LeaseIInv
  <2>2. lease' \in Leases /\ lock' \in Claimers \cup {Free}
    BY <2>1, LeaseStep
  <2>3. TypeOK' /\ PassesAreGiven'
    BY <2>1, <2>2, FilesStep, PassStep, AgesStep, RunsStep DEF TypeOK, Leases
  <2> QED BY <2>1, <2>3, SelectorStep, IdleStep, ProtectedStep DEF LeaseIInv
<1> QED BY <1>1, LeaseIInvInit, PTL DEF Spec

(* However many runs of a learner overlap, outlive their claim, die and     *)
(* give their lease up early: a run is offered a session another one works  *)
(* on only when that one has outlived its lease, or when a file of the      *)
(* session was written after an earlier pass had made it look learned.      *)
THEOREM SessionsAreApart == Spec => NoSessionInTwoRuns
<1>1. LeaseIInv /\ [Next]_vars =>
        [\A c, d \in Claimers, s \in Sessions :
            c # d /\ s \in run[d].batch /\ s \notin run[c].batch /\ s \in run'[c].batch
                => Overran(d) \/ Touched(d, s)]_vars
  BY OffersAreExcused
<1> QED BY <1>1, WorkStaysProtected, PTL DEF Spec, NoSessionInTwoRuns
=============================================================================
