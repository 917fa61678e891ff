----------------------------- MODULE VaultProofs ------------------------------
(***************************************************************************)
(* What a vault keeps and gives back.  Sealing: for every number of turns, *)
(* snapshots, crashes and faults, zstd's lies among them, the generations  *)
(* of a session hold every record once and in order, a reader is shown     *)
(* them so, and nothing the scrub redacts is sealed.  ArchiveIInv is the   *)
(* inductive invariant.  Codec: a delta gives back the body it was made    *)
(* of, for every choice of fields, values, messages and bodies.  Reading:  *)
(* the reader of a session that is sealed meanwhile gets back the latest   *)
(* conversation it was shown; the forms of a capture, the derivations of   *)
(* its harness and the interleavings of an answer do not matter.           *)
(*                                                                         *)
(* A sealed file is flattened by FlattenSeq, and a capture is read by      *)
(* FoldLeft; both choose a function by recursive equations.  That there is *)
(* one, and what it is at the next place, follows from the least           *)
(* counterexample: a fold ends where its trace ends (Traces).              *)
(***************************************************************************)
EXTENDS Reading, SequenceTheorems, FiniteSetTheorems, WellFoundedInduction, TLAPS

-----------------------------------------------------------------------------
(* What flattening frames gives.                                           *)

\* A set of numbers with a member has a least one.
LEMMA LeastNatural ==
    ASSUME NEW S \in SUBSET Nat, S # {}
    PROVE  \E m \in S : \A n \in S : m <= n
<1> DEFINE R == {ss \in Nat \X Nat : ss[1] < ss[2]}
<1>1. IsWellFoundedOn(R, Nat)
  BY NatLessThanWellFounded DEF OpToRel
<1>2. PICK m \in S : \A n \in S : ~(<<n, m>> \in R)
  <2> HIDE DEF R
  <2> QED  BY <1>1, WFMin
<1>3. ASSUME NEW n \in S PROVE m <= n
  <2>1. m \in Nat /\ n \in Nat /\ ~(n < m)
    BY <1>2
  <2> QED  BY <2>1
<1> HIDE DEF R
<1> QED  BY <1>3

\* Flattening accumulates.
Accumulates(ss, f, n) ==
    \A i \in 1..n : f[i] = IF i = 1 THEN ss[i] ELSE f[i-1] \o ss[i]

\* There is an accumulation of every length, by the least one without.
LEMMA AccumulationExists ==
    ASSUME NEW D, NEW ss \in Seq(Seq(D))
    PROVE  \A n \in 1..Len(ss) : \E g \in [1..n -> Seq(D)] : Accumulates(ss, g, n)
<1> DEFINE Good(n) == \E g \in [1..n -> Seq(D)] : Accumulates(ss, g, n)
           Bad == {n \in 1..Len(ss) : ~Good(n)}
<1> SUFFICES ASSUME Bad # {} PROVE FALSE
  OBVIOUS
<1>1. Bad \in SUBSET Nat
  OBVIOUS
<1>2. PICK n \in Bad : \A m \in Bad : n <= m
  <2> HIDE DEF Bad
  <2> QED  BY <1>1, LeastNatural
<1>3. n \in 1..Len(ss) /\ ~Good(n) /\ ss[n] \in Seq(D)
  OBVIOUS
<1>4. CASE n = 1
  <2> DEFINE g == [i \in 1..1 |-> ss[1]]
  <2>1. g \in [1..n -> Seq(D)] /\ Accumulates(ss, g, n)
    BY <1>3, <1>4 DEF Accumulates
  <2> QED  BY <2>1, <1>3
<1>5. CASE n > 1
  <2>1. n - 1 \in 1..Len(ss) /\ ~(n <= n - 1)
    BY <1>3, <1>5
  <2>2. Good(n - 1)
    BY <2>1, <1>2
  <2>3. PICK g \in [1..(n-1) -> Seq(D)] : Accumulates(ss, g, n - 1)
    BY <2>2
  <2> DEFINE h == [i \in 1..n |-> IF i < n THEN g[i] ELSE g[n-1] \o ss[n]]
  <2>4. g[n-1] \in Seq(D) /\ g[n-1] \o ss[n] \in Seq(D)
    BY <1>3, <1>5, <2>1, ConcatProperties
  <2>5. h \in [1..n -> Seq(D)]
    BY <1>3, <2>4
  <2>6. Accumulates(ss, h, n)
    <3> SUFFICES ASSUME NEW i \in 1..n
                 PROVE  h[i] = IF i = 1 THEN ss[i] ELSE h[i-1] \o ss[i]
      BY DEF Accumulates
    <3>1. CASE i = 1
      <4>1. 1 \in 1..(n-1) /\ 1 < n /\ 1 \in 1..n
        BY <1>3, <1>5
      <4>2. h[1] = g[1] /\ g[1] = ss[1]
        BY <4>1, <2>3 DEF Accumulates
      <4> QED  BY <3>1, <4>2
    <3>2. CASE i # 1 /\ i < n
      <4>1. i \in 1..(n-1) /\ i - 1 \in 1..n /\ i - 1 < n
        BY <3>2, <1>3
      <4>2. h[i] = g[i] /\ h[i-1] = g[i-1]
        BY <4>1, <3>2
      <4>3. g[i] = g[i-1] \o ss[i]
        BY <4>1, <3>2, <2>3 DEF Accumulates
      <4> QED  BY <4>2, <4>3, <3>2
    <3>3. CASE i # 1 /\ ~(i < n)
      <4>1. i = n /\ n - 1 \in 1..n /\ n - 1 < n /\ ~(n < n) /\ n \in 1..n
        BY <3>3, <1>3
      <4>2. h[n] = g[n-1] \o ss[n]
        BY <4>1
      <4>3. h[n-1] = g[n-1]
        BY <4>1
      <4> QED  BY <4>1, <4>2, <4>3, <3>3
    <3> QED  BY <3>1, <3>2, <3>3
  <2> HIDE DEF h
  <2> QED  BY <2>5, <2>6, <1>3
<1> HIDE DEF Bad, Good
<1> QED  BY <1>3, <1>4, <1>5

\* There is one accumulation only, by the least index where two differ.
LEMMA AccumulationIsUnique ==
    ASSUME NEW ss, NEW n \in Nat, NEW f, NEW g, Accumulates(ss, f, n), Accumulates(ss, g, n)
    PROVE  \A i \in 1..n : f[i] = g[i]
<1> DEFINE Bad == {i \in 1..n : f[i] # g[i]}
<1> SUFFICES ASSUME Bad # {} PROVE FALSE
  OBVIOUS
<1>1. Bad \in SUBSET Nat
  OBVIOUS
<1>2. PICK i \in Bad : \A j \in Bad : i <= j
  <2> HIDE DEF Bad
  <2> QED  BY <1>1, LeastNatural
<1>3. i \in 1..n /\ f[i] # g[i]
  OBVIOUS
<1>4. i # 1
  BY <1>3 DEF Accumulates
<1>5. i - 1 \in 1..n /\ ~(i <= i - 1)
  BY <1>3, <1>4
<1>6. f[i-1] = g[i-1]
  BY <1>5, <1>2
<1> QED  BY <1>3, <1>4, <1>6 DEF Accumulates

\* FlattenSeq chooses the accumulation, and is its last value.
LEMMA FlattenIsTheLast ==
    ASSUME NEW D, NEW ss \in Seq(Seq(D)), ss # <<>>,
           NEW g \in [1..Len(ss) -> Seq(D)], Accumulates(ss, g, Len(ss))
    PROVE  FlattenSeq(ss) = g[Len(ss)]
<1> DEFINE Step(f) == [i \in 1..Len(ss) |-> IF i = 1 THEN ss[i] ELSE f[i-1] \o ss[i]]
           c == CHOOSE f : f = Step(f)
<1>1. Len(ss) \in Nat \ {0}
  OBVIOUS
<1>2. g = Step(g)
  BY DEF Accumulates
<1>3. c = Step(c)
  <2> HIDE DEF Step
  <2> QED  BY <1>2
<1>4. Accumulates(ss, c, Len(ss))
  <2> HIDE DEF c
  <2> QED  BY <1>3 DEF Accumulates
<1>5. c[Len(ss)] = g[Len(ss)]
  <2> HIDE DEF c, Step
  <2> QED  BY <1>1, <1>4, AccumulationIsUnique
<1>6. FlattenSeq(ss) = c[Len(ss)]
  BY <1>1 DEF FlattenSeq
<1> QED  BY <1>5, <1>6

\* Flattening keeps the type of the items.
LEMMA FlattenType ==
    ASSUME NEW D, NEW ss \in Seq(Seq(D))
    PROVE  FlattenSeq(ss) \in Seq(D)
<1>1. CASE ss = <<>>
  BY <1>1 DEF FlattenSeq
<1>2. CASE ss # <<>>
  <2>1. Len(ss) \in 1..Len(ss)
    BY <1>2
  <2>2. PICK g \in [1..Len(ss) -> Seq(D)] : Accumulates(ss, g, Len(ss))
    BY <2>1, AccumulationExists
  <2>3. FlattenSeq(ss) = g[Len(ss)]
    BY <1>2, <2>2, FlattenIsTheLast
  <2> QED  BY <2>1, <2>3
<1> QED  BY <1>1, <1>2

\* What flattening no frame, one frame and one frame more gives.
LEMMA FlattenEmpty == FlattenSeq(<<>>) = <<>>
BY DEF FlattenSeq

\* A single frame flattens to itself.
LEMMA FlattenOne ==
    ASSUME NEW D, NEW s \in Seq(D)
    PROVE  FlattenSeq(<<s>>) = s
<1> DEFINE g == [i \in 1..1 |-> s]
           ss == <<s>>
<1>1. ss \in Seq(Seq(D)) /\ ss # <<>> /\ Len(ss) = 1
  OBVIOUS
<1>2. g \in [1..Len(ss) -> Seq(D)] /\ Accumulates(ss, g, Len(ss)) /\ g[Len(ss)] = s
  BY DEF Accumulates
<1> HIDE DEF g, ss
<1>3. FlattenSeq(ss) = s
  BY <1>1, <1>2, FlattenIsTheLast
<1> QED  BY <1>3 DEF ss

\* A frame appended to a sealed file is appended to what the file decodes to.
LEMMA FlattenAppend ==
    ASSUME NEW D, NEW ss \in Seq(Seq(D)), NEW s \in Seq(D)
    PROVE  FlattenSeq(Append(ss, s)) = FlattenSeq(ss) \o s
<1> DEFINE more == Append(ss, s)
           n == Len(ss)
<1>1. /\ more \in Seq(Seq(D)) /\ more # <<>> /\ Len(more) = n + 1 /\ n \in Nat
      /\ more[n + 1] = s /\ \A i \in 1..n : more[i] = ss[i]
  BY AppendProperties
<1>2. CASE ss = <<>>
  <2>1. more = <<s>>
    BY <1>2
  <2>2. FlattenSeq(ss) \o s = s
    BY <1>2, FlattenEmpty
  <2> QED  BY <2>1, <2>2, FlattenOne
<1>3. CASE ss # <<>>
  <2> HIDE DEF more
  <2>1. n \in 1..n /\ n \in 1..Len(more) /\ n + 1 \in 1..Len(more) /\ n + 1 # 1
    BY <1>1, <1>3
  <2>2. PICK g \in [1..Len(more) -> Seq(D)] : Accumulates(more, g, Len(more))
    BY <1>1, <2>1, AccumulationExists
  <2>3. FlattenSeq(more) = g[n + 1]
    BY <1>1, <2>2, FlattenIsTheLast
  <2>4. g[n + 1] = g[n] \o s
    <3>1. (n + 1) - 1 = n
      BY <1>1
    <3> QED  BY <1>1, <2>1, <2>2, <3>1 DEF Accumulates
  <2> DEFINE h == [i \in 1..n |-> g[i]]
  <2>5. h \in [1..n -> Seq(D)] /\ h[n] = g[n]
    BY <2>1, <1>1
  <2>6. Accumulates(ss, h, n)
    <3> SUFFICES ASSUME NEW i \in 1..n
                 PROVE  h[i] = IF i = 1 THEN ss[i] ELSE h[i-1] \o ss[i]
      BY DEF Accumulates
    <3>1. i \in 1..Len(more) /\ h[i] = g[i] /\ more[i] = ss[i] /\ (i # 1 => i - 1 \in 1..n)
      BY <1>1
    <3>2. i # 1 => h[i-1] = g[i-1]
      BY <3>1
    <3>3. g[i] = IF i = 1 THEN more[i] ELSE g[i-1] \o more[i]
      BY <3>1, <2>2 DEF Accumulates
    <3> QED  BY <3>1, <3>2, <3>3
  <2> HIDE DEF h
  <2>7. FlattenSeq(ss) = h[n]
    BY <1>3, <2>5, <2>6, FlattenIsTheLast
  <2> QED  BY <2>3, <2>4, <2>5, <2>7 DEF more
<1> QED  BY <1>2, <1>3

-----------------------------------------------------------------------------
(* The shape of the state.                                                 *)

\* Every variable starts in its type.
LEMMA TypeInit == Init => TypeOK
<1> SUFFICES ASSUME Init PROVE TypeOK
  OBVIOUS
<1>1. <<>> \in Seq(Records) /\ <<>> \in Seq(Seq(Records))
  OBVIOUS
<1>2. None \in [base : Nat \cup {-1}, body : Seq(Records)]
  BY <1>1 DEF None
<1>3. NotSealing \in [step : {"idle"} \cup Detaching \cup Merging, stream : Streams,
                      frame : Seq(Records)]
  BY <1>1 DEF NotSealing, Streams
<1> QED  BY <1>1, <1>2, <1>3, SealingAssumption DEF Init, TypeOK

\* Every step keeps the shape of the state.
LEMMA TypeStep ==
    ASSUME TypeOK, StagesFollow, MergeKnows, [Next]_vars
    PROVE  TypeOK'
<1> DEFINE Seals == [step : {"idle"} \cup Detaching \cup Merging, stream : Streams,
                     frame : Seq(Records)]
<1>1. /\ MaxTurns \in Nat /\ MaxSnapshots \in Nat /\ MaxCrashes \in Nat /\ MaxFaults \in Nat
      /\ reserved \in 0..MaxTurns /\ drained \in 0..reserved
      /\ snapshots \in 0..MaxSnapshots /\ crashes \in 0..MaxCrashes /\ faults \in 0..MaxFaults
      /\ staged \in SUBSET (1..MaxTurns)
      /\ raw \in [Streams -> Seq(Records)] /\ seal \in Seals
      /\ "turns" \in Streams /\ "herdr" \in Streams
  BY SealingAssumption DEF TypeOK, Streams
<1>2. NotSealing \in Seals
  BY DEF NotSealing, Streams
<1>3. \A n \in 0..(MaxTurns + MaxSnapshots), b \in BOOLEAN : [seq |-> n, clear |-> b] \in Records
  BY <1>1 DEF Records
<1>4. Torn \in Records /\ Garbage \in Records
  BY <1>1 DEF Torn, Garbage, Records
<1>5. \A r \in Records : Redacted(r) \in Records
  BY DEF Redacted, Records
<1>6. \A b \in Seq(Records) : Whole(b) \in Seq(Records)
  BY DEF Whole, Front
<1>7. drained < reserved => Turn(drained + 1) \in Records
  <2> SUFFICES ASSUME drained < reserved PROVE Turn(drained + 1) \in Records
    OBVIOUS
  <2>1. drained + 1 \in 0..(MaxTurns + MaxSnapshots)
    BY <1>1
  <2>2. (drained + 1 \in Leaky) \in BOOLEAN
    OBVIOUS
  <2> QED  BY <2>1, <2>2, <1>3, Zenon DEF Turn
<1> HIDE DEF Seals
<1>8. CASE Reserve
  BY <1>8, <1>1 DEF Reserve, TypeOK
<1>9. CASE CommitBegin
  <2>1. drained + 1 \in 1..MaxTurns
    BY <1>9, <1>1 DEF CommitBegin, TurnOpen
  <2>2. staged' \in SUBSET (1..MaxTurns)
    BY <2>1, <1>9, <1>1 DEF CommitBegin
  <2> QED  BY <2>2, <1>9, <1>1 DEF CommitBegin, TypeOK
<1>10. CASE CommitAppend
  <2>1. drained < reserved
    BY <1>10 DEF CommitAppend, StagesFollow, TurnOpen
  <2>2. Reconciled \in Seq(Records)
    BY <2>1, <1>1, <1>6, <1>7 DEF Reconciled
  <2> QED  BY <2>2, <1>10, <1>1 DEF CommitAppend, TypeOK
<1>11. CASE CommitAdvance
  <2>1. drained < reserved
    BY <1>11 DEF CommitAdvance, StagesFollow, TurnOpen
  <2>2. drained' \in 0..reserved /\ faults' \in 0..MaxFaults
    BY <2>1, <1>11, <1>1 DEF CommitAdvance, Failing
  <2>3. commit' \in {"idle", "append", "advance", "unlink"}
    BY <1>11 DEF CommitAdvance
  <2> QED  BY <2>2, <2>3, <1>11 DEF CommitAdvance, TypeOK
<1>12. CASE CommitUnlink
  <2>1. staged' \in SUBSET (1..MaxTurns)
    BY <1>12, <1>1 DEF CommitUnlink
  <2>2. faults' \in 0..MaxFaults
    BY <1>12, <1>1 DEF CommitUnlink, Failing
  <2> QED  BY <2>1, <2>2, <1>12 DEF CommitUnlink, TypeOK
<1>13. CASE RecoverRetired
  BY <1>13, <1>1 DEF RecoverRetired, TypeOK
<1>14. CASE AppendSnapshot
  <2>1. [seq |-> snapshots + 1, clear |-> FALSE] \in Records
    <3>1. snapshots + 1 \in 0..(MaxTurns + MaxSnapshots)
      BY <1>14, <1>1 DEF AppendSnapshot
    <3> QED  BY <3>1, <1>3
  <2>2. raw' \in [Streams -> Seq(Records)]
    BY <2>1, <1>14, <1>1 DEF AppendSnapshot
  <2>3. snapshots' \in 0..MaxSnapshots
    BY <1>14, <1>1 DEF AppendSnapshot
  <2> QED  BY <2>2, <2>3, <1>14 DEF AppendSnapshot, TypeOK
<1>15. CASE SealBegin
  <2>1. seal' \in Seals
    BY <1>15, <1>2 DEF SealBegin, NotSealing, Seals, Streams, Detaching
  <2> QED  BY <2>1, <1>15 DEF SealBegin, TypeOK, Seals
<1>16. CASE Scrub
  <2>1. seal' \in Seals
    BY <1>16, <1>1 DEF Scrub, Seals, Detaching
  <2> QED  BY <2>1, <1>16, <1>1 DEF Scrub, WithTemp, TypeOK, Seals
<1>17. CASE ScrubReplace
  <2>1. seal' \in Seals
    BY <1>17, <1>1 DEF ScrubReplace, Seals, Detaching
  <2>2. Scrubbed(raw["turns"]) \in Seq(Records)
    <3>1. raw["turns"] \in Seq(Records)
      BY <1>1
    <3>2. \A i \in 1..Len(raw["turns"]) : Redacted(raw["turns"][i]) \in Records
      BY <3>1, <1>5
    <3> QED  BY <3>1, <3>2 DEF Scrubbed
  <2> QED  BY <2>1, <2>2, <1>17, <1>1 DEF ScrubReplace, Replaced, TypeOK, Seals
<1>31. ASSUME NEW s \in Streams, Detached(s)
       PROVE  /\ raw' \in [Streams -> Seq(Records)]
              /\ detached' \in [Streams -> [base : Nat \cup {-1}, body : Seq(Records)]]
  <2>1. Len(sealed[s]) \in Nat /\ raw[s] \in Seq(Records) /\ <<>> \in Seq(Records)
    BY <1>1 DEF TypeOK
  <2>2. [base |-> Len(sealed[s]), body |-> raw[s]] \in [base : Nat \cup {-1}, body : Seq(Records)]
    BY <2>1
  <2> QED  BY <2>1, <2>2, <1>31, <1>1 DEF Detached, BaseLength, TypeOK
<1>18. CASE DetachCapture
  <2>1. seal' \in Seals
    BY <1>18, <1>1 DEF DetachCapture, Seals, Detaching
  <2> QED  BY <2>1, <1>18, <1>1, <1>31 DEF DetachCapture, TypeOK, Seals
<1>19. CASE DetachSidecar
  <2>1. seal' \in Seals
    BY <1>19, <1>1 DEF DetachSidecar, Seals, Merging
  <2>2. /\ raw' \in [Streams -> Seq(Records)]
        /\ detached' \in [Streams -> [base : Nat \cup {-1}, body : Seq(Records)]]
    BY <1>19, <1>1, <1>31 DEF DetachSidecar, TypeOK
  <2> QED  BY <2>1, <2>2, <1>19 DEF DetachSidecar, TypeOK, Seals
<1>20. CASE MergeOpen
  <2>1. seal' \in Seals
    BY <1>20, <1>1, <1>2 DEF MergeOpen, Seals, Merging
  <2>2. temps' \in [Streams -> SUBSET {"scrub", "frame", "merged"}]
    <3>1. seal.stream \in Streams /\ temps \in [Streams -> SUBSET {"scrub", "frame", "merged"}]
      BY <1>1 DEF Seals, TypeOK
    <3>2. /\ Cleaned(seal.stream) \subseteq {"scrub", "frame", "merged"}
          /\ Cleaned(seal.stream) \cup {"frame"} \subseteq {"scrub", "frame", "merged"}
      BY <3>1 DEF Cleaned
    <3>3. \/ temps' = [temps EXCEPT ![seal.stream] = Cleaned(seal.stream)]
          \/ temps' = [temps EXCEPT ![seal.stream] = Cleaned(seal.stream) \cup {"frame"}]
      BY <1>20 DEF MergeOpen
    <3> QED  BY <3>1, <3>2, <3>3
  <2> QED  BY <2>1, <2>2, <1>20, <1>1 DEF MergeOpen, TypeOK, Seals
<1>21. CASE WriteFrame
  <2>1. seal' \in Seals
    <3>1. <<Garbage>> \in Seq(Records) /\ detached[seal.stream].body \in Seq(Records)
      BY <1>1, <1>4 DEF TypeOK, Seals
    <3> QED  BY <3>1, <1>21, <1>1 DEF WriteFrame, Seals, Merging
  <2>2. temps' \in [Streams -> SUBSET {"scrub", "frame", "merged"}]
    BY <1>21, <1>1 DEF WriteFrame, WithTemp, TypeOK, Seals
  <2>3. faults' \in 0..MaxFaults
    <3>1. faults' = faults \/ (faults < MaxFaults /\ faults' = faults + 1)
      BY <1>21 DEF WriteFrame
    <3> QED  BY <3>1, <1>1
  <2> QED  BY <2>1, <2>2, <2>3, <1>21, <1>1 DEF WriteFrame, TypeOK, Seals
<1>22. CASE FrameFails
  <2>1. seal' \in Seals /\ faults' \in 0..MaxFaults
    BY <1>22, <1>1, <1>2 DEF FrameFails
  <2>2. temps' \in [Streams -> SUBSET {"scrub", "frame", "merged"}]
    BY <1>22, <1>1 DEF FrameFails, Replaced, TypeOK, Seals
  <2> QED  BY <2>1, <2>2, <1>22 DEF FrameFails, TypeOK, Seals
<1>23. CASE MergeRename
  <2>1. seal' \in Seals
    <3>1. <<>> \in Seq(Records)
      OBVIOUS
    <3> QED  BY <3>1, <1>23, <1>1 DEF MergeRename, Seals, Merging
  <2>2. sealed' \in [Streams -> Seq(Seq(Records))]
    BY <1>23, <1>1 DEF MergeRename, TypeOK, Seals
  <2>3. temps' \in [Streams -> SUBSET {"scrub", "frame", "merged"}]
    BY <1>23, <1>1 DEF MergeRename, Replaced, TypeOK, Seals
  <2> QED  BY <2>1, <2>2, <2>3, <1>23 DEF MergeRename, TypeOK, Seals
<1>24. CASE MergeCleanup
  <2>1. seal' \in Seals
    BY <1>24, <1>1 DEF MergeCleanup, Seals, Merging
  <2>2. temps' \in [Streams -> SUBSET {"scrub", "frame", "merged"}]
    BY <1>24, <1>1 DEF MergeCleanup, Replaced, TypeOK, Seals
  <2> QED  BY <2>1, <2>2, <1>24 DEF MergeCleanup, TypeOK, Seals
<1>25. CASE Verify
  <2>1. seal' \in Seals
    BY <1>25, <1>1, <1>2 DEF Verify, Seals, Merging
  <2> QED  BY <2>1, <1>25 DEF Verify, TypeOK, Seals
<1>26. CASE Retire
  <2>1. seal' \in Seals
    BY <1>26, <1>1, <1>2 DEF Retire, Seals, Merging, Streams
  <2>2. detached' \in [Streams -> [base : Nat \cup {-1}, body : Seq(Records)]]
    BY <1>26, <1>1 DEF Retire, None, TypeOK, Seals
  <2> QED  BY <2>1, <2>2, <1>26 DEF Retire, TypeOK, Seals
<1>27. CASE Crash
  <2>1. raw' \in [Streams -> Seq(Records)]
    <3>1. Append(Whole(raw["turns"]), Torn) \in Seq(Records)
      BY <1>1, <1>4, <1>6
    <3> QED  BY <3>1, <1>27, <1>1 DEF Crash, Partly
  <2>2. crashes' \in 0..MaxCrashes
    BY <1>27, <1>1 DEF Crash
  <2> QED  BY <2>1, <2>2, <1>27, <1>2 DEF Crash, TypeOK, Seals
<1>28. CASE Restart
  BY <1>28 DEF Restart, TypeOK
<1>29. CASE Serve
  BY <1>29 DEF Serve, TypeOK
<1>30. CASE UNCHANGED vars
  BY <1>30 DEF vars, TypeOK
<1> QED
  BY <1>8, <1>9, <1>10, <1>11, <1>12, <1>13, <1>14, <1>15, <1>16, <1>17, <1>18, <1>19, <1>20,
     <1>21, <1>22, <1>23, <1>24, <1>25, <1>26, <1>27, <1>28, <1>29, <1>30
  DEF Next, Commit, Seal

-----------------------------------------------------------------------------
(* The transactions and what they know.                                    *)

\* A drain and a seal go on excluding each other.
LEMMA OneTransactionStep ==
    ASSUME OneTransaction, [Next]_vars
    PROVE  OneTransaction'
<1>1. CASE UNCHANGED <<commit, seal, daemon>>
  BY <1>1 DEF OneTransaction
<1>2. CASE CommitBegin \/ SealBegin
  BY <1>2 DEF OneTransaction, CommitBegin, SealBegin, FlockFree
<1>3. CASE CommitAppend \/ CommitAdvance \/ CommitUnlink
  BY <1>3 DEF OneTransaction, CommitAppend, CommitAdvance, CommitUnlink
<1>4. CASE Crash \/ Restart \/ Serve
  BY <1>4 DEF OneTransaction, Crash, Restart, Serve, NotSealing
<1>5. CASE Scrub \/ ScrubReplace \/ DetachCapture \/ DetachSidecar \/ MergeOpen
           \/ WriteFrame \/ FrameFails \/ MergeRename \/ MergeCleanup \/ Verify \/ Retire
  <2>1. seal.step # "idle" /\ UNCHANGED <<commit, daemon>>
    BY <1>5 DEF Scrub, ScrubReplace, DetachCapture, DetachSidecar, MergeOpen, WriteFrame,
       FrameFails, MergeRename, MergeCleanup, Verify, Retire
  <2> QED  BY <2>1 DEF OneTransaction
<1>6. CASE Reserve \/ RecoverRetired \/ AppendSnapshot
  BY <1>6, <1>1 DEF Reserve, RecoverRetired, AppendSnapshot
<1> QED  BY <1>1, <1>2, <1>3, <1>4, <1>5, <1>6 DEF Next, Commit, Seal, vars

\* A step of a seal that is past the raw turns: it leaves them, and the capture.
LEMMA SealStepsAreApart ==
    ASSUME TypeOK, SealBegin \/ Scrub \/ DetachSidecar \/ MergeOpen \/ WriteFrame \/ FrameFails
                   \/ MergeRename \/ MergeCleanup \/ Verify \/ Retire
    PROVE  UNCHANGED <<raw["turns"], reserved, drained, staged, commit, snapshots>>
<1>1. CASE DetachSidecar
  BY <1>1 DEF DetachSidecar, Detached, TypeOK, Streams
<1> QED  BY <1>1 DEF SealBegin, Scrub, MergeOpen, WriteFrame, FrameFails, MergeRename,
            MergeCleanup, Verify, Retire

\* Where a step of a seal leads.
LEMMA SealAdvances ==
    ASSUME TypeOK
    PROVE  /\ Scrub => seal.step = "scrub" /\ seal'.step = "replace"
           /\ ScrubReplace => seal.step = "replace" /\ seal'.step = "detach"
           /\ DetachCapture => seal.step = "detach" /\ seal'.step = "sidecar"
           /\ DetachSidecar => seal.step = "sidecar" /\ seal'.step = "open"
           /\ MergeOpen => seal.step = "open" /\ seal'.step \in {"verify", "frame", "idle"}
           /\ WriteFrame => seal.step = "frame" /\ seal'.step = "merge"
           /\ FrameFails => seal.step = "frame" /\ seal'.step = "idle"
           /\ MergeRename => seal.step = "merge" /\ seal'.step = "cleanup"
           /\ MergeCleanup => seal.step = "cleanup" /\ seal'.step = "verify"
           /\ Verify => seal.step = "verify" /\ seal'.step \in {"retire", "idle"}
           /\ Retire => seal.step = "retire" /\ seal'.step \in {"open", "idle"}
<1> DEFINE Seals == [step : {"idle"} \cup Detaching \cup Merging, stream : Streams,
                     frame : Seq(Records)]
<1>1. seal \in Seals /\ NotSealing.step = "idle"
  BY DEF TypeOK, NotSealing
<1>2. /\ Scrub => seal.step = "scrub" /\ seal'.step = "replace"
      /\ ScrubReplace => seal.step = "replace" /\ seal'.step = "detach"
      /\ DetachCapture => seal.step = "detach" /\ seal'.step = "sidecar"
  BY <1>1 DEF Scrub, ScrubReplace, DetachCapture
<1>3. /\ DetachSidecar => seal.step = "sidecar" /\ seal'.step = "open"
      /\ MergeOpen => seal.step = "open" /\ seal'.step \in {"verify", "frame", "idle"}
  BY <1>1 DEF DetachSidecar, MergeOpen
<1>4. WriteFrame => seal.step = "frame" /\ seal'.step = "merge"
  BY <1>1 DEF WriteFrame
<1>5. /\ FrameFails => seal.step = "frame" /\ seal'.step = "idle"
      /\ MergeRename => seal.step = "merge" /\ seal'.step = "cleanup"
      /\ MergeCleanup => seal.step = "cleanup" /\ seal'.step = "verify"
  BY <1>1 DEF FrameFails, MergeRename, MergeCleanup
<1>6. /\ Verify => seal.step = "verify" /\ seal'.step \in {"retire", "idle"}
      /\ Retire => seal.step = "retire" /\ seal'.step \in {"open", "idle"}
  BY <1>1 DEF Verify, Retire
<1> QED  BY <1>2, <1>3, <1>4, <1>5, <1>6

\* Stages stay behind the next turn, and a seal works over a quiet journal.
LEMMA StagesFollowStep ==
    ASSUME TypeOK, OneTransaction, StagesFollow, [Next]_vars
    PROVE  StagesFollow'
<1>1. drained \in Nat /\ reserved \in Nat /\ drained <= reserved
  BY DEF TypeOK
<1>2. CASE UNCHANGED <<raw["turns"], reserved, drained, staged, commit>>
           /\ (seal'.step \in Detaching \ {"sidecar"} => seal.step \in Detaching \ {"sidecar"})
  BY <1>2 DEF StagesFollow, TurnOpen, Explained, JournalQuiet
<1>3. CASE Reserve
  <2>1. seal.step = "idle" /\ commit = "idle" /\ reserved' = reserved + 1
        /\ UNCHANGED <<seal, commit, staged, drained>>
    BY <1>3 DEF Reserve, FlockFree
  <2> QED  BY <2>1 DEF StagesFollow, Detaching
<1>4. CASE CommitBegin
  <2>1. /\ seal.step = "idle" /\ commit' = "append" /\ drained < reserved
        /\ staged' = staged \cup {drained + 1}
        /\ UNCHANGED <<seal, drained, reserved>>
    BY <1>4 DEF CommitBegin, FlockFree, TurnOpen
  <2> QED  BY <2>1, <1>1 DEF StagesFollow, TurnOpen, Detaching
<1>5. CASE CommitAppend
  <2>1. /\ seal.step = "idle" /\ commit = "append" /\ commit' = "advance"
        /\ UNCHANGED <<seal, drained, reserved, staged>>
    BY <1>5 DEF CommitAppend, OneTransaction
  <2>2. Explained(drained + 1)'
    <3>1. raw'["turns"] = Reconciled
      BY <1>5 DEF CommitAppend, TypeOK, Streams
    <3>2. Reconciled # <<>> /\ Last(Reconciled) = Turn(drained + 1)
      <4>1. Whole(raw["turns"]) \in Seq(Records)
        BY DEF Whole, Front, TypeOK, Streams
      <4>2. \A b \in Seq(Records) : Append(b, Turn(drained + 1)) # <<>>
                 /\ Last(Append(b, Turn(drained + 1))) = Turn(drained + 1)
        BY SMTT(60) DEF Last
      <4> QED  BY <4>1, <4>2 DEF Reconciled
    <3> QED  BY <2>1, <3>1, <3>2 DEF Explained
  <2> QED  BY <2>1, <2>2 DEF StagesFollow, TurnOpen, Detaching
<1>6. CASE CommitAdvance
  <2>1. /\ seal.step = "idle" /\ commit = "advance" /\ commit' \in {"idle", "unlink"}
        /\ drained' \in {drained, drained + 1}
        /\ UNCHANGED <<seal, reserved, staged>>
    BY <1>6 DEF CommitAdvance, OneTransaction
  <2>2. \A d, e \in Nat : d <= e => 1..(d + 1) \subseteq 1..(e + 1)
    OBVIOUS
  <2>3. drained' \in Nat /\ drained <= drained'
    BY <2>1, <1>1
  <2>4. 1..(drained + 1) \subseteq 1..(drained' + 1)
    BY <2>2, <2>3, <1>1, Zenon
  <2>5. staged' \subseteq 1..(drained' + 1)
    BY <2>1, <2>4 DEF StagesFollow
  <2>6. commit' \notin {"append", "advance"} /\ seal'.step \notin Detaching \ {"sidecar"}
    BY <2>1 DEF Detaching
  <2> QED  BY <2>5, <2>6 DEF StagesFollow
<1>7. CASE CommitUnlink
  <2>1. seal.step = "idle" /\ commit' = "idle" /\ staged' \subseteq staged
        /\ UNCHANGED <<seal, drained>>
    BY <1>7 DEF CommitUnlink, OneTransaction
  <2> QED  BY <2>1 DEF StagesFollow, Detaching
<1>8. CASE RecoverRetired
  <2>1. seal.step = "idle" /\ commit = "idle" /\ staged' \subseteq staged
        /\ UNCHANGED <<seal, commit, drained>>
    BY <1>8 DEF RecoverRetired, FlockFree
  <2> QED  BY <2>1 DEF StagesFollow, Detaching
<1>9. CASE AppendSnapshot
  BY <1>9, <1>2 DEF AppendSnapshot, TypeOK, Streams
<1>10. CASE SealBegin
  <2>1. UNCHANGED <<raw["turns"], reserved, drained, staged, commit>>
    BY <1>10, SealStepsAreApart
  <2>2. seal'.step \in Detaching \ {"sidecar"} => JournalQuiet
    BY <1>10 DEF SealBegin, NotSealing
  <2> QED  BY <2>1, <2>2 DEF StagesFollow, TurnOpen, Explained, JournalQuiet
<1>11. CASE ScrubReplace \/ DetachCapture
  <2>1. seal.step \in {"replace", "detach"} /\ UNCHANGED <<reserved, drained, staged, commit>>
    BY <1>11 DEF ScrubReplace, DetachCapture
  <2>2. commit = "idle"
    BY <2>1 DEF OneTransaction
  <2>3. JournalQuiet /\ JournalQuiet'
    BY <2>1 DEF StagesFollow, JournalQuiet, Detaching
  <2> QED  BY <2>1, <2>2, <2>3 DEF StagesFollow
<1>12. CASE Scrub \/ DetachSidecar \/ MergeOpen \/ WriteFrame \/ FrameFails
            \/ MergeRename \/ MergeCleanup \/ Verify \/ Retire
  <2>1. UNCHANGED <<raw["turns"], reserved, drained, staged, commit>>
    BY <1>12, SealStepsAreApart
  <2>2. seal'.step \in Detaching \ {"sidecar"} => seal.step \in Detaching \ {"sidecar"}
    BY <1>12, SealAdvances DEF Detaching
  <2> QED  BY <2>1, <2>2, <1>2
<1>13. CASE Crash
  <2>1. seal'.step = "idle" /\ commit' = "idle" /\ UNCHANGED <<staged, drained>>
    BY <1>13 DEF Crash, NotSealing
  <2> QED  BY <2>1 DEF StagesFollow, Detaching
<1>14. CASE Restart \/ Serve \/ UNCHANGED vars
  BY <1>14, <1>2 DEF Restart, Serve, vars
<1> QED
  BY <1>3, <1>4, <1>5, <1>6, <1>7, <1>8, <1>9, <1>10, <1>11, <1>12, <1>13, <1>14
  DEF Next, Commit, Seal

\* Only an append that breaks off tears a record, and only the last.
LEMMA OnlyTheLastIsTornStep ==
    ASSUME TypeOK, OneTransaction, StagesFollow, OnlyTheLastIsTorn, [Next]_vars
    PROVE  OnlyTheLastIsTorn'
<1>1. /\ drained \in Nat /\ reserved \in Nat /\ snapshots \in Nat
      /\ raw \in [Streams -> Seq(Records)] /\ "turns" \in Streams /\ "herdr" \in Streams
  BY SealingAssumption DEF TypeOK, Streams
<1>2. \A b \in Seq(Records) : /\ Whole(b) \in Seq(Records) /\ Len(Whole(b)) <= Len(b)
                              /\ \A i \in 1..Len(Whole(b)) : Whole(b)[i] = b[i]
                              /\ Whole(b) = <<>> \/ Len(Whole(b)) < Len(b) \/ Last(b) # Torn
  BY DEF Whole, Front, Last
<1>3. ASSUME NEW s \in Streams, NEW i \in 1..Len(Whole(raw[s])) PROVE Whole(raw[s])[i].seq > 0
  <2>1. raw[s] \in Seq(Records) /\ i \in DOMAIN raw[s] /\ Whole(raw[s])[i] = raw[s][i]
    BY <1>1, <1>2
  <2>2. ~(raw[s][i] = Torn /\ i = Len(raw[s]))
    BY <2>1, <1>1, <1>2 DEF Last
  <2> QED  BY <2>1, <2>2 DEF OnlyTheLastIsTorn
<1>4. CASE UNCHANGED <<raw, drained>> /\ (TurnOpen => TurnOpen')
  BY <1>4 DEF OnlyTheLastIsTorn
<1>5. CASE CommitAppend
  <2>1. UNCHANGED <<drained, reserved>> /\ raw' = [raw EXCEPT !["turns"] = Reconciled]
    BY <1>5 DEF CommitAppend
  <2>2. /\ Reconciled \in Seq({Turn(drained + 1)} \cup Records)
        /\ \A i \in DOMAIN Reconciled : Reconciled[i].seq > 0
    <3> DEFINE turns == Whole(raw["turns"])
    <3>1. turns \in Seq(Records) /\ \A i \in DOMAIN turns : turns[i].seq > 0
      BY <1>1, <1>2, <1>3
    <3>2. Turn(drained + 1).seq > 0
      BY <1>1 DEF Turn
    <3> HIDE DEF turns
    <3>3. \A i \in DOMAIN Append(turns, Turn(drained + 1)) :
              Append(turns, Turn(drained + 1))[i].seq > 0
      BY <3>1, <3>2
    <3> QED  BY <3>1, <3>3 DEF turns, Reconciled
  <2>3. /\ raw'["turns"] = Reconciled /\ raw'["herdr"] = raw["herdr"]
    BY <2>1, <1>1
  <2> QED  BY <2>1, <2>2, <2>3 DEF OnlyTheLastIsTorn, Streams, TurnOpen
<1>6. CASE CommitAdvance
  <2>1. raw["turns"] # <<>> /\ Last(raw["turns"]) = Turn(drained + 1) /\ UNCHANGED raw
    BY <1>6 DEF CommitAdvance, StagesFollow, Explained
  <2>2. Turn(drained + 1) # Torn
    BY <1>1 DEF Turn, Torn
  <2>3. \A i \in DOMAIN raw["turns"] : ~(raw["turns"][i] = Torn /\ i = Len(raw["turns"]))
    BY <2>1, <2>2 DEF Last
  <2> QED  BY <2>1, <2>3 DEF OnlyTheLastIsTorn
<1>7. CASE AppendSnapshot
  <2> DEFINE r == [seq |-> snapshots + 1, clear |-> FALSE]
  <2>1. raw' = [raw EXCEPT !["herdr"] = Append(@, r)] /\ UNCHANGED <<drained, reserved>>
    BY <1>7 DEF AppendSnapshot
  <2>2. r.seq > 0
    BY <1>1
  <2> HIDE DEF r
  <2>3. raw'["herdr"] = Append(raw["herdr"], r) /\ raw'["turns"] = raw["turns"]
    BY <2>1, <1>1
  <2>4. \A i \in DOMAIN raw["herdr"] : raw["herdr"][i].seq > 0
    BY <1>1 DEF OnlyTheLastIsTorn
  <2>5. \A i \in DOMAIN raw'["herdr"] : raw'["herdr"][i].seq > 0
    <3>1. raw["herdr"] \in Seq(Records)
      BY <1>1
    <3> QED  BY <2>2, <2>3, <2>4, <3>1, AppendProperties
  <2> QED  BY <2>1, <2>3, <2>5 DEF OnlyTheLastIsTorn, Streams, TurnOpen
<1>8. CASE ScrubReplace
  <2>1. raw' = [raw EXCEPT !["turns"] = Scrubbed(@)] /\ UNCHANGED <<drained, reserved>>
        /\ seal.step = "replace"
    BY <1>8 DEF ScrubReplace
  <2>2. ~TurnOpen
    BY <2>1, <1>1 DEF StagesFollow, JournalQuiet, TurnOpen, Detaching
  <2>3. raw'["turns"] = Scrubbed(raw["turns"]) /\ raw'["herdr"] = raw["herdr"]
    BY <2>1, <1>1
  <2>4. \A i \in DOMAIN raw["turns"] : raw["turns"][i].seq > 0 /\ raw["turns"][i] \in Records
    BY <2>2, <1>1 DEF OnlyTheLastIsTorn
  <2>5. \A i \in DOMAIN raw'["turns"] : raw'["turns"][i].seq > 0
    <3>1. \A x \in Records : Redacted(x).seq = x.seq
      BY DEF Redacted, Records
    <3> QED  BY <2>3, <2>4, <3>1 DEF Scrubbed
  <2> QED  BY <2>1, <2>3, <2>5 DEF OnlyTheLastIsTorn, Streams, TurnOpen
<1>9. CASE DetachCapture \/ DetachSidecar
  <2>1. UNCHANGED <<drained, reserved>>
    BY <1>9 DEF DetachCapture, DetachSidecar
  <2>2. \A s \in Streams : raw'[s] = raw[s] \/ raw'[s] = <<>>
    BY <1>9, <1>1 DEF DetachCapture, DetachSidecar, Detached
  <2> QED  BY <2>1, <2>2 DEF OnlyTheLastIsTorn, TurnOpen
<1>10. CASE Crash
  <2>1. UNCHANGED <<drained, reserved>>
    BY <1>10 DEF Crash
  <2>2. CASE UNCHANGED raw
    BY <2>1, <2>2 DEF OnlyTheLastIsTorn, TurnOpen
  <2>3. CASE Partly
    <3> DEFINE turns == Whole(raw["turns"])
    <3>1. commit = "append" /\ raw' = [raw EXCEPT !["turns"] = Append(turns, Torn)]
      BY <2>3 DEF Partly
    <3>2. TurnOpen
      BY <3>1 DEF StagesFollow
    <3>3. raw'["turns"] = Append(turns, Torn) /\ raw'["herdr"] = raw["herdr"]
      BY <3>1, <1>1
    <3>4. turns \in Seq(Records) /\ \A i \in 1..Len(turns) : turns[i].seq > 0
      BY <1>1, <1>2, <1>3
    <3> HIDE DEF turns
    <3>5. \A i \in DOMAIN raw'["turns"] :
              raw'["turns"][i].seq > 0 \/ (raw'["turns"][i] = Torn /\ i = Len(raw'["turns"]))
      BY <3>3, <3>4
    <3> QED  BY <2>1, <3>2, <3>3, <3>5 DEF OnlyTheLastIsTorn, Streams, TurnOpen
  <2> QED  BY <1>10, <2>2, <2>3 DEF Crash
<1>11. CASE Reserve
  BY <1>11, <1>4, <1>1 DEF Reserve, TurnOpen
<1>12. CASE CommitBegin \/ CommitUnlink \/ RecoverRetired \/ Restart \/ Serve \/ UNCHANGED vars
  BY <1>12, <1>4 DEF CommitBegin, CommitUnlink, RecoverRetired, Restart, Serve, vars, TurnOpen
<1>13. CASE SealBegin \/ Scrub \/ MergeOpen \/ WriteFrame \/ FrameFails
            \/ MergeRename \/ MergeCleanup \/ Verify \/ Retire
  BY <1>13, <1>4 DEF SealBegin, Scrub, MergeOpen, WriteFrame, FrameFails, MergeRename,
     MergeCleanup, Verify, Retire, TurnOpen
<1> QED
  BY <1>5, <1>6, <1>7, <1>8, <1>9, <1>10, <1>11, <1>12, <1>13 DEF Next, Commit, Seal

\* A stream is detached behind what is sealed of it.
Detaches(s) == Detached(s) /\ detached[s] = None /\ UNCHANGED sealed

\* What detaching a stream does to each stream.
LEMMA DetachesPointwise ==
    ASSUME TypeOK, NEW s \in Streams, Detaches(s)
    PROVE  /\ detached'[s] = [base |-> Len(sealed[s]), body |-> raw[s]]
           /\ Len(sealed[s]) \in Nat /\ detached'[s] # None
           /\ raw'[s] = <<>> /\ sealed' = sealed
           /\ \A t \in Streams \ {s} : detached'[t] = detached[t] /\ raw'[t] = raw[t]
<1>1. Len(sealed[s]) \in Nat
  BY DEF TypeOK
<1>2. /\ detached'[s] = [base |-> Len(sealed[s]), body |-> raw[s]]
      /\ raw'[s] = <<>> /\ sealed' = sealed
      /\ \A t \in Streams \ {s} : detached'[t] = detached[t] /\ raw'[t] = raw[t]
  BY DEF TypeOK, Detaches, Detached, BaseLength
<1>3. detached'[s].base # None.base
  BY <1>1, <1>2 DEF None
<1> QED  BY <1>1, <1>2, <1>3

\* How the generations beside the raw ones change: a stream is detached, a frame
\* is appended, or a detached generation retires.
LEMMA GenerationsChange ==
    ASSUME TypeOK, DetachKnows, [Next]_vars
    PROVE  \/ UNCHANGED <<detached, sealed>>
           \/ DetachCapture /\ Detaches("turns")
           \/ DetachSidecar /\ Detaches("herdr")
           \/ MergeRename \/ Retire
<1>1. CASE DetachSidecar
  BY <1>1 DEF DetachSidecar, Detaches
<1>2. CASE DetachCapture
  BY <1>2 DEF DetachCapture, Detaches, DetachKnows, Detaching
<1>3. CASE Reserve \/ CommitBegin \/ CommitAppend \/ CommitAdvance \/ CommitUnlink
           \/ RecoverRetired \/ AppendSnapshot \/ Crash \/ Restart \/ Serve \/ UNCHANGED vars
  BY <1>3 DEF Reserve, CommitBegin, CommitAppend, CommitAdvance, CommitUnlink,
     RecoverRetired, AppendSnapshot, Crash, Restart, Serve, vars
<1>4. CASE SealBegin \/ Scrub \/ ScrubReplace \/ MergeOpen \/ WriteFrame \/ FrameFails
           \/ MergeCleanup \/ Verify
  BY <1>4 DEF SealBegin, Scrub, ScrubReplace, MergeOpen, WriteFrame, FrameFails, MergeCleanup,
     Verify
<1> QED  BY <1>1, <1>2, <1>3, <1>4 DEF Next, Commit, Seal

\* A frame is appended to the stream that is merged.
LEMMA MergeRenamePointwise ==
    ASSUME TypeOK, MergeKnows, MergeRename
    PROVE  \E s \in Streams :
               /\ s = seal.stream /\ detached[s] # None
               /\ Len(sealed[s]) = detached[s].base /\ Len(sealed[s]) \in Nat
               /\ seal.frame \in Seq(Records) /\ seal.frame \in {detached[s].body, <<Garbage>>}
               /\ sealed'[s] = Append(sealed[s], seal.frame)
               /\ Len(sealed'[s]) = Len(sealed[s]) + 1
               /\ sealed'[s][Len(sealed[s]) + 1] = seal.frame
               /\ \A i \in 1..Len(sealed[s]) : sealed'[s][i] = sealed[s][i]
               /\ \A t \in Streams \ {s} : sealed'[t] = sealed[t]
               /\ UNCHANGED <<raw, detached>>
<1> DEFINE s == seal.stream
<1>1. /\ s \in Streams /\ seal.frame \in Seq(Records) /\ sealed \in [Streams -> Seq(Seq(Records))]
      /\ seal.step = "merge"
  BY DEF TypeOK, MergeRename
<1>2. /\ detached[s] # None /\ Len(sealed[s]) = detached[s].base
      /\ seal.frame \in {detached[s].body, <<Garbage>>}
  BY <1>1 DEF MergeKnows, Merging
<1>3. sealed' = [sealed EXCEPT ![s] = Append(sealed[s], seal.frame)] /\ UNCHANGED <<raw, detached>>
  BY DEF MergeRename
<1> HIDE DEF s
<1>4. sealed'[s] = Append(sealed[s], seal.frame) /\ \A t \in Streams \ {s} : sealed'[t] = sealed[t]
  BY <1>1, <1>3
<1>5. /\ Len(sealed'[s]) = Len(sealed[s]) + 1 /\ Len(sealed[s]) \in Nat
      /\ sealed'[s][Len(sealed[s]) + 1] = seal.frame
      /\ \A i \in 1..Len(sealed[s]) : sealed'[s][i] = sealed[s][i]
  BY <1>1, <1>4, AppendProperties
<1> QED  BY <1>1, <1>2, <1>3, <1>4, <1>5 DEF s

\* What retiring a generation does to each stream.
LEMMA RetirePointwise ==
    ASSUME TypeOK, MergeKnows, Retire
    PROVE  \E s \in Streams :
               /\ s = seal.stream /\ detached[s] # None /\ detached'[s] = None
               /\ Len(sealed[s]) = detached[s].base + 1 /\ SuffixMatches(s)
               /\ temps[s] \cap {"frame", "merged"} = {}
               /\ \A t \in Streams \ {s} : detached'[t] = detached[t]
               /\ UNCHANGED <<raw, sealed, temps>>
<1>1. seal.step = "retire" /\ seal.stream \in Streams
  BY DEF TypeOK, Retire
<1>2. /\ detached[seal.stream] # None /\ SuffixMatches(seal.stream)
      /\ Len(sealed[seal.stream]) = detached[seal.stream].base + 1
      /\ temps[seal.stream] \cap {"frame", "merged"} = {}
  BY <1>1 DEF MergeKnows, Merging
<1>3. detached' = [detached EXCEPT ![seal.stream] = None] /\ UNCHANGED <<raw, sealed, temps>>
  BY DEF Retire
<1>4. /\ detached'[seal.stream] = None
      /\ \A t \in Streams \ {seal.stream} : detached'[t] = detached[t]
  BY <1>1, <1>3 DEF TypeOK
<1> QED  BY <1>1, <1>2, <1>3, <1>4

\* A detached generation goes on fitting the frames of its sealed file.
LEMMA FramesFitStep ==
    ASSUME TypeOK, DetachKnows, MergeKnows, FramesFit, [Next]_vars
    PROVE  FramesFit'
<1>1. CASE UNCHANGED <<detached, sealed>>
  BY <1>1 DEF FramesFit, FrameFits
<1>2. ASSUME NEW s \in Streams, Detaches(s) PROVE FramesFit'
  <2>1. /\ detached'[s] = [base |-> Len(sealed[s]), body |-> raw[s]]
        /\ Len(sealed[s]) \in Nat /\ sealed' = sealed
        /\ \A t \in Streams \ {s} : detached'[t] = detached[t]
    BY <1>2, DetachesPointwise
  <2>2. FrameFits(s)'
    BY <2>1 DEF FrameFits
  <2>3. ASSUME NEW t \in Streams \ {s}, detached'[t] # None PROVE FrameFits(t)'
    BY <2>1, <2>3 DEF FramesFit, FrameFits
  <2> QED  BY <2>2, <2>3 DEF FramesFit
<1>3. CASE MergeRename
  <2>1. PICK s \in Streams :
            /\ detached[s] # None /\ Len(sealed[s]) = detached[s].base /\ Len(sealed[s]) \in Nat
            /\ seal.frame \in {detached[s].body, <<Garbage>>}
            /\ Len(sealed'[s]) = Len(sealed[s]) + 1
            /\ sealed'[s][Len(sealed[s]) + 1] = seal.frame
            /\ \A t \in Streams \ {s} : sealed'[t] = sealed[t]
            /\ UNCHANGED detached
    BY <1>3, MergeRenamePointwise
  <2>2. FrameFits(s)'
    BY <2>1 DEF FrameFits
  <2>3. ASSUME NEW t \in Streams \ {s}, detached'[t] # None PROVE FrameFits(t)'
    BY <2>1, <2>3 DEF FramesFit, FrameFits
  <2> QED  BY <2>2, <2>3 DEF FramesFit
<1>4. CASE Retire
  BY <1>4, RetirePointwise DEF FramesFit, FrameFits
<1> QED  BY <1>1, <1>2, <1>3, <1>4, GenerationsChange DEF Streams

\* What a seal knows before it has detached the turns.
LEMMA DetachKnowsStep ==
    ASSUME TypeOK, OneTransaction, DetachKnows, [Next]_vars
    PROVE  DetachKnows'
<1>1. raw \in [Streams -> Seq(Records)] /\ "turns" \in Streams /\ "herdr" \in Streams
  BY DEF TypeOK, Streams
<1>2. \A i \in DOMAIN raw'["herdr"] : ~raw'["herdr"][i].clear
  <2>1. CASE raw'["herdr"] \in {raw["herdr"], <<>>}
    BY <2>1 DEF DetachKnows
  <2>2. CASE AppendSnapshot
    <3>1. raw'["herdr"] = Append(raw["herdr"], [seq |-> snapshots + 1, clear |-> FALSE])
      BY <2>2, <1>1 DEF AppendSnapshot
    <3>2. raw["herdr"] \in Seq(Records)
      BY <1>1
    <3> QED  BY <3>1, <3>2 DEF DetachKnows
  <2>3. CASE CommitAppend \/ ScrubReplace \/ Crash \/ DetachCapture \/ DetachSidecar
    BY <2>3, <2>1, <1>1 DEF CommitAppend, ScrubReplace, Crash, Partly, DetachCapture,
       DetachSidecar, Detached
  <2>4. CASE Reserve \/ CommitBegin \/ CommitAdvance \/ CommitUnlink \/ RecoverRetired
             \/ Restart \/ Serve \/ UNCHANGED vars
    BY <2>4, <2>1 DEF Reserve, CommitBegin, CommitAdvance, CommitUnlink, RecoverRetired,
       Restart, Serve, vars
  <2>5. CASE SealBegin \/ Scrub \/ MergeOpen \/ WriteFrame \/ FrameFails \/ MergeRename
             \/ MergeCleanup \/ Verify \/ Retire
    BY <2>5, <2>1 DEF SealBegin, Scrub, MergeOpen, WriteFrame, FrameFails, MergeRename,
       MergeCleanup, Verify, Retire
  <2> QED  BY <2>2, <2>3, <2>4, <2>5 DEF Next, Commit, Seal
<1>3. /\ seal'.step \in Detaching \ {"sidecar"} => detached'["turns"] = None
      /\ seal'.step = "detach" => \A i \in DOMAIN raw'["turns"] : ~raw'["turns"][i].clear
  <2>1. CASE seal'.step \notin Detaching \ {"sidecar"}
    BY <2>1 DEF Detaching
  <2>2. CASE UNCHANGED <<raw["turns"], detached, seal>>
    BY <2>2 DEF DetachKnows
  <2>3. CASE SealBegin
    BY <2>3 DEF SealBegin, Starts, Generations, NotSealing
  <2>4. CASE Scrub
    <3>1. seal.step = "scrub" /\ seal'.step = "replace" /\ UNCHANGED detached
      BY <2>4, SealAdvances DEF Scrub
    <3> QED  BY <3>1 DEF DetachKnows, Detaching
  <2>5. CASE ScrubReplace
    <3>1. seal.step = "replace" /\ seal'.step = "detach" /\ UNCHANGED detached
      BY <2>5, SealAdvances DEF ScrubReplace
    <3>2. raw'["turns"] = Scrubbed(raw["turns"])
      BY <2>5, <1>1 DEF ScrubReplace
    <3>3. \A x \in Records : Redacted(x).clear = FALSE
      BY DEF Redacted, Records
    <3>4. \A i \in DOMAIN raw["turns"] : raw["turns"][i] \in Records
      BY <1>1
    <3>5. \A i \in DOMAIN raw'["turns"] : ~raw'["turns"][i].clear
      BY <3>2, <3>3, <3>4 DEF Scrubbed
    <3> QED  BY <3>1, <3>5 DEF DetachKnows, Detaching
  <2>6. CASE CommitAppend
    BY <2>6, <2>1 DEF CommitAppend, OneTransaction, Detaching
  <2>7. CASE Crash
    BY <2>7, <2>1 DEF Crash, NotSealing, Detaching
  <2>8. CASE DetachCapture \/ DetachSidecar \/ MergeOpen \/ WriteFrame \/ FrameFails
             \/ MergeRename \/ MergeCleanup \/ Verify \/ Retire
    BY <2>8, <2>1, SealAdvances DEF Detaching
  <2>9. CASE AppendSnapshot
    BY <2>9, <2>2, <1>1 DEF AppendSnapshot
  <2>10. CASE Reserve \/ CommitBegin \/ CommitAdvance \/ CommitUnlink \/ RecoverRetired
              \/ Restart \/ Serve \/ UNCHANGED vars
    BY <2>10, <2>2 DEF Reserve, CommitBegin, CommitAdvance, CommitUnlink, RecoverRetired,
       Restart, Serve, vars
  <2> QED  BY <2>3, <2>4, <2>5, <2>6, <2>7, <2>8, <2>9, <2>10 DEF Next, Commit, Seal
<1> QED  BY <1>2, <1>3 DEF DetachKnows

\* What a seal knows from the first detached stream to the last retired one.
LEMMA MergeKnowsStep ==
    ASSUME TypeOK, OneTransaction, DetachKnows, FramesFit, MergeKnows, [Next]_vars
    PROVE  MergeKnows'
<1>1. /\ seal \in [step : {"idle"} \cup Detaching \cup Merging, stream : Streams,
                   frame : Seq(Records)]
      /\ temps \in [Streams -> SUBSET {"scrub", "frame", "merged"}]
      /\ "turns" \in Streams /\ "herdr" \in Streams
  BY DEF TypeOK, Streams
<1>2. CASE seal'.step \in {"idle", "scrub", "replace", "detach"}
  BY <1>2 DEF MergeKnows, Merging
<1>3. CASE UNCHANGED <<seal, detached, sealed, temps>>
  BY <1>3 DEF MergeKnows, SuffixMatches
<1>4. CASE SealBegin
  <2>1. CASE seal'.step = "sidecar"
    BY <1>4, <2>1 DEF SealBegin, Resumes, Generations, NotSealing, MergeKnows, Merging
  <2> QED  BY <1>4, <2>1, <1>2 DEF SealBegin, NotSealing
<1>5. CASE Scrub \/ ScrubReplace \/ FrameFails
  BY <1>5, <1>2, SealAdvances
<1>6. CASE DetachCapture
  <2>1. detached'["turns"] # None
    BY <1>6, <1>1, DetachesPointwise, GenerationsChange DEF DetachCapture, Detaches, DetachKnows,
       Detaching
  <2>2. seal'.step = "sidecar"
    BY <1>6, SealAdvances
  <2> QED  BY <2>1, <2>2 DEF MergeKnows, Merging
<1>7. CASE DetachSidecar
  <2>1. seal'.step = "open" /\ seal.step = "sidecar" /\ detached["turns"] # None
    BY <1>7, SealAdvances DEF MergeKnows
  <2>2. seal'.stream = IF detached["herdr"] = None /\ raw["herdr"] = <<>> THEN "turns" ELSE "herdr"
    BY <1>7, <1>1 DEF DetachSidecar
  <2>3. detached'["turns"] = detached["turns"]
        /\ ((detached["herdr"] = None /\ raw["herdr"] = <<>>) \/ detached'["herdr"] # None)
    <3>1. CASE detached["herdr"] = None /\ raw["herdr"] # <<>>
      <4>1. Detaches("herdr")
        BY <1>7, <3>1 DEF DetachSidecar, Detaches
      <4> QED  BY <4>1, <1>1, DetachesPointwise
    <3>2. CASE ~(detached["herdr"] = None /\ raw["herdr"] # <<>>)
      BY <1>7, <3>2 DEF DetachSidecar
    <3> QED  BY <3>1, <3>2
  <2> QED  BY <2>1, <2>2, <2>3 DEF MergeKnows, Merging
<1> DEFINE s == seal.stream
<1>8. s \in Streams
  BY <1>1
<1>9. CASE MergeOpen
  <2>1. /\ seal.step = "open" /\ detached["turns"] # None /\ detached[s] # None
        /\ UNCHANGED <<detached, sealed>>
    BY <1>9 DEF MergeOpen, MergeKnows, Merging
  <2>2. Len(sealed[s]) \in {detached[s].base, detached[s].base + 1} /\ Len(sealed[s]) \in Nat
        /\ detached[s].base \in Int
    BY <2>1, <1>8 DEF FramesFit, FrameFits, TypeOK
  <2>3. CASE Len(sealed[s]) > detached[s].base
    <3>1. seal' = [seal EXCEPT !.step = "verify"] /\ temps' = [temps EXCEPT ![s] = Cleaned(s)]
      BY <1>9, <2>2, <2>3 DEF MergeOpen
    <3>2. seal'.step = "verify" /\ seal'.stream = s /\ temps'[s] = Cleaned(s)
      BY <3>1, <1>1
    <3>3. temps'[s] \cap {"frame", "merged"} = {} /\ Len(sealed[s]) = detached[s].base + 1
      BY <3>2, <2>2, <2>3 DEF Cleaned
    <3> QED  BY <2>1, <3>2, <3>3 DEF MergeKnows
  <2>4. CASE Len(sealed[s]) = detached[s].base
    <3>1. seal' = [seal EXCEPT !.step = "frame"]
      BY <1>9, <2>2, <2>4 DEF MergeOpen
    <3>2. seal'.step = "frame" /\ seal'.stream = s
      BY <3>1, <1>1
    <3> QED  BY <2>1, <2>4, <3>2 DEF MergeKnows
  <2> QED  BY <2>2, <2>3, <2>4
<1>10. CASE WriteFrame
  <2>1. /\ seal.step = "frame" /\ detached["turns"] # None /\ detached[s] # None
        /\ Len(sealed[s]) = detached[s].base /\ UNCHANGED <<detached, sealed>>
    BY <1>10 DEF WriteFrame, MergeKnows, Merging
  <2>2. \/ seal' = [seal EXCEPT !.step = "merge", !.frame = detached[s].body]
        \/ seal' = [seal EXCEPT !.step = "merge", !.frame = <<Garbage>>]
    BY <1>10 DEF WriteFrame
  <2>3. /\ seal'.step = "merge" /\ seal'.stream = s
        /\ seal'.frame \in {detached[s].body, <<Garbage>>}
    BY <2>2, <1>1
  <2> QED  BY <2>1, <2>3 DEF MergeKnows
<1>11. CASE MergeRename
  <2>1. /\ seal.step = "merge" /\ detached["turns"] # None /\ detached[s] # None
        /\ Len(sealed[s]) = detached[s].base /\ UNCHANGED detached
    BY <1>11 DEF MergeRename, MergeKnows, Merging
  <2>2. seal'.step = "cleanup" /\ seal'.stream = s
    BY <1>11, <1>1 DEF MergeRename
  <2>3. Len(sealed'[s]) = Len(sealed[s]) + 1
    BY <1>11, MergeRenamePointwise
  <2>4. "merged" \notin temps'[s]
    BY <1>11, <1>1 DEF MergeRename, Replaced
  <2> QED  BY <2>1, <2>2, <2>3, <2>4 DEF MergeKnows
<1>12. CASE MergeCleanup
  <2>1. /\ seal.step = "cleanup" /\ detached["turns"] # None /\ detached[s] # None
        /\ Len(sealed[s]) = detached[s].base + 1 /\ "merged" \notin temps[s]
        /\ UNCHANGED <<detached, sealed>>
    BY <1>12 DEF MergeCleanup, MergeKnows, Merging
  <2>2. seal'.step = "verify" /\ seal'.stream = s
    BY <1>12, <1>1 DEF MergeCleanup
  <2>3. temps'[s] = temps[s] \ {"frame"}
    BY <1>12, <1>1 DEF MergeCleanup, Replaced
  <2> QED  BY <2>1, <2>2, <2>3 DEF MergeKnows
<1>13. CASE Verify
  <2>1. /\ seal.step = "verify" /\ detached["turns"] # None /\ detached[s] # None
        /\ Len(sealed[s]) = detached[s].base + 1 /\ temps[s] \cap {"frame", "merged"} = {}
        /\ UNCHANGED <<detached, sealed, temps>>
    BY <1>13 DEF Verify, MergeKnows, Merging
  <2>2. CASE SuffixMatches(s)
    <3>1. seal'.step = "retire" /\ seal'.stream = s
      BY <1>13, <2>2, <1>1 DEF Verify
    <3>2. SuffixMatches(s)'
      BY <2>1, <2>2, <3>1 DEF SuffixMatches
    <3> QED  BY <2>1, <3>1, <3>2 DEF MergeKnows
  <2>3. CASE ~SuffixMatches(s)
    BY <1>13, <2>3, <1>2 DEF Verify, NotSealing
  <2> QED  BY <2>2, <2>3
<1>14. CASE Retire
  <2>1. seal.step = "retire" /\ detached["turns"] # None /\ detached[s] # None
    BY <1>14 DEF Retire, MergeKnows, Merging
  <2>2. CASE s = "herdr"
    <3>1. seal'.step = "open" /\ seal'.stream = "turns"
      BY <1>14, <2>2, <1>1 DEF Retire
    <3>2. detached'["turns"] = detached["turns"]
      BY <1>14, <2>2, <1>1 DEF Retire, TypeOK
    <3> QED  BY <2>1, <3>1, <3>2 DEF MergeKnows
  <2>3. CASE s # "herdr"
    BY <1>14, <2>3, <1>2 DEF Retire, NotSealing
  <2> QED  BY <2>2, <2>3
<1>15. CASE Crash
  BY <1>15, <1>2 DEF Crash, NotSealing
<1>16. CASE Reserve \/ CommitBegin \/ CommitAppend \/ CommitAdvance \/ CommitUnlink
            \/ RecoverRetired \/ AppendSnapshot \/ Restart \/ Serve \/ UNCHANGED vars
  BY <1>16, <1>3 DEF Reserve, CommitBegin, CommitAppend, CommitAdvance, CommitUnlink,
     RecoverRetired, AppendSnapshot, Restart, Serve, vars
<1> QED
  BY <1>4, <1>5, <1>6, <1>7, <1>9, <1>10, <1>11, <1>12, <1>13, <1>14, <1>15, <1>16
  DEF Next, Commit, Seal

\* Only redacted records are detached, and only detached ones are sealed.
LEMMA OnlyRedactedStep ==
    ASSUME TypeOK, DetachKnows, MergeKnows, OnlyRedactedIsSealed, [Next]_vars
    PROVE  OnlyRedactedIsSealed'
<1> DEFINE Clean(body) == \A i \in DOMAIN body : ~body[i].clear
<1>1. \A s \in Streams : Clean(detached[s].body) /\ \A f \in DOMAIN sealed[s] : Clean(sealed[s][f])
  BY DEF OnlyRedactedIsSealed
<1>2. SUFFICES \A s \in Streams :
          Clean(detached'[s].body) /\ \A f \in DOMAIN sealed'[s] : Clean(sealed'[s][f])
  BY DEF OnlyRedactedIsSealed
<1>3. CASE UNCHANGED <<detached, sealed>>
  BY <1>1, <1>3
<1>4. ASSUME NEW s \in Streams, Detaches(s), Clean(raw[s])
      PROVE  \A t \in Streams : Clean(detached'[t].body)
                                /\ \A f \in DOMAIN sealed'[t] : Clean(sealed'[t][f])
  <2>1. /\ detached'[s].body = raw[s] /\ sealed' = sealed
        /\ \A t \in Streams \ {s} : detached'[t] = detached[t]
    <3>1. detached'[s] = [base |-> Len(sealed[s]), body |-> raw[s]] /\ sealed' = sealed
          /\ \A t \in Streams \ {s} : detached'[t] = detached[t]
      BY <1>4, DetachesPointwise
    <3> HIDE DEF Clean
    <3> QED  BY <3>1
  <2> HIDE DEF Clean
  <2> QED  BY <1>1, <1>4, <2>1
<1>5. CASE DetachCapture /\ Detaches("turns")
  <2>1. Clean(raw["turns"])
    BY <1>5 DEF DetachCapture, DetachKnows
  <2> QED  BY <1>4, <1>5, <2>1 DEF Streams
<1>6. CASE DetachSidecar /\ Detaches("herdr")
  <2>1. Clean(raw["herdr"])
    BY DEF DetachKnows
  <2> QED  BY <1>4, <1>6, <2>1 DEF Streams
<1>7. CASE MergeRename
  <2>1. PICK s \in Streams :
            /\ Len(sealed[s]) \in Nat
            /\ seal.frame \in {detached[s].body, <<Garbage>>}
            /\ sealed'[s] = Append(sealed[s], seal.frame)
            /\ Len(sealed'[s]) = Len(sealed[s]) + 1
            /\ sealed'[s][Len(sealed[s]) + 1] = seal.frame
            /\ \A i \in 1..Len(sealed[s]) : sealed'[s][i] = sealed[s][i]
            /\ \A t \in Streams \ {s} : sealed'[t] = sealed[t]
            /\ UNCHANGED detached
    BY <1>7, MergeRenamePointwise
  <2>2. Clean(<<Garbage>>)
    BY DEF Garbage
  <2>3. Clean(seal.frame)
    BY <1>1, <2>1, <2>2
  <2>4. DOMAIN sealed[s] = 1..Len(sealed[s]) /\ DOMAIN sealed'[s] = 1..(Len(sealed[s]) + 1)
    BY <2>1 DEF TypeOK
  <2> HIDE DEF Clean
  <2>5. ASSUME NEW f \in DOMAIN sealed'[s] PROVE Clean(sealed'[s][f])
    <3>1. f \in 1..Len(sealed[s]) \/ f = Len(sealed[s]) + 1
      BY <2>1, <2>4
    <3> QED  BY <3>1, <1>1, <2>1, <2>3, <2>4
  <2> QED  BY <1>1, <2>1, <2>5
<1>8. CASE Retire
  <2>1. PICK s \in Streams : /\ detached'[s] = None /\ UNCHANGED sealed
                             /\ \A t \in Streams \ {s} : detached'[t] = detached[t]
    BY <1>8, RetirePointwise
  <2>2. Clean(None.body)
    BY DEF None
  <2> HIDE DEF Clean
  <2> QED  BY <1>1, <2>1, <2>2
<1> QED  BY <1>3, <1>5, <1>6, <1>7, <1>8, GenerationsChange

\* A generation is retired after the temporaries of its merge.
LEMMA NoDebrisStep ==
    ASSUME TypeOK, DetachKnows, MergeKnows, NoDebrisWithoutGeneration, [Next]_vars
    PROVE  NoDebrisWithoutGeneration'
<1>1. /\ temps \in [Streams -> SUBSET {"scrub", "frame", "merged"}]
      /\ seal.stream \in Streams /\ "turns" \in Streams
  BY DEF TypeOK, Streams
<1>2. CASE UNCHANGED <<detached, temps>>
  BY <1>2 DEF NoDebrisWithoutGeneration
<1>3. CASE Scrub \/ ScrubReplace
  <2>1. UNCHANGED detached
    BY <1>3 DEF Scrub, ScrubReplace
  <2>2. \A s \in Streams : temps'[s] \cap {"frame", "merged"} = temps[s] \cap {"frame", "merged"}
    BY <1>3, <1>1 DEF Scrub, ScrubReplace, WithTemp, Replaced
  <2> QED  BY <2>1, <2>2 DEF NoDebrisWithoutGeneration
<1>4. CASE MergeOpen \/ WriteFrame \/ FrameFails \/ MergeRename \/ MergeCleanup
  <2>1. seal.step \in Merging /\ UNCHANGED detached
    BY <1>4 DEF MergeOpen, WriteFrame, FrameFails, MergeRename, MergeCleanup, Merging
  <2>2. detached[seal.stream] # None
    BY <2>1 DEF MergeKnows
  <2>3. \A s \in Streams \ {seal.stream} : temps'[s] = temps[s]
    BY <1>4, <1>1 DEF MergeOpen, WriteFrame, FrameFails, MergeRename, MergeCleanup, WithTemp,
       Replaced
  <2> QED  BY <2>1, <2>2, <2>3 DEF NoDebrisWithoutGeneration
<1>5. ASSUME NEW s \in Streams, Detaches(s), UNCHANGED temps PROVE NoDebrisWithoutGeneration'
  BY <1>5, DetachesPointwise DEF NoDebrisWithoutGeneration
<1>6. CASE DetachCapture \/ DetachSidecar
  <2>1. UNCHANGED temps
    BY <1>6 DEF DetachCapture, DetachSidecar
  <2>2. UNCHANGED detached \/ Detaches("turns") \/ Detaches("herdr")
    BY <1>6 DEF DetachCapture, DetachSidecar, Detaches, DetachKnows, Detaching
  <2> QED  BY <1>2, <1>5, <2>1, <2>2 DEF Streams
<1>7. CASE Retire
  BY <1>7, RetirePointwise DEF NoDebrisWithoutGeneration
<1>8. CASE Reserve \/ CommitBegin \/ CommitAppend \/ CommitAdvance \/ CommitUnlink
           \/ RecoverRetired \/ AppendSnapshot \/ SealBegin \/ Verify \/ Crash \/ Restart
           \/ Serve \/ UNCHANGED vars
  BY <1>8, <1>2 DEF Reserve, CommitBegin, CommitAppend, CommitAdvance, CommitUnlink,
     RecoverRetired, AppendSnapshot, SealBegin, Verify, Crash, Restart, Serve, vars
<1> QED  BY <1>3, <1>4, <1>6, <1>7, <1>8 DEF Next, Commit, Seal

\* The record of the newest drained turn stays while its stage does.
LEMMA RetiredStageStep ==
    ASSUME TypeOK, OneTransaction, StagesFollow, RetiredStageKeepsItsRecord, [Next]_vars
    PROVE  RetiredStageKeepsItsRecord'
<1>1. /\ drained \in Nat /\ reserved \in Nat /\ raw \in [Streams -> Seq(Records)]
      /\ "turns" \in Streams /\ "herdr" \in Streams
  BY DEF TypeOK, Streams
<1>2. CASE UNCHANGED <<raw["turns"], drained>> /\ (drained \in staged' => drained \in staged)
  BY <1>2 DEF RetiredStageKeepsItsRecord
<1>3. ASSUME NEW i \in DOMAIN raw["turns"], raw["turns"][i] = Turn(drained), NEW r
      PROVE  LET more == Append(Whole(raw["turns"]), r) IN
             /\ i \in DOMAIN Whole(raw["turns"]) /\ Whole(raw["turns"])[i] = Turn(drained)
             /\ i \in DOMAIN more /\ more[i] = Turn(drained)
  <2> DEFINE turns == raw["turns"]
  <2>1. turns \in Seq(Records)
    BY <1>1
  <2>2. Turn(drained) # Torn
    BY <1>1 DEF Turn, Torn
  <2>3. /\ Whole(turns) \in Seq(Records) /\ i \in DOMAIN Whole(turns)
        /\ Whole(turns)[i] = turns[i]
    BY <2>1, <2>2, <1>3 DEF Whole, Front, Last
  <2> HIDE DEF turns
  <2>4. /\ i \in DOMAIN Append(Whole(turns), r)
        /\ Append(Whole(turns), r)[i] = Whole(turns)[i]
    BY <2>3
  <2> QED  BY <2>3, <2>4, <1>3 DEF turns
<1>4. CASE CommitBegin \/ CommitUnlink \/ RecoverRetired
  <2>1. UNCHANGED <<raw, drained>> /\ staged' \subseteq staged \cup {drained + 1}
    BY <1>4 DEF CommitBegin, CommitUnlink, RecoverRetired
  <2> QED  BY <2>1, <1>1, <1>2
<1>5. CASE CommitAppend
  <2>1. raw'["turns"] = Reconciled /\ UNCHANGED <<drained, staged>>
    BY <1>5, <1>1 DEF CommitAppend
  <2>2. ASSUME drained \in staged PROVE \E i \in DOMAIN Reconciled : Reconciled[i] = Turn(drained)
    <3>1. PICK i \in DOMAIN raw["turns"] : raw["turns"][i] = Turn(drained)
      BY <2>2 DEF RetiredStageKeepsItsRecord
    <3> QED  BY <3>1, <1>3 DEF Reconciled
  <2> QED  BY <2>1, <2>2 DEF RetiredStageKeepsItsRecord
<1>6. CASE CommitAdvance
  <2>1. CASE drained' = drained + 1 /\ UNCHANGED <<raw, staged>>
    <3>1. raw["turns"] # <<>> /\ Last(raw["turns"]) = Turn(drained + 1)
      BY <1>6 DEF CommitAdvance, StagesFollow, Explained
    <3>2. Len(raw["turns"]) \in DOMAIN raw["turns"]
          /\ raw["turns"][Len(raw["turns"])] = Turn(drained + 1)
      BY <3>1, <1>1 DEF Last
    <3> QED  BY <2>1, <3>2 DEF RetiredStageKeepsItsRecord
  <2>2. CASE UNCHANGED <<raw, staged, drained>>
    BY <2>2, <1>2
  <2> QED  BY <1>6, <2>1, <2>2 DEF CommitAdvance
<1>7. CASE ScrubReplace \/ DetachCapture
  <2>1. seal.step \in {"replace", "detach"} /\ UNCHANGED staged
    BY <1>7 DEF ScrubReplace, DetachCapture
  <2>2. staged = {}
    BY <2>1 DEF StagesFollow, JournalQuiet, Detaching
  <2> QED  BY <2>1, <2>2 DEF RetiredStageKeepsItsRecord
<1>8. CASE Crash
  <2>1. UNCHANGED <<drained, staged>>
    BY <1>8 DEF Crash
  <2>2. CASE Partly
    <3>1. raw'["turns"] = Append(Whole(raw["turns"]), Torn)
      BY <2>2, <1>1 DEF Partly
    <3> QED  BY <2>1, <3>1, <1>3 DEF RetiredStageKeepsItsRecord
  <2>3. CASE UNCHANGED raw
    BY <2>1, <2>3, <1>2
  <2> QED  BY <1>8, <2>2, <2>3 DEF Crash
<1>9. CASE SealBegin \/ Scrub \/ DetachSidecar \/ MergeOpen \/ WriteFrame \/ FrameFails
           \/ MergeRename \/ MergeCleanup \/ Verify \/ Retire
  BY <1>9, <1>2, SealStepsAreApart
<1>10. CASE AppendSnapshot
  BY <1>10, <1>1, <1>2 DEF AppendSnapshot
<1>11. CASE Reserve \/ Restart \/ Serve \/ UNCHANGED vars
  BY <1>11, <1>2 DEF Reserve, Restart, Serve, vars
<1> QED
  BY <1>4, <1>5, <1>6, <1>7, <1>8, <1>9, <1>10, <1>11 DEF Next, Commit, Seal

-----------------------------------------------------------------------------
(* Every record once.                                                      *)

\* The records of x are numbered from one to n.
Counts(x, n) == Len(x) = n /\ \A i \in 1..n : x[i].seq = i

\* Numbering, by length and by item.
LEMMA NumbersCount ==
    ASSUME NEW x \in Seq(Records), NEW n \in Nat
    PROVE  Numbers(x) = UpTo(n) <=> Counts(x, n)
<1>1. DOMAIN x = 1..Len(x) /\ Len(x) \in Nat
  OBVIOUS
<1>2. ASSUME Numbers(x) = UpTo(n) PROVE Counts(x, n)
  <2>1. DOMAIN Numbers(x) = 1..Len(x) /\ DOMAIN UpTo(n) = 1..n
    BY <1>1 DEF Numbers, UpTo
  <2>2. Len(x) = n
    <3>1. 1..Len(x) = 1..n
      BY <1>2, <2>1
    <3>2. \A a, b \in Nat : 1..a = 1..b => a = b
      <4> SUFFICES ASSUME NEW a \in Nat, NEW b \in Nat, 1..a = 1..b, a # b PROVE FALSE
        OBVIOUS
      <4>1. CASE a < b
        <5>1. b \in 1..b /\ b \notin 1..a
          BY <4>1
        <5> QED  BY <5>1
      <4>2. CASE b < a
        <5>1. a \in 1..a /\ a \notin 1..b
          BY <4>2
        <5> QED  BY <5>1
      <4> QED  BY <4>1, <4>2
    <3> QED  BY <1>1, <3>1, <3>2
  <2>3. \A i \in 1..n : Numbers(x)[i] = UpTo(n)[i]
    BY <1>2
  <2> QED  BY <1>1, <2>2, <2>3 DEF Counts, Numbers, UpTo
<1>3. ASSUME Counts(x, n) PROVE Numbers(x) = UpTo(n)
  BY <1>1, <1>3 DEF Counts, Numbers, UpTo
<1> QED  BY <1>2, <1>3

\* A sequence counts to one number only.
LEMMA CountsOnce ==
    ASSUME NEW x, NEW m, NEW n, Counts(x, m), Counts(x, n)
    PROVE  m = n
BY DEF Counts

\* What is appended to a numbered sequence is its next.
LEMMA CountsAppend ==
    ASSUME NEW p \in Seq(Records), NEW w \in Seq(Records), NEW n \in Nat, Counts(p \o w, n),
           NEW r \in Records, r.seq = n + 1
    PROVE  Counts(p \o Append(w, r), n + 1)
<1> DEFINE x == p \o w
<1>1. x \in Seq(Records) /\ p \o Append(w, r) = Append(x, r)
  OBVIOUS
<1>2. Len(x) = n /\ \A i \in 1..n : x[i].seq = i
  BY DEF Counts
<1> HIDE DEF x
<1>3. Counts(Append(x, r), n + 1)
  BY <1>1, <1>2 DEF Counts
<1> QED  BY <1>1, <1>3

\* The last record of a numbered sequence has its number.
LEMMA CountsLast ==
    ASSUME NEW p \in Seq(Records), NEW w \in Seq(Records), NEW n \in Nat, Counts(p \o w, n),
           w # <<>>
    PROVE  Last(w).seq = n /\ n > 0
<1>1. Len(p) \in Nat /\ Len(w) \in Nat \ {0} /\ Len(p \o w) = Len(p) + Len(w)
  OBVIOUS
<1>2. (p \o w)[Len(p) + Len(w)] = w[Len(w)]
  BY <1>1
<1>3. n = Len(p) + Len(w) /\ n \in 1..n
  BY <1>1 DEF Counts
<1>4. (p \o w)[n].seq = n
  BY <1>3 DEF Counts
<1> QED  BY <1>2, <1>3, <1>4 DEF Last

\* A record appended is the last.
LEMMA AppendLast ==
    ASSUME NEW b \in Seq(Records), NEW r \in Records
    PROVE  /\ Append(b, r) # <<>> /\ Append(b, r) \in Seq(Records)
           /\ Last(Append(b, r)) = r
<1>1. Append(b, r) \in Seq(Records) /\ Len(Append(b, r)) = Len(b) + 1 /\ Len(b) \in Nat
  OBVIOUS
<1>2. Append(b, r)[Len(b) + 1] = r
  OBVIOUS
<1>3. ASSUME Append(b, r) = <<>> PROVE FALSE
  <2>1. Len(Append(b, r)) = 0
    BY <1>3
  <2> QED  BY <1>1, <2>1
<1> QED  BY <1>1, <1>2, <1>3 DEF Last

\* The type and the length of two sequences in a row.
LEMMA JoinTypes ==
    ASSUME NEW p \in Seq(Records), NEW b \in Seq(Records)
    PROVE  p \o b \in Seq(Records) /\ Len(p \o b) = Len(p) + Len(b)
OBVIOUS

\* Rewriting records without their numbers.
LEMMA SameNumbers ==
    ASSUME NEW p \in Seq(Records), NEW b \in Seq(Records), NEW c \in Seq(Records),
           Len(c) = Len(b), \A i \in 1..Len(b) : c[i].seq = b[i].seq
    PROVE  /\ Len(p \o c) = Len(p \o b)
           /\ \A i \in 1..Len(p \o b) : (p \o c)[i].seq = (p \o b)[i].seq
<1>1. /\ Len(p) \in Nat /\ Len(b) \in Nat
      /\ Len(p \o b) = Len(p) + Len(b) /\ Len(p \o c) = Len(p) + Len(b)
  <2>1. Len(p \o b) = Len(p) + Len(b)
    BY JoinTypes
  <2>2. Len(p \o c) = Len(p) + Len(c)
    BY JoinTypes
  <2>3. Len(p) \in Nat /\ Len(b) \in Nat
    OBVIOUS
  <2>4. Len(c) = Len(b)
    OBVIOUS
  <2> QED  BY <2>1, <2>2, <2>3, <2>4, Zenon
<1>2. ASSUME NEW i \in 1..Len(p \o b) PROVE (p \o c)[i].seq = (p \o b)[i].seq
  <2>1. CASE i <= Len(p)
    <3>1. (p \o c)[i] = p[i] /\ (p \o b)[i] = p[i]
      BY <1>1, <2>1
    <3> QED  BY <3>1
  <2>2. CASE i > Len(p)
    <3>1. i - Len(p) \in 1..Len(b)
      BY <1>1, <2>2
    <3>2. (p \o c)[i] = c[i - Len(p)] /\ (p \o b)[i] = b[i - Len(p)]
      BY <1>1, <2>2
    <3> QED  BY <3>1, <3>2
  <2>3. i <= Len(p) \/ i > Len(p)
    BY <1>1
  <2> QED  BY <2>1, <2>2, <2>3
<1> QED  BY <1>1, <1>2

\* What is left of a file without an unterminated record.
LEMMA WholeFacts ==
    ASSUME NEW b \in Seq(Records)
    PROVE  /\ Whole(b) \in Seq(Records)
           /\ (b = <<>> \/ Last(b) # Torn) => Whole(b) = b
           /\ Whole(Append(b, Torn)) = b
           /\ \A r \in Records \ {Torn} : Whole(Append(b, r)) = Append(b, r)
<1>1. Whole(b) \in Seq(Records) /\ ((b = <<>> \/ Last(b) # Torn) => Whole(b) = b)
  BY DEF Whole, Front
<1>2. ASSUME NEW r
      PROVE  /\ Append(b, r) # <<>> /\ Last(Append(b, r)) = r
             /\ Front(Append(b, r)) = b
  <2>1. /\ Append(b, r) # <<>> /\ Len(Append(b, r)) = Len(b) + 1 /\ Len(b) \in Nat
        /\ Append(b, r)[Len(b) + 1] = r /\ \A i \in 1..Len(b) : Append(b, r)[i] = b[i]
    OBVIOUS
  <2>2. Front(Append(b, r)) = SubSeq(Append(b, r), 1, Len(b))
    BY <2>1 DEF Front
  <2>3. SubSeq(Append(b, r), 1, Len(b)) = b
    BY <2>1
  <2> QED  BY <2>1, <2>2, <2>3 DEF Last
<1> QED  BY <1>1, <1>2 DEF Whole

\* Every part of the archive is a sequence of records.
LEMMA ArchiveTypes ==
    ASSUME TypeOK, FramesFit, NEW s \in Streams
    PROVE  /\ raw[s] \in Seq(Records) /\ Whole(raw[s]) \in Seq(Records)
           /\ sealed[s] \in Seq(Seq(Records)) /\ FlattenSeq(sealed[s]) \in Seq(Records)
           /\ detached[s].body \in Seq(Records)
           /\ detached[s] # None => SealedBefore(s) \in Seq(Records)
           /\ Past(s) \in Seq(Records) /\ Archive(s) \in Seq(Records)
<1>1. /\ raw[s] \in Seq(Records) /\ Whole(raw[s]) \in Seq(Records)
      /\ sealed[s] \in Seq(Seq(Records)) /\ detached[s].body \in Seq(Records)
  BY WholeFacts DEF TypeOK
<1>2. FlattenSeq(sealed[s]) \in Seq(Records)
  BY <1>1, FlattenType
<1>3. ASSUME detached[s] # None PROVE SealedBefore(s) \in Seq(Records)
  <2>1. detached[s].base \in Nat /\ detached[s].base <= Len(sealed[s])
    BY <1>3 DEF FramesFit, FrameFits, TypeOK
  <2>2. SubSeq(sealed[s], 1, detached[s].base) \in Seq(Seq(Records))
    BY <1>1, <2>1
  <2> QED  BY <2>2, FlattenType DEF SealedBefore
<1>4. Past(s) \in Seq(Records)
  BY <1>1, <1>2, <1>3 DEF Past
<1> QED  BY <1>1, <1>2, <1>3, <1>4 DEF Archive

\* Over a quiet journal no record of a raw file is torn; none of herdr.jsonl is.
LEMMA NothingTorn ==
    ASSUME TypeOK, OnlyTheLastIsTorn, NEW s \in Streams, ~TurnOpen \/ s = "herdr"
    PROVE  Whole(raw[s]) = raw[s]
<1>1. raw[s] \in Seq(Records)
  BY DEF TypeOK
<1>2. CASE raw[s] # <<>>
  <2>1. Len(raw[s]) \in DOMAIN raw[s]
    BY <1>1, <1>2
  <2>2. raw[s][Len(raw[s])].seq > 0
    BY <2>1 DEF OnlyTheLastIsTorn
  <2>3. Last(raw[s]) # Torn
    BY <2>2 DEF Last, Torn
  <2> QED  BY <1>1, <2>3, WholeFacts
<1> QED  BY <1>1, <1>2, WholeFacts

\* Detaching a stream moves its records from one generation to another.
LEMMA DetachKeepsArchive ==
    ASSUME TypeOK, FramesFit, OnlyTheLastIsTorn, NEW s \in Streams, ~TurnOpen \/ s = "herdr",
           Detaches(s), NEW t \in Streams
    PROVE  Archive(t)' = Archive(t)
<1>1. /\ detached'[s] = [base |-> Len(sealed[s]), body |-> raw[s]]
      /\ detached'[s] # None /\ detached[s] = None /\ raw'[s] = <<>> /\ sealed' = sealed
      /\ \A u \in Streams \ {s} : detached'[u] = detached[u] /\ raw'[u] = raw[u]
  BY DetachesPointwise DEF Detaches
<1>2. CASE t # s
  BY <1>1, <1>2 DEF Archive, Past, SealedBefore
<1>3. CASE t = s
  <2>1. /\ raw[s] \in Seq(Records) /\ sealed[s] \in Seq(Seq(Records))
        /\ FlattenSeq(sealed[s]) \in Seq(Records)
    BY ArchiveTypes
  <2>2. SubSeq(sealed[s], 1, Len(sealed[s])) = sealed[s]
    BY <2>1
  <2>3. Past(s)' = FlattenSeq(sealed[s]) \o raw[s]
    <3>1. detached'[s].base = Len(sealed[s]) /\ detached'[s].body = raw[s]
      BY <1>1
    <3>2. SealedBefore(s)' = FlattenSeq(sealed[s])
      BY <1>1, <2>2, <3>1 DEF SealedBefore
    <3> QED  BY <1>1, <3>1, <3>2 DEF Past
  <2>4. Whole(raw[s])' = <<>>
    BY <1>1 DEF Whole
  <2>5. Archive(s)' = (FlattenSeq(sealed[s]) \o raw[s]) \o <<>>
    BY <2>3, <2>4 DEF Archive
  <2>6. Archive(s)' = FlattenSeq(sealed[s]) \o raw[s]
    BY <2>1, <2>5
  <2>7. Archive(s) = FlattenSeq(sealed[s]) \o raw[s]
    BY <1>1, NothingTorn DEF Archive, Past
  <2> QED  BY <1>3, <2>6, <2>7
<1> QED  BY <1>2, <1>3

\* An appended frame is not yet counted: its detached generation is there.
LEMMA MergeKeepsArchive ==
    ASSUME TypeOK, MergeKnows, MergeRename, NEW t \in Streams
    PROVE  Archive(t)' = Archive(t)
<1>1. PICK s \in Streams :
          /\ detached[s] # None /\ Len(sealed[s]) = detached[s].base /\ Len(sealed[s]) \in Nat
          /\ seal.frame \in Seq(Records)
          /\ sealed'[s] = Append(sealed[s], seal.frame)
          /\ \A u \in Streams \ {s} : sealed'[u] = sealed[u]
          /\ UNCHANGED <<raw, detached>>
  BY MergeRenamePointwise
<1>2. CASE t # s
  BY <1>1, <1>2 DEF Archive, Past, SealedBefore
<1>3. CASE t = s
  <2>1. sealed[s] \in Seq(Seq(Records))
    BY DEF TypeOK
  <2>2. /\ SubSeq(Append(sealed[s], seal.frame), 1, Len(sealed[s])) = sealed[s]
        /\ SubSeq(sealed[s], 1, Len(sealed[s])) = sealed[s]
    BY <1>1, <2>1
  <2>3. SealedBefore(s)' = SealedBefore(s)
    BY <1>1, <2>2 DEF SealedBefore
  <2> QED  BY <1>1, <1>3, <2>3 DEF Archive, Past
<1> QED  BY <1>2, <1>3

\* The suffix from the last element on is that element.
LEMMA SuffixOfOne ==
    ASSUME NEW D, NEW x \in Seq(D), NEW n \in Nat, Len(x) = n + 1
    PROVE  SubSeq(x, n + 1, Len(x)) = <<x[n + 1]>>
<1> DEFINE tail == SubSeq(x, n + 1, n + 1)
           one == <<x[n + 1]>>
<1>1. x[n + 1] \in D
  OBVIOUS
<1>2. one \in Seq(D) /\ Len(one) = 1 /\ one[1] = x[n + 1]
  BY <1>1
<1>3. tail \in Seq(D) /\ Len(tail) = 1 /\ tail[1] = x[n + 1]
  OBVIOUS
<1> HIDE DEF tail, one
<1>4. \A i \in 1..Len(tail) : tail[i] = one[i]
  BY <1>2, <1>3
<1>5. tail = one
  BY <1>2, <1>3, <1>4, SeqEqual
<1> QED  BY <1>5 DEF tail, one

\* What a seal compares, and a reader: one frame behind those sealed before.
LEMMA OneFrameFollows ==
    ASSUME TypeOK, FramesFit, NEW s \in Streams, detached[s] # None,
           Len(sealed[s]) = detached[s].base + 1
    PROVE  LET f == sealed[s][detached[s].base + 1]
           IN  /\ f \in Seq(Records)
               /\ FlattenSeq(sealed[s]) = SealedBefore(s) \o f
               /\ SuffixMatches(s) <=> f = detached[s].body
<1> DEFINE n == detached[s].base
           before == SubSeq(sealed[s], 1, n)
           f == sealed[s][n + 1]
<1>1. sealed[s] \in Seq(Seq(Records)) /\ n \in Nat /\ Len(sealed[s]) = n + 1
  BY DEF TypeOK, FramesFit, FrameFits
<1>2. f \in Seq(Records) /\ before \in Seq(Seq(Records)) /\ Len(before) = n
      /\ \A i \in 1..n : before[i] = sealed[s][i]
  BY <1>1
<1>3. Append(before, f) = sealed[s]
  <2> DEFINE whole == Append(before, f)
  <2>1. /\ whole \in Seq(Seq(Records)) /\ Len(whole) = n + 1 /\ whole[n + 1] = f
        /\ \A i \in 1..n : whole[i] = before[i]
    <3> HIDE DEF before, f, n
    <3> QED  BY <1>1, <1>2, AppendProperties
  <2>2. \A i \in 1..(n + 1) : whole[i] = sealed[s][i]
    <3> SUFFICES ASSUME NEW i \in 1..(n + 1) PROVE whole[i] = sealed[s][i]
      OBVIOUS
    <3>1. i \in 1..n \/ i = n + 1
      BY <1>1
    <3> HIDE DEF whole, before
    <3> QED  BY <1>2, <2>1, <3>1
  <2> HIDE DEF whole
  <2> QED  BY <1>1, <2>1, <2>2, SeqEqual DEF whole
<1>4. FlattenSeq(sealed[s]) = FlattenSeq(before) \o f
  <2> HIDE DEF before, f
  <2> QED  BY <1>2, <1>3, FlattenAppend
<1>5. SuffixMatches(s) <=> f = detached[s].body
  <2>1. SubSeq(sealed[s], n + 1, Len(sealed[s])) = <<f>>
    <3> HIDE DEF n
    <3> QED  BY <1>1, SuffixOfOne
  <2>2. FlattenSeq(<<f>>) = f
    BY <1>2, FlattenOne
  <2> QED  BY <2>1, <2>2 DEF SuffixMatches
<1>6. SealedBefore(s) = FlattenSeq(before)
  BY DEF SealedBefore
<1> QED  BY <1>2, <1>4, <1>5, <1>6

\* A generation retires behind the frame that holds its records.
LEMMA RetireKeepsArchive ==
    ASSUME TypeOK, FramesFit, MergeKnows, Retire, NEW t \in Streams
    PROVE  Archive(t)' = Archive(t)
<1>1. PICK s \in Streams :
          /\ detached[s] # None /\ detached'[s] = None
          /\ Len(sealed[s]) = detached[s].base + 1 /\ SuffixMatches(s)
          /\ \A u \in Streams \ {s} : detached'[u] = detached[u]
          /\ UNCHANGED <<raw, sealed>>
  BY RetirePointwise
<1>2. CASE t # s
  <2>1. detached'[t] = detached[t] /\ sealed' = sealed /\ raw' = raw
    BY <1>1, <1>2
  <2>2. Past(t)' = Past(t)
    BY <2>1 DEF Past, SealedBefore
  <2> QED  BY <2>1, <2>2 DEF Archive
<1>3. CASE t = s
  <2>1. FlattenSeq(sealed[s]) = SealedBefore(s) \o detached[s].body
    BY <1>1, OneFrameFollows
  <2>2. Past(s)' = Past(s)
    BY <1>1, <2>1 DEF Past
  <2> QED  BY <1>1, <1>3, <2>2 DEF Archive
<1> QED  BY <1>2, <1>3

\* Which step changes what has been archived: a record is appended to a raw file,
\* or the scrub rewrites the raw turns.  Everything else only moves records.
LEMMA ArchiveMoves ==
    ASSUME TypeOK, OneTransaction, StagesFollow, OnlyTheLastIsTorn, FramesFit, DetachKnows,
           MergeKnows, [Next]_vars, NEW s \in Streams,
           ~(CommitAppend \/ AppendSnapshot \/ ScrubReplace)
    PROVE  Archive(s)' = Archive(s)
<1>1. CASE UNCHANGED <<raw, detached, sealed>>
  BY <1>1 DEF Archive, Past, SealedBefore
<1>2. CASE DetachCapture
  <2>1. Detaches("turns")
    BY <1>2 DEF DetachCapture, Detaches, DetachKnows, Detaching
  <2>2. ~TurnOpen
    BY <1>2 DEF DetachCapture, StagesFollow, JournalQuiet, TurnOpen, Detaching, TypeOK
  <2> QED  BY <2>1, <2>2, DetachKeepsArchive DEF Streams
<1>3. CASE DetachSidecar
  <2>1. CASE detached["herdr"] = None /\ raw["herdr"] # <<>>
    <3>1. Detaches("herdr")
      BY <1>3, <2>1 DEF DetachSidecar, Detaches
    <3> QED  BY <3>1, DetachKeepsArchive DEF Streams
  <2>2. CASE ~(detached["herdr"] = None /\ raw["herdr"] # <<>>)
    BY <1>1, <1>3, <2>2 DEF DetachSidecar
  <2> QED  BY <2>1, <2>2
<1>4. CASE MergeRename
  BY <1>4, MergeKeepsArchive
<1>5. CASE Retire
  BY <1>5, RetireKeepsArchive
<1>6. CASE Crash
  <2>1. CASE UNCHANGED raw
    BY <1>1, <1>6, <2>1 DEF Crash
  <2>2. CASE Partly
    <3>1. Whole(raw["turns"]) \in Seq(Records)
      BY WholeFacts DEF TypeOK, Streams
    <3>2. Torn \in Records
      BY SealingAssumption DEF Torn, Records
    <3>3. Whole(raw'["turns"]) = Whole(raw["turns"])
      BY <2>2, <3>1, WholeFacts DEF Partly, TypeOK, Streams
    <3>4. raw'["herdr"] = raw["herdr"] /\ UNCHANGED <<detached, sealed>>
      BY <1>6, <2>2 DEF Crash, Partly, TypeOK, Streams
    <3>5. Past(s)' = Past(s) /\ Whole(raw[s])' = Whole(raw[s])
      BY <3>3, <3>4 DEF Past, SealedBefore, Streams
    <3> QED  BY <3>5 DEF Archive
  <2> QED  BY <1>6, <2>1, <2>2 DEF Crash
<1>7. CASE Reserve \/ CommitBegin \/ CommitAdvance \/ CommitUnlink \/ RecoverRetired
           \/ Restart \/ Serve \/ UNCHANGED vars
  BY <1>1, <1>7 DEF Reserve, CommitBegin, CommitAdvance, CommitUnlink, RecoverRetired,
     Restart, Serve, vars
<1>8. CASE SealBegin \/ Scrub \/ MergeOpen \/ WriteFrame \/ FrameFails \/ MergeCleanup \/ Verify
  BY <1>1, <1>8 DEF SealBegin, Scrub, MergeOpen, WriteFrame, FrameFails, MergeCleanup, Verify
<1> QED  BY <1>2, <1>3, <1>4, <1>5, <1>6, <1>7, <1>8 DEF Next, Commit, Seal

\* Pane snapshots: each is appended once, behind those before it.
LEMMA SnapshotsOnceStep ==
    ASSUME TypeOK, OneTransaction, StagesFollow, OnlyTheLastIsTorn, FramesFit, DetachKnows,
           MergeKnows, Numbers(Archive("herdr")) = UpTo(snapshots), [Next]_vars
    PROVE  Numbers(Archive("herdr"))' = UpTo(snapshots)'
<1>1. /\ raw \in [Streams -> Seq(Records)] /\ "herdr" \in Streams /\ snapshots \in Nat
      /\ Archive("herdr") \in Seq(Records) /\ Past("herdr") \in Seq(Records)
      /\ raw["herdr"] \in Seq(Records)
  BY ArchiveTypes, SealingAssumption, SMTT(60) DEF TypeOK, Streams
<1>2. CASE AppendSnapshot
  <2> DEFINE r == [seq |-> snapshots + 1, clear |-> FALSE]
  <2>1. /\ raw' = [raw EXCEPT !["herdr"] = Append(@, r)] /\ snapshots' = snapshots + 1
        /\ UNCHANGED <<detached, sealed>>
    BY <1>2 DEF AppendSnapshot
  <2>2. r \in Records /\ r # Torn /\ r.seq = snapshots + 1
    <3>1. snapshots + 1 \in 0..(MaxTurns + MaxSnapshots)
      BY <1>1, <1>2, SealingAssumption DEF AppendSnapshot
    <3> QED  BY <3>1, <1>1 DEF Records, Torn
  <2> HIDE DEF r
  <2>3. raw'["herdr"] = Append(raw["herdr"], r)
    BY <1>1, <2>1
  <2>4. Whole(raw["herdr"]) = raw["herdr"] /\ Whole(raw'["herdr"]) = Append(raw["herdr"], r)
    BY <1>1, <2>2, <2>3, NothingTorn, WholeFacts
  <2>5. Archive("herdr") = Past("herdr") \o raw["herdr"]
    BY <2>4 DEF Archive
  <2>6. Archive("herdr")' = Past("herdr") \o Append(raw["herdr"], r)
    <3>1. Past("herdr")' = Past("herdr")
      BY <2>1 DEF Past, SealedBefore
    <3> QED  BY <2>4, <3>1 DEF Archive
  <2>7. Counts(Archive("herdr"), snapshots)
    BY <1>1, NumbersCount
  <2>8. Counts(Archive("herdr")', snapshots + 1)
    <3>1. Counts(Past("herdr") \o raw["herdr"], snapshots)
      BY <2>5, <2>7
    <3>2. Counts(Past("herdr") \o Append(raw["herdr"], r), snapshots + 1)
      BY <1>1, <2>2, <3>1, CountsAppend, Zenon
    <3> QED  BY <2>6, <3>2
  <2>9. Archive("herdr")' \in Seq(Records)
    <3>1. Append(raw["herdr"], r) \in Seq(Records)
      BY <1>1, <2>2
    <3>2. Past("herdr") \o Append(raw["herdr"], r) \in Seq(Records)
      BY <1>1, <3>1
    <3> QED  BY <2>6, <3>2
  <2>10. Numbers(Archive("herdr")') = UpTo(snapshots + 1)
    BY <1>1, <2>8, <2>9, NumbersCount
  <2> QED  BY <2>1, <2>10 DEF Numbers, UpTo
<1>3. CASE ~AppendSnapshot
  <2>1. Archive("herdr")' = Archive("herdr")
    <3>1. CASE CommitAppend \/ ScrubReplace
      <4>1. raw'["herdr"] = raw["herdr"] /\ UNCHANGED <<detached, sealed>>
        BY <1>1, <3>1 DEF CommitAppend, ScrubReplace
      <4>2. Past("herdr")' = Past("herdr")
        BY <4>1 DEF Past, SealedBefore
      <4> QED  BY <4>1, <4>2 DEF Archive
    <3> QED  BY <1>1, <1>3, <3>1, ArchiveMoves
  <2>2. UNCHANGED snapshots
    <3>1. CASE Reserve \/ Commit \/ Crash \/ Restart \/ Serve \/ UNCHANGED vars
      BY <3>1 DEF Reserve, Commit, CommitBegin, CommitAppend, CommitAdvance, CommitUnlink,
         RecoverRetired, Crash, Restart, Serve, vars
    <3>2. CASE Seal
      BY <3>2 DEF Seal, SealBegin, Scrub, ScrubReplace, DetachCapture, DetachSidecar, MergeOpen,
         WriteFrame, FrameFails, MergeRename, MergeCleanup, Verify, Retire
    <3> QED  BY <1>3, <3>1, <3>2 DEF Next
  <2> QED  BY <2>1, <2>2 DEF Numbers, UpTo
<1> QED  BY <1>2, <1>3

\* Turns: the archive holds the drained ones and at most the one in flight.
LEMMA TurnsOnceStep ==
    ASSUME TypeOK, OneTransaction, StagesFollow, OnlyTheLastIsTorn, FramesFit, DetachKnows,
           MergeKnows, AheadIsNext,
           \E n \in {drained, drained + 1} : Numbers(Archive("turns")) = UpTo(n), [Next]_vars
    PROVE  /\ \E n \in {drained', drained' + 1} : Numbers(Archive("turns"))' = UpTo(n)
           /\ AheadIsNext'
<1> DEFINE A == Archive("turns")
           w == Whole(raw["turns"])
           next == Turn(drained + 1)
<1>1. /\ drained \in Nat /\ reserved \in Nat /\ drained <= reserved
      /\ raw \in [Streams -> Seq(Records)] /\ "turns" \in Streams
      /\ A \in Seq(Records) /\ Past("turns") \in Seq(Records) /\ w \in Seq(Records)
      /\ raw["turns"] \in Seq(Records)
  BY ArchiveTypes DEF TypeOK, Streams
<1>2. \A n \in Nat : Numbers(A) = UpTo(n) <=> Counts(A, n)
  BY <1>1, NumbersCount
<1>3. PICK n \in {drained, drained + 1} : Counts(A, n)
  BY <1>1, <1>2
<1>4. n \in Nat /\ A = Past("turns") \o w
  BY <1>1 DEF Archive
<1>5. n = drained + 1 => TurnOpen /\ w # <<>> /\ Last(w) = next
  BY <1>1, <1>2, <1>3 DEF AheadIsNext
<1>6. next.seq = drained + 1 /\ next # Torn
  BY <1>1 DEF Turn, Torn
\* Nothing is archived and the journal stays: the numbers are the same, and so is
\* what is ahead, or nothing is.
<1>7. ASSUME Numbers(A') = Numbers(A), UNCHANGED drained,
             ~TurnOpen \/ (TurnOpen' /\ w' = w)
      PROVE  /\ \E m \in {drained', drained' + 1} : Numbers(A') = UpTo(m)
             /\ AheadIsNext'
  <2>1. \E m \in {drained', drained' + 1} : Numbers(A') = UpTo(m)
    BY <1>2, <1>3, <1>4, <1>7
  <2>2. AheadIsNext'
    <3> SUFFICES ASSUME Numbers(A') = UpTo(drained' + 1)
                 PROVE  TurnOpen' /\ w' # <<>> /\ Last(w)' = Turn(drained + 1)'
      BY DEF AheadIsNext
    <3>1. Counts(A, drained + 1)
      BY <1>1, <1>2, <1>7
    <3>2. n = drained + 1
      BY <1>3, <3>1, CountsOnce
    <3>3. TurnOpen' /\ w' = w
      BY <1>5, <1>7, <3>2
    <3> QED  BY <1>5, <1>7, <3>2, <3>3 DEF Last, Turn
  <2> QED  BY <2>1, <2>2
<1>8. CASE CommitAppend
  <2>1. /\ UNCHANGED <<detached, sealed, drained, reserved>>
        /\ raw' = [raw EXCEPT !["turns"] = Reconciled]
        /\ TurnOpen
    BY <1>8 DEF CommitAppend, StagesFollow
  <2>2. raw'["turns"] = Reconciled /\ Past("turns")' = Past("turns") /\ TurnOpen'
    BY <1>1, <2>1 DEF Past, SealedBefore, TurnOpen
  <2>3. next \in Records
    <3>1. drained + 1 \in 0..(MaxTurns + MaxSnapshots)
      <4>1. MaxTurns \in Nat /\ MaxSnapshots \in Nat /\ reserved \in 0..MaxTurns
        BY SealingAssumption DEF TypeOK
      <4>2. drained < reserved
        BY <2>1 DEF TurnOpen
      <4> QED  BY <1>1, <4>1, <4>2
    <3>2. (drained + 1 \in Leaky) \in BOOLEAN
      OBVIOUS
    <3>3. \A k \in -1..(MaxTurns + MaxSnapshots), b \in BOOLEAN :
              [seq |-> k, clear |-> b] \in Records
      BY DEF Records
    <3>4. drained + 1 \in -1..(MaxTurns + MaxSnapshots)
      BY <1>1, <3>1
    <3> QED  BY <3>2, <3>3, <3>4, Zenon DEF Turn
  <2> HIDE DEF next
  <2>4. /\ w' # <<>> /\ Last(w)' = next /\ Counts(A', drained + 1) /\ A' \in Seq(Records)
    <3>1. CASE w # <<>> /\ Last(w) = next
      <4>1. Reconciled = w /\ Whole(w) = w
        BY <1>1, <1>6, <3>1, WholeFacts DEF Reconciled, next
      <4>2. w' = w
        BY <2>2, <4>1
      <4>3. A' = A
        BY <1>4, <2>2, <4>2 DEF Archive
      <4>4. n = drained + 1
        BY <1>1, <1>3, <1>4, <1>6, <3>1, CountsLast
      <4> QED  BY <1>1, <1>3, <3>1, <4>2, <4>3, <4>4 DEF Last
    <3>2. CASE ~(w # <<>> /\ Last(w) = next)
      <4>1. Reconciled = Append(w, next) /\ n = drained
        BY <1>3, <1>5, <3>2 DEF Reconciled, next
      <4>2. Whole(Append(w, next)) = Append(w, next)
        BY <1>1, <1>6, <2>3, WholeFacts
      <4>3. w' = Append(w, next)
        BY <2>2, <4>1, <4>2
      <4>4. A' = Past("turns") \o Append(w, next)
        BY <2>2, <4>3 DEF Archive
      <4>5. Counts(A', drained + 1)
        <5>1. Counts(Past("turns") \o w, drained)
          BY <1>3, <1>4, <4>1
        <5> HIDE DEF w
        <5>2. Counts(Past("turns") \o Append(w, next), drained + 1)
          BY <1>1, <1>6, <2>3, <5>1, CountsAppend, Zenon
        <5> QED  BY <4>4, <5>2
      <4>6. /\ Append(w, next) # <<>> /\ Append(w, next) \in Seq(Records)
            /\ Last(Append(w, next)) = next
        BY <1>1, <2>3, AppendLast
      <4>7. Past("turns") \o Append(w, next) \in Seq(Records)
        BY <1>1, <4>6, JoinTypes
      <4>8. Last(w)' = Last(Append(w, next))
        BY <4>3 DEF Last
      <4> QED  BY <4>3, <4>4, <4>5, <4>6, <4>7, <4>8
    <3> QED  BY <3>1, <3>2
  <2>5. Numbers(A') = UpTo(drained + 1)
    BY <1>1, <2>4, NumbersCount
  <2>6. AheadIsNext'
    BY <2>1, <2>2, <2>4 DEF AheadIsNext, next, Turn
  <2> QED  BY <2>1, <2>5, <2>6 DEF Numbers, UpTo
<1>9. CASE CommitAdvance
  <2>1. UNCHANGED <<raw, detached, sealed, reserved>> /\ drained' \in {drained, drained + 1}
        /\ raw["turns"] # <<>> /\ Last(raw["turns"]) = next
    BY <1>9 DEF CommitAdvance, StagesFollow, Explained
  <2>2. A' = A /\ w' = w
    BY <2>1 DEF Archive, Past, SealedBefore
  <2>3. CASE drained' = drained
    BY <1>7, <2>1, <2>2, <2>3 DEF TurnOpen
  <2>4. CASE drained' = drained + 1
    <3>1. w = raw["turns"] /\ w # <<>> /\ Last(w) = next
      BY <1>1, <1>6, <2>1, WholeFacts
    <3>2. n = drained + 1
      BY <1>1, <1>3, <1>4, <1>6, <3>1, CountsLast, ZenonT(60)
    <3>3. Numbers(A') = UpTo(drained')
      BY <1>2, <1>3, <1>4, <2>2, <2>4, <3>2
    <3>4. ~Counts(A, drained + 2)
      <4>1. drained + 2 # n
        BY <1>1, <3>2
      <4> QED  BY <1>3, <4>1, CountsOnce
    <3>5. Numbers(A') # UpTo(drained' + 1)
      <4>1. drained' + 1 = drained + 2 /\ drained + 2 \in Nat
        BY <1>1, <2>4
      <4> QED  BY <1>2, <2>2, <3>4, <4>1
    <3>6. AheadIsNext'
      BY <3>5 DEF AheadIsNext
    <3> QED  BY <3>3, <3>6 DEF Numbers, UpTo
  <2> QED  BY <2>1, <2>3, <2>4
<1>10. CASE ScrubReplace
  <2>1. /\ UNCHANGED <<detached, sealed, drained, reserved>> /\ seal.step = "replace"
        /\ raw' = [raw EXCEPT !["turns"] = Scrubbed(@)]
    BY <1>10 DEF ScrubReplace
  <2>2. ~TurnOpen
    BY <1>1, <2>1 DEF StagesFollow, JournalQuiet, TurnOpen, Detaching
  <2>3. raw'["turns"] = Scrubbed(raw["turns"]) /\ Past("turns")' = Past("turns")
    BY <1>1, <2>1 DEF Past, SealedBefore
  <2> DEFINE b == raw["turns"]
             c == Scrubbed(b)
  <2>4. w = b /\ Len(b) \in Nat /\ DOMAIN b = 1..Len(b)
    BY <1>1, <2>2, NothingTorn
  <2>5. /\ c \in Seq(Records) /\ Len(c) = Len(b) /\ \A i \in 1..Len(b) : c[i].seq = b[i].seq
    <3>1. \A x \in Records : Redacted(x) \in Records /\ Redacted(x).seq = x.seq
      BY DEF Redacted, Records
    <3>2. \A i \in 1..Len(b) : b[i] \in Records
      BY <1>1
    <3> QED  BY <2>4, <3>1, <3>2 DEF Scrubbed
  <2>6. \A i \in 1..Len(b) : b[i].seq > 0
    BY <1>1, <2>2, <2>4 DEF OnlyTheLastIsTorn
  <2> HIDE DEF b, c
  <2>7. Whole(c) = c
    <3>1. CASE c # <<>>
      <4>1. Len(c) \in 1..Len(b)
        BY <2>4, <2>5, <3>1
      <4>2. Last(c) # Torn
        BY <2>5, <2>6, <4>1 DEF Last, Torn
      <4> QED  BY <2>5, <4>2, WholeFacts
    <3> QED  BY <2>5, <3>1, WholeFacts
  <2>8. A = Past("turns") \o b /\ A' = Past("turns") \o c
    <3>1. A' = Past("turns")' \o Whole(raw'["turns"])
      BY DEF Archive
    <3> QED  BY <1>4, <2>3, <2>4, <2>7, <3>1 DEF b, c
  <2>9. Counts(A', n)
    <3>1. /\ Len(A') = Len(A) /\ \A i \in 1..Len(A) : A'[i].seq = A[i].seq
      <4> DEFINE p == Past("turns")
      <4>1. p \in Seq(Records) /\ b \in Seq(Records) /\ c \in Seq(Records)
        BY <1>1, <2>5 DEF b
      <4> HIDE DEF p
      <4>2. /\ Len(p \o c) = Len(p \o b)
            /\ \A i \in 1..Len(p \o b) : (p \o c)[i].seq = (p \o b)[i].seq
        BY <2>5, <4>1, SameNumbers
      <4> HIDE DEF A
      <4> QED  BY <2>8, <4>2 DEF p
    <3> HIDE DEF A
    <3> QED  BY <1>3, <3>1 DEF Counts
  <2>10. A' \in Seq(Records)
    BY <1>1, <2>5, <2>8, ConcatProperties, ZenonT(60)
  <2>11. Numbers(A') = UpTo(n) /\ Numbers(A) = UpTo(n)
    BY <1>2, <1>3, <1>4, <2>9, <2>10, NumbersCount
  <2> HIDE DEF A
  <2>12. Numbers(A') = Numbers(A)
    BY <2>11
  <2> USE DEF A
  <2> QED  BY <1>7, <2>1, <2>2, <2>12 DEF Numbers, UpTo
<1>11. CASE ~(CommitAppend \/ CommitAdvance \/ ScrubReplace)
  <2>1. A' = A
    <3>1. CASE AppendSnapshot
      <4>1. raw'["turns"] = raw["turns"] /\ UNCHANGED <<detached, sealed>>
        BY <1>1, <3>1 DEF AppendSnapshot
      <4>2. Past("turns")' = Past("turns")
        BY <4>1 DEF Past, SealedBefore
      <4> QED  BY <4>1, <4>2 DEF Archive
    <3> QED  BY <1>1, <1>11, <3>1, ArchiveMoves
  <2>2. UNCHANGED drained /\ (~TurnOpen \/ (TurnOpen' /\ w' = w))
    <3>1. CASE UNCHANGED <<drained, reserved, raw["turns"]>>
      BY <3>1 DEF TurnOpen
    <3>2. CASE Reserve
      BY <1>1, <3>2 DEF Reserve, TurnOpen
    <3>3. CASE CommitBegin \/ CommitUnlink \/ RecoverRetired \/ Restart \/ Serve
               \/ UNCHANGED vars
      BY <3>1, <3>3 DEF CommitBegin, CommitUnlink, RecoverRetired, Restart, Serve, vars
    <3>4. CASE AppendSnapshot
      BY <1>1, <3>1, <3>4 DEF AppendSnapshot
    <3>5. CASE DetachCapture
      <4>1. ~TurnOpen /\ UNCHANGED drained
        BY <1>1, <3>5 DEF DetachCapture, StagesFollow, JournalQuiet, TurnOpen, Detaching
      <4> QED  BY <4>1
    <3>6. CASE SealBegin \/ Scrub \/ DetachSidecar \/ MergeOpen \/ WriteFrame \/ FrameFails
               \/ MergeRename \/ MergeCleanup \/ Verify \/ Retire
      BY <3>1, <3>6, SealStepsAreApart
    <3>7. CASE Crash
      <4>1. UNCHANGED <<drained, reserved>>
        BY <3>7 DEF Crash
      <4>2. CASE Partly
        <5>1. raw'["turns"] = Append(w, Torn)
          BY <1>1, <4>2 DEF Partly
        <5>2. w' = w
          BY <1>1, <5>1, WholeFacts
        <5> QED  BY <4>1, <5>2 DEF TurnOpen
      <4>3. CASE UNCHANGED raw
        BY <3>1, <4>1, <4>3
      <4> QED  BY <3>7, <4>2, <4>3 DEF Crash
    <3> QED
      BY <1>11, <3>2, <3>3, <3>4, <3>5, <3>6, <3>7 DEF Next, Commit, Seal
  <2> QED  BY <1>7, <2>1, <2>2 DEF Numbers, UpTo
<1> QED  BY <1>8, <1>9, <1>10, <1>11

-----------------------------------------------------------------------------
(* The invariant and what follows from it.                                 *)

\* No numbered record is torn.
LEMMA CountsNotTorn ==
    ASSUME NEW p \in Seq(Records), NEW w \in Seq(Records), NEW n \in Nat, Counts(p \o w, n)
    PROVE  /\ \A i \in DOMAIN p : p[i] # Torn
           /\ \A i \in DOMAIN w : w[i] # Torn
<1>1. Len(p \o w) = Len(p) + Len(w)
  BY JoinTypes
<1>2. Len(p) \in Nat /\ Len(w) \in Nat /\ DOMAIN p = 1..Len(p) /\ DOMAIN w = 1..Len(w)
  OBVIOUS
<1>3. \A i \in 1..(Len(p) + Len(w)) : (p \o w)[i].seq = i
  BY <1>1 DEF Counts
<1>4. ASSUME NEW i \in 1..Len(p) PROVE p[i] # Torn
  <2>1. (p \o w)[i] = p[i] /\ i \in 1..(Len(p) + Len(w))
    BY <1>2
  <2> QED  BY <1>3, <2>1 DEF Torn
<1>5. ASSUME NEW i \in 1..Len(w) PROVE w[i] # Torn
  <2>1. (p \o w)[Len(p) + i] = w[i] /\ Len(p) + i \in 1..(Len(p) + Len(w))
    BY <1>2
  <2>2. w[i].seq = Len(p) + i
    BY <1>3, <2>1
  <2> QED  BY <1>2, <2>2 DEF Torn
<1> QED  BY <1>2, <1>4, <1>5

\* A reader that finds what it can explain reads the archive.
LEMMA ReadsTheArchive ==
    ASSUME TypeOK, FramesFit, NEW n \in Nat, Counts(Archive("turns"), n),
           \/ detached["turns"] = None \/ Len(sealed["turns"]) = detached["turns"].base
           \/ SuffixMatches("turns")
    PROVE  ReadTurns = Archive("turns")
<1> DEFINE len == Len(sealed["turns"])
           base == detached["turns"].base
           body == detached["turns"].body
           final == FlattenSeq(sealed["turns"]) \o IF len = base THEN body ELSE <<>>
           live == Whole(raw["turns"])
<1>1. /\ "turns" \in Streams /\ len \in Nat /\ base \in Nat \cup {-1}
      /\ FlattenSeq(sealed["turns"]) \in Seq(Records) /\ body \in Seq(Records)
      /\ live \in Seq(Records) /\ Past("turns") \in Seq(Records)
  <2>1. "turns" \in Streams
    BY DEF Streams
  <2>2. len \in Nat /\ base \in Nat \cup {-1}
    BY <2>1 DEF TypeOK
  <2> QED  BY <2>1, <2>2, ArchiveTypes
<1>2. ~(len < base)
  <2>1. CASE detached["turns"] = None
    BY <1>1, <2>1, SMTT(60) DEF None
  <2>2. CASE detached["turns"] # None
    BY <1>1, <2>2, SMTT(60) DEF FramesFit, FrameFits
  <2> QED  BY <2>1, <2>2
<1>3. final = Past("turns")
  <2>1. CASE detached["turns"] = None
    <3>1. len # base
      BY <1>1, <2>1 DEF None
    <3>2. final = FlattenSeq(sealed["turns"])
      BY <1>1, <3>1
    <3> QED  BY <2>1, <3>2 DEF Past
  <2>2. CASE detached["turns"] # None /\ len = base
    <3>1. SubSeq(sealed["turns"], 1, base) = sealed["turns"]
      BY <1>1, <2>2, SMTT(60) DEF TypeOK
    <3> QED  BY <2>2, <3>1 DEF Past, SealedBefore
  <2>3. CASE detached["turns"] # None /\ len # base
    <3>1. len = base + 1
      BY <1>1, <2>3 DEF FramesFit, FrameFits
    <3>2. FlattenSeq(sealed["turns"]) = SealedBefore("turns") \o body
      BY <1>1, <2>3, <3>1, OneFrameFollows
    <3>3. final = FlattenSeq(sealed["turns"])
      BY <1>1, <2>3
    <3> QED  BY <2>3, <3>2, <3>3 DEF Past
  <2> QED  BY <2>1, <2>2, <2>3
<1>4. Archive("turns") = final \o live
  BY <1>3 DEF Archive
<1>5. /\ \A i \in DOMAIN final : final[i] # Torn
      /\ \A i \in DOMAIN live : live[i] # Torn
  BY <1>1, <1>3, <1>4, CountsNotTorn
<1>6. ~(detached["turns"] # None /\ len > base /\ ~SuffixMatches("turns"))
  BY <1>1
<1>7. RunSegment("sealed", final) = [records |-> final, fails |-> FALSE]
  BY <1>5 DEF RunSegment
<1>8. RunSegment("raw", raw["turns"]) = [records |-> live, fails |-> FALSE]
  BY <1>5 DEF RunSegment
<1>9. ReadTurns = final \o live
  <2>1. /\ Snapshot.sealed = sealed["turns"] /\ Snapshot.detached = detached["turns"]
        /\ Snapshot.raw = raw["turns"]
    BY DEF Snapshot, Generations
  <2> HIDE DEF final, live
  <2>2. RunSegment("sealed", FlattenSeq(Snapshot.sealed) \o
            IF Len(Snapshot.sealed) = Snapshot.detached.base
            THEN Snapshot.detached.body ELSE <<>>) = [records |-> final, fails |-> FALSE]
    BY <1>7, <2>1 DEF final
  <2>3. RunSegment("raw", Snapshot.raw) = [records |-> live, fails |-> FALSE]
    BY <1>8, <2>1
  <2>4. /\ [records |-> final, fails |-> FALSE].records = final
        /\ ~[records |-> final, fails |-> FALSE].fails
        /\ [records |-> live, fails |-> FALSE].records = live
        /\ ~[records |-> live, fails |-> FALSE].fails
    OBVIOUS
  <2>5. ~(Len(Snapshot.sealed) < Snapshot.detached.base)
    BY <1>2, <2>1
  <2>6. ~(/\ Snapshot.detached # None /\ Len(Snapshot.sealed) > Snapshot.detached.base
          /\ ~SuffixMatches("turns"))
    BY <1>6, <2>1
  <2> QED  BY <2>2, <2>3, <2>4, <2>5, <2>6, Zenon DEF ReadTurns
<1> QED  BY <1>4, <1>9

\* Whatever a crash left behind, a reader is shown the archive, or is refused
\* because zstd lied about the frame it would read.
LEMMA ReadsOrIsRefused ==
    ASSUME ArchiveIInv
    PROVE  \/ ReadTurns = Archive("turns") /\ ReadTurns # Conflict
           \/ ReadTurns = Conflict /\ Lied("turns")
<1>1. TypeOK /\ FramesFit /\ EveryRecordOnce /\ drained \in Nat /\ "turns" \in Streams
  BY DEF ArchiveIInv, ArchiveInv, TypeOK, Streams
<1>2. PICK n \in {drained, drained + 1} : Numbers(Archive("turns")) = UpTo(n)
  BY <1>1 DEF EveryRecordOnce
<1>3. n \in Nat /\ Archive("turns") \in Seq(Records)
  BY <1>1, ArchiveTypes
<1>4. Counts(Archive("turns"), n)
  BY <1>2, <1>3, NumbersCount
<1>5. CASE \/ detached["turns"] = None \/ Len(sealed["turns"]) = detached["turns"].base
           \/ SuffixMatches("turns")
  <2>1. ReadTurns = Archive("turns")
    BY <1>1, <1>3, <1>4, <1>5, ReadsTheArchive
  <2>2. ReadTurns # Conflict
    <3>1. Conflict[1].seq = 0 /\ Len(Conflict) = 1
      BY DEF Conflict, Garbage
    <3>2. SUFFICES ASSUME Archive("turns") = Conflict PROVE FALSE
      BY <2>1
    <3>3. n = 1
      BY <1>4, <3>1, <3>2 DEF Counts
    <3>4. Conflict[1].seq = 1
      BY <1>4, <3>2, <3>3 DEF Counts
    <3> QED  BY <3>1, <3>4
  <2> QED  BY <2>1, <2>2
<1>6. CASE /\ detached["turns"] # None /\ Len(sealed["turns"]) # detached["turns"].base
           /\ ~SuffixMatches("turns")
  <2> DEFINE base == detached["turns"].base
  <2>1. /\ base \in Nat /\ Len(sealed["turns"]) = base + 1
        /\ sealed["turns"][base + 1] \in {detached["turns"].body, <<Garbage>>}
    BY <1>1, <1>6, SMTT(60) DEF FramesFit, FrameFits, TypeOK
  <2>2. sealed["turns"][base + 1] # detached["turns"].body
    BY <1>1, <1>6, <2>1, OneFrameFollows
  <2>3. base + 1 \in DOMAIN sealed["turns"]
    BY <1>1, <2>1 DEF TypeOK
  <2>4. Lied("turns")
    BY <2>1, <2>2, <2>3 DEF Lied
  <2>5. ReadTurns = Conflict
    <3>1. /\ Snapshot.sealed = sealed["turns"] /\ Snapshot.detached = detached["turns"]
      BY DEF Snapshot, Generations
    <3>2. Len(Snapshot.sealed) > Snapshot.detached.base
      BY <2>1, <3>1
    <3> QED  BY <1>6, <3>1, <3>2 DEF ReadTurns
  <2> QED  BY <2>4, <2>5
<1> QED  BY <1>5, <1>6

\* So it sees every drained turn once and in order.
LEMMA ReaderIsServed ==
    ASSUME ArchiveIInv
    PROVE  ReaderSeesEveryTurnOnce
<1>1. \E n \in {drained, drained + 1} : Numbers(Archive("turns")) = UpTo(n)
  BY DEF ArchiveIInv, ArchiveInv, EveryRecordOnce
<1> QED  BY <1>1, ReadsOrIsRefused DEF ReaderSeesEveryTurnOnce

\* An empty session directory satisfies the invariant.
LEMMA ArchiveIInvInit == Init => ArchiveIInv
<1> SUFFICES ASSUME Init PROVE ArchiveIInv
  OBVIOUS
<1>1. TypeOK
  BY TypeInit
<1>2. \A s \in Streams : raw[s] = <<>> /\ sealed[s] = <<>> /\ detached[s] = None /\ temps[s] = {}
  BY DEF Init
<1>3. drained = 0 /\ reserved = 0 /\ snapshots = 0 /\ staged = {} /\ commit = "idle"
      /\ seal.step = "idle" /\ "turns" \in Streams /\ "herdr" \in Streams
  BY DEF Init, NotSealing, Streams
<1>4. \A s \in Streams : Archive(s) = <<>>
  <2> SUFFICES ASSUME NEW s \in Streams PROVE Archive(s) = <<>>
    OBVIOUS
  <2>1. Past(s) = <<>> /\ Whole(raw[s]) = <<>>
    BY <1>2, FlattenEmpty DEF Past, Whole
  <2>2. <<>> \o <<>> = <<>>
    OBVIOUS
  <2> QED  BY <2>1, <2>2 DEF Archive
<1>5. Counts(<<>>, 0) /\ ~Counts(<<>>, 1) /\ <<>> \in Seq(Records)
  BY DEF Counts
<1>6. Numbers(<<>>) = UpTo(0) /\ Numbers(<<>>) # UpTo(1)
  BY <1>5, NumbersCount
<1>7. EveryRecordOnce /\ AheadIsNext
  BY <1>3, <1>4, <1>6 DEF EveryRecordOnce, AheadIsNext
<1>8. RetiredStageKeepsItsRecord /\ NoDebrisWithoutGeneration
  BY <1>2, <1>3 DEF RetiredStageKeepsItsRecord, NoDebrisWithoutGeneration
<1>9. OnlyRedactedIsSealed /\ OnlyTheLastIsTorn /\ FramesFit
  <2>1. None.body = <<>> /\ DOMAIN <<>> = {}
    BY DEF None
  <2> QED  BY <1>2, <2>1 DEF OnlyRedactedIsSealed, OnlyTheLastIsTorn, FramesFit
<1>10. OneTransaction /\ StagesFollow /\ DetachKnows /\ MergeKnows
  BY <1>2, <1>3 DEF OneTransaction, StagesFollow, DetachKnows, MergeKnows, Detaching, Merging
<1> QED  BY <1>1, <1>7, <1>8, <1>9, <1>10 DEF ArchiveIInv, ArchiveInv

\* Every step preserves the invariant.
LEMMA ArchiveIInvStep == ArchiveIInv /\ [Next]_vars => ArchiveIInv'
<1> SUFFICES ASSUME ArchiveIInv, [Next]_vars PROVE ArchiveIInv'
  OBVIOUS
<1>1. /\ TypeOK /\ EveryRecordOnce /\ RetiredStageKeepsItsRecord /\ NoDebrisWithoutGeneration
      /\ OnlyRedactedIsSealed /\ OneTransaction /\ StagesFollow /\ OnlyTheLastIsTorn
      /\ AheadIsNext /\ FramesFit /\ DetachKnows /\ MergeKnows
  BY DEF ArchiveIInv, ArchiveInv
<1>2. TypeOK' /\ OneTransaction' /\ StagesFollow' /\ OnlyTheLastIsTorn'
  BY <1>1, TypeStep, OneTransactionStep, StagesFollowStep, OnlyTheLastIsTornStep
<1>3. FramesFit' /\ DetachKnows' /\ MergeKnows'
  BY <1>1, FramesFitStep, DetachKnowsStep, MergeKnowsStep
<1>4. OnlyRedactedIsSealed' /\ NoDebrisWithoutGeneration' /\ RetiredStageKeepsItsRecord'
  BY <1>1, OnlyRedactedStep, NoDebrisStep, RetiredStageStep
<1>5. EveryRecordOnce' /\ AheadIsNext'
  <2>1. /\ \E n \in {drained, drained + 1} : Numbers(Archive("turns")) = UpTo(n)
        /\ Numbers(Archive("herdr")) = UpTo(snapshots)
    BY <1>1 DEF EveryRecordOnce
  <2>2. /\ \E n \in {drained', drained' + 1} : Numbers(Archive("turns"))' = UpTo(n)
        /\ AheadIsNext'
    BY <1>1, <2>1, TurnsOnceStep
  <2>3. Numbers(Archive("herdr"))' = UpTo(snapshots)'
    BY <1>1, <2>1, SnapshotsOnceStep
  <2> QED  BY <2>2, <2>3 DEF EveryRecordOnce, UpTo
<1> QED  BY <1>2, <1>3, <1>4, <1>5 DEF ArchiveIInv, ArchiveInv

\* The invariant holds in every reachable state.
LEMMA ArchiveIInvHolds == Spec => []ArchiveIInv
BY ArchiveIInvInit, ArchiveIInvStep, PTL DEF Spec

\* Whatever step of a drain or of a seal a crash cuts short, and whatever zstd
\* claims, the generations of a session hold every drained record once, in order,
\* no seal takes away what the recovery of a stage needs, and debris of a merge
\* goes with its generation.
THEOREM ArchiveHolds == Spec => []ArchiveInv
<1>1. ArchiveIInv => ArchiveInv
  BY DEF ArchiveIInv
<1> QED  BY <1>1, ArchiveIInvHolds, PTL

\* Nothing the scrub redacts is detached or sealed, in any interleaving of
\* captures, snapshots and seals.
THEOREM RedactedIsSealed == Spec => []OnlyRedactedIsSealed
<1>1. ArchiveIInv => OnlyRedactedIsSealed
  BY DEF ArchiveIInv
<1> QED  BY <1>1, ArchiveIInvHolds, PTL

\* Reconstruction, from any generations an interrupted drain or seal left, reads
\* every drained turn once and in order, unless zstd wrote something else.
THEOREM ReaderIsFaithful == Spec => []ReaderSeesEveryTurnOnce
<1>1. ArchiveIInv => ReaderSeesEveryTurnOnce
  BY ReaderIsServed
<1> QED  BY <1>1, ArchiveIInvHolds, PTL

-----------------------------------------------------------------------------
(* The codec.                                                              *)

\* Two histories share a longest prefix: the encoder finds it from the front.
LEMMA SharedHasLongest ==
    ASSUME NEW a \in Seq(Messages), NEW b \in Seq(Messages)
    PROVE  CommonPrefix(a, b) \in Shared(a, b)
<1> DEFINE Rest(n) == Len(a) - n
           T == {Rest(n) : n \in Shared(a, b)}
           R == {ss \in Nat \X Nat : ss[1] < ss[2]}
<1>1. 0 \in Shared(a, b) /\ Shared(a, b) \subseteq 0..Len(a)
  BY DEF Shared
<1>2. T \subseteq Nat /\ T # {}
  BY <1>1
<1>3. IsWellFoundedOn(R, Nat)
  BY NatLessThanWellFounded DEF OpToRel
<1>4. PICK x \in T : \A y \in T : ~(<<y, x>> \in R)
  <2> HIDE DEF T, R
  <2> QED  BY <1>2, <1>3, WFMin
<1>5. PICK n \in Shared(a, b) : x = Rest(n)
  BY <1>4
<1>6. \A m \in Shared(a, b) : m <= n
  <2> SUFFICES ASSUME NEW m \in Shared(a, b) PROVE m <= n
    OBVIOUS
  <2>1. Rest(m) \in T /\ Rest(m) \in Nat /\ x \in Nat
    BY <1>1, <1>2, <1>4
  <2>2. ~(Rest(m) < x)
    BY <2>1, <1>4
  <2> QED  BY <2>1, <2>2, <1>1, <1>5
<1> HIDE DEF T, R
<1> QED  BY <1>6 DEF CommonPrefix

\* A history is the prefix it shares with another and what comes after it.
LEMMA PrefixAndRest ==
    ASSUME NEW a \in Seq(Messages), NEW b \in Seq(Messages), NEW n \in Shared(a, b)
    PROVE  SubSeq(a, 1, n) \o SubSeq(b, n + 1, Len(b)) = b
<1> DEFINE left == SubSeq(a, 1, n)
           right == SubSeq(b, n + 1, Len(b))
<1>1. n \in Nat /\ n <= Len(a) /\ n <= Len(b) /\ \A i \in 1..n : a[i] = b[i]
  BY DEF Shared
<1>2. left \in Seq(Messages) /\ Len(left) = n /\ \A i \in 1..n : left[i] = b[i]
  BY <1>1
<1>3. /\ right \in Seq(Messages) /\ Len(right) = Len(b) - n
      /\ \A i \in 1..(Len(b) - n) : right[i] = b[n + i]
  BY <1>1
<1>4. left \o right \in Seq(Messages) /\ Len(left \o right) = Len(b)
  <2> HIDE DEF left, right
  <2> QED  BY <1>1, <1>2, <1>3
<1>5. ASSUME NEW i \in 1..Len(b) PROVE (left \o right)[i] = b[i]
  <2> HIDE DEF left, right
  <2>1. CASE i <= n
    BY <2>1, <1>1, <1>2, <1>3
  <2>2. CASE i > n
    <3>1. i - n \in 1..(Len(b) - n) /\ n + (i - n) = i
      BY <2>2, <1>1
    <3>2. (left \o right)[i] = right[i - n]
      BY <2>2, <1>1, <1>2, <1>3
    <3>3. right[i - n] = b[n + (i - n)]
      BY <3>1, <1>3
    <3> QED  BY <3>1, <3>2, <3>3
  <2>3. i <= n \/ i > n
    BY <1>1
  <2> QED  BY <2>1, <2>2, <2>3
<1> HIDE DEF left, right
<1>6. left \o right = b
  BY <1>4, <1>5, SeqEqual
<1> QED  BY <1>6 DEF left, right

\* What set and remove leave of the other fields are those of the body.
LEMMA FieldsReplay ==
    ASSUME NEW prior \in Objects \cup {NoBody}, NEW body \in Objects
    PROVE  Replayed(EncodeDelta(prior, body), prior.fields) = body.fields
<1> DEFINE stored == {k \in DOMAIN body.fields : ~(k \in BigFields /\ Unchanged(prior, body, k))}
           delta == EncodeDelta(prior, body)
<1>1. /\ delta.set = [k \in stored |-> body.fields[k]]
      /\ delta.remove = DOMAIN prior.fields \ DOMAIN body.fields
  BY DEF EncodeDelta, Objects
<1>2. body.fields = [k \in DOMAIN body.fields |-> body.fields[k]]
  BY DEF Objects
<1>3. stored \subseteq DOMAIN body.fields
  OBVIOUS
<1>4. \A k \in DOMAIN body.fields \ stored :
          k \in DOMAIN prior.fields /\ prior.fields[k] = body.fields[k]
  BY DEF Unchanged
<1>5. DOMAIN delta.set = stored /\ \A k \in stored : delta.set[k] = body.fields[k]
  <2> HIDE DEF delta, stored
  <2> QED  BY <1>1
<1> HIDE DEF delta, stored
<1>6. (DOMAIN prior.fields \ delta.remove) \cup DOMAIN delta.set = DOMAIN body.fields
  BY <1>1, <1>3, <1>4, <1>5
<1>7. Replayed(delta, prior.fields) = [k \in DOMAIN body.fields |-> body.fields[k]]
  <2>1. \A k \in DOMAIN body.fields :
            (IF k \in DOMAIN delta.set THEN delta.set[k] ELSE prior.fields[k]) = body.fields[k]
    BY <1>3, <1>4, <1>5
  <2> QED  BY <2>1, <1>6 DEF Replayed
<1> QED  BY <1>2, <1>7 DEF delta

\* Every body is stored so that the reader of the one before it gets it back:
\* no bound on histories, fields or edits.
THEOREM DeltasReplay == AllReplay
<1> SUFFICES ASSUME NEW prior \in Bodies \cup {NoBody}, NEW body \in Bodies
             PROVE  Replays(prior, body)
  BY DEF AllReplay
<1>1. body \in Objects /\ prior \in Objects \cup {NoBody}
  BY CodecAssumption
<1> DEFINE delta == EncodeDelta(prior, body)
           state == [history |-> prior.history, dict |-> <<>>]
           n == CommonPrefix(prior.history, body.history)
<1>2. prior.history \in Seq(Messages) /\ body.history \in Seq(Messages)
  <2>1. \A b \in Objects : b.history \in Seq(Messages)
    BY DEF Objects
  <2>2. NoBody.history \in Seq(Messages)
    BY DEF NoBody
  <2> QED  BY <1>1, <2>1, <2>2
<1>3. n \in Shared(prior.history, body.history)
  BY <1>2, SharedHasLongest
<1>4. /\ delta.form = "append" /\ delta.prefix = n
      /\ delta.append = SubSeq(body.history, n + 1, Len(body.history))
  BY DEF EncodeDelta
<1>5. n \in 0..Len(prior.history)
  BY <1>3 DEF Shared
<1>6. SubSeq(prior.history, 1, n) \o delta.append = body.history
  <2> HIDE DEF delta, n
  <2>1. SubSeq(prior.history, 1, n) \o SubSeq(body.history, n + 1, Len(body.history))
            = body.history
    BY <1>2, <1>3, PrefixAndRest
  <2> QED  BY <2>1, <1>4
<1>7. Replayed(delta, prior.fields) = body.fields
  BY <1>1, FieldsReplay
<1>8. Valid(delta, state)
  <2> HIDE DEF delta, n
  <2> QED  BY <1>4, <1>5 DEF Valid
<1>9. ApplyDelta(delta, state).history = body.history
  <2> HIDE DEF delta, n
  <2> QED  BY <1>4, <1>6 DEF ApplyDelta
<1> QED  BY <1>7, <1>8, <1>9 DEF Replays

-----------------------------------------------------------------------------
(* What a reader rebuilds.                                                 *)

\* A set of numbers up to n with a member has a greatest one.
LEMMA GreatestUpTo ==
    ASSUME NEW n \in Nat, NEW S \in SUBSET (1..n), S # {}
    PROVE  Max(S) \in S /\ \A y \in S : Max(S) >= y
<1> DEFINE Below == {n - x : x \in S}
<1>1. Below \in SUBSET Nat /\ Below # {}
  <2>1. \A x \in S : n - x \in Nat
    OBVIOUS
  <2> QED  BY <2>1
<1>2. PICK m \in Below : \A y \in Below : m <= y
  <2> HIDE DEF Below
  <2> QED  BY <1>1, LeastNatural
<1>3. PICK x \in S : m = n - x
  BY <1>2
<1>4. \A y \in S : x >= y
  <2> SUFFICES ASSUME NEW y \in S PROVE x >= y
    OBVIOUS
  <2>1. n - y \in Below
    OBVIOUS
  <2>2. m <= n - y
    BY <1>2, <2>1
  <2> HIDE DEF Below
  <2> QED  BY <1>3, <2>2
<1> HIDE DEF Below
<1> QED  BY <1>4 DEF Max

\* What is folded here: the reader over envelopes, the blocks of an answer over its
\* events, the harness over envelopes, a capture of mixed forms over requests, and
\* the pieces of a field over deltas.  The provers cannot be given an operator, so
\* what is shown once for all of them tells them apart by name.
Step(k, v, x) ==
    CASE k = "envelopes" -> Apply(v, x)
      [] k = "events"    -> Accumulate(v, x)
      [] k = "labels"    -> FromEnvelope(v, x)
      [] k = "requests"  -> Replaying(v, x)
      [] OTHER           -> Picked(v, x, k)

\* What a fold of the sequence e is, over every set of its places.
Folds(k, base, g, e, n) ==
    g = [s \in SUBSET (1..n) |->
            IF s = {} THEN base ELSE Step(k, g[s \ {Max(s)}], e[Max(s)])]

\* There is such a fold, by the least length without.
LEMMA FoldExists ==
    ASSUME NEW k, NEW base, NEW e
    PROVE  \A n \in Nat : \E g : Folds(k, base, g, e, n)
<1> DEFINE Bad == {n \in Nat : ~ \E g : Folds(k, base, g, e, n)}
<1> SUFFICES ASSUME Bad # {} PROVE FALSE
  OBVIOUS
<1>1. PICK n \in Bad : \A m \in Bad : n <= m
  <2>1. Bad \in SUBSET Nat
    OBVIOUS
  <2> HIDE DEF Bad
  <2> QED  BY <2>1, LeastNatural
<1>2. n \in Nat /\ ~ \E g : Folds(k, base, g, e, n)
  OBVIOUS
<1>3. n # 0
  <2> SUFFICES ASSUME n = 0 PROVE FALSE
    OBVIOUS
  <2> DEFINE g == [s \in SUBSET (1..0) |-> base]
  <2>1. \A s \in SUBSET (1..0) : s = {}
    OBVIOUS
  <2>2. g = [s \in SUBSET (1..0) |->
                IF s = {} THEN base ELSE Step(k, g[s \ {Max(s)}], e[Max(s)])]
    BY <2>1
  <2> HIDE DEF g
  <2>3. Folds(k, base, g, e, 0)
    BY <2>2 DEF Folds
  <2> QED  BY <2>3, <1>2
<1>4. n - 1 \in Nat /\ n - 1 \notin Bad
  <2>1. n - 1 \in Nat /\ ~(n <= n - 1)
    BY <1>2, <1>3
  <2> HIDE DEF Bad
  <2> QED  BY <1>1, <2>1
<1>5. PICK g : Folds(k, base, g, e, n - 1)
  BY <1>4
<1> DEFINE h == [s \in SUBSET (1..n) |->
                    IF n \in s THEN Step(k, g[s \ {n}], e[n]) ELSE g[s]]
<1>6. \A s \in SUBSET (1..(n - 1)) :
          g[s] = IF s = {} THEN base ELSE Step(k, g[s \ {Max(s)}], e[Max(s)])
  BY <1>5 DEF Folds
<1>7. \A s \in SUBSET (1..n) :
          h[s] = IF s = {} THEN base ELSE Step(k, h[s \ {Max(s)}], e[Max(s)])
  <2> SUFFICES ASSUME NEW s \in SUBSET (1..n)
               PROVE  h[s] = IF s = {} THEN base ELSE Step(k, h[s \ {Max(s)}], e[Max(s)])
    OBVIOUS
  <2>1. CASE s = {}
    <3>1. h[s] = g[s] /\ s \in SUBSET (1..(n - 1))
      BY <2>1
    <3> HIDE DEF h
    <3> QED  BY <2>1, <3>1, <1>6
  <2>2. CASE n \in s
    <3>1. Max(s) \in s /\ Max(s) >= n
      BY <1>2, <2>2, GreatestUpTo
    <3>2. Max(s) = n
      <4>1. Max(s) \in 1..n
        BY <3>1
      <4> QED  BY <3>1, <4>1, <1>2
    <3>3. h[s \ {n}] = g[s \ {n}]
      <4> DEFINE r == s \ {n}
      <4>1. r \in SUBSET (1..n) /\ n \notin r
        OBVIOUS
      <4> HIDE DEF r
      <4>2. h[r] = g[r]
        BY <4>1
      <4> QED  BY <4>2 DEF r
    <3>4. h[s] = Step(k, g[s \ {n}], e[n])
      BY <2>2
    <3> HIDE DEF h
    <3> QED  BY <2>2, <3>2, <3>3, <3>4
  <2>3. CASE s # {} /\ n \notin s
    <3>1. s \in SUBSET (1..(n - 1))
      <4>1. \A x \in s : x \in 1..n /\ x # n
        BY <2>3
      <4> QED  BY <4>1, <1>2
    <3>2. s \ {Max(s)} \in SUBSET (1..n) /\ n \notin s \ {Max(s)}
      BY <2>3
    <3>3. h[s] = g[s] /\ h[s \ {Max(s)}] = g[s \ {Max(s)}]
      BY <2>3, <3>2
    <3> HIDE DEF h
    <3> QED  BY <2>3, <3>1, <3>3, <1>6
  <2> QED  BY <2>1, <2>2, <2>3
<1>8. h = [s \in SUBSET (1..n) |->
              IF s = {} THEN base ELSE Step(k, h[s \ {Max(s)}], e[Max(s)])]
  <2>1. DOMAIN h = SUBSET (1..n) /\ h = [s \in SUBSET (1..n) |-> h[s]]
    OBVIOUS
  <2> HIDE DEF h
  <2> QED  BY <1>7, <2>1
<1>9. Folds(k, base, h, e, n)
  <2> HIDE DEF h
  <2> QED  BY <1>8 DEF Folds
<1> HIDE DEF h
<1> QED  BY <1>2, <1>9

\* Its values at the first places are those that one step after the other gives.
LEMMA FoldsInOrder ==
    ASSUME NEW k, NEW base, NEW n \in Nat, NEW e, NEW g, Folds(k, base, g, e, n)
    PROVE  g[1..0] = base /\ \A i \in 1..n : g[1..i] = Step(k, g[1..(i - 1)], e[i])
<1>1. \A s \in SUBSET (1..n) :
          g[s] = IF s = {} THEN base ELSE Step(k, g[s \ {Max(s)}], e[Max(s)])
  BY DEF Folds
<1>2. g[1..0] = base
  <2>1. 1..0 = {} /\ 1..0 \in SUBSET (1..n)
    OBVIOUS
  <2> QED  BY <2>1, <1>1
<1>3. ASSUME NEW i \in 1..n PROVE g[1..i] = Step(k, g[1..(i - 1)], e[i])
  <2>1. 1..i \in SUBSET (1..n) /\ 1..i # {} /\ i \in 1..i
    <3>1. i \in Nat /\ 1 <= i /\ i <= n
      OBVIOUS
    <3>2. i \in 1..i /\ \A x \in 1..i : x \in 1..n
      BY <3>1
    <3> QED  BY <3>2
  <2>2. Max(1..i) = i
    <3>1. Max(1..i) \in 1..i /\ Max(1..i) >= i
      BY <2>1, GreatestUpTo
    <3> QED  BY <3>1
  <2>3. (1..i) \ {i} = 1..(i - 1)
    <3>1. i \in Nat
      OBVIOUS
    <3>2. \A x : x \in (1..i) \ {i} <=> x \in 1..(i - 1)
      BY <3>1
    <3> QED  BY <3>2
  <2> QED  BY <1>1, <2>1, <2>2, <2>3
<1> QED  BY <1>2, <1>3

\* The value st of each step, from base to the end of e.
Traces(k, base, st, e, n) == st[0] = base /\ \A i \in 1..n : st[i] = Step(k, st[i - 1], e[i])

\* A fold has such values.
LEMMA TraceExists ==
    ASSUME NEW k, NEW base, NEW n \in Nat, NEW e
    PROVE  \E st : Traces(k, base, st, e, n)
<1>1. PICK g : Folds(k, base, g, e, n)
  BY FoldExists
<1>2. \A f : Folds(k, base, f, e, n) =>
          f[1..0] = base /\ \A i \in 1..n : f[1..i] = Step(k, f[1..(i - 1)], e[i])
  BY FoldsInOrder
<1> DEFINE st == [i \in 0..n |-> g[1..i]]
<1>3. st[0] = base
  <2>1. 0 \in 0..n
    OBVIOUS
  <2>2. st[0] = g[1..0]
    BY <2>1
  <2> HIDE DEF st
  <2> QED  BY <2>2, <1>1, <1>2
<1>4. ASSUME NEW i \in 1..n PROVE st[i] = Step(k, st[i - 1], e[i])
  <2>1. i \in 0..n /\ i - 1 \in 0..n
    OBVIOUS
  <2>2. st[i] = g[1..i] /\ st[i - 1] = g[1..(i - 1)]
    BY <2>1
  <2> HIDE DEF st
  <2> QED  BY <2>2, <1>1, <1>2
<1> HIDE DEF st
<1> QED  BY <1>3, <1>4 DEF Traces

\* They are the same for every fold of e, by the least place at which two differ.
LEMMA FoldEndsIn ==
    ASSUME NEW k, NEW base, NEW n \in Nat, NEW e, NEW g, Folds(k, base, g, e, n),
           NEW st, Traces(k, base, st, e, n)
    PROVE  g[1..n] = st[n]
<1> DEFINE Bad == {i \in 0..n : g[1..i] # st[i]}
<1>1. g[1..0] = base /\ \A i \in 1..n : g[1..i] = Step(k, g[1..(i - 1)], e[i])
  BY FoldsInOrder
<1>2. Bad = {}
  <2> SUFFICES ASSUME Bad # {} PROVE FALSE
    OBVIOUS
  <2>1. Bad \in SUBSET Nat
    OBVIOUS
  <2>2. PICK i \in Bad : \A m \in Bad : i <= m
    <3> HIDE DEF Bad
    <3> QED  BY <2>1, LeastNatural
  <2>3. i \in 0..n /\ g[1..i] # st[i]
    OBVIOUS
  <2>4. CASE i = 0
    BY <1>1, <2>3, <2>4 DEF Traces
  <2>5. CASE i # 0
    <3>1. i \in 1..n /\ i - 1 \in 0..n /\ ~(i <= i - 1)
      BY <2>3, <2>5
    <3>2. i - 1 \notin Bad
      <4> HIDE DEF Bad
      <4> QED  BY <2>2, <3>1
    <3>3. g[1..(i - 1)] = st[i - 1]
      BY <3>1, <3>2
    <3> QED  BY <1>1, <2>3, <3>1, <3>3 DEF Traces
  <2> QED  BY <2>4, <2>5
<1>3. n \in 0..n
  OBVIOUS
<1> QED  BY <1>2, <1>3

\* The folds of the model end where their steps lead.
LEMMA ReconstructEndsIn ==
    ASSUME NEW n \in Nat, NEW e, DOMAIN e = 1..n, NEW st, Traces("envelopes", Start, st, e, n)
    PROVE  Reconstruct(e) = st[n]
<1> DEFINE Fold(g) == g = [s \in SUBSET (1..n) |->
                             IF s = {} THEN Start ELSE Apply(g[s \ {Max(s)}], e[Max(s)])]
           G == CHOOSE g : Fold(g)
<1>1. \A v, x : Step("envelopes", v, x) = Apply(v, x)
  BY DEF Step
<1>2. \A g : Folds("envelopes", Start, g, e, n) <=> Fold(g)
  BY <1>1 DEF Folds
<1>3. Fold(G)
  BY <1>2, FoldExists
<1>4. Reconstruct(e) = G[1..n]
  BY DEF Reconstruct, FoldLeft, MapThenFoldSet
<1> HIDE DEF G, Fold
<1> QED  BY <1>2, <1>3, <1>4, FoldEndsIn

\* Each of the folds ends where its trace does: the blocks of an answer,
LEMMA AccumulateEndsIn ==
    ASSUME NEW n \in Nat, NEW e, DOMAIN e = 1..n, NEW st, Traces("events", <<>>, st, e, n)
    PROVE  FoldLeft(Accumulate, <<>>, e) = st[n]
<1> DEFINE Fold(g) == g = [s \in SUBSET (1..n) |->
                             IF s = {} THEN <<>> ELSE Accumulate(g[s \ {Max(s)}], e[Max(s)])]
           G == CHOOSE g : Fold(g)
<1>1. \A v, x : Step("events", v, x) = Accumulate(v, x)
  BY DEF Step
<1>2. \A g : Folds("events", <<>>, g, e, n) <=> Fold(g)
  BY <1>1 DEF Folds
<1>3. Fold(G)
  BY <1>2, FoldExists
<1>4. FoldLeft(Accumulate, <<>>, e) = G[1..n]
  BY DEF FoldLeft, MapThenFoldSet
<1> HIDE DEF G, Fold
<1> QED  BY <1>2, <1>3, <1>4, FoldEndsIn

\* the harness of a whole capture,
LEMMA LabelsEndIn ==
    ASSUME NEW n \in Nat, NEW e, DOMAIN e = 1..n, NEW st, Traces("labels", Unknown, st, e, n)
    PROVE  FoldLeft(FromEnvelope, Unknown, e) = st[n]
<1> DEFINE Fold(g) == g = [s \in SUBSET (1..n) |->
                             IF s = {} THEN Unknown ELSE FromEnvelope(g[s \ {Max(s)}], e[Max(s)])]
           G == CHOOSE g : Fold(g)
<1>1. \A v, x : Step("labels", v, x) = FromEnvelope(v, x)
  BY DEF Step
<1>2. \A g : Folds("labels", Unknown, g, e, n) <=> Fold(g)
  BY <1>1 DEF Folds
<1>3. Fold(G)
  BY <1>2, FoldExists
<1>4. FoldLeft(FromEnvelope, Unknown, e) = G[1..n]
  BY DEF FoldLeft, MapThenFoldSet
<1> HIDE DEF G, Fold
<1> QED  BY <1>2, <1>3, <1>4, FoldEndsIn

\* the capture of mixed forms,
LEMMA RequestsEndIn ==
    ASSUME NEW n \in Nat, NEW e, DOMAIN e = 1..n, NEW base, NEW st, Traces("requests", base, st, e, n)
    PROVE  FoldLeft(Replaying, base, e) = st[n]
<1> DEFINE Fold(g) == g = [s \in SUBSET (1..n) |->
                             IF s = {} THEN base ELSE Replaying(g[s \ {Max(s)}], e[Max(s)])]
           G == CHOOSE g : Fold(g)
<1>1. \A v, x : Step("requests", v, x) = Replaying(v, x)
  BY DEF Step
<1>2. \A g : Folds("requests", base, g, e, n) <=> Fold(g)
  BY <1>1 DEF Folds
<1>3. Fold(G)
  BY <1>2, FoldExists
<1>4. FoldLeft(Replaying, base, e) = G[1..n]
  BY DEF FoldLeft, MapThenFoldSet
<1> HIDE DEF G, Fold
<1> QED  BY <1>2, <1>3, <1>4, FoldEndsIn

\* and the text of a field.
LEMMA TextEndsIn ==
    ASSUME NEW n \in Nat, NEW b, DOMAIN b.deltas = 1..n, NEW f \in DOMAIN NoText,
            NEW st, Traces(f, <<>>, st, b.deltas, n)
    PROVE  Text(b, f) = st[n]
<1> DEFINE Fold(g) == g = [s \in SUBSET (1..n) |->
                             IF s = {} THEN <<>> ELSE Picked(g[s \ {Max(s)}], b.deltas[Max(s)], f)]
           G == CHOOSE g : Fold(g)
<1>1. \A v, x : Step(f, v, x) = Picked(v, x, f)
  BY DEF Step, NoText
<1>2. \A g : Folds(f, <<>>, g, b.deltas, n) <=> Fold(g)
  BY <1>1 DEF Folds
<1>3. Fold(G)
  BY <1>2, FoldExists
<1>4. Text(b, f) = G[1..n]
  BY DEF Text, FoldLeft, MapThenFoldSet
<1> HIDE DEF G, Fold
<1> QED  BY <1>2, <1>3, <1>4, FoldEndsIn

\* The body before the n-th.
Prior(c, n) == IF n = 1 THEN NoBody ELSE c[n - 1].body

\* What the reader's state is once the first n turns of c are applied.
StateOf(c, n) ==
    IF n = 0 THEN Start
    ELSE [history |-> c[n].body.history, dict |-> <<>>, key |-> c[n].key,
          harness |-> HarnessOf(c, n), trailing |-> c[n].answer, envelopes |-> n, ok |-> TRUE]

\* The first n turns are of one harness.
OneLabel(c, n) ==
    \A i, j \in 1..n :
        Recognized(c[i].label) /\ Recognized(c[j].label) => c[i].label = c[j].label

\* Where there is a label, it is the harness; else the keys of the histories say.
LEMMA HarnessIs ==
    ASSUME NEW c, NEW m, OneLabel(c, m)
    PROVE  /\ \A i \in 1..m : Recognized(c[i].label) => HarnessOf(c, m) = c[i].label
           /\ (\A i \in 1..m : ~Recognized(c[i].label)) =>
                HarnessOf(c, m) = IF \E i \in 1..m : c[i].key = "input"
                                  THEN Provisional ELSE Unknown
<1>1. ASSUME NEW i \in 1..m, Recognized(c[i].label) PROVE HarnessOf(c, m) = c[i].label
  <2>1. \A j \in 1..m : Recognized(c[j].label) => c[j].label = c[i].label
    BY <1>1 DEF OneLabel
  <2>2. c[i].label \in {Codex, Claude}
    BY <1>1 DEF Recognized
  <2>3. \A h \in {Codex, Claude} : (\E j \in 1..m : c[j].label = h) <=> h = c[i].label
    BY <2>1 DEF Recognized
  <2> QED  BY <1>1, <2>2, <2>3 DEF HarnessOf
<1> QED  BY <1>1 DEF HarnessOf

\* The harness that the first turns show is the one that the next envelope adds to,
\* and conflicts with where there are two.
LEMMA HarnessFollows ==
    ASSUME NEW c, NEW n \in Nat \ {0}, OneLabel(c, n - 1),
           NEW env, env.label = c[n].label, env.key = c[n].key
    PROVE  /\ Conflicting(HarnessOf(c, n - 1), env) <=> ~OneLabel(c, n)
           /\ OneLabel(c, n) => HarnessOf(c, n) = NextHarness(HarnessOf(c, n - 1), env)
<1> DEFINE Labelled(m) == \E i \in 1..m : Recognized(c[i].label)
           Inputs(m) == \E i \in 1..m : c[i].key = "input"
           old == HarnessOf(c, n - 1)
<1>1. /\ n \in 1..n /\ \A i \in 1..(n - 1) : i \in 1..n
      /\ \A i \in 1..n : i = n \/ i \in 1..(n - 1)
  OBVIOUS
<1>2. /\ Labelled(n) <=> Labelled(n - 1) \/ Recognized(env.label)
      /\ Inputs(n) <=> Inputs(n - 1) \/ env.key = "input"
  BY <1>1
<1>3. ~Recognized(Provisional) /\ ~Recognized(Unknown) /\ Provisional # Unknown
  BY DEF Recognized, Provisional, Unknown, Codex, Claude
<1>4. ~Labelled(n - 1) => old = IF Inputs(n - 1) THEN Provisional ELSE Unknown
  BY HarnessIs
<1>5. OneLabel(c, n) /\ ~Labelled(n) =>
          HarnessOf(c, n) = IF Inputs(n) THEN Provisional ELSE Unknown
  BY HarnessIs
<1> HIDE DEF Inputs, old
<1>6. CASE Labelled(n - 1)
  <2>1. PICK i \in 1..(n - 1) : Recognized(c[i].label)
    BY <1>6
  <2>2. old = c[i].label
    BY <2>1, HarnessIs DEF old
  <2>3. OneLabel(c, n) <=> (Recognized(env.label) => env.label = c[i].label)
    <3>1. OneLabel(c, n) => (Recognized(env.label) => env.label = c[i].label)
      BY <1>1, <2>1 DEF OneLabel
    <3>2. ASSUME Recognized(env.label) => env.label = c[i].label PROVE OneLabel(c, n)
      <4>1. \A j \in 1..n : Recognized(c[j].label) => c[j].label = c[i].label
        BY <1>1, <2>1, <3>2 DEF OneLabel
      <4> QED  BY <4>1 DEF OneLabel
    <3> QED  BY <3>1, <3>2
  <2>4. OneLabel(c, n) => HarnessOf(c, n) = c[i].label
    BY <1>1, <2>1, HarnessIs
  <2>5. Conflicting(old, env) <=> ~OneLabel(c, n)
    BY <2>1, <2>2, <2>3 DEF Conflicting
  <2>6. OneLabel(c, n) => HarnessOf(c, n) = NextHarness(old, env)
    <3>1. Recognized(env.label) /\ OneLabel(c, n) => env.label = c[i].label
      BY <2>3
    <3>2. old # Unknown
      BY <1>3, <2>1, <2>2
    <3> QED  BY <2>2, <2>4, <3>1, <3>2 DEF NextHarness
  <2> QED  BY <2>5, <2>6 DEF old
<1>7. CASE ~Labelled(n - 1)
  <2>1. OneLabel(c, n)
    BY <1>1, <1>7 DEF OneLabel
  <2>2. ~Conflicting(old, env)
    BY <1>3, <1>4, <1>7 DEF Conflicting
  <2>3. CASE Recognized(env.label)
    <3>1. HarnessOf(c, n) = env.label
      BY <1>1, <2>1, <2>3, HarnessIs
    <3> QED  BY <2>1, <2>2, <2>3, <3>1 DEF NextHarness, old
  <2>4. CASE ~Recognized(env.label)
    <3>1. HarnessOf(c, n) = IF Inputs(n) THEN Provisional ELSE Unknown
      BY <1>2, <1>5, <1>7, <2>1, <2>4
    <3> QED  BY <1>2, <1>3, <1>4, <1>7, <2>1, <2>2, <2>4, <3>1 DEF NextHarness, old
  <2> QED  BY <2>3, <2>4
<1> QED  BY <1>6, <1>7

\* A reader's state with a new history, and then with what else an envelope sets.
LEMMA StateRewritten ==
    ASSUME NEW h, NEW k, NEW hs, NEW t, NEW n, NEW h2, NEW k2, NEW hs2, NEW t2
    PROVE  LET old == [history |-> h, dict |-> <<>>, key |-> k, harness |-> hs,
                       trailing |-> t, envelopes |-> n, ok |-> TRUE]
               new == [history |-> h2, dict |-> <<>>, key |-> k2, harness |-> hs2,
                       trailing |-> t2, envelopes |-> n + 1, ok |-> TRUE]
           IN  [[old EXCEPT !.history = h2] EXCEPT
                   !.key = k2, !.harness = hs2, !.envelopes = @ + 1, !.trailing = t2] = new
<1> DEFINE old == [history |-> h, dict |-> <<>>, key |-> k, harness |-> hs,
                   trailing |-> t, envelopes |-> n, ok |-> TRUE]
           mid == [history |-> h2, dict |-> <<>>, key |-> k, harness |-> hs,
                   trailing |-> t, envelopes |-> n, ok |-> TRUE]
           new == [history |-> h2, dict |-> <<>>, key |-> k2, harness |-> hs2,
                   trailing |-> t2, envelopes |-> n + 1, ok |-> TRUE]
           places == {"history", "dict", "key", "harness", "trailing", "envelopes", "ok"}
           got == [mid EXCEPT !.key = k2, !.harness = hs2, !.envelopes = @ + 1, !.trailing = t2]
<1>1. [old EXCEPT !.history = h2] = mid
  <2> DEFINE new1 == [old EXCEPT !.history = h2]
  <2>1. DOMAIN new1 = places /\ DOMAIN mid = places
    OBVIOUS
  <2>2. /\ new1.history = mid.history /\ new1.dict = mid.dict /\ new1.ok = mid.ok
        /\ new1.key = mid.key /\ new1.harness = mid.harness
        /\ new1.envelopes = mid.envelopes /\ new1.trailing = mid.trailing
    OBVIOUS
  <2>3. new1 = [x \in DOMAIN new1 |-> new1[x]] /\ mid = [x \in DOMAIN mid |-> mid[x]]
    OBVIOUS
  <2> HIDE DEF new1, mid
  <2>4. \A x \in places : new1[x] = mid[x]
    BY <2>2
  <2> HIDE DEF places
  <2>5. new1 = mid
    BY <2>1, <2>3, <2>4
  <2> QED  BY <2>5 DEF new1
<1>2. got = new
  <2>1. DOMAIN got = places /\ DOMAIN new = places
    OBVIOUS
  <2>2. /\ got.history = new.history /\ got.dict = new.dict /\ got.ok = new.ok
        /\ got.key = new.key /\ got.harness = new.harness
        /\ got.envelopes = new.envelopes /\ got.trailing = new.trailing
    OBVIOUS
  <2>3. got = [x \in DOMAIN got |-> got[x]] /\ new = [x \in DOMAIN new |-> new[x]]
    OBVIOUS
  <2> HIDE DEF got, new
  <2>4. \A x \in places : got[x] = new[x]
    BY <2>2
  <2> HIDE DEF places
  <2> QED  BY <2>1, <2>3, <2>4
<1> QED  BY <1>1, <1>2

\* The envelope of a turn takes the reader from the turn before it to that turn.
LEMMA EnvelopeApplies ==
    ASSUME NEW c \in Conversations, NEW n \in 1..MaxTurns
    PROVE  StateOf(c, n) = Apply(StateOf(c, n - 1), Envelope(c, n))
<1> DEFINE prior == Prior(c, n)
           body == c[n].body
           env == Envelope(c, n)
           delta == EncodeDelta(prior, body)
           p == CommonPrefix(prior.history, body.history)
           old == StateOf(c, n - 1)
<1>1. n \in Nat /\ n >= 1 /\ n \in DOMAIN c /\ (n # 1 => n - 1 \in DOMAIN c)
  BY SealingAssumption, ReadingAssumption
<1>2. body.history \in Seq(Messages) /\ prior.history \in Seq(Messages)
  <2>1. \A b \in Objects : b.history \in Seq(Messages)
    BY DEF Objects
  <2>2. NoBody.history \in Seq(Messages)
    BY DEF NoBody
  <2> QED  BY <1>1, <2>1, <2>2, ReadingAssumption DEF Prior
<1>3. p \in Shared(prior.history, body.history) /\ p \in 0..Len(prior.history)
  <2>1. p \in Shared(prior.history, body.history)
    BY <1>2, SharedHasLongest
  <2> QED  BY <2>1 DEF Shared
<1>4. SubSeq(prior.history, 1, p) \o SubSeq(body.history, p + 1, Len(body.history)) = body.history
  BY <1>2, <1>3, PrefixAndRest
<1>5. /\ env.label = c[n].label /\ env.key = c[n].key /\ env.delta = delta
      /\ env.turn = c[n].turn /\ env.complete = c[n].complete /\ env.events = c[n].events
  BY DEF Envelope, Prior
<1>6. /\ delta.form = "append" /\ delta.prefix = p
      /\ delta.append = SubSeq(body.history, p + 1, Len(body.history))
  BY DEF EncodeDelta
<1>7. /\ old.ok = TRUE /\ old.history = prior.history /\ old.harness = HarnessOf(c, n - 1)
      /\ \E k, t : old = [history |-> prior.history, dict |-> <<>>, key |-> k,
                          harness |-> HarnessOf(c, n - 1), trailing |-> t,
                          envelopes |-> n - 1, ok |-> TRUE]
  <2>1. CASE n = 1
    <3>1. HarnessOf(c, 0) = Unknown
      BY DEF HarnessOf
    <3>2. prior.history = <<>>
      BY <2>1 DEF Prior, NoBody
    <3>3. old = Start /\ n - 1 = 0
      BY <2>1 DEF StateOf
    <3> QED  BY <3>1, <3>2, <3>3 DEF Start
  <2>2. CASE n # 1
    <3>1. n - 1 # 0 /\ prior = c[n - 1].body
      BY <1>1, <2>2 DEF Prior
    <3>2. old = [history |-> prior.history, dict |-> <<>>, key |-> c[n - 1].key,
                 harness |-> HarnessOf(c, n - 1), trailing |-> c[n - 1].answer,
                 envelopes |-> n - 1, ok |-> TRUE]
      BY <3>1 DEF StateOf
    <3> HIDE DEF old, prior
    <3> QED  BY <3>2
  <2> QED  BY <2>1, <2>2
<1> HIDE DEF prior, body, env, delta, p, old
<1>8. Valid(env.delta, old)
  BY <1>3, <1>5, <1>6, <1>7 DEF Valid
<1>9. ApplyDelta(env.delta, old) = [old EXCEPT !.history = body.history]
  <2>1. ApplyDelta(delta, old) = [old EXCEPT !.history = SubSeq(@, 1, p) \o delta.append]
    BY <1>6 DEF ApplyDelta
  <2> QED  BY <1>4, <1>5, <1>6, <1>7, <2>1
<1>10. /\ HarnessOf(c, n) = NextHarness(old.harness, env)
       /\ ~Conflicting(old.harness, env)
  <2>1. OneLabel(c, n - 1) /\ OneLabel(c, n)
    <3>1. 1..n \subseteq DOMAIN c /\ 1..(n - 1) \subseteq DOMAIN c
      BY SealingAssumption, ReadingAssumption
    <3> QED  BY <3>1, ConversationAssumption DEF OneLabel
  <2>2. n \in Nat \ {0}
    BY <1>1
  <2> QED  BY <1>5, <1>7, <2>1, <2>2, HarnessFollows
<1>11. ResponseOutput(env, HarnessValue(HarnessOf(c, n))) = c[n].answer
  <2>1. ResponseOutput(env, HarnessValue(HarnessOf(c, n)))
            = ResponseOutput(c[n], HarnessValue(HarnessOf(c, n)))
    BY <1>5 DEF ResponseOutput
  <2> QED  BY <1>1, <2>1, ConversationAssumption
<1>12. Apply(old, env) = [[old EXCEPT !.history = body.history] EXCEPT
                            !.key = env.key, !.harness = HarnessOf(c, n),
                            !.envelopes = @ + 1, !.trailing = c[n].answer]
  BY <1>7, <1>8, <1>9, <1>10, <1>11 DEF Apply, LastAnswer
<1>13. Apply(old, env) = [history |-> body.history, dict |-> <<>>, key |-> env.key,
                          harness |-> HarnessOf(c, n), trailing |-> c[n].answer,
                          envelopes |-> n, ok |-> TRUE]
  <2>1. PICK k, t : old = [history |-> prior.history, dict |-> <<>>, key |-> k,
                           harness |-> HarnessOf(c, n - 1), trailing |-> t,
                           envelopes |-> n - 1, ok |-> TRUE]
    BY <1>7
  <2>2. (n - 1) + 1 = n
    BY <1>1
  <2> QED  BY <1>12, <2>1, <2>2, StateRewritten
<1>14. StateOf(c, n) = [history |-> body.history, dict |-> <<>>, key |-> env.key,
                        harness |-> HarnessOf(c, n), trailing |-> c[n].answer,
                        envelopes |-> n, ok |-> TRUE]
  BY <1>1, <1>5 DEF StateOf, body
<1> QED  BY <1>13, <1>14 DEF old, env

\* What a reader is shown, unless it is refused: the turns from one to n, each
\* reserved.
LEMMA TurnsShown ==
    ASSUME ArchiveIInv, ReadTurns # Conflict
    PROVE  /\ ReadTurns \in Seq(Records)
           /\ \E n \in 0..MaxTurns : Counts(ReadTurns, n) /\ DOMAIN ReadTurns = 1..n
<1>1. TypeOK /\ FramesFit /\ EveryRecordOnce /\ AheadIsNext
  BY DEF ArchiveIInv, ArchiveInv
<1>2. drained \in Nat /\ reserved \in Nat /\ drained <= reserved /\ reserved <= MaxTurns
  BY <1>1, SealingAssumption DEF TypeOK
<1>3. PICK n \in {drained, drained + 1} : Numbers(Archive("turns")) = UpTo(n)
  BY <1>1 DEF EveryRecordOnce
<1>4. n \in 0..MaxTurns
  <2>1. CASE n = drained
    BY <1>2, <2>1, SealingAssumption
  <2>2. CASE n = drained + 1
    <3>1. drained < reserved
      BY <1>1, <1>3, <2>2 DEF AheadIsNext, TurnOpen
    <3> QED  BY <1>2, <2>2, <3>1, SealingAssumption
  <2> QED  BY <1>3, <2>1, <2>2
<1>5. ReadTurns = Archive("turns") /\ ReadTurns \in Seq(Records) /\ n \in Nat
  <2>1. ReadTurns = Archive("turns")
    BY ReadsOrIsRefused
  <2>2. "turns" \in Streams
    BY DEF Streams
  <2>3. Archive("turns") \in Seq(Records)
    BY <1>1, <2>2, ArchiveTypes
  <2> QED  BY <1>2, <1>3, <2>1, <2>3
<1>6. Counts(ReadTurns, n)
  BY <1>3, <1>5, NumbersCount
<1> QED  BY <1>4, <1>5, <1>6 DEF Counts

\* What the reader of a conversation has after its turns from one to n.
LEMMA StatesEndIn ==
    ASSUME NEW c \in Conversations, NEW n \in 1..MaxTurns,
           NEW envs, DOMAIN envs = 1..n, \A i \in 1..n : envs[i] = Envelope(c, i)
    PROVE  Reconstruct(envs) = StateOf(c, n)
<1> DEFINE st == [i \in 0..n |-> StateOf(c, i)]
<1>1. n \in Nat /\ \A i \in 1..n : i \in 1..MaxTurns
  BY SealingAssumption
<1>2. st[0] = Start
  BY <1>1 DEF StateOf
<1>3. \A i \in 1..n : st[i] = Apply(st[i - 1], envs[i])
  <2> SUFFICES ASSUME NEW i \in 1..n PROVE st[i] = Apply(st[i - 1], envs[i])
    OBVIOUS
  <2>1. i \in 0..n /\ i - 1 \in 0..n
    BY <1>1
  <2>2. st[i] = StateOf(c, i) /\ st[i - 1] = StateOf(c, i - 1)
    BY <2>1
  <2>3. StateOf(c, i) = Apply(StateOf(c, i - 1), Envelope(c, i))
    BY <1>1, EnvelopeApplies
  <2> HIDE DEF st
  <2> QED  BY <2>2, <2>3
<1>4. st[n] = StateOf(c, n)
  BY <1>1
<1> HIDE DEF st
<1>5. Traces("envelopes", Start, st, envs, n)
  BY <1>2, <1>3 DEF Traces, Step
<1>6. Reconstruct(envs) = st[n]
  BY <1>1, <1>5, ReconstructEndsIn
<1> QED  BY <1>4, <1>6

\* A reader gets back the history of the latest request and the answer to it.
LEMMA ReaderRebuilds ==
    ASSUME ArchiveIInv
    PROVE  ReaderRebuildsConversation
<1>1. ReaderSeesEveryTurnOnce
  BY ReaderIsServed
<1>2. ASSUME ReadTurns # Conflict, ReadTurns # <<>>, NEW c \in Conversations
      PROVE  LET state == Reconstruct([i \in DOMAIN ReadTurns |-> Envelope(c, ReadTurns[i].seq)])
                 last == c[Len(ReadTurns)]
             IN /\ state.ok /\ state.envelopes = Len(ReadTurns)
                /\ Conversation(state) = last.body.history \o last.answer
  <2> DEFINE envs == [i \in DOMAIN ReadTurns |-> Envelope(c, ReadTurns[i].seq)]
  <2>1. PICK n \in 0..MaxTurns : Counts(ReadTurns, n) /\ DOMAIN ReadTurns = 1..n
    BY <1>2, TurnsShown
  <2>2. Len(ReadTurns) = n /\ \A i \in 1..n : ReadTurns[i].seq = i
    BY <2>1 DEF Counts
  <2>3. n \in 1..MaxTurns
    <3>1. ReadTurns \in Seq(Records)
      BY <1>2, TurnsShown
    <3>2. n # 0
      BY <1>2, <2>2, <3>1
    <3> QED  BY <2>1, <3>2, SealingAssumption
  <2>4. DOMAIN envs = 1..n /\ \A i \in 1..n : envs[i] = Envelope(c, i)
    BY <2>1, <2>2
  <2> HIDE DEF envs
  <2>5. Reconstruct(envs) = StateOf(c, n)
    BY <2>3, <2>4, StatesEndIn
  <2>6. n # 0
    BY <2>3
  <2>7. /\ StateOf(c, n).ok = TRUE /\ StateOf(c, n).envelopes = n
        /\ StateOf(c, n).history = c[n].body.history /\ StateOf(c, n).trailing = c[n].answer
    BY <2>6 DEF StateOf
  <2> QED  BY <2>2, <2>5, <2>7 DEF envs, Conversation
<1> QED  BY <1>1, <1>2 DEF ReaderRebuildsConversation

\* Whatever a crash left of the generations, the reader of a session sees every turn
\* once and gets back the conversation: for every number of turns, every session's
\* bodies and responses, and every interleaving of drains, snapshots and seals.
THEOREM ConversationIsRebuilt == Spec => []ReaderRebuildsConversation
<1>1. ArchiveIInv => ReaderRebuildsConversation
  BY ReaderRebuilds
<1> QED  BY <1>1, ArchiveIInvHolds, PTL

-----------------------------------------------------------------------------
(* Captures of mixed forms.                                                *)

\* The reader of such a capture: its history, and the messages it was given.
Identity(S) == [m \in S |-> m]
ReaderOf(h, given) ==
    [history |-> h, dict |-> Identity(given), key |-> "messages", harness |-> Unknown,
     trailing |-> <<>>, envelopes |-> 0, ok |-> TRUE]
CaptureOf(h, given) == [state |-> ReaderOf(h, given), given |-> given, ok |-> TRUE]

\* Another history, and another dictionary.
Moved(r, h) == [r EXCEPT !.history = h]
Refilled(r, h, d) == [r EXCEPT !.history = h, !.dict = d]

\* Such a reader with another history and another dictionary is such a reader,
LEMMA ReaderRefilled ==
    ASSUME NEW h, NEW given, NEW h2, NEW given2
    PROVE  Refilled(ReaderOf(h, given), h2, Identity(given2)) = ReaderOf(h2, given2)
<1> DEFINE places == {"history", "dict", "key", "harness", "trailing", "envelopes", "ok"}
           old == ReaderOf(h, given)
           got == Refilled(old, h2, Identity(given2))
           new == ReaderOf(h2, given2)
<1>1. DOMAIN old = places /\ DOMAIN got = places /\ DOMAIN new = places
  BY DEF ReaderOf, Refilled
<1>2. /\ got.history = new.history /\ got.dict = new.dict /\ got.ok = new.ok
      /\ got.key = new.key /\ got.harness = new.harness
      /\ got.envelopes = new.envelopes /\ got.trailing = new.trailing
  BY DEF ReaderOf, Refilled
<1>3. got = [x \in DOMAIN got |-> got[x]] /\ new = [x \in DOMAIN new |-> new[x]]
  BY DEF ReaderOf, Refilled
<1> HIDE DEF old, got, new
<1>4. \A x \in places : got[x] = new[x]
  BY <1>2
<1> HIDE DEF places
<1>5. got = new
  BY <1>1, <1>3, <1>4
<1> QED  BY <1>5 DEF old, got, new

\* and with another history alone.
LEMMA ReaderMoved ==
    ASSUME NEW h, NEW given, NEW h2
    PROVE  Moved(ReaderOf(h, given), h2) = ReaderOf(h2, given)
<1> DEFINE places == {"history", "dict", "key", "harness", "trailing", "envelopes", "ok"}
           old == ReaderOf(h, given)
           got == Moved(old, h2)
           new == ReaderOf(h2, given)
<1>1. DOMAIN old = places /\ DOMAIN got = places /\ DOMAIN new = places
  BY DEF ReaderOf, Moved
<1>2. /\ got.history = new.history /\ got.dict = new.dict /\ got.ok = new.ok
      /\ got.key = new.key /\ got.harness = new.harness
      /\ got.envelopes = new.envelopes /\ got.trailing = new.trailing
  BY DEF ReaderOf, Moved
<1>3. got = [x \in DOMAIN got |-> got[x]] /\ new = [x \in DOMAIN new |-> new[x]]
  BY DEF ReaderOf, Moved
<1> HIDE DEF old, got, new
<1>4. \A x \in places : got[x] = new[x]
  BY <1>2
<1> HIDE DEF places
<1>5. got = new
  BY <1>1, <1>3, <1>4
<1> QED  BY <1>5 DEF old, got, new

\* What comes after a prefix completes it.
LEMMA PrefixCompletes ==
    ASSUME NEW a \in Seq(Messages), NEW b \in Seq(Messages), IsPrefix(a, b)
    PROVE  a \o SubSeq(b, Len(a) + 1, Len(b)) = b
<1>1. Len(a) \in Nat /\ Len(b) \in Nat /\ Len(a) <= Len(b)
  BY DEF IsPrefix
<1>2. \A i \in 1..Len(a) : a[i] = b[i]
  <2>1. SubSeq(a, 1, Len(a)) = SubSeq(b, 1, Len(a))
    BY DEF IsPrefix
  <2>2. \A i \in 1..Len(a) : SubSeq(a, 1, Len(a))[i] = a[i] /\ SubSeq(b, 1, Len(a))[i] = b[i]
    BY <1>1
  <2> QED  BY <2>1, <2>2
<1>3. Len(a) \in Shared(a, b)
  BY <1>1, <1>2 DEF Shared
<1>4. SubSeq(a, 1, Len(a)) = a
  BY <1>1
<1> QED  BY <1>3, <1>4, PrefixAndRest

\* The next request, in whichever form, is read to its history.
LEMMA FormReplays ==
    ASSUME NEW h \in Seq(Messages), NEW given \in SUBSET Messages,
           NEW form \in {"append", "legacy", "order"}, NEW h2 \in Seq(Messages)
    PROVE  LET delta == DeltaOf(form, h, h2, given)
           IN  /\ Valid(delta, ReaderOf(h, given))
               /\ ApplyDelta(delta, ReaderOf(h, given))
                    = ReaderOf(h2, IF form = "order" THEN given \cup ToSet(h2) ELSE given)
<1> DEFINE delta == DeltaOf(form, h, h2, given)
           state == ReaderOf(h, given)
<1>1. state.history = h /\ state.dict = Identity(given)
  BY DEF ReaderOf
<1>5. Moved(state, h2) = ReaderOf(h2, given)
  BY ReaderMoved
<1>6. \A all : Refilled(state, h2, Identity(all)) = ReaderOf(h2, all)
  BY ReaderRefilled
<1>2. CASE form = "order"
  <2> DEFINE new == ToSet(h2) \ given
             all == given \cup ToSet(h2)
             known == [k \in DOMAIN delta.new \cup DOMAIN state.dict |->
                          IF k \in DOMAIN delta.new THEN delta.new[k] ELSE state.dict[k]]
  <2>1. delta.form = "order" /\ delta.order = h2 /\ delta.new = [m \in new |-> m]
    BY <1>2 DEF DeltaOf
  <2>2. DOMAIN delta.new = new /\ DOMAIN state.dict = given /\ new \cup given = all
    BY <1>1, <2>1 DEF Identity
  <2>3. known = Identity(all)
    <3>1. \A k \in all : (IF k \in DOMAIN delta.new THEN delta.new[k] ELSE state.dict[k]) = k
      <4> HIDE DEF delta, state
      <4> QED  BY <1>1, <2>1, <2>2 DEF Identity
    <3> HIDE DEF delta, state, all
    <3> QED  BY <2>2, <3>1 DEF Identity
  <2>4. \A i \in DOMAIN h2 : h2[i] \in all
    BY DEF ToSet
  <2> HIDE DEF delta, state, all
  <2>5. Valid(delta, state)
    BY <2>1, <2>2, <2>4 DEF Valid
  <2>6. [i \in DOMAIN delta.order |-> known[delta.order[i]]] = h2
    BY <2>1, <2>3, <2>4 DEF Identity
  <2>7. Remembered(delta, state.dict) = Identity(all)
    BY <2>3 DEF Remembered
  <2>8. ApplyDelta(delta, state) = Refilled(state, h2, Identity(all))
    BY <2>1, <2>6, <2>7 DEF ApplyDelta, Refilled
  <2>9. ApplyDelta(delta, state) = ReaderOf(h2, all)
    BY <2>8, <1>6
  <2> QED  BY <1>2, <2>5, <2>9 DEF delta, state, all
<1>3. CASE form = "legacy" /\ IsPrefix(h, h2)
  <2>1. delta.form = "legacy" /\ delta.append = SubSeq(h2, Len(h) + 1, Len(h2))
    BY <1>3 DEF DeltaOf
  <2>2. h \o delta.append = h2
    BY <1>3, <2>1, PrefixCompletes
  <2> HIDE DEF delta, state
  <2>3. Valid(delta, state) /\ ApplyDelta(delta, state) = Moved(state, h2)
    BY <1>1, <2>1, <2>2 DEF Valid, ApplyDelta, Moved
  <2> QED  BY <1>3, <1>5, <2>3 DEF delta, state
<1>4. CASE form # "order" /\ ~(form = "legacy" /\ IsPrefix(h, h2))
  <2> DEFINE p == CommonPrefix(h, h2)
  <2>1. /\ delta = EncodeDelta([NoBody EXCEPT !.history = h], [NoBody EXCEPT !.history = h2])
        /\ [NoBody EXCEPT !.history = h].history = h /\ [NoBody EXCEPT !.history = h2].history = h2
    BY <1>4 DEF DeltaOf, NoBody
  <2>2. /\ delta.form = "append" /\ delta.prefix = p
        /\ delta.append = SubSeq(h2, p + 1, Len(h2))
    <3> HIDE DEF delta
    <3> QED  BY <2>1 DEF EncodeDelta
  <2>3. p \in Shared(h, h2)
    BY SharedHasLongest
  <2>4. p <= Len(h) /\ SubSeq(h, 1, p) \o SubSeq(h2, p + 1, Len(h2)) = h2
    <3>1. p <= Len(h)
      BY <2>3 DEF Shared
    <3> HIDE DEF p
    <3>2. SubSeq(h, 1, p) \o SubSeq(h2, p + 1, Len(h2)) = h2
      BY <2>3, PrefixAndRest
    <3> QED  BY <3>1, <3>2
  <2> HIDE DEF delta, state, p
  <2>5. Valid(delta, state)
    BY <1>1, <2>2, <2>4 DEF Valid
  <2>6. ApplyDelta(delta, state) = Moved(state, h2)
    BY <1>1, <2>2, <2>4 DEF ApplyDelta, Moved
  <2> QED  BY <1>4, <1>5, <2>5, <2>6 DEF delta, state
<1> QED  BY <1>2, <1>3, <1>4

\* One request more, whatever its form.
Requests == [history : Histories, form : {"append", "legacy", "order"}]

\* It leaves a capture that is as such captures are.
LEMMA CaptureReplays ==
    ASSUME NEW h \in Seq(Messages), NEW given \in SUBSET Messages, NEW r \in Requests
    PROVE  /\ r.history \in Seq(Messages)
           /\ \E more \in SUBSET Messages :
                Replaying(CaptureOf(h, given), r) = CaptureOf(r.history, more)
<1> DEFINE acc == CaptureOf(h, given)
           delta == DeltaOf(r.form, h, r.history, given)
           more == IF r.form = "order" THEN given \cup ToSet(r.history) ELSE given
<1>1. r.history \in Seq(Messages) /\ r.form \in {"append", "legacy", "order"}
  BY ReadingAssumption DEF Requests
<1>2. acc.state = ReaderOf(h, given) /\ acc.given = given /\ acc.ok = TRUE
      /\ acc.state.history = h
  BY DEF CaptureOf, ReaderOf
<1>3. Valid(delta, acc.state) /\ ApplyDelta(delta, acc.state) = ReaderOf(r.history, more)
  <2> HIDE DEF acc
  <2> QED  BY <1>1, <1>2, FormReplays
<1>4. more \in SUBSET Messages
  <2>1. \A i \in DOMAIN r.history : r.history[i] \in Messages
    BY <1>1
  <2> QED  BY <2>1 DEF ToSet
<1>5. ReaderOf(r.history, more).history = r.history
  BY DEF ReaderOf
<1> HIDE DEF acc, delta, more
<1>6. Replaying(acc, r) = [state |-> ReaderOf(r.history, more), ok |-> TRUE, given |-> more]
  BY <1>2, <1>3, <1>5 DEF Replaying, delta, more
<1>7. Replaying(acc, r) = CaptureOf(r.history, more)
  BY <1>6 DEF CaptureOf
<1> QED  BY <1>1, <1>4, <1>7 DEF acc

\* A capture of any number of requests, in any forms, is read to its last history.
LEMMA MixedFormsReplay ==
    ASSUME NEW n \in Nat, NEW requests \in [1..n -> Requests]
    PROVE  FoldLeft(Replaying, [state |-> Start, given |-> {}, ok |-> TRUE], requests).ok
<1> DEFINE base == [state |-> Start, given |-> {}, ok |-> TRUE]
           Good(acc) == \E h \in Seq(Messages), given \in SUBSET Messages : acc = CaptureOf(h, given)
<1>1. PICK st : Traces("requests", base, st, requests, n)
  <2> HIDE DEF base
  <2> QED  BY TraceExists
<1>2. FoldLeft(Replaying, base, requests) = st[n]
  <2> HIDE DEF base
  <2>1. DOMAIN requests = 1..n
    OBVIOUS
  <2> QED  BY <1>1, <2>1, RequestsEndIn
<1>3. Good(st[0])
  <2>1. Identity({}) = <<>>
    BY DEF Identity
  <2>2. Start = ReaderOf(<<>>, {})
    BY <2>1 DEF Start, ReaderOf
  <2>3. base = CaptureOf(<<>>, {})
    BY <2>2 DEF CaptureOf
  <2>4. st[0] = base
    BY <1>1 DEF Traces
  <2> HIDE DEF base
  <2>5. <<>> \in Seq(Messages) /\ {} \in SUBSET Messages
    OBVIOUS
  <2> QED  BY <2>3, <2>4, <2>5, Zenon
<1> HIDE DEF base
<1>4. ASSUME NEW i \in 1..n, Good(st[i - 1]) PROVE Good(st[i])
  <2>1. PICK h \in Seq(Messages), given \in SUBSET Messages : st[i - 1] = CaptureOf(h, given)
    BY <1>4
  <2>2. requests[i] \in Requests
    OBVIOUS
  <2>3. st[i] = Replaying(st[i - 1], requests[i])
    BY <1>1 DEF Traces, Step
  <2> QED  BY <2>1, <2>2, <2>3, CaptureReplays
<1> HIDE DEF Good
<1>5. Good(st[n])
  <2> DEFINE Bad == {i \in 0..n : ~Good(st[i])}
  <2>1. Bad = {}
    <3> SUFFICES ASSUME Bad # {} PROVE FALSE
      OBVIOUS
    <3>1. Bad \in SUBSET Nat
      OBVIOUS
    <3>2. PICK i \in Bad : \A m \in Bad : i <= m
      <4> HIDE DEF Bad
      <4> QED  BY <3>1, LeastNatural
    <3>3. i \in 0..n /\ ~Good(st[i])
      OBVIOUS
    <3>4. i \in 1..n /\ i - 1 \in 0..n /\ ~(i <= i - 1)
      BY <1>3, <3>3
    <3>5. Good(st[i - 1])
      BY <3>2, <3>4
    <3> QED  BY <1>4, <3>3, <3>4, <3>5
  <2>2. n \in 0..n
    OBVIOUS
  <2> QED  BY <2>1, <2>2
<1>6. st[n].ok = TRUE
  BY <1>5 DEF Good, CaptureOf
<1> QED  BY <1>2, <1>6 DEF base

-----------------------------------------------------------------------------
(* One harness, derived in two ways.                                       *)

\* What the reader has of envelopes without messages, as long as one label is theirs.
PlainState(e, n) ==
    [history |-> <<>>, dict |-> <<>>, key |-> IF n = 0 THEN "messages" ELSE e[n].key,
     harness |-> HarnessOf(e, n), trailing |-> <<>>, envelopes |-> n, ok |-> TRUE]
IsPlain(env) == \E l, k : env = Plain(l, k)

\* A reader that has failed has failed for good.
LEMMA FailedStays ==
    ASSUME NEW v, NEW x, "ok" \in DOMAIN v, v.ok = FALSE
    PROVE  Apply(v, x).ok = FALSE /\ "ok" \in DOMAIN Apply(v, x)
BY DEF Apply

\* The next envelope is applied, unless it has another label.
LEMMA PlainApplies ==
    ASSUME NEW e, NEW n \in Nat \ {0}, IsPlain(e[n]), OneLabel(e, n - 1)
    PROVE  /\ OneLabel(e, n) => Apply(PlainState(e, n - 1), e[n]) = PlainState(e, n)
           /\ ~OneLabel(e, n) => /\ Apply(PlainState(e, n - 1), e[n]).ok = FALSE
                                 /\ "ok" \in DOMAIN Apply(PlainState(e, n - 1), e[n])
<1> DEFINE old == PlainState(e, n - 1)
           env == e[n]
<1>1. /\ env.complete = FALSE /\ env.delta.form = "legacy" /\ env.delta.append = <<>>
  <2>1. PICK l, k : env = Plain(l, k)
    BY DEF IsPlain
  <2>2. /\ Plain(l, k).complete = FALSE /\ Plain(l, k).delta.form = "legacy"
        /\ Plain(l, k).delta.append = <<>>
    BY DEF Plain
  <2> HIDE DEF env
  <2> QED  BY <2>1, <2>2
<1>2. /\ old.ok = TRUE /\ old.history = <<>> /\ old.harness = HarnessOf(e, n - 1)
      /\ "ok" \in DOMAIN old
  BY DEF PlainState
<1>3. /\ Conflicting(old.harness, env) <=> ~OneLabel(e, n)
      /\ OneLabel(e, n) => HarnessOf(e, n) = NextHarness(old.harness, env)
  <2> HIDE DEF old
  <2> QED  BY <1>2, HarnessFollows
<1>4. ASSUME ~OneLabel(e, n)
      PROVE  Apply(old, env).ok = FALSE /\ "ok" \in DOMAIN Apply(old, env)
  <2> HIDE DEF old, env
  <2>1. Apply(old, env) = [old EXCEPT !.ok = FALSE]
    BY <1>3, <1>4 DEF Apply
  <2> QED  BY <1>2, <2>1
<1>5. ASSUME OneLabel(e, n) PROVE Apply(old, env) = PlainState(e, n)
  <2> DEFINE k == IF n - 1 = 0 THEN "messages" ELSE e[n - 1].key
  <2>1. old = [history |-> <<>>, dict |-> <<>>, key |-> k, harness |-> HarnessOf(e, n - 1),
               trailing |-> <<>>, envelopes |-> n - 1, ok |-> TRUE]
    BY DEF PlainState
  <2> HIDE DEF old, env, k
  <2>2. Valid(env.delta, old)
    BY <1>1 DEF Valid
  <2>3. ApplyDelta(env.delta, old) = [old EXCEPT !.history = <<>>]
    <3>1. <<>> \o <<>> = <<>>
      OBVIOUS
    <3> QED  BY <1>1, <1>2, <3>1 DEF ApplyDelta
  <2>4. \A h : ResponseOutput(env, h) = <<>>
    BY <1>1 DEF ResponseOutput
  <2>5. Apply(old, env) = [[old EXCEPT !.history = <<>>] EXCEPT
                             !.key = env.key, !.harness = HarnessOf(e, n),
                             !.envelopes = @ + 1, !.trailing = <<>>]
    BY <1>2, <1>3, <1>5, <2>2, <2>3, <2>4 DEF Apply, LastAnswer
  <2>6. n - 1 + 1 = n
    OBVIOUS
  <2>7. Apply(old, env) = [history |-> <<>>, dict |-> <<>>, key |-> env.key,
                           harness |-> HarnessOf(e, n), trailing |-> <<>>,
                           envelopes |-> n, ok |-> TRUE]
    BY <2>1, <2>5, <2>6, StateRewritten
  <2> QED  BY <2>7 DEF PlainState, env
<1> QED  BY <1>4, <1>5 DEF old, env

\* However many envelopes there are, one with a second label is refused, and without
\* one both derivations give the harness of the whole capture.
Agreed(e, n) ==
    IF OneLabel(e, n) THEN HarnessValue(Reconstruct(e).harness) = FoldLeft(FromEnvelope, Unknown, e)
    ELSE Reconstruct(e).ok = FALSE

\* That is so of every capture of envelopes without messages.
LEMMA HarnessAgrees ==
    ASSUME NEW n \in Nat, NEW e, DOMAIN e = 1..n, \A i \in 1..n : IsPlain(e[i])
    PROVE  Agreed(e, n)
<1>1. PICK st : Traces("envelopes", Start, st, e, n)
  BY TraceExists
<1>2. Reconstruct(e) = st[n]
  BY <1>1, ReconstructEndsIn
<1> DEFINE Good(i) == IF OneLabel(e, i) THEN st[i] = PlainState(e, i)
                      ELSE st[i].ok = FALSE /\ "ok" \in DOMAIN st[i]
<1>3. OneLabel(e, 0) /\ HarnessOf(e, 0) = Unknown
  BY DEF OneLabel, HarnessOf
<1>4. Good(0)
  <2>1. st[0] = Start
    BY <1>1 DEF Traces
  <2>2. Start = PlainState(e, 0)
    BY <1>3 DEF Start, PlainState
  <2> QED  BY <1>3, <2>1, <2>2
<1>5. ASSUME NEW i \in 1..n, Good(i - 1) PROVE Good(i)
  <2>1. i \in Nat \ {0} /\ IsPlain(e[i]) /\ st[i] = Apply(st[i - 1], e[i])
    BY <1>1 DEF Traces, Step
  <2>2. CASE OneLabel(e, i - 1)
    BY <1>5, <2>1, <2>2, PlainApplies
  <2>3. CASE ~OneLabel(e, i - 1)
    <3>1. ~OneLabel(e, i)
      <4>1. \A j \in 1..(i - 1) : j \in 1..i
        BY <2>1
      <4> QED  BY <2>3, <4>1 DEF OneLabel
    <3>2. st[i - 1].ok = FALSE /\ "ok" \in DOMAIN st[i - 1]
      BY <1>5, <2>3
    <3>3. Apply(st[i - 1], e[i]).ok = FALSE /\ "ok" \in DOMAIN Apply(st[i - 1], e[i])
      BY <3>2, FailedStays
    <3> QED  BY <2>1, <3>1, <3>3
  <2> QED  BY <2>2, <2>3
<1> HIDE DEF Good
<1>6. Good(n)
  <2> DEFINE Bad == {i \in 0..n : ~Good(i)}
  <2>1. Bad = {}
    <3> SUFFICES ASSUME Bad # {} PROVE FALSE
      OBVIOUS
    <3>1. Bad \in SUBSET Nat
      OBVIOUS
    <3>2. PICK i \in Bad : \A m \in Bad : i <= m
      <4> HIDE DEF Bad
      <4> QED  BY <3>1, LeastNatural
    <3>3. i \in 0..n /\ ~Good(i)
      OBVIOUS
    <3>4. i \in 1..n /\ i - 1 \in 0..n /\ ~(i <= i - 1)
      BY <1>4, <3>3
    <3>5. Good(i - 1)
      BY <3>2, <3>4
    <3> QED  BY <1>5, <3>3, <3>4, <3>5
  <2>2. n \in 0..n
    OBVIOUS
  <2> QED  BY <2>1, <2>2
<1>7. ASSUME OneLabel(e, n)
      PROVE  HarnessValue(Reconstruct(e).harness) = FoldLeft(FromEnvelope, Unknown, e)
  <2> DEFINE value == [i \in 0..n |-> HarnessValue(HarnessOf(e, i))]
  <2>1. \A i \in 0..n : OneLabel(e, i)
    <3>1. \A i \in 0..n : \A j \in 1..i : j \in 1..n
      OBVIOUS
    <3> QED  BY <1>7, <3>1 DEF OneLabel
  <2>2. value[0] = Unknown
    BY <1>3 DEF HarnessValue, Provisional, Unknown
  <2>3. ASSUME NEW i \in 1..n PROVE value[i] = FromEnvelope(value[i - 1], e[i])
    <3>1. i \in Nat \ {0} /\ i \in 0..n /\ i - 1 \in 0..n
      OBVIOUS
    <3>2. HarnessOf(e, i) = NextHarness(HarnessOf(e, i - 1), e[i])
      BY <2>1, <3>1, HarnessFollows
    <3>3. value[i] = HarnessValue(HarnessOf(e, i))
          /\ value[i - 1] = HarnessValue(HarnessOf(e, i - 1))
      BY <3>1
    <3> HIDE DEF value
    <3> QED  BY <3>2, <3>3 DEF HarnessValue, NextHarness, FromEnvelope, Recognized,
                              Codex, Claude, Provisional, Unknown
  <2>4. value[n] = HarnessValue(HarnessOf(e, n))
    OBVIOUS
  <2> HIDE DEF value
  <2>5. Traces("labels", Unknown, value, e, n)
    BY <2>2, <2>3 DEF Traces, Step
  <2>6. FoldLeft(FromEnvelope, Unknown, e) = value[n]
    BY <2>5, LabelsEndIn
  <2>7. Reconstruct(e).harness = HarnessOf(e, n)
    BY <1>2, <1>6, <1>7 DEF Good, PlainState
  <2> QED  BY <2>4, <2>6, <2>7
<1>8. ~OneLabel(e, n) => Reconstruct(e).ok = FALSE
  BY <1>2, <1>6 DEF Good
<1> QED  BY <1>7, <1>8 DEF Agreed

\* So it is of the captures that OneHarness asks about.
LEMMA OneHarnessHolds == OneHarness
<1> DEFINE plain == {Plain(l, k) : l \in {Codex, Claude, "other"}, k \in {"messages", "input"}}
<1> SUFFICES ASSUME NEW e \in SeqOf(plain, 3)
             PROVE  LET state == Reconstruct(e) IN
                    IF \E i, j \in DOMAIN e : /\ Recognized(e[i].label) /\ Recognized(e[j].label)
                                              /\ e[i].label # e[j].label
                    THEN ~state.ok
                    ELSE HarnessValue(state.harness) = FoldLeft(FromEnvelope, Unknown, e)
  BY DEF OneHarness
<1>1. PICK n \in 0..3 : e \in [1..n -> plain]
  BY DEF SeqOf
<1>2. n \in Nat /\ DOMAIN e = 1..n
  BY <1>1
<1>3. \A i \in 1..n : IsPlain(e[i])
  <2>1. ASSUME NEW x \in plain PROVE IsPlain(x)
    <3>1. PICK l \in {Codex, Claude, "other"}, k \in {"messages", "input"} : x = Plain(l, k)
      OBVIOUS
    <3> QED  BY <3>1 DEF IsPlain
  <2> HIDE DEF plain
  <2> QED  BY <1>1, <2>1
<1>4. OneLabel(e, n) <=>
        ~ \E i, j \in DOMAIN e : /\ Recognized(e[i].label) /\ Recognized(e[j].label)
                                 /\ e[i].label # e[j].label
  BY <1>2 DEF OneLabel
<1> HIDE DEF plain
<1>5. Agreed(e, n)
  BY <1>2, <1>3, HarnessAgrees
<1> QED  BY <1>4, <1>5 DEF Agreed

-----------------------------------------------------------------------------
(* Answers whose blocks are interleaved.                                   *)

\* The text that block b has under field f after each of its deltas, and the block.
TextsOf(b, f) == CHOOSE st : Traces(f, <<>>, st, b.deltas, Len(b.deltas))
BlockTo(b, m) ==
    [kind |-> b.kind, parts |-> [f \in DOMAIN NoText |-> TextsOf(b, f)[m]]]
BlockFacts(b) ==
    /\ b.deltas \in Seq(ToSet(b.deltas))
    /\ \A d \in ToSet(b.deltas) : d.field \in DOMAIN NoText
Grown(block, f, x) == [block EXCEPT !.parts[f] = Append(@, x)]

\* The two blocks have deltas whose fields are those of a block.
LEMMA BlocksAreSo ==
    /\ Len(Blocks) = 2 /\ BlockFacts(Blocks[1]) /\ BlockFacts(Blocks[2])
BY ReadingAssumption DEF BlockFacts

\* A block begins empty, each delta adds to it, and then it has its text.
LEMMA BlockBegins ==
    ASSUME NEW b, BlockFacts(b)
    PROVE  BlockTo(b, 0) = [kind |-> b.kind, parts |-> NoText]
<1>1. Len(b.deltas) \in Nat
  BY DEF BlockFacts
<1>2. \A f \in DOMAIN NoText : TextsOf(b, f)[0] = <<>>
  <2> SUFFICES ASSUME NEW f \in DOMAIN NoText PROVE TextsOf(b, f)[0] = <<>>
    OBVIOUS
  <2>1. \E st : Traces(f, <<>>, st, b.deltas, Len(b.deltas))
    BY <1>1, TraceExists
  <2>2. Traces(f, <<>>, TextsOf(b, f), b.deltas, Len(b.deltas))
    BY <2>1 DEF TextsOf
  <2> QED  BY <2>2 DEF Traces
<1>3. NoText = [f \in DOMAIN NoText |-> <<>>]
  BY DEF NoText
<1>4. [f \in DOMAIN NoText |-> TextsOf(b, f)[0]] = NoText
  <2>1. [f \in DOMAIN NoText |-> TextsOf(b, f)[0]] = [f \in DOMAIN NoText |-> <<>>]
    BY <1>2
  <2> QED  BY <1>3, <2>1
<1> QED  BY <1>4 DEF BlockTo

\* A delta changes the text of its field only.
LEMMA GrownIs ==
    ASSUME NEW k, NEW p, NEW f, NEW x
    PROVE  Grown([kind |-> k, parts |-> p], f, x)
             = [kind |-> k, parts |-> [p EXCEPT ![f] = Append(@, x)]]
<1> DEFINE got == Grown([kind |-> k, parts |-> p], f, x)
           new == [kind |-> k, parts |-> [p EXCEPT ![f] = Append(@, x)]]
<1>1. DOMAIN got = {"kind", "parts"} /\ DOMAIN new = {"kind", "parts"}
  BY DEF Grown
<1>2. got.kind = new.kind /\ got.parts = new.parts
  BY DEF Grown
<1>3. got = [y \in DOMAIN got |-> got[y]] /\ new = [y \in DOMAIN new |-> new[y]]
  BY DEF Grown
<1> HIDE DEF got, new
<1>4. got = new
  BY <1>1, <1>2, <1>3
<1> QED  BY <1>4 DEF got, new

\* Each delta takes a block one delta further.
LEMMA BlockGrows ==
    ASSUME NEW b, BlockFacts(b), NEW m \in 1..Len(b.deltas)
    PROVE  Grown(BlockTo(b, m - 1), b.deltas[m].field, b.deltas[m].piece) = BlockTo(b, m)
<1> DEFINE d == b.deltas[m]
           old == [f \in DOMAIN NoText |-> TextsOf(b, f)[m - 1]]
           new == [f \in DOMAIN NoText |-> TextsOf(b, f)[m]]
<1>1. Len(b.deltas) \in Nat /\ d.field \in DOMAIN NoText
  <2>1. DOMAIN b.deltas = 1..Len(b.deltas) /\ Len(b.deltas) \in Nat
    BY DEF BlockFacts
  <2>2. d \in ToSet(b.deltas)
    BY <2>1 DEF ToSet
  <2> QED  BY <2>1, <2>2 DEF BlockFacts
<1>2. ASSUME NEW f \in DOMAIN NoText
      PROVE  TextsOf(b, f)[m] = Picked(TextsOf(b, f)[m - 1], d, f)
  <2>1. \E st : Traces(f, <<>>, st, b.deltas, Len(b.deltas))
    BY <1>1, TraceExists
  <2>2. Traces(f, <<>>, TextsOf(b, f), b.deltas, Len(b.deltas))
    BY <2>1 DEF TextsOf
  <2>3. TextsOf(b, f)[m] = Step(f, TextsOf(b, f)[m - 1], d)
    BY <2>2 DEF Traces
  <2> QED  BY <2>3 DEF Step, NoText
<1>3. [old EXCEPT ![d.field] = Append(@, d.piece)] = new
  <2>1. [old EXCEPT ![d.field] = Append(@, d.piece)] = [f \in DOMAIN NoText |->
            IF f = d.field THEN Append(TextsOf(b, f)[m - 1], d.piece) ELSE TextsOf(b, f)[m - 1]]
    BY <1>1
  <2>2. \A f \in DOMAIN NoText :
            (IF f = d.field THEN Append(TextsOf(b, f)[m - 1], d.piece) ELSE TextsOf(b, f)[m - 1])
                = TextsOf(b, f)[m]
    BY <1>2 DEF Picked
  <2> QED  BY <2>1, <2>2
<1>4. Grown([kind |-> b.kind, parts |-> old], d.field, d.piece) = [kind |-> b.kind, parts |-> new]
  <2> HIDE DEF old, new, d
  <2> QED  BY <1>3, GrownIs
<1> QED  BY <1>4 DEF BlockTo

\* After the last of its deltas a block has its text.
LEMMA BlockEnds ==
    ASSUME NEW b, BlockFacts(b)
    PROVE  BlockTo(b, Len(b.deltas))
             = [kind |-> b.kind, parts |-> [f \in DOMAIN NoText |-> Text(b, f)]]
<1>1. DOMAIN b.deltas = 1..Len(b.deltas) /\ Len(b.deltas) \in Nat
  BY DEF BlockFacts
<1>2. ASSUME NEW f \in DOMAIN NoText PROVE TextsOf(b, f)[Len(b.deltas)] = Text(b, f)
  <2>1. \E st : Traces(f, <<>>, st, b.deltas, Len(b.deltas))
    BY <1>1, TraceExists
  <2>2. Traces(f, <<>>, TextsOf(b, f), b.deltas, Len(b.deltas))
    BY <2>1 DEF TextsOf
  <2> QED  BY <1>1, <2>2, TextEndsIn
<1> QED  BY <1>2 DEF BlockTo

\* The events of a block: its start, and one for each delta.
LEMMA EventsAre ==
    ASSUME NEW b, BlockFacts(b), NEW n
    PROVE  /\ Len(EventsOf(b, n)) = Len(b.deltas) + 1 /\ Len(b.deltas) \in Nat
           /\ EventsOf(b, n)[1] = [type |-> "content_block_start", kind |-> b.kind]
           /\ \A m \in 1..Len(b.deltas) :
                EventsOf(b, n)[m + 1] = [type |-> "content_block_delta", index |-> n,
                                         field |-> b.deltas[m].field, piece |-> b.deltas[m].piece]
<1> DEFINE start == [type |-> "content_block_start", kind |-> b.kind]
           delta(i) == [type |-> "content_block_delta", index |-> n,
                        field |-> b.deltas[i].field, piece |-> b.deltas[i].piece]
           rest == [i \in DOMAIN b.deltas |-> delta(i)]
           all == {start} \cup {delta(i) : i \in DOMAIN b.deltas}
<1>1. DOMAIN b.deltas = 1..Len(b.deltas) /\ Len(b.deltas) \in Nat
  BY DEF BlockFacts
<1>2. rest \in Seq(all) /\ Len(rest) = Len(b.deltas) /\ <<start>> \in Seq(all)
  <2>1. rest \in [1..Len(b.deltas) -> all]
    BY <1>1
  <2> HIDE DEF rest, all
  <2>2. rest \in Seq(all) /\ Len(rest) = Len(b.deltas)
    BY <1>1, <2>1
  <2>3. start \in all
    BY DEF all
  <2> QED  BY <2>2, <2>3
<1>3. \A i \in 1..Len(b.deltas) : rest[i] = delta(i)
  BY <1>1
<1>4. EventsOf(b, n) = <<start>> \o rest
  BY DEF EventsOf
<1> HIDE DEF start, delta, rest, all
<1>5. Len(<<start>>) = 1 /\ <<start>>[1] = start
  OBVIOUS
<1>6. /\ Len(<<start>> \o rest) = Len(b.deltas) + 1 /\ (<<start>> \o rest)[1] = start
      /\ \A m \in 1..Len(b.deltas) : (<<start>> \o rest)[m + 1] = rest[m]
  BY <1>1, <1>2, <1>5
<1> QED  BY <1>1, <1>3, <1>4, <1>6 DEF start, delta

\* How many members of P there are up to i.
Count(P, i) == Cardinality({j \in P : j <= i})

\* The count goes from none to all, by one at each member.
LEMMA CountGrows ==
    ASSUME NEW N \in Nat, NEW P \in SUBSET (1..N)
    PROVE  /\ Count(P, 0) = 0 /\ Count(P, N) = Cardinality(P)
           /\ \A i \in 0..N : Count(P, i) \in Nat /\ Count(P, i) <= Cardinality(P)
           /\ \A i \in 1..N : Count(P, i) = Count(P, i - 1) + IF i \in P THEN 1 ELSE 0
           /\ IsFiniteSet(P) /\ Cardinality(P) \in Nat
<1>1. IsFiniteSet(1..N)
  BY FS_Interval
<1>2. IsFiniteSet(P) /\ Cardinality(P) \in Nat
  BY <1>1, FS_Subset, FS_CardinalityType
<1>3. ASSUME NEW i \in 0..N PROVE Count(P, i) \in Nat /\ Count(P, i) <= Cardinality(P)
                                  /\ IsFiniteSet({j \in P : j <= i})
  <2>1. {j \in P : j <= i} \in SUBSET P
    OBVIOUS
  <2>2. IsFiniteSet({j \in P : j <= i})
        /\ Cardinality({j \in P : j <= i}) <= Cardinality(P)
    BY <1>2, <2>1, FS_Subset
  <2> QED  BY <2>2, FS_CardinalityType DEF Count
<1>4. Count(P, 0) = 0
  <2>1. {j \in P : j <= 0} = {}
    <3>1. \A j \in P : j \in Nat /\ ~(j <= 0) /\ j <= N
      OBVIOUS
    <3> QED  BY <3>1
  <2> QED  BY <2>1, FS_EmptySet DEF Count
<1>5. Count(P, N) = Cardinality(P)
  <2>1. {j \in P : j <= N} = P
    <3>1. \A j \in P : j \in Nat /\ ~(j <= 0) /\ j <= N
      OBVIOUS
    <3> QED  BY <3>1
  <2> QED  BY <2>1 DEF Count
<1>6. ASSUME NEW i \in 1..N PROVE Count(P, i) = Count(P, i - 1) + IF i \in P THEN 1 ELSE 0
  <2> DEFINE before == {j \in P : j <= i - 1}
  <2>1. i - 1 \in 0..N /\ i \in Nat
    OBVIOUS
  <2>2. IsFiniteSet(before) /\ Cardinality(before) \in Nat
    BY <1>3, <2>1 DEF Count
  <2>3. i \notin before
    BY <2>1
  <2>4. CASE i \in P
    <3>1. \A j \in P : j <= i <=> j <= i - 1 \/ j = i
      BY <2>1
    <3>2. {j \in P : j <= i} = before \cup {i}
      BY <2>4, <3>1
    <3> HIDE DEF before
    <3>3. Cardinality(before \cup {i}) = Cardinality(before) + 1
      BY <2>2, <2>3, FS_AddElement
    <3> QED  BY <2>4, <3>2, <3>3 DEF Count, before
  <2>5. CASE i \notin P
    <3>1. \A j \in P : j <= i <=> j <= i - 1
      BY <2>1, <2>5
    <3>2. {j \in P : j <= i} = before
      BY <3>1
    <3>3. Count(P, i) = Cardinality(before) /\ Count(P, i - 1) = Cardinality(before)
      BY <3>2 DEF Count
    <3> HIDE DEF before
    <3> QED  BY <2>2, <2>5, <3>3
  <2> QED  BY <2>4, <2>5
<1> QED  BY <1>2, <1>3, <1>4, <1>5, <1>6

\* A block among one or two, with what a delta adds to it.
Fed(blocks, k, f, x) == [blocks EXCEPT ![k].parts[f] = Append(@, x)]

\* It changes the block that it is for.
LEMMA FedIs ==
    ASSUME NEW s, NEW k \in DOMAIN s, NEW f, NEW x
    PROVE  Fed(s, k, f, x) = [i \in DOMAIN s |-> IF i = k THEN Grown(s[i], f, x) ELSE s[i]]
BY DEF Fed, Grown

\* Of one block it changes that one,
LEMMA OneGrows ==
    ASSUME NEW B, NEW f, NEW x
    PROVE  Fed(<<B>>, 1, f, x) = <<Grown(B, f, x)>>
<1>1. DOMAIN <<B>> = 1..1 /\ 1 \in DOMAIN <<B>>
  OBVIOUS
<1>2. Fed(<<B>>, 1, f, x) = [i \in 1..1 |-> IF i = 1 THEN Grown(<<B>>[i], f, x) ELSE <<B>>[i]]
  BY <1>1, FedIs
<1> QED  BY <1>2

\* and of two blocks the first or the second.
LEMMA TwoGrow ==
    ASSUME NEW B, NEW C, NEW f, NEW x
    PROVE  /\ Fed(<<B, C>>, 1, f, x) = <<Grown(B, f, x), C>>
           /\ Fed(<<B, C>>, 2, f, x) = <<B, Grown(C, f, x)>>
<1> DEFINE s == <<B, C>>
<1>1. DOMAIN s = 1..2 /\ 1 \in DOMAIN s /\ 2 \in DOMAIN s
  OBVIOUS
<1> HIDE DEF s
<1>2. /\ Fed(s, 1, f, x) = [i \in 1..2 |-> IF i = 1 THEN Grown(s[i], f, x) ELSE s[i]]
      /\ Fed(s, 2, f, x) = [i \in 1..2 |-> IF i = 2 THEN Grown(s[i], f, x) ELSE s[i]]
  BY <1>1, FedIs
<1> QED  BY <1>2 DEF s

\* The blocks of the answer when u events of the first block came, and w of the second.
BlocksAfter(u, w) ==
    CASE u = 0 -> <<>>
      [] u # 0 /\ w = 0 -> <<BlockTo(Blocks[1], u - 1)>>
      [] u # 0 /\ w # 0 -> <<BlockTo(Blocks[1], u - 1), BlockTo(Blocks[2], w - 1)>>

\* An event of the first block goes to the first block.
LEMMA FirstGrows ==
    ASSUME NEW u \in 1..Len(EventsOf(Blocks[1], 0)), NEW w \in Nat, u = 1 => w = 0
    PROVE  Accumulate(BlocksAfter(u - 1, w), EventsOf(Blocks[1], 0)[u]) = BlocksAfter(u, w)
<1> DEFINE b == Blocks[1]
           e == EventsOf(b, 0)[u]
<1>1. /\ Len(EventsOf(b, 0)) = Len(b.deltas) + 1 /\ Len(b.deltas) \in Nat
      /\ EventsOf(b, 0)[1] = [type |-> "content_block_start", kind |-> b.kind]
      /\ \A m \in 1..Len(b.deltas) :
            EventsOf(b, 0)[m + 1] = [type |-> "content_block_delta", index |-> 0,
                                     field |-> b.deltas[m].field, piece |-> b.deltas[m].piece]
  BY BlocksAreSo, EventsAre
<1>2. CASE u = 1
  <2>1. w = 0 /\ BlocksAfter(u - 1, w) = <<>> /\ BlocksAfter(u, w) = <<BlockTo(b, 0)>>
    BY <1>2 DEF BlocksAfter
  <2>2. e.type = "content_block_start" /\ e.kind = b.kind
    BY <1>1, <1>2
  <2> HIDE DEF b, e
  <2>3. Accumulate(<<>>, e) = <<[kind |-> b.kind, parts |-> NoText]>>
    BY <2>2 DEF Accumulate
  <2>4. BlockTo(b, 0) = [kind |-> b.kind, parts |-> NoText]
    BY BlocksAreSo, BlockBegins DEF b
  <2> QED  BY <2>1, <2>3, <2>4 DEF b, e
<1>3. CASE u # 1
  <2> DEFINE m == u - 1
             B == BlockTo(b, m - 1)
             C == BlockTo(Blocks[2], w - 1)
             f == b.deltas[m].field
             x == b.deltas[m].piece
  <2>1. m \in 1..Len(b.deltas) /\ m + 1 = u /\ m \in Nat /\ m # 0
    BY <1>1, <1>3
  <2>2. /\ e.type = "content_block_delta" /\ e.index = 0
        /\ e.field = f /\ e.piece = x
    <3>1. EventsOf(b, 0)[m + 1] = [type |-> "content_block_delta", index |-> 0,
                                   field |-> f, piece |-> x]
      BY <1>1, <2>1
    <3> HIDE DEF b, f, x, m
    <3> QED  BY <2>1, <3>1
  <2>3. Grown(B, f, x) = BlockTo(b, m)
    BY <2>1, BlocksAreSo, BlockGrows
  <2>4. CASE w = 0
    <3>1. BlocksAfter(m, w) = <<B>> /\ BlocksAfter(u, w) = <<BlockTo(b, m)>>
      BY <2>1, <2>4 DEF BlocksAfter
    <3> HIDE DEF B, C, f, x, e, b, m
    <3>2. Accumulate(<<B>>, e) = Fed(<<B>>, 1, f, x)
      BY <2>2 DEF Accumulate, Named, Fed
    <3>3. Fed(<<B>>, 1, f, x) = <<Grown(B, f, x)>>
      BY OneGrows
    <3> QED  BY <2>3, <3>1, <3>2, <3>3 DEF e, b, m
  <2>5. CASE w # 0
    <3>1. BlocksAfter(m, w) = <<B, C>> /\ BlocksAfter(u, w) = <<BlockTo(b, m), C>>
      BY <2>1, <2>5 DEF BlocksAfter
    <3> HIDE DEF B, C, f, x, e, b, m
    <3>2. Accumulate(<<B, C>>, e) = Fed(<<B, C>>, 1, f, x)
      BY <2>2 DEF Accumulate, Named, Fed
    <3>3. Fed(<<B, C>>, 1, f, x) = <<Grown(B, f, x), C>>
      BY TwoGrow
    <3> QED  BY <2>3, <3>1, <3>2, <3>3 DEF e, b, m
  <2> QED  BY <2>4, <2>5
<1> QED  BY <1>2, <1>3

\* So does one of the second block, which began after the first.
LEMMA SecondGrows ==
    ASSUME NEW u \in Nat \ {0}, NEW w \in 1..Len(EventsOf(Blocks[2], 1))
    PROVE  Accumulate(BlocksAfter(u, w - 1), EventsOf(Blocks[2], 1)[w]) = BlocksAfter(u, w)
<1> DEFINE b == Blocks[2]
           e == EventsOf(b, 1)[w]
           B == BlockTo(Blocks[1], u - 1)
<1>1. /\ Len(EventsOf(b, 1)) = Len(b.deltas) + 1 /\ Len(b.deltas) \in Nat
      /\ EventsOf(b, 1)[1] = [type |-> "content_block_start", kind |-> b.kind]
      /\ \A m \in 1..Len(b.deltas) :
            EventsOf(b, 1)[m + 1] = [type |-> "content_block_delta", index |-> 1,
                                     field |-> b.deltas[m].field, piece |-> b.deltas[m].piece]
  BY BlocksAreSo, EventsAre
<1>2. CASE w = 1
  <2>1. BlocksAfter(u, w - 1) = <<B>> /\ BlocksAfter(u, w) = <<B, BlockTo(b, 0)>>
    BY <1>2 DEF BlocksAfter
  <2>2. e.type = "content_block_start" /\ e.kind = b.kind
    BY <1>1, <1>2
  <2> HIDE DEF b, e, B
  <2>3. Accumulate(<<B>>, e) = <<B, [kind |-> b.kind, parts |-> NoText]>>
    <3>1. ASSUME NEW x PROVE Append(<<B>>, x) = <<B, x>>
      <4>1. <<B>> \in Seq({B, x}) /\ <<B, x>> \in Seq({B, x})
        OBVIOUS
      <4>2. Append(<<B>>, x) \in Seq({B, x}) /\ Len(Append(<<B>>, x)) = 2
            /\ Append(<<B>>, x)[1] = B /\ Append(<<B>>, x)[2] = x
        BY <4>1
      <4>3. \A i \in 1..2 : Append(<<B>>, x)[i] = <<B, x>>[i]
        BY <4>2
      <4> QED  BY <4>1, <4>2, <4>3, SeqEqual
    <3>2. Accumulate(<<B>>, e) = Append(<<B>>, [kind |-> b.kind, parts |-> NoText])
      BY <2>2 DEF Accumulate
    <3> QED  BY <3>1, <3>2
  <2>4. BlockTo(b, 0) = [kind |-> b.kind, parts |-> NoText]
    BY BlocksAreSo, BlockBegins DEF b
  <2> QED  BY <2>1, <2>3, <2>4 DEF b, e
<1>3. CASE w # 1
  <2> DEFINE m == w - 1
             C == BlockTo(b, m - 1)
             f == b.deltas[m].field
             x == b.deltas[m].piece
  <2>1. m \in 1..Len(b.deltas) /\ m + 1 = w /\ m \in Nat /\ m # 0
    BY <1>1, <1>3
  <2>2. /\ e.type = "content_block_delta" /\ e.index = 1
        /\ e.field = f /\ e.piece = x
    <3>1. EventsOf(b, 1)[m + 1] = [type |-> "content_block_delta", index |-> 1,
                                   field |-> f, piece |-> x]
      BY <1>1, <2>1
    <3> HIDE DEF b, f, x, m
    <3> QED  BY <2>1, <3>1
  <2>3. Grown(C, f, x) = BlockTo(b, m)
    BY <2>1, BlocksAreSo, BlockGrows
  <2>4. BlocksAfter(u, m) = <<B, C>> /\ BlocksAfter(u, w) = <<B, BlockTo(b, m)>>
    BY <2>1 DEF BlocksAfter
  <2> HIDE DEF B, C, f, x, e, b, m
  <2>5. Accumulate(<<B, C>>, e) = Fed(<<B, C>>, 2, f, x)
    BY <2>2 DEF Accumulate, Named, Fed
  <2>6. Fed(<<B, C>>, 2, f, x) = <<B, Grown(C, f, x)>>
    BY TwoGrow
  <2> QED  BY <2>3, <2>4, <2>5, <2>6 DEF e, b, m
<1> QED  BY <1>2, <1>3

\* The merge of s and t in which s has the places P.
Merged(s, t, P) ==
    [i \in 1..(Len(s) + Len(t)) |->
        IF i \in P THEN s[Count(P, i)] ELSE t[Count((1..(Len(s) + Len(t))) \ P, i)]]

\* Every merge is given by the places of the first sequence, one of them the first.
LEMMA MergesAre ==
    ASSUME NEW s, NEW t, NEW events \in Merges(s, t)
    PROVE  \E P \in SUBSET (1..(Len(s) + Len(t))) :
              Cardinality(P) = Len(s) /\ 1 \in P /\ events = Merged(s, t, P)
BY DEF Merges, Merged, Count, kSubset

\* The events of both blocks, the first of them at the places P.
StreamOf(P) == Merged(EventsOf(Blocks[1], 0), EventsOf(Blocks[2], 1), P)
Len1 == Len(EventsOf(Blocks[1], 0))
Len2 == Len(EventsOf(Blocks[2], 1))
Places == 1..(Len1 + Len2)

\* There is an event more than there are deltas.
LEMMA LengthsAre ==
    /\ Len1 = Len(Blocks[1].deltas) + 1 /\ Len2 = Len(Blocks[2].deltas) + 1
    /\ Len1 \in Nat \ {0} /\ Len2 \in Nat \ {0}
<1>1. Len1 = Len(Blocks[1].deltas) + 1 /\ Len(Blocks[1].deltas) \in Nat
  BY BlocksAreSo, EventsAre DEF Len1
<1>2. Len2 = Len(Blocks[2].deltas) + 1 /\ Len(Blocks[2].deltas) \in Nat
  BY BlocksAreSo, EventsAre DEF Len2
<1> QED  BY <1>1, <1>2

\* How many events of each block come up to place i.
LEMMA CountsAre ==
    ASSUME NEW P \in SUBSET Places, Cardinality(P) = Len1, 1 \in P
    PROVE  /\ Count(P, 0) = 0 /\ Count(P, Len1 + Len2) = Len1
           /\ Count(Places \ P, 0) = 0 /\ Count(Places \ P, Len1 + Len2) = Len2
           /\ \A i \in Places :
                /\ Count(P, i) \in 1..Len1 /\ Count(Places \ P, i) \in 0..Len2
                /\ i \in P => /\ Count(P, i - 1) = Count(P, i) - 1
                              /\ Count(Places \ P, i - 1) = Count(Places \ P, i)
                              /\ Count(P, i) = 1 => Count(Places \ P, i) = 0
                /\ i \notin P => /\ Count(P, i - 1) = Count(P, i)
                                 /\ Count(Places \ P, i - 1) = Count(Places \ P, i) - 1
                                 /\ Count(Places \ P, i) \in 1..Len2
<1> DEFINE N == Len1 + Len2
           Q == Places \ P
<1>1. N \in Nat /\ Len1 \in Nat /\ Len2 \in Nat /\ Places = 1..N
  <2>1. Len1 \in Nat /\ Len2 \in Nat
    BY LengthsAre
  <2>2. Places = 1..N
    BY DEF Places
  <2> QED  BY <2>1, <2>2
<1>2. /\ Count(P, 0) = 0 /\ Count(P, N) = Cardinality(P)
      /\ \A i \in 0..N : Count(P, i) \in Nat /\ Count(P, i) <= Cardinality(P)
      /\ \A i \in 1..N : Count(P, i) = Count(P, i - 1) + IF i \in P THEN 1 ELSE 0
  BY <1>1, CountGrows
<1>3. /\ Count(Q, 0) = 0 /\ Count(Q, N) = Cardinality(Q)
      /\ \A i \in 0..N : Count(Q, i) \in Nat /\ Count(Q, i) <= Cardinality(Q)
      /\ \A i \in 1..N : Count(Q, i) = Count(Q, i - 1) + IF i \in Q THEN 1 ELSE 0
  <2>1. Q \in SUBSET (1..N)
    BY <1>1
  <2> HIDE DEF Q
  <2> QED  BY <1>1, <2>1, CountGrows
<1>4. Cardinality(Q) = Len2
  <2>1. IsFiniteSet(Places) /\ Cardinality(Places) = N
    <3>1. IsFiniteSet(1..N) /\ Cardinality(1..N) = IF 1 > N THEN 0 ELSE N - 1 + 1
      BY <1>1, FS_Interval
    <3>2. (IF 1 > N THEN 0 ELSE N - 1 + 1) = N
      BY <1>1
    <3> QED  BY <1>1, <3>1, <3>2
  <2>2. Places \cap P = P
    OBVIOUS
  <2>3. Cardinality(Q) = Cardinality(Places) - Cardinality(Places \cap P)
    BY <2>1, FS_Difference
  <2>4. Cardinality(Q) = N - Len1
    BY <2>1, <2>2, <2>3
  <2> HIDE DEF Q
  <2> QED  BY <1>1, <2>4
<1>5. ASSUME NEW i \in Places PROVE Count(P, i) >= 1
  <2> DEFINE upto == {j \in P : j <= i}
  <2>1. i \in 1..N /\ 1 <= i
    BY <1>1
  <2>2. 1 \in upto
    BY <2>1
  <2>3. IsFiniteSet(upto)
    <3>1. upto \in SUBSET P /\ IsFiniteSet(P)
      BY <1>1, CountGrows
    <3> HIDE DEF upto
    <3> QED  BY <3>1, FS_Subset
  <2> HIDE DEF upto
  <2>4. Cardinality(upto) # 0 /\ Cardinality(upto) \in Nat
    BY <2>2, <2>3, FS_EmptySet, FS_CardinalityType
  <2> QED  BY <2>4 DEF Count, upto
<1> HIDE DEF N
<1>6. ASSUME NEW i \in Places
      PROVE  /\ Count(P, i) \in 1..Len1 /\ Count(Q, i) \in 0..Len2
             /\ i \in P => /\ Count(P, i - 1) = Count(P, i) - 1
                           /\ Count(Q, i - 1) = Count(Q, i)
                           /\ Count(P, i) = 1 => Count(Q, i) = 0
             /\ i \notin P => /\ Count(P, i - 1) = Count(P, i)
                              /\ Count(Q, i - 1) = Count(Q, i) - 1
                              /\ Count(Q, i) \in 1..Len2
  <2>1. i \in 1..N /\ i \in 0..N /\ i - 1 \in 0..N /\ i \in Nat
    BY <1>1
  <2>2. i \in Q <=> i \notin P
    OBVIOUS
  <2>3. /\ Count(P, i) \in Nat /\ Count(P, i) <= Len1 /\ Count(P, i) >= 1
        /\ Count(P, i - 1) \in Nat
        /\ Count(P, i) = Count(P, i - 1) + IF i \in P THEN 1 ELSE 0
    BY <1>2, <1>5, <2>1
  <2> HIDE DEF Q
  <2>4. /\ Count(Q, i) \in Nat /\ Count(Q, i) <= Len2
        /\ Count(Q, i - 1) \in Nat
        /\ Count(Q, i) = Count(Q, i - 1) + IF i \in Q THEN 1 ELSE 0
    BY <1>3, <1>4, <2>1
  <2>5. i \in P /\ Count(P, i) = 1 => Count(Q, i) = 0
    <3> SUFFICES ASSUME i \in P, Count(P, i) = 1 PROVE Count(Q, i) = 0
      OBVIOUS
    <3>1. Count(P, i - 1) = 0
      BY <2>3
    <3>2. i - 1 \notin Places
      BY <1>5, <3>1
    <3>3. i = 1
      BY <1>1, <2>1, <3>2
    <3> QED  BY <1>3, <2>2, <2>4, <3>3
  <2> QED  BY <1>1, <2>2, <2>3, <2>4, <2>5
<1> QED  BY <1>1, <1>2, <1>3, <1>4, <1>6 DEF N

\* Each event goes to its own block.
LEMMA StreamGrows ==
    ASSUME NEW P \in SUBSET Places, Cardinality(P) = Len1, 1 \in P, NEW i \in Places
    PROVE  Accumulate(BlocksAfter(Count(P, i - 1), Count(Places \ P, i - 1)), StreamOf(P)[i])
             = BlocksAfter(Count(P, i), Count(Places \ P, i))
<1> DEFINE u == Count(P, i)
           w == Count(Places \ P, i)
<1>1. /\ u \in 1..Len1 /\ w \in 0..Len2 /\ Len1 \in Nat /\ Len2 \in Nat
      /\ i \in P => /\ Count(P, i - 1) = u - 1 /\ Count(Places \ P, i - 1) = w
                    /\ u = 1 => w = 0
      /\ i \notin P => /\ Count(P, i - 1) = u /\ Count(Places \ P, i - 1) = w - 1
                       /\ w \in 1..Len2
  BY CountsAre, LengthsAre
<1>2. StreamOf(P)[i] = IF i \in P THEN EventsOf(Blocks[1], 0)[u] ELSE EventsOf(Blocks[2], 1)[w]
  BY DEF StreamOf, Merged, Places, Len1, Len2
<1> HIDE DEF u, w
<1>3. CASE i \in P
  <2>1. u \in 1..Len(EventsOf(Blocks[1], 0)) /\ w \in Nat
    BY <1>1 DEF Len1
  <2>2. Accumulate(BlocksAfter(u - 1, w), EventsOf(Blocks[1], 0)[u]) = BlocksAfter(u, w)
    BY <1>1, <1>3, <2>1, FirstGrows
  <2> QED  BY <1>1, <1>2, <1>3, <2>2 DEF u, w
<1>4. CASE i \notin P
  <2>1. u \in Nat \ {0} /\ w \in 1..Len(EventsOf(Blocks[2], 1))
    BY <1>1, <1>4 DEF Len2
  <2>2. Accumulate(BlocksAfter(u, w - 1), EventsOf(Blocks[2], 1)[w]) = BlocksAfter(u, w)
    BY <2>1, SecondGrows
  <2> QED  BY <1>1, <1>2, <1>4, <2>2 DEF u, w
<1> QED  BY <1>3, <1>4

\* None of them is the end of the stream.
LEMMA NoneStops ==
    ASSUME NEW P \in SUBSET Places, Cardinality(P) = Len1, 1 \in P, NEW i \in Places
    PROVE  StreamOf(P)[i].type # "message_stop"
<1>1. ASSUME NEW b, BlockFacts(b), NEW n, NEW m \in 1..Len(EventsOf(b, n))
      PROVE  EventsOf(b, n)[m].type # "message_stop"
  <2> DEFINE e == EventsOf(b, n)
  <2>1. /\ Len(e) = Len(b.deltas) + 1 /\ Len(b.deltas) \in Nat
        /\ e[1] = [type |-> "content_block_start", kind |-> b.kind]
        /\ \A l \in 1..Len(b.deltas) :
             e[l + 1] = [type |-> "content_block_delta", index |-> n,
                         field |-> b.deltas[l].field, piece |-> b.deltas[l].piece]
    BY <1>1, EventsAre
  <2> HIDE DEF e
  <2>2. CASE m = 1
    <3>1. e[1].type = "content_block_start"
      BY <2>1
    <3> QED  BY <2>2, <3>1 DEF e
  <2>3. CASE m # 1
    <3>1. m - 1 \in 1..Len(b.deltas) /\ m - 1 + 1 = m
      BY <2>1, <2>3 DEF e
    <3>2. e[m - 1 + 1] = [type |-> "content_block_delta", index |-> n,
                          field |-> b.deltas[m - 1].field, piece |-> b.deltas[m - 1].piece]
      BY <2>1, <3>1
    <3>3. e[m].type = "content_block_delta"
      BY <3>1, <3>2
    <3> QED  BY <3>3 DEF e
  <2> QED  BY <2>2, <2>3
<1>2. /\ Count(P, i) \in 1..Len(EventsOf(Blocks[1], 0))
      /\ i \notin P => Count(Places \ P, i) \in 1..Len(EventsOf(Blocks[2], 1))
  BY CountsAre DEF Len1, Len2
<1>3. StreamOf(P)[i] = IF i \in P THEN EventsOf(Blocks[1], 0)[Count(P, i)]
                        ELSE EventsOf(Blocks[2], 1)[Count(Places \ P, i)]
  BY DEF StreamOf, Merged, Places, Len1, Len2
<1> QED  BY <1>1, <1>2, <1>3, BlocksAreSo

\* The message that both blocks make, and the stream that carries them.
Message ==
    [role |-> "assistant",
     content |-> [n \in 1..2 |->
        [kind |-> Blocks[n].kind,
         parts |-> [f \in DOMAIN NoText |-> Text(Blocks[n], f)]]]]

\* It is a sequence of events, at all of the places.
LEMMA StreamIs ==
    ASSUME NEW P \in SUBSET Places
    PROVE  /\ Len(StreamOf(P)) = Len1 + Len2 /\ DOMAIN StreamOf(P) = Places
           /\ StreamOf(P) \in Seq({StreamOf(P)[i] : i \in Places})
<1> DEFINE N == Len1 + Len2
           e == StreamOf(P)
           S == {e[i] : i \in Places}
<1>1. N \in Nat /\ Places = 1..N
  <2>1. Len1 \in Nat /\ Len2 \in Nat
    BY LengthsAre
  <2> QED  BY <2>1 DEF Places
<1>2. DOMAIN e = Places /\ e = [i \in Places |-> e[i]]
  BY DEF StreamOf, Merged, Places, Len1, Len2
<1> HIDE DEF e, N
<1>3. e \in [1..N -> S]
  BY <1>1, <1>2
<1> HIDE DEF S
<1>4. e \in Seq(S) /\ Len(e) = N
  BY <1>1, <1>3
<1> QED  BY <1>2, <1>4 DEF e, N, S

\* All of its events make both blocks.
LEMMA StreamMakesBlocks ==
    ASSUME NEW P \in SUBSET Places, Cardinality(P) = Len1, 1 \in P,
           NEW full, DOMAIN full = 1..(Len1 + Len2 + 1),
           \A i \in Places : full[i] = StreamOf(P)[i],
           full[Len1 + Len2 + 1] = Stop
    PROVE  FoldLeft(Accumulate, <<>>, full) = BlocksAfter(Len1, Len2)
<1> DEFINE N == Len1 + Len2
           at(i) == IF i \in 0..N THEN BlocksAfter(Count(P, i), Count(Places \ P, i))
                    ELSE BlocksAfter(Len1, Len2)
           st == [i \in 0..(N + 1) |-> at(i)]
<1>1. Len1 \in Nat /\ Len2 \in Nat /\ N \in Nat /\ Places = 1..N
  <2>1. Len1 \in Nat /\ Len2 \in Nat
    BY LengthsAre
  <2> QED  BY <2>1 DEF Places
<1>2. /\ Count(P, 0) = 0 /\ Count(P, N) = Len1
      /\ Count(Places \ P, 0) = 0 /\ Count(Places \ P, N) = Len2
  BY CountsAre
<1>3. at(0) = <<>>
  <2>1. 0 \in 0..N
    BY <1>1
  <2>2. BlocksAfter(0, 0) = <<>>
    BY DEF BlocksAfter
  <2> QED  BY <1>2, <2>1, <2>2
<1>4. at(N) = BlocksAfter(Len1, Len2)
  <2>1. N \in 0..N
    BY <1>1
  <2> QED  BY <1>2, <2>1
<1>5. at(N + 1) = BlocksAfter(Len1, Len2)
  <2>1. N + 1 \notin 0..N
    BY <1>1
  <2> QED  BY <2>1
<1>6. ASSUME NEW i \in 1..(N + 1) PROVE at(i) = Accumulate(at(i - 1), full[i])
  <2>1. CASE i = N + 1
    <3>1. i - 1 = N
      BY <1>1, <2>1
    <3>2. \A blocks : Accumulate(blocks, Stop) = blocks
      BY DEF Accumulate, Stop
    <3>3. full[i] = Stop
      BY <2>1
    <3>4. at(i) = BlocksAfter(Len1, Len2) /\ at(i - 1) = BlocksAfter(Len1, Len2)
      BY <1>4, <1>5, <2>1, <3>1
    <3> HIDE DEF at
    <3> QED  BY <3>2, <3>3, <3>4
  <2>2. CASE i # N + 1
    <3>1. i \in Places /\ i \in 0..N /\ i - 1 \in 0..N
      BY <1>1, <2>2
    <3>2. Accumulate(BlocksAfter(Count(P, i - 1), Count(Places \ P, i - 1)), StreamOf(P)[i])
             = BlocksAfter(Count(P, i), Count(Places \ P, i))
      BY <3>1, StreamGrows
    <3>3. full[i] = StreamOf(P)[i]
      BY <3>1
    <3>4. /\ at(i) = BlocksAfter(Count(P, i), Count(Places \ P, i))
          /\ at(i - 1) = BlocksAfter(Count(P, i - 1), Count(Places \ P, i - 1))
      BY <3>1
    <3> HIDE DEF at
    <3> QED  BY <3>2, <3>3, <3>4
  <2> QED  BY <2>1, <2>2
<1> HIDE DEF at
<1>7. st[0] = at(0) /\ st[N + 1] = at(N + 1)
  <2>1. 0 \in 0..(N + 1) /\ N + 1 \in 0..(N + 1)
    BY <1>1
  <2> QED  BY <2>1
<1>8. ASSUME NEW i \in 1..(N + 1) PROVE st[i] = Step("events", st[i - 1], full[i])
  <2>1. i \in 0..(N + 1) /\ i - 1 \in 0..(N + 1)
    BY <1>1
  <2>2. st[i] = at(i) /\ st[i - 1] = at(i - 1)
    BY <2>1
  <2> HIDE DEF st, N
  <2> QED  BY <1>6, <2>2 DEF Step
<1> HIDE DEF st
<1>9. Traces("events", <<>>, st, full, N + 1)
  BY <1>3, <1>7, <1>8 DEF Traces
<1>10. N + 1 \in Nat /\ DOMAIN full = 1..(N + 1)
  BY <1>1
<1> HIDE DEF N
<1>11. FoldLeft(Accumulate, <<>>, full) = st[N + 1]
  BY <1>9, <1>10, AccumulateEndsIn
<1> QED  BY <1>5, <1>7, <1>11

\* They are the content of the message.
LEMMA BlocksAreContent ==
    BlocksAfter(Len1, Len2) = Message.content /\ Message.content # <<>>
<1> DEFINE d1 == Len(Blocks[1].deltas)
           d2 == Len(Blocks[2].deltas)
           B == BlockTo(Blocks[1], d1)
           C == BlockTo(Blocks[2], d2)
<1>1. d1 \in Nat /\ d2 \in Nat /\ Len1 = d1 + 1 /\ Len2 = d2 + 1
  <2>1. d1 \in Nat /\ d2 \in Nat
    BY BlocksAreSo, EventsAre
  <2> QED  BY <2>1, LengthsAre
<1>2. BlocksAfter(Len1, Len2) = <<B, C>>
  <2>1. Len1 # 0 /\ Len2 # 0 /\ Len1 - 1 = d1 /\ Len2 - 1 = d2
    BY <1>1
  <2> QED  BY <2>1 DEF BlocksAfter
<1>3. /\ B = [kind |-> Blocks[1].kind, parts |-> [f \in DOMAIN NoText |-> Text(Blocks[1], f)]]
      /\ C = [kind |-> Blocks[2].kind, parts |-> [f \in DOMAIN NoText |-> Text(Blocks[2], f)]]
  BY BlocksAreSo, BlockEnds
<1> HIDE DEF B, C
<1>4. Message.content[1] = B /\ Message.content[2] = C /\ DOMAIN Message.content = 1..2
      /\ Message.content = [n \in 1..2 |-> Message.content[n]]
  BY <1>3 DEF Message
<1> DEFINE m == Message.content
<1>5. m[1] = B /\ m[2] = C /\ m = [n \in 1..2 |-> m[n]]
  BY <1>4
<1> HIDE DEF m
<1>6. m = <<B, C>>
  <2>1. \A n \in 1..2 : m[n] = <<B, C>>[n]
    BY <1>5
  <2>2. <<B, C>> = [n \in 1..2 |-> <<B, C>>[n]]
    OBVIOUS
  <2> QED  BY <1>5, <2>1, <2>2
<1>7. <<B, C>> # <<>>
  OBVIOUS
<1> QED  BY <1>2, <1>6, <1>7 DEF m

\* A stream that stops gives them.
LEMMA StreamRebuilds ==
    ASSUME NEW P \in SUBSET Places, Cardinality(P) = Len1, 1 \in P
    PROVE  AnthropicOutput(Append(StreamOf(P), Stop)) = <<Message>>
<1> DEFINE N == Len1 + Len2
           e == StreamOf(P)
           full == Append(e, Stop)
           S == {e[i] : i \in Places} \cup {Stop}
<1>1. N \in Nat /\ Places = 1..N
  <2>1. Len1 \in Nat /\ Len2 \in Nat
    BY LengthsAre
  <2> QED  BY <2>1 DEF Places
<1>2. e \in Seq(S) /\ Len(e) = N /\ Stop \in S
  <2> DEFINE T == {e[i] : i \in Places}
  <2>1. e \in Seq(T) /\ Len(e) = N
    BY StreamIs
  <2> HIDE DEF T, e
  <2>2. e \in Seq(T \cup {Stop})
    BY <2>1
  <2> QED  BY <2>1, <2>2 DEF T
<1> HIDE DEF e, S
<1>3. /\ Len(full) = N + 1 /\ DOMAIN full = 1..(N + 1) /\ full[N + 1] = Stop
      /\ \A i \in 1..N : full[i] = e[i]
  BY <1>1, <1>2
<1> HIDE DEF full
<1>4. FoldLeft(Accumulate, <<>>, full) = BlocksAfter(Len1, Len2)
  BY <1>1, <1>3, StreamMakesBlocks DEF e
<1>5. \E i \in DOMAIN full : full[i].type = "message_stop"
  <2>1. N + 1 \in DOMAIN full
    BY <1>1, <1>3
  <2>2. full[N + 1].type = "message_stop"
    BY <1>3 DEF Stop
  <2> QED  BY <2>1, <2>2
<1>6. Message = [role |-> "assistant", content |-> Message.content]
  BY DEF Message
<1>7. AnthropicOutput(full) = <<[role |-> "assistant", content |-> Message.content]>>
  BY <1>4, <1>5, BlocksAreContent DEF AnthropicOutput
<1> QED  BY <1>6, <1>7 DEF full, e

\* One that is cut off does not.
LEMMA CutStreamHasNone ==
    ASSUME NEW P \in SUBSET Places, Cardinality(P) = Len1, 1 \in P, NEW n \in 0..Len(StreamOf(P))
    PROVE  AnthropicOutput(SubSeq(StreamOf(P), 1, n)) = <<>>
<1> DEFINE N == Len1 + Len2
           e == StreamOf(P)
           cut == SubSeq(e, 1, n)
           S == {e[i] : i \in Places}
<1>1. N \in Nat /\ Places = 1..N
  <2>1. Len1 \in Nat /\ Len2 \in Nat
    BY LengthsAre
  <2> QED  BY <2>1 DEF Places
<1>2. e \in Seq(S) /\ Len(e) = N
  BY StreamIs
<1>3. \A i \in 1..N : e[i].type # "message_stop"
  BY <1>1, NoneStops
<1> HIDE DEF e, S
<1>4. n \in 0..N
  BY <1>2 DEF e
<1>5. DOMAIN cut = 1..n /\ \A i \in 1..n : cut[i] = e[i] /\ i \in 1..N
  BY <1>1, <1>2, <1>4
<1> HIDE DEF cut
<1>6. ~ \E i \in DOMAIN cut : cut[i].type = "message_stop"
  BY <1>3, <1>5
<1>7. AnthropicOutput(cut) = <<>>
  BY <1>6 DEF AnthropicOutput
<1> QED  BY <1>7 DEF cut, e

\* Together: an answer is rebuilt from every interleaving, and from none that is cut off.
LEMMA StreamsRebuild == AllStreamsRebuild
<1> SUFFICES ASSUME NEW events \in Merges(EventsOf(Blocks[1], 0), EventsOf(Blocks[2], 1))
             PROVE  /\ AnthropicOutput(Append(events, Stop)) = <<Message>>
                    /\ \A n \in 0..Len(events) : AnthropicOutput(SubSeq(events, 1, n)) = <<>>
  BY DEF AllStreamsRebuild, Message
<1>1. PICK P \in SUBSET Places : Cardinality(P) = Len1 /\ 1 \in P /\ events = StreamOf(P)
  BY MergesAre DEF Places, Len1, Len2, StreamOf
<1> QED  BY <1>1, StreamRebuilds, CutStreamHasNone

\* A capture of three requests is one of any number.
LEMMA FormsReplay == AllFormsReplay
<1> SUFFICES ASSUME NEW requests \in [1..3 -> Requests]
             PROVE  FoldLeft(Replaying, [state |-> Start, given |-> {}, ok |-> TRUE], requests).ok
  BY DEF AllFormsReplay, Requests
<1>1. 3 \in Nat
  OBVIOUS
<1> QED  BY <1>1, MixedFormsReplay

\* CodecHolds: what was reserved or drained can be read back, for every choice of
\* bodies, messages and histories and every length of two interleaved blocks: the
\* reader of encode_delta's deltas gets the body back, one of mixed forms gets to the
\* last history, both derivations of the harness agree, and anthropic_output gives each
\* block its own text.  The property asks it of captures of three requests and of up to
\* three envelopes; MixedFormsReplay and HarnessAgrees have any number of them.
THEOREM CodecHolds == Spec => []CodecIsFaithful
<1>1. CodecIsFaithful
  BY DeltasReplay, FormsReplay, OneHarnessHolds, StreamsRebuild DEF CodecIsFaithful
<1> QED  BY <1>1, PTL
===============================================================================
