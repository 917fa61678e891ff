----------------------------- MODULE BrokerProofs ------------------------------
(***************************************************************************)
(* Proofs about Broker, for any number of requests, callers, keys, permits *)
(* and cached verdicts, for every place where a future is dropped and      *)
(* every stop: its shape, that what a client is told of uploads is true,   *)
(* and that a caller is only taken for a machine it was lately.            *)
(*                                                                         *)
(* Each step of a request keeps BrokerIInv and tells the truth (Truthful). *)
(* StepKeeps has what all of them need; a lemma for each action adds what  *)
(* the action does.                                                        *)
(***************************************************************************)
EXTENDS Broker, FiniteSetTheorems, TLAPS

-----------------------------------------------------------------------------
(* The invariant by parts, and what every step must keep of it.            *)

\* What a request may be told in one step, and be taken for.
Told(r) ==
    /\ (req'[r].outcome = "listed" /\ req[r].outcome = "none") =>
          \A k \in Keys : listing'.objects[k].write >= req[r].since[k]
    /\ (req'[r].outcome \in {"uploaded", "unchanged"} /\ req[r].outcome = "none") =>
          SizeOf[req[r].asks.version] \in req[r].sizes
    /\ (req[r].at \in {"resolving", "named"} /\ req'[r].name # Nobody /\ req'[r].at # "named") =>
          \/ req'[r].name = identity[Caller[r]].name
          \/ identity[Caller[r]].since < TTL + Late(r)
Truthful == \A r \in Requests : Told(r)

\* The parts of the invariant by what they are about.
Good(f, c) == Fits(f) /\ Current(f) /\ SizesSeen(f) /\ Aged(f, c)
Locked == {"wantlist", "listing", "listed"}
NamesOk ==
    /\ names \in [Callers -> [name : Names, age : Nat, late : Nat]]
    /\ Cardinality(Cached(names)) <= MaxCached /\ NamesAge
ListingOk ==
    /\ listing \in [known : BOOLEAN, fresh : BOOLEAN, objects : Objects]
    /\ ListingIsCurrent

\* The invariant, part by part.
Parts ==
    /\ \A k \in Keys : store[k].version \in Versions \cup {0} /\ acked[k] <= store[k].write
    /\ phase \in {"down", "serving", "draining"}
    /\ scene \in Scenes /\ store \in Objects /\ acked \in Acks
    /\ identity \in [Callers -> [name : Names, since : Nat]]
    /\ req \in [Requests -> Futures]
    /\ held = {r \in Requests : req[r].at \in Running}
    /\ IsFiniteSet(held) /\ Cardinality(held) <= MaxAws
    /\ lock \in Requests \cup {Nobody}
    /\ {r \in Requests : req[r].at \in Locked} = IF lock = Nobody THEN {} ELSE {lock}
    /\ phase = "down" => (\A c \in Callers : names[c] = NoVerdict)
    /\ phase = "down" => (\A r \in Requests : ~Active(r))
    /\ \A r \in Requests : Good(req[r], Caller[r])
    /\ NamesOk /\ ListingOk
    /\ ticks \in Nat /\ stops \in Nat

\* They are the whole of it.
LEMMA IInvParts == BrokerIInv <=> Parts
<1>1. ASSUME req \in [Requests -> Futures] PROVE \A r \in Requests : req[r].at \in Places
  BY <1>1 DEF Futures
<1>2. ASSUME \A r \in Requests : ~Active(r), held = {r \in Requests : req[r].at \in Running}
      PROVE  held = {}
  BY <1>2 DEF Active, Ended, Running
<1> QED
  BY <1>1, <1>2, Zenon DEF BrokerIInv, TypeOK, FieldsOk, RequestsFit, Good, NamesOk, ListingOk,
     Locked, ListingIsCurrent, Parts

\* A request is told nothing by a step that leaves its outcome, and its name and
\* place unless it is being named, as they are.
LEMMA StillTold ==
    ASSUME NEW q \in Requests, Fits(req[q]), req'[q].outcome = req[q].outcome,
           \/ req'[q].at = req[q].at /\ req'[q].name = req[q].name
           \/ req'[q].at = "named"
    PROVE  Told(q)
<1>1. req[q].outcome \in {"listed", "uploaded", "unchanged"} => req[q].outcome # "none"
  OBVIOUS
<1>2. req[q].at = "resolving" => req[q].name = Nobody
  BY DEF Fits
<1> QED  BY <1>1, <1>2 DEF Told

\* A step that moves one request, in a process that runs, keeps the invariant if
\* every request stays good.
LEMMA StepKeeps ==
    ASSUME BrokerIInv, NEW r \in Requests, req' \in [Requests -> Futures],
           \A q \in Requests \ {r} : req'[q].at = req[q].at,
           \A q \in Requests : Good(req[q], Caller[q])',
           held' = IF req'[r].at \in Running THEN held \cup {r} ELSE held \ {r},
           (req[r].at \notin Running /\ req'[r].at \in Running) => Cardinality(held) < MaxAws,
           lock' = IF req'[r].at \in Locked THEN r ELSE IF lock = r THEN Nobody ELSE lock,
           req'[r].at \in Locked => lock \in {Nobody, r},
           NamesOk', ListingOk',
           store' \in Objects, acked' \in Acks,
           \A k \in Keys : acked'[k] <= store'[k].write,
           phase # "down", UNCHANGED <<identity, ticks, stops, scene, phase>>
    PROVE  BrokerIInv'
<1>0. Parts
  BY IInvParts
<1>5. held' = {q \in Requests : req'[q].at \in Running}
  <2>1. held = {q \in Requests : req[q].at \in Running}
    BY <1>0 DEF Parts
  <2> QED  BY <2>1
<1>6. IsFiniteSet(held') /\ Cardinality(held') <= MaxAws
  <2>1. IsFiniteSet(held) /\ Cardinality(held) <= MaxAws /\ Cardinality(held) \in Nat
    BY <1>0, FS_CardinalityType DEF Parts
  <2>2. MaxAws \in Nat
    BY BrokerAssumption
  <2>3. CASE req'[r].at \in Running
    <3>1. held' = held \cup {r}
      BY <2>3
    <3>2. CASE r \in held
      BY <2>1, <3>1, <3>2
    <3>3. CASE r \notin held
      <4>1. req[r].at \notin Running
        BY <1>0, <3>3 DEF Parts
      <4>2. Cardinality(held) < MaxAws
        BY <2>3, <4>1
      <4>3. Cardinality(held \cup {r}) = Cardinality(held) + 1 /\ IsFiniteSet(held \cup {r})
        BY <2>1, <3>3, FS_AddElement
      <4>4. Cardinality(held) + 1 <= MaxAws
        BY <2>1, <2>2, <4>2
      <4> QED  BY <3>1, <4>3, <4>4
    <3> QED  BY <3>2, <3>3
  <2>4. CASE req'[r].at \notin Running
    <3>1. held' = held \ {r}
      BY <2>4
    <3>2. IsFiniteSet(held \ {r}) /\ Cardinality(held \ {r}) <= Cardinality(held)
      BY <2>1, FS_Subset
    <3>3. Cardinality(held \ {r}) \in Nat
      BY <3>2, FS_CardinalityType
    <3> QED  BY <2>1, <2>2, <3>1, <3>2, <3>3
  <2> QED  BY <2>3, <2>4
<1>7. /\ lock' \in Requests \cup {Nobody}
      /\ {q \in Requests : req'[q].at \in Locked} = IF lock' = Nobody THEN {} ELSE {lock'}
  <2>1. /\ lock \in Requests \cup {Nobody} /\ r # Nobody
        /\ {q \in Requests : req[q].at \in Locked} = IF lock = Nobody THEN {} ELSE {lock}
    BY <1>0, BrokerAssumption DEF Parts, Nobody
  <2>2. CASE req'[r].at \in Locked
    <3>1. lock' = r /\ lock \in {Nobody, r}
      BY <2>2
    <3>2. \A q \in Requests \ {r} : req[q].at \notin Locked
      BY <2>1, <3>1
    <3>3. {q \in Requests : req'[q].at \in Locked} = {r}
      BY <2>2, <3>2
    <3> QED  BY <2>1, <3>1, <3>3
  <2>3. CASE req'[r].at \notin Locked
    <3>1. lock' = IF lock = r THEN Nobody ELSE lock
      BY <2>3
    <3>2. CASE lock = r
      <4>1. \A q \in Requests : req'[q].at \notin Locked
        BY <2>1, <2>3, <3>2
      <4> QED  BY <3>1, <3>2, <4>1
    <3>3. CASE lock # r
      <4>1. {q \in Requests : req'[q].at \in Locked} = {q \in Requests : req[q].at \in Locked}
        <5>1. r \notin {q \in Requests : req[q].at \in Locked}
          BY <2>1, <3>3
        <5> QED  BY <2>3, <5>1
      <4> QED  BY <2>1, <3>1, <3>3, <4>1
    <3> QED  BY <3>2, <3>3
  <2> QED  BY <2>2, <2>3
<1>9. phase' = phase
  OBVIOUS
<1>10. BrokerIInv' <=> Parts'
  BY IInvParts, PTL
<1>11. /\ phase \in {"down", "serving", "draining"}
       /\ scene \in Scenes /\ identity \in [Callers -> [name : Names, since : Nat]]
       /\ ticks \in Nat /\ stops \in Nat
  BY <1>0 DEF Parts
<1>12. \A k \in Keys : store'[k].version \in Versions \cup {0}
  BY DEF Objects
<1>13. \A q \in Requests : Good(req[q], Caller[q])'
  OBVIOUS
<1> QED  BY <1>5, <1>6, <1>7, <1>9, <1>10, <1>11, <1>12, <1>13 DEF Parts

\* A step of one request, which changes neither the store nor who is there nor
\* what was acknowledged, keeps the invariant if the request itself stays good.
LEMMA QuietKeeps ==
    ASSUME BrokerIInv, NEW r \in Requests, NEW g \in Futures, req' = [req EXCEPT ![r] = g],
           Good(g, Caller[r]), phase # "down",
           held' = IF g.at \in Running THEN held \cup {r} ELSE held \ {r},
           (req[r].at \notin Running /\ g.at \in Running) => Cardinality(held) < MaxAws,
           lock' = IF g.at \in Locked THEN r ELSE IF lock = r THEN Nobody ELSE lock,
           g.at \in Locked => lock \in {Nobody, r},
           NamesOk', ListingOk',
           UNCHANGED <<store, acked, identity, ticks, stops, scene, phase>>
    PROVE  BrokerIInv' /\ \A q \in Requests \ {r} : Told(q)
<1>0. Parts
  BY IInvParts
<1>1. req' \in [Requests -> Futures] /\ req'[r] = g /\ \A q \in Requests \ {r} : req'[q] = req[q]
  BY <1>0 DEF Parts
<1>2. \A q \in Requests : Good(req[q], Caller[q])
  BY <1>0 DEF Parts
<1>3. \A q \in Requests : Good(req'[q], Caller[q])
  BY <1>1, <1>2
<1>4. \A q \in Requests : Good(req[q], Caller[q])'
  <2>1. \A f, c : Good(f, c)' <=> Good(f, c)
    BY DEF Good, Fits, Current, SizesSeen, Aged, Size
  <2> QED  BY <1>3, <2>1
<1>5. /\ store' \in Objects /\ acked' \in Acks
      /\ \A k \in Keys : acked'[k] <= store'[k].write
  BY <1>0 DEF Parts
<1>6. \A q \in Requests \ {r} : Told(q)
  BY <1>1, <1>2, StillTold DEF Good
<1>7. BrokerIInv'
  BY <1>1, <1>4, <1>5, StepKeeps
<1> QED  BY <1>6, <1>7

-----------------------------------------------------------------------------
(* What a request may become.                                              *)

\* Where a request stands says what it holds.
LEMMA PlacesApart ==
    /\ Ended \subseteq Places /\ Running \subseteq Places /\ Waiting \subseteq Places
    /\ Lists \subseteq Places /\ Puts \subseteq Places /\ Locked \subseteq Lists
    /\ Lookup \cap (Running \cup Locked \cup Ended) = {}
    /\ \A p \in Ended \cup {"new", "resolving", "wantlock", "spooling", "clearing"} :
          p \notin Running /\ p \notin Locked /\ p # "named"
BY DEF Places, Ended, Running, Waiting, Lists, Puts, Locked, Lookup

\* A request that has not been made.
LEMMA NewIsAFuture == New \in Futures
<1>1. /\ "new" \in Places /\ Nobody \in Names /\ "none" \in Outcomes /\ New.asks \in Asked
  BY DEF Places, Names, Outcomes, Asked
<1> DEFINE asks == New.asks
<1>2. New = [at |-> "new", asks |-> asks, name |-> Nobody, age |-> 0, wrote |-> 0,
             since |-> <<>>, seen |-> <<>>, sizes |-> {}, outcome |-> "none"]
  BY Zenon DEF New
<1> HIDE DEF asks
<1>3. [at |-> "new", asks |-> asks, name |-> Nobody, age |-> 0, wrote |-> 0,
       since |-> <<>>, seen |-> <<>>, sizes |-> {}, outcome |-> "none"] \in Futures
  BY <1>1 DEF Futures, asks
<1> QED  BY <1>2, <1>3

\* A request that ends, or is dropped.
LEMMA EndedIsGood ==
    ASSUME NEW p \in Ended, NEW o \in Outcomes, NEW c
    PROVE  LET g == [[New EXCEPT !.at = p] EXCEPT !.outcome = o]
           IN  /\ g \in Futures /\ Good(g, c)
               /\ g.at = p /\ g.outcome = o /\ g.name = Nobody
<1> DEFINE g == [[New EXCEPT !.at = p] EXCEPT !.outcome = o]
<1>1. New \in Futures
  BY NewIsAFuture
<1>2. g \in Futures
  <2>1. p \in Places
    BY PlacesApart
  <2>2. \A f \in Futures : [[f EXCEPT !.at = p] EXCEPT !.outcome = o] \in Futures
    BY <2>1 DEF Futures
  <2> QED  BY <1>1, <2>2
<1>3. \A f \in Futures : LET h == [[f EXCEPT !.at = p] EXCEPT !.outcome = o]
                         IN  h.at = p /\ h.outcome = o /\ h.name = f.name /\ h.asks = f.asks
  BY DEF Futures
<1>4. g.at = p /\ g.outcome = o /\ g.name = Nobody /\ g.asks = New.asks
  <2>1. New.name = Nobody
    BY DEF New
  <2> QED  BY <1>1, <1>3, <2>1
<1>5. Good(g, c)
  <2> HIDE DEF g
  <2>1. /\ p \notin Lists /\ p \notin Puts /\ p # "new" /\ p # "named" /\ p # "listed"
        /\ p \notin {"landed", "clearing"} /\ p \notin {"new", "resolving", "asking"}
    BY DEF Ended, Lists, Puts
  <2> QED  BY <1>4, <2>1 DEF Good, Fits, Current, SizesSeen, Aged
<1> QED  BY <1>2, <1>4, <1>5

\* A request that moves on with what it knows.
LEMMA MovedIsGood ==
    ASSUME NEW f \in Futures, NEW c, NEW p \in Places, Good(f, c), f.at \notin Ended \cup {"new"},
           p \notin Ended \cup {"new", "named", "listed"},
           p \in Lists => f.asks.kind = "list", p \in Puts => f.asks.kind = "put",
           p \in {"landed", "clearing"} => f.at \in {"landed", "clearing"},
           p \in {"resolving", "asking"} => f.name = Nobody /\ f.age = 0
    PROVE  LET g == [f EXCEPT !.at = p]
           IN  /\ g \in Futures /\ Good(g, c)
               /\ g.at = p /\ g.outcome = "none" /\ g.name = f.name
<1> DEFINE g == [f EXCEPT !.at = p]
<1>1. g \in Futures
  BY DEF Futures
<1>2. /\ g.at = p /\ g.outcome = f.outcome /\ g.name = f.name /\ g.asks = f.asks /\ g.age = f.age
      /\ g.wrote = f.wrote /\ g.since = f.since /\ g.sizes = f.sizes
  BY DEF Futures
<1> HIDE DEF g
<1>3. Fits(g) /\ g.outcome = "none"
  BY <1>2 DEF Good, Fits
<1>4. Current(g)
  BY <1>2 DEF Good, Current
<1>5. SizesSeen(g)
  BY <1>2 DEF Good, SizesSeen
<1>6. Aged(g, c)
  BY <1>2 DEF Aged
<1> QED  BY <1>1, <1>2, <1>3, <1>4, <1>5, <1>6 DEF Good, g

\* A request that has got a name.
NamedAs(f, p, n) == [f EXCEPT !.at = p, !.name = n, !.age = 0]

\* It is good, wherever its kind leads.
LEMMA NamedIsGood ==
    ASSUME NEW f \in Futures, NEW c, NEW p \in {"wantlock", "spooling", "wantsign"},
           NEW n \in Names, Good(f, c), f.at \notin Ended \cup {"new"},
           p \in Lists => f.asks.kind = "list", p \in Puts => f.asks.kind = "put"
    PROVE  LET g == NamedAs(f, p, n)
           IN  /\ g \in Futures /\ Good(g, c)
               /\ g.at = p /\ g.outcome = "none" /\ g.name = n
<1> DEFINE g == NamedAs(f, p, n)
<1>1. g \in Futures
  <2>1. p \in Places
    BY DEF Places, Waiting
  <2> QED  BY <2>1 DEF Futures, NamedAs
<1>2. /\ g.at = p /\ g.outcome = f.outcome /\ g.name = n /\ g.asks = f.asks
      /\ g.wrote = f.wrote /\ g.since = f.since /\ g.sizes = f.sizes
  BY DEF Futures, NamedAs
<1> HIDE DEF g
<1>3. Fits(g) /\ g.outcome = "none"
  BY <1>2 DEF Good, Fits, Ended
<1>4. Current(g)
  BY <1>2 DEF Good, Current
<1>5. SizesSeen(g)
  BY <1>2 DEF Good, SizesSeen
<1>6. Aged(g, c)
  BY <1>2 DEF Aged
<1> QED  BY <1>1, <1>2, <1>3, <1>4, <1>5, <1>6 DEF Good, g

\* Who runs a child or holds the lock is known by its place.
LEMMA HeldAndLocked ==
    ASSUME BrokerIInv, NEW r \in Requests
    PROVE  /\ r \in held <=> req[r].at \in Running
           /\ lock = r <=> req[r].at \in Locked
           /\ r # Nobody /\ req[r] \in Futures /\ Good(req[r], Caller[r])
           /\ NamesOk /\ ListingOk
           /\ phase = "down" => ~Active(r)
<1>1. Parts
  BY IInvParts
<1>2. r # Nobody
  BY BrokerAssumption DEF Nobody
<1>3. r \in held <=> req[r].at \in Running
  BY <1>1 DEF Parts
<1>4. lock = r <=> req[r].at \in Locked
  <2>1. {q \in Requests : req[q].at \in Locked} = IF lock = Nobody THEN {} ELSE {lock}
    BY <1>1 DEF Parts
  <2>2. req[r].at \in Locked <=> r \in IF lock = Nobody THEN {} ELSE {lock}
    BY <2>1
  <2> QED  BY <1>2, <2>2
<1> QED  BY <1>1, <1>2, <1>3, <1>4 DEF Parts

-----------------------------------------------------------------------------
(* The steps of a request.                                                 *)

\* Each step replaces one future.
LEMMA ReqShapes ==
    ASSUME req \in [Requests -> Futures], NEW r \in Requests
    PROVE  /\ \A p : At(r, p) = [req EXCEPT ![r] = [req[r] EXCEPT !.at = p]]
           /\ \A o : Answer(r, o)
                 = [req EXCEPT ![r] = [[New EXCEPT !.at = "answered"] EXCEPT !.outcome = o]]
           /\ Gone(r) = [req EXCEPT ![r] = [[New EXCEPT !.at = "gone"] EXCEPT !.outcome = "none"]]
           /\ \A n : [At(r, "named") EXCEPT ![r].name = n]
                 = [req EXCEPT ![r] = [req[r] EXCEPT !.at = "named", !.name = n]]
           /\ \A p, n : [At(r, p) EXCEPT ![r].name = n, ![r].age = 0]
                 = [req EXCEPT ![r] = [req[r] EXCEPT !.at = p, !.name = n, !.age = 0]]
           /\ [At(r, "listed") EXCEPT ![r].seen = store]
                 = [req EXCEPT ![r] = [req[r] EXCEPT !.at = "listed", !.seen = store]]
<1>1. \A p : At(r, p) = [req EXCEPT ![r] = [req[r] EXCEPT !.at = p]]
  BY DEF At
<1>2. \A o : Answer(r, o)
          = [req EXCEPT ![r] = [[New EXCEPT !.at = "answered"] EXCEPT !.outcome = o]]
  BY DEF Answer
<1>3. Gone(r) = [req EXCEPT ![r] = [[New EXCEPT !.at = "gone"] EXCEPT !.outcome = "none"]]
  <2>1. [New EXCEPT !.at = "gone"] = [[New EXCEPT !.at = "gone"] EXCEPT !.outcome = "none"]
    <3>1. \A f \in Futures : f.outcome = "none" =>
              [f EXCEPT !.at = "gone"] = [[f EXCEPT !.at = "gone"] EXCEPT !.outcome = "none"]
      BY DEF Futures
    <3>2. New.outcome = "none"
      BY DEF New
    <3> QED  BY <3>1, <3>2, NewIsAFuture
  <2> QED  BY <2>1 DEF Gone
<1>4. \A n : [At(r, "named") EXCEPT ![r].name = n]
          = [req EXCEPT ![r] = [req[r] EXCEPT !.at = "named", !.name = n]]
  BY DEF At
<1>5. \A p, n : [At(r, p) EXCEPT ![r].name = n, ![r].age = 0]
          = [req EXCEPT ![r] = [req[r] EXCEPT !.at = p, !.name = n, !.age = 0]]
  BY DEF At
<1>6. [At(r, "listed") EXCEPT ![r].seen = store]
          = [req EXCEPT ![r] = [req[r] EXCEPT !.at = "listed", !.seen = store]]
  BY DEF At
<1> QED  BY <1>1, <1>2, <1>3, <1>4, <1>5, <1>6, Zenon

\* A step that leaves the names as they are.
LEMMA NamesStay ==
    ASSUME NamesOk, UNCHANGED <<names, identity>> PROVE NamesOk'
BY DEF NamesOk, NamesAge, Cached

\* The same of the listing.
LEMMA ListingStays ==
    ASSUME ListingOk, UNCHANGED <<listing, acked>> PROVE ListingOk'
BY DEF ListingOk, ListingIsCurrent

\* A caller asks.
LEMMA AskKeeps ==
    ASSUME BrokerIInv, NEW r \in Requests, NEW what \in scene.asks[r], Ask(r, what)
    PROVE  BrokerIInv' /\ Truthful
<1>1. Parts
  BY IInvParts
<1>2. /\ scene \in Scenes /\ store \in Objects /\ acked \in Acks /\ req \in [Requests -> Futures]
     
  BY <1>1 DEF Parts
<1>3. /\ r \notin held /\ lock # r /\ r # Nobody /\ NamesOk /\ ListingOk
      /\ req[r] \in Futures /\ Good(req[r], Caller[r]) /\ req[r].at = "new" /\ phase = "serving"
  BY HeldAndLocked, PlacesApart DEF Ask
<1>4. /\ what.kind \in {"put", "list", "read"} /\ what.key \in Keys /\ what \in Asked
      /\ what.kind = "put" => what.version \in Versions
  BY <1>2, BrokerAssumption DEF Asked
<1> DEFINE since == IF what.kind = "list" THEN acked ELSE <<>>
           sizes == IF what.kind = "put" THEN {Size(store[what.key])} ELSE {}
           g == [req[r] EXCEPT !.at = "resolving", !.asks = what, !.since = since,
                               !.sizes = sizes]
<1>5. since \in {<<>>} \cup Acks /\ sizes \in SUBSET (Nat \cup {-1})
  <2>1. Size(store[what.key]) \in Nat \cup {-1}
    BY <1>2, <1>4, BrokerAssumption DEF Objects, Size
  <2> QED  BY <1>2, <2>1
<1>6. req' = [req EXCEPT ![r] = g]
  BY <1>2 DEF Ask
<1>7. /\ g.at = "resolving" /\ g.asks = what /\ g.since = since /\ g.sizes = sizes
      /\ g.outcome = req[r].outcome /\ g.name = req[r].name /\ g.age = req[r].age
  BY <1>3 DEF Futures
<1>8. g \in Futures
  <2>1. "resolving" \in Places
    BY DEF Places
  <2> HIDE DEF since, sizes
  <2> QED  BY <1>3, <1>4, <1>5, <2>1 DEF Futures
<1> HIDE DEF g
<1>9. Good(g, Caller[r])
  <2>1. Fits(g)
    BY <1>3, <1>4, <1>7 DEF Good, Fits, Ended, Lists, Puts
  <2>2. Current(g)
    <3>1. \A k \in Keys : acked[k] \in Nat
      BY <1>2 DEF Acks
    <3> QED  BY <1>2, <1>7, <3>1 DEF Current
  <2>3. SizesSeen(g)
    BY <1>7 DEF SizesSeen
  <2>4. Aged(g, Caller[r])
    BY <1>7 DEF Aged
  <2> QED  BY <2>1, <2>2, <2>3, <2>4 DEF Good
<1>10. g.at \notin Running /\ g.at \notin Locked /\ held \ {r} = held
  BY <1>3, <1>7, PlacesApart
<1>11. NamesOk' /\ ListingOk'
  BY <1>3, NamesStay, ListingStays DEF Ask, world
<1>12. BrokerIInv' /\ \A q \in Requests \ {r} : Told(q)
  BY <1>2, <1>3, <1>6, <1>8, <1>9, <1>10, <1>11, QuietKeeps DEF Ask, world
<1>13. Told(r)
  <2>1. req'[r] = g
    BY <1>2, <1>6
  <2>2. g.outcome = "none"
    BY <1>3, <1>7 DEF Good, Fits, Ended
  <2> QED  BY <1>3, <2>1, <2>2 DEF Told
<1> QED  BY <1>12, <1>13 DEF Truthful

\* A request ends with an outcome that is true.
LEMMA EndKeeps ==
    ASSUME BrokerIInv, NEW r \in Requests, Active(r), NEW p \in Ended, NEW o \in Outcomes,
           req' = [req EXCEPT ![r] = [[New EXCEPT !.at = p] EXCEPT !.outcome = o]],
           held' = held \ {r}, lock' = IF lock = r THEN Nobody ELSE lock,
           NamesOk', ListingOk',
           UNCHANGED <<store, acked, identity, ticks, stops, scene, phase>>,
           o = "listed" => \A k \in Keys : listing'.objects[k].write >= req[r].since[k],
           o \in {"uploaded", "unchanged"} => SizeOf[req[r].asks.version] \in req[r].sizes
    PROVE  BrokerIInv' /\ Truthful
<1> DEFINE g == [[New EXCEPT !.at = p] EXCEPT !.outcome = o]
<1>1. /\ g \in Futures /\ Good(g, Caller[r])
      /\ g.at = p /\ g.outcome = o /\ g.name = Nobody
  BY EndedIsGood
<1>2. req' = [req EXCEPT ![r] = g] /\ req'[r] = g
  <2>1. req \in [Requests -> Futures]
    BY IInvParts DEF Parts
  <2> QED  BY <2>1
<1> HIDE DEF g
<1>3. g.at \notin Running /\ g.at \notin Locked
  BY <1>1, PlacesApart
<1>4. phase # "down"
  BY HeldAndLocked
<1>5. BrokerIInv' /\ \A q \in Requests \ {r} : Told(q)
  BY <1>1, <1>2, <1>3, <1>4, QuietKeeps
<1>6. Told(r)
  BY <1>1, <1>2 DEF Told
<1> QED  BY <1>5, <1>6 DEF Truthful

\* A request moves on with what it knows.
LEMMA MoveKeeps ==
    ASSUME BrokerIInv, NEW r \in Requests, Active(r), req[r].at # "named",
           NEW p \in Places, req' = At(r, p), p \notin Ended \cup {"new", "named", "listed"},
           p \in Lists => req[r].asks.kind = "list", p \in Puts => req[r].asks.kind = "put",
           p \in {"landed", "clearing"} => req[r].at \in {"landed", "clearing"},
           p \in {"resolving", "asking"} => req[r].name = Nobody /\ req[r].age = 0,
           held' = IF p \in Running THEN held \cup {r} ELSE held \ {r},
           (req[r].at \notin Running /\ p \in Running) => Cardinality(held) < MaxAws,
           lock' = IF p \in Locked THEN r ELSE IF lock = r THEN Nobody ELSE lock,
           p \in Locked => lock \in {Nobody, r},
           NamesOk', ListingOk',
           UNCHANGED <<store, acked, identity, ticks, stops, scene, phase>>
    PROVE  BrokerIInv' /\ Truthful
<1> DEFINE g == [req[r] EXCEPT !.at = p]
<1>1. req \in [Requests -> Futures]
  BY IInvParts DEF Parts
<1>2. Good(req[r], Caller[r]) /\ req[r] \in Futures /\ phase # "down"
  BY HeldAndLocked
<1>3. /\ g \in Futures /\ Good(g, Caller[r])
      /\ g.at = p /\ g.outcome = "none" /\ g.name = req[r].name
  BY <1>2, MovedIsGood DEF Active
<1>4. req' = [req EXCEPT ![r] = g] /\ req'[r] = g
  BY <1>1 DEF At
<1> HIDE DEF g
<1>5. BrokerIInv' /\ \A q \in Requests \ {r} : Told(q)
  BY <1>2, <1>3, <1>4, QuietKeeps
<1>6. Told(r)
  <2>1. req[r].at = "resolving" => g.name = Nobody
    BY <1>2, <1>3 DEF Good, Fits
  <2> QED  BY <1>3, <1>4, <2>1 DEF Told
<1> QED  BY <1>5, <1>6 DEF Truthful

\* What is known of a request where it stands.
LEMMA PlaceKnown ==
    ASSUME BrokerIInv, NEW r \in Requests
    PROVE  /\ req[r].at \in Puts => req[r].asks.kind = "put" /\ req[r].asks.key \in Keys
                                    /\ req[r].asks.version \in Versions
           /\ req[r].at \in Lists => req[r].asks.kind = "list"
           /\ req[r].at \in Puts \cup Lists \cup Lookup \cup Running \cup Waiting
                               \cup {"resolving"} => Active(r)
           /\ req[r].at \in {"resolving", "asking"} => req[r].name = Nobody /\ req[r].age = 0
          
<1>1. Fits(req[r])
  BY HeldAndLocked, IInvParts DEF Good, Parts
<1>2. req[r].at \in Puts \cup Lists \cup Lookup \cup Running \cup Waiting
                         \cup {"resolving"} => Active(r)
  BY DEF Active, Ended, Puts, Lists, Lookup, Running, Waiting
<1>3. Puts \cap (Ended \cup {"new"}) = {}
  BY DEF Puts, Ended
<1> QED  BY <1>1, <1>2, <1>3 DEF Fits

\* A request waits for a permit or gives it back.
LEMMA PermitKeeps ==
    ASSUME BrokerIInv, NEW r \in Requests, Permit(r)
    PROVE  BrokerIInv' /\ Truthful
<1> DEFINE p == CASE req[r].at = "wantsize" -> "sizing"
                  [] req[r].at = "wantput"  -> "putting"
                  [] req[r].at = "wantlist" -> "listing"
                  [] req[r].at = "wantsign" -> "signing"
<1>1. /\ req[r].at \in Waiting /\ Cardinality(held) < MaxAws
      /\ held' = held \cup {r} /\ req' = At(r, p)
      /\ UNCHANGED <<store, phase, lock, listing, names, acked, stops>>
      /\ UNCHANGED <<identity, ticks, scene>>
  BY DEF Permit, world
<1>2. /\ p \in Places /\ p \in Running /\ p \notin Ended \cup {"new", "named", "listed"}
      /\ p \notin {"landed", "clearing"} /\ p \notin {"resolving", "asking"}
      /\ p \in Lists => req[r].at \in Lists
      /\ p \in Puts => req[r].at \in Puts
      /\ p \in Locked <=> req[r].at \in Locked
      /\ req[r].at # "named"
  BY <1>1 DEF Waiting, Running, Places, Ended, Lists, Puts, Locked
<1> HIDE DEF p
<1>3. Active(r)
  BY <1>1, PlaceKnown
<1>4. NamesOk' /\ ListingOk'
  BY <1>1, HeldAndLocked, NamesStay, ListingStays
<1>5. /\ p \in Lists => req[r].asks.kind = "list"
      /\ p \in Puts => req[r].asks.kind = "put"
  BY <1>2, PlaceKnown
<1>6. lock = r <=> p \in Locked
  BY <1>2, HeldAndLocked
<1> QED  BY <1>1, <1>2, <1>3, <1>4, <1>5, <1>6, MoveKeeps

\* A request is refused, fails, is redirected or dropped: nothing is claimed.
LEMMA FailedKeeps ==
    ASSUME BrokerIInv, NEW r \in Requests, Active(r),
           \/ \E o \in {"refused", "failed", "redirected"} : req' = Answer(r, o)
           \/ req' = Gone(r),
           held' = held \ {r}, lock' = IF lock = r THEN Nobody ELSE lock,
           NamesOk', ListingOk',
           UNCHANGED <<store, acked, identity, ticks, stops, scene, phase>>
    PROVE  BrokerIInv' /\ Truthful
<1>1. req \in [Requests -> Futures]
  BY IInvParts DEF Parts
<1>2. "answered" \in Ended /\ "gone" \in Ended
      /\ {"none", "refused", "failed", "redirected"} \subseteq Outcomes
  BY DEF Ended, Outcomes
<1>3. PICK p \in Ended, o \in {"none", "refused", "failed", "redirected"} :
         req' = [req EXCEPT ![r] = [[New EXCEPT !.at = p] EXCEPT !.outcome = o]]
  <2>1. CASE req' = Gone(r)
    BY <1>1, <1>2, <2>1, ReqShapes, Zenon
  <2>2. ASSUME NEW o \in {"refused", "failed", "redirected"}, req' = Answer(r, o)
        PROVE  req' = [req EXCEPT ![r] = [[New EXCEPT !.at = "answered"] EXCEPT !.outcome = o]]
    BY <2>2 DEF Answer
  <2> QED  BY <1>2, <2>1, <2>2
<1>4. o \in Outcomes /\ o # "listed" /\ o \notin {"uploaded", "unchanged"}
  BY <1>2
<1> QED  BY <1>3, <1>4, EndKeeps, Zenon
\* The body of a put has been read, or not.
LEMMA SpoolKeeps ==
    ASSUME BrokerIInv, NEW r \in Requests, Spool(r)
    PROVE  BrokerIInv' /\ Truthful
<1>1. /\ req[r].at = "spooling"
      /\ UNCHANGED <<store, phase, held, lock, listing, names, acked, stops>>
      /\ UNCHANGED <<identity, ticks, scene>>
  BY DEF Spool, world
<1>2. /\ Active(r) /\ req[r].asks.kind = "put"
      /\ r \notin held /\ lock # r
  BY <1>1, PlaceKnown, HeldAndLocked DEF Puts, Running, Locked
<1>3. NamesOk' /\ ListingOk'
  BY <1>1, HeldAndLocked, NamesStay, ListingStays
<1>4. CASE req' = At(r, "wantsize")
  <2>1. /\ "wantsize" \in Places \ (Ended \cup {"new", "named", "listed", "landed", "clearing"})
        /\ "wantsize" \notin Lists \cup Running \cup Locked \cup {"resolving", "asking"}
    BY DEF Places, Ended, Waiting, Lists, Running, Locked
  <2>2. held' = held \ {r} /\ lock' = IF lock = r THEN Nobody ELSE lock
    BY <1>1, <1>2
  <2> QED  BY <1>1, <1>2, <1>3, <1>4, <2>1, <2>2, MoveKeeps
<1>5. CASE req' = Answer(r, "failed")
  BY <1>1, <1>2, <1>3, <1>5, FailedKeeps
<1> QED  BY <1>4, <1>5 DEF Spool

\* A put that finds an object of its size, or another, or nothing.
LEMMA SizeKnownKeeps ==
    ASSUME BrokerIInv, NEW r \in Requests, SizeKnown(r)
    PROVE  BrokerIInv' /\ Truthful
<1>1. /\ req[r].at = "sizing" /\ held' = held \ {r}
      /\ UNCHANGED <<store, phase, lock, listing, names, acked, stops>>
      /\ UNCHANGED <<identity, ticks, scene>>
  BY DEF SizeKnown, Returns, world
<1>2. /\ Active(r) /\ req[r].asks.kind = "put" /\ req[r].asks.version \in Versions
      /\ lock # r
  BY <1>1, PlaceKnown, HeldAndLocked DEF Puts, Locked
<1>3. NamesOk' /\ ListingOk'
  BY <1>1, HeldAndLocked, NamesStay, ListingStays
<1>4. lock' = IF lock = r THEN Nobody ELSE lock
  BY <1>1, <1>2
<1>5. CASE /\ Size(Stored(req[r].asks.key)) = SizeOf[req[r].asks.version]
           /\ req' = Answer(r, "unchanged")
  <2>1. SizeOf[req[r].asks.version] \in req[r].sizes
    <3>1. SizesSeen(req[r])
      BY HeldAndLocked DEF Good
    <3> QED  BY <1>2, <1>5, <3>1 DEF Stored, SizesSeen, Active
  <2>2. "answered" \in Ended /\ "unchanged" \in Outcomes /\ "unchanged" # "listed"
    BY DEF Ended, Outcomes
  <2>3. req' = [req EXCEPT ![r] = [[New EXCEPT !.at = "answered"] EXCEPT !.outcome = "unchanged"]]
    BY <1>5 DEF Answer
  <2> QED  BY <1>1, <1>2, <1>3, <1>4, <1>5, <2>1, <2>2, <2>3, EndKeeps
<1>6. CASE req' = At(r, "wantput")
  <2>1. /\ "wantput" \in Places \ (Ended \cup {"new", "named", "listed", "landed", "clearing"})
        /\ "wantput" \notin Lists \cup Running \cup Locked \cup {"resolving", "asking"}
    BY DEF Places, Ended, Waiting, Lists, Running, Locked
  <2> QED  BY <1>1, <1>2, <1>3, <1>4, <1>6, <2>1, MoveKeeps
<1>7. CASE req' = Answer(r, "failed")
  BY <1>1, <1>2, <1>3, <1>4, <1>7, FailedKeeps
<1> QED  BY <1>5, <1>6, <1>7 DEF SizeKnown

\* The child that puts has ended.
LEMMA PutEndsKeeps ==
    ASSUME BrokerIInv, NEW r \in Requests, PutEnds(r)
    PROVE  BrokerIInv' /\ Truthful
<1>1. /\ req[r].at \in {"putting", "landed"} /\ held' = held \ {r}
      /\ UNCHANGED <<store, phase, lock, listing, names, acked, stops>>
      /\ UNCHANGED <<identity, ticks, scene>>
  BY DEF PutEnds, Returns, world
<1>2. /\ Active(r) /\ req[r].asks.kind = "put" /\ lock # r
  BY <1>1, PlaceKnown, HeldAndLocked DEF Puts, Locked
<1>3. NamesOk' /\ ListingOk'
  BY <1>1, HeldAndLocked, NamesStay, ListingStays
<1>4. lock' = IF lock = r THEN Nobody ELSE lock
  BY <1>1, <1>2
<1>5. CASE req[r].at = "landed" /\ req' = At(r, "clearing")
  <2>1. /\ "clearing" \in Places \ (Ended \cup {"new", "named", "listed"})
        /\ "clearing" \notin Lists \cup Running \cup Locked \cup {"resolving", "asking"}
    BY DEF Places, Ended, Lists, Running, Locked
  <2> QED  BY <1>1, <1>2, <1>3, <1>4, <1>5, <2>1, MoveKeeps
<1>6. CASE req' = Answer(r, "failed")
  BY <1>1, <1>2, <1>3, <1>4, <1>6, FailedKeeps
<1> QED  BY <1>5, <1>6 DEF PutEnds

\* A list that is answered from what is kept is no older than its request.
LEMMA ListCachedKeeps ==
    ASSUME BrokerIInv, NEW r \in Requests, ListCached(r)
    PROVE  BrokerIInv' /\ Truthful
<1>1. /\ req[r].at = "wantlock" /\ lock = Nobody /\ listing.known /\ req' = Answer(r, "listed")
      /\ UNCHANGED <<store, phase, held, lock, listing, names, acked, stops>>
      /\ UNCHANGED <<identity, ticks, scene>>
  BY DEF ListCached, world
<1>2. /\ Active(r) /\ req[r].asks.kind = "list"
      /\ lock # r /\ r \notin held
  BY <1>1, PlaceKnown, HeldAndLocked DEF Lists, Locked, Running
<1>3. NamesOk' /\ ListingOk'
  BY <1>1, HeldAndLocked, NamesStay, ListingStays
<1>4. \A k \in Keys : listing'.objects[k].write >= req[r].since[k]
  <2>1. listing.objects \in Objects /\ \A k \in Keys : listing.objects[k].write >= acked[k]
    BY <1>1, HeldAndLocked DEF ListingOk, ListingIsCurrent
  <2>2. req[r].since \in Acks /\ \A k \in Keys : req[r].since[k] <= acked[k]
    <3>1. Current(req[r])
      BY HeldAndLocked DEF Good
    <3> QED  BY <1>2, <3>1 DEF Current, Active
  <2>3. acked \in Acks
    BY IInvParts DEF Parts
  <2>4. ASSUME NEW k \in Keys PROVE listing.objects[k].write >= req[r].since[k]
    <3>1. listing.objects[k].write \in Nat /\ req[r].since[k] \in Nat /\ acked[k] \in Nat
      BY <2>1, <2>2, <2>3 DEF Objects, Acks
    <3> QED  BY <2>1, <2>2, <3>1
  <2> QED  BY <1>1, <2>4
<1>5. "answered" \in Ended /\ "listed" \in Outcomes /\ "listed" \notin {"uploaded", "unchanged"}
  BY DEF Ended, Outcomes
<1>6. req' = [req EXCEPT ![r] = [[New EXCEPT !.at = "answered"] EXCEPT !.outcome = "listed"]]
  BY <1>1 DEF Answer
<1>7. held' = held \ {r} /\ lock' = IF lock = r THEN Nobody ELSE lock
  BY <1>1, <1>2
<1> QED  BY <1>1, <1>2, <1>3, <1>4, <1>5, <1>6, <1>7, EndKeeps

\* A list that finds nothing kept takes the lock.
LEMMA ListMissKeeps ==
    ASSUME BrokerIInv, NEW r \in Requests, ListMiss(r)
    PROVE  BrokerIInv' /\ Truthful
<1>1. /\ req[r].at = "wantlock" /\ lock = Nobody /\ lock' = r /\ req' = At(r, "wantlist")
      /\ UNCHANGED <<store, phase, held, listing, names, acked, stops>>
      /\ UNCHANGED <<identity, ticks, scene>>
  BY DEF ListMiss, world
<1>2. /\ Active(r) /\ req[r].asks.kind = "list" /\ r \notin held
  BY <1>1, PlaceKnown, HeldAndLocked DEF Lists, Running
<1>3. NamesOk' /\ ListingOk'
  BY <1>1, HeldAndLocked, NamesStay, ListingStays
<1>4. /\ "wantlist" \in Places \ (Ended \cup {"new", "named", "listed", "landed", "clearing"})
      /\ "wantlist" \notin Puts \cup Running \cup {"resolving", "asking"}
      /\ "wantlist" \in Locked
  BY DEF Places, Ended, Waiting, Puts, Running, Locked
<1>5. held' = held \ {r}
  BY <1>1, <1>2
<1> QED  BY <1>1, <1>2, <1>3, <1>4, <1>5, MoveKeeps

\* The store is read while the lock is held, so after every acknowledged put.
LEMMA ListedKeeps ==
    ASSUME BrokerIInv, NEW r \in Requests, Listed(r)
    PROVE  BrokerIInv' /\ Truthful
<1> DEFINE g == [req[r] EXCEPT !.at = "listed", !.seen = store]
<1>1. /\ req[r].at = "listing" /\ req' = [At(r, "listed") EXCEPT ![r].seen = store]
      /\ UNCHANGED <<store, phase, held, lock, listing, names, acked, stops>>
      /\ UNCHANGED <<identity, ticks, scene>>
  BY DEF Listed, world
<1>2. /\ req \in [Requests -> Futures] /\ store \in Objects /\ acked \in Acks
      /\ \A k \in Keys : acked[k] <= store[k].write
  BY IInvParts DEF Parts
<1>3. /\ Active(r) /\ req[r].asks.kind = "list"
      /\ lock = r /\ r \in held /\ req[r] \in Futures /\ Good(req[r], Caller[r])
      /\ phase # "down" /\ NamesOk' /\ ListingOk'
  BY <1>1, PlaceKnown, HeldAndLocked, NamesStay, ListingStays DEF Lists, Locked, Running
<1>4. req' = [req EXCEPT ![r] = g] /\ req'[r] = g
  BY <1>1, <1>2 DEF At
<1>5. /\ g.at = "listed" /\ g.seen = store /\ g.asks = req[r].asks /\ g.since = req[r].since
      /\ g.outcome = req[r].outcome /\ g.name = req[r].name
  BY <1>3 DEF Futures
<1>6. g \in Futures
  <2>1. "listed" \in Places
    BY DEF Places, Running
  <2> QED  BY <1>2, <1>3, <2>1 DEF Futures
<1> HIDE DEF g
<1>7. Good(g, Caller[r])
  <2>1. Fits(g)
    BY <1>1, <1>3, <1>5 DEF Good, Fits, Ended, Lists, Puts
  <2>2. Current(g)
    <3>1. req[r].since \in Acks /\ \A k \in Keys : req[r].since[k] <= acked[k]
      BY <1>1, <1>3 DEF Good, Current, Ended
    <3>2. \A k \in Keys : store[k].write >= acked[k]
      BY <1>2 DEF Objects, Acks
    <3> QED  BY <1>2, <1>5, <3>1, <3>2 DEF Current
  <2>3. SizesSeen(g)
    BY <1>3, <1>5 DEF SizesSeen
  <2>4. Aged(g, Caller[r])
    BY <1>5 DEF Aged
  <2> QED  BY <2>1, <2>2, <2>3, <2>4 DEF Good
<1>8. g.at \in Running /\ g.at \in Locked /\ req[r].at \in Running /\ held' = held \cup {r}
  BY <1>1, <1>3, <1>5 DEF Running, Locked
<1>9. BrokerIInv' /\ \A q \in Requests \ {r} : Told(q)
  BY <1>1, <1>3, <1>4, <1>6, <1>7, <1>8, QuietKeeps
<1>10. Told(r)
  <2>1. g.outcome = "none"
    BY <1>5, <1>7 DEF Good, Fits, Ended
  <2> QED  BY <1>1, <1>4, <2>1 DEF Told
<1> QED  BY <1>9, <1>10 DEF Truthful

\* What was read is kept, and told.
LEMMA ListEndsKeeps ==
    ASSUME BrokerIInv, NEW r \in Requests, ListEnds(r)
    PROVE  BrokerIInv' /\ Truthful
<1>1. /\ req[r].at \in {"listing", "listed"} /\ lock' = Nobody /\ held' = held \ {r}
      /\ UNCHANGED <<store, phase, names, acked, stops>>
      /\ UNCHANGED <<identity, ticks, scene>>
  BY DEF ListEnds, Returns, world
<1>2. /\ Active(r) /\ req[r].asks.kind = "list" /\ lock = r
      /\ NamesOk' /\ ListingOk /\ Good(req[r], Caller[r])
  BY <1>1, PlaceKnown, HeldAndLocked, NamesStay DEF Lists, Locked
<1>3. lock' = IF lock = r THEN Nobody ELSE lock
  BY <1>1, <1>2
<1>4. CASE /\ req[r].at = "listed" /\ req' = Answer(r, "listed")
           /\ listing' = [known |-> TRUE, fresh |-> TRUE, objects |-> req[r].seen]
  <2>1. /\ req[r].seen \in Objects /\ \A k \in Keys : req[r].seen[k].write >= acked[k]
        /\ req[r].since \in Acks /\ \A k \in Keys : req[r].since[k] <= acked[k]
    BY <1>2, <1>4 DEF Good, Current, Active
  <2>2. acked \in Acks
    BY IInvParts DEF Parts
  <2>3. ListingOk'
    BY <1>1, <1>4, <2>1 DEF ListingOk, ListingIsCurrent
  <2>4. ASSUME NEW k \in Keys PROVE listing'.objects[k].write >= req[r].since[k]
    <3>1. req[r].seen[k].write \in Nat /\ req[r].since[k] \in Nat /\ acked[k] \in Nat
      BY <2>1, <2>2 DEF Objects, Acks
    <3> QED  BY <1>4, <2>1, <3>1
  <2>5. "answered" \in Ended /\ "listed" \in Outcomes /\ "listed" \notin {"uploaded", "unchanged"}
    BY DEF Ended, Outcomes
  <2>6. req' = [req EXCEPT ![r] = [[New EXCEPT !.at = "answered"] EXCEPT !.outcome = "listed"]]
    BY <1>4 DEF Answer
  <2> QED  BY <1>1, <1>2, <1>3, <2>3, <2>4, <2>5, <2>6, EndKeeps
<1>5. CASE req' = Answer(r, "failed") /\ UNCHANGED listing
  <2>1. ListingOk'
    BY <1>1, <1>2, <1>5, ListingStays
  <2> QED  BY <1>1, <1>2, <1>3, <1>5, <2>1, FailedKeeps
<1> QED  BY <1>4, <1>5 DEF ListEnds

\* A presigned URL has been made, or not.
LEMMA SignedKeeps ==
    ASSUME BrokerIInv, NEW r \in Requests, Signed(r)
    PROVE  BrokerIInv' /\ Truthful
<1>1. /\ req[r].at = "signing" /\ held' = held \ {r}
      /\ \E o \in {"refused", "failed", "redirected"} : req' = Answer(r, o)
      /\ UNCHANGED <<store, phase, lock, listing, names, acked, stops>>
      /\ UNCHANGED <<identity, ticks, scene>>
  BY DEF Signed, Returns, world
<1>2. /\ Active(r) /\ lock # r /\ NamesOk' /\ ListingOk'
  BY <1>1, PlaceKnown, HeldAndLocked, NamesStay, ListingStays DEF Running, Locked
<1>3. lock' = IF lock = r THEN Nobody ELSE lock
  BY <1>1, <1>2
<1> QED  BY <1>1, <1>2, <1>3, FailedKeeps

\* A future is dropped where it waits, with its permit and its lock.
LEMMA DroppedKeeps ==
    ASSUME BrokerIInv, NEW r \in Requests, Dropped(r)
    PROVE  BrokerIInv' /\ Truthful
<1>1. /\ Active(r) /\ req' = Gone(r) /\ held' = held \ {r}
      /\ lock' = IF lock = r THEN Nobody ELSE lock
      /\ UNCHANGED <<store, phase, listing, names, acked, stops>>
      /\ UNCHANGED <<identity, ticks, scene>>
  BY DEF Dropped, world
<1>2. NamesOk' /\ ListingOk'
  BY <1>1, PlaceKnown, HeldAndLocked, NamesStay, ListingStays
<1> QED  BY <1>1, <1>2, FailedKeeps

-----------------------------------------------------------------------------
(* The names.                                                              *)

\* Fewer verdicts are cached than before.
LEMMA FewerCached ==
    ASSUME IsFiniteSet(Pods), NEW n, NEW m, Cached(m) \subseteq Cached(n)
    PROVE  /\ IsFiniteSet(Cached(n)) /\ Cardinality(Cached(n)) \in Nat
           /\ IsFiniteSet(Cached(m)) /\ Cardinality(Cached(m)) \in Nat
           /\ Cardinality(Cached(m)) <= Cardinality(Cached(n))
<1>1. Cached(n) \subseteq Pods
  BY DEF Cached
<1>2. IsFiniteSet(Cached(n))
  BY <1>1, FS_Subset
<1>3. IsFiniteSet(Cached(m)) /\ Cardinality(Cached(m)) <= Cardinality(Cached(n))
  BY <1>2, FS_Subset
<1> QED  BY <1>2, <1>3, FS_CardinalityType

\* Verdicts that are dropped leave the others as they are.
LEMMA NamesShrink ==
    ASSUME NamesOk, NEW D,
           names' = [c \in Callers |-> IF c \in D THEN NoVerdict ELSE names[c]],
           UNCHANGED identity
    PROVE  NamesOk'
<1>1. NoVerdict \in [name : Names, age : Nat, late : Nat] /\ NoVerdict.name = Nobody
  BY DEF NoVerdict, Names
<1>2. names' \in [Callers -> [name : Names, age : Nat, late : Nat]]
  BY <1>1 DEF NamesOk
<1>3. \A c \in Callers : names'[c] = names[c] \/ names'[c].name = Nobody
  BY <1>1
<1>4. NamesAge'
  BY <1>3 DEF NamesOk, NamesAge
<1>5. Cardinality(Cached(names')) <= MaxCached
  <2>1. Pods \subseteq Callers /\ IsFiniteSet(Pods) /\ MaxCached \in Nat
    BY BrokerAssumption
  <2>2. Cached(names') \subseteq Cached(names)
    BY <1>3, <2>1 DEF Cached
  <2>3. /\ Cardinality(Cached(names)) \in Nat /\ Cardinality(Cached(names')) \in Nat
        /\ Cardinality(Cached(names')) <= Cardinality(Cached(names))
    BY <2>1, <2>2, FewerCached
  <2> QED  BY <2>1, <2>3 DEF NamesOk
<1>6. Cardinality(Cached(names))' <= MaxCached
  BY <1>5 DEF Cached
<1> QED  BY <1>2, <1>4, <1>6 DEF NamesOk

\* A verdict is kept if there is room, and names who is there or was lately.
LEMMA NamesGrow ==
    ASSUME NamesOk, NEW c \in Callers, NEW n \in Names, NEW l \in Nat,
           n = identity[c].name \/ identity[c].since <= l, c \in Pods => l <= 1,
           names' = Remember(c, n, l), UNCHANGED identity
    PROVE  NamesOk'
<1> DEFINE D == IF c \in Pods /\ Full(names) THEN {d \in Pods : ~ Live(d)} ELSE {}
           K == [d \in Callers |-> IF d \in D THEN NoVerdict ELSE names[d]]
           v == [name |-> n, age |-> 0, late |-> l]
<1>1. names \in [Callers -> [name : Names, age : Nat, late : Nat]]
  BY DEF NamesOk
<1>2. Verdicts(c) = K
  <2>1. CASE c \in Pods /\ Full(names)
    <3>1. \A d \in Callers : d \in Pods /\ ~ Live(d) <=> d \in D
      BY <2>1
    <3>2. Kept = [d \in Callers |-> IF d \in Pods /\ ~ Live(d) THEN NoVerdict ELSE names[d]]
      BY <2>1 DEF Kept
    <3>3. Verdicts(c) = Kept
      BY <2>1 DEF Verdicts
    <3> HIDE DEF D
    <3> QED  BY <3>1, <3>2, <3>3
  <2>2. CASE ~ (c \in Pods /\ Full(names))
    <3>1. Verdicts(c) = names /\ D = {}
      BY <2>2 DEF Kept, Verdicts
    <3> HIDE DEF D
    <3> QED  BY <1>1, <3>1
  <2> QED  BY <2>1, <2>2
<1> HIDE DEF D
<1>3. CASE c \in Pods /\ Full(Kept)
  <2>1. names' = K
    BY <1>2, <1>3 DEF Remember, Verdicts
  <2> QED  BY <2>1, NamesShrink
<1>4. CASE ~ (c \in Pods /\ Full(Kept))
  <2>1. names' = [K EXCEPT ![c] = v]
    BY <1>2, <1>4 DEF Remember
  <2>2. NoVerdict \in [name : Names, age : Nat, late : Nat] /\ NoVerdict.name = Nobody
    BY DEF NoVerdict, Names
  <2>3. v \in [name : Names, age : Nat, late : Nat] /\ v.name = n /\ v.age = 0 /\ v.late = l
    OBVIOUS
  <2>4. \A d \in Callers : K[d] = names[d] \/ K[d].name = Nobody
    BY <2>2
  <2>5. K \in [Callers -> [name : Names, age : Nat, late : Nat]]
    BY <1>1, <2>2
  <2> HIDE DEF K, v
  <2>6. names' \in [Callers -> [name : Names, age : Nat, late : Nat]] /\ names'[c] = v
        /\ \A d \in Callers \ {c} : names'[d] = K[d]
    BY <2>1, <2>3, <2>5
  <2>7. NamesAge'
    <3>1. identity[c].since <= l => identity'[c].since <= names'[c].age + names'[c].late
      <4>1. names'[c].age = 0 /\ names'[c].late = l /\ 0 + l = l
        BY <2>3, <2>6
      <4> QED  BY <4>1
    <3>2. names'[c].name = n /\ (c \in Pods => names'[c].late <= 1)
      BY <2>3, <2>6
    <3> QED  BY <2>4, <2>6, <3>1, <3>2 DEF NamesOk, NamesAge
  <2>8. Pods \subseteq Callers /\ IsFiniteSet(Pods) /\ MaxCached \in Nat
    BY BrokerAssumption
  <2>9. Cached(K) \subseteq Cached(names)
    BY <2>4, <2>8 DEF Cached
  <2>10. /\ Cardinality(Cached(names)) \in Nat /\ Cardinality(Cached(K)) \in Nat
         /\ Cardinality(Cached(K)) <= Cardinality(Cached(names)) /\ IsFiniteSet(Cached(K))
    BY <2>8, <2>9, FewerCached
  <2>11. Cardinality(Cached(names')) <= MaxCached
    <3>1. CASE c \notin Pods
      <4>1. Cached(names') \subseteq Cached(K)
        BY <2>6, <2>8, <3>1 DEF Cached
      <4>2. /\ Cardinality(Cached(names')) \in Nat
            /\ Cardinality(Cached(names')) <= Cardinality(Cached(K))
        BY <2>8, <4>1, FewerCached
      <4> QED  BY <2>8, <2>10, <4>2 DEF NamesOk
    <3>2. CASE c \in Pods /\ ~ Full(Kept)
      <4>1. Cardinality(Cached(K)) < MaxCached
        BY <1>2, <2>8, <2>10, <3>2 DEF Full, Verdicts
      <4>2. Cached(names') \subseteq Cached(K) \cup {c}
        BY <2>6, <2>8 DEF Cached
      <4>3. /\ IsFiniteSet(Cached(K) \cup {c})
            /\ Cardinality(Cached(K) \cup {c}) <= Cardinality(Cached(K)) + 1
            /\ Cardinality(Cached(K) \cup {c}) \in Nat
        <5>1. CASE c \in Cached(K)
          <6>1. Cached(K) \cup {c} = Cached(K)
            BY <5>1
          <6> QED  BY <2>10, <6>1
        <5>2. CASE c \notin Cached(K)
          <6>1. /\ IsFiniteSet(Cached(K) \cup {c})
                /\ Cardinality(Cached(K) \cup {c}) = Cardinality(Cached(K)) + 1
            BY <2>10, <5>2, FS_AddElement
          <6> QED  BY <2>10, <6>1
        <5> QED  BY <5>1, <5>2
      <4>4. /\ Cardinality(Cached(names')) <= Cardinality(Cached(K) \cup {c})
            /\ Cardinality(Cached(names')) \in Nat
        BY <4>2, <4>3, FS_Subset, FS_CardinalityType
      <4> QED  BY <2>8, <2>10, <4>1, <4>3, <4>4
    <3> QED  BY <1>4, <3>1, <3>2
  <2>12. Cardinality(Cached(names))' <= MaxCached
    BY <2>11 DEF Cached
  <2> QED  BY <2>6, <2>7, <2>12 DEF NamesOk
<1> QED  BY <1>3, <1>4

\* A request that has a name goes where its kind leads.
LEMMA RouteKeeps ==
    ASSUME BrokerIInv, NEW r \in Requests, NEW n \in Names, Route(r, n),
           req[r].at \in {"resolving", "named"}, NamesOk',
           n = identity[Caller[r]].name \/ identity[Caller[r]].since < TTL + Late(r),
           UNCHANGED <<store, phase, held, lock, listing, acked, stops, identity, ticks, scene>>
    PROVE  BrokerIInv' /\ Truthful
<1>1. /\ Active(r) /\ lock # r /\ r \notin held
      /\ req[r] \in Futures /\ Good(req[r], Caller[r]) /\ phase # "down" /\ ListingOk
      /\ req \in [Requests -> Futures]
  BY PlaceKnown, HeldAndLocked, IInvParts DEF Lookup, Running, Locked, Parts
<1>2. ListingOk'
  BY <1>1, ListingStays DEF Route
<1>3. lock' = (IF lock = r THEN Nobody ELSE lock) /\ held' = held \ {r}
  BY <1>1
<1>4. req[r].asks.kind \in {"put", "list", "read"}
  BY <1>1 DEF Good, Fits, Active
<1>5. CASE req' = Answer(r, "refused")
  BY <1>1, <1>2, <1>3, <1>5, FailedKeeps
<1>6. ASSUME NEW p \in {"wantlock", "spooling", "wantsign"},
             req' = [At(r, p) EXCEPT ![r].name = n, ![r].age = 0],
             p \in Lists => req[r].asks.kind = "list", p \in Puts => req[r].asks.kind = "put"
      PROVE  BrokerIInv' /\ Truthful
  <2> DEFINE g == NamedAs(req[r], p, n)
  <2>1. /\ g \in Futures /\ Good(g, Caller[r])
        /\ g.at = p /\ g.outcome = "none" /\ g.name = n
    <3>1. req[r].at \notin Ended \cup {"new"}
      BY <1>1 DEF Active
    <3>2. req[r] \in Futures /\ Good(req[r], Caller[r])
      BY <1>1
    <3>3. /\ p \in Lists => req[r].asks.kind = "list"
          /\ p \in Puts => req[r].asks.kind = "put"
      BY <1>6
    <3> QED  BY <3>1, <3>2, <3>3, NamedIsGood
  <2>2. req' = [req EXCEPT ![r] = g] /\ req'[r] = g
    BY <1>1, <1>6 DEF At, NamedAs
  <2> HIDE DEF g
  <2>3. g.at \notin Running /\ g.at \notin Locked
    BY <2>1 DEF Running, Locked
  <2>4. BrokerIInv' /\ \A q \in Requests \ {r} : Told(q)
    BY <1>1, <1>2, <1>3, <2>1, <2>2, <2>3, QuietKeeps
  <2>5. Told(r)
    BY <2>1, <2>2 DEF Told
  <2> QED  BY <2>4, <2>5 DEF Truthful
<1>7. CASE req[r].asks.kind = "list"
  <2>1. req' = [At(r, "wantlock") EXCEPT ![r].name = n, ![r].age = 0]
    BY <1>7 DEF Route
  <2> QED  BY <1>6, <1>7, <2>1 DEF Puts
<1>8. CASE req[r].asks.kind = "put"
  <2>1. req' = [At(r, "spooling") EXCEPT ![r].name = n, ![r].age = 0]
    BY <1>8 DEF Route
  <2> QED  BY <1>6, <1>8, <2>1 DEF Lists
<1>9. CASE req[r].asks.kind = "read"
  <2>1. \/ req' = [At(r, "wantsign") EXCEPT ![r].name = n, ![r].age = 0]
        \/ req' = Answer(r, "refused")
    BY <1>9 DEF Route
  <2> QED  BY <1>5, <1>6, <2>1 DEF Lists, Puts
<1> QED  BY <1>4, <1>7, <1>8, <1>9

\* A cached verdict is younger than its lifetime.
LEMMA ResolveCachedKeeps ==
    ASSUME BrokerIInv, NEW r \in Requests, ResolveCached(r)
    PROVE  BrokerIInv' /\ Truthful
<1> DEFINE c == Caller[r]
<1>1. /\ req[r].at = "resolving" /\ Live(c) /\ Route(r, names[c].name)
      /\ UNCHANGED <<store, phase, held, lock, listing, names, acked, stops>>
      /\ UNCHANGED <<identity, ticks, scene>>
  BY DEF ResolveCached, world
<1>2. c \in Callers /\ TTL \in Nat
  BY BrokerAssumption
<1>3. NamesOk /\ NamesOk' /\ identity \in [Callers -> [name : Names, since : Nat]]
  BY <1>1, HeldAndLocked, NamesStay, IInvParts DEF Parts
<1>4. /\ names[c].name \in Names /\ names[c].age \in Nat /\ names[c].late \in Nat
      /\ identity[c].since \in Nat
  BY <1>2, <1>3 DEF NamesOk
<1>5. names[c].name = identity[c].name \/ identity[c].since < TTL + Late(r)
  <2>1. /\ c \in Pods => names[c].late <= 1
        /\ \/ names[c].name = identity[c].name
           \/ names[c].age >= TTL
           \/ identity[c].since <= names[c].age + names[c].late
    BY <1>1, <1>2, <1>3 DEF NamesOk, NamesAge, Live
  <2>2. names[c].age < TTL
    BY <1>1 DEF Live
  <2>3. Late(r) = IF c \in Pods THEN 1 ELSE names[c].late
    BY <1>1 DEF Late
  <2>4. Late(r) \in Nat /\ names[c].late <= Late(r)
    BY <1>4, <2>1, <2>3
  <2> QED  BY <1>2, <1>4, <2>1, <2>2, <2>4
<1> HIDE DEF c
<1>6. names[Caller[r]].name \in Names /\ Route(r, names[Caller[r]].name)
      /\ (names[Caller[r]].name = identity[Caller[r]].name \/ identity[Caller[r]].since < TTL + Late(r))
  BY <1>1, <1>4, <1>5 DEF c
<1> QED  BY <1>1, <1>3, <1>6, RouteKeeps

\* A verdict that came from a lookup is as old as the lookup's answer.
LEMMA ResolveDoneKeeps ==
    ASSUME BrokerIInv, NEW r \in Requests, ResolveDone(r)
    PROVE  BrokerIInv' /\ Truthful
<1> DEFINE c == Caller[r]
           n == req[r].name
           l == req[r].age
<1>1. /\ req[r].at = "named" /\ names' = Remember(c, n, l) /\ Route(r, n)
      /\ UNCHANGED <<store, phase, held, lock, listing, acked, stops>>
      /\ UNCHANGED <<identity, ticks, scene>>
  BY DEF ResolveDone, world
<1>2. c \in Callers /\ TTL \in Nat /\ TTL >= 1
  BY BrokerAssumption
<1>3. NamesOk /\ Aged(req[r], c) /\ req[r] \in Futures
      /\ identity \in [Callers -> [name : Names, since : Nat]]
  BY HeldAndLocked, IInvParts DEF Parts, Good
<1>4. n \in Names /\ req[r].age \in Nat /\ identity[c].since \in Nat
  BY <1>2, <1>3 DEF Futures
<1>5. (n = identity[c].name \/ identity[c].since <= l) /\ (c \in Pods => l <= 1)
  BY <1>1, <1>3 DEF Aged
<1>9. l \in Nat /\ Late(r) = IF c \in Pods THEN 1 ELSE l
  BY <1>1, <1>4 DEF Late
<1> HIDE DEF c, n, l
<1>6. NamesOk'
  BY <1>1, <1>2, <1>3, <1>4, <1>5, <1>9, NamesGrow
<1>7. n = identity[c].name \/ identity[c].since < TTL + Late(r)
  <2>1. identity[c].since \in Nat
    BY <1>4 DEF c
  <2> QED  BY <1>2, <1>5, <1>9, <2>1
<1>8. n \in Names /\ Route(r, n)
      /\ (n = identity[Caller[r]].name \/ identity[Caller[r]].since < TTL + Late(r))
  BY <1>1, <1>4, <1>7 DEF c
<1> QED  BY <1>1, <1>6, <1>8, RouteKeeps

\* An expired verdict is dropped, and a lookup begins.
LEMMA ResolveMissKeeps ==
    ASSUME BrokerIInv, NEW r \in Requests, ResolveMiss(r)
    PROVE  BrokerIInv' /\ Truthful
<1>1. /\ req[r].at = "resolving" /\ req' = At(r, "asking")
      /\ names' = [names EXCEPT ![Caller[r]] = NoVerdict]
      /\ UNCHANGED <<store, phase, held, lock, listing, acked, stops>>
      /\ UNCHANGED <<identity, ticks, scene>>
  BY DEF ResolveMiss, world
<1>2. /\ Active(r) /\ lock # r /\ r \notin held
      /\ NamesOk /\ ListingOk' /\ req[r].name = Nobody /\ req[r].age = 0
  BY <1>1, PlaceKnown, HeldAndLocked, ListingStays DEF Running, Locked
<1>3. NamesOk'
  <2>1. names' = [c \in Callers |-> IF c \in {Caller[r]} THEN NoVerdict ELSE names[c]]
    BY <1>1, <1>2 DEF NamesOk
  <2> QED  BY <1>1, <1>2, <2>1, NamesShrink
<1>4. /\ "asking" \in Places \ (Ended \cup {"new", "named", "listed", "landed", "clearing"})
      /\ "asking" \notin Lists \cup Puts \cup Running \cup Locked
  BY DEF Places, Ended, Lookup, Lists, Puts, Running, Locked
<1>5. held' = held \ {r} /\ lock' = IF lock = r THEN Nobody ELSE lock
  BY <1>1, <1>2
<1> QED  BY <1>1, <1>2, <1>3, <1>4, <1>5, MoveKeeps

\* A lookup names who is there when it answers, or nobody.
LEMMA VerdictKeeps ==
    ASSUME BrokerIInv, NEW r \in Requests, Verdict(r)
    PROVE  BrokerIInv' /\ Truthful
<1>1. /\ req[r].at = "asking"
      /\ UNCHANGED <<store, phase, held, lock, listing, names, acked, stops>>
      /\ UNCHANGED <<identity, ticks, scene>>
  BY DEF Verdict, world
<1>2. /\ Active(r) /\ lock # r /\ r \notin held
      /\ NamesOk' /\ ListingOk' /\ req[r].name = Nobody /\ req[r].age = 0
      /\ req[r] \in Futures /\ Good(req[r], Caller[r]) /\ phase # "down"
  BY <1>1, PlaceKnown, HeldAndLocked, NamesStay, ListingStays DEF Lookup, Running, Locked
<1>3. held' = held \ {r} /\ lock' = IF lock = r THEN Nobody ELSE lock
  BY <1>1, <1>2
<1>4. /\ req \in [Requests -> Futures] /\ Caller[r] \in Callers
      /\ identity \in [Callers -> [name : Names, since : Nat]]
  BY IInvParts, BrokerAssumption DEF Parts
<1>5. CASE req' = Answer(r, "refused")
  BY <1>1, <1>2, <1>3, <1>5, FailedKeeps
<1>6. ASSUME NEW n, n = identity[Caller[r]].name,
             req' = [At(r, "named") EXCEPT ![r].name = n]
      PROVE  BrokerIInv' /\ Truthful
  <2> DEFINE g == [req[r] EXCEPT !.at = "named", !.name = n]
  <2>1. g \in Futures
    <3>1. n \in Names /\ "named" \in Places
      BY <1>4, <1>6 DEF Places, Lookup
    <3> QED  BY <1>2, <3>1 DEF Futures
  <2>2. /\ g.at = "named" /\ g.name = n /\ g.age = 0 /\ g.outcome = req[r].outcome
        /\ g.asks = req[r].asks /\ g.since = req[r].since /\ g.sizes = req[r].sizes
    BY <1>2 DEF Futures
  <2>3. req' = [req EXCEPT ![r] = g] /\ req'[r] = g
    BY <1>4, <1>6 DEF At
  <2> HIDE DEF g
  <2>4. Good(g, Caller[r])
    <3>1. Fits(g)
      BY <1>1, <1>2, <2>2 DEF Good, Fits, Ended, Lists, Puts
    <3>2. Current(g)
      BY <1>1, <1>2, <2>2 DEF Good, Current, Ended
    <3>3. SizesSeen(g)
      BY <1>1, <1>2, <2>2 DEF Good, SizesSeen, Ended
    <3>4. Aged(g, Caller[r])
      BY <1>6, <2>2 DEF Aged
    <3> QED  BY <3>1, <3>2, <3>3, <3>4 DEF Good
  <2>5. g.at \notin Running /\ g.at \notin Locked
    BY <2>2 DEF Running, Locked
  <2>6. BrokerIInv' /\ \A q \in Requests \ {r} : Told(q)
    BY <1>1, <1>2, <1>3, <2>1, <2>3, <2>4, <2>5, QuietKeeps
  <2>7. Told(r)
    <3>1. Fits(req[r]) /\ g.outcome = req[r].outcome
      BY <1>2, <2>2 DEF Good
    <3> QED  BY <2>2, <2>3, <3>1, StillTold
  <2> QED  BY <2>6, <2>7 DEF Truthful
<1>7. \A n : Named(r, n) => n # Nobody /\ req' = [At(r, "named") EXCEPT ![r].name = n]
  BY DEF Named
<1>8. \A c : {Reviewed(c), WhoIs(c)} \subseteq {identity[c].name, Nobody}
  BY DEF Reviewed, WhoIs
<1> QED  BY <1>5, <1>6, <1>7, <1>8 DEF Verdict

-----------------------------------------------------------------------------
(* Writes and acknowledgments.                                             *)

\* What Max chooses of two.
LEMMA MaxOfTwo ==
    ASSUME NEW a \in Nat, NEW b \in Nat
    PROVE  Max({a, b}) \in {a, b} /\ Max({a, b}) >= a /\ Max({a, b}) >= b
<1>1. \E x \in {a, b} : \A y \in {a, b} : x >= y
  OBVIOUS
<1> DEFINE m == CHOOSE x \in {a, b} : \A y \in {a, b} : x >= y
<1>2. m \in {a, b} /\ \A y \in {a, b} : m >= y
  BY <1>1
<1>3. Max({a, b}) = m
  BY DEF Max
<1> QED  BY <1>2, <1>3

\* What Min chooses of two.
LEMMA MinOfTwo ==
    ASSUME NEW a \in Nat, NEW b \in Nat
    PROVE  Min({a, b}) \in {a, b} /\ Min({a, b}) <= a /\ Min({a, b}) <= b
<1>1. \E x \in {a, b} : \A y \in {a, b} : x <= y
  OBVIOUS
<1> DEFINE m == CHOOSE x \in {a, b} : \A y \in {a, b} : x <= y
<1>2. m \in {a, b} /\ \A y \in {a, b} : m <= y
  BY <1>1
<1>3. Min({a, b}) = m
  BY DEF Min
<1> QED  BY <1>2, <1>3

\* An acknowledgment forgets the listing, which nobody is reading.
LEMMA ClearKeeps ==
    ASSUME BrokerIInv, NEW r \in Requests, Clear(r)
    PROVE  BrokerIInv' /\ Truthful
<1> DEFINE k == req[r].asks.key
<1>1. /\ req[r].at = "clearing" /\ lock = Nobody /\ listing' = NoListing
      /\ acked' = [acked EXCEPT ![k] = Max({acked[k], req[r].wrote})]
      /\ req' = Answer(r, "uploaded")
      /\ UNCHANGED <<store, phase, held, lock, names, stops>>
      /\ UNCHANGED <<identity, ticks, scene>>
  BY DEF Clear, Forgotten, world
<1>2. /\ req \in [Requests -> Futures] /\ store \in Objects /\ acked \in Acks
      /\ \A j \in Keys : acked[j] <= store[j].write
      /\ \A q \in Requests : Good(req[q], Caller[q])
  BY IInvParts DEF Parts
<1>3. /\ Active(r) /\ req[r].asks.kind = "put" /\ k \in Keys
      /\ r \notin held /\ lock # r /\ phase # "down" /\ NamesOk' /\ req[r] \in Futures
  BY <1>1, PlaceKnown, HeldAndLocked, NamesStay DEF Puts, Running, Locked
<1>4. req[r].wrote \in Nat /\ acked[k] \in Nat /\ req[r].wrote <= store[k].write
  BY <1>1, <1>2, <1>3 DEF Futures, Acks, Good, Current
<1> HIDE DEF k
<1>5. /\ acked' \in Acks /\ \A j \in Keys : acked[j] <= acked'[j] /\ acked'[j] <= store[j].write
  <2> DEFINE m == Max({acked[k], req[r].wrote})
  <2>1. m \in {acked[k], req[r].wrote} /\ m >= acked[k]
    BY <1>4, MaxOfTwo
  <2>2. acked' = [acked EXCEPT ![k] = m]
    BY <1>1
  <2> HIDE DEF m
  <2>3. acked' \in Acks
    BY <1>2, <1>4, <2>1, <2>2 DEF Acks
  <2>4. acked'[k] = m /\ \A j \in Keys \ {k} : acked'[j] = acked[j]
    BY <1>2, <1>3, <2>2 DEF Acks
  <2>5. acked[k] <= m /\ m <= store[k].write
    BY <1>2, <1>3, <1>4, <2>1
  <2>6. \A j \in Keys : acked[j] <= acked[j]
    BY <1>2 DEF Acks
  <2> QED  BY <1>2, <2>3, <2>4, <2>5, <2>6
<1>6. ListingOk'
  <2>1. /\ NoListing \in [known : BOOLEAN, fresh : BOOLEAN, objects : Objects]
        /\ NoListing.known = FALSE
    BY DEF NoListing, NoObject, Objects
  <2> QED  BY <1>1, <2>1 DEF ListingOk, ListingIsCurrent
<1> DEFINE g == [[New EXCEPT !.at = "answered"] EXCEPT !.outcome = "uploaded"]
<1>7. /\ g \in Futures /\ g.at = "answered" /\ g.outcome = "uploaded" /\ g.name = Nobody
  BY EndedIsGood DEF Ended, Outcomes
<1>8. req' = [req EXCEPT ![r] = g]
  BY <1>1 DEF Answer
<1> HIDE DEF g
<1>9. req' \in [Requests -> Futures] /\ req'[r] = g /\ \A q \in Requests \ {r} : req'[q] = req[q]
  BY <1>2, <1>7, <1>8
<1>10. \A q \in Requests : Good(req[q], Caller[q])'
  <2>1. Good(req[r], Caller[r])'
    BY <1>7, <1>9 DEF Good, Fits, Current, SizesSeen, Aged, Ended, Lists, Puts
  <2>2. ASSUME NEW q \in Requests \ {r} PROVE Good(req[q], Caller[q])'
    <3>1. req[q].at \notin Locked
      BY <1>1, HeldAndLocked
    <3>2. Good(req[q], Caller[q]) /\ req'[q] = req[q]
      BY <1>2, <1>9
    <3>3. Fits(req[q])' /\ SizesSeen(req[q])' /\ Aged(req[q], Caller[q])'
      BY <1>1, <3>2 DEF Good, Fits, SizesSeen, Aged, Size
    <3>4. Current(req[q])'
      <4>1. req[q].at # "listed"
        BY <3>1 DEF Locked
      <4>2. ASSUME req[q].at \notin Ended \cup {"new"}, req[q].asks.kind = "list"
            PROVE  req[q].since \in Acks /\ \A j \in Keys : req[q].since[j] <= acked'[j]
        <5>1. req[q].since \in Acks /\ \A j \in Keys : req[q].since[j] <= acked[j]
          BY <3>2, <4>2 DEF Good, Current
        <5>2. \A j \in Keys : req[q].since[j] \in Nat /\ acked[j] \in Nat /\ acked'[j] \in Nat
          BY <1>2, <1>5, <5>1 DEF Acks
        <5> QED  BY <1>5, <5>1, <5>2
      <4>3. req[q].at \in {"landed", "clearing"} => req[q].wrote <= store[req[q].asks.key].write
        BY <3>2 DEF Good, Current
      <4> QED  BY <1>1, <3>2, <4>1, <4>2, <4>3 DEF Current
    <3> QED  BY <3>3, <3>4 DEF Good
  <2> QED  BY <2>1, <2>2
<1>11. req'[r].at \notin Running /\ req'[r].at \notin Locked
  BY <1>7, <1>9 DEF Running, Locked
<1>12. BrokerIInv'
  <2>1. /\ held' = held \ {r} /\ lock' = IF lock = r THEN Nobody ELSE lock
       
    BY <1>1, <1>3
  <2>2. \A q \in Requests \ {r} : req'[q].at = req[q].at
    BY <1>9
  <2>3. store' \in Objects /\ \A j \in Keys : acked'[j] <= store'[j].write
    BY <1>1, <1>2, <1>5
  <2> QED  BY <1>1, <1>3, <1>5, <1>6, <1>9, <1>10, <1>11, <2>1, <2>2, <2>3, StepKeeps
<1>13. Truthful
  <2>1. \A q \in Requests \ {r} : Told(q)
    BY <1>2, <1>9, StillTold DEF Good
  <2>2. SizeOf[req[r].asks.version] \in req[r].sizes
    BY <1>1, <1>2, <1>3 DEF Good, SizesSeen, Active
  <2>3. Told(r)
    BY <1>7, <1>9, <2>2 DEF Told
  <2> QED  BY <2>1, <2>3 DEF Truthful
<1> QED  BY <1>12, <1>13

\* A put that saw one more size.
Sees(f, z) == [f EXCEPT !.sizes = @ \cup {z}]

\* It is as it was, but for that size.
LEMMA SeesIsAFuture ==
    ASSUME NEW f \in Futures, NEW z \in Nat \cup {-1}
    PROVE  /\ Sees(f, z) \in Futures
           /\ Sees(f, z).at = f.at /\ Sees(f, z).asks = f.asks /\ Sees(f, z).name = f.name
           /\ Sees(f, z).age = f.age /\ Sees(f, z).wrote = f.wrote
           /\ Sees(f, z).since = f.since /\ Sees(f, z).seen = f.seen
           /\ Sees(f, z).outcome = f.outcome /\ Sees(f, z).sizes = f.sizes \cup {z}
BY DEF Sees, Futures

\* An object lands: every put of its key sees its size, and its own put knows its
\* write.
LEMMA LandsKeeps ==
    ASSUME BrokerIInv, NEW r \in Requests, Lands(r)
    PROVE  BrokerIInv' /\ Truthful
<1> DEFINE k == req[r].asks.key
           v == req[r].asks.version
           w == store[k].write + 1
           o == [version |-> v, write |-> w]
           z == Size(o)
           mine == [req[r] EXCEPT !.at = "landed", !.wrote = w]
           Same(q) == Active(q) /\ req[q].asks.kind = "put" /\ req[q].asks.key = k
<1>1. /\ req[r].at = "putting" /\ store' = [store EXCEPT ![k] = o]
      /\ UNCHANGED <<phase, held, lock, listing, names, acked, stops>>
      /\ UNCHANGED <<identity, ticks, scene>>
  BY DEF Lands, world
<1>2. /\ req \in [Requests -> Futures] /\ store \in Objects /\ acked \in Acks
      /\ \A j \in Keys : acked[j] <= store[j].write
      /\ \A q \in Requests : Good(req[q], Caller[q]) /\ req[q] \in Futures
  BY IInvParts DEF Parts
<1>3. /\ Active(r) /\ req[r].asks.kind = "put" /\ k \in Keys
      /\ v \in Versions /\ r \in held /\ lock # r /\ phase # "down" /\ NamesOk' /\ ListingOk'
  BY <1>1, PlaceKnown, HeldAndLocked, NamesStay, ListingStays DEF Puts, Running, Locked
<1>4. w \in Nat /\ w > store[k].write /\ z = SizeOf[v] /\ z \in Nat \cup {-1}
      /\ o \in [version : Versions \cup {0}, write : Nat] /\ o.write = w
  <2>1. store[k].write \in Nat
    BY <1>2, <1>3 DEF Objects
  <2>2. w \in Nat /\ w > store[k].write
    BY <2>1
  <2> HIDE DEF w
  <2>3. v # 0 /\ SizeOf[v] \in Nat
    BY <1>3, BrokerAssumption
  <2> HIDE DEF v
  <2> QED  BY <1>3, <2>2, <2>3 DEF Size
<1>5. req' = [q \in Requests |-> IF Same(q) THEN Sees([At(r, "landed") EXCEPT ![r].wrote = w][q], z)
                                 ELSE [At(r, "landed") EXCEPT ![r].wrote = w][q]]
  BY DEF Lands, Sees
<1>6. /\ [At(r, "landed") EXCEPT ![r].wrote = w][r] = mine
      /\ \A q \in Requests \ {r} : [At(r, "landed") EXCEPT ![r].wrote = w][q] = req[q]
  BY <1>2 DEF At
<1>7. Same(r)
  BY <1>3
<1> HIDE DEF z, o, w
<1>8. /\ mine \in Futures /\ mine.at = "landed" /\ mine.wrote = w /\ mine.asks = req[r].asks
      /\ mine.name = req[r].name /\ mine.outcome = req[r].outcome /\ mine.sizes = req[r].sizes
  <2>1. "landed" \in Places
    BY DEF Places, Running
  <2> QED  BY <1>2, <1>4, <2>1 DEF Futures
<1> HIDE DEF mine
<1>9. req'[r] = Sees(mine, z)
  BY <1>5, <1>6, <1>7, Zenon
<1>10. ASSUME NEW q \in Requests \ {r}
       PROVE  req'[q] = IF Same(q) THEN Sees(req[q], z) ELSE req[q]
  BY <1>5, <1>6, <1>10
<1> HIDE DEF Same
<1>11. ASSUME NEW q \in Requests \ {r}
       PROVE  /\ req'[q] \in Futures /\ req'[q].at = req[q].at /\ req'[q].asks = req[q].asks
              /\ req'[q].name = req[q].name /\ req'[q].age = req[q].age
              /\ req'[q].wrote = req[q].wrote /\ req'[q].since = req[q].since
              /\ req'[q].seen = req[q].seen /\ req'[q].outcome = req[q].outcome
              /\ req'[q].sizes = IF Same(q) THEN req[q].sizes \cup {z} ELSE req[q].sizes
  <2>1. CASE Same(q)
    <3>1. req[q] \in Futures /\ z \in Nat \cup {-1} /\ req'[q] = Sees(req[q], z)
      BY <1>2, <1>4, <1>10, <2>1
    <3>2. /\ Sees(req[q], z) \in Futures
          /\ Sees(req[q], z).at = req[q].at /\ Sees(req[q], z).asks = req[q].asks
          /\ Sees(req[q], z).name = req[q].name /\ Sees(req[q], z).age = req[q].age
          /\ Sees(req[q], z).wrote = req[q].wrote /\ Sees(req[q], z).since = req[q].since
          /\ Sees(req[q], z).seen = req[q].seen /\ Sees(req[q], z).outcome = req[q].outcome
          /\ Sees(req[q], z).sizes = req[q].sizes \cup {z}
      BY <3>1, SeesIsAFuture
    <3> QED  BY <2>1, <3>1, <3>2
  <2>2. CASE ~ Same(q)
    BY <1>2, <1>10, <2>2
  <2> QED  BY <2>1, <2>2
<1>12. /\ req'[r] \in Futures /\ req'[r].at = "landed" /\ req'[r].asks = req[r].asks
       /\ req'[r].name = req[r].name /\ req'[r].wrote = w /\ req'[r].outcome = req[r].outcome
       /\ req'[r].sizes = req[r].sizes \cup {z}
  <2>1. /\ Sees(mine, z) \in Futures /\ Sees(mine, z).at = mine.at
        /\ Sees(mine, z).asks = mine.asks /\ Sees(mine, z).name = mine.name
        /\ Sees(mine, z).wrote = mine.wrote /\ Sees(mine, z).outcome = mine.outcome
        /\ Sees(mine, z).sizes = mine.sizes \cup {z}
    BY <1>4, <1>8, SeesIsAFuture
  <2> QED  BY <1>8, <1>9, <2>1
<1>13. req' \in [Requests -> Futures]
  <2>1. req' = [q \in Requests |-> req'[q]]
    BY <1>5
  <2>2. \A q \in Requests : req'[q] \in Futures
    BY <1>11, <1>12
  <2> QED  BY <2>1, <2>2
<1>14. /\ store' \in Objects /\ store'[k] = o /\ \A j \in Keys \ {k} : store'[j] = store[j]
       /\ \A j \in Keys : store'[j].write >= store[j].write /\ acked[j] <= store'[j].write
  <2>1. store' \in Objects /\ store'[k] = o /\ \A j \in Keys \ {k} : store'[j] = store[j]
    BY <1>1, <1>2, <1>3, <1>4 DEF Objects
  <2>2. \A j \in Keys : store[j].write \in Nat /\ store'[j].write \in Nat /\ acked[j] \in Nat
    BY <1>2, <2>1 DEF Objects, Acks
  <2>3. \A j \in Keys : store'[j].write >= store[j].write
    BY <1>4, <2>1, <2>2
  <2> QED  BY <1>2, <2>1, <2>2, <2>3
<1>15. \A q \in Requests : Good(req[q], Caller[q])'
  <2>1. Good(req[r], Caller[r])'
    <3>1. Fits(req[r])'
      BY <1>1, <1>2, <1>3, <1>12 DEF Good, Fits, Ended, Lists, Puts
    <3>2. Current(req[r])'
      <4>1. w <= store'[k].write
        BY <1>4, <1>14
      <4> QED  BY <1>3, <1>12, <4>1 DEF Current
    <3>3. SizesSeen(req[r])'
      <4>1. Size(store'[req'[r].asks.key]) = z
        BY <1>12, <1>14 DEF z
      <4>2. SizeOf[req'[r].asks.version] = z
        BY <1>4, <1>12
      <4>3. Size(store[req[r].asks.key])' \in req'[r].sizes
        BY <1>12, <4>1 DEF Size
      <4> QED  BY <1>12, <4>2, <4>3 DEF SizesSeen
    <3>4. Aged(req[r], Caller[r])'
      BY <1>12 DEF Aged
    <3> QED  BY <3>1, <3>2, <3>3, <3>4 DEF Good
  <2>2. ASSUME NEW q \in Requests \ {r} PROVE Good(req[q], Caller[q])'
    <3>1. Fits(req[q]) /\ Current(req[q]) /\ SizesSeen(req[q]) /\ Aged(req[q], Caller[q])
      BY <1>2 DEF Good
    <3>2. Fits(req[q])'
      BY <1>11, <3>1 DEF Fits
    <3>3. Current(req[q])'
      <4>1. req[q].at \in {"landed", "clearing"} => req[q].asks.key \in Keys
        BY <3>1 DEF Fits, Ended
      <4>2. req[q].at \in {"landed", "clearing"} =>
               req[q].wrote <= store'[req[q].asks.key].write
        <5>1. req[q].wrote \in Nat
          BY <1>2 DEF Futures
        <5>2. \A j \in Keys : store[j].write \in Nat /\ store'[j].write \in Nat
          BY <1>2, <1>14 DEF Objects
        <5>3. req[q].at \in {"landed", "clearing"} =>
                 req[q].wrote <= store[req[q].asks.key].write
          BY <3>1 DEF Current
        <5> QED  BY <1>14, <4>1, <5>1, <5>2, <5>3
      <4> QED  BY <1>1, <1>11, <3>1, <4>2 DEF Current
    <3>4. SizesSeen(req[q])'
      <4>1. SUFFICES ASSUME req[q].at \notin Ended \cup {"new"}, req[q].asks.kind = "put"
                     PROVE  /\ Size(store[req[q].asks.key])' \in req'[q].sizes
                            /\ req[q].at \in {"landed", "clearing"} =>
                                  SizeOf[req[q].asks.version] \in req'[q].sizes
        BY <1>11 DEF SizesSeen, Size
      <4>2. /\ Size(store[req[q].asks.key]) \in req[q].sizes /\ req[q].asks.key \in Keys
            /\ req[q].at \in {"landed", "clearing"} =>
                  SizeOf[req[q].asks.version] \in req[q].sizes
            /\ req[q].sizes \subseteq req'[q].sizes
        BY <1>11, <3>1, <4>1 DEF SizesSeen, Fits
      <4>3. Size(store[req[q].asks.key])' \in req'[q].sizes
        <5>1. CASE req[q].asks.key = k
          <6>1. Same(q)
            BY <4>1, <5>1 DEF Same, Active
          <6>2. Size(store'[req'[q].asks.key]) = z
            BY <1>11, <1>14, <5>1 DEF z
          <6> QED  BY <1>11, <6>1, <6>2 DEF Size
        <5>2. CASE req[q].asks.key # k
          <6>1. Size(store'[req'[q].asks.key]) = Size(store[req[q].asks.key])
            BY <1>11, <1>14, <4>2, <5>2
          <6> QED  BY <4>2, <6>1 DEF Size
        <5> QED  BY <5>1, <5>2
      <4> QED  BY <4>2, <4>3
    <3>5. Aged(req[q], Caller[q])'
      BY <1>1, <1>11, <3>1 DEF Aged
    <3> QED  BY <3>2, <3>3, <3>4, <3>5 DEF Good
  <2> QED  BY <2>1, <2>2
<1>16. BrokerIInv'
  <2>1. "landed" \in Running /\ "landed" \notin Locked /\ req[r].at \in Running
    BY <1>1 DEF Running, Locked
  <2>2. held' = held \cup {r} /\ lock' = IF lock = r THEN Nobody ELSE lock
    BY <1>1, <1>3
  <2>3. acked' \in Acks /\ \A j \in Keys : acked'[j] <= store'[j].write
    BY <1>1, <1>2, <1>3, <1>14
  <2>4. \A q \in Requests \ {r} : req'[q].at = req[q].at
    BY <1>11
  <2> QED  BY <1>1, <1>3, <1>12, <1>13, <1>14, <1>15, <2>1, <2>2, <2>3, <2>4, StepKeeps
<1>17. Truthful
  <2>1. \A q \in Requests \ {r} : Told(q)
    BY <1>2, <1>11, StillTold DEF Good
  <2>2. Told(r)
    <3>1. req[r].outcome = "none"
      BY <1>1, <1>2 DEF Good, Fits, Ended
    <3> QED  BY <1>1, <1>12, <3>1 DEF Told
  <2> QED  BY <2>1, <2>2 DEF Truthful
<1> QED  BY <1>16, <1>17

-----------------------------------------------------------------------------
(* The process and what is outside.                                        *)

\* A step that leaves the requests and the store alone.
LEMMA RestKeeps ==
    ASSUME BrokerIInv, UNCHANGED <<req, store, acked, held, lock, scene>>,
           identity' \in [Callers -> [name : Names, since : Nat]],
           \A q \in Requests : Aged(req[q], Caller[q])',
           NamesOk', ListingOk',
           phase' \in {"down", "serving", "draining"},
           phase' = "down" => phase = "down" /\ names' = names,
           ticks' \in Nat, stops' \in Nat
    PROVE  BrokerIInv' /\ Truthful
<1>1. Parts /\ (BrokerIInv' <=> Parts')
  BY IInvParts, PTL
<1>2. \A q \in Requests : Good(req[q], Caller[q])'
  <2>1. \A q \in Requests : Good(req[q], Caller[q])
    BY <1>1 DEF Parts
  <2>2. \A q \in Requests : Fits(req[q])' /\ Current(req[q])' /\ SizesSeen(req[q])'
    BY <2>1 DEF Good, Fits, Current, SizesSeen, Size
  <2> QED  BY <2>2 DEF Good
<1>3. phase' = "down" => (\A r \in Requests : ~Active(r))'
  BY <1>1 DEF Parts, Active
<1>4. /\ \A k \in Keys : store'[k].version \in Versions \cup {0} /\ acked'[k] <= store'[k].write
      /\ scene' \in Scenes /\ store' \in Objects /\ acked' \in Acks
      /\ req' \in [Requests -> Futures]
      /\ held' = {r \in Requests : req'[r].at \in Running}
      /\ IsFiniteSet(held') /\ Cardinality(held') <= MaxAws
      /\ lock' \in Requests \cup {Nobody}
      /\ {r \in Requests : req'[r].at \in Locked} = IF lock' = Nobody THEN {} ELSE {lock'}
      /\ phase' = "down" => (\A c \in Callers : names'[c] = NoVerdict)
  BY <1>1 DEF Parts
<1>5. BrokerIInv'
  BY <1>1, <1>2, <1>3, <1>4 DEF Parts
<1>6. Truthful
  <2>1. \A q \in Requests : Fits(req[q]) /\ req'[q] = req[q]
    BY <1>1 DEF Parts, Good
  <2> QED  BY <2>1, StillTold DEF Truthful
<1> QED  BY <1>5, <1>6

\* A drain, a start, a listing that expires, and nothing at all.
LEMMA ProcessKeeps ==
    ASSUME BrokerIInv, Drain \/ Start \/ ListingExpires \/ UNCHANGED vars
    PROVE  BrokerIInv' /\ Truthful
<1>1. Parts
  BY IInvParts
<1>2. /\ NamesOk /\ ListingOk /\ identity \in [Callers -> [name : Names, since : Nat]]
      /\ phase \in {"down", "serving", "draining"}
      /\ ticks \in Nat /\ stops \in Nat /\ \A q \in Requests : Aged(req[q], Caller[q])
  BY <1>1 DEF Parts, Good
<1>3. /\ UNCHANGED <<req, store, acked, held, lock, scene, names, identity, ticks>>
      /\ stops' \in {stops, stops + 1}
      /\ \/ listing' = listing
         \/ listing' = [listing EXCEPT !.fresh = FALSE]
      /\ phase' \in {"draining", "serving", phase}
  BY DEF Drain, Start, ListingExpires, vars, world
<1>4. NamesOk'
  BY <1>2, <1>3, NamesStay
<1>5. ListingOk'
  <2>1. CASE listing' = listing
    BY <1>2, <1>3, <2>1, ListingStays
  <2>2. CASE listing' = [listing EXCEPT !.fresh = FALSE]
    BY <1>2, <1>3, <2>2 DEF ListingOk, ListingIsCurrent
  <2> QED  BY <1>3, <2>1, <2>2
<1>6. \A q \in Requests : Aged(req[q], Caller[q])'
  BY <1>2, <1>3 DEF Aged
<1> QED  BY <1>2, <1>3, <1>4, <1>5, <1>6, RestKeeps

\* Somebody else is behind a caller from now on.
LEMMA RenamedKeeps ==
    ASSUME BrokerIInv, NEW c \in Callers, Renamed(c)
    PROVE  BrokerIInv' /\ Truthful
<1>1. Parts
  BY IInvParts
<1>2. /\ NamesOk /\ ListingOk /\ identity \in [Callers -> [name : Names, since : Nat]]
      /\ phase \in {"down", "serving", "draining"}
      /\ ticks \in Nat /\ stops \in Nat /\ \A q \in Requests : Aged(req[q], Caller[q])
      /\ req \in [Requests -> Futures]
  BY <1>1 DEF Parts, Good
<1>3. PICK n \in {Nobody, Other} : identity' = [identity EXCEPT ![c] = [name |-> n, since |-> 0]]
  BY DEF Renamed
<1>4. UNCHANGED <<store, phase, req, held, lock, listing, names, acked, stops, ticks, scene>>
  BY DEF Renamed
<1>5. /\ identity' \in [Callers -> [name : Names, since : Nat]] /\ identity'[c].since = 0
      /\ \A d \in Callers \ {c} : identity'[d] = identity[d]
  <2>1. n \in Names
    BY DEF Names
  <2> QED  BY <1>2, <1>3, <2>1
<1>6. NamesOk'
  <2>1. \A d \in Callers : names[d].age \in Nat
    BY <1>2 DEF NamesOk
  <2>2. NamesAge'
    BY <1>2, <1>4, <1>5, <2>1 DEF NamesOk, NamesAge
  <2> QED  BY <1>2, <1>4, <2>2 DEF NamesOk, Cached
<1>7. ListingOk'
  BY <1>2, <1>4, ListingStays
<1>8. \A q \in Requests : Aged(req[q], Caller[q])'
  <2>1. \A q \in Requests : req[q].age \in Nat /\ Caller[q] \in Callers
    BY <1>2, BrokerAssumption DEF Futures
  <2> QED  BY <1>2, <1>4, <1>5, <2>1 DEF Aged
<1> QED  BY <1>2, <1>4, <1>5, <1>6, <1>7, <1>8, RestKeeps

\* A stop drops every request and forgets what is cached.
LEMMA ExitKeeps ==
    ASSUME BrokerIInv, Exit
    PROVE  BrokerIInv' /\ Truthful
<1>1. Parts /\ (BrokerIInv' <=> Parts')
  BY IInvParts, PTL
<1>2. /\ phase' = "down" /\ req' = AllGone /\ held' = {} /\ lock' = Nobody
      /\ listing' = NoListing /\ names' = [c \in Callers |-> NoVerdict]
      /\ stops' \in {stops, stops + 1}
      /\ UNCHANGED <<store, acked, identity, ticks, scene>>
  BY DEF Exit, world
<1>3. req \in [Requests -> Futures] /\ \A q \in Requests : Good(req[q], Caller[q])
  BY <1>1 DEF Parts
<1> DEFINE g == [[New EXCEPT !.at = "gone"] EXCEPT !.outcome = "none"]
<1>4. /\ g \in Futures /\ g.at = "gone" /\ g.outcome = "none" /\ g.name = Nobody
  BY EndedIsGood DEF Ended, Outcomes
<1>5. ASSUME NEW q \in Requests PROVE req'[q] = IF Active(q) THEN g ELSE req[q]
  <2>1. Gone(q)[q] = g
    <3>1. Gone(q) = [req EXCEPT ![q] = g]
      BY <1>3, ReqShapes
    <3> HIDE DEF g
    <3> QED  BY <1>3, <3>1
  <2> HIDE DEF g
  <2> QED  BY <1>2, <2>1 DEF AllGone
<1> HIDE DEF g
<1>6. req' \in [Requests -> Futures]
  <2>1. \A q \in Requests : req'[q] \in Futures
    BY <1>3, <1>4, <1>5
  <2>2. req' = [q \in Requests |-> req'[q]]
    BY <1>2 DEF AllGone
  <2> QED  BY <2>1, <2>2
<1>7. \A q \in Requests : req'[q].at \in Ended \cup {"new"}
  BY <1>4, <1>5 DEF Active, Ended
<1>8. /\ \A q \in Requests : req'[q].at \notin Running /\ req'[q].at \notin Locked
      /\ \A q \in Requests : ~ Active(q)'
  BY <1>7 DEF Active, Ended, Running, Locked
<1>9. \A q \in Requests : Good(req[q], Caller[q])'
  <2>1. ASSUME NEW q \in Requests PROVE Fits(req[q])'
    <3>1. CASE Active(q)
      BY <1>4, <1>5, <3>1 DEF Fits, Ended, Lists, Puts
    <3>2. CASE ~ Active(q)
      BY <1>3, <1>5, <3>2 DEF Good, Fits
    <3> QED  BY <3>1, <3>2
  <2>2. \A q \in Requests : Current(req[q])' /\ SizesSeen(req[q])' /\ Aged(req[q], Caller[q])'
    BY <1>7 DEF Current, SizesSeen, Aged, Ended
  <2> QED  BY <2>1, <2>2 DEF Good
<1>10. NamesOk'
  <2>1. names' = [c \in Callers |-> IF c \in Callers THEN NoVerdict ELSE names[c]]
    BY <1>2
  <2> QED  BY <1>1, <1>2, <2>1, NamesShrink DEF Parts
<1>11. ListingOk'
  <2>1. /\ NoListing \in [known : BOOLEAN, fresh : BOOLEAN, objects : Objects]
        /\ NoListing.known = FALSE
    BY DEF NoListing, NoObject, Objects
  <2> QED  BY <1>2, <2>1 DEF ListingOk, ListingIsCurrent
<1>12. /\ held' = {q \in Requests : req'[q].at \in Running} /\ IsFiniteSet(held')
       /\ Cardinality(held') <= MaxAws
  <2>1. IsFiniteSet({}) /\ Cardinality({}) = 0
    BY FS_EmptySet
  <2>2. MaxAws \in Nat
    BY BrokerAssumption
  <2> QED  BY <1>2, <1>8, <2>1, <2>2
<1>13. /\ lock' \in Requests \cup {Nobody}
       /\ {q \in Requests : req'[q].at \in Locked} = IF lock' = Nobody THEN {} ELSE {lock'}
  BY <1>2, <1>8
<1>14. /\ \A k \in Keys : store'[k].version \in Versions \cup {0} /\ acked'[k] <= store'[k].write
       /\ scene' \in Scenes /\ store' \in Objects /\ acked' \in Acks
       /\ identity' \in [Callers -> [name : Names, since : Nat]]
       /\ ticks' \in Nat /\ stops' \in Nat
       /\ phase' \in {"down", "serving", "draining"}
       /\ \A c \in Callers : names'[c] = NoVerdict
  BY <1>1, <1>2 DEF Parts
<1>15. BrokerIInv'
  BY <1>1, <1>6, <1>8, <1>9, <1>10, <1>11, <1>12, <1>13, <1>14 DEF Parts
<1>16. Truthful
  <2>1. ASSUME NEW q \in Requests PROVE Told(q)
    <3>1. CASE Active(q)
      BY <1>4, <1>5, <3>1 DEF Told
    <3>2. CASE ~ Active(q)
      BY <1>3, <1>5, <3>2, StillTold DEF Good
    <3> QED  BY <3>1, <3>2
  <2> QED  BY <2>1 DEF Truthful
<1> QED  BY <1>15, <1>16

\* Time passes for verdicts, for those on their way, and since a change.
LEMMA TickKeeps ==
    ASSUME BrokerIInv, Tick
    PROVE  BrokerIInv' /\ Truthful
<1> DEFINE older(f) == [f EXCEPT !.age = @ + 1]
<1>1. Parts /\ (BrokerIInv' <=> Parts')
  BY IInvParts, PTL
<1>2. /\ \A r \in Requests : (req[r].at = "named" /\ Caller[r] \in Pods) => req[r].age = 0
      /\ ticks' = ticks + 1
      /\ identity' = [c \in Callers |-> IF identity[c].name = c THEN identity[c]
                                        ELSE [identity[c] EXCEPT !.since = @ + 1]]
      /\ names' = [c \in Callers |-> IF names[c].name = Nobody THEN names[c]
                                     ELSE [names[c] EXCEPT !.age = Min({@ + 1, TTL})]]
      /\ req' = [r \in Requests |-> IF req[r].at = "named" THEN older(req[r]) ELSE req[r]]
      /\ UNCHANGED <<store, phase, held, lock, listing, acked, stops, scene>>
  BY DEF Tick
<1>3. /\ req \in [Requests -> Futures] /\ \A q \in Requests : Good(req[q], Caller[q])
      /\ NamesOk /\ ListingOk /\ identity \in [Callers -> [name : Names, since : Nat]]
      /\ names \in [Callers -> [name : Names, age : Nat, late : Nat]]
      /\ ticks \in Nat /\ TTL \in Nat
  BY <1>1, BrokerAssumption DEF Parts, NamesOk
<1>4. \A f \in Futures : /\ older(f) \in Futures /\ older(f).at = f.at /\ older(f).asks = f.asks
                         /\ older(f).name = f.name /\ older(f).age = f.age + 1
                         /\ older(f).wrote = f.wrote /\ older(f).since = f.since
                         /\ older(f).seen = f.seen /\ older(f).sizes = f.sizes
                         /\ older(f).outcome = f.outcome
  BY DEF Futures
<1>5. \A r \in Requests : req'[r] = IF req[r].at = "named" THEN older(req[r]) ELSE req[r]
  BY <1>2
<1> HIDE DEF older
<1>6. ASSUME NEW r \in Requests
      PROVE  /\ req'[r] \in Futures /\ req'[r].at = req[r].at /\ req'[r].asks = req[r].asks
             /\ req'[r].name = req[r].name /\ req'[r].wrote = req[r].wrote
             /\ req'[r].since = req[r].since /\ req'[r].seen = req[r].seen
             /\ req'[r].sizes = req[r].sizes /\ req'[r].outcome = req[r].outcome
             /\ req'[r].age = (IF req[r].at = "named" THEN req[r].age + 1 ELSE req[r].age)
             /\ req[r].age \in Nat
  <2>1. req[r] \in Futures /\ req[r].age \in Nat
    BY <1>3 DEF Futures
  <2>2. CASE req[r].at = "named"
    BY <1>2, <1>4, <1>5, <2>1, <2>2
  <2>3. CASE req[r].at # "named"
    BY <1>5, <2>1, <2>3
  <2> QED  BY <2>2, <2>3
<1>7. req' \in [Requests -> Futures]
  <2>1. req' = [r \in Requests |-> req'[r]]
    BY <1>2
  <2> QED  BY <1>6, <2>1
<1>8. ASSUME NEW c \in Callers
      PROVE  /\ identity'[c] \in [name : Names, since : Nat]
             /\ identity'[c].name = identity[c].name
             /\ identity[c].since \in Nat /\ identity'[c].since <= identity[c].since + 1
  BY <1>2, <1>3
<1>9. ASSUME NEW c \in Callers
      PROVE  /\ names'[c] \in [name : Names, age : Nat, late : Nat] /\ names'[c].name = names[c].name
             /\ names[c].name = Nobody => names'[c] = names[c]
             /\ names'[c].late = names[c].late /\ names[c].late \in Nat
             /\ names[c].name # Nobody => names'[c].age >= TTL \/ names'[c].age = names[c].age + 1
  <2>1. names[c] \in [name : Names, age : Nat, late : Nat] /\ names[c].age + 1 \in Nat
    BY <1>3
  <2> DEFINE m == Min({names[c].age + 1, TTL})
  <2>2. m \in {names[c].age + 1, TTL}
    BY <1>3, <2>1, MinOfTwo
  <2>3. names'[c] = IF names[c].name = Nobody THEN names[c] ELSE [names[c] EXCEPT !.age = m]
    BY <1>2
  <2> HIDE DEF m
  <2> QED  BY <1>3, <2>1, <2>2, <2>3
<1>10. identity' \in [Callers -> [name : Names, since : Nat]]
  <2>1. identity' = [c \in Callers |-> identity'[c]]
    BY <1>2
  <2> QED  BY <1>8, <2>1
<1>11. NamesOk'
  <2>1. names' \in [Callers -> [name : Names, age : Nat, late : Nat]]
    <3>1. names' = [c \in Callers |-> names'[c]]
      BY <1>2
    <3> QED  BY <1>9, <3>1
  <2>2. NamesAge'
    <3>1. SUFFICES ASSUME NEW c \in Callers, names[c].name # Nobody
                   PROVE  /\ c \in Pods => names'[c].late <= 1
                          /\ \/ names'[c].name = identity'[c].name
                             \/ names'[c].age >= TTL
                             \/ identity'[c].since <= names'[c].age + names'[c].late
      BY <1>9 DEF NamesAge
    <3>2. /\ c \in Pods => names[c].late <= 1
          /\ \/ names[c].name = identity[c].name
             \/ names[c].age >= TTL
             \/ identity[c].since <= names[c].age + names[c].late
      BY <1>3, <3>1 DEF NamesOk, NamesAge
    <3>3. names[c].age \in Nat /\ names'[c].age \in Nat /\ identity'[c].since \in Nat
      BY <1>3, <1>8, <1>9
    <3>4. CASE names'[c].age >= TTL
      BY <1>9, <3>2, <3>4
    <3>5. CASE names'[c].age = names[c].age + 1
      BY <1>3, <1>8, <1>9, <3>2, <3>3, <3>5
    <3> QED  BY <1>9, <3>1, <3>4, <3>5
  <2>3. Cached(names') = Cached(names)
    <3>1. Pods \subseteq Callers
      BY BrokerAssumption
    <3> QED  BY <1>9, <3>1 DEF Cached
  <2>4. Cardinality(Cached(names))' <= MaxCached
    <3>1. Cardinality(Cached(names')) <= MaxCached
      BY <1>3, <2>3 DEF NamesOk
    <3> QED  BY <3>1 DEF Cached
  <2> QED  BY <2>1, <2>2, <2>4 DEF NamesOk
<1>12. ListingOk'
  BY <1>2, <1>3, ListingStays
<1>13. \A q \in Requests : Good(req[q], Caller[q])'
  <2>1. SUFFICES ASSUME NEW q \in Requests PROVE Good(req[q], Caller[q])'
    OBVIOUS
  <2>2. Fits(req[q]) /\ Current(req[q]) /\ SizesSeen(req[q]) /\ Aged(req[q], Caller[q])
    BY <1>3 DEF Good
  <2>3. Fits(req[q])'
    BY <1>6, <2>2 DEF Fits
  <2>4. Current(req[q])'
    BY <1>2, <1>6, <2>2 DEF Current
  <2>5. SizesSeen(req[q])'
    BY <1>2, <1>6, <2>2 DEF SizesSeen, Size
  <2>6. Aged(req[q], Caller[q])'
    <3>1. Caller[q] \in Callers
      BY BrokerAssumption
    <3>2. SUFFICES ASSUME req[q].at = "named"
                   PROVE  /\ Caller[q] \in Pods => req'[q].age <= 1
                          /\ \/ req'[q].name = identity'[Caller[q]].name
                             \/ identity'[Caller[q]].since <= req'[q].age
      BY <1>6 DEF Aged
    <3>3. /\ req'[q].age = req[q].age + 1 /\ req[q].age \in Nat
          /\ Caller[q] \in Pods => req[q].age = 0
      BY <1>2, <1>6, <3>2
    <3>4. req[q].name = identity[Caller[q]].name \/ identity[Caller[q]].since <= req[q].age
      BY <2>2, <3>2 DEF Aged
    <3>5. /\ identity'[Caller[q]].since \in Nat /\ identity[Caller[q]].since \in Nat
          /\ identity'[Caller[q]].since <= identity[Caller[q]].since + 1
          /\ identity'[Caller[q]].name = identity[Caller[q]].name
      BY <1>8, <3>1
    <3>6. req'[q].name = req[q].name
      BY <1>6
    <3> QED  BY <3>3, <3>4, <3>5, <3>6
  <2> QED  BY <2>3, <2>4, <2>5, <2>6 DEF Good
<1>14. /\ held' = {r \in Requests : req'[r].at \in Running}
       /\ {r \in Requests : req'[r].at \in Locked} = IF lock' = Nobody THEN {} ELSE {lock'}
  <2>1. /\ held = {r \in Requests : req[r].at \in Running}
        /\ {r \in Requests : req[r].at \in Locked} = IF lock = Nobody THEN {} ELSE {lock}
    BY <1>1 DEF Parts
  <2>2. /\ {r \in Requests : req'[r].at \in Running} = {r \in Requests : req[r].at \in Running}
        /\ {r \in Requests : req'[r].at \in Locked} = {r \in Requests : req[r].at \in Locked}
    BY <1>6
  <2> QED  BY <1>2, <2>1, <2>2
<1>15. /\ phase' = "down" => (\A c \in Callers : names[c] = NoVerdict)'
       /\ phase' = "down" => (\A r \in Requests : ~Active(r))'
  <2>1. ASSUME phase = "down" PROVE \A c \in Callers : names'[c] = NoVerdict
    <3>1. \A c \in Callers : names[c] = NoVerdict
      BY <1>1, <2>1 DEF Parts
    <3>2. NoVerdict.name = Nobody
      BY DEF NoVerdict
    <3> QED  BY <1>9, <3>1, <3>2
  <2>2. ASSUME phase = "down" PROVE \A r \in Requests : req'[r].at \in Ended \cup {"new"}
    BY <1>1, <1>6, <2>2 DEF Parts, Active
  <2> QED  BY <1>2, <2>1, <2>2 DEF Active
<1>16. /\ \A k \in Keys : store'[k].version \in Versions \cup {0} /\ acked'[k] <= store'[k].write
       /\ scene' \in Scenes /\ store' \in Objects /\ acked' \in Acks
       /\ ticks' \in Nat /\ stops' \in Nat
       /\ phase' \in {"down", "serving", "draining"} /\ lock' \in Requests \cup {Nobody}
       /\ IsFiniteSet(held') /\ Cardinality(held') <= MaxAws
  BY <1>1, <1>2, <1>3 DEF Parts
<1>17. BrokerIInv'
  BY <1>1, <1>7, <1>10, <1>11, <1>12, <1>13, <1>14, <1>15, <1>16 DEF Parts
<1>18. Truthful
  <2>1. \A q \in Requests : Fits(req[q])
    BY <1>3 DEF Good
  <2> QED  BY <1>6, <2>1, StillTold DEF Truthful
<1> QED  BY <1>17, <1>18

-----------------------------------------------------------------------------
(* The invariant of every run.                                             *)

\* The invariant holds when the broker begins to serve.
LEMMA BrokerInit == Init => BrokerIInv
<1> SUFFICES ASSUME Init PROVE Parts
  BY IInvParts
<1>1. /\ scene \in Scenes /\ scene.has \in Versions \cup {0}
      /\ Cardinality(scene.known \cap Pods) <= MaxCached
      /\ Pods \subseteq Callers /\ IsFiniteSet(Pods) /\ MaxCached \in Nat /\ MaxAws \in Nat
      /\ "nobody" \notin Requests
  BY BrokerAssumption DEF Init
<1>2. /\ store = [k \in Keys |-> [version |-> scene.has, write |-> 0]]
      /\ identity = [c \in Callers |-> [name |-> c, since |-> 0]]
      /\ phase = "serving" /\ req = [r \in Requests |-> New] /\ held = {}
      /\ lock = Nobody /\ listing = NoListing /\ acked = [k \in Keys |-> 0]
      /\ names = [c \in Callers |-> IF c \in scene.known THEN [name |-> c, age |-> 0, late |-> 0]
                                    ELSE NoVerdict]
      /\ ticks = 0 /\ stops = 0
  BY DEF Init
<1>3. /\ store \in Objects /\ acked \in Acks
      /\ \A k \in Keys : store[k].version \in Versions \cup {0} /\ acked[k] <= store[k].write
  BY <1>1, <1>2 DEF Objects, Acks
<1>4. identity \in [Callers -> [name : Names, since : Nat]]
  BY <1>2 DEF Names
<1>5. req \in [Requests -> Futures] /\ \A r \in Requests : req[r] = New
  BY <1>2, NewIsAFuture
<1>6. New.at = "new" /\ New.outcome = "none" /\ New.name = Nobody /\ New.age = 0
  BY DEF New
<1>7. \A r \in Requests : Good(req[r], Caller[r])
  <2>1. \A c : Good(New, c)
    BY <1>6 DEF Good, Fits, Current, SizesSeen, Aged, Ended, Lists, Puts
  <2> QED  BY <1>5, <2>1
<1>8. /\ held = {r \in Requests : req[r].at \in Running}
      /\ {r \in Requests : req[r].at \in Locked} = {}
      /\ IsFiniteSet(held) /\ Cardinality(held) <= MaxAws
  <2>1. IsFiniteSet({}) /\ Cardinality({}) = 0
    BY FS_EmptySet
  <2> QED  BY <1>1, <1>2, <1>5, <1>6, <2>1 DEF Running, Locked
<1>9. NamesOk
  <2>1. NoVerdict \in [name : Names, age : Nat, late : Nat] /\ NoVerdict.name = Nobody
    BY DEF NoVerdict, Names
  <2>2. names \in [Callers -> [name : Names, age : Nat, late : Nat]]
    BY <1>2, <2>1 DEF Names
  <2>3. \A c \in Callers : names[c].name # Nobody =>
            names[c].name = c /\ names[c].late = 0 /\ c \in scene.known
    BY <1>2, <2>1
  <2>4. NamesAge
    BY <1>2, <2>3 DEF NamesAge
  <2>5. Cached(names) \subseteq scene.known \cap Pods
    BY <1>1, <2>3 DEF Cached
  <2>6. /\ IsFiniteSet(scene.known \cap Pods)
        /\ Cardinality(scene.known \cap Pods) \in Nat
    BY <1>1, FS_Subset, FS_CardinalityType
  <2>7. /\ Cardinality(Cached(names)) <= Cardinality(scene.known \cap Pods)
        /\ Cardinality(Cached(names)) \in Nat
    BY <2>5, <2>6, FS_Subset, FS_CardinalityType
  <2> QED  BY <1>1, <2>2, <2>4, <2>6, <2>7 DEF NamesOk
<1>10. ListingOk
  <2>1. /\ NoListing \in [known : BOOLEAN, fresh : BOOLEAN, objects : Objects]
        /\ NoListing.known = FALSE
    BY DEF NoListing, NoObject, Objects
  <2> QED  BY <1>2, <2>1 DEF ListingOk, ListingIsCurrent
<1> QED  BY <1>1, <1>2, <1>3, <1>4, <1>5, <1>7, <1>8, <1>9, <1>10 DEF Parts

\* Every step keeps it, and tells the truth.
LEMMA BrokerStep ==
    ASSUME BrokerIInv, [Next]_vars
    PROVE  BrokerIInv' /\ Truthful
<1>1. ASSUME NEW r \in Requests, \E what \in scene.asks[r] : Ask(r, what)
      PROVE  BrokerIInv' /\ Truthful
  BY <1>1, AskKeeps
<1>2. ASSUME NEW r \in Requests, Handle(r)
      PROVE  BrokerIInv' /\ Truthful
  BY <1>2, ResolveCachedKeeps, ResolveMissKeeps, VerdictKeeps, ResolveDoneKeeps, PermitKeeps,
     SpoolKeeps, SizeKnownKeeps, LandsKeeps, PutEndsKeeps, ClearKeeps, ListCachedKeeps,
     ListMissKeeps, ListedKeeps, ListEndsKeeps, SignedKeeps, Zenon DEF Handle
<1>3. ASSUME NEW r \in Requests, Dropped(r)
      PROVE  BrokerIInv' /\ Truthful
  BY <1>3, DroppedKeeps
<1>4. CASE Drain \/ Start \/ ListingExpires \/ UNCHANGED vars
  BY <1>4, ProcessKeeps
<1>5. CASE Exit
  BY <1>5, ExitKeeps
<1>6. CASE Tick
  BY <1>6, TickKeeps
<1>7. ASSUME NEW c \in {Caller[r] : r \in Requests}, Renamed(c)
      PROVE  BrokerIInv' /\ Truthful
  <2>1. c \in Callers
    BY <1>7, BrokerAssumption
  <2> QED  BY <1>7, <2>1, RenamedKeeps
<1>8. CASE Done
  BY <1>4, <1>8 DEF Done
<1> QED  BY <1>1, <1>2, <1>3, <1>4, <1>5, <1>6, <1>7, <1>8, Zenon DEF Next

\* Permits are out exactly while children run and never more than there are; the
\* listing is locked exactly while somebody makes it; the cache of verdicts keeps
\* its bound (store.rs, tenant/kube.rs).
THEOREM BrokerIsConsistent == Spec => []TypeOK
<1>1. BrokerIInv => TypeOK
  BY DEF BrokerIInv
<1>2. BrokerIInv /\ [Next]_vars => BrokerIInv'
  BY BrokerStep
<1> QED  BY BrokerInit, <1>1, <1>2, PTL DEF Spec

\* A listing that is asked for after an upload was acknowledged reports it, and a
\* put that is acknowledged found or made the store hold an object of its size,
\* over futures dropped at any wait and listings under way (main.rs, store.rs).
THEOREM AcknowledgmentsAreTrue == Spec => AcksAreTrue
<1>1. BrokerIInv /\ [Next]_vars => BrokerIInv'
  BY BrokerStep
<1>2. BrokerIInv /\ [Next]_vars =>
         \A r \in Requests :
            (req'[r].outcome = "listed" /\ req[r].outcome = "none") =>
               \A k \in Keys : listing'.objects[k].write >= req[r].since[k]
  BY BrokerStep DEF Truthful, Told
<1>3. BrokerIInv /\ [Next]_vars =>
         \A r \in Requests :
            (req'[r].outcome \in {"uploaded", "unchanged"} /\ req[r].outcome = "none") =>
               SizeOf[req[r].asks.version] \in req[r].sizes
  BY BrokerStep DEF Truthful, Told
<1> QED
  BY BrokerInit, <1>1, <1>2, <1>3, PTL DEF Spec, AcksAreTrue, UploadedIsListed, AckedWasStored

\* A request is only taken for a machine that its caller was at most the lifetime
\* of a verdict ago (tenant.rs, tenant/kube.rs).
THEOREM NamesAreRecent == Spec => NamedRecently
<1>1. BrokerIInv /\ [Next]_vars => BrokerIInv'
  BY BrokerStep
<1>2. BrokerIInv /\ [Next]_vars =>
         \A r \in Requests :
            (req[r].at \in {"resolving", "named"} /\ req'[r].name # Nobody
             /\ req'[r].at # "named") =>
               \/ req'[r].name = identity[Caller[r]].name
               \/ identity[Caller[r]].since < TTL + Late(r)
  BY BrokerStep DEF Truthful, Told
<1> QED  BY BrokerInit, <1>1, <1>2, PTL DEF Spec, NamedRecently
===============================================================================
