-------------------------------- MODULE Broker --------------------------------
(***************************************************************************)
(* The seal broker (crates/broker/src): one process between the machines   *)
(* that hold sealed captures and the object store.  A request is named     *)
(* after its caller (tenant.rs, tenant/kube.rs: a cached verdict, or a     *)
(* lookup), and then lists the store, reads one seal through a presigned   *)
(* URL, or puts one (main.rs): the body is read to its end, the store is   *)
(* asked for the size it holds, and only another size is written.          *)
(*                                                                         *)
(* Every call to the store is a child process behind one semaphore         *)
(* (store.rs).  The listing is cached under an async mutex that is held    *)
(* while the store is asked.  A request is a future: when its connection   *)
(* breaks, or a drain runs out of time, it is dropped where it waits; its  *)
(* permit and its lock are released and its child is killed, and the code  *)
(* after the wait never runs.  Bodies, children and lookups of an address  *)
(* have no timeout; only a TokenReview and a drain have one.               *)
(*                                                                         *)
(* A caller is known by a token (TokenReview, bounded cache) or by its     *)
(* address (whois, unbounded cache).  The gateway subject and the loopback *)
(* tenant are comparisons without state.  Paths, keys, spool files and the *)
(* format of answers are left out.  The store is linearizable, as S3 is.   *)
(* Definitions marked (mutant) are not used: each is a plausible bug in    *)
(* the definition below it.                                                *)
(***************************************************************************)
EXTENDS Integers, FiniteSets, FiniteSetsExt

CONSTANTS
    Requests,       \* requests, each made once
    Callers,        \* machines
    Caller,         \* Caller[r]: the one that makes r
    Scenes,         \* what may happen in a run: [asks, known, has,
                    \* ticks, stops], where asks[r] is what r may ask, [kind,
                    \* key, version], known are those named lately, has is
                    \* the version that the store has of every key, and ticks and stops bound
                    \* the clock and the stops of the broker
    Pods,           \* the callers known by a token; the others by address
    Readers,        \* SEAL_BROKER_READ_TENANTS
    Keys,           \* seal keys
    SizeOf,         \* SizeOf[v]: bytes of version v of a seal
    MaxObject,      \* the limit of one object
    MaxAws,         \* SEAL_BROKER_MAX_AWS_PROCESSES
    MaxCached,      \* entries of the TokenReview cache
    TTL             \* ticks that a name is trusted

Versions == DOMAIN SizeOf

ASSUME BrokerAssumption ==
    /\ Pods \subseteq Callers /\ IsFiniteSet(Pods)
    /\ Caller \in [Requests -> Callers] /\ "nobody" \notin Requests
    /\ \A s \in Scenes, r \in Requests : \A a \in s.asks[r] :
          /\ a.kind \in {"put", "list", "read"} /\ a.key \in Keys
          /\ a.kind = "put" => a.version \in Versions
    /\ \A s \in Scenes : Cardinality(s.known \cap Pods) <= MaxCached
    /\ \A s \in Scenes : s.has \in Versions \cup {0} /\ s.ticks \in Nat /\ s.stops \in Nat
    /\ MaxAws \in Nat \ {0} /\ TTL \in Nat \ {0}
    /\ MaxCached \in Nat /\ MaxObject \in Nat
    /\ 0 \notin Versions /\ \A v \in Versions : SizeOf[v] \in Nat

VARIABLES
    \* outside
    store,          \* store[k]: the version the store holds, and its number
    identity,       \* identity[c]: [name, since], who is behind c, and since when if
                    \* it changed
    \* the process
    phase,          \* "down", "serving" or "draining"
    req,            \* req[r]: the future of r
    held,           \* the requests whose child runs under a permit
    lock,           \* who holds the listing cache
    listing,        \* the listing cache
    names,          \* names[c]: the cached verdict, its age in the cache, and how
                    \* late it got there after the lookup had answered
    \* bounds and history
    scene,
    acked,          \* acked[k]: the last write of k a client was told is stored
    ticks, stops

world == <<identity, ticks, scene>>
vars == <<store, phase, req, held, lock, listing, names, acked, stops, world>>

Other == "other"    \* the machine that has an address now
Nobody == "nobody"

NoObject == [version |-> 0, write |-> 0]
NoVerdict == [name |-> Nobody, age |-> 0, late |-> 0]
NoListing == [known |-> FALSE, fresh |-> FALSE, objects |-> [k \in Keys |-> NoObject]]

\* asks: what is asked; name: the tenant found; age: ticks since the lookup
\* answered; wrote: the write of its put; seen: the listing it got; since:
\* acked when it was made; sizes: those its key has had meanwhile.
New == [at |-> "new", asks |-> [kind |-> "none"], name |-> Nobody, age |-> 0, wrote |-> 0,
        since |-> <<>>, seen |-> <<>>, sizes |-> {}, outcome |-> "none"]

Lookup == {"asking", "named"}
Running == {"sizing", "putting", "landed", "listing", "listed", "signing"}
Waiting == {"wantsize", "wantput", "wantlist", "wantsign"}
Ended == {"answered", "gone"}
Active(r) == req[r].at \notin Ended \cup {"new"}

Size(o) == IF o.version = 0 THEN -1 ELSE SizeOf[o.version]

At(r, place) == [req EXCEPT ![r].at = place]
Answer(r, outcome) == [req EXCEPT ![r] = [New EXCEPT !.at = "answered", !.outcome = outcome]]

\* The verdicts on tokens that are cached.
Cached(n) == {c \in Pods : n[c].name # Nobody}
Full(n) == Cardinality(Cached(n)) >= MaxCached

-----------------------------------------------------------------------------
Init ==
    /\ scene \in Scenes
    /\ store = [k \in Keys |-> [version |-> scene.has, write |-> 0]]
    /\ identity = [c \in Callers |-> [name |-> c, since |-> 0]]
    /\ phase = "serving"
    /\ req = [r \in Requests |-> New]
    /\ held = {}
    /\ lock = Nobody
    /\ listing = NoListing
    /\ acked = [k \in Keys |-> 0]
    /\ names = [c \in Callers |-> IF c \in scene.known THEN [name |-> c, age |-> 0, late |-> 0]
                                 ELSE NoVerdict]
    /\ ticks = 0 /\ stops = 0

-----------------------------------------------------------------------------
(* Who is calling.                                                         *)

\* A cached verdict is used while it is young (mutant: while it is cached).
Remembered(c) == names[c].name # Nobody
Live(c) == names[c].name # Nobody /\ names[c].age < TTL

\* The cache of token verdicts drops what has expired when it is full, and
\* takes nothing in when that makes no room.
Kept == IF Full(names)
        THEN [c \in Callers |-> IF c \in Pods /\ ~ Live(c) THEN NoVerdict ELSE names[c]]
        ELSE names
Verdicts(c) == IF c \in Pods THEN Kept ELSE names
Remember(c, name, late) ==
    IF c \in Pods /\ Full(Kept) THEN Kept
    ELSE [Verdicts(c) EXCEPT ![c] = [name |-> name, age |-> 0, late |-> late]]

\* Where a request goes once it has a name.
Route(r, name) ==
    LET kind == req[r].asks.kind
        to(place) == [At(r, place) EXCEPT ![r].name = name, ![r].age = 0] IN
    req' = CASE kind = "list" -> to("wantlock")
             [] kind = "put"  -> to("spooling")
             [] kind = "read" -> IF name \in Readers THEN to("wantsign")
                                 ELSE Answer(r, "refused")

Ask(r, what) ==
    /\ phase = "serving" /\ req[r].at = "new"
    /\ req' = [req EXCEPT ![r].at = "resolving", ![r].asks = what,
                          ![r].since = IF what.kind = "list" THEN acked ELSE <<>>,
                          ![r].sizes = IF what.kind = "put" THEN {Size(store[what.key])} ELSE {}]
    /\ UNCHANGED <<store, phase, held, lock, listing,
                   names, acked, stops, world>>

ResolveCached(r) ==
    /\ req[r].at = "resolving" /\ Live(Caller[r])
    /\ Route(r, names[Caller[r]].name)
    /\ UNCHANGED <<store, phase, held, lock, listing, names,
                   acked, stops, world>>

\* An expired verdict is dropped on the way to the lookup.
ResolveMiss(r) ==
    /\ req[r].at = "resolving" /\ ~ Live(Caller[r])
    /\ names' = [names EXCEPT ![Caller[r]] = NoVerdict]
    /\ req' = At(r, "asking")
    /\ UNCHANGED <<store, phase, held, lock, listing,
                   acked, stops, world>>

\* The API server reviews a token, tailscaled names the machine of an address;
\* either may name nobody, or fail.
Reviewed(c) == IF c \in Pods THEN identity[c].name ELSE Nobody
WhoIs(c) == IF c \in Pods THEN Nobody ELSE identity[c].name
Named(r, name) == name # Nobody /\ req' = [At(r, "named") EXCEPT ![r].name = name]
Verdict(r) ==
    /\ req[r].at = "asking"
    /\ \/ Named(r, Reviewed(Caller[r]))
       \/ Named(r, WhoIs(Caller[r]))
       \/ req' = Answer(r, "refused")
    /\ UNCHANGED <<store, phase, held, lock, listing,
                   names, acked, stops, world>>

ResolveDone(r) ==
    /\ req[r].at = "named"
    /\ names' = Remember(Caller[r], req[r].name, req[r].age)
    /\ Route(r, req[r].name)
    /\ UNCHANGED <<store, phase, held, lock, listing, acked, stops, world>>

-----------------------------------------------------------------------------
(* The store.                                                              *)

Permit(r) ==
    /\ req[r].at \in Waiting /\ Cardinality(held) < MaxAws
    /\ held' = held \cup {r}
    /\ req' = At(r, CASE req[r].at = "wantsize" -> "sizing"
                      [] req[r].at = "wantput"  -> "putting"
                      [] req[r].at = "wantlist" -> "listing"
                      [] req[r].at = "wantsign" -> "signing")
    /\ UNCHANGED <<store, phase, lock, listing, names,
                   acked, stops, world>>

\* The permit goes with the child (mutant: with the request).
Keeps(r) == held
Returns(r) == held \ {r}

\* What the store is asked before a put, whatever the listing says.
Stored(k) == store[k]

-----------------------------------------------------------------------------
(* PUT /v1/seals/<key>                                                     *)

\* The body is read to its end, or is too large, or breaks off.
Spool(r) ==
    /\ req[r].at = "spooling"
    /\ \/ SizeOf[req[r].asks.version] <= MaxObject /\ req' = At(r, "wantsize")
       \/ req' = Answer(r, "failed")
    /\ UNCHANGED <<store, phase, held, lock, listing, names,
                   acked, stops, world>>

SizeKnown(r) ==
    /\ req[r].at = "sizing"
    /\ \/ /\ Size(Stored(req[r].asks.key)) = SizeOf[req[r].asks.version]
          /\ req' = Answer(r, "unchanged")
       \/ /\ Size(Stored(req[r].asks.key)) # SizeOf[req[r].asks.version]
          /\ req' = At(r, "wantput")
       \/ req' = Answer(r, "failed")
    /\ held' = Returns(r)
    /\ UNCHANGED <<store, phase, lock, listing, names, acked, stops, world>>

\* The object replaces the one before it.
Lands(r) ==
    LET k == req[r].asks.key
        o == [version |-> req[r].asks.version, write |-> store[k].write + 1]
        landed == [At(r, "landed") EXCEPT ![r].wrote = o.write]
    IN
    /\ req[r].at = "putting"
    /\ store' = [store EXCEPT ![k] = o]
    /\ req' = [q \in Requests |-> IF Active(q) /\ req[q].asks.kind = "put" /\ req[q].asks.key = k
                                  THEN [landed[q] EXCEPT !.sizes = @ \cup {Size(o)}]
                                  ELSE landed[q]]
    /\ UNCHANGED <<phase, held, lock, listing, names,
                   acked, stops, world>>

PutEnds(r) ==
    /\ \/ req[r].at = "landed" /\ req' = At(r, "clearing")
       \/ req[r].at \in {"putting", "landed"} /\ req' = Answer(r, "failed")
    /\ held' = Returns(r)
    /\ UNCHANGED <<store, phase, lock, listing, names, acked, stops, world>>

\* The listing is stale by one object (mutant: it is left to expire).
LeftToExpire == listing
Forgotten == NoListing

Clear(r) ==
    /\ req[r].at = "clearing" /\ lock = Nobody
    /\ listing' = Forgotten
    /\ acked' = [acked EXCEPT ![req[r].asks.key] = Max({@, req[r].wrote})]
    /\ req' = Answer(r, "uploaded")
    /\ UNCHANGED <<store, phase, held, lock, names, stops, world>>

-----------------------------------------------------------------------------
(* GET /v1/seals and GET /v1/seals/<key>                                   *)

ListCached(r) ==
    /\ req[r].at = "wantlock" /\ lock = Nobody
    /\ listing.known /\ listing.fresh
    /\ req' = Answer(r, "listed")
    /\ UNCHANGED <<store, phase, held, lock, listing,
                   names, acked, stops, world>>

ListMiss(r) ==
    /\ req[r].at = "wantlock" /\ lock = Nobody
    /\ ~ (listing.known /\ listing.fresh)
    /\ lock' = r
    /\ req' = At(r, "wantlist")
    /\ UNCHANGED <<store, phase, held, listing, names,
                   acked, stops, world>>

\* The pages have been read.
Listed(r) ==
    /\ req[r].at = "listing"
    /\ req' = [At(r, "listed") EXCEPT ![r].seen = store]
    /\ UNCHANGED <<store, phase, held, lock, listing,
                   names, acked, stops, world>>

ListEnds(r) ==
    /\ \/ /\ req[r].at = "listed"
          /\ listing' = [known |-> TRUE, fresh |-> TRUE, objects |-> req[r].seen]
          /\ req' = Answer(r, "listed")
       \/ /\ req[r].at \in {"listing", "listed"}
          /\ req' = Answer(r, "failed")
          /\ UNCHANGED listing
    /\ lock' = Nobody
    /\ held' = Returns(r)
    /\ UNCHANGED <<store, phase, names, acked, stops, world>>

Signed(r) ==
    /\ req[r].at = "signing"
    /\ \E outcome \in {"redirected", "failed"} : req' = Answer(r, outcome)
    /\ held' = Returns(r)
    /\ UNCHANGED <<store, phase, lock, listing, names,
                   acked, stops, world>>

-----------------------------------------------------------------------------
(* Dropped requests, the life of the process, and what is outside.         *)

Gone(r) == [req EXCEPT ![r] = [New EXCEPT !.at = "gone"]]

\* A body that is still being read breaks off instead (Spool).
Dropped(r) ==
    /\ Active(r) /\ req[r].at # "spooling"
    /\ req' = Gone(r)
    /\ lock' = IF lock = r THEN Nobody ELSE lock
    /\ held' = held \ {r}
    /\ UNCHANGED <<store, phase, listing, names, acked, stops, world>>

AllGone == [r \in Requests |-> IF Active(r) THEN Gone(r)[r] ELSE req[r]]

Drain ==
    /\ phase = "serving" /\ stops < scene.stops
    /\ phase' = "draining" /\ stops' = stops + 1
    /\ UNCHANGED <<store, req, held, lock, listing, names, acked, world>>

\* The last request has ended, or the drain has run out of time; or a crash.
Exit ==
    /\ \/ phase = "draining" /\ UNCHANGED stops
       \/ phase = "serving" /\ stops < scene.stops /\ stops' = stops + 1
    /\ phase' = "down"
    /\ req' = AllGone /\ held' = {} /\ lock' = Nobody
    /\ listing' = NoListing /\ names' = [c \in Callers |-> NoVerdict]
    /\ UNCHANGED <<store, acked, world>>

Start ==
    /\ phase = "down"
    /\ phase' = "serving"
    /\ UNCHANGED <<store, req, held, lock, listing, names, acked, stops, world>>

\* LISTING_TTL, which is longer than TTL.
ListingExpires ==
    /\ listing.fresh
    /\ listing' = [listing EXCEPT !.fresh = FALSE]
    /\ UNCHANGED <<store, phase, req, held, lock,
                   names, acked, stops, world>>

\* A pod is deleted, an address goes to another node or leaves the tailnet.
Renamed(c) ==
    /\ identity[c].name = c
    /\ ticks < scene.ticks
    /\ \E name \in IF c \in Pods THEN {Nobody} ELSE {Nobody, Other} :
          identity' = [identity EXCEPT ![c] = [name |-> name, since |-> 0]]
    /\ UNCHANGED <<store, phase, req, held, lock, listing, names,
                   acked, stops, ticks, scene>>

\* A verdict on a token is at most a tick on its way: the client gives up after
\* ten seconds.  One on an address may take any time.
Tick ==
    /\ ticks < scene.ticks
    /\ \A r \in Requests : (req[r].at = "named" /\ Caller[r] \in Pods) => req[r].age = 0
    /\ ticks' = ticks + 1
    /\ identity' = [c \in Callers |-> IF identity[c].name = c THEN identity[c]
                                      ELSE [identity[c] EXCEPT !.since = @ + 1]]
    /\ names' = [c \in Callers |-> IF names[c].name = Nobody THEN names[c]
                                   ELSE [names[c] EXCEPT !.age = Min({@ + 1, TTL})]]
    /\ req' = [r \in Requests |-> IF req[r].at = "named" THEN [req[r] EXCEPT !.age = @ + 1]
                                  ELSE req[r]]
    /\ UNCHANGED <<store, phase, held, lock, listing,
                   acked, stops, scene>>

-----------------------------------------------------------------------------
Handle(r) ==
    \/ ResolveCached(r) \/ ResolveMiss(r) \/ Verdict(r) \/ ResolveDone(r)
    \/ Permit(r) \/ Spool(r) \/ SizeKnown(r) \/ Lands(r) \/ PutEnds(r) \/ Clear(r)
    \/ ListCached(r) \/ ListMiss(r) \/ Listed(r) \/ ListEnds(r) \/ Signed(r)

\* No request is left, and the clock has stopped.
Done == (\A r \in Requests : req[r].at \in Ended) /\ UNCHANGED vars

Next ==
    \/ \E r \in Requests :
          \/ \E what \in scene.asks[r] : Ask(r, what)
          \/ Handle(r) \/ Dropped(r)
    \/ Drain \/ Exit \/ Start \/ ListingExpires \/ Tick
    \/ \E c \in {Caller[r] : r \in Requests} : Renamed(c)
    \/ Done

\* The runtime polls every future, a TokenReview has a timeout and so has a
\* drain.  Nothing says that a body, a child or the lookup of an address ends.
Own(r) ==
    \/ ResolveCached(r) \/ ResolveMiss(r) \/ Permit(r) \/ Clear(r) \/ ListCached(r) \/ ListMiss(r)
    \/ Caller[r] \in Pods /\ (Verdict(r) \/ ResolveDone(r))
DrainEnds == phase = "draining" /\ Exit
Fairness == (\A r \in Requests : WF_vars(Own(r))) /\ WF_vars(DrainEnds)

Spec == Init /\ [][Next]_vars /\ Fairness

-----------------------------------------------------------------------------
Places == {"new", "resolving", "spooling", "clearing", "wantlock"}
             \cup Lookup \cup Running \cup Waiting \cup Ended

\* Shape of the state; a permit is out exactly while a child runs, the lock
\* exactly while the store is listed, and the bounded cache keeps its bound.
TypeOK ==
    /\ \A k \in Keys : store[k].version \in Versions \cup {0} /\ acked[k] <= store[k].write
    /\ \A r \in Requests : req[r].at \in Places
    /\ phase \in {"down", "serving", "draining"}
    /\ held = {r \in Requests : req[r].at \in Running}
    /\ Cardinality(held) <= MaxAws
    /\ {r \in Requests : req[r].at \in {"wantlist", "listing", "listed"}}
          = IF lock = Nobody THEN {} ELSE {lock}
    /\ Cardinality(Cached(names)) <= MaxCached
    /\ phase = "down" => held = {} /\ \A c \in Callers : names[c] = NoVerdict

\* A listing that is asked for after an upload was acknowledged reports that
\* upload or a later one, whatever was cached or being listed at the time
\* (store_seal: "keeps a client from being told a seal it just stored is
\* still missing").
UploadedIsListed ==
    [][\A r \in Requests :
          (req'[r].outcome = "listed" /\ req[r].outcome = "none") =>
             \A k \in Keys : listing'.objects[k].write >= req[r].since[k]]_vars

\* A put that is acknowledged, uploaded or unchanged, found or made the
\* store hold an object of its size under its key while it was under way.
AckedWasStored ==
    [][\A r \in Requests :
          (req'[r].outcome \in {"uploaded", "unchanged"} /\ req[r].outcome = "none") =>
             SizeOf[req[r].asks.version] \in req[r].sizes]_vars

\* A request is only taken for a machine that its caller was within the
\* lifetime of a cached verdict (less than TTL ticks) and of the lookup it came
\* from after that had answered (for a token up to one tick), over any number of
\* lookups at once, answers that arrive late, and a full cache.
Late(r) ==
    IF Caller[r] \in Pods THEN 1
    ELSE IF req[r].at = "named" THEN req[r].age ELSE names[Caller[r]].late
NamedRecently ==
    [][\A r \in Requests :
          (req[r].at \in {"resolving", "named"} /\ req'[r].name # Nobody /\ req'[r].at # "named") =>
             \/ req'[r].name = identity[Caller[r]].name
             \/ identity[Caller[r]].since < TTL + Late(r)]_vars

\* A request waits for ever only for a body, a child or a lookup of its own, or
\* for children of others, that last for ever in a broker that is never stopped:
\* not for the body or the lookup of another, a client that left, a child that
\* failed, or a listing that holds its lock while it waits for a permit.
Outside(r) ==
    \/ req[r].at \in {"spooling"} \cup Running
    \/ req[r].at \in Lookup /\ Caller[r] \notin Pods
HangsFor(r) == phase = "serving" /\ Outside(r)
ChildHangs(r) == phase = "serving" /\ req[r].at \in Running
EveryRequestEnds ==
    \A r \in Requests :
        \/ <>[]HangsFor(r)
        \/ \E q \in Requests : <>[]ChildHangs(q)
        \/ (req[r].at = "resolving") ~> (req[r].at \in Ended)

\* What a client is told of uploads is true: in an acknowledgment, and in every
\* listing from then on.
AcksAreTrue == UploadedIsListed /\ AckedWasStored

-----------------------------------------------------------------------------
(* What each step relies on: with TypeOK, an inductive invariant.          *)

Outcomes == {"none", "refused", "failed", "unchanged", "uploaded", "listed", "redirected"}
Asked == {New.asks} \cup UNION {UNION {s.asks[r] : r \in Requests} : s \in Scenes}
Names == Callers \cup {Other, Nobody}
Objects == [Keys -> [version : Versions \cup {0}, write : Nat]]
Acks == [Keys -> Nat]
Futures ==
    [at : Places, asks : Asked, name : Names, age : Nat, wrote : Nat,
     since : {<<>>} \cup Acks, seen : {<<>>} \cup Objects,
     sizes : SUBSET (Nat \cup {-1}), outcome : Outcomes]

FieldsOk ==
    /\ scene \in Scenes
    /\ store \in Objects /\ acked \in Acks
    /\ identity \in [Callers -> [name : Names, since : Nat]]
    /\ req \in [Requests -> Futures]
    /\ IsFiniteSet(held) /\ lock \in Requests \cup {Nobody}
    /\ listing \in [known : BOOLEAN, fresh : BOOLEAN, objects : Objects]
    /\ names \in [Callers -> [name : Names, age : Nat, late : Nat]]
    /\ ticks \in Nat /\ stops \in Nat

\* A request is where its kind leads, knows what it asks, has no outcome before
\* it ends and no name before it is named.
Lists == {"wantlock", "wantlist", "listing", "listed"}
Puts == {"spooling", "wantsize", "sizing", "wantput", "putting", "landed", "clearing"}
Fits(f) ==
    /\ f.at \in Lists => f.asks.kind = "list"
    /\ f.at \in Puts => f.asks.kind = "put"
    /\ f.at \notin Ended \cup {"new"} =>
          /\ f.asks.kind \in {"put", "list", "read"} /\ f.asks.key \in Keys
          /\ f.asks.kind = "put" => f.asks.version \in Versions
    /\ f.at \notin Ended => f.outcome = "none"
    /\ f.at \in {"new", "resolving", "asking"} => f.name = Nobody /\ f.age = 0

\* A listing in the making is no older than what was acknowledged, since no put
\* is acknowledged while the lock is held; a put knows which write was its own.
Current(f) ==
    /\ f.at = "listed" => f.seen \in Objects /\ \A k \in Keys : f.seen[k].write >= acked[k]
    /\ (f.at \notin Ended \cup {"new"} /\ f.asks.kind = "list") =>
          f.since \in Acks /\ \A k \in Keys : f.since[k] <= acked[k]
    /\ f.at \in {"landed", "clearing"} => f.wrote <= store[f.asks.key].write

\* A put under way has seen every size its key had meanwhile, its own once it
\* has landed.
SizesSeen(f) ==
    (f.at \notin Ended \cup {"new"} /\ f.asks.kind = "put") =>
        /\ Size(store[f.asks.key]) \in f.sizes
        /\ f.at \in {"landed", "clearing"} => SizeOf[f.asks.version] \in f.sizes

\* A verdict on its way, or in the cache, names who is there, or its age says
\* since when it does not; one on a token is not long on its way.
Aged(f, c) ==
    f.at = "named" =>
        /\ c \in Pods => f.age <= 1
        /\ f.name = identity[c].name \/ identity[c].since <= f.age
NamesAge ==
    \A c \in Callers : names[c].name # Nobody =>
        /\ c \in Pods => names[c].late <= 1
        /\ \/ names[c].name = identity[c].name
           \/ names[c].age >= TTL
           \/ identity[c].since <= names[c].age + names[c].late

RequestsFit ==
    /\ phase = "down" => \A r \in Requests : ~Active(r)
    /\ \A r \in Requests :
          Fits(req[r]) /\ Current(req[r]) /\ SizesSeen(req[r]) /\ Aged(req[r], Caller[r])

\* What is kept of a listing is no older than what was acknowledged: an
\* acknowledgment forgets it.
ListingIsCurrent == listing.known => \A k \in Keys : listing.objects[k].write >= acked[k]

BrokerIInv == TypeOK /\ FieldsOk /\ RequestsFit /\ ListingIsCurrent /\ NamesAge
==============================================================================
