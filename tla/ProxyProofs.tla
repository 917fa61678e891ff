------------------------------ MODULE ProxyProofs ------------------------------
(***************************************************************************)
(* What a listener captures and what it leaves behind, for any number of   *)
(* requests, messages, permits and chunks: the invariants of Relay over    *)
(* HTTP and the WebSocket, and what Handover promises of a daemon and the  *)
(* copies that follow it.                                                  *)
(***************************************************************************)
EXTENDS Handover, FiniteSetTheorems, SequenceTheorems, TLAPS

-----------------------------------------------------------------------------
(* HTTP: where each request is, with its turn, its tee and its channel.    *)

HttpTypes ==
    /\ scene \in Scenes
    /\ server \in {"serving", "draining", "settling", "aborting", "released", "exited"}
    /\ expired \in BOOLEAN /\ cancelled \in BOOLEAN
    /\ tasks \subseteq Requests \cup {Socket} /\ gate \subseteq Requests \cup {Socket}
    /\ preparing \subseteq Requests
    /\ at \in [Requests -> {"new", "idle", "gate", "sent", "preparing", "passing", "teed",
                            "over", "closed"}]
    /\ upstream \in [Requests -> {"open", "ended", "torn"}]
    /\ tee \in [Requests -> [pc : {"none", "poll", "send", "error", "commit"}, got : 0..Chunks]]
    /\ channel \in [Requests -> Seq({"send", "error"})]
    /\ seen \in [Requests -> Nat]
    /\ turn \in [Requests -> [state : States, complete : BOOLEAN, text : 0..Chunks]]

Untouched(r) ==
    /\ turn[r].state = "none" /\ ~turn[r].complete /\ r \notin tasks
    /\ tee[r].pc = "none" /\ tee[r].got = 0 /\ channel[r] = <<>> /\ seen[r] = 0

\* The handler of a request, its preparation and its permit.
HandlerFlow(r) ==
    /\ r \in preparing => Untouched(r) /\ at[r] \in {"preparing", "closed"}
    /\ at[r] \in {"new", "idle", "gate", "sent", "passing"} => Untouched(r)
    /\ at[r] = "preparing" => r \in preparing
    /\ r \in gate => at[r] \in {"sent", "preparing"}
    /\ at[r] = "gate" \/ r \in gate => r \in Captured
    /\ at[r] = "over" => turn[r].state \notin Kept \/ cancelled

\* Its turn and the task that captures it.
TurnFlow(r) ==
    /\ r \in tasks => turn[r].state \in Kept
    /\ turn[r].state = "none" => tee[r].pc = "none"
    /\ turn[r].state = "open" => r \in tasks /\ tee[r].pc \in {"poll", "send", "error"}
    /\ turn[r].state = "committing" => tee[r].pc = "commit" /\ (r \in tasks \/ cancelled)
    /\ turn[r].state = "done" => tee[r].pc = "commit"
    /\ turn[r].complete => /\ tee[r].pc = "commit" /\ tee[r].got = Chunks
                           /\ upstream[r] = "ended" /\ turn[r].text = Chunks

\* What the client has and will have of what was read.
ChunkFlow(r) ==
    /\ seen[r] + Len(channel[r]) <= tee[r].got + 1
    /\ ~Gone(r) =>
          /\ tee[r].pc \in {"poll", "error"} \/ turn[r].complete =>
                seen[r] + Len(channel[r]) = tee[r].got
          /\ tee[r].pc = "send" => seen[r] + Len(channel[r]) + 1 = tee[r].got

Flow(r) == HandlerFlow(r) /\ TurnFlow(r) /\ ChunkFlow(r)

GateOK == IsFiniteSet(gate) /\ Cardinality(gate) <= Permits

ServerOK ==
    /\ server \in {"settling", "aborting", "released", "exited"} => Connections = {}
    /\ server \in {"released", "exited"} => tasks \subseteq Tunnelled

HttpIInv ==
    /\ HttpTypes /\ GateOK /\ ServerOK
    /\ \A r \in Requests : Flow(r)

\* Nothing of a request changes.
Same(s) ==
    /\ at'[s] = at[s] /\ upstream'[s] = upstream[s] /\ tee'[s] = tee[s]
    /\ channel'[s] = channel[s] /\ seen'[s] = seen[s] /\ turn'[s] = turn[s]
    /\ s \in tasks' <=> s \in tasks
    /\ s \in gate' => s \in gate
    /\ s \in preparing' <=> s \in preparing

LEMMA SameKeeps ==
    ASSUME NEW s \in Requests, Flow(s), Same(s), cancelled => cancelled'
    PROVE  Flow(s)'
<1>1. HandlerFlow(s)' BY DEF Flow, Same, HandlerFlow, Untouched
<1>2. TurnFlow(s)' BY DEF Flow, Same, TurnFlow
<1>3. ChunkFlow(s)' BY DEF Flow, Same, ChunkFlow, Gone
<1> QED BY <1>1, <1>2, <1>3 DEF Flow

LEMMA GateShrinks ==
    ASSUME GateOK, gate' \subseteq gate
    PROVE  GateOK'
<1>1. IsFiniteSet(gate') /\ Cardinality(gate') <= Cardinality(gate)
    BY FS_Subset DEF GateOK
<1>2. Cardinality(gate) \in Nat /\ Cardinality(gate') \in Nat
    BY <1>1, FS_CardinalityType DEF GateOK
<1> QED BY <1>1, <1>2, ProxyAssumption DEF GateOK

LEMMA GateAdmits ==
    ASSUME GateOK, NEW who, Cardinality(gate) < Permits, gate' = gate \cup {who}
    PROVE  GateOK'
<1>1. /\ IsFiniteSet(gate') /\ Cardinality(gate) \in Nat
      /\ Cardinality(gate') = IF who \in gate THEN Cardinality(gate) ELSE Cardinality(gate) + 1
    BY FS_AddElement, FS_CardinalityType DEF GateOK
<1>2. Permits \in Nat BY ProxyAssumption
<1> QED BY <1>1, <1>2 DEF GateOK

\* The handler: where it is, its permit and its preparation.
LEMMA HandlerKeeps ==
    ASSUME HttpTypes, NEW r \in Requests, Flow(r),
           \/ Connect(r) \/ Request(r) \/ Admit(r) \/ UpstreamFails(r) \/ UpstreamAnswers(r)
           \/ PrepareFails(r) \/ Passes(r) \/ ClientLeaves(r) \/ ClientSeesEnd(r)
    PROVE  HttpTypes' /\ Flow(r)' /\ \A s \in Requests \ {r} : Same(s)
<1> USE DEF Connect, Request, Admit, UpstreamFails, UpstreamAnswers, PrepareFails, Passes,
        ClientLeaves, ClientSeesEnd, Goto, Returned, SenderDropped, lifecycle, streams
<1>1. UNCHANGED <<lifecycle, tasks, streams, turn>> OBVIOUS
<1>2. PICK place \in {"idle", "gate", "sent", "preparing", "passing", "over", "closed", "new", "teed"} :
          at' = [at EXCEPT ![r] = place]
    BY DEF HttpTypes
<1>3. preparing' \subseteq preparing \cup {r} /\ preparing \ {r} \subseteq preparing'
      /\ gate' \subseteq gate \cup {r}
    OBVIOUS
<1>4. HttpTypes' BY <1>1, <1>2, <1>3 DEF HttpTypes
<1>5. at'[r] = place /\ \A s \in Requests \ {r} : at'[s] = at[s] BY <1>2 DEF HttpTypes
<1>6. \A s \in Requests \ {r} : Same(s) BY <1>1, <1>3, <1>5 DEF Same
<1>7. HandlerFlow(r)'
  <2>1. CASE UpstreamAnswers(r) BY <1>1, <1>5, <2>1 DEF Flow, HandlerFlow, Untouched, HttpTypes
  <2>2. CASE PrepareFails(r) BY <1>1, <1>5, <2>2 DEF Flow, HandlerFlow, Untouched, HttpTypes
  <2>3. CASE ClientSeesEnd(r)
      BY <1>1, <1>5, <2>3 DEF Flow, HandlerFlow, TurnFlow, Untouched, HttpTypes, Kept
  <2>4. CASE UpstreamFails(r) \/ Passes(r)
      BY <1>1, <1>5, <2>4 DEF Flow, HandlerFlow, Untouched, HttpTypes, Kept
  <2>5. CASE ClientLeaves(r) BY <1>1, <1>5, <2>5 DEF Flow, HandlerFlow, Untouched, HttpTypes
  <2>6. CASE Connect(r) \/ Request(r) BY <1>1, <1>5, <2>6 DEF Flow, HandlerFlow, Untouched, HttpTypes
  <2>7. CASE Admit(r) BY <1>1, <1>5, <2>7 DEF Flow, HandlerFlow, Untouched, HttpTypes
  <2> QED BY <2>1, <2>2, <2>3, <2>4, <2>5, <2>6, <2>7
<1>8. TurnFlow(r)' BY <1>1 DEF Flow, TurnFlow
<1>9. ChunkFlow(r)' BY <1>1, <1>5 DEF Flow, ChunkFlow, Gone
<1> QED BY <1>4, <1>6, <1>7, <1>8, <1>9 DEF Flow

LEMMA PreparedKeeps ==
    ASSUME HttpTypes, NEW r \in Requests, Flow(r), Prepared(r)
    PROVE  HttpTypes' /\ Flow(r)' /\ \A s \in Requests \ {r} : Same(s)
<1> USE DEF Prepared, Goto, Returned, lifecycle
<1>1. /\ UNCHANGED <<lifecycle, upstream, channel, seen>>
      /\ r \in preparing /\ preparing' = preparing \ {r}
      /\ Untouched(r) /\ at[r] \in {"preparing", "closed"}
    BY DEF Flow, HandlerFlow
<1>2. CASE at[r] = "preparing" /\ ~cancelled
  <2>1. /\ turn' = [turn EXCEPT ![r].state = "open"] /\ tee' = [tee EXCEPT ![r].pc = "poll"]
        /\ at' = [at EXCEPT ![r] = "teed"] /\ tasks' = tasks \cup {r} /\ gate' = gate \ {r}
      BY <1>2
  <2>2. /\ turn'[r].state = "open" /\ turn'[r].complete = turn[r].complete
        /\ tee'[r].pc = "poll" /\ tee'[r].got = tee[r].got /\ at'[r] = "teed"
        /\ \A s \in Requests \ {r} : turn'[s] = turn[s] /\ tee'[s] = tee[s] /\ at'[s] = at[s]
      BY <2>1 DEF HttpTypes
  <2>3. HttpTypes' BY <1>1, <2>1 DEF HttpTypes, States
  <2>4. \A s \in Requests \ {r} : Same(s) BY <1>1, <2>1, <2>2 DEF Same
  <2>5. HandlerFlow(r)' BY <1>1, <2>1, <2>2 DEF HandlerFlow
  <2>6. TurnFlow(r)' BY <1>1, <2>1, <2>2 DEF TurnFlow, Untouched, Kept
  <2>7. ChunkFlow(r)' BY <1>1, <2>2 DEF ChunkFlow, Untouched
  <2> QED BY <2>3, <2>4, <2>5, <2>6, <2>7 DEF Flow
<1>3. CASE ~(at[r] = "preparing" /\ ~cancelled)
  <2>1. /\ turn' = [turn EXCEPT ![r].state = "left"] /\ UNCHANGED <<tasks, tee>>
        /\ gate' \subseteq gate /\ (at[r] = "preparing" => gate' = gate \ {r})
        /\ at' = [at EXCEPT ![r] = IF at[r] = "preparing" THEN "teed" ELSE @]
    <3>1. UNCHANGED at => at' = [at EXCEPT ![r] = at[r]] BY DEF HttpTypes
    <3> QED BY <1>3, <3>1
  <2>2. /\ turn'[r].state = "left" /\ turn'[r].complete = turn[r].complete
        /\ at'[r] = IF at[r] = "preparing" THEN "teed" ELSE at[r]
        /\ \A s \in Requests \ {r} : turn'[s] = turn[s] /\ at'[s] = at[s]
      BY <2>1 DEF HttpTypes
  <2>3. HttpTypes' BY <1>1, <2>1 DEF HttpTypes, States
  <2>4. \A s \in Requests \ {r} : Same(s) BY <1>1, <2>1, <2>2 DEF Same
  <2>5. HandlerFlow(r)' BY <1>1, <2>1, <2>2 DEF Flow, HandlerFlow
  <2>6. TurnFlow(r)' BY <1>1, <2>1, <2>2 DEF TurnFlow, Untouched, Kept
  <2>7. ChunkFlow(r)' BY <1>1, <2>1, <2>2 DEF ChunkFlow, Untouched, Gone
  <2> QED BY <2>3, <2>4, <2>5, <2>6, <2>7 DEF Flow
<1> QED BY <1>2, <1>3

\* What Finish leaves of a turn.
LEMMA FinishKeeps ==
    ASSUME HttpTypes, NEW r \in Requests, Flow(r), NEW transport \in BOOLEAN,
           r \in tasks, tee[r].pc \in {"poll", "send", "error"},
           Finish(r, transport),
           UNCHANGED <<lifecycle, tasks, gate, at, preparing, seen>>,
           transport => ~Gone(r) /\ tee[r].pc = "poll" /\ UNCHANGED channel,
           upstream' = IF transport THEN [upstream EXCEPT ![r] = "ended"] ELSE upstream,
           \/ UNCHANGED channel
           \/ /\ tee[r].pc = "error" /\ ~Gone(r)
              /\ channel' = [channel EXCEPT ![r] = Append(@, "error")]
    PROVE  HttpTypes' /\ Flow(r)' /\ \A s \in Requests \ {r} : Same(s)
<1> USE DEF lifecycle
<1>1. Chunks \in Nat BY ProxyAssumption
<1>2. /\ turn[r].state = "open" /\ ~turn[r].complete /\ r \notin preparing
      /\ at[r] \notin {"new", "idle", "gate", "sent", "passing"} /\ (at[r] = "over" => cancelled)
    BY DEF Flow, HandlerFlow, TurnFlow, Untouched, Kept
<1>a. PICK c \in BOOLEAN : c <=> transport /\ tee[r].got = Chunks OBVIOUS
<1>b. /\ tee' = [tee EXCEPT ![r].pc = "commit"]
       /\ turn' = [turn EXCEPT ![r] = [state |-> "committing", text |-> tee[r].got, complete |-> c]]
  <2>1. c = ResponseComplete(r, transport) BY <1>a DEF ResponseComplete
  <2> QED BY <2>1 DEF Finish
<1>3. /\ tee'[r].pc = "commit" /\ tee'[r].got = tee[r].got
      /\ turn'[r].state = "committing" /\ turn'[r].text = tee[r].got /\ turn'[r].complete = c
      /\ \A s \in Requests \ {r} : turn'[s] = turn[s] /\ tee'[s] = tee[s]
    BY <1>b DEF HttpTypes
<1>4. upstream'[r] = (IF transport THEN "ended" ELSE upstream[r])
      /\ \A s \in Requests \ {r} : upstream'[s] = upstream[s] /\ channel'[s] = channel[s]
    BY DEF HttpTypes
<1>5. channel[r] \in Seq({"send", "error"}) /\ seen[r] \in Nat /\ tee[r].got \in 0..Chunks
      /\ Len(channel[r]) \in Nat
    BY DEF HttpTypes
<1>6. HttpTypes'
  <2>1. channel' \in [Requests -> Seq({"send", "error"})]
    <3>1. Append(channel[r], "error") \in Seq({"send", "error"}) BY <1>5
    <3> QED BY <3>1 DEF HttpTypes
  <2>2. turn' \in [Requests -> [state : States, complete : BOOLEAN, text : 0..Chunks]]
        /\ tee' \in [Requests -> [pc : {"none", "poll", "send", "error", "commit"}, got : 0..Chunks]]
    <3>1. [state |-> "committing", text |-> tee[r].got, complete |-> c]
              \in [state : States, complete : BOOLEAN, text : 0..Chunks]
        BY <1>5 DEF States
    <3>2. turn' \in [Requests -> [state : States, complete : BOOLEAN, text : 0..Chunks]]
        BY <1>b, <3>1 DEF HttpTypes
    <3>3. tee' \in [Requests -> [pc : {"none", "poll", "send", "error", "commit"}, got : 0..Chunks]]
      <4>1. [tee[r] EXCEPT !.pc = "commit"]
                \in [pc : {"none", "poll", "send", "error", "commit"}, got : 0..Chunks]
          BY DEF HttpTypes
      <4> QED BY <1>b, <4>1 DEF HttpTypes
    <3> QED BY <3>2, <3>3
  <2>3. upstream' \in [Requests -> {"open", "ended", "torn"}] BY DEF HttpTypes
  <2> QED BY <2>1, <2>2, <2>3 DEF HttpTypes
<1>7. \A s \in Requests \ {r} : Same(s) BY <1>3, <1>4 DEF Same
<1>8. HandlerFlow(r)' BY <1>2, <1>3 DEF HandlerFlow, Flow
<1>9. TurnFlow(r)' BY <1>a, <1>2, <1>3, <1>4 DEF TurnFlow, Kept
<1>10. ChunkFlow(r)'
  <2>1. CASE UNCHANGED channel BY <1>a, <1>1, <1>3, <1>5, <2>1 DEF ChunkFlow, Flow, Gone
  <2>2. CASE /\ tee[r].pc = "error" /\ ~Gone(r) /\ ~transport
             /\ channel' = [channel EXCEPT ![r] = Append(@, "error")]
    <3>1. channel'[r] = Append(channel[r], "error") BY <2>2 DEF HttpTypes
    <3>2. Len(channel'[r]) = Len(channel[r]) + 1 BY <1>5, <3>1
    <3> QED BY <1>a, <1>3, <1>5, <2>2, <3>2 DEF ChunkFlow, Flow, Gone
  <2> QED BY <2>1, <2>2
<1> QED BY <1>6, <1>7, <1>8, <1>9, <1>10 DEF Flow

\* The task that reads the origin and fills the channel, and its end.
LEMMA TeeKeeps ==
    ASSUME HttpTypes, NEW r \in Requests, Flow(r),
           ClientClosed(r) \/ IdleTimeout(r) \/ ReadChunk(r) \/ ReadEnd(r) \/ ReadError(r) \/ Send(r)
    PROVE  HttpTypes' /\ Flow(r)' /\ \A s \in Requests \ {r} : Same(s)
<1> USE DEF Polls, lifecycle
<1>1. Chunks \in Nat BY ProxyAssumption
<1>2. channel[r] \in Seq({"send", "error"}) /\ seen[r] \in Nat /\ tee[r].got \in 0..Chunks
      /\ Len(channel[r]) \in Nat
    BY DEF HttpTypes
<1>3. CASE ClientClosed(r) \/ IdleTimeout(r) \/ ReadEnd(r)
  <2>1. PICK transport \in BOOLEAN :
            /\ Finish(r, transport)
            /\ UNCHANGED <<lifecycle, tasks, gate, at, preparing, seen, channel>>
            /\ transport => ~Gone(r)
            /\ upstream' = IF transport THEN [upstream EXCEPT ![r] = "ended"] ELSE upstream
      BY <1>3 DEF ClientClosed, IdleTimeout, ReadEnd, Idle
  <2>2. r \in tasks /\ tee[r].pc = "poll" BY <1>3 DEF ClientClosed, IdleTimeout, ReadEnd, Idle
  <2> QED BY <2>1, <2>2, FinishKeeps
<1>4. CASE ReadChunk(r)
  <2>1. /\ UNCHANGED <<lifecycle, tasks, gate, at, preparing, upstream, channel, seen, turn>>
        /\ r \in tasks /\ tee[r].pc = "poll" /\ ~Gone(r) /\ tee[r].got < Chunks
        /\ tee' = [tee EXCEPT ![r] = [pc |-> "send", got |-> tee[r].got + 1]]
      BY <1>4 DEF ReadChunk
  <2>2. /\ tee'[r].pc = "send" /\ tee'[r].got = tee[r].got + 1
        /\ \A s \in Requests \ {r} : tee'[s] = tee[s]
      BY <2>1 DEF HttpTypes
  <2>3. HttpTypes'
    <3>1. [pc |-> "send", got |-> tee[r].got + 1]
              \in [pc : {"none", "poll", "send", "error", "commit"}, got : 0..Chunks]
        BY <1>1, <1>2, <2>1
    <3> QED BY <2>1, <3>1 DEF HttpTypes
  <2>4. \A s \in Requests \ {r} : Same(s) BY <2>1, <2>2 DEF Same
  <2>5. HandlerFlow(r)' BY <2>1, <2>2 DEF Flow, HandlerFlow, Untouched
  <2>6. TurnFlow(r)' BY <2>1, <2>2 DEF Flow, TurnFlow, Kept
  <2>7. ChunkFlow(r)' BY <1>1, <1>2, <2>1, <2>2 DEF Flow, TurnFlow, ChunkFlow, Gone
  <2> QED BY <2>3, <2>4, <2>5, <2>6, <2>7 DEF Flow
<1>5. CASE ReadError(r)
  <2>1. /\ UNCHANGED <<lifecycle, tasks, gate, at, preparing, channel, seen, turn>>
        /\ r \in tasks /\ tee[r].pc = "poll" /\ ~Gone(r)
        /\ tee' = [tee EXCEPT ![r].pc = "error"] /\ upstream' = [upstream EXCEPT ![r] = "torn"]
      BY <1>5 DEF ReadError
  <2>2. /\ tee'[r].pc = "error" /\ tee'[r].got = tee[r].got
        /\ \A s \in Requests \ {r} : tee'[s] = tee[s] /\ upstream'[s] = upstream[s]
      BY <2>1 DEF HttpTypes
  <2>3. HttpTypes'
    <3>1. [tee[r] EXCEPT !.pc = "error"]
              \in [pc : {"none", "poll", "send", "error", "commit"}, got : 0..Chunks]
        BY DEF HttpTypes
    <3> QED BY <2>1, <3>1 DEF HttpTypes
  <2>4. \A s \in Requests \ {r} : Same(s) BY <2>1, <2>2 DEF Same
  <2>5. HandlerFlow(r)' BY <2>1, <2>2 DEF Flow, HandlerFlow, Untouched
  <2>6. TurnFlow(r)' BY <2>1, <2>2 DEF Flow, TurnFlow, Kept
  <2>7. ChunkFlow(r)' BY <1>1, <1>2, <2>1, <2>2 DEF Flow, TurnFlow, ChunkFlow, Gone
  <2> QED BY <2>3, <2>4, <2>5, <2>6, <2>7 DEF Flow
<1>6. CASE Send(r)
  <2>1. /\ UNCHANGED <<lifecycle, tasks, gate, at, preparing, upstream, seen>>
        /\ r \in tasks /\ tee[r].pc \in {"send", "error"}
      BY <1>6 DEF Send
  <2>2. CASE Gone(r) \/ tee[r].pc = "error"
    <3>1. /\ Finish(r, FALSE)
          /\ \/ UNCHANGED channel
             \/ /\ tee[r].pc = "error" /\ ~Gone(r)
                /\ channel' = [channel EXCEPT ![r] = Append(@, "error")]
        BY <1>6, <2>2 DEF Send
    <3> QED BY <2>1, <3>1, FinishKeeps
  <2>3. CASE ~Gone(r) /\ tee[r].pc = "send"
    <3>1. /\ channel' = [channel EXCEPT ![r] = Append(@, "send")]
          /\ tee' = [tee EXCEPT ![r].pc = "poll"] /\ UNCHANGED turn
        BY <1>6, <2>3 DEF Send
    <3>2. Append(channel[r], "send") \in Seq({"send", "error"})
          /\ Len(Append(channel[r], "send")) = Len(channel[r]) + 1
        BY <1>2
    <3>3. /\ tee'[r].pc = "poll" /\ tee'[r].got = tee[r].got /\ Len(channel'[r]) = Len(channel[r]) + 1
          /\ \A s \in Requests \ {r} : tee'[s] = tee[s] /\ channel'[s] = channel[s]
        BY <3>1, <3>2 DEF HttpTypes
    <3>4. HttpTypes'
      <4>1. [tee[r] EXCEPT !.pc = "poll"]
                \in [pc : {"none", "poll", "send", "error", "commit"}, got : 0..Chunks]
          BY DEF HttpTypes
      <4> QED BY <2>1, <3>1, <3>2, <4>1 DEF HttpTypes
    <3>5. \A s \in Requests \ {r} : Same(s) BY <2>1, <3>1, <3>3 DEF Same
    <3>6. HandlerFlow(r)' BY <2>1, <2>3, <3>1 DEF Flow, HandlerFlow, Untouched
    <3>7. TurnFlow(r)' BY <2>1, <2>3, <3>1, <3>3 DEF Flow, TurnFlow, Kept
    <3>8. ChunkFlow(r)' BY <1>2, <2>1, <2>3, <3>1, <3>3 DEF Flow, TurnFlow, ChunkFlow, Gone
    <3> QED BY <3>4, <3>5, <3>6, <3>7, <3>8 DEF Flow
  <2> QED BY <2>1, <2>2, <2>3
<1> QED BY <1>3, <1>4, <1>5, <1>6

LEMMA TurnEndKeeps ==
    ASSUME HttpTypes, NEW r \in Requests, Flow(r), Committed(r) \/ Aborted(r)
    PROVE  HttpTypes' /\ Flow(r)' /\ \A s \in Requests \ {r} : Same(s)
<1> USE DEF lifecycle, streams
<1>1. UNCHANGED <<lifecycle, gate, at, preparing, streams>> /\ tasks' = tasks \ {r}
    BY DEF Committed, Aborted
<1>2. PICK state \in {"open", "committing", "done", "left"} :
          /\ turn' = [turn EXCEPT ![r].state = state]
          /\ \/ turn[r].state = "committing" /\ state = "done"
             \/ cancelled /\ turn[r].state = "open" /\ state = "left"
             \/ cancelled /\ turn[r].state = "committing" /\ state = "committing"
  <2>1. CASE Committed(r) BY <2>1 DEF Committed
  <2>2. CASE Aborted(r)
    <3>1. turn[r].state \in {"open", "committing"} BY <2>2 DEF Aborted, Flow, TurnFlow, Kept
    <3>2. turn' = [turn EXCEPT ![r].state = IF turn[r].state = "open" THEN "left" ELSE turn[r].state]
        BY <2>2 DEF Aborted
    <3> QED BY <2>2, <3>1, <3>2 DEF Aborted
  <2> QED BY <2>1, <2>2
<1>3. /\ turn'[r].state = state /\ turn'[r].complete = turn[r].complete /\ turn'[r].text = turn[r].text
      /\ \A s \in Requests \ {r} : turn'[s] = turn[s]
    BY <1>2 DEF HttpTypes
<1>4. HttpTypes' BY <1>1, <1>2 DEF HttpTypes, States
<1>5. \A s \in Requests \ {r} : Same(s) BY <1>1, <1>3 DEF Same
<1>6. HandlerFlow(r)' BY <1>1, <1>2, <1>3 DEF Flow, HandlerFlow, Untouched, Kept
<1>7. TurnFlow(r)' BY <1>1, <1>2, <1>3 DEF Flow, TurnFlow, Kept
<1>8. ChunkFlow(r)' BY <1>1, <1>3 DEF Flow, ChunkFlow, Gone
<1> QED BY <1>4, <1>5, <1>6, <1>7, <1>8 DEF Flow

LEMMA ClientReadsKeeps ==
    ASSUME HttpTypes, NEW r \in Requests, Flow(r), ClientReads(r)
    PROVE  HttpTypes' /\ Flow(r)' /\ \A s \in Requests \ {r} : Same(s)
<1> USE DEF lifecycle
<1>1. /\ UNCHANGED <<lifecycle, tasks, gate, preparing, upstream, tee, turn>>
      /\ at[r] = "teed" /\ channel[r] # <<>>
      /\ channel' = [channel EXCEPT ![r] = Tail(@)]
    BY DEF ClientReads
<1>2. channel[r] \in Seq({"send", "error"}) /\ seen[r] \in Nat /\ tee[r].got \in Nat
    BY ProxyAssumption DEF HttpTypes
<1>3. Tail(channel[r]) \in Seq({"send", "error"}) /\ Len(channel[r]) \in Nat
      /\ Len(Tail(channel[r])) = Len(channel[r]) - 1 /\ Len(channel[r]) > 0
    BY <1>1, <1>2
<1>4. Len(channel'[r]) = Len(channel[r]) - 1 /\ \A s \in Requests \ {r} : channel'[s] = channel[s]
    BY <1>1, <1>3 DEF HttpTypes
<1>5. CASE seen' = [seen EXCEPT ![r] = @ + 1] /\ UNCHANGED at
  <2>1. seen'[r] = seen[r] + 1 /\ \A s \in Requests \ {r} : seen'[s] = seen[s]
      BY <1>5 DEF HttpTypes
  <2>2. HttpTypes' BY <1>1, <1>3, <1>5 DEF HttpTypes
  <2>3. \A s \in Requests \ {r} : Same(s) BY <1>1, <1>4, <1>5, <2>1 DEF Same
  <2>4. HandlerFlow(r)' BY <1>1, <1>5 DEF Flow, HandlerFlow
  <2>5. TurnFlow(r)' BY <1>1 DEF Flow, TurnFlow
  <2>6. ChunkFlow(r)' BY <1>1, <1>2, <1>3, <1>4, <1>5, <2>1 DEF Flow, ChunkFlow, Gone
  <2> QED BY <2>2, <2>3, <2>4, <2>5, <2>6 DEF Flow
<1>6. CASE Goto(r, "closed") /\ UNCHANGED seen
  <2>1. at'[r] = "closed" /\ \A s \in Requests \ {r} : at'[s] = at[s]
      BY <1>6 DEF HttpTypes, Goto
  <2>2. HttpTypes' BY <1>1, <1>3, <1>6 DEF HttpTypes, Goto
  <2>3. \A s \in Requests \ {r} : Same(s) BY <1>1, <1>4, <1>6, <2>1 DEF Same
  <2>4. HandlerFlow(r)' BY <1>1, <2>1 DEF Flow, HandlerFlow
  <2>5. TurnFlow(r)' BY <1>1 DEF Flow, TurnFlow
  <2>6. ChunkFlow(r)' BY <1>1, <1>2, <1>3, <1>4, <1>6, <2>1 DEF Flow, ChunkFlow, Gone
  <2> QED BY <2>2, <2>3, <2>4, <2>5, <2>6 DEF Flow
<1> QED BY <1>5, <1>6 DEF ClientReads

-----------------------------------------------------------------------------
(* The steps of Proxy together.                                            *)

LEMMA ServerKept ==
    ASSUME HttpTypes, ServerOK, NEW r \in Requests,
           \A s \in Requests \ {r} : at'[s] = at[s],
           server' = server,
           at[r] \in {"new", "closed"} => at'[r] \in {"new", "closed"} \/ server = "serving",
           tasks' \subseteq tasks \cup {r},
           r \in tasks \/ r \notin tasks' \/ at[r] \notin {"new", "closed"}
    PROVE  ServerOK'
BY DEF HttpTypes, ServerOK, Connections, Accepted

LEMMA HttpStepKeeps ==
    ASSUME HttpIInv, NEW r \in Requests, Handle(r) \/ Tee(r) \/ Client(r) \/ Origin(r)
    PROVE  HttpIInv'
<1> USE DEF HttpIInv
<1>1. HttpTypes' /\ Flow(r)' /\ \A s \in Requests \ {r} : Same(s)
    BY HandlerKeeps, PreparedKeeps, TeeKeeps, TurnEndKeeps, ClientReadsKeeps
       DEF Handle, Tee, Client, Origin
<1>2. UNCHANGED <<server, cancelled>> /\ tasks' \subseteq tasks \cup {r}
    BY DEF Handle, Tee, Client, Origin, lifecycle, Connect, Request, Admit, UpstreamFails,
           UpstreamAnswers, PrepareFails, Passes, ClientLeaves, ClientSeesEnd, Prepared,
           ClientClosed, IdleTimeout, ReadChunk, ReadEnd, ReadError, Send, Committed, Aborted,
           ClientReads
<1>3. GateOK'
  <2>1. CASE Admit(r) BY <2>1, GateAdmits DEF Admit
  <2>2. CASE ~Admit(r)
    <3>1. gate' \subseteq gate
        BY <2>2 DEF Handle, Tee, Client, Origin, Connect, Request, UpstreamFails, Returned,
               UpstreamAnswers, PrepareFails, Passes, ClientLeaves, ClientSeesEnd, Prepared,
               ClientClosed, IdleTimeout, ReadChunk, ReadEnd, ReadError, Send, Committed,
               Aborted, ClientReads
    <3> QED BY <3>1, GateShrinks
  <2> QED BY <2>1, <2>2
<1>4. /\ at[r] \in {"new", "closed"} => at'[r] \in {"new", "closed"} \/ server = "serving"
      /\ r \in tasks \/ r \notin tasks' \/ at[r] \notin {"new", "closed"}
  <2>1. CASE Handle(r) BY <2>1 DEF Handle, Admit, Prepared, PrepareFails, Goto, HttpTypes
  <2>2. CASE Tee(r)
      BY <2>2 DEF Tee, ClientClosed, IdleTimeout, Send, Committed, Aborted
  <2>3. CASE Client(r)
      BY <2>3 DEF Client, Connect, Request, ClientLeaves, ClientReads, ClientSeesEnd, Passes,
                  Goto, HttpTypes
  <2>4. CASE Origin(r)
      BY <2>4 DEF Origin, UpstreamFails, UpstreamAnswers, ReadChunk, ReadEnd, ReadError, Goto,
                  HttpTypes
  <2> QED BY <2>1, <2>2, <2>3, <2>4
<1>5. ServerOK' BY <1>1, <1>2, <1>4, ServerKept DEF Same
<1>6. \A s \in Requests : Flow(s)' BY <1>1, <1>2, SameKeeps
<1> QED BY <1>1, <1>3, <1>5, <1>6

LEMMA LifecycleKeeps ==
    ASSUME HttpIInv, Shutdown \/ Drain \/ Exit
    PROVE  HttpIInv'
<1> USE DEF HttpIInv
<1>1. CASE AbortConnections
  <2>1. /\ server' = "aborting" /\ cancelled' = TRUE
        /\ at' = [r \in Requests |-> IF r \in Connections THEN "closed" ELSE at[r]]
        /\ gate' = gate \ Connections
        /\ UNCHANGED <<scene, expired, tasks, preparing, streams, turn>>
      BY <1>1 DEF AbortConnections
  <2>2. HttpTypes' BY <2>1 DEF HttpTypes, streams
  <2>3. GateOK' BY <2>1, GateShrinks
  <2>4. ServerOK'
    <3>1. \A r \in Accepted : at'[r] \in {"new", "closed"}
        BY <2>1 DEF Connections, Accepted
    <3> QED BY <2>1, <3>1 DEF ServerOK, Connections, Accepted
  <2>5. ASSUME NEW r \in Requests PROVE Flow(r)'
    <3>1. at'[r] = (IF r \in Connections THEN "closed" ELSE at[r])
          /\ (r \in gate' => r \in gate /\ r \notin Connections)
        BY <2>1
    <3>2. Flow(r) OBVIOUS
    <3>3. HandlerFlow(r)' BY <2>1, <3>1, <3>2 DEF Flow, HandlerFlow, Untouched, streams
    <3>4. TurnFlow(r)' BY <2>1, <3>2 DEF Flow, TurnFlow, streams
    <3>5. ChunkFlow(r)' BY <2>1, <3>1, <3>2 DEF Flow, ChunkFlow, Gone, streams
    <3> QED BY <3>3, <3>4, <3>5 DEF Flow
  <2> QED BY <2>2, <2>3, <2>4, <2>5
<1>2. CASE Shutdown \/ DeadlinePasses \/ Joined \/ AbortTasks \/ Release \/ Exit
  <2> USE DEF Shutdown, DeadlinePasses, Joined, AbortTasks, Release, Exit, http, streams
  <2>1. UNCHANGED <<tasks, gate, http, scene>> /\ (cancelled => cancelled')
      BY <1>2 DEF HttpTypes
  <2>2. HttpTypes' BY <1>2 DEF HttpTypes
  <2>3. GateOK' BY <2>1, GateShrinks
  <2>4. ServerOK' BY <1>2 DEF ServerOK, Connections, AllEnded
  <2>5. \A r \in Requests : Flow(r)' BY <2>1, SameKeeps DEF Same
  <2> QED BY <2>2, <2>3, <2>4, <2>5
<1> QED BY <1>1, <1>2 DEF Drain

\* The relay shares the permits, the tasks and the drain, and nothing else.
LEMMA SocketStepKeeps ==
    ASSUME HttpIInv, UNCHANGED <<lifecycle, http>>,
           tasks' \subseteq tasks \/ server \in {"serving", "draining"},
           tasks' \ {Socket} = tasks \ {Socket},
           \/ gate' \subseteq gate /\ gate' \ {Socket} = gate \ {Socket}
           \/ gate' = gate \cup {Socket} /\ Cardinality(gate) < Permits
    PROVE  HttpIInv'
<1> USE DEF HttpIInv, lifecycle, http, streams
<1>1. Socket \notin Requests BY ProxyAssumption
<1>2. HttpTypes' BY DEF HttpTypes
<1>3. GateOK' BY GateShrinks, GateAdmits
<1>4. ServerOK' BY DEF ServerOK, Connections
<1>5. \A r \in Requests : Flow(r)' BY <1>1, SameKeeps DEF Same
<1> QED BY <1>2, <1>3, <1>4, <1>5

\* What the relay does to the state of Proxy.
LEMMA RelayIsBeside ==
    ASSUME RelayWorks \/ RelayAborted \/ RelayOutside
    PROVE  /\ UNCHANGED <<lifecycle, http>>
           /\ tasks' \subseteq tasks \/ server \in {"serving", "draining"}
           /\ tasks' \ {Socket} = tasks \ {Socket}
           /\ \/ gate' \subseteq gate /\ gate' \ {Socket} = gate \ {Socket}
              \/ gate' = gate \cup {Socket} /\ Cardinality(gate) < Permits
<1>1. CASE RelayWorks
    BY <1>1 DEF RelayWorks, AdmitFrame, Acquire, Ambiguous, Disable, Uncaptured, Judge, PrepareTurn,
           ReturnPermit, AdmitEvent, Observe, Close, RelayEnds, TurnCommitted, socket
<1>2. CASE RelayAborted BY <1>2 DEF RelayAborted
<1>3. CASE RelayOutside
    BY <1>3 DEF RelayOutside, Upgrade, FromClient, BinaryFromClient, Disable, Closes, ToUpstream,
           FromUpstream, ToClient
<1> QED BY <1>1, <1>2, <1>3

LEMMA HttpInitially == Init => HttpIInv
<1> SUFFICES ASSUME Init PROVE HttpIInv
    OBVIOUS
<1> USE DEF Init, HttpInit, HttpIInv
<1>1. Chunks \in Nat /\ Permits \in Nat BY ProxyAssumption
<1>2. HttpTypes
  <2>1. NoTurn \in [state : States, complete : BOOLEAN, text : 0..Chunks]
      BY <1>1 DEF NoTurn, States
  <2>2. [pc |-> "none", got |-> 0] \in [pc : {"none", "poll", "send", "error", "commit"}, got : 0..Chunks]
      BY <1>1
  <2>3. <<>> \in Seq({"send", "error"}) OBVIOUS
  <2>4. /\ turn \in [Requests -> [state : States, complete : BOOLEAN, text : 0..Chunks]]
        /\ tee \in [Requests -> [pc : {"none", "poll", "send", "error", "commit"}, got : 0..Chunks]]
        /\ channel \in [Requests -> Seq({"send", "error"})]
      BY <2>1, <2>2, <2>3
  <2> QED BY <2>4 DEF HttpTypes
<1>3. GateOK BY <1>1, FS_EmptySet DEF GateOK
<1>4. ServerOK BY DEF ServerOK
<1>5. ASSUME NEW r \in Requests PROVE Flow(r)
  <2>1. at[r] \in {"new", "closed"} BY DEF HttpTypes
  <2> QED BY <1>1, <2>1 DEF Flow, HandlerFlow, TurnFlow, ChunkFlow, Untouched, NoTurn
<1> QED BY <1>2, <1>3, <1>4, <1>5

LEMMA HttpPreserved == HttpIInv /\ [Next]_vars => HttpIInv'
<1> SUFFICES ASSUME HttpIInv, [Next]_vars PROVE HttpIInv'
    OBVIOUS
<1>1. CASE Lifecycle BY <1>1, LifecycleKeeps DEF Lifecycle
<1>2. CASE RelayWorks \/ RelayAborted \/ RelayOutside BY <1>2, RelayIsBeside, SocketStepKeeps
<1>3. CASE \E r \in Requests : Http(r) BY <1>3, HttpStepKeeps DEF Http
<1>4. CASE UNCHANGED vars BY <1>4, SocketStepKeeps DEF vars
<1> QED BY <1>1, <1>2, <1>3, <1>4 DEF Next

\* Who has seen the end of a captured response finds its turn in the vault, or
\* left to recovery, unless the drain was cut short (proxy.rs, the tee).
THEOREM ClientsSeeCommittedTurns == Spec => []EndFollowsCommit
<1>1. HttpIInv => EndFollowsCommit BY DEF HttpIInv, Flow, HandlerFlow, EndFollowsCommit
<1> QED BY <1>1, HttpInitially, HttpPreserved, PTL DEF Spec

-----------------------------------------------------------------------------
(* The daemon that exits and the copies that follow it.                    *)

HandoverTypes ==
    /\ held \subseteq AllPorts /\ sibling \in {"up", "joined"}
    /\ copy \in [pc : {"down", "bind", "ask", "yielded", "list", "recover", "serve"},
                 bound : 0..2, asked : 0..2, todo : SUBSET Requests]
    /\ closed \subseteq Requests

\* What a copy knows of the ports, and what the ports say of the incumbent.
PortsOK ==
    /\ copy.pc # "down" => scene.copies
    /\ scene.copies /\ server = "serving" => sibling = "up"
    /\ scene.copies /\ held # AllPorts => server \in {"released", "exited"} /\ sibling = "joined"
    /\ copy.pc = "bind" => copy.bound \in {0, 1} /\ (copy.bound = 1 => "claude" \notin held)
    /\ copy.pc \in {"bind", "ask"} => copy.asked \in {0, 1}
    /\ copy.pc \in {"list", "recover", "serve"} => held = {}

\* A turn that recovery closed is one that nobody will commit.
ClosedOK ==
    /\ \A r \in copy.todo \cup closed : turn[r].state # "none"
    /\ \A r \in closed \ Tunnelled : cancelled \/ turn[r].state = "left"

HandoverIInv == HttpIInv /\ HandoverTypes /\ PortsOK /\ ClosedOK

\* What the steps of the incumbent never take back.
LEMMA IncumbentMoves ==
    ASSUME HttpIInv, [Next]_vars
    PROVE  /\ scene' = scene /\ (cancelled => cancelled')
           /\ server # "serving" => server' # "serving"
           /\ server \in {"released", "exited"} => server' \in {"released", "exited"}
           /\ \A r \in Requests :
                 /\ turn[r].state # "none" => turn'[r].state # "none"
                 /\ turn[r].state = "left" => turn'[r].state = "left"
<1>1. CASE Lifecycle
    BY <1>1 DEF Lifecycle, Shutdown, Drain, DeadlinePasses, Joined, AbortConnections, AbortTasks,
           Release, Exit, http, HttpIInv, HttpTypes
<1>2. CASE UNCHANGED vars \/ RelayWorks \/ RelayAborted \/ RelayOutside
  <2>1. UNCHANGED <<lifecycle, http>> BY <1>2, RelayIsBeside DEF vars
  <2> QED BY <2>1 DEF lifecycle, http
<1>3. CASE \E r \in Requests : Http(r)
  <2>1. PICK r \in Requests : Handle(r) \/ Tee(r) \/ Client(r) \/ Origin(r) BY <1>3 DEF Http
  <2>2. UNCHANGED lifecycle
      BY <2>1 DEF Handle, Tee, Client, Origin, Connect, Request, Admit, UpstreamFails,
             UpstreamAnswers, PrepareFails, Passes, ClientLeaves, ClientSeesEnd, Prepared,
             ClientClosed, IdleTimeout, ReadChunk, ReadEnd, ReadError, Send, Committed, Aborted,
             ClientReads
  <2>3. HttpTypes /\ Flow(r) BY DEF HttpIInv
  <2>4. Flow(r)' /\ \A s \in Requests \ {r} : turn'[s] = turn[s]
      BY <2>1, <2>3, HandlerKeeps, PreparedKeeps, TeeKeeps, TurnEndKeeps, ClientReadsKeeps
         DEF Handle, Tee, Client, Origin, Same
  <2>5. /\ turn[r].state # "none" => turn'[r].state # "none"
        /\ turn[r].state = "left" => turn'[r].state = "left"
    <3>1. CASE Prepared(r)
        BY <2>3, <3>1 DEF Prepared, Flow, HandlerFlow, Untouched
    <3>2. CASE Committed(r) \/ Aborted(r)
        BY <2>3, <3>2 DEF Committed, Aborted, HttpTypes
    <3>3. CASE ClientClosed(r) \/ IdleTimeout(r) \/ ReadEnd(r) \/ Send(r)
      <4>1. r \in tasks
          BY <3>3 DEF ClientClosed, IdleTimeout, ReadEnd, Send, Idle, Polls
      <4>2. turn[r].state # "left" BY <2>3, <4>1 DEF Flow, TurnFlow, Kept
      <4>3. UNCHANGED turn \/ \E transport \in BOOLEAN : Finish(r, transport)
          BY <3>3 DEF ClientClosed, IdleTimeout, ReadEnd, Send
      <4>4. UNCHANGED turn \/ turn'[r].state = "committing"
          BY <2>3, <4>3 DEF Finish, HttpTypes
      <4> QED BY <4>2, <4>4
    <3>4. CASE UNCHANGED turn BY <3>4
    <3> QED BY <2>1, <3>1, <3>2, <3>3, <3>4
          DEF Handle, Tee, Client, Origin, Connect, Request, Admit, UpstreamFails, UpstreamAnswers,
              PrepareFails, Passes, ClientLeaves, ClientSeesEnd, ReadChunk, ReadError, ClientReads,
              streams
  <2> QED BY <2>2, <2>4, <2>5 DEF lifecycle
<1> QED BY <1>1, <1>2, <1>3 DEF Next

LEMMA IncumbentKeeps ==
    ASSUME HandoverIInv, [Next]_vars, UNCHANGED <<sibling, copy, closed>>,
           \/ UNCHANGED held
           \/ \E p \in AllPorts : held' = held \ {p} /\ server = "released" /\ sibling = "joined"
    PROVE  HandoverIInv'
<1> USE DEF HandoverIInv
<1>1. HttpIInv' BY HttpPreserved
<1>2. HandoverTypes' BY DEF HandoverTypes
<1>3. PortsOK' BY IncumbentMoves DEF PortsOK, HandoverTypes
<1>4. ClosedOK' BY IncumbentMoves DEF ClosedOK, HandoverTypes
<1> QED BY <1>1, <1>2, <1>3, <1>4

LEMMA SiblingKeeps ==
    ASSUME HandoverIInv, SiblingJoins
    PROVE  HandoverIInv'
<1> USE DEF HandoverIInv, SiblingJoins
<1>1. UNCHANGED <<server, scene, cancelled, turn>> BY DEF vars, lifecycle, http
<1>2. HttpIInv' BY HttpPreserved
<1>3. HandoverTypes' BY DEF HandoverTypes
<1>4. PortsOK' BY <1>1 DEF PortsOK
<1>5. ClosedOK' BY <1>1 DEF ClosedOK
<1> QED BY <1>2, <1>3, <1>4, <1>5

LEMMA SucceedKeeps ==
    ASSUME HandoverIInv, Succeed
    PROVE  HandoverIInv'
<1> USE DEF HandoverIInv
<1>1. UNCHANGED <<vars, held, sibling>>
    BY DEF Succeed, Launch, Bind, Ask, Respawn, List, Serve, Recover
<1>2. UNCHANGED <<server, scene, cancelled, turn>> BY <1>1 DEF vars, lifecycle, http
<1>3. HttpIInv' BY <1>1, HttpPreserved
<1>4. Len(Ports) = 2 /\ Ports[1] = "claude" /\ Ports[2] = "codex" BY DEF Ports
<1>5. CASE Launch \/ Ask \/ Respawn \/ Serve
  <2>1. UNCHANGED closed BY <1>5 DEF Launch, Ask, Respawn, Serve
  <2>2. PICK pc \in {"down", "bind", "ask", "yielded", "serve"}, bound \in 0..2, asked \in 0..2 :
            /\ copy' = [copy EXCEPT !.pc = pc, !.bound = bound, !.asked = asked]
            /\ pc # "down" => scene.copies
            /\ pc = "bind" => bound = 0
            /\ pc \in {"bind", "ask"} => asked \in {0, 1}
            /\ pc = "serve" => held = {}
    <3>1. CASE Launch
        BY <3>1 DEF Launch
    <3>2. CASE Ask
      <4>1. copy.asked \in {0, 1} /\ copy.asked \in 0..2 /\ copy.bound \in 0..2 /\ scene.copies
            /\ 1 \in 0..2 /\ 2 \in 0..2
          BY <3>2 DEF Ask, PortsOK, HandoverTypes
      <4>2. \/ copy' = [copy EXCEPT !.pc = "down"]
            \/ copy' = [copy EXCEPT !.asked = 1, !.pc = "ask"]
            \/ copy' = [copy EXCEPT !.asked = 2, !.pc = "yielded"]
        <5>1. CASE copy.asked = 0 BY <1>4, <3>2, <5>1 DEF Ask
        <5>2. CASE copy.asked = 1 BY <1>4, <3>2, <5>2 DEF Ask
        <5> QED BY <4>1, <5>1, <5>2
      <4>3. CASE copy' = [copy EXCEPT !.pc = "down"]
        <5>1. copy' = [copy EXCEPT !.pc = "down", !.bound = copy.bound, !.asked = copy.asked]
            BY <4>3 DEF HandoverTypes
        <5> QED BY <4>1, <5>1
      <4>4. CASE copy' = [copy EXCEPT !.asked = 1, !.pc = "ask"]
        <5>1. copy' = [copy EXCEPT !.pc = "ask", !.bound = copy.bound, !.asked = 1]
            BY <4>4 DEF HandoverTypes
        <5> QED BY <4>1, <5>1
      <4>5. CASE copy' = [copy EXCEPT !.asked = 2, !.pc = "yielded"]
        <5>1. copy' = [copy EXCEPT !.pc = "yielded", !.bound = copy.bound, !.asked = 2]
            BY <4>5 DEF HandoverTypes
        <5> QED BY <4>1, <5>1
      <4> QED BY <4>2, <4>3, <4>4, <4>5
    <3>3. CASE Respawn \/ Serve
      <4>1. copy.asked \in 0..2 /\ copy.bound \in 0..2 /\ scene.copies
          BY <3>3 DEF Respawn, Serve, PortsOK, HandoverTypes
      <4>2. \/ copy' = [copy EXCEPT !.pc = "down"]
            \/ copy' = [copy EXCEPT !.pc = "serve"] /\ held = {}
          BY <3>3 DEF Respawn, Serve, PortsOK
      <4>3. \/ copy' = [copy EXCEPT !.pc = "down", !.bound = copy.bound, !.asked = copy.asked]
            \/ /\ copy' = [copy EXCEPT !.pc = "serve", !.bound = copy.bound, !.asked = copy.asked]
               /\ held = {}
          BY <4>2 DEF HandoverTypes
      <4> QED BY <4>1, <4>3
    <3> QED BY <1>5, <3>1, <3>2, <3>3
  <2>3. /\ copy'.pc = pc /\ copy'.bound = bound /\ copy'.asked = asked /\ copy'.todo = copy.todo
      BY <2>2 DEF HandoverTypes
  <2>4. HandoverTypes' BY <1>1, <2>1, <2>2 DEF HandoverTypes
  <2>5. PortsOK' BY <1>1, <1>2, <2>2, <2>3 DEF PortsOK
  <2>6. ClosedOK' BY <1>2, <2>1, <2>3 DEF ClosedOK
  <2> QED BY <1>3, <2>4, <2>5, <2>6
<1>6. CASE Bind
  <2>1. UNCHANGED closed /\ copy.bound \in {0, 1} /\ scene.copies BY <1>6 DEF Bind, PortsOK
  <2>2. \/ copy' = [copy EXCEPT !.pc = "ask", !.bound = 0]
        \/ copy.bound = 0 /\ "claude" \notin held /\ copy' = [copy EXCEPT !.bound = 1, !.pc = "bind"]
        \/ copy.bound = 1 /\ "codex" \notin held /\ copy' = [copy EXCEPT !.bound = 2, !.pc = "list"]
    <3>1. CASE copy.bound = 0 BY <1>4, <1>6, <3>1 DEF Bind
    <3>2. CASE copy.bound = 1 BY <1>4, <1>6, <3>2 DEF Bind
    <3> QED BY <2>1, <3>1, <3>2
  <2>3. /\ copy'.todo = copy.todo /\ copy'.asked = copy.asked
        /\ \/ copy'.pc = "ask" /\ copy'.bound = 0
           \/ copy'.pc = "bind" /\ copy'.bound = 1 /\ "claude" \notin held
           \/ copy'.pc = "list" /\ copy'.bound = 2 /\ held = {}
    <3>1. copy.bound = 1 => "claude" \notin held BY <1>6 DEF Bind, PortsOK
    <3>2. "claude" \notin held /\ "codex" \notin held => held = {} BY DEF HandoverTypes, AllPorts
    <3> QED BY <2>2, <3>1, <3>2 DEF HandoverTypes
  <2>4. HandoverTypes'
    <3>1. copy' \in [pc : {"down", "bind", "ask", "yielded", "list", "recover", "serve"},
                     bound : 0..2, asked : 0..2, todo : SUBSET Requests]
      <4>1. copy \in [pc : {"down", "bind", "ask", "yielded", "list", "recover", "serve"},
                    bound : 0..2, asked : 0..2, todo : SUBSET Requests]
          BY DEF HandoverTypes
      <4>2. 0 \in 0..2 /\ 1 \in 0..2 /\ 2 \in 0..2 OBVIOUS
      <4>3. CASE copy' = [copy EXCEPT !.pc = "ask", !.bound = 0] BY <4>1, <4>2, <4>3
      <4>4. CASE copy' = [copy EXCEPT !.bound = 1, !.pc = "bind"] BY <4>1, <4>2, <4>4
      <4>5. CASE copy' = [copy EXCEPT !.bound = 2, !.pc = "list"] BY <4>1, <4>2, <4>5
      <4> QED BY <2>2, <4>3, <4>4, <4>5
    <3> QED BY <1>1, <2>1, <3>1 DEF HandoverTypes
  <2>5. PortsOK'
    <3>1. CASE copy'.pc = "ask"
      <4>1. copy'.asked \in {0, 1} BY <1>6, <2>3 DEF Bind, PortsOK
      <4> QED BY <1>1, <1>2, <2>1, <2>3, <3>1, <4>1 DEF PortsOK
    <3>2. CASE copy'.pc = "bind"
      <4>1. copy'.asked \in {0, 1} BY <1>6, <2>3 DEF Bind, PortsOK
      <4> QED BY <1>1, <1>2, <2>1, <2>3, <3>2, <4>1 DEF PortsOK
    <3>3. CASE copy'.pc = "list" BY <1>1, <1>2, <2>1, <2>3, <3>3 DEF PortsOK
    <3> QED BY <2>3, <3>1, <3>2, <3>3
  <2>6. ClosedOK' BY <1>2, <2>1, <2>3 DEF ClosedOK
  <2> QED BY <1>3, <2>4, <2>5, <2>6
<1>7. CASE List
  <2> USE DEF List
  <2>1. UNCHANGED closed
        /\ copy'.todo \in {copy.todo, {r \in Requests \ closed : turn[r].state \in Kept \cup {"left"}}}
        /\ copy'.pc \in {"down", "recover"}
      BY <1>7 DEF HandoverTypes
  <2>2. HandoverTypes' BY <1>1, <1>7 DEF HandoverTypes
  <2>3. PortsOK' BY <1>1, <1>2, <1>7, <2>1 DEF PortsOK
  <2>4. ClosedOK' BY <1>2, <2>1 DEF ClosedOK, Kept
  <2> QED BY <1>3, <2>2, <2>3, <2>4
<1>8. CASE \E r \in Requests : Recover(r)
  <2>1. PICK r \in Requests : Recover(r) BY <1>8
  <2> USE DEF Recover
  <2>2. /\ r \in copy.todo /\ copy.pc = "recover" /\ copy'.pc = copy.pc
        /\ copy'.todo = copy.todo \ {r}
        /\ closed' = IF turn[r].state = "done" THEN closed ELSE closed \cup {r}
      BY <2>1 DEF HandoverTypes
  <2>3. HandoverTypes' BY <1>1, <2>1, <2>2 DEF HandoverTypes
  <2>4. PortsOK' BY <1>1, <1>2, <2>2 DEF PortsOK
  <2>5. r \in Tunnelled \/ cancelled \/ turn[r].state \in {"left", "done"}
    <3>1. tasks \subseteq Tunnelled BY <2>2 DEF PortsOK, AllPorts, HttpIInv, ServerOK
    <3>2. turn[r].state \in {"open", "committing", "done", "left"}
        BY <2>2 DEF ClosedOK, HttpIInv, HttpTypes, States
    <3>3. Flow(r) BY DEF HttpIInv
    <3> QED BY <3>1, <3>2, <3>3 DEF Flow, TurnFlow
  <2>6. ClosedOK' BY <1>2, <2>2, <2>5 DEF ClosedOK
  <2> QED BY <1>3, <2>3, <2>4, <2>6
<1> QED BY <1>5, <1>6, <1>7, <1>8 DEF Succeed

LEMMA HandoverInitially == HandoverInit => HandoverIInv
<1> SUFFICES ASSUME HandoverInit PROVE HandoverIInv
    OBVIOUS
<1> USE DEF HandoverInit
<1>1. HttpIInv /\ server = "serving" BY HttpInitially DEF Init, HttpInit
<1>2. HandoverTypes BY DEF HandoverTypes, AllPorts
<1>3. PortsOK BY <1>1 DEF PortsOK
<1>4. ClosedOK BY DEF ClosedOK
<1> QED BY <1>1, <1>2, <1>3, <1>4 DEF HandoverIInv

LEMMA HandoverPreserved == HandoverIInv /\ [HandoverNext]_all => HandoverIInv'
<1> SUFFICES ASSUME HandoverIInv, [HandoverNext]_all PROVE HandoverIInv'
    OBVIOUS
<1>1. CASE Incumbent BY <1>1, IncumbentKeeps DEF Incumbent, succession
<1>2. CASE SiblingJoins BY <1>2, SiblingKeeps
<1>3. CASE \E p \in AllPorts : LetGo(p) BY <1>3, IncumbentKeeps DEF LetGo
<1>4. CASE Succeed BY <1>4, SucceedKeeps
<1>5. CASE UNCHANGED all BY <1>5, IncumbentKeeps DEF all, succession
<1> QED BY <1>1, <1>2, <1>3, <1>4, <1>5 DEF HandoverNext

\* Whatever copies are started, the incumbent does what Relay says.
LEMMA IncumbentIsRelay == HandoverSpec => Spec
<1>1. HandoverInit => Init BY DEF HandoverInit
<1>2. [HandoverNext]_all => [Next]_vars
    BY DEF HandoverNext, Incumbent, SiblingJoins, LetGo, Succeed, Launch, Bind, Ask, Respawn, List,
           Serve, Recover, all
<1> QED BY <1>1, <1>2, PTL DEF HandoverSpec, Spec

\* run_daemon (main.rs): a released listener leaves no capture but a tunnel's, a
\* copy recovers the vault alone, what it closed is committed late only if the
\* drain was cut short, and a copy gives way only to a daemon that serves both.
THEOREM DaemonsFollowCleanly == HandoverSpec => HandoverIsClean
<1>1. HandoverIInv => ReleasedIsQuiet
    BY DEF HandoverIInv, HttpIInv, ServerOK, Connections, ReleasedIsQuiet, Gone, Accepted
<1>2. HandoverIInv => RecoveryIsAlone
    BY DEF HandoverIInv, HttpIInv, ServerOK, PortsOK, AllPorts, RecoveryIsAlone
<1>3. HandoverIInv => LateCommitsAreCutShort
    BY DEF HandoverIInv, ClosedOK, LateCommitsAreCutShort, Stray
<1>4. HandoverIInv /\ [HandoverNext]_all =>
          [copy.pc = "ask" /\ copy'.pc = "yielded" =>
              held = AllPorts /\ server = "serving" /\ sibling = "up"]_all
  <2> SUFFICES ASSUME HandoverIInv, HandoverNext, copy.pc = "ask", copy'.pc = "yielded"
               PROVE  held = AllPorts /\ server = "serving" /\ sibling = "up"
      OBVIOUS
  <2>1. Ask
      BY DEF HandoverNext, Incumbent, SiblingJoins, LetGo, Succeed, Launch, Bind, Respawn, List,
             Serve, Recover, succession
  <2>2. copy.asked = 1
    <3>1. Len(Ports) = 2 BY DEF Ports
    <3>2. copy.asked \in {0, 1} BY DEF HandoverIInv, PortsOK
    <3>3. CASE copy.asked = 0
      <4>1. \/ copy' = [copy EXCEPT !.pc = "down"]
            \/ copy' = [copy EXCEPT !.asked = 1, !.pc = "ask"]
          BY <2>1, <3>1, <3>3 DEF Ask
      <4> QED BY <4>1 DEF HandoverIInv, HandoverTypes
    <3> QED BY <3>2, <3>3
  <2>3. server = "serving" BY <2>1, <2>2 DEF Ask, Answers, Ports, HandoverIInv, HandoverTypes
  <2> QED BY <2>3 DEF HandoverIInv, PortsOK
<1> QED BY <1>1, <1>2, <1>3, <1>4, HandoverInitially, HandoverPreserved, PTL
        DEF HandoverSpec, HandoverIsClean, YieldsToOwner

-----------------------------------------------------------------------------
(* The WebSocket: what the relay knows of what the origin answered.        *)

IsSequence(s) == s \in Seq(Range(s))
Begins(s, t) == Len(s) <= Len(t) /\ \A i \in 1..Len(s) : s[i] = t[i]

Places == {"new", "select", "admit", "judge", "prepare", "admitted", "forward", "receive",
           "observe", "terminal", "deliver", "closing", "ended", "closed"}
Before == {"prepare", "admitted", "forward"}      \* a create has been judged
Arriving == {"receive", "observe"}                \* an event has not been observed
During == {"select", "admit", "judge", "receive", "observe", "terminal", "deliver"}
Latest == created[Len(created)]

RelayShape ==
    /\ relay = [pc |-> relay.pc, frame |-> relay.frame, active |-> relay.active,
                awaiting |-> relay.awaiting, disabled |-> relay.disabled]
    /\ relay.pc \in Places /\ relay.awaiting \in BOOLEAN /\ relay.disabled \in BOOLEAN
    /\ relay.active \in 0..Len(turns)
    /\ history = [request |-> history.request, id |-> history.id, items |-> history.items]

\* A response has its terminal event last.
IsResponse(c) ==
    /\ c = [input |-> c.input, items |-> c.items, warmup |-> c.warmup, events |-> c.events,
            state |-> c.state]
    /\ c.state \in {"running", "completed", "failed"} /\ IsSequence(c.events)
    /\ \A i \in 1..Len(c.events) :
           c.events[i].type # "item" => i = Len(c.events) /\ c.state # "running"

CreatedOK == IsSequence(created) /\ \A n \in 1..Len(created) : IsResponse(created[n])

IsTurn(t) ==
    /\ t = [of |-> t.of, input |-> t.input, text |-> t.text, state |-> t.state,
            complete |-> t.complete]
    /\ t.of \in Nat \ {0} /\ t.state \in States /\ t.complete \in BOOLEAN /\ IsSequence(t.text)
    /\ t.complete => t.text # <<>> /\ Last(t.text).type = "completed"

\* The turn of a response that the origin has not been asked for is the latest.
Unasked(k) ==
    /\ turns[k].of = Len(created) + 1 /\ k = Len(turns) /\ turns[k].text = <<>>
    /\ relay.pc \in {"closing", "ended"} \/ (relay.pc \in Before /\ relay.active = k)

TurnsOK ==
    /\ IsSequence(turns)
    /\ \A k \in 1..Len(turns) :
           /\ IsTurn(turns[k])
           /\ turns[k].of <= Len(created) \/ Unasked(k)
           /\ turns[k].of <= Len(created) =>
                  /\ turns[k].input = created[turns[k].of].input
                  /\ Begins(turns[k].text, created[turns[k].of].events)
           /\ \A j \in 1..(k - 1) : turns[j].of < turns[k].of

ActiveOK ==
    relay.active # 0 =>
        /\ relay.active = Len(turns) /\ relay.awaiting
        /\ relay.pc \notin {"new", "closed", "prepare", "ended"}
        /\ turns[relay.active].state = "open" /\ ~turns[relay.active].complete
        /\ relay.pc \in Before => /\ turns[relay.active].of = Len(created) + 1
                                  /\ turns[relay.active].input = history.request
        /\ relay.pc \in During =>
               /\ turns[relay.active].of = Len(created)
               /\ Latest.events = IF relay.pc \in Arriving
                                  THEN Append(turns[relay.active].text, relay.frame)
                                  ELSE turns[relay.active].text

\* What the relay remembers is what the origin was sent and what it answered.
Remembers ==
    history.id # Unknown =>
        /\ history.id \in 1..Len(created) /\ created[history.id].state = "completed"
        /\ history.request = created[history.id].input
        /\ history.items = created[history.id].items

Forgets == relay.disabled => history = Forgotten /\ ~relay.awaiting /\ relay.active = 0

\* A create that was judged will be sent as it is remembered.
Judged ==
    ~relay.disabled /\ relay.pc \in Before =>
        /\ relay.awaiting /\ relay.frame.type = "create"
        /\ history = Restarted(WholeInput(relay.frame))

\* Of the awaited response the relay misses the event that has not been observed.
Awaits ==
    relay.awaiting /\ relay.pc \in During =>
        /\ Len(created) > 0 /\ history.request = Latest.input
        /\ relay.pc # "terminal" => history.id = Unknown
        /\ \/ relay.pc \notin Arriving /\ history.items = Latest.items
           \/ /\ relay.pc \in Arriving /\ relay.frame.type = "item"
              /\ Latest.items = Append(history.items, relay.frame.item)
           \/ /\ relay.pc \in Arriving /\ relay.frame.type = "completed"
              /\ Latest.items = relay.frame.output /\ history.items \in {<<>>, relay.frame.output}
              /\ Latest.state = "completed"
           \/ /\ relay.pc \in Arriving /\ relay.frame.type = "failed"
              /\ history.items = Latest.items

Framed ==
    /\ relay.pc = "new" => ~relay.awaiting
    /\ relay.pc = "prepare" => ~relay.disabled
    /\ relay.pc \in {"admit", "judge"} => relay.frame.previous \in 0..Len(created)
    /\ ~relay.disabled /\ relay.pc \in Arriving => relay.awaiting /\ relay.frame.of = Len(created)
    /\ relay.pc = "terminal" => relay.awaiting /\ ~relay.disabled /\ history.id = Len(created)

HistoryOK == Remembers /\ Forgets /\ Judged /\ Awaits /\ Framed

\* While the connection is captured, only the awaited response runs.
RunningOK ==
    ~relay.disabled /\ relay.pc \notin {"closing", "ended"} =>
        \A n \in 1..Len(created) :
            created[n].state = "running" =>
                relay.awaiting /\ n = Len(created) /\ relay.pc \in During \ {"terminal"}

SocketIInv == RelayShape /\ CreatedOK /\ TurnsOK /\ ActiveOK /\ HistoryOK /\ RunningOK

LEMMA SequenceParts ==
    ASSUME NEW s, IsSequence(s)
    PROVE  /\ Len(s) \in Nat /\ DOMAIN s = 1..Len(s)
           /\ s = [i \in 1..Len(s) |-> s[i]]
BY LenProperties DEF IsSequence

LEMMA SequenceMade ==
    ASSUME NEW n \in Nat, NEW f, f = [i \in 1..n |-> f[i]]
    PROVE  IsSequence(f) /\ Len(f) = n
<1>1. f \in [1..n -> Range(f)]
  <2>1. DOMAIN f = 1..n OBVIOUS
  <2>2. \A i \in 1..n : f[i] \in Range(f) BY <2>1 DEF Range
  <2> QED BY <2>1, <2>2
<1>2. f \in Seq(Range(f)) BY <1>1
<1>3. Len(f) \in Nat /\ DOMAIN f = 1..Len(f) BY <1>2, LenProperties
<1>4. 1..n = 1..Len(f) BY <1>1, <1>3
<1> QED BY <1>2, <1>3, <1>4 DEF IsSequence

LEMMA SequenceAppended ==
    ASSUME NEW s, IsSequence(s), NEW e
    PROVE  /\ IsSequence(Append(s, e)) /\ Len(s) \in Nat
           /\ Len(Append(s, e)) = Len(s) + 1 /\ Append(s, e)[Len(s) + 1] = e
           /\ \A i \in 1..Len(s) : Append(s, e)[i] = s[i]
           /\ Append(s, e) # <<>> /\ Last(Append(s, e)) = e
<1>1. Len(s) \in Nat /\ s \in [1..Len(s) -> Range(s) \cup {e}]
  <2>1. Len(s) \in Nat /\ DOMAIN s = 1..Len(s) /\ s = [i \in 1..Len(s) |-> s[i]]
      BY SequenceParts
  <2>2. \A i \in 1..Len(s) : s[i] \in Range(s) \cup {e} BY <2>1 DEF Range
  <2> QED BY <2>1, <2>2
<1>2. s \in Seq(Range(s) \cup {e}) BY <1>1
<1>3. /\ Append(s, e) \in Seq(Range(s) \cup {e}) /\ Append(s, e) # <<>>
      /\ Len(Append(s, e)) = Len(s) + 1 /\ Append(s, e)[Len(s) + 1] = e
      /\ \A i \in 1..Len(s) : Append(s, e)[i] = s[i]
    BY <1>2, AppendProperties
<1>4. Append(s, e) = [i \in 1..(Len(s) + 1) |-> Append(s, e)[i]] BY <1>3, LenProperties
<1>5. IsSequence(Append(s, e)) BY <1>1, <1>4, SequenceMade
<1> QED BY <1>1, <1>3, <1>5 DEF Last

Changed(s, k, e) == [s EXCEPT ![k] = e]

LEMMA SequenceChanged ==
    ASSUME NEW s, IsSequence(s), NEW k \in 1..Len(s), NEW e
    PROVE  /\ IsSequence(Changed(s, k, e)) /\ Len(Changed(s, k, e)) = Len(s)
           /\ Changed(s, k, e)[k] = e
           /\ \A i \in 1..Len(s) : i # k => Changed(s, k, e)[i] = s[i]
<1> USE DEF Changed
<1>1. Len(s) \in Nat /\ DOMAIN s = 1..Len(s) BY SequenceParts
<1>2. Changed(s, k, e) = [i \in 1..Len(s) |-> Changed(s, k, e)[i]] BY <1>1
<1> QED BY <1>1, <1>2, SequenceMade

LEMMA EmptySequence == IsSequence(<<>>) /\ Len(<<>>) = 0
BY EmptySeq DEF IsSequence, Range

\* A sequence that begins another is its prefix, and begins what is appended.
LEMMA BeginsProperties ==
    ASSUME NEW s, NEW t, IsSequence(s), IsSequence(t), Begins(s, t)
    PROVE  /\ IsPrefix(s, t)
           /\ Len(s) = Len(t) => s = t
           /\ \A e : Begins(s, Append(t, e))
<1>1. /\ Len(s) \in Nat /\ s = [i \in 1..Len(s) |-> s[i]]
      /\ Len(t) \in Nat /\ t = [i \in 1..Len(t) |-> t[i]]
    BY SequenceParts
<1>2. Len(s) = Len(t) => s = t BY <1>1 DEF Begins
<1>3. SubSeq(s, 1, Len(s)) = SubSeq(t, 1, Len(s))
  <2>1. s \in Seq(Range(s)) /\ t \in Seq(Range(t)) BY DEF IsSequence
  <2>2. SubSeq(s, 1, Len(s)) = [i \in 1..Len(s) |-> s[i]]
      BY <1>1, <2>1
  <2>3. SubSeq(t, 1, Len(s)) = [i \in 1..Len(s) |-> t[i]]
      BY <1>1, <2>1 DEF Begins
  <2> QED BY <2>2, <2>3 DEF Begins
<1>4. ASSUME NEW e PROVE Begins(s, Append(t, e))
    BY <1>1, SequenceAppended DEF Begins
<1> QED BY <1>2, <1>3, <1>4 DEF IsPrefix, Begins

-----------------------------------------------------------------------------
(* Steps of the relay that only move it on.                                *)

Advances(from, to) == relay.pc \in from /\ relay'.pc \in to

Moves ==
    /\ RelayShape' /\ UNCHANGED <<created, history, turns>>
    /\ relay'.active = relay.active /\ relay'.awaiting = relay.awaiting
    /\ relay'.disabled = relay.disabled
    /\ \/ Advances({"new"}, {"select"})
       \/ Advances({"select"}, {"admit"}) /\ relay'.frame.previous \in 0..Len(created)
       \/ Advances({"admit"}, {"judge"}) /\ relay'.frame = relay.frame
       \/ Advances({"judge"}, {"admitted"}) /\ relay.disabled
       \/ Advances({"admitted"}, {"forward"}) /\ relay'.frame = relay.frame
       \/ Advances({"forward"}, {"select"}) /\ relay.disabled
       \/ Advances({"forward", "select", "deliver"}, {"closing"})
       \/ Advances({"receive"}, {"observe"}) /\ relay'.frame = relay.frame
       \/ Advances({"deliver"}, {"select"})

LEMMA MovesKeep ==
    ASSUME SocketIInv, Moves
    PROVE  SocketIInv'
<1> USE DEF SocketIInv
<1>1. /\ UNCHANGED <<created, history, turns>>
      /\ relay'.active = relay.active /\ relay'.awaiting = relay.awaiting
      /\ relay'.disabled = relay.disabled
    BY DEF Moves
<1>2. CreatedOK' BY <1>1 DEF CreatedOK
<1>3. ASSUME NEW k \in 1..Len(turns), Unasked(k) PROVE Unasked(k)'
  <2>1. relay.pc \in {"closing", "ended"} \/ (relay.pc \in Before /\ relay.active = k)
      BY <1>3 DEF Unasked
  <2>2. k # 0 OBVIOUS
  <2>3. relay.pc \in Before => ~relay.disabled BY <2>1, <2>2 DEF HistoryOK, Forgets, Before
  <2>4. relay'.pc \in {"closing", "ended"} \/ (relay'.pc \in Before /\ relay'.active = k)
      BY <2>1, <2>3 DEF Moves, Advances, Before
  <2> QED BY <1>1, <1>3, <2>4 DEF Unasked
<1>4. TurnsOK' BY <1>1, <1>3 DEF TurnsOK
<1>5. RelayShape' BY DEF Moves
<1>6. ActiveOK'
    BY <1>1 DEF Moves, Advances, ActiveOK, HistoryOK, Forgets, Before, During, Arriving, Latest
<1>7. HistoryOK'
  <2>1. Forgets' BY <1>1 DEF HistoryOK, Forgets
  <2>2. Remembers' BY <1>1 DEF HistoryOK, Remembers
  <2>3. Judged'
    <3> SUFFICES ASSUME ~relay.disabled, relay'.pc \in Before
                 PROVE  /\ relay.awaiting /\ relay'.frame.type = "create"
                        /\ history = Restarted(WholeInput(relay.frame))'
        BY <1>1 DEF Judged
    <3>1. relay.pc \in Before /\ relay'.frame = relay.frame BY DEF Moves, Advances, Before
    <3>2. WholeInput(relay.frame)' = WholeInput(relay.frame) BY <1>1, <3>1 DEF WholeInput, Number
    <3>3. history = Restarted(WholeInput(relay.frame)) /\ relay.awaiting
          /\ relay.frame.type = "create"
        BY <3>1 DEF HistoryOK, Judged
    <3> QED BY <1>1, <3>1, <3>2, <3>3 DEF Restarted
  <2>4. Awaits'
    <3>1. relay'.awaiting /\ relay'.pc \in During =>
              relay.awaiting /\ relay.pc \in During /\ relay'.pc # "terminal" /\ relay.pc # "terminal"
        BY <1>1 DEF HistoryOK, Forgets, Framed, Moves, Advances, During
    <3>2. \/ relay'.pc \in Arriving /\ relay.pc \in Arriving /\ relay'.frame = relay.frame
          \/ relay'.pc \notin Arriving /\ relay.pc \notin Arriving
        BY DEF Moves, Advances, Arriving
    <3>3. Latest' = Latest BY <1>1 DEF Latest
    <3> QED BY <1>1, <3>1, <3>2, <3>3 DEF HistoryOK, Awaits
  <2>5. Framed'
    <3>1. relay'.pc \notin {"new", "prepare", "terminal"} BY DEF Moves, Advances
    <3>2. relay'.pc \in {"admit", "judge"} => relay'.frame.previous \in 0..Len(created')
        BY <1>1 DEF HistoryOK, Framed, Moves, Advances
    <3>3. relay'.pc \in Arriving => relay.pc \in Arriving /\ relay'.frame = relay.frame
        BY DEF Moves, Advances, Arriving
    <3> QED BY <1>1, <3>1, <3>2, <3>3 DEF HistoryOK, Framed
  <2> QED BY <2>1, <2>2, <2>3, <2>4, <2>5 DEF HistoryOK
<1>8. RunningOK'
    BY <1>1 DEF RunningOK, HistoryOK, Forgets, Moves, Advances, During, Before
<1> QED BY <1>2, <1>4, <1>5, <1>6, <1>7, <1>8

LEMMA StepsThatMove ==
    ASSUME SocketIInv,
           \/ Upgrade \/ FromClient \/ Closes \/ AdmitFrame \/ AdmitEvent \/ Uncaptured \/ ReturnPermit
    PROVE  SocketIInv'
<1> USE DEF SocketIInv, RelayShape, Places
<1>1. CASE Upgrade BY <1>1, MovesKeep DEF Upgrade, Moves, Advances
<1>2. CASE Closes BY <1>2, MovesKeep DEF Closes, Moves, Advances, Steps
<1>3. CASE AdmitFrame BY <1>3, MovesKeep DEF AdmitFrame, Acquire, Moves, Advances, Steps
<1>4. CASE AdmitEvent BY <1>4, MovesKeep DEF AdmitEvent, Acquire, Moves, Advances, Steps
<1>5. CASE Uncaptured BY <1>5, MovesKeep DEF Uncaptured, Moves, Advances, Steps
<1>6. CASE ReturnPermit BY <1>6, MovesKeep DEF ReturnPermit, Moves, Advances, Steps
<1>7. CASE FromClient
  <2>1. PICK frame \in Frames : relay' = [relay EXCEPT !.pc = "admit", !.frame = frame]
      BY <1>7 DEF FromClient
  <2>2. frame.previous \in 0..Len(created)
    <3>1. Len(created) \in Nat BY SequenceParts DEF CreatedOK
    <3> QED BY <3>1 DEF Frames, NoFrame, Unknown
  <2> QED BY <1>7, <2>1, <2>2, MovesKeep DEF FromClient, Moves, Advances, Steps
<1> QED BY <1>1, <1>2, <1>3, <1>4, <1>5, <1>6, <1>7

\* Turns of which only the state and the completeness change.
LEMMA TurnsRestated ==
    ASSUME SocketIInv, created' = created, IsSequence(turns'), Len(turns') = Len(turns),
           \A k \in 1..Len(turns) :
               /\ IsTurn(turns'[k]) /\ turns'[k].of = turns[k].of
               /\ turns'[k].input = turns[k].input /\ turns'[k].text = turns[k].text,
           \/ relay'.pc \in {"closing", "ended"}
           \/ relay.pc \notin Before \cup {"closing", "ended"}
           \/ relay' = relay
    PROVE  TurnsOK'
<1> USE DEF SocketIInv
<1>1. ASSUME NEW k \in 1..Len(turns), Unasked(k) PROVE Unasked(k)'
    BY <1>1 DEF Unasked, Before
<1>2. ASSUME NEW k \in 1..Len(turns) PROVE \A j \in 1..(k - 1) : turns'[j].of < turns'[k].of
  <2>1. Len(turns) \in Nat BY SequenceParts DEF TurnsOK
  <2>2. \A j \in 1..(k - 1) : j \in 1..Len(turns) BY <2>1
  <2> QED BY <2>2 DEF TurnsOK
<1> QED BY <1>1, <1>2 DEF TurnsOK

Rewritten(t, state, c) == [t EXCEPT !.state = state, !.complete = c]

LEMMA TurnRewritten ==
    ASSUME NEW t, IsTurn(t), NEW state \in States, NEW c \in BOOLEAN,
           c => t.text # <<>> /\ Last(t.text).type = "completed",
           NEW u, u = Rewritten(t, state, c)
    PROVE  /\ IsTurn(u) /\ u.state = state /\ u.complete = c
           /\ u.of = t.of /\ u.input = t.input /\ u.text = t.text
<1>1. PICK of, input, text, old, whole :
          t = [of |-> of, input |-> input, text |-> text, state |-> old, complete |-> whole]
    BY DEF IsTurn
<1>2. u = [of |-> of, input |-> input, text |-> text, state |-> state, complete |-> c]
    BY <1>1 DEF Rewritten
<1>3. t.of = of /\ t.input = input /\ t.text = text BY <1>1
<1> QED BY <1>2, <1>3 DEF IsTurn

LEMMA TurnFinished ==
    ASSUME SocketIInv, NEW transport \in BOOLEAN, turns' = FinishTurn(transport)
    PROVE  /\ IsSequence(turns') /\ Len(turns') = Len(turns)
           /\ \A k \in 1..Len(turns) :
                  /\ IsTurn(turns'[k]) /\ turns'[k].of = turns[k].of
                  /\ turns'[k].input = turns[k].input /\ turns'[k].text = turns[k].text
<1> USE DEF SocketIInv
<1>1. CASE relay.active = 0 BY <1>1 DEF FinishTurn, TurnsOK
<1>2. CASE relay.active # 0
  <2>1. relay.active \in 1..Len(turns) /\ Len(turns) \in Nat /\ DOMAIN turns = 1..Len(turns)
      BY <1>2, SequenceParts DEF RelayShape, TurnsOK
  <2>2. PICK t : t = turns[relay.active] OBVIOUS
  <2>3. PICK c \in BOOLEAN : c = Complete(t, transport)
      BY DEF Complete
  <2>4. PICK done : done = Rewritten(t, "committing", c) OBVIOUS
  <2>5. turns' = Changed(turns, relay.active, done)
      BY <1>2, <2>1, <2>2, <2>3, <2>4 DEF FinishTurn, Rewritten, Changed
  <2>6. IsTurn(t) BY <2>1, <2>2 DEF TurnsOK
  <2>7. c => t.text # <<>> /\ Last(t.text).type = "completed" BY <2>3 DEF Complete
  <2>8. IsTurn(done) /\ done.of = t.of /\ done.input = t.input /\ done.text = t.text
    <3>1. "committing" \in States BY DEF States
    <3> QED BY <2>4, <2>6, <2>7, <3>1, TurnRewritten
  <2>9. IsSequence(turns) BY DEF TurnsOK
  <2>10. /\ IsSequence(turns') /\ Len(turns') = Len(turns) /\ turns'[relay.active] = done
         /\ \A k \in 1..Len(turns) : k # relay.active => turns'[k] = turns[k]
      BY <2>1, <2>5, <2>9, SequenceChanged
  <2> QED BY <2>1, <2>2, <2>8, <2>10 DEF TurnsOK
<1> QED BY <1>1, <1>2

LEMMA DisableKeeps ==
    ASSUME SocketIInv, NEW pc \in {"select", "admitted"}, Disable(pc), UNCHANGED created,
           relay.pc \in {"select", "judge"}
    PROVE  SocketIInv'
<1> USE DEF SocketIInv
<1>1. /\ relay' = [pc |-> pc, frame |-> relay.frame, active |-> 0, awaiting |-> FALSE,
                   disabled |-> TRUE]
      /\ history' = Forgotten /\ turns' = FinishTurn(FALSE)
    BY DEF Disable, RelayShape
<1>2. Len(turns') = Len(turns) /\ TurnsOK'
    BY <1>1, TurnFinished, TurnsRestated DEF Before
<1>3. CreatedOK' BY DEF CreatedOK
<1>4. RelayShape'
  <2>1. Len(turns') \in Nat BY <1>2, SequenceParts DEF TurnsOK
  <2>2. relay'.active \in 0..Len(turns')
    <3>1. relay'.active = 0 BY <1>1
    <3> QED BY <2>1, <3>1
  <2>3. history' = [request |-> history'.request, id |-> history'.id, items |-> history'.items]
      BY <1>1 DEF Forgotten
  <2> QED BY <1>1, <2>2, <2>3 DEF RelayShape, Places
<1>5. ActiveOK' BY <1>1 DEF ActiveOK
<1>6. HistoryOK'
    BY <1>1 DEF HistoryOK, Remembers, Forgets, Judged, Awaits, Framed, Forgotten, Arriving
<1>7. RunningOK' BY <1>1 DEF RunningOK
<1> QED BY <1>2, <1>3, <1>4, <1>5, <1>6, <1>7

LEMMA WholeInputIsRemembered ==
    ASSUME SocketIInv, ~Broken
    PROVE  Normalized = WholeInput(relay.frame)
<1>1. CASE relay.frame.previous = Unknown
  <2>1. <<Number>> \in Seq({Number}) OBVIOUS
  <2>2. <<>> \o <<Number>> = <<Number>> BY <2>1, ConcatEmptySeq
  <2> QED BY <1>1, <2>2 DEF Normalized, WholeInput
<1>2. CASE relay.frame.previous # Unknown
    BY <1>2 DEF Broken, Chained, Normalized, WholeInput, SocketIInv, HistoryOK, Remembers
<1> QED BY <1>1, <1>2

LEMMA JudgeKeeps ==
    ASSUME SocketIInv, Judge
    PROVE  SocketIInv'
<1> USE DEF SocketIInv
<1>1. /\ relay.pc = "judge" /\ relay.frame.type = "create" /\ ~relay.awaiting /\ ~relay.disabled
      /\ UNCHANGED <<created, turns>>
    BY DEF Judge, Steps, Overlapping
<1>2. relay.active = 0 BY <1>1 DEF ActiveOK
<1>3. \A n \in 1..Len(created) : created[n].state # "running" BY <1>1 DEF RunningOK
<1>4. CreatedOK' BY <1>1 DEF CreatedOK
<1>5. IsSequence(turns) /\ \A k \in 1..Len(turns) : IsTurn(turns[k]) BY DEF TurnsOK
<1>6. TurnsOK' BY <1>1, <1>5, TurnsRestated DEF Before
<1>7. Len(turns) \in Nat BY <1>5, SequenceParts
<1>8. CASE Broken
  <2>1. /\ relay' = [pc |-> "admitted", frame |-> relay.frame, active |-> 0, awaiting |-> FALSE,
                     disabled |-> TRUE]
        /\ history' = Forgotten
      BY <1>1, <1>2, <1>8 DEF Judge, RelayShape
  <2>2. RelayShape' BY <1>1, <1>7, <2>1 DEF RelayShape, Places, Forgotten
  <2>3. ActiveOK' BY <2>1 DEF ActiveOK
  <2>4. HistoryOK'
      BY <2>1 DEF HistoryOK, Remembers, Forgets, Judged, Awaits, Framed, Forgotten, Arriving
  <2>5. RunningOK' BY <2>1 DEF RunningOK
  <2> QED BY <1>4, <1>6, <2>2, <2>3, <2>4, <2>5
<1>9. CASE ~Broken
  <2>1. PICK pc \in {"admitted", "prepare"} :
            relay' = [pc |-> pc, frame |-> relay.frame, active |-> 0, awaiting |-> TRUE,
                      disabled |-> FALSE]
      BY <1>1, <1>2, <1>9 DEF Judge, RelayShape
  <2>2. history' = Restarted(WholeInput(relay.frame))
      BY <1>9, WholeInputIsRemembered DEF Judge
  <2>3. RelayShape' BY <1>1, <1>7, <2>1, <2>2 DEF RelayShape, Places, Restarted
  <2>4. ActiveOK' BY <2>1 DEF ActiveOK
  <2>5. HistoryOK'
    <3>1. Remembers' BY <2>2 DEF Remembers, Restarted
    <3>2. Forgets' BY <2>1 DEF Forgets
    <3>3. Judged'
      <4>1. WholeInput(relay.frame)' = WholeInput(relay.frame)
          BY <1>1, <2>1 DEF WholeInput, Number
      <4> QED BY <1>1, <2>1, <2>2, <4>1 DEF Judged, Restarted
    <3>4. Awaits' BY <2>1 DEF Awaits, During
    <3>5. Framed' BY <2>1 DEF Framed, Arriving
    <3> QED BY <3>1, <3>2, <3>3, <3>4, <3>5 DEF HistoryOK
  <2>6. RunningOK' BY <1>1, <1>3 DEF RunningOK
  <2> QED BY <1>4, <1>6, <2>3, <2>4, <2>5, <2>6
<1> QED BY <1>8, <1>9

\* No turn waits for its response to be asked for, but before a create is sent.
LEMMA NoneUnasked ==
    ASSUME SocketIInv, relay.pc \notin {"closing", "ended"}, relay.pc \notin Before \/ relay.active = 0
    PROVE  \A k \in 1..Len(turns) : turns[k].of <= Len(created) /\ ~Unasked(k)
<1>1. ASSUME NEW k \in 1..Len(turns) PROVE ~Unasked(k)
    BY DEF Unasked
<1> QED BY <1>1 DEF SocketIInv, TurnsOK

LEMMA PrepareTurnKeeps ==
    ASSUME SocketIInv, PrepareTurn
    PROVE  SocketIInv'
<1> USE DEF SocketIInv
<1>1. relay.pc = "prepare" /\ UNCHANGED <<created, history>> BY DEF PrepareTurn, Steps
<1>2. relay.active = 0 /\ ~relay.disabled BY <1>1 DEF ActiveOK, HistoryOK, Framed
<1>3. relay.awaiting /\ relay.frame.type = "create" /\ history = Restarted(WholeInput(relay.frame))
    BY <1>1, <1>2 DEF HistoryOK, Judged, Before
<1>4. CreatedOK' BY <1>1 DEF CreatedOK
<1>5. Len(turns) \in Nat /\ Len(created) \in Nat /\ IsSequence(turns)
    BY SequenceParts DEF TurnsOK, CreatedOK
<1>6. PICK new \in BOOLEAN :
          /\ relay' = [pc |-> "admitted", frame |-> relay.frame, awaiting |-> TRUE, disabled |-> FALSE,
                       active |-> IF new THEN Len(turns) + 1 ELSE 0]
          /\ turns' = IF new
                      THEN Append(turns, [of |-> Number, input |-> history.request, text |-> <<>>,
                                          state |-> "open", complete |-> FALSE])
                      ELSE turns
  <2>1. CASE UNCHANGED turns /\ relay' = [relay EXCEPT !.pc = "admitted"]
    <3>1. relay' = [pc |-> "admitted", frame |-> relay.frame, awaiting |-> TRUE, disabled |-> FALSE,
                    active |-> 0]
        BY <1>2, <1>3, <2>1 DEF RelayShape
    <3> QED BY <2>1, <3>1
  <2>2. CASE /\ turns' = Append(turns, [of |-> Number, input |-> history.request, text |-> <<>>,
                                        state |-> "open", complete |-> FALSE])
             /\ relay' = [relay EXCEPT !.pc = "admitted", !.active = Len(turns) + 1]
    <3>1. relay' = [pc |-> "admitted", frame |-> relay.frame, awaiting |-> TRUE, disabled |-> FALSE,
                    active |-> Len(turns) + 1]
        BY <1>2, <1>3, <2>2 DEF RelayShape
    <3> QED BY <2>2, <3>1
  <2> QED BY <2>1, <2>2 DEF PrepareTurn
<1>7. Len(turns') = (IF new THEN Len(turns) + 1 ELSE Len(turns)) /\ IsSequence(turns')
      /\ \A k \in 1..Len(turns) : turns'[k] = turns[k]
    BY <1>5, <1>6, SequenceAppended
<1>8. new => turns'[Len(turns) + 1] = [of |-> Len(created) + 1, input |-> history.request,
                                       text |-> <<>>, state |-> "open", complete |-> FALSE]
    BY <1>5, <1>6, SequenceAppended DEF Number
<1>9. RelayShape' BY <1>1, <1>5, <1>6, <1>7 DEF RelayShape, Places
<1>10. \A k \in 1..Len(turns) : turns[k].of <= Len(created) BY <1>1, <1>2, NoneUnasked
<1>11. TurnsOK'
  <2>1. ASSUME NEW k \in 1..Len(turns)
        PROVE  /\ IsTurn(turns'[k]) /\ turns'[k].of <= Len(created')
               /\ turns'[k].input = created'[turns'[k].of].input
               /\ Begins(turns'[k].text, created'[turns'[k].of].events)
               /\ \A j \in 1..(k - 1) : turns'[j].of < turns'[k].of
    <3>1. \A j \in 1..(k - 1) : turns'[j] = turns[j] BY <1>5, <1>7
    <3> QED BY <1>1, <1>7, <1>10, <3>1 DEF TurnsOK
  <2>2. ASSUME new, NEW k, k = Len(turns) + 1
        PROVE  /\ IsTurn(turns'[k]) /\ ~(turns'[k].of <= Len(created')) /\ Unasked(k)'
               /\ \A j \in 1..(k - 1) : turns'[j].of < turns'[k].of
    <3>1. /\ turns'[k].of = Len(created) + 1 /\ turns'[k].text = <<>>
          /\ turns'[k] = [of |-> Len(created) + 1, input |-> history.request, text |-> <<>>,
                          state |-> "open", complete |-> FALSE]
        BY <1>8, <2>2
    <3>2. IsTurn(turns'[k]) BY <1>5, <3>1, EmptySequence DEF IsTurn, States
    <3>3. Unasked(k)' BY <1>1, <1>6, <1>7, <2>2, <3>1 DEF Unasked, Before
    <3>4. \A j \in 1..(k - 1) : turns'[j].of < turns'[k].of
      <4>1. \A j \in 1..Len(turns) : turns[j].of \in Nat BY DEF TurnsOK, IsTurn
      <4> QED BY <1>5, <1>7, <1>10, <2>2, <3>1, <4>1
    <3> QED BY <1>1, <1>5, <3>1, <3>2, <3>3, <3>4
  <2>3. \A k \in 1..Len(turns') : k \in 1..Len(turns) \/ (new /\ k = Len(turns) + 1)
      BY <1>5, <1>7
  <2> QED BY <1>7, <2>1, <2>2, <2>3 DEF TurnsOK
<1>12. ActiveOK' BY <1>1, <1>5, <1>6, <1>7, <1>8 DEF ActiveOK, Before, During
<1>13. HistoryOK'
  <2>1. WholeInput(relay.frame)' = WholeInput(relay.frame)
      BY <1>1, <1>6 DEF WholeInput, Number
  <2>2. Judged' BY <1>1, <1>3, <1>6, <2>1 DEF Judged, Restarted
  <2>3. Remembers' BY <1>1 DEF HistoryOK, Remembers
  <2> QED BY <1>6, <2>2, <2>3 DEF HistoryOK, Forgets, Awaits, Framed, During, Arriving
<1>14. RunningOK' BY <1>1, <1>2 DEF RunningOK, During
<1> QED BY <1>4, <1>9, <1>11, <1>12, <1>13, <1>14

LEMMA ToUpstreamKeeps ==
    ASSUME SocketIInv, ToUpstream
    PROVE  SocketIInv'
<1> USE DEF SocketIInv
<1>1. relay.pc = "forward" /\ UNCHANGED <<history, turns>> BY DEF ToUpstream, Steps
<1>2. Len(created) \in Nat /\ Len(turns) \in Nat /\ IsSequence(created) /\ IsSequence(turns)
    BY SequenceParts DEF CreatedOK, TurnsOK
<1>3. CASE relay' = [relay EXCEPT !.pc = "closing"] /\ UNCHANGED created
    BY <1>1, <1>3, MovesKeep DEF Moves, Advances, RelayShape, Places
<1>4. CASE relay.frame.type = "text" /\ relay' = [relay EXCEPT !.pc = "select", !.frame = NoFrame]
           /\ UNCHANGED created
  <2>1. relay.disabled BY <1>1, <1>4 DEF HistoryOK, Judged, Before
  <2> QED BY <1>1, <1>4, <2>1, MovesKeep DEF Moves, Advances, RelayShape, Places
<1>5. CASE /\ created' = Append(created,
                [input |-> WholeInput(relay.frame), items |-> <<>>, warmup |-> relay.frame.warmup,
                 events |-> <<>>, state |-> "running"])
           /\ relay' = [relay EXCEPT !.pc = "select", !.frame = NoFrame]
  <2>1. relay' = [pc |-> "select", frame |-> NoFrame, active |-> relay.active,
                  awaiting |-> relay.awaiting, disabled |-> relay.disabled]
      BY <1>5 DEF RelayShape
  <2>2. PICK c : c = [input |-> WholeInput(relay.frame), items |-> <<>>, warmup |-> relay.frame.warmup,
                      events |-> <<>>, state |-> "running"]
      OBVIOUS
  <2>3. /\ IsSequence(created') /\ Len(created') = Len(created) + 1 /\ created'[Len(created')] = c
        /\ \A n \in 1..Len(created) : created'[n] = created[n]
    <3>1. created' = Append(created, c) BY <1>5, <2>2
    <3> QED BY <1>2, <3>1, SequenceAppended
  <2>4. RelayShape' BY <1>1, <2>1 DEF RelayShape, Places
  <2>5. CreatedOK'
    <3>1. IsResponse(c) BY <2>2, EmptySequence DEF IsResponse
    <3>2. \A n \in 1..Len(created') : n \in 1..Len(created) \/ n = Len(created') BY <1>2, <2>3
    <3> QED BY <2>3, <3>1, <3>2 DEF CreatedOK
  <2>6. ASSUME relay.active # 0
        PROVE  /\ relay.active = Len(turns) /\ relay.active \in 1..Len(turns) /\ relay.awaiting
               /\ turns[relay.active].of = Len(created) + 1 /\ turns[relay.active].text = <<>>
               /\ turns[relay.active].input = WholeInput(relay.frame) /\ ~relay.disabled
               /\ turns[relay.active].state = "open" /\ ~turns[relay.active].complete
    <3>1. relay.active \in 1..Len(turns) /\ relay.active = Len(turns) BY <1>2, <2>6 DEF RelayShape, ActiveOK
    <3>2. turns[relay.active].of = Len(created) + 1 /\ turns[relay.active].input = history.request
        BY <1>1, <2>6 DEF ActiveOK, Before
    <3>3. Unasked(relay.active) BY <1>2, <3>1, <3>2 DEF TurnsOK
    <3>4. ~relay.disabled BY <2>6 DEF HistoryOK, Forgets
    <3>5. history.request = WholeInput(relay.frame)
        BY <1>1, <3>4 DEF HistoryOK, Judged, Before, Restarted
    <3> QED BY <2>6, <3>1, <3>2, <3>3, <3>4, <3>5 DEF ActiveOK, Unasked
  <2>7. TurnsOK'
    <3>1. ASSUME NEW k \in 1..Len(turns), turns[k].of <= Len(created)
          PROVE  turns[k].of \in 1..Len(created)
      <4>1. turns[k].of \in Nat \ {0} BY DEF TurnsOK, IsTurn
      <4> QED BY <1>2, <3>1, <4>1
    <3>2. ASSUME NEW k \in 1..Len(turns), turns[k].of <= Len(created)
          PROVE  /\ turns'[k].of <= Len(created') /\ turns'[k].input = created'[turns'[k].of].input
                 /\ Begins(turns'[k].text, created'[turns'[k].of].events)
        BY <1>1, <1>2, <2>3, <3>1, <3>2 DEF TurnsOK
    <3>3. ASSUME NEW k \in 1..Len(turns), Unasked(k)
          PROVE  /\ turns'[k].of <= Len(created') /\ turns'[k].input = created'[turns'[k].of].input
                 /\ Begins(turns'[k].text, created'[turns'[k].of].events)
      <4>1. k = relay.active /\ relay.active # 0 BY <1>1, <3>3 DEF Unasked
      <4>2. turns'[k].of = Len(created') /\ turns'[k].text = <<>>
            /\ turns'[k].input = created'[Len(created')].input
          BY <1>1, <2>2, <2>3, <2>6, <4>1
      <4> QED BY <1>2, <2>3, <4>2, EmptySequence DEF Begins
    <3> QED BY <1>1, <3>2, <3>3 DEF TurnsOK
  <2>8. ActiveOK' BY <1>1, <2>1, <2>2, <2>3, <2>6 DEF ActiveOK, Before, During, Arriving, Latest
  <2>9. relay.awaiting => /\ ~relay.disabled /\ history = Restarted(WholeInput(relay.frame))
      BY <1>1 DEF HistoryOK, Forgets, Judged, Before
  <2>10. HistoryOK'
    <3>1. history.id = Unknown
        BY <1>1 DEF HistoryOK, Forgets, Judged, Before, Restarted, Forgotten
    <3>2. Remembers' BY <1>1, <3>1 DEF Remembers
    <3>3. Forgets' BY <1>1, <2>1 DEF HistoryOK, Forgets
    <3>4. Judged' BY <2>1 DEF Judged, Before
    <3>5. Awaits' BY <1>1, <1>2, <2>1, <2>2, <2>3, <2>9 DEF Awaits, Latest, Restarted, Arriving
    <3>6. Framed' BY <2>1 DEF Framed, Arriving
    <3> QED BY <3>2, <3>3, <3>4, <3>5, <3>6 DEF HistoryOK
  <2>11. RunningOK'
    <3>1. ~relay.disabled => relay.awaiting BY <1>1 DEF HistoryOK, Judged, Before
    <3>2. ~relay.disabled => \A n \in 1..Len(created) : created[n].state # "running"
        BY <1>1 DEF RunningOK, During
    <3>3. \A n \in 1..Len(created') : n \in 1..Len(created) \/ n = Len(created') BY <1>2, <2>3
    <3> QED BY <2>1, <2>3, <3>1, <3>2, <3>3 DEF RunningOK, During
  <2> QED BY <2>4, <2>5, <2>7, <2>8, <2>10, <2>11
<1> QED BY <1>3, <1>4, <1>5 DEF ToUpstream

\* An event of the origin is the last of its response.
IsEvent(event) == event.type \in {"item", "completed", "failed"}
Grown(c, event, items) ==
    [c EXCEPT !.events = Append(@, event), !.items = items,
              !.state = IF event.type = "item" THEN @ ELSE event.type]

LEMMA ResponseGrows ==
    ASSUME NEW c, IsResponse(c), c.state = "running", NEW event, IsEvent(event), NEW items
    PROVE  /\ IsResponse(Grown(c, event, items))
           /\ Grown(c, event, items).items = items /\ Grown(c, event, items).input = c.input
           /\ Grown(c, event, items).events = Append(c.events, event)
           /\ event.type # "item" => Grown(c, event, items).state = event.type
<1>1. PICK input, old, warmup, events :
          c = [input |-> input, items |-> old, warmup |-> warmup, events |-> events,
               state |-> "running"]
    BY DEF IsResponse
<1>2. PICK d, state : /\ d = Grown(c, event, items)
                      /\ state = IF event.type = "item" THEN "running" ELSE event.type
    OBVIOUS
<1>3. d = [input |-> input, items |-> items, warmup |-> warmup, events |-> Append(events, event),
           state |-> state]
    BY <1>1, <1>2 DEF Grown
<1>4. c.events = events /\ c.input = input BY <1>1
<1>5. /\ IsSequence(Append(events, event)) /\ Len(events) \in Nat
      /\ Len(Append(events, event)) = Len(events) + 1
      /\ Append(events, event)[Len(events) + 1] = event
      /\ \A i \in 1..Len(events) : Append(events, event)[i] = events[i]
    BY <1>4, SequenceAppended DEF IsResponse
<1>6. \A i \in 1..Len(events) : events[i].type = "item" BY <1>4, <1>5 DEF IsResponse
<1>7. ASSUME NEW i \in 1..Len(d.events), d.events[i].type # "item"
      PROVE  i = Len(d.events) /\ d.state # "running"
  <2>1. i \in 1..Len(events) \/ i = Len(events) + 1 BY <1>3, <1>5
  <2>2. i = Len(events) + 1 BY <1>3, <1>5, <1>6, <1>7, <2>1
  <2> QED BY <1>2, <1>3, <1>5, <1>7, <2>2 DEF IsEvent
<1>8. d.state \in {"running", "completed", "failed"} BY <1>2, <1>3 DEF IsEvent
<1>9. IsResponse(d)
  <2>1. d.events = Append(events, event) BY <1>3
  <2>2. d = [input |-> d.input, items |-> d.items, warmup |-> d.warmup, events |-> d.events,
             state |-> d.state]
      BY <1>3
  <2> QED BY <1>5, <1>7, <1>8, <2>1, <2>2 DEF IsResponse
<1> QED BY <1>2, <1>3, <1>4, <1>9

LEMMA FromUpstreamKeeps ==
    ASSUME SocketIInv, FromUpstream
    PROVE  SocketIInv'
<1> USE DEF SocketIInv
<1>1. relay.pc = "select" /\ UNCHANGED <<history, turns>> BY DEF FromUpstream, Steps
<1>2. Len(created) \in Nat /\ Len(turns) \in Nat /\ IsSequence(created) /\ IsSequence(turns)
      /\ DOMAIN created = 1..Len(created)
    BY SequenceParts DEF CreatedOK, TurnsOK
<1>a. PICK n \in 1..Len(created) : \E event \in OfOrigin(n) :
          /\ created[n].state = "running"
          /\ created' = [created EXCEPT ![n].events = Append(@, event),
                            ![n].state = IF event.type = "item" THEN @ ELSE event.type,
                            ![n].items = CASE event.type = "item" -> Append(@, event.item)
                                           [] event.type = "completed" -> event.output
                                           [] OTHER -> @]
          /\ relay' = [relay EXCEPT !.pc = "receive", !.frame = event]
    BY <1>2 DEF FromUpstream
<1>3. PICK event \in OfOrigin(n) :
          /\ created[n].state = "running"
          /\ created' = [created EXCEPT ![n].events = Append(@, event),
                            ![n].state = IF event.type = "item" THEN @ ELSE event.type,
                            ![n].items = CASE event.type = "item" -> Append(@, event.item)
                                           [] event.type = "completed" -> event.output
                                           [] OTHER -> @]
          /\ relay' = [relay EXCEPT !.pc = "receive", !.frame = event]
    BY <1>a
<1>4. /\ event.of = n
      /\ \/ event.type = "failed"
         \/ event.type = "item" /\ created[n].items = <<>>
         \/ event.type = "completed" /\ created[n].items \in {<<>>, event.output}
    BY DEF OfOrigin
<1>5. relay' = [pc |-> "receive", frame |-> event, active |-> relay.active,
                awaiting |-> relay.awaiting, disabled |-> relay.disabled]
    BY <1>3 DEF RelayShape
<1>6. PICK c : c = created[n] OBVIOUS
<1>7. PICK items : items = CASE event.type = "item" -> Append(c.items, event.item)
                             [] event.type = "completed" -> event.output
                             [] OTHER -> c.items
    OBVIOUS
<1>8. IsEvent(event) BY <1>4 DEF IsEvent
<1>9. PICK d : d = Grown(c, event, items) OBVIOUS
<1>10. created' = Changed(created, n, d)
    BY <1>2, <1>3, <1>6, <1>7, <1>9 DEF Changed, Grown
<1>11. IsResponse(c) /\ c.state = "running" BY <1>3, <1>6 DEF CreatedOK
<1>12. /\ IsResponse(d) /\ d.items = items /\ d.input = c.input
       /\ d.events = Append(c.events, event)
       /\ event.type # "item" => d.state = event.type
    BY <1>8, <1>9, <1>11, ResponseGrows
<1>13. /\ IsSequence(created') /\ Len(created') = Len(created) /\ created'[n] = d
       /\ \A m \in 1..Len(created) : m # n => created'[m] = created[m]
    BY <1>2, <1>10, SequenceChanged
<1>14. CreatedOK' BY <1>12, <1>13 DEF CreatedOK
<1>15. RelayShape' BY <1>1, <1>5 DEF RelayShape, Places
<1>16. \A k \in 1..Len(turns) : turns[k].of \in 1..Len(created) /\ turns[k].of <= Len(created)
  <2>1. \A k \in 1..Len(turns) : turns[k].of <= Len(created)
      BY <1>1, NoneUnasked DEF Before
  <2>2. \A k \in 1..Len(turns) : turns[k].of \in Nat \ {0} BY DEF TurnsOK, IsTurn
  <2> QED BY <1>2, <2>1, <2>2
<1>17. TurnsOK'
  <2>1. ASSUME NEW k \in 1..Len(turns)
        PROVE  /\ turns[k].input = created'[turns[k].of].input
               /\ Begins(turns[k].text, created'[turns[k].of].events)
    <3>1. /\ turns[k].input = created[turns[k].of].input
          /\ Begins(turns[k].text, created[turns[k].of].events)
        BY <1>16 DEF TurnsOK
    <3>2. CASE turns[k].of = n
      <4>1. IsSequence(turns[k].text) /\ IsSequence(c.events)
          BY <1>11 DEF TurnsOK, IsTurn, IsResponse
      <4>2. Begins(turns[k].text, Append(c.events, event))
          BY <1>6, <3>1, <3>2, <4>1, BeginsProperties
      <4> QED BY <1>6, <1>12, <1>13, <3>1, <3>2, <4>2
    <3>3. CASE turns[k].of # n BY <1>13, <1>16, <3>1, <3>3
    <3> QED BY <3>2, <3>3
  <2> QED BY <1>1, <1>13, <1>16, <2>1 DEF TurnsOK
<1>18. ~relay.disabled => relay.awaiting /\ n = Len(created)
    BY <1>1, <1>3 DEF RunningOK
<1>19. ActiveOK'
  <2>1. relay.active # 0 => ~relay.disabled BY DEF HistoryOK, Forgets
  <2>2. relay.active # 0 => c.events = turns[relay.active].text /\ n = Len(created)
      BY <1>1, <1>6, <1>18, <2>1 DEF ActiveOK, During, Arriving, Latest
  <2> QED BY <1>1, <1>5, <1>12, <1>13, <2>2 DEF ActiveOK, Before, During, Arriving, Latest
<1>20. HistoryOK'
  <2>1. Remembers'
    <3>1. history.id # Unknown => history.id # n BY <1>3 DEF HistoryOK, Remembers
    <3> QED BY <1>1, <1>13, <3>1 DEF HistoryOK, Remembers
  <2>2. Forgets' BY <1>1, <1>5 DEF HistoryOK, Forgets
  <2>3. Judged' BY <1>5 DEF Judged, Before
  <2>4. Awaits'
    <3> SUFFICES ASSUME relay.awaiting PROVE Awaits'
        BY <1>5 DEF Awaits
    <3>1. /\ n = Len(created) /\ history.request = c.input /\ history.id = Unknown
          /\ history.items = c.items
        BY <1>1, <1>6, <1>18 DEF HistoryOK, Forgets, Awaits, During, Arriving, Latest
    <3>2. Latest' = d BY <1>13, <3>1 DEF Latest
    <3>3. Len(created') > 0 BY <1>2, <1>13
    <3>4. CASE event.type = "failed"
        BY <1>1, <1>5, <1>7, <1>12, <3>1, <3>2, <3>3, <3>4 DEF Awaits, Arriving
    <3>5. CASE event.type = "item"
        BY <1>1, <1>5, <1>7, <1>12, <3>1, <3>2, <3>3, <3>5 DEF Awaits, Arriving
    <3>6. CASE event.type = "completed"
        BY <1>1, <1>4, <1>5, <1>6, <1>7, <1>12, <3>1, <3>2, <3>3, <3>6 DEF Awaits, Arriving
    <3> QED BY <1>4, <3>4, <3>5, <3>6
  <2>5. Framed' BY <1>4, <1>5, <1>13, <1>18 DEF Framed
  <2> QED BY <2>1, <2>2, <2>3, <2>4, <2>5 DEF HistoryOK
<1>21. RunningOK'
    BY <1>1, <1>5, <1>13, <1>18 DEF RunningOK, During
<1> QED BY <1>14, <1>15, <1>17, <1>19, <1>20, <1>21

LEMMA ObserveKeeps ==
    ASSUME SocketIInv, Observe
    PROVE  SocketIInv'
<1> USE DEF SocketIInv
<1>1. relay.pc = "observe" /\ UNCHANGED created BY DEF Observe, Steps
<1>2. Len(created) \in Nat /\ Len(turns) \in Nat /\ IsSequence(turns) /\ DOMAIN turns = 1..Len(turns)
    BY SequenceParts DEF CreatedOK, TurnsOK
<1>3. CreatedOK' BY <1>1 DEF CreatedOK
<1>4. \A k \in 1..Len(turns) : turns[k].of <= Len(created) BY <1>1, NoneUnasked DEF Before
<1>5. ~relay.disabled <=> relay.awaiting
    BY <1>1 DEF HistoryOK, Framed, Forgets, Arriving, RelayShape
<1>6. CASE relay.disabled
  <2>1. /\ UNCHANGED <<turns, history>> /\ ~relay.awaiting /\ relay.active = 0
        /\ relay' = [pc |-> "deliver", frame |-> relay.frame, active |-> 0, awaiting |-> FALSE,
                     disabled |-> TRUE]
      BY <1>5, <1>6 DEF Observe, RelayShape, HistoryOK, Forgets
  <2>2. RelayShape' BY <1>2, <2>1 DEF RelayShape, Places
  <2>3. TurnsOK'
      BY <1>1, <1>2, <2>1, TurnsRestated DEF Before, TurnsOK
  <2>4. ActiveOK' BY <2>1 DEF ActiveOK
  <2>5. Remembers' BY <1>1, <2>1 DEF HistoryOK, Remembers
  <2>6. HistoryOK'
      BY <1>6, <2>1, <2>5 DEF HistoryOK, Forgets, Judged, Awaits, Framed
  <2>7. RunningOK' BY <2>1 DEF RunningOK
  <2> QED BY <1>3, <2>2, <2>3, <2>4, <2>6, <2>7
<1>7. CASE ~relay.disabled
  <2>1. PICK event : event = relay.frame OBVIOUS
  <2>2. PICK pc \in {"terminal", "deliver"} :
            /\ pc = "terminal" <=> event.type = "completed"
            /\ relay' = [pc |-> pc, frame |-> event, active |-> relay.active, awaiting |-> TRUE,
                         disabled |-> FALSE]
      BY <1>5, <1>7, <2>1 DEF Observe, RelayShape
  <2>3. /\ event.of = Len(created) /\ Len(created) > 0 /\ history.request = Latest.input
        /\ history.id = Unknown /\ IsResponse(Latest)
        /\ \/ /\ event.type = "item" /\ Latest.items = Append(history.items, event.item)
           \/ /\ event.type = "completed" /\ Latest.state = "completed"
              /\ Latest.items = event.output /\ history.items \in {<<>>, event.output}
           \/ event.type = "failed" /\ Latest.items = history.items
    <3>1. IsResponse(Latest)
      <4>1. Len(created) > 0 BY <1>1, <1>5, <1>7 DEF HistoryOK, Awaits, During
      <4> QED BY <1>2, <4>1 DEF CreatedOK, Latest
    <3> QED BY <1>1, <1>5, <1>7, <2>1, <3>1 DEF HistoryOK, Framed, Awaits, During, Arriving
  <2>4. Latest' = Latest BY <1>1 DEF Latest
  <2>5. /\ history' = [request |-> history.request, id |-> history'.id, items |-> history'.items]
        /\ history'.items = Latest.items
        /\ history'.id = IF event.type = "completed" THEN Len(created) ELSE Unknown
    <3>1. CASE event.type = "item"
      <4>1. history' = [history EXCEPT !.items = Append(@, event.item)]
          BY <1>5, <1>7, <2>1, <3>1 DEF Observe
      <4>2. history' = [request |-> history.request, id |-> history.id,
                        items |-> Append(history.items, event.item)]
          BY <4>1 DEF RelayShape
      <4> QED BY <2>3, <3>1, <4>2
    <3>2. CASE event.type = "completed"
      <4>1. PICK items : items = (IF history.items = <<>> THEN event.output ELSE history.items)
          OBVIOUS
      <4>2. history' = [history EXCEPT !.id = event.of, !.items = items]
          BY <1>5, <1>7, <2>1, <3>2, <4>1 DEF Observe
      <4>3. history' = [request |-> history.request, id |-> event.of, items |-> items]
          BY <4>2 DEF RelayShape
      <4> QED BY <2>3, <3>2, <4>1, <4>3
    <3>3. CASE event.type = "failed"
      <4>1. history' = history BY <1>5, <1>7, <2>1, <3>3 DEF Observe
      <4> QED BY <2>3, <3>3, <4>1 DEF RelayShape
    <3> QED BY <2>3, <3>1, <3>2, <3>3
  <2>6. /\ IsSequence(turns') /\ Len(turns') = Len(turns)
        /\ \A k \in 1..Len(turns) : k # relay.active => turns'[k] = turns[k]
        /\ relay.active # 0 =>
              /\ relay.active \in 1..Len(turns) /\ IsTurn(turns'[relay.active])
              /\ turns'[relay.active] =
                    [of |-> Len(created), input |-> turns[relay.active].input,
                     text |-> Latest.events, state |-> "open", complete |-> FALSE]
              /\ turns[relay.active].of = Len(created)
    <3>1. CASE relay.active = 0
        BY <1>2, <3>1 DEF Observe
    <3>2. CASE relay.active # 0
      <4>1. relay.active \in 1..Len(turns) BY <1>2, <3>2 DEF RelayShape
      <4>2. PICK t : t = turns[relay.active] OBVIOUS
      <4>3. /\ IsTurn(t) /\ t.of = Len(created) /\ t.state = "open" /\ t.complete = FALSE
            /\ Latest.events = Append(t.text, event)
          BY <1>1, <2>1, <3>2, <4>1, <4>2 DEF TurnsOK, IsTurn, ActiveOK, During, Arriving
      <4>4. PICK u : u = [t EXCEPT !.text = Append(@, event)] OBVIOUS
      <4>5. turns' = Changed(turns, relay.active, u)
          BY <1>2, <1>5, <1>7, <2>1, <3>2, <4>1, <4>2, <4>4 DEF Observe, Changed
      <4>6. u = [of |-> Len(created), input |-> t.input, text |-> Latest.events, state |-> "open",
                 complete |-> FALSE]
        <5>1. PICK of, input, text, state, complete :
                  t = [of |-> of, input |-> input, text |-> text, state |-> state,
                       complete |-> complete]
            BY <4>3 DEF IsTurn
        <5> QED BY <4>3, <4>4, <5>1
      <4>7. IsTurn(u)
        <5>1. IsSequence(Latest.events) BY <2>3 DEF IsResponse
        <5>2. Len(created) \in Nat \ {0} BY <1>2, <2>3
        <5> QED BY <4>6, <5>1, <5>2 DEF IsTurn, States
      <4>8. /\ IsSequence(turns') /\ Len(turns') = Len(turns) /\ turns'[relay.active] = u
            /\ \A k \in 1..Len(turns) : k # relay.active => turns'[k] = turns[k]
          BY <1>2, <4>1, <4>5, SequenceChanged
      <4> QED BY <4>1, <4>2, <4>3, <4>6, <4>7, <4>8
    <3> QED BY <3>1, <3>2
  <2>7. RelayShape' BY <2>2, <2>5, <2>6 DEF RelayShape, Places
  <2>8. TurnsOK'
    <3>1. Begins(Latest.events, Latest.events)
      <4>1. IsSequence(Latest.events) BY <2>3 DEF IsResponse
      <4>2. Len(Latest.events) \in Nat BY <4>1, SequenceParts
      <4> QED BY <4>2 DEF Begins
    <3>2. ASSUME NEW k \in 1..Len(turns)
          PROVE  /\ IsTurn(turns'[k]) /\ turns'[k].of = turns[k].of /\ turns'[k].of <= Len(created)
                 /\ turns'[k].input = created[turns'[k].of].input
                 /\ Begins(turns'[k].text, created[turns'[k].of].events)
      <4>1. CASE k = relay.active
        <5>1. /\ turns[k].input = created[turns[k].of].input /\ turns[k].of = Len(created)
            BY <1>2, <2>6, <4>1, <1>4 DEF TurnsOK
        <5> QED BY <1>2, <2>6, <3>1, <4>1, <5>1 DEF Latest
      <4>2. CASE k # relay.active BY <1>4, <2>6, <4>2 DEF TurnsOK
      <4> QED BY <4>1, <4>2
    <3>3. ASSUME NEW k \in 1..Len(turns), NEW j \in 1..(k - 1) PROVE turns'[j].of < turns'[k].of
      <4>1. j \in 1..Len(turns) BY <1>2
      <4> QED BY <3>2, <4>1 DEF TurnsOK
    <3> QED BY <1>1, <2>6, <3>2, <3>3 DEF TurnsOK
  <2>9. ActiveOK'
      BY <1>1, <2>2, <2>4, <2>6 DEF ActiveOK, Before, During, Arriving
  <2>10. HistoryOK'
    <3>1. Remembers' BY <1>1, <1>2, <2>3, <2>5 DEF Remembers, Latest
    <3>2. Forgets' BY <2>2 DEF Forgets
    <3>3. Judged' BY <2>2 DEF Judged, Before
    <3>4. Awaits' BY <1>1, <2>2, <2>3, <2>4, <2>5 DEF Awaits, Arriving
    <3>5. Framed' BY <1>1, <2>2, <2>5 DEF Framed, Arriving
    <3> QED BY <3>1, <3>2, <3>3, <3>4, <3>5 DEF HistoryOK
  <2>11. RunningOK'
    <3>1. ASSUME NEW n \in 1..Len(created), created[n].state = "running"
          PROVE  n = Len(created) /\ pc = "deliver"
        BY <1>1, <1>7, <2>2, <2>3, <3>1 DEF RunningOK, Latest
    <3> QED BY <1>1, <2>2, <3>1 DEF RunningOK, During
  <2> QED BY <1>3, <2>7, <2>8, <2>9, <2>10, <2>11
<1> QED BY <1>6, <1>7

LEMMA ToClientKeeps ==
    ASSUME SocketIInv, ToClient
    PROVE  SocketIInv'
<1> USE DEF SocketIInv
<1>1. UNCHANGED <<created, history>> /\ relay.pc \in {"terminal", "deliver"}
    BY DEF ToClient, Steps
<1>2. PICK forwarded \in BOOLEAN, pc \in {"select", "closing"} :
          IF relay.pc = "terminal"
          THEN /\ relay' = [relay EXCEPT !.pc = pc, !.frame = NoFrame, !.awaiting = FALSE, !.active = 0]
               /\ turns' = FinishTurn(forwarded)
          ELSE relay' = [relay EXCEPT !.pc = pc, !.frame = NoFrame] /\ UNCHANGED turns
    BY DEF ToClient
<1>3. CASE relay.pc = "deliver"
  <2>1. Advances({"deliver"}, {"select"}) \/ Advances({"deliver"}, {"closing"})
      BY <1>2, <1>3 DEF Advances, RelayShape
  <2>2. RelayShape' BY <1>1, <1>2, <1>3 DEF RelayShape, Places
  <2> QED BY <1>1, <1>2, <1>3, <2>1, <2>2, MovesKeep DEF Moves, Advances, RelayShape
<1>4. CASE relay.pc = "terminal"
  <2>1. relay.awaiting /\ ~relay.disabled BY <1>4 DEF HistoryOK, Framed
  <2>2. relay' = [pc |-> pc, frame |-> NoFrame, active |-> 0, awaiting |-> FALSE, disabled |-> FALSE]
      BY <1>2, <1>4, <2>1 DEF RelayShape
  <2>3. turns' = FinishTurn(forwarded) BY <1>2, <1>4
  <2>4. TurnsOK' BY <1>1, <1>4, <2>3, TurnFinished, TurnsRestated DEF Before
  <2>5. RelayShape' BY <1>1, <2>2, <2>4, SequenceParts DEF RelayShape, Places, TurnsOK
  <2>6. CreatedOK' BY <1>1 DEF CreatedOK
  <2>7. ActiveOK' BY <2>2 DEF ActiveOK
  <2>8. Remembers' BY <1>1 DEF HistoryOK, Remembers
  <2>9. HistoryOK'
      BY <2>2, <2>8 DEF HistoryOK, Forgets, Judged, Awaits, Framed, Before, Arriving
  <2>10. RunningOK' BY <1>1, <1>4, <2>1 DEF RunningOK
  <2> QED BY <2>4, <2>5, <2>6, <2>7, <2>9, <2>10
<1> QED BY <1>1, <1>3, <1>4

\* The relay is over: no turn is active, and nothing is sent or observed.
LEMMA EndKeeps ==
    ASSUME SocketIInv, UNCHANGED <<created, history>>,
           relay' = [relay EXCEPT !.pc = "ended", !.active = 0],
           IsSequence(turns'), Len(turns') = Len(turns),
           \A k \in 1..Len(turns) :
               /\ IsTurn(turns'[k]) /\ turns'[k].of = turns[k].of
               /\ turns'[k].input = turns[k].input /\ turns'[k].text = turns[k].text
    PROVE  SocketIInv'
<1> USE DEF SocketIInv
<1>1. relay' = [pc |-> "ended", frame |-> relay.frame, active |-> 0, awaiting |-> relay.awaiting,
                disabled |-> relay.disabled]
    BY DEF RelayShape
<1>2. TurnsOK' BY <1>1, TurnsRestated
<1>3. RelayShape'
  <2>1. Len(turns') \in Nat BY SequenceParts
  <2>2. relay'.active \in 0..Len(turns') BY <1>1, <2>1
  <2> QED BY <1>1, <2>2 DEF RelayShape, Places
<1>4. CreatedOK' BY DEF CreatedOK
<1>5. ActiveOK' BY <1>1 DEF ActiveOK
<1>6. Remembers' BY DEF HistoryOK, Remembers
<1>7. HistoryOK'
    BY <1>1, <1>6 DEF HistoryOK, Forgets, Judged, Awaits, Framed, Before, During, Arriving
<1>8. RunningOK' BY <1>1 DEF RunningOK
<1> QED BY <1>2, <1>3, <1>4, <1>5, <1>7, <1>8

LEMMA CloseKeeps ==
    ASSUME SocketIInv, Close
    PROVE  SocketIInv'
BY TurnFinished, EndKeeps DEF Close

LEMMA AbortKeeps ==
    ASSUME SocketIInv, RelayAborted
    PROVE  SocketIInv'
<1>1. Len(turns) \in Nat /\ DOMAIN turns = 1..Len(turns)
    BY SequenceParts DEF SocketIInv, TurnsOK
<1>2. ASSUME NEW k \in 1..Len(turns)
      PROVE  /\ IsTurn(turns'[k]) /\ turns'[k].of = turns[k].of
             /\ turns'[k].input = turns[k].input /\ turns'[k].text = turns[k].text
  <2>1. PICK t : t = turns[k] OBVIOUS
  <2>2. IsTurn(t) BY <2>1 DEF SocketIInv, TurnsOK
  <2>3. PICK state : state = IF t.state = "open" THEN "left" ELSE t.state OBVIOUS
  <2>4. turns'[k] = [t EXCEPT !.state = state] BY <1>1, <2>1, <2>3 DEF RelayAborted
  <2>5. turns'[k] = Rewritten(t, state, t.complete)
      BY <2>2, <2>4 DEF IsTurn, Rewritten
  <2>6. /\ state \in States /\ t.complete \in BOOLEAN
        /\ t.complete => t.text # <<>> /\ Last(t.text).type = "completed"
      BY <2>2, <2>3 DEF IsTurn, States
  <2> QED BY <2>1, <2>2, <2>5, <2>6, TurnRewritten
<1>3. IsSequence(turns') /\ Len(turns') = Len(turns)
  <2>1. turns' = [k \in 1..Len(turns) |-> turns'[k]] BY <1>1 DEF RelayAborted
  <2> QED BY <1>1, <2>1, SequenceMade
<1> QED BY <1>2, <1>3, EndKeeps DEF RelayAborted

LEMMA TurnCommittedKeeps ==
    ASSUME SocketIInv, NEW k \in DOMAIN turns, TurnCommitted(k)
    PROVE  SocketIInv'
<1> USE DEF SocketIInv
<1>1. UNCHANGED <<created, relay, history>> BY DEF TurnCommitted
<1>2. k \in 1..Len(turns) /\ DOMAIN turns = 1..Len(turns) BY SequenceParts DEF TurnsOK
<1>3. PICK t : t = turns[k] OBVIOUS
<1>4. IsTurn(t) /\ t.state = "committing" BY <1>2, <1>3 DEF TurnsOK, TurnCommitted
<1>5. PICK u : u = [t EXCEPT !.state = "done"] OBVIOUS
<1>6. IsTurn(u) /\ u.of = t.of /\ u.input = t.input /\ u.text = t.text
  <2>1. u = Rewritten(t, "done", t.complete)
      BY <1>4, <1>5 DEF IsTurn, Rewritten
  <2>2. /\ "done" \in States /\ t.complete \in BOOLEAN
        /\ t.complete => t.text # <<>> /\ Last(t.text).type = "completed"
      BY <1>4 DEF IsTurn, States
  <2> QED BY <1>4, <2>1, <2>2, TurnRewritten
<1>7. turns' = Changed(turns, k, u) BY <1>2, <1>3, <1>5 DEF TurnCommitted, Changed
<1>8. IsSequence(turns) BY DEF TurnsOK
<1>9. /\ IsSequence(turns') /\ Len(turns') = Len(turns) /\ turns'[k] = u
      /\ \A j \in 1..Len(turns) : j # k => turns'[j] = turns[j]
    BY <1>2, <1>7, <1>8, SequenceChanged
<1>10. TurnsOK' BY <1>1, <1>3, <1>6, <1>9, TurnsRestated DEF TurnsOK
<1>11. RelayShape' BY <1>1, <1>9 DEF RelayShape
<1>12. CreatedOK' BY <1>1 DEF CreatedOK
<1>13. ActiveOK'
  <2>1. relay.active # 0 => relay.active # k BY <1>3, <1>4 DEF ActiveOK
  <2>2. relay.active # 0 => turns'[relay.active] = turns[relay.active]
      BY <1>9, <2>1 DEF RelayShape
  <2> QED BY <1>1, <1>9, <2>2 DEF ActiveOK, Latest
<1>14. HistoryOK'
  <2>1. WholeInput(relay.frame)' = WholeInput(relay.frame) BY <1>1 DEF WholeInput, Number
  <2>2. Judged' BY <1>1, <2>1 DEF HistoryOK, Judged, Restarted
  <2> QED BY <1>1, <2>2 DEF HistoryOK, Remembers, Forgets, Awaits, Framed, Latest
<1>15. RunningOK' BY <1>1 DEF RunningOK
<1> QED BY <1>10, <1>11, <1>12, <1>13, <1>14, <1>15

LEMMA StutterKeeps ==
    ASSUME SocketIInv, UNCHANGED socket
    PROVE  SocketIInv'
<1> USE DEF SocketIInv, socket
<1>1. WholeInput(relay.frame)' = WholeInput(relay.frame) BY DEF WholeInput, Number
<1>2. Judged' BY <1>1 DEF HistoryOK, Judged, Restarted
<1>3. HistoryOK' BY <1>2 DEF HistoryOK, Remembers, Forgets, Awaits, Framed, Latest
<1>4. TurnsOK' BY DEF TurnsOK, Unasked
<1> QED BY <1>3, <1>4 DEF RelayShape, CreatedOK, ActiveOK, RunningOK, Latest

LEMMA SocketInitially == Init => SocketIInv
<1> SUFFICES ASSUME Init PROVE SocketIInv
    OBVIOUS
<1>1. /\ created = <<>> /\ turns = <<>> /\ history = Forgotten
      /\ \E pc \in {"new", "closed"} :
            relay = [pc |-> pc, frame |-> NoFrame, active |-> 0, awaiting |-> FALSE, disabled |-> FALSE]
    BY DEF Init
<1>2. RelayShape BY <1>1, EmptySequence DEF RelayShape, Places, Forgotten
<1>3. CreatedOK /\ TurnsOK BY <1>1, EmptySequence DEF CreatedOK, TurnsOK
<1>4. ActiveOK BY <1>1 DEF ActiveOK
<1>5. HistoryOK
    BY <1>1 DEF HistoryOK, Remembers, Forgets, Judged, Awaits, Framed, Forgotten, Before, Arriving
<1>6. RunningOK BY <1>1, EmptySequence DEF RunningOK
<1> QED BY <1>2, <1>3, <1>4, <1>5, <1>6 DEF SocketIInv

LEMMA SocketPreserved == SocketIInv /\ [Next]_vars => SocketIInv'
<1> SUFFICES ASSUME SocketIInv, [Next]_vars PROVE SocketIInv'
    OBVIOUS
<1>1. CASE UNCHANGED socket BY <1>1, StutterKeeps
<1>2. CASE RelayWorks
  <2>1. CASE Ambiguous BY <2>1, DisableKeeps DEF Ambiguous, Steps
  <2>2. CASE RelayEnds BY <2>2, StutterKeeps DEF RelayEnds
  <2> QED BY <1>2, <2>1, <2>2, StepsThatMove, JudgeKeeps, PrepareTurnKeeps, ObserveKeeps, CloseKeeps,
             TurnCommittedKeeps
          DEF RelayWorks
<1>3. CASE RelayOutside
  <2>1. CASE BinaryFromClient BY <2>1, DisableKeeps DEF BinaryFromClient, Steps
  <2> QED BY <1>3, <2>1, StepsThatMove, ToUpstreamKeeps, FromUpstreamKeeps, ToClientKeeps
          DEF RelayOutside
<1>4. CASE RelayAborted BY <1>4, AbortKeeps
<1> QED BY <1>1, <1>2, <1>3, <1>4 DEF Next, Lifecycle, Http, vars, socket

\* proxy.rs and proxy/websocket.rs: over HTTP and the WebSocket, a request is
\* captured as the origin took it and a response as it was answered, complete only
\* if the origin ended it and the client has or will have all of it.
THEOREM CapturedIsWhatPassed == Spec => []TurnsInv
<1>1. HttpIInv /\ SocketIInv => TypeOK
  <2> SUFFICES ASSUME HttpIInv, SocketIInv PROVE TypeOK
      OBVIOUS
  <2>1. DOMAIN turns = 1..Len(turns) /\ DOMAIN created = 1..Len(created)
      BY SequenceParts DEF SocketIInv, TurnsOK, CreatedOK
  <2>2. /\ relay.active \in 0..Len(turns)
        /\ \A k \in DOMAIN turns : turns[k].state \in States
        /\ \A n \in DOMAIN created : created[n].state \in {"running", "completed", "failed"}
      BY <2>1 DEF SocketIInv, RelayShape, TurnsOK, IsTurn, CreatedOK, IsResponse
  <2>3. \A r \in Requests :
            /\ at[r] \in {"new", "idle", "gate", "sent", "preparing", "passing", "teed", "over", "closed"}
            /\ seen[r] + Len(channel[r]) <= tee[r].got + 1 /\ tee[r].got <= Chunks
            /\ upstream[r] \in {"open", "ended", "torn"}
            /\ turn[r].state \in States /\ turn[r].text \in 0..Chunks
    <3>1. Chunks \in Nat BY ProxyAssumption
    <3> QED BY <3>1 DEF HttpIInv, HttpTypes, Flow, ChunkFlow
  <2>4. \A r \in gate \cap Requests : at[r] \in {"sent", "preparing"}
      BY DEF HttpIInv, Flow, HandlerFlow
  <2> QED BY <2>2, <2>3, <2>4 DEF TypeOK, HttpIInv, HttpTypes, GateOK
<1>2. HttpIInv => CompleteIsWhole
  <2> SUFFICES ASSUME HttpIInv, NEW r \in Requests, turn[r].complete
               PROVE  /\ upstream[r] = "ended" /\ turn[r].text = Chunks
                      /\ Gone(r) \/ seen[r] + Len(channel[r]) = Chunks
      BY DEF CompleteIsWhole
  <2> QED BY DEF HttpIInv, Flow, TurnFlow, ChunkFlow
<1>3. SocketIInv => RelayedTurnIsWhole
  <2> SUFFICES ASSUME SocketIInv, NEW k \in DOMAIN turns, turns[k].of \in DOMAIN created
               PROVE  turns[k].input = created[turns[k].of].input
      BY DEF RelayedTurnIsWhole
  <2>1. DOMAIN turns = 1..Len(turns) /\ DOMAIN created = 1..Len(created) /\ Len(created) \in Nat
      BY SequenceParts DEF SocketIInv, TurnsOK, CreatedOK
  <2>2. turns[k].of <= Len(created) BY <2>1
  <2> QED BY <2>1, <2>2 DEF SocketIInv, TurnsOK
<1>4. SocketIInv => AnswerIsItsOwn
  <2> SUFFICES ASSUME SocketIInv, NEW k \in DOMAIN turns,
                      NEW own, own = IF turns[k].of \in DOMAIN created
                                     THEN created[turns[k].of].events ELSE <<>>
               PROVE  /\ IsPrefix(turns[k].text, own)
                      /\ turns[k].complete => turns[k].text = own
                      /\ \A j \in 1..(k - 1) : turns[j].of < turns[k].of
      BY DEF AnswerIsItsOwn
  <2>1. DOMAIN turns = 1..Len(turns) /\ DOMAIN created = 1..Len(created) /\ Len(created) \in Nat
      BY SequenceParts DEF SocketIInv, TurnsOK, CreatedOK
  <2>2. IsTurn(turns[k]) /\ IsSequence(turns[k].text) BY <2>1 DEF SocketIInv, TurnsOK, IsTurn
  <2>3. IsSequence(own) /\ Begins(turns[k].text, own)
    <3>1. CASE turns[k].of \in DOMAIN created
        BY <2>1, <3>1 DEF SocketIInv, TurnsOK, CreatedOK, IsResponse
    <3>2. CASE turns[k].of \notin DOMAIN created
      <4>1. ~(turns[k].of <= Len(created)) BY <2>1, <2>2, <3>2 DEF IsTurn
      <4>2. turns[k].text = <<>> BY <2>1, <4>1 DEF SocketIInv, TurnsOK, Unasked
      <4> QED BY <3>2, <4>2, EmptySequence DEF Begins
    <3> QED BY <3>1, <3>2
  <2>4. ASSUME turns[k].complete PROVE turns[k].text = own
    <3>1. PICK text : text = turns[k].text OBVIOUS
    <3>2. text # <<>> /\ text[Len(text)].type = "completed" /\ IsSequence(text)
        BY <2>2, <2>4, <3>1 DEF IsTurn, Last
    <3>3. Len(text) \in Nat \ {0}
      <4>1. text \in Seq(Range(text)) BY <3>2 DEF IsSequence
      <4> QED BY <3>2, <4>1, EmptySeq
    <3>4. /\ Len(own) \in Nat /\ Len(text) \in 1..Len(own)
          /\ own[Len(text)].type = "completed"
      <4>1. Len(own) \in Nat BY <2>3, SequenceParts
      <4>2. /\ Len(text) <= Len(own)
            /\ \A i \in 1..Len(text) : text[i] = own[i]
          BY <2>3, <3>1 DEF Begins
      <4>3. Len(text) \in 1..Len(text) /\ Len(text) \in 1..Len(own)
          BY <3>3, <4>1, <4>2
      <4>4. text[Len(text)] = own[Len(text)] BY <4>2, <4>3
      <4> QED BY <3>2, <4>1, <4>3, <4>4
    <3>5. turns[k].of \in DOMAIN created BY <3>4, EmptySequence
    <3>6. Len(text) = Len(own) BY <2>1, <3>4, <3>5 DEF SocketIInv, CreatedOK, IsResponse
    <3> QED BY <2>2, <2>3, <3>1, <3>6, BeginsProperties
  <2>5. IsPrefix(turns[k].text, own) BY <2>2, <2>3, BeginsProperties
  <2> QED BY <2>1, <2>4, <2>5 DEF SocketIInv, TurnsOK
<1>5. HttpIInv /\ SocketIInv => TurnsInv BY <1>1, <1>2, <1>3, <1>4 DEF TurnsInv
<1> QED BY <1>5, HttpInitially, HttpPreserved, SocketInitially, SocketPreserved, PTL DEF Spec

\* So it is beside any number of copies of the daemon.
COROLLARY CapturedBesideCopies == HandoverSpec => [](TurnsInv /\ EndFollowsCommit)
BY IncumbentIsRelay, CapturedIsWhatPassed, ClientsSeeCommittedTurns, PTL
=============================================================================
