-------------------------------- MODULE Proxy --------------------------------
(***************************************************************************)
(* One listener of plant (crates/plant/src/proxy.rs, proxy/connect.rs) and *)
(* the turns it captures: admission by DOM_GATE, the preparation that a    *)
(* blocking thread makes, the tee between upstream, client and capture,    *)
(* and the drain at shutdown.  Relay adds the WebSocket.                   *)
(*                                                                         *)
(* A client makes one request on its connection.  A response is a number   *)
(* of chunks, the last of which holds the terminal event.  The reservation *)
(* of a turn is the last step of its preparation.                          *)
(***************************************************************************)
EXTENDS Integers, Sequences, FiniteSets

CONSTANTS
    Requests,
    Tunnelled,      \* those that come through an intercepted CONNECT
    Captured,       \* those the adapter captures
    Scenes,         \* what there is: [clients, creates, drains, copies], the messages
                    \* of the WebSocket, whether the listener is told to drain, and
                    \* whether other daemons are started (Handover)
    Permits,        \* of DOM_GATE
    Chunks,         \* of a whole response
    Buffer          \* capacity of the channel to the client

Socket == "socket"  \* the client of Relay

ASSUME ProxyAssumption ==
    /\ Tunnelled \subseteq Requests /\ Captured \subseteq Requests /\ Socket \notin Requests
    /\ {Permits, Chunks, Buffer} \subseteq Nat \ {0}
    /\ \A s \in Scenes : s.clients \subseteq Requests \cup {Socket} /\ s.creates \in Nat /\ s.drains \in BOOLEAN

VARIABLES
    scene, server,
    expired,        \* whether the deadline of the drain has passed
    cancelled,      \* the token that aborts capture tasks
    tasks,          \* capture tasks of the tracker
    gate,           \* who holds a permit
    at,             \* where the handler of each request is
    preparing,      \* requests whose preparation runs on a blocking thread
    upstream,       \* how the response of the origin ended
    tee,            \* the capture task of a response: [pc, got]
    channel,        \* from the tee to the client
    seen,           \* chunks the client has read
    turn            \* [state, complete, text]

lifecycle == <<scene, server, expired, cancelled>>
streams == <<upstream, tee, channel, seen>>
http == <<at, preparing, streams, turn>>

NoTurn == [state |-> "none", complete |-> FALSE, text |-> 0]
Kept == {"open", "committing"}      \* states of a turn that somebody will end

HttpInit ==
    /\ scene \in Scenes
    /\ server = "serving" /\ expired = FALSE /\ cancelled = FALSE
    /\ tasks = {} /\ gate = {} /\ preparing = {}
    /\ at = [r \in Requests |-> IF r \in scene.clients THEN "new" ELSE "closed"]
    /\ upstream = [r \in Requests |-> "open"]
    /\ tee = [r \in Requests |-> [pc |-> "none", got |-> 0]]
    /\ channel = [r \in Requests |-> <<>>]
    /\ seen = [r \in Requests |-> 0]
    /\ turn = [r \in Requests |-> NoTurn]

Goto(r, place) == at' = [at EXCEPT ![r] = place]
Gone(r) == at[r] = "closed"

-----------------------------------------------------------------------------
(* The handler of a request.                                               *)

Connect(r) ==
    /\ server = "serving" /\ at[r] = "new"
    /\ Goto(r, "idle")
    /\ UNCHANGED <<lifecycle, tasks, gate, preparing, streams, turn>>

\* A connection that was accepted is served, during the drain as well.
Request(r) ==
    /\ at[r] = "idle"
    /\ Goto(r, IF r \in Captured THEN "gate" ELSE "sent")
    /\ UNCHANGED <<lifecycle, tasks, gate, preparing, streams, turn>>

Admit(r) ==
    /\ at[r] = "gate" /\ Cardinality(gate) < Permits
    /\ gate' = gate \cup {r}
    /\ Goto(r, "sent")
    /\ UNCHANGED <<lifecycle, tasks, preparing, streams, turn>>

\* Whatever ends the handler returns its permit, though a preparation of it may
\* still run.
Returned(r) == gate \ {r}

UpstreamFails(r) ==
    /\ at[r] = "sent"
    /\ Goto(r, "over") /\ gate' = Returned(r)
    /\ UNCHANGED <<lifecycle, tasks, preparing, streams, turn>>

\* The headers of the response.
UpstreamAnswers(r) ==
    /\ at[r] = "sent"
    /\ IF r \in Captured
       THEN Goto(r, "preparing") /\ preparing' = preparing \cup {r}
       ELSE Goto(r, "passing") /\ UNCHANGED preparing
    /\ UNCHANGED <<lifecycle, tasks, gate, streams, turn>>

\* The handler takes the turn that was reserved and spawns the tee, which a
\* cancelled token drops with its turn; one that is gone leaves the turn.
Prepared(r) ==
    /\ r \in preparing /\ preparing' = preparing \ {r}
    /\ IF at[r] = "preparing" /\ ~cancelled
       THEN /\ turn' = [turn EXCEPT ![r].state = "open"]
            /\ tasks' = tasks \cup {r}
            /\ tee' = [tee EXCEPT ![r].pc = "poll"]
       ELSE turn' = [turn EXCEPT ![r].state = "left"] /\ UNCHANGED <<tasks, tee>>
    /\ IF at[r] = "preparing" THEN Goto(r, "teed") /\ gate' = Returned(r)
                              ELSE UNCHANGED <<at, gate>>
    /\ UNCHANGED <<lifecycle, upstream, channel, seen>>

\* No session, no headroom, no journal: the response passes uncaptured.
PrepareFails(r) ==
    /\ r \in preparing /\ preparing' = preparing \ {r}
    /\ IF at[r] = "preparing" THEN Goto(r, "passing") /\ gate' = Returned(r)
                              ELSE UNCHANGED <<at, gate>>
    /\ UNCHANGED <<lifecycle, tasks, streams, turn>>

Passes(r) ==
    /\ at[r] = "passing"
    /\ Goto(r, "over")
    /\ UNCHANGED <<lifecycle, tasks, gate, preparing, streams, turn>>

ClientLeaves(r) ==
    /\ at[r] \notin {"new", "closed"}
    /\ Goto(r, "closed") /\ gate' = Returned(r)
    /\ UNCHANGED <<lifecycle, tasks, preparing, streams, turn>>

-----------------------------------------------------------------------------
(* The response.                                                           *)

\* response_complete: the transport ended well and the terminal event is there.
ResponseComplete(r, transport) == transport /\ tee[r].got = Chunks

\* The loop of the tee is left: what was read is committed on a blocking thread.
Finish(r, transport) ==
    /\ tee' = [tee EXCEPT ![r].pc = "commit"]
    /\ turn' = [turn EXCEPT ![r] = [state |-> "committing", text |-> tee[r].got,
                                    complete |-> ResponseComplete(r, transport)]]

Polls(r) == r \in tasks /\ tee[r].pc = "poll"

ClientClosed(r) ==
    /\ Polls(r) /\ Gone(r)
    /\ Finish(r, FALSE)
    /\ UNCHANGED <<lifecycle, tasks, gate, at, preparing, upstream, channel, seen>>

\* The timer runs whenever the tee waits (mutant: once a chunk was read).
IdleOnceRead(r) == Polls(r) /\ tee[r].got > 0
Idle(r) == Polls(r)

IdleTimeout(r) ==
    /\ Idle(r)
    /\ Finish(r, FALSE)
    /\ UNCHANGED <<lifecycle, tasks, gate, at, preparing, upstream, channel, seen>>

\* The origin sends a chunk, or ends its response, when the tee reads it.
ReadChunk(r) ==
    /\ Polls(r) /\ ~Gone(r) /\ tee[r].got < Chunks
    /\ tee' = [tee EXCEPT ![r] = [pc |-> "send", got |-> @.got + 1]]
    /\ UNCHANGED <<lifecycle, tasks, gate, at, preparing, upstream, channel, seen, turn>>

ReadEnd(r) ==
    /\ Polls(r) /\ ~Gone(r)
    /\ upstream' = [upstream EXCEPT ![r] = "ended"]
    /\ Finish(r, TRUE)
    /\ UNCHANGED <<lifecycle, tasks, gate, at, preparing, channel, seen>>

ReadError(r) ==
    /\ Polls(r) /\ ~Gone(r)
    /\ upstream' = [upstream EXCEPT ![r] = "torn"]
    /\ tee' = [tee EXCEPT ![r].pc = "error"]
    /\ UNCHANGED <<lifecycle, tasks, gate, at, preparing, channel, seen, turn>>

\* A full channel holds the tee, for as long as its client neither reads nor goes.
Send(r) ==
    /\ r \in tasks /\ tee[r].pc \in {"send", "error"}
    /\ IF Gone(r) THEN Finish(r, FALSE) /\ UNCHANGED channel
       ELSE /\ Len(channel[r]) < Buffer
            /\ channel' = [channel EXCEPT ![r] = Append(@, tee[r].pc)]
            /\ IF tee[r].pc = "error" THEN Finish(r, FALSE)
               ELSE tee' = [tee EXCEPT ![r].pc = "poll"] /\ UNCHANGED turn
    /\ UNCHANGED <<lifecycle, tasks, gate, at, preparing, upstream, seen>>

\* The commit is done or has failed, whether or not its task was aborted.
Committed(r) ==
    /\ turn[r].state = "committing"
    /\ turn' = [turn EXCEPT ![r].state = "done"]
    /\ tasks' = tasks \ {r}
    /\ UNCHANGED <<lifecycle, gate, at, preparing, streams>>

ClientReads(r) ==
    /\ at[r] = "teed" /\ channel[r] # <<>>
    /\ channel' = [channel EXCEPT ![r] = Tail(@)]
    /\ IF Head(channel[r]) = "send"
       THEN seen' = [seen EXCEPT ![r] = @ + 1] /\ UNCHANGED at
       ELSE Goto(r, "closed") /\ UNCHANGED seen
    /\ UNCHANGED <<lifecycle, tasks, gate, preparing, upstream, tee, turn>>

\* The sender of the channel is dropped with the task (mutant: with its loop).
LoopIsLeft(r) == tee[r].pc = "commit"
SenderDropped(r) == r \notin tasks

ClientSeesEnd(r) ==
    /\ at[r] = "teed" /\ channel[r] = <<>> /\ SenderDropped(r)
    /\ Goto(r, "over")
    /\ UNCHANGED <<lifecycle, tasks, gate, preparing, streams, turn>>

\* A cancelled task drops its turn; what it has begun to commit goes on.
Aborted(r) ==
    /\ cancelled /\ r \in tasks
    /\ tasks' = tasks \ {r}
    /\ turn' = [turn EXCEPT ![r].state = IF @ = "open" THEN "left" ELSE @]
    /\ UNCHANGED <<lifecycle, gate, at, preparing, streams>>

-----------------------------------------------------------------------------
(* serve_with_shutdown joins the connections it accepted.                  *)

\* CONNECT: what a tunnel carries is served by a task of its own.
Accepted == Requests \ Tunnelled
Connections == {r \in Accepted : at[r] \notin {"new", "closed"}}

Shutdown ==
    /\ scene.drains
    /\ server = "serving" /\ server' = "draining"
    /\ UNCHANGED <<scene, expired, cancelled, tasks, gate, http>>

DeadlinePasses ==
    /\ server \in {"draining", "settling"} /\ ~expired
    /\ expired' = TRUE
    /\ UNCHANGED <<scene, server, cancelled, tasks, gate, http>>

Joined ==
    /\ server = "draining" /\ Connections = {}
    /\ server' = "settling"
    /\ UNCHANGED <<scene, expired, cancelled, tasks, gate, http>>

AbortConnections ==
    /\ server = "draining" /\ expired /\ Connections # {}
    /\ server' = "aborting" /\ cancelled' = TRUE
    /\ at' = [r \in Requests |-> IF r \in Connections THEN "closed" ELSE at[r]]
    /\ gate' = gate \ Connections
    /\ UNCHANGED <<scene, expired, tasks, preparing, streams, turn>>

\* The tasks get what is left of the time (mutant: all the time they want).
Patient == FALSE
OutOfTime == expired
AbortTasks ==
    /\ server = "settling" /\ OutOfTime /\ tasks # {}
    /\ server' = "aborting" /\ cancelled' = TRUE
    /\ UNCHANGED <<scene, expired, tasks, gate, http>>

\* Aborted tasks are waited for as well (mutant: not).
Unawaited == server = "aborting" \/ tasks = {}
AllEnded == tasks = {}
Release ==
    /\ server \in {"settling", "aborting"} /\ AllEnded
    /\ server' = "released"
    /\ UNCHANGED <<scene, expired, cancelled, tasks, gate, http>>

\* Once every listener is released.
Exit ==
    /\ server = "released" /\ server' = "exited"
    /\ UNCHANGED <<scene, expired, cancelled, tasks, gate, http>>

Handle(r) == Admit(r) \/ Prepared(r) \/ PrepareFails(r)
Tee(r) == ClientClosed(r) \/ IdleTimeout(r) \/ Send(r) \/ Committed(r) \/ Aborted(r)
Client(r) == Connect(r) \/ Request(r) \/ ClientLeaves(r) \/ ClientReads(r) \/ ClientSeesEnd(r) \/ Passes(r)
Origin(r) == UpstreamFails(r) \/ UpstreamAnswers(r) \/ ReadChunk(r) \/ ReadEnd(r) \/ ReadError(r)
Drain == DeadlinePasses \/ Joined \/ AbortConnections \/ AbortTasks \/ Release
==============================================================================
