-------------------------------- MODULE Relay --------------------------------
(***************************************************************************)
(* The WebSocket of codex through plant (proxy/websocket.rs), beside the   *)
(* requests of Proxy, with which it shares DOM_GATE and the drain.         *)
(*                                                                         *)
(* A client sends response.create with its new input, after a response it  *)
(* names or after none; plant rebuilds the whole input from what it has    *)
(* relayed.  created is what the origin knows: a response's number is its  *)
(* id, its new input, and the first part of its items.                     *)
(***************************************************************************)
EXTENDS Proxy, SequencesExt

VARIABLES
    created,    \* responses at the origin: [input, warmup, items, events, state]
    relay,      \* [pc, frame, active, awaiting, disabled]
    history,    \* RelayHistory: [request, id, items]
    turns       \* what was captured: [of, input, text, state, complete]

socket == <<created, relay, history, turns>>
vars == <<lifecycle, tasks, gate, http, socket>>

Unknown == 0
Forgotten == [request |-> <<>>, id |-> Unknown, items |-> <<>>]
NoFrame == [type |-> "none", previous |-> Unknown, warmup |-> FALSE]
Ended == {"ended", "closed"}

Init ==
    /\ HttpInit
    /\ created = <<>> /\ history = Forgotten /\ turns = <<>>
    /\ relay = [pc |-> IF Socket \in scene.clients THEN "new" ELSE "closed", frame |-> NoFrame,
                active |-> 0, awaiting |-> FALSE, disabled |-> FALSE]

\* The number of the next response.
Number == Len(created) + 1
\* The input of a create, as the origin takes it.
WholeInput(frame) ==
    (IF frame.previous = Unknown THEN <<>>
     ELSE created[frame.previous].input \o created[frame.previous].items) \o <<Number>>

-----------------------------------------------------------------------------
\* A turn is committed with what was observed, on a blocking thread that the
\* relay waits for.
Complete(t, transport) ==
    transport /\ t.text # <<>> /\ Last(t.text).type = "completed"
FinishTurn(transport) ==
    IF relay.active = 0 THEN turns
    ELSE [turns EXCEPT ![relay.active].state = "committing",
                       ![relay.active].complete = Complete(turns[relay.active], transport)]
Waits == \E k \in DOMAIN turns : turns[k].state = "committing"
Steps(pc) == Socket \in tasks /\ relay.pc = pc /\ ~Waits

TurnCommitted(k) ==
    /\ turns[k].state = "committing"
    /\ turns' = [turns EXCEPT ![k].state = "done"]
    /\ UNCHANGED <<lifecycle, tasks, gate, http, created, relay, history>>

\* On a connection that was accepted, during the drain as well.
Upgrade ==
    /\ relay.pc = "new" /\ server \in {"serving", "draining"}
    /\ relay' = [relay EXCEPT !.pc = "select"] /\ tasks' = tasks \cup {Socket}
    /\ UNCHANGED <<lifecycle, gate, http, created, history, turns>>

\* disable_ambiguous_capture: the rest of the connection is not captured.
Disable(pc) ==
    /\ relay' = [relay EXCEPT !.pc = pc, !.active = 0, !.awaiting = FALSE, !.disabled = TRUE]
    /\ history' = Forgotten
    /\ turns' = FinishTurn(FALSE)

-----------------------------------------------------------------------------
(* From the client.                                                        *)

\* Which create it is no longer matters once nothing is captured.
Frames ==
    {[NoFrame EXCEPT !.type = "text"], [NoFrame EXCEPT !.type = "create"]}
        \cup IF relay.disabled THEN {}
             ELSE [type : {"create"}, previous : 0..Len(created), warmup : BOOLEAN]

FromClient ==
    /\ Steps("select") /\ Number <= scene.creates
    /\ \E frame \in Frames :
          relay' = [relay EXCEPT !.pc = "admit", !.frame = frame]
    /\ UNCHANGED <<lifecycle, tasks, gate, http, created, history, turns>>

BinaryFromClient ==
    /\ Steps("select") /\ ~relay.disabled
    /\ Disable("select")
    /\ UNCHANGED <<lifecycle, tasks, gate, http, created>>

\* Either side closes or fails.
Closes ==
    /\ Steps("select")
    /\ relay' = [relay EXCEPT !.pc = "closing"]
    /\ UNCHANGED <<lifecycle, tasks, gate, http, created, history, turns>>

Acquire(pc, next) ==
    /\ Steps(pc) /\ Cardinality(gate) < Permits
    /\ gate' = gate \cup {Socket}
    /\ relay' = [relay EXCEPT !.pc = next]
    /\ UNCHANGED <<lifecycle, tasks, http, created, history, turns>>
AdmitFrame == Acquire("admit", "judge")

\* A create while another is under way cannot be told from it.
Overlapping == relay.awaiting

Ambiguous ==
    /\ Steps("judge")
    /\ \/ relay.frame.type = "text" /\ ~relay.disabled
       \/ relay.frame.type = "create" /\ Overlapping
    /\ Disable("admitted")
    /\ UNCHANGED <<lifecycle, tasks, gate, http, created>>

Uncaptured ==
    /\ Steps("judge") /\ relay.disabled
    /\ relay.frame.type = "create" => ~Overlapping
    /\ relay' = [relay EXCEPT !.pc = "admitted"]
    /\ UNCHANGED <<lifecycle, tasks, gate, http, created, history, turns>>

\* normalize_request: the input of the previous request, the items of its
\* response, and the new input, if the response named is the last one (mutant:
\* if there was a request).
AnyChain(previous) == history.request # <<>>
Chained(previous) == history.id = previous
Broken == relay.frame.previous # Unknown /\ ~Chained(relay.frame.previous)
Normalized ==
    IF relay.frame.previous = Unknown THEN <<Number>>
    ELSE history.request \o history.items \o <<Number>>

\* A new request starts a history.
Restarted(input) == [request |-> input, id |-> Unknown, items |-> <<>>]

Judge ==
    /\ Steps("judge") /\ relay.frame.type = "create" /\ ~Overlapping /\ ~relay.disabled
    /\ IF Broken
       THEN /\ relay' = [relay EXCEPT !.pc = "admitted", !.disabled = TRUE]
            /\ history' = Forgotten
       ELSE /\ relay' = [relay EXCEPT !.awaiting = TRUE,
                            !.pc = IF relay.frame.warmup THEN "admitted" ELSE "prepare"]
            /\ history' = Restarted(Normalized)
    /\ UNCHANGED <<lifecycle, tasks, gate, http, created, turns>>

PrepareTurn ==
    /\ Steps("prepare")
    /\ \/ /\ turns' = Append(turns, [of |-> Number, input |-> history.request, text |-> <<>>,
                                     state |-> "open", complete |-> FALSE])
          /\ relay' = [relay EXCEPT !.pc = "admitted", !.active = Len(turns) + 1]
       \/ /\ relay' = [relay EXCEPT !.pc = "admitted"] /\ UNCHANGED turns
    /\ UNCHANGED <<lifecycle, tasks, gate, http, created, history>>

ReturnPermit ==
    /\ Steps("admitted")
    /\ gate' = gate \ {Socket} /\ relay' = [relay EXCEPT !.pc = "forward"]
    /\ UNCHANGED <<lifecycle, tasks, http, created, history, turns>>

ToUpstream ==
    /\ Steps("forward")
    /\ \/ /\ relay.frame.type = "create"
          /\ created' = Append(created, [input |-> WholeInput(relay.frame), items |-> <<>>,
                                         warmup |-> relay.frame.warmup, events |-> <<>>, state |-> "running"])
          /\ relay' = [relay EXCEPT !.pc = "select", !.frame = NoFrame]
       \/ /\ relay.frame.type = "text"
          /\ relay' = [relay EXCEPT !.pc = "select", !.frame = NoFrame] /\ UNCHANGED created
       \/ relay' = [relay EXCEPT !.pc = "closing"] /\ UNCHANGED created
    /\ UNCHANGED <<lifecycle, tasks, gate, http, history, turns>>

-----------------------------------------------------------------------------
(* From the origin: the item of a response that runs, its completion, with *)
(* its output if no item was sent, or its failure.                         *)

\* A warmup has no output.
OfOrigin(n) ==
    LET output == IF created[n].warmup THEN <<>> ELSE <<<<n, "output">>>> IN
    {[type |-> "failed", of |-> n],
     [type |-> "completed", of |-> n, output |-> IF created[n].items = <<>> THEN output ELSE created[n].items]}
        \cup IF created[n].warmup \/ created[n].items # <<>> THEN {}
             ELSE {[type |-> "item", of |-> n, item |-> <<n, "item">>]}

FromUpstream ==
    /\ Steps("select")
    /\ \E n \in DOMAIN created : \E event \in OfOrigin(n) :
          /\ created[n].state = "running"
          /\ created' = [created EXCEPT ![n].events = Append(@, event),
                            ![n].state = IF event.type = "item" THEN @ ELSE event.type,
                            ![n].items = CASE event.type = "item" -> Append(@, event.item)
                                           [] event.type = "completed" -> event.output
                                           [] OTHER -> @]
          /\ relay' = [relay EXCEPT !.pc = "receive", !.frame = event]
    /\ UNCHANGED <<lifecycle, tasks, gate, http, history, turns>>

AdmitEvent == Acquire("receive", "observe")

\* observe_response, while a response is awaited; a completed one ends the wait.
Observe ==
    LET event == relay.frame
        observed == ~relay.disabled /\ relay.awaiting
    IN /\ Steps("observe")
       /\ gate' = gate \ {Socket}
       /\ turns' = IF observed /\ relay.active # 0
                   THEN [turns EXCEPT ![relay.active].text = Append(@, event)] ELSE turns
       /\ history' =
             CASE observed /\ event.type = "item" -> [history EXCEPT !.items = Append(@, event.item)]
               [] observed /\ event.type = "completed" ->
                     [history EXCEPT !.id = event.of, !.items = IF @ = <<>> THEN event.output ELSE @]
               [] OTHER -> history
       /\ relay' = [relay EXCEPT !.pc = IF observed /\ event.type = "completed"
                                        THEN "terminal" ELSE "deliver"]
       /\ UNCHANGED <<lifecycle, tasks, http, created>>

\* The turn ends with the event delivered, or not.
ToClient ==
    /\ Steps("terminal") \/ Steps("deliver")
    /\ \E forwarded \in BOOLEAN :
          LET pc == IF forwarded THEN "select" ELSE "closing" IN
          IF relay.pc = "terminal"
          THEN /\ relay' = [relay EXCEPT !.pc = pc, !.frame = NoFrame, !.awaiting = FALSE, !.active = 0]
               /\ turns' = FinishTurn(forwarded)
          ELSE relay' = [relay EXCEPT !.pc = pc, !.frame = NoFrame] /\ UNCHANGED turns
    /\ UNCHANGED <<lifecycle, tasks, gate, http, created, history>>

-----------------------------------------------------------------------------
Close ==
    /\ Steps("closing")
    /\ turns' = FinishTurn(FALSE)
    /\ relay' = [relay EXCEPT !.pc = "ended", !.active = 0]
    /\ UNCHANGED <<lifecycle, tasks, gate, http, created, history>>

RelayEnds ==
    /\ Steps("ended")
    /\ tasks' = tasks \ {Socket}
    /\ UNCHANGED <<lifecycle, gate, http, socket>>

RelayAborted ==
    /\ cancelled /\ Socket \in tasks
    /\ tasks' = tasks \ {Socket} /\ gate' = gate \ {Socket}
    /\ relay' = [relay EXCEPT !.pc = "ended", !.active = 0]
    /\ turns' = [k \in DOMAIN turns |->
                    [turns[k] EXCEPT !.state = IF @ = "open" THEN "left" ELSE @]]
    /\ UNCHANGED <<lifecycle, http, created, history>>

RelayWorks ==
    \/ AdmitFrame \/ Ambiguous \/ Uncaptured \/ Judge \/ PrepareTurn \/ ReturnPermit
    \/ AdmitEvent \/ Observe \/ Close \/ RelayEnds
    \/ \E k \in DOMAIN turns : TurnCommitted(k)
RelayOutside == Upgrade \/ FromClient \/ BinaryFromClient \/ Closes \/ ToUpstream \/ FromUpstream \/ ToClient

Http(r) == (Handle(r) \/ Tee(r) \/ Client(r) \/ Origin(r)) /\ UNCHANGED socket
Lifecycle == (Shutdown \/ Drain \/ Exit) /\ UNCHANGED socket

\* The process is gone with its last listener.
Next ==
    /\ server # "exited"
    /\ Lifecycle \/ RelayWorks \/ RelayAborted \/ RelayOutside \/ \E r \in Requests : Http(r)

Spec == Init /\ [][Next]_vars

\* Threads and timers run, and the permits of a semaphore go round; neither clients
\* nor the origin need to do anything.
Fairness ==
    /\ WF_vars(server # "exited" /\ Drain /\ UNCHANGED socket)
    /\ WF_vars(server # "exited" /\ RelayWorks) /\ WF_vars(server # "exited" /\ RelayAborted)
    /\ \A r \in Requests :
          /\ SF_vars(server # "exited" /\ Admit(r) /\ UNCHANGED socket)
          /\ WF_vars(server # "exited" /\ (Prepared(r) \/ PrepareFails(r) \/ Tee(r)) /\ UNCHANGED socket)

FairSpec == Spec /\ Fairness

-----------------------------------------------------------------------------
States == {"none", "open", "committing", "done", "left"}

TypeOK ==
    /\ server \in {"serving", "draining", "settling", "aborting", "released", "exited"}
    /\ expired \in BOOLEAN /\ cancelled \in BOOLEAN
    /\ tasks \subseteq Requests \cup {Socket}
    /\ gate \subseteq Requests \cup {Socket} /\ Cardinality(gate) <= Permits
    /\ \A r \in gate \cap Requests : at[r] \in {"sent", "preparing"}
    /\ \A r \in Requests :
          /\ at[r] \in {"new", "idle", "gate", "sent", "preparing", "passing", "teed", "over", "closed"}
          /\ seen[r] + Len(channel[r]) <= tee[r].got + 1 /\ tee[r].got <= Chunks
          /\ upstream[r] \in {"open", "ended", "torn"}
          /\ turn[r].state \in States /\ turn[r].text \in 0..Chunks
    /\ relay.active \in 0..Len(turns)
    /\ \A k \in DOMAIN turns : turns[k].state \in States
    /\ \A n \in DOMAIN created : created[n].state \in {"running", "completed", "failed"}

\* A response is captured as complete only if the origin ended it well with its
\* terminal event, and a client that stayed has or will have all of it.
CompleteIsWhole ==
    \A r \in Requests : turn[r].complete =>
        /\ upstream[r] = "ended" /\ turn[r].text = Chunks
        /\ Gone(r) \/ seen[r] + Len(channel[r]) = Chunks

\* Who has seen the end of a captured response finds its turn in the vault, or
\* left to recovery, unless the drain was cut short.
EndFollowsCommit ==
    \A r \in Requests : (at[r] = "over" /\ ~cancelled) => turn[r].state \notin Kept

\* Of what a released listener served, only the requests of tunnels go on;
\* no response of another request is still captured.
ReleasedIsQuiet ==
    server \in {"released", "exited"} =>
        /\ tasks \subseteq Tunnelled
        /\ \A r \in Accepted : Gone(r) \/ at[r] = "new"

\* The request that is captured is the one the origin answers, however its
\* history was given: named, after a warmup, after a failure or from nothing.
RelayedTurnIsWhole ==
    \A k \in DOMAIN turns :
        turns[k].of \in DOMAIN created => turns[k].input = created[turns[k].of].input

\* A turn holds the events of its own response from the first on, and all of
\* them if it is complete; no response is captured twice.
AnswerIsItsOwn ==
    \A k \in DOMAIN turns :
        LET own == IF turns[k].of \in DOMAIN created THEN created[turns[k].of].events ELSE <<>>
        IN /\ IsPrefix(turns[k].text, own)
           /\ turns[k].complete => turns[k].text = own
           /\ \A j \in 1..(k - 1) : turns[j].of < turns[k].of

\* A request that waits for DOM_GATE is admitted, unless all permits are held
\* by requests that the origin does not answer.
Starved == \A r \in gate : r \in Requests /\ at[r] = "sent"
RequestsAreAdmitted ==
    \A r \in Requests :
        at[r] = "gate" ~> at[r] # "gate" \/ (gate # {} /\ Starved) \/ server = "exited"

\* A turn of a request is not open for ever, whatever the origin does; only a
\* client that keeps its connection and reads nothing can hold it.
TurnsEnd ==
    \A r \in Requests :
        turn[r].state = "open" ~>
            turn[r].state \notin Kept \/ Len(channel[r]) = Buffer \/ server = "exited"

\* A listener that is told to drain is released, whatever clients and origin do.
DrainEnds == server = "draining" ~> server \in {"released", "exited"}

\* What is captured is what was asked and answered, over HTTP and the WebSocket.
TurnsInv == TypeOK /\ CompleteIsWhole /\ RelayedTurnIsWhole /\ AnswerIsItsOwn

\* No request is kept at the gate, and no turn of one is kept open.
RequestsGoOn == RequestsAreAdmitted /\ TurnsEnd
==============================================================================
