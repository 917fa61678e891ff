------------------------------ MODULE Handover ------------------------------
(***************************************************************************)
(* One daemon follows another (crates/plant/src/main.rs run_daemon): the   *)
(* incumbent of Proxy and Relay drains and lets go of its listeners while  *)
(* copies of plant are started, try for both ports, and recover the vault  *)
(* once they have them.                                                    *)
(*                                                                         *)
(* Each turn is of a session of its own.  A copy knows only what is in the *)
(* vault: captures that the incumbent still has are open turns to it.      *)
(***************************************************************************)
EXTENDS Relay

Ports == <<"claude", "codex">>      \* adapters(); Proxy is the second
AllPorts == {"claude", "codex"}

ASSUME HandoverAssumption ==
    \A s \in Scenes : s.copies \in BOOLEAN /\ (s.copies => Socket \notin s.clients)

VARIABLES
    held,       \* ports of the listeners that the incumbent has
    sibling,    \* its other listener: "up" or "joined"
    copy,       \* the latest copy: [pc, bound, asked, todo]
    closed      \* turns that a copy's recovery ended without an answer

succession == <<held, sibling, copy, closed>>
all == <<vars, succession>>

\* Where no copy is started, the other listener and the ports do not matter.
HandoverInit ==
    /\ Init
    /\ held = IF scene.copies THEN AllPorts ELSE {}
    /\ sibling = IF scene.copies THEN "up" ELSE "joined"
    /\ copy = [pc |-> "down", bound |-> 0, asked |-> 0, todo |-> {}]
    /\ closed = {}

-----------------------------------------------------------------------------
(* The incumbent.                                                          *)

SiblingJoins ==
    /\ server # "serving" /\ sibling = "up"
    /\ sibling' = "joined"
    /\ UNCHANGED <<vars, held, copy, closed>>

\* The leases are dropped, one by one, once both supervisors joined.
LetGo(p) ==
    /\ server = "released" /\ sibling = "joined" /\ p \in held
    /\ held' = held \ {p}
    /\ UNCHANGED <<vars, sibling, copy, closed>>

\* Everything that was begun goes on until the process exits.
Incumbent == Next /\ (server' = "exited" => held = {}) /\ UNCHANGED succession

-----------------------------------------------------------------------------
(* The copies.                                                             *)

\* launchd keeps one alive; an operator may start one.
Launch ==
    /\ scene.copies /\ copy.pc = "down"
    /\ copy' = [copy EXCEPT !.pc = "bind", !.bound = 0, !.asked = 0]
    /\ UNCHANGED <<vars, held, sibling, closed>>

\* bind_all: a port in use gives up those that were bound.
Bind ==
    /\ copy.pc = "bind"
    /\ LET p == Ports[copy.bound + 1] IN
       IF p \in held THEN copy' = [copy EXCEPT !.pc = "ask", !.bound = 0]
       ELSE copy' = [copy EXCEPT !.bound = @ + 1,
                          !.pc = IF copy.bound + 1 = Len(Ports) THEN "list" ELSE "bind"]
    /\ UNCHANGED <<vars, held, sibling, closed>>

\* /health of a listener that accepts; a starved one may not answer in time.
Answers(p) == p \in held /\ IF p = "codex" THEN server = "serving" ELSE sibling = "up"

\* complete_incumbent: each adapter is asked.
Ask ==
    /\ copy.pc = "ask"
    /\ \/ /\ Answers(Ports[copy.asked + 1])
          /\ copy' = [copy EXCEPT !.asked = @ + 1,
                           !.pc = IF copy.asked + 1 = Len(Ports) THEN "yielded" ELSE "ask"]
       \/ copy' = [copy EXCEPT !.pc = "down"]
    /\ UNCHANGED <<vars, held, sibling, closed>>

\* KeepAlive starts a copy again, whatever its exit status was.
Respawn ==
    /\ copy.pc = "yielded" /\ copy' = [copy EXCEPT !.pc = "down"]
    /\ UNCHANGED <<vars, held, sibling, closed>>

\* A commit that found its turn closed left a stage that no recovery accepts.
Stray == {r \in closed : turn[r].state = "done"}

\* Recovery, with both ports: the turns without an answer, and then one by one.
List ==
    /\ copy.pc = "list"
    /\ IF Stray # {} THEN copy' = [copy EXCEPT !.pc = "down"]
       ELSE copy' = [copy EXCEPT !.pc = "recover",
                !.todo = {r \in Requests \ closed : turn[r].state \in Kept \cup {"left"}}]
    /\ UNCHANGED <<vars, held, sibling, closed>>

Recover(r) ==
    /\ copy.pc = "recover" /\ r \in copy.todo
    /\ copy' = [copy EXCEPT !.todo = @ \ {r}]
    /\ closed' = IF turn[r].state = "done" THEN closed ELSE closed \cup {r}
    /\ UNCHANGED <<vars, held, sibling>>

Serve ==
    /\ copy.pc = "recover" /\ copy.todo = {}
    /\ copy' = [copy EXCEPT !.pc = "serve"]
    /\ UNCHANGED <<vars, held, sibling, closed>>

Succeed == Launch \/ Bind \/ Ask \/ Respawn \/ List \/ Serve \/ \E r \in Requests : Recover(r)

HandoverNext == Incumbent \/ SiblingJoins \/ (\E p \in AllPorts : LetGo(p)) \/ Succeed

HandoverSpec == HandoverInit /\ [][HandoverNext]_all

GiveWay ==
    \/ SiblingJoins \/ \E p \in AllPorts : LetGo(p)
    \/ Exit /\ held = {} /\ UNCHANGED <<socket, succession>>

\* Copies are started again and again, and an exit goes on.
HandoverFairSpec ==
    /\ HandoverSpec /\ Fairness
    /\ WF_all(GiveWay) /\ WF_all(Succeed)

-----------------------------------------------------------------------------
\* A copy touches the vault only when the incumbent has given up both listeners
\* and every capture it can wait for.
RecoveryIsAlone ==
    copy.pc \in {"list", "recover", "serve"} =>
        /\ held = {} /\ sibling = "joined"
        /\ server \in {"released", "exited"} /\ tasks \subseteq Tunnelled

\* A turn that recovery ended is committed late only if the drain was cut short,
\* or for a tunnel.
LateCommitsAreCutShort == cancelled \/ Stray \subseteq Tunnelled

\* A copy leaves with success only while one incumbent serves both harnesses,
\* though it asks one after the other.
YieldsToOwner ==
    [][copy.pc = "ask" /\ copy'.pc = "yielded" =>
          held = AllPorts /\ server = "serving" /\ sibling = "up"]_all

\* What an incumbent leaves to its successor.
HandoverIsClean == [](ReleasedIsQuiet /\ RecoveryIsAlone /\ LateCommitsAreCutShort) /\ YieldsToOwner

\* After a drain another daemon serves, unless a late commit spoiled the vault.
SuccessorServes == server = "draining" /\ scene.copies ~> copy.pc = "serve" \/ Stray # {}

\* The listener is released, and taken over.
ServiceResumes == DrainEnds /\ SuccessorServes
=============================================================================
