------------------------------- MODULE MCProxy -------------------------------
(* An instance of Proxy, Relay and Handover for TLC.                         *)
EXTENDS Handover

CONSTANTS a, b

AB == {a, b}
OnlyB == {b}

\* Two requests, one of which is tunnelled, and the drain; each of them with a
\* successor; a request and the WebSocket that compete for a permit; the WebSocket
\* and the drain; and a chain of three messages.
MCScenes ==
    {[clients |-> {a, b}, creates |-> 0, drains |-> TRUE, copies |-> FALSE],
     [clients |-> {a}, creates |-> 0, drains |-> TRUE, copies |-> TRUE],
     [clients |-> {b}, creates |-> 0, drains |-> TRUE, copies |-> TRUE],
     [clients |-> {a, Socket}, creates |-> 1, drains |-> FALSE, copies |-> FALSE],
     [clients |-> {Socket}, creates |-> 1, drains |-> TRUE, copies |-> FALSE],
     [clients |-> {Socket}, creates |-> 3, drains |-> FALSE, copies |-> FALSE]}
==============================================================================
