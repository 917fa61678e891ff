------------------------------- MODULE MCBroker -------------------------------
(* An instance of Broker for TLC: a machine known by its address puts one   *)
(* version of a seal and lists or puts, a pod puts another; another pod was *)
(* there before.                                                            *)
EXTENDS Broker, TLC

CONSTANTS r1, r2, r3, pod, gone, mac, seal

ThreeRequests == {r1, r2, r3}
Makes == (r1 :> mac) @@ (r2 :> pod) @@ (r3 :> mac)
TwoSizes == <<1, 2>>

Put(v) == [kind |-> "put", key |-> seal, version |-> v]
List == [kind |-> "list", key |-> seal, version |-> 0]
Read == [kind |-> "read", key |-> seal, version |-> 0]

\* Who calls matters, over time, or what is asked.
Naming == [asks |-> (r1 :> {Read}) @@ (r2 :> {Read}) @@ (r3 :> {Read}),
           known |-> {gone}, has |-> 0, ticks |-> 2, stops |-> 0]
Sealed == [asks |-> (r1 :> {Put(1), List}) @@ (r2 :> {Put(2), List}) @@ (r3 :> {Put(1), List}),
           known |-> {mac, pod}, has |-> 1, ticks |-> 0, stops |-> 1]
TwoScenes == {Naming, Sealed}
==============================================================================
