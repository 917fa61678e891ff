------------------------------- MODULE DoorMutex -------------------------------
(***************************************************************************)
(* What a door's lock promises (ts/vaultr-door/index.ts door, finally      *)
(* lease?.release()): one run at a time between acquireLock and release,   *)
(* and the door is not closed for ever by a run that died.                 *)
(***************************************************************************)
CONSTANT Runs

VARIABLE inside

Init == inside = {}

Enter(r) == inside = {} /\ inside' = {r}
Leave(r) == r \in inside /\ inside' = inside \ {r}

Next == \E r \in Runs : Enter(r) \/ Leave(r)

Spec == Init /\ [][Next]_inside
=============================================================================
