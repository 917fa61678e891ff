------------------------------ MODULE MCDoorLock ------------------------------
(* An instance of DoorLock for TLC; its runs and process ids are model       *)
(* values of the configuration.                                              *)
EXTENDS DoorLock
=============================================================================
