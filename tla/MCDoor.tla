-------------------------------- MODULE MCDoor --------------------------------
(* Bounds for model checking Door: three paths, one of which the door does   *)
(* not want, and the three ways in which others may write.                   *)
EXTENDS Door

ThreePaths == 1..3
Third == {3}
AnyManners == {{}, {"quiet"}, {"quiet", "patient"}}
=============================================================================
