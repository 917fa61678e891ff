------------------------------- MODULE MCCapture -------------------------------
(* Instances of CaptureJournal for TLC. *)
EXTENDS CaptureProperties

CONSTANTS s1, s2

One   == {s1}
None  == {}
Two   == {s1, s2}
Second == {s2}
==============================================================================
