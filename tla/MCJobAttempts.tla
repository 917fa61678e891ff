---------------------------- MODULE MCJobAttempts ----------------------------
(* Bounds for model checking JobAttempts.                                  *)
EXTENDS JobAttempts

Script == [action |-> "script", idempotent |-> FALSE]
TwoJobs == {Script, [action |-> "compression", idempotent |-> TRUE]}
EveryCaller == {"scheduled", "operator"}
AnyFault == {"early", "late", "torn"}
=============================================================================
