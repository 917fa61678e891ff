----------------------------- MODULE MCLearning ------------------------------
(* Bounds for model checking Learning: a session that is resumed and one    *)
(* that is not, and two runs of a learner's script that overlap.            *)
EXTENDS Learning

TwoSessions == {1, 2}
TwoClaimers == {1, 2}
ResumedAndNot == [s \in TwoSessions |-> IF s = 1 THEN 2 ELSE 1]
=============================================================================
