----------------------------- MODULE MCAgentRuns -----------------------------
(* Bounds for model checking AgentRuns.                                    *)
EXTENDS AgentRuns

TwoRunners == {1, 2}
Late == [preset |-> FALSE, path |-> FALSE, cleanup |-> "always", orphans |-> FALSE]
Minted == [preset |-> TRUE, path |-> FALSE, cleanup |-> "success", orphans |-> TRUE]
Pathed == [preset |-> FALSE, path |-> TRUE, cleanup |-> "never", orphans |-> FALSE]
ThreeSettings == {Late, Minted, Pathed}
=============================================================================
