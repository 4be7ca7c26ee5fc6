------------------------ MODULE MC_ClaudeCodeSession ------------------------
(* Requests are interchangeable: nothing orders them but the steps.        *)
EXTENDS ClaudeCodeSessionProps, TLC

Symmetry == Permutations(Req)

\* The environments of the runs.
Restarts == {"settings", "tools", "idle"}
NoRestart == AllEvents \ Restarts
=============================================================================
