----------------------- MODULE MC_ClaudeAgentManager ------------------------
(* Calls are interchangeable, and so are session ids. TLC may use this only *)
(* in runs without liveness properties.                                    *)
EXTENDS ClaudeAgentManager, TLC

Symmetry == Permutations(Req) \cup Permutations(Id)
=============================================================================
