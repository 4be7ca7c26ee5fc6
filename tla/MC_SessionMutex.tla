-------------------------- MODULE MC_SessionMutex ---------------------------
(* Calls of acquire are interchangeable. TLC may use this only in runs       *)
(* without liveness properties.                                            *)
EXTENDS SessionMutex, TLC

Symmetry == Permutations(Call)
=============================================================================
