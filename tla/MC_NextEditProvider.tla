------------------------ MODULE MC_NextEditProvider -------------------------
(* Speculative requests multiply the states: in the instance of three      *)
(* calls they are made in the default configuration, and in the one of two *)
(* calls in the two in which stale requests are joined.                    *)
EXTENDS NextEditProvider

AllConfigs == {"sync", "async", "eager"}

MayShowAsync == [m \in AllConfigs |-> IF m = "async" THEN {1} ELSE {}]

MayShowFirst == [m \in AllConfigs |-> IF m = "sync" THEN {} ELSE {1}]
=============================================================================
