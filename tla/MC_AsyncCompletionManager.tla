---------------------- MODULE MC_AsyncCompletionManager ---------------------
(* A text and what it becomes when an "a" is typed, which the other text   *)
(* does not continue; a completion that goes on with both, and a blank one *)
(* that nobody is given.                                                   *)
EXTENDS AsyncCompletionManager

SomePrompts == {[prefix |-> <<>>, suffix |-> 0], [prefix |-> <<"a">>, suffix |-> 0]}

SomeCompletions == {<<"a", "a">>, <<" ">>}

Characters == {"a", " "}

Blanks == {" "}
=============================================================================
