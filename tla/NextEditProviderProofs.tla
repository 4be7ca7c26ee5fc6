----------------------- MODULE NextEditProviderProofs -----------------------
(***************************************************************************)
(* Theorems about NextEditProvider, for every number of calls, documents   *)
(* and texts, in every configuration.                                      *)
(***************************************************************************)
EXTENDS NextEditProvider, TLAPS

-----------------------------------------------------------------------------
(* The inductive invariant.                                                *)

Guess(c) == <<c, "speculative">>

UnderWay(c) == pc[c] \in {"own", "join", "rebase"}

\* Which kind of request each field holds.
Kinds ==
    /\ pending # None => IsFetch(pending)
    /\ speculative # None => ~IsFetch(speculative)
    /\ \A c \in Call : backup[c] # None => backup[c] = Own(c)

\* What a call remembers, by where it is.
CallsOK ==
    \A c \in Call :
        /\ UnderWay(c) => waits[c] # None /\ at[c] # None
        /\ ~UnderWay(c) => waits[c] = None
        /\ pc[c] = "own" => waits[c] = Own(c)
        /\ backup[c] # None => pc[c] = "rebase"
        /\ life[c] # "none" => pc[c] = "done"
        /\ life[c] = "suggested" => at[c] # None

\* A request is made once: not before its call gets to it.
Fresh ==
    \A c \in Call :
        /\ pc[c] = "idle" \/ (pc[c] = "rebase" /\ backup[c] = None) => stage[Own(c)] = "none"
        /\ life[c] \in {"none", "suggested"} => stage[Guess(c)] = "none"

\* Every request some field holds was made.
Made ==
    /\ \A r \in Request : stage[r] # "none" => base[r] # None
    /\ pending # None => stage[pending] # "none"
    /\ speculative # None => stage[speculative] # "none"
    /\ \A c \in Call : waits[c] # None => stage[waits[c]] # "none"
    /\ \A c \in Call : backup[c] # None => stage[backup[c]] # "none"

\* Nobody waits for a request that is still offered to the next call.
SpeculativeFree == speculative # None => \A c \in Call : waits[c] # speculative

\* A live call counts as a dependant of what it waits for, and of its backup.
Hooked ==
    /\ \A c \in Call, r \in Request : Needs(c, r) => hook[r][c] = "live"
    /\ \A c \in Call :
         backup[c] # None /\ c \notin token /\ Running(backup[c]) => hook[backup[c]][c] = "live"

\* A call that will not rebase waits for a request for the text it was made
\* with, unless the request was made after a failed rebase.
Fitting ==
    \A c \in Call :
        /\ backup[c] # None => base[backup[c]] = at[c]
        /\ pc[c] \in {"own", "join"} /\ ComputedFor(waits[c]) = base[waits[c]] =>
             base[waits[c]][2] = at[c][2]

Inv ==
    /\ TypeOK /\ Kinds /\ CallsOK /\ Fresh /\ Made /\ SpeculativeFree /\ Hooked /\ Fitting
    /\ NobodyIsForgotten

LEMMA RequestFacts ==
    /\ None \notin Request
    /\ \A c \in Call : Own(c) \in Request /\ IsFetch(Own(c)) /\ OwnerOf(Own(c)) = c
    /\ \A c \in Call : Guess(c) \in Request /\ ~IsFetch(Guess(c)) /\ OwnerOf(Guess(c)) = c
    /\ \A r \in Request : OwnerOf(r) \in Call
    /\ \A r \in Request : r = IF IsFetch(r) THEN Own(OwnerOf(r)) ELSE Guess(OwnerOf(r))
BY NoneAssumption DEF Request, Own, Guess, IsFetch, OwnerOf

LEMMA PlaceFacts ==
    /\ None \notin Place
    /\ \A p \in Place : p[1] \in Document /\ p[2] \in Text /\ p = <<p[1], p[2]>>
    /\ \A d \in Document, v \in Text : <<d, v>> \in Place /\ <<d, v>>[1] = d /\ <<d, v>>[2] = v
BY NoneAssumption DEF Place

LEMMA HereFacts ==
    ASSUME TypeOK, NEW d \in Document
    PROVE  Here(d) \in Place /\ Here(d)[1] = d /\ Here(d)[2] = text[d]
BY PlaceFacts DEF TypeOK, Here

LEMMA InitInv == Init => Inv
<1> SUFFICES ASSUME Init PROVE Inv
  OBVIOUS
<1>1. TypeOK
  BY BoundAssumption DEF Init, TypeOK, Text
<1>2. Kinds /\ CallsOK /\ Fresh
  BY RequestFacts DEF Init, Kinds, CallsOK, Fresh, UnderWay
<1>3. Made /\ SpeculativeFree
  BY DEF Init, Made, SpeculativeFree
<1>4. Hooked /\ Fitting
  BY DEF Init, Hooked, Needs, Running, Fitting
<1>5. NobodyIsForgotten
  BY DEF Init, NobodyIsForgotten, Running
<1> QED BY <1>1, <1>2, <1>3, <1>4, <1>5 DEF Inv

-----------------------------------------------------------------------------
(* Hookups.                                                                *)

LEMMA CancelTokenKeeps ==
    ASSUME Inv, NEW c \in Call, CancelToken(c)
    PROVE  Inv'
<1>1. TypeOK'
  <2>1. hook' \in [Request -> [Call -> {"none", "live", "removed", "timer"}]]
    BY DEF Inv, TypeOK, CancelToken
  <2>2. cancelled' \in SUBSET Request /\ token' \in SUBSET Call
    BY DEF Inv, TypeOK, CancelToken, Deserted
  <2> QED BY <2>1, <2>2 DEF Inv, TypeOK, CancelToken
<1>2. Kinds' /\ CallsOK' /\ Fresh'
  BY DEF Inv, CancelToken, Kinds, CallsOK, Fresh, UnderWay
<1>3. Made' /\ SpeculativeFree'
  BY DEF Inv, CancelToken, Made, SpeculativeFree
<1>4. Hooked'
  BY DEF Inv, TypeOK, CallsOK, CancelToken, Hooked, Needs, Running, Settled
<1>5. Fitting'
  BY DEF Inv, CancelToken, Fitting, ComputedFor
<1>6. NobodyIsForgotten'
  BY DEF Inv, TypeOK, CancelToken, NobodyIsForgotten, Running, Settled, Deserted, Dependants
<1> QED BY <1>1, <1>2, <1>3, <1>4, <1>5, <1>6 DEF Inv

LEMMA TimerKeeps ==
    ASSUME Inv, NEW r \in Request, NEW c \in Call, TimerFires(r, c)
    PROVE  Inv'
<1> USE DEF callVars
<1>1. TypeOK'
  BY DEF Inv, TypeOK, TimerFires
<1>2. Kinds' /\ CallsOK' /\ Fresh'
  BY DEF Inv, TimerFires, Kinds, CallsOK, Fresh, UnderWay
<1>3. Made' /\ SpeculativeFree'
  BY DEF Inv, TimerFires, Made, SpeculativeFree
<1>4. Hooked'
  BY DEF Inv, TypeOK, TimerFires, Hooked, Needs, Running, Settled
<1>5. Fitting'
  BY DEF Inv, TimerFires, Fitting, ComputedFor
<1>6. NobodyIsForgotten'
  BY DEF Inv, TypeOK, TimerFires, NobodyIsForgotten, Running, Settled, Dependants
<1> QED BY <1>1, <1>2, <1>3, <1>4, <1>5, <1>6 DEF Inv

-----------------------------------------------------------------------------
(* Streams.                                                                *)

LEMMA FetchIssuedKeeps ==
    ASSUME Inv, NEW r \in Request, FetchIssued(r)
    PROVE  Inv'
<1> USE DEF callVars, requestVars
<1>1. TypeOK'
  BY DEF Inv, TypeOK, FetchIssued
<1>2. Kinds' /\ CallsOK' /\ Fresh'
  BY RequestFacts DEF Inv, TypeOK, FetchIssued, Kinds, CallsOK, Fresh, UnderWay
<1>3. Made' /\ SpeculativeFree'
  BY DEF Inv, TypeOK, FetchIssued, Made, SpeculativeFree
<1>4. Hooked'
  BY DEF Inv, TypeOK, FetchIssued, Hooked, Needs, Running, Settled
<1>5. Fitting'
  BY DEF Inv, FetchIssued, Fitting, ComputedFor
<1>6. NobodyIsForgotten'
  BY DEF Inv, TypeOK, FetchIssued, NobodyIsForgotten, Running, Settled
<1> QED BY <1>1, <1>2, <1>3, <1>4, <1>5, <1>6 DEF Inv

LEMMA FirstEditKeeps ==
    ASSUME Inv, NEW r \in Request, FirstEdit(r)
    PROVE  Inv'
<1> USE DEF callVars, PromiseResolves
<1>1. TypeOK'
  BY DEF Inv, TypeOK, FirstEdit
<1>2. Kinds' /\ CallsOK' /\ Fresh'
  BY DEF Inv, FirstEdit, Kinds, CallsOK, Fresh, UnderWay
<1>3. Made' /\ SpeculativeFree'
  BY DEF Inv, FirstEdit, Made, SpeculativeFree
<1>4. Hooked'
  BY DEF Inv, TypeOK, FirstEdit, Hooked, Needs, Running, Settled
<1>5. Fitting'
  BY DEF Inv, FirstEdit, Fitting, ComputedFor
<1>6. NobodyIsForgotten'
  BY DEF Inv, TypeOK, FirstEdit, NobodyIsForgotten, Running, Settled
<1> QED BY <1>1, <1>2, <1>3, <1>4, <1>5, <1>6 DEF Inv

LEMMA StreamEndsKeeps ==
    ASSUME Inv, NEW r \in Request, StreamEnds(r)
    PROVE  Inv'
<1> USE DEF callVars, PromiseResolves
<1>1. TypeOK'
  <2>1. hook' \in [Request -> [Call -> {"none", "live", "removed", "timer"}]]
    <3>1. OwnerOf(r) \in Call
      BY RequestFacts
    <3>2. hook' = hook \/ hook' = [hook EXCEPT ![r][OwnerOf(r)] = "none"]
      BY DEF StreamEnds, Left
    <3>3. hook \in [Request -> [Call -> {"none", "live", "removed", "timer"}]]
      BY DEF Inv, TypeOK
    <3> QED BY <3>1, <3>2, <3>3
  <2>2. first' \in [Request -> {"unset", "edit", "none"}]
    BY DEF Inv, TypeOK, StreamEnds
  <2> QED BY <2>1, <2>2 DEF Inv, TypeOK, StreamEnds
<1>2. Kinds' /\ CallsOK' /\ Fresh'
  BY RequestFacts DEF Inv, TypeOK, StreamEnds, Kinds, CallsOK, Fresh, UnderWay, Running
<1>3. Made' /\ SpeculativeFree'
  BY DEF Inv, TypeOK, StreamEnds, Made, SpeculativeFree, Running
<1>4. Hooked'
  BY RequestFacts DEF Inv, TypeOK, StreamEnds, Left, Hooked, Needs, Running, Settled
<1>5. Fitting'
  BY DEF Inv, StreamEnds, Fitting, ComputedFor
<1>6. NobodyIsForgotten'
  BY RequestFacts DEF Inv, TypeOK, StreamEnds, Left, NobodyIsForgotten, Running, Settled
<1> QED BY <1>1, <1>2, <1>3, <1>4, <1>5, <1>6 DEF Inv

LEMMA FirstEditThrowsKeeps ==
    ASSUME Inv, NEW r \in Request, FirstEditThrows(r)
    PROVE  Inv'
<1> USE DEF callVars, requestVars
<1>1. TypeOK'
  BY DEF Inv, TypeOK, FirstEditThrows
<1>2. Kinds' /\ CallsOK' /\ Fresh'
  BY RequestFacts DEF Inv, TypeOK, FirstEditThrows, Kinds, CallsOK, Fresh, UnderWay
<1>3. Made' /\ SpeculativeFree'
  BY DEF Inv, TypeOK, FirstEditThrows, Made, SpeculativeFree
<1>4. Hooked'
  BY DEF Inv, TypeOK, FirstEditThrows, Hooked, Needs, Running, Settled
<1>5. Fitting'
  BY DEF Inv, FirstEditThrows, Fitting, ComputedFor
<1>6. NobodyIsForgotten'
  BY DEF Inv, TypeOK, FirstEditThrows, NobodyIsForgotten, Running, Settled
<1> QED BY <1>1, <1>2, <1>3, <1>4, <1>5, <1>6 DEF Inv

-----------------------------------------------------------------------------
(* Documents and suggestions.                                              *)

LEMMA DocumentKeeps ==
    ASSUME Inv, NEW d \in Document, NEW value \in Text, DocumentChanges(d, value)
    PROVE  Inv'
<1> USE DEF callVars, streamVars
<1>1. TypeOK'
  BY DEF Inv, TypeOK, DocumentChanges
<1>2. Kinds' /\ CallsOK' /\ Fresh'
  BY DEF Inv, DocumentChanges, Kinds, CallsOK, Fresh, UnderWay
<1>3. Made' /\ SpeculativeFree'
  BY DEF Inv, DocumentChanges, Made, SpeculativeFree
<1>4. Hooked'
  BY DEF Inv, DocumentChanges, Hooked, Needs, Running, Settled
<1>5. Fitting'
  BY DEF Inv, DocumentChanges, Fitting, ComputedFor
<1>6. NobodyIsForgotten'
  BY DEF Inv, DocumentChanges, NobodyIsForgotten, Running, Settled
<1> QED BY <1>1, <1>2, <1>3, <1>4, <1>5, <1>6 DEF Inv

LEMMA ShownKeeps ==
    ASSUME Inv, NEW c \in Call, NEW value \in Text, HandleShown(c, value)
    PROVE  Inv'
<1> DEFINE place == <<at[c][1], value>>
<1> DEFINE r == Guess(c)
<1>a. pc[c] = "done" /\ waits[c] = None /\ place \in Place /\ r \in Request
  <2>1. pc[c] = "done" /\ at[c] \in Place
    BY DEF Inv, TypeOK, CallsOK, HandleShown
  <2>2. waits[c] = None
    BY <2>1 DEF Inv, CallsOK, UnderWay
  <2> QED BY <2>1, <2>2, RequestFacts, PlaceFacts
<1>b. stage[r] = "none"
  BY DEF Inv, Fresh, HandleShown
<1>c. /\ life' = [life EXCEPT ![c] = "shown"]
      /\ UNCHANGED <<config, text, pending, abandoned, hook, pc, at, waits, backup, token>>
      /\ lastShown' = c
  BY DEF HandleShown
<1>1. CASE UNCHANGED <<speculative, requestVars, stage>>
  <2> USE <1>1, <1>c DEF requestVars
  <2>1. TypeOK'
    BY DEF Inv, TypeOK
  <2>2. Kinds' /\ CallsOK' /\ Fresh'
    BY <1>a DEF Inv, TypeOK, Kinds, CallsOK, Fresh, UnderWay, HandleShown
  <2>3. Made' /\ SpeculativeFree' /\ Hooked' /\ Fitting' /\ NobodyIsForgotten'
    BY DEF Inv, Made, SpeculativeFree, Hooked, Needs, Running, Settled, Fitting, ComputedFor,
           NobodyIsForgotten
  <2> QED BY <2>1, <2>2, <2>3 DEF Inv
<1>2. ASSUME NEW after \in Text, Create(r, place, after),
             cancelled' = cancelled \cup ({speculative} \ {None}),
             speculative' = r
      PROVE  Inv'
  <2> USE <1>2, <1>c DEF Create
  <2> HIDE DEF place, r
  <2>a. \A s \in Request : s # r => stage'[s] = stage[s] /\ base'[s] = base[s] /\ prompt'[s] = prompt[s]
    BY DEF Inv, TypeOK
  <2>b. stage'[r] = "preparing" /\ base'[r] = place /\ prompt'[r] = after
    BY <1>a DEF Inv, TypeOK
  <2>c. ~IsFetch(r) /\ (\A d \in Call : Own(d) # r) /\ (\A d \in Call : d # c => Guess(d) # r)
    BY RequestFacts DEF r
  <2>d. /\ pending # r
        /\ \A d \in Call : waits[d] # r /\ backup[d] # r
    BY <1>a, <1>b, RequestFacts DEF Inv, Made
  <2>1. TypeOK'
    BY <1>a DEF Inv, TypeOK
  <2>2. Kinds' /\ CallsOK'
    BY <1>a, <2>c DEF Inv, TypeOK, Kinds, CallsOK, UnderWay
  <2>3. Fresh'
    BY <2>a, <2>c, RequestFacts DEF Inv, TypeOK, Fresh, r
  <2>4. Made'
    <3>1. \A s \in Request : stage'[s] # "none" => base'[s] # None
      BY <1>a, <2>a, <2>b, PlaceFacts DEF Inv, Made
    <3>2. \A s \in Request : stage[s] # "none" => stage'[s] # "none"
      BY <2>a, <2>b
    <3> QED BY <1>a, <2>b, <3>1, <3>2 DEF Inv, TypeOK, Made
  <2>5. SpeculativeFree' /\ Fitting'
    BY <2>a, <2>d DEF Inv, TypeOK, CallsOK, UnderWay, SpeculativeFree, Fitting, ComputedFor
  <2>6. Hooked'
    BY <2>a, <2>d DEF Inv, TypeOK, Hooked, Needs, Running, Settled
  <2>7. NobodyIsForgotten'
    <3> SUFFICES ASSUME NEW s \in Request, s # r, Running(s)', ~Settled(s)', s \notin cancelled'
                 PROVE  s = pending \/ \E d \in Call : hook[s][d] \in {"live", "timer"}
      BY DEF NobodyIsForgotten
    <3>1. Running(s) /\ ~Settled(s) /\ s \notin cancelled
      BY <2>a DEF Running, Settled
    <3>2. s # speculative
      BY RequestFacts
    <3> QED BY <3>1, <3>2 DEF Inv, NobodyIsForgotten
  <2> QED BY <2>1, <2>2, <2>3, <2>4, <2>5, <2>6, <2>7 DEF Inv
<1>3. CASE /\ cancelled' = cancelled \cup ({speculative} \ {None})
           /\ speculative' = None
           /\ UNCHANGED <<base, prompt, first, stage>>
  <2> USE <1>3, <1>c
  <2>1. TypeOK'
    BY DEF Inv, TypeOK
  <2>2. Kinds' /\ CallsOK' /\ Fresh'
    BY <1>a DEF Inv, TypeOK, Kinds, CallsOK, Fresh, UnderWay, HandleShown
  <2>3. Made' /\ SpeculativeFree' /\ Hooked' /\ Fitting' /\ NobodyIsForgotten'
    BY DEF Inv, Made, SpeculativeFree, Hooked, Needs, Running, Settled, Fitting, ComputedFor,
           NobodyIsForgotten
  <2> QED BY <2>1, <2>2, <2>3 DEF Inv
<1> QED BY <1>1, <1>2, <1>3 DEF HandleShown, Guess

LEMMA EndOfLifeKeeps ==
    ASSUME Inv, NEW c \in Call, HandleEndOfLife(c)
    PROVE  Inv'
<1> USE DEF streamVars, CancelSpeculative
<1>a. pc[c] = "done"
  BY DEF Inv, CallsOK, HandleEndOfLife
<1>b. \/ UNCHANGED <<speculative, cancelled>>
      \/ speculative' = None /\ cancelled' = cancelled \cup ({speculative} \ {None})
  BY DEF HandleEndOfLife
<1>1. TypeOK'
  BY <1>b DEF Inv, TypeOK, HandleEndOfLife
<1>2. Kinds' /\ CallsOK' /\ Fresh'
  BY <1>a, <1>b DEF Inv, TypeOK, HandleEndOfLife, Kinds, CallsOK, Fresh, UnderWay
<1>3. Made' /\ SpeculativeFree'
  BY <1>b DEF Inv, HandleEndOfLife, Made, SpeculativeFree
<1>4. Hooked'
  BY DEF Inv, HandleEndOfLife, Hooked, Needs, Running, Settled
<1>5. Fitting'
  BY <1>a DEF Inv, TypeOK, CallsOK, HandleEndOfLife, Fitting, ComputedFor
<1>6. NobodyIsForgotten'
  BY <1>b DEF Inv, HandleEndOfLife, NobodyIsForgotten, Running, Settled
<1> QED BY <1>1, <1>2, <1>3, <1>4, <1>5, <1>6 DEF Inv

-----------------------------------------------------------------------------
(* Calls.                                                                  *)

\* A call drops the hookup it had on a request that has settled.
Dropped(hooks, c) == hooks = hook \/ (Settled(waits[c]) /\ hooks = Left(waits[c], c))

LEMMA DroppedFacts ==
    ASSUME Inv, NEW c \in Call, waits[c] # None, NEW hooks, Dropped(hooks, c)
    PROVE  /\ hooks \in [Request -> [Call -> {"none", "live", "removed", "timer"}]]
           /\ \A r \in Request : \A d \in Call :
                hooks[r][d] = hook[r][d] \/ (d = c /\ r = waits[c] /\ Settled(r))
<1>1. CASE hooks = hook
  BY <1>1 DEF Inv, TypeOK
<1>2. CASE Settled(waits[c]) /\ hooks = [hook EXCEPT ![waits[c]][c] = "none"]
  <2>1. waits[c] \in Request
    BY DEF Inv, TypeOK
  <2> QED BY <1>2, <2>1 DEF Inv, TypeOK
<1> QED BY <1>1, <1>2 DEF Dropped, Left

LEMMA ReturnKeeps ==
    ASSUME Inv, NEW c \in Call, NEW suggests \in BOOLEAN, UnderWay(c), Return(c, suggests),
           UNCHANGED <<base, prompt, first, stage>>,
           cancelled \subseteq cancelled', cancelled' \in SUBSET Request,
           abandoned' \in SUBSET Request, Dropped(hook', c)
    PROVE  Inv'
<1>a. /\ waits[c] \in Request /\ waits[c] # None /\ stage[waits[c]] # "none"
      /\ base[waits[c]] \in Place
  BY RequestFacts DEF Inv, TypeOK, CallsOK, Made
<1>b. /\ hook' \in [Request -> [Call -> {"none", "live", "removed", "timer"}]]
      /\ \A r \in Request : \A d \in Call :
           hook'[r][d] = hook[r][d] \/ (d = c /\ r = waits[c] /\ Settled(r))
  BY <1>a, DroppedFacts
<1>c. Here(base[waits[c]][1]) \in Place /\ None \notin Place
  BY <1>a, PlaceFacts, HereFacts DEF Inv
<1>d. /\ pc'[c] = "done" /\ waits'[c] = None /\ backup'[c] = None
      /\ life'[c] \in {"none", "suggested"} /\ (life'[c] = "suggested" => at'[c] # None)
      /\ \A d \in Call : d # c =>
           /\ pc'[d] = pc[d] /\ waits'[d] = waits[d] /\ backup'[d] = backup[d]
           /\ life'[d] = life[d] /\ at'[d] = at[d]
      /\ token' = token \ {c}
      /\ UNCHANGED <<config, text, pending, speculative, lastShown>>
  BY <1>c DEF Inv, TypeOK, Return
<1>1. TypeOK'
  BY <1>b, <1>c DEF Inv, TypeOK, Return
<1>2. Kinds' /\ CallsOK' /\ SpeculativeFree'
  <2>1. Kinds'
    BY <1>d DEF Inv, Kinds
  <2>2. CallsOK'
    BY <1>d DEF Inv, CallsOK, UnderWay
  <2>3. SpeculativeFree'
    BY <1>d, RequestFacts DEF Inv, TypeOK, SpeculativeFree
  <2> QED BY <2>1, <2>2, <2>3
<1>3. Fresh'
  <2>1. life[c] = "none"
    BY DEF Inv, CallsOK, UnderWay
  <2> QED BY <1>d, <2>1 DEF Inv, Fresh
<1>4. Made'
  BY <1>d DEF Inv, Made
<1>5. Hooked'
  BY <1>b, <1>d DEF Inv, TypeOK, Hooked, Needs, Running, Settled
<1>6. Fitting'
  BY <1>d DEF Inv, Fitting, ComputedFor
<1>7. NobodyIsForgotten'
  <2> SUFFICES ASSUME NEW r \in Request, Running(r)', ~Settled(r)', r \notin cancelled'
               PROVE  r = pending \/ r = speculative \/ \E d \in Call : hook'[r][d] \in {"live", "timer"}
    BY <1>d DEF NobodyIsForgotten
  <2>1. Running(r) /\ ~Settled(r) /\ r \notin cancelled
    BY DEF Running, Settled
  <2>2. \A d \in Call : hook'[r][d] = hook[r][d]
    BY <2>1, <1>b
  <2> QED BY <2>1, <2>2 DEF Inv, NobodyIsForgotten
<1> QED BY <1>1, <1>2, <1>3, <1>4, <1>5, <1>6, <1>7 DEF Inv

\* A call joins a request instead of, or after, another one.
LEMMA JoinKeeps ==
    ASSUME Inv, NEW c \in Call, NEW r \in Request, NEW hooks, NEW place \in Place,
           NEW where \in {"join", "rebase"},
           pc[c] = "idle" \/ (pc[c] = "rebase" /\ where = "join"),
           hooks = hook \/ (pc[c] = "rebase" /\ Dropped(hooks, c)),
           backup[c] = None, stage[r] # "none", where = "join" => base[r][2] = place[2],
           \/ speculative' = speculative /\ r = pending
           \/ speculative' = None /\ r = speculative,
           JoinRequest(c, r, hooks), Await(c, where, r, None),
           at' = [at EXCEPT ![c] = place],
           UNCHANGED <<config, text, abandoned, token, life, lastShown>>
    PROVE  Inv'
<1>a. /\ hooks \in [Request -> [Call -> {"none", "live", "removed", "timer"}]]
      /\ \A s \in Request : \A d \in Call :
           hooks[s][d] = hook[s][d] \/ (d = c /\ s = waits[c] /\ Settled(s))
  <2>1. CASE hooks = hook
    BY <2>1 DEF Inv, TypeOK
  <2>2. CASE pc[c] = "rebase" /\ Dropped(hooks, c)
    BY <2>2, DroppedFacts DEF Inv, CallsOK, UnderWay
  <2> QED BY <2>1, <2>2
<1>b. UNCHANGED <<base, prompt, first, cancelled, stage, pending>>
  BY DEF JoinRequest, requestVars
<1>c. /\ hook' \in [Request -> [Call -> {"none", "live", "removed", "timer"}]]
      /\ hook'[r][c] = "live"
      /\ \A s \in Request : \A d \in Call : s # r \/ d # c => hook'[s][d] = hooks[s][d]
  BY <1>a DEF JoinRequest, Join
<1>d. /\ pc'[c] = where /\ waits'[c] = r /\ backup'[c] = None /\ at'[c] = place
      /\ \A d \in Call : d # c =>
           /\ pc'[d] = pc[d] /\ waits'[d] = waits[d] /\ backup'[d] = backup[d] /\ at'[d] = at[d]
  BY DEF Inv, TypeOK, Await
<1>e. speculative' \in {speculative, None} /\ r # speculative'
  BY RequestFacts DEF Inv, TypeOK, Kinds
<1>1. TypeOK'
  BY <1>b, <1>c, <1>e DEF Inv, TypeOK, Await
<1>2. Kinds'
  BY <1>b, <1>d, <1>e DEF Inv, Kinds
<1>8. CallsOK'
  BY <1>d, RequestFacts, PlaceFacts DEF Inv, CallsOK, UnderWay
<1>9. SpeculativeFree'
  BY <1>d, <1>e DEF Inv, SpeculativeFree
<1>3. Fresh'
  BY <1>b, <1>d DEF Inv, Fresh
<1>4. Made'
  BY <1>b, <1>d, <1>e DEF Inv, Made
<1>5. Hooked'
  <2> SUFFICES ASSUME NEW d \in Call, NEW s \in Request, Needs(d, s)' PROVE hook'[s][d] = "live"
    BY <1>b, <1>d, <1>a, <1>c DEF Inv, TypeOK, Hooked, Running
  <2>1. CASE d = c
    BY <2>1, <1>c, <1>d DEF Needs
  <2>2. CASE d # c
    <3>1. Needs(d, s)
      BY <2>2, <1>b, <1>d DEF Needs, Running, Settled
    <3> QED BY <3>1, <2>2, <1>a, <1>c DEF Inv, Hooked
  <2> QED BY <2>1, <2>2
<1>6. Fitting'
  BY <1>b, <1>d DEF Inv, Fitting, ComputedFor
<1>7. NobodyIsForgotten'
  <2> SUFFICES ASSUME NEW s \in Request, Running(s)', ~Settled(s)', s \notin cancelled'
               PROVE  s = pending \/ s = speculative' \/ \E d \in Call : hook'[s][d] \in {"live", "timer"}
    BY <1>b DEF NobodyIsForgotten
  <2>1. Running(s) /\ ~Settled(s) /\ s \notin cancelled
    BY <1>b DEF Running, Settled
  <2>2. CASE s = r
    BY <2>2, <1>c
  <2>3. CASE s # r
    <3>1. \A d \in Call : hook'[s][d] = hook[s][d]
      BY <2>1, <2>3, <1>a, <1>c
    <3> QED BY <2>1, <2>3, <3>1 DEF Inv, NobodyIsForgotten
  <2> QED BY <2>2, <2>3
<1> QED BY <1>1, <1>2, <1>3, <1>4, <1>5, <1>6, <1>7, <1>8, <1>9 DEF Inv

\* A call makes a request: its own one, or a backup of the one it joins.
LEMMA ExecuteKeeps ==
    ASSUME Inv, NEW c \in Call, NEW d \in Document, NEW history \in Text, NEW place \in Place,
           NEW replaced, NEW hooks, NEW where, NEW r, NEW b,
           stage[Own(c)] = "none", pc[c] \in {"idle", "rebase"}, backup[c] = None,
           \/ /\ where = "own" /\ r = Own(c) /\ b = None
              /\ replaced = pending /\ history = place[2]
              /\ hooks = hook \/ (pc[c] = "rebase" /\ Dropped(hooks, c))
           \/ /\ where = "rebase" /\ r = pending /\ b = Own(c) /\ pending # None
              /\ replaced = None /\ place = Here(d)
              /\ hooks = Join(hook, pending, c),
           Execute(c, d, history, replaced, hooks), Await(c, where, r, b),
           at' = [at EXCEPT ![c] = place],
           UNCHANGED <<config, text, abandoned, token, life, lastShown>>
    PROVE  Inv'
<1> DEFINE own == Own(c)
<1>a. /\ own \in Request /\ IsFetch(own) /\ stage[own] = "none" /\ None \notin Request
      /\ Here(d) \in Place /\ None \notin Place
  BY RequestFacts, PlaceFacts, HereFacts DEF Inv
<1>b. /\ pending # own /\ speculative # own
      /\ \A e \in Call : waits[e] # own /\ backup[e] # own
      /\ \A e \in Call : e # c => Own(e) # own
      /\ \A e \in Call : Guess(e) # own
  BY <1>a, RequestFacts DEF Inv, Made
<1>c. /\ base' = [base EXCEPT ![own] = Here(d)] /\ prompt' = [prompt EXCEPT ![own] = history]
      /\ stage' = [stage EXCEPT ![own] = "preparing"] /\ first' = first
      /\ pending' = own /\ hook' = [hooks EXCEPT ![own][c] = "live"]
      /\ \/ speculative' = speculative /\ cancelled' = cancelled \cup ({replaced} \ {None})
         \/ /\ speculative' = None
            /\ cancelled' = cancelled \cup ({replaced} \ {None}) \cup {speculative}
            /\ speculative # None
  BY DEF Execute, Create, Join
<1>d. /\ pc'[c] = where /\ waits'[c] = r /\ backup'[c] = b /\ at'[c] = place
      /\ \A e \in Call : e # c =>
           /\ pc'[e] = pc[e] /\ waits'[e] = waits[e] /\ backup'[e] = backup[e] /\ at'[e] = at[e]
  BY DEF Inv, TypeOK, Await
<1> HIDE DEF own
<1>e. /\ \A s \in Request : s # own =>
           stage'[s] = stage[s] /\ base'[s] = base[s] /\ prompt'[s] = prompt[s]
      /\ stage'[own] = "preparing" /\ base'[own] = Here(d) /\ prompt'[own] = history
  BY <1>a, <1>c DEF Inv, TypeOK
<1>f. /\ hooks \in [Request -> [Call -> {"none", "live", "removed", "timer"}]]
      /\ \A s \in Request : \A e \in Call :
           \/ hooks[s][e] = hook[s][e]
           \/ e = c /\ s = waits[c] /\ Settled(s)
           \/ e = c /\ s = pending /\ hooks[s][e] = "live"
      /\ where = "rebase" => hooks[pending][c] = "live"
  <2>1. CASE where = "own" /\ hooks = hook
    BY <2>1 DEF Inv, TypeOK
  <2>2. CASE where = "own" /\ pc[c] = "rebase" /\ Dropped(hooks, c)
    BY <2>2, DroppedFacts DEF Inv, CallsOK, UnderWay
  <2>3. CASE where = "rebase" /\ hooks = [hook EXCEPT ![pending][c] = "live"] /\ pending # None
    <3>1. pending \in Request
      BY <2>3 DEF Inv, TypeOK
    <3> QED BY <2>3, <3>1 DEF Inv, TypeOK
  <2> QED BY <2>1, <2>2, <2>3 DEF Join
<1>g. /\ hook' \in [Request -> [Call -> {"none", "live", "removed", "timer"}]]
      /\ hook'[own][c] = "live"
      /\ \A s \in Request : \A e \in Call : s # own \/ e # c => hook'[s][e] = hooks[s][e]
  BY <1>a, <1>c, <1>f
<1>h. /\ r \in Request /\ b \in {None, own} /\ r # None
      /\ where \in {"own", "rebase"} /\ stage'[r] # "none" /\ r # speculative
      /\ where = "own" => r = own /\ b = None /\ replaced = pending
      /\ where = "rebase" => r = pending /\ b = own /\ place = Here(d) /\ pending # None
  BY <1>a, <1>b, <1>e, RequestFacts DEF Inv, TypeOK, Kinds, Made, own
<1>i. cancelled \subseteq cancelled' /\ cancelled' \in SUBSET Request
  BY <1>c, <1>h DEF Inv, TypeOK
<1>j. speculative' \in {speculative, None}
  BY <1>c
<1>1. TypeOK'
  <2>1. pending' \in Request /\ speculative' \in Request \cup {None}
    BY <1>a, <1>c, <1>j DEF Inv, TypeOK
  <2>2. /\ base' \in [Request -> Place \cup {None}] /\ prompt' \in [Request -> Text \cup {None}]
        /\ stage' \in [Request -> {"none", "preparing", "fetching", "ended", "thrown"}]
    BY <1>a, <1>c DEF Inv, TypeOK
  <2>3. /\ pc' \in [Call -> {"idle", "own", "join", "rebase", "done"}]
        /\ at' \in [Call -> Place \cup {None}]
        /\ waits' \in [Call -> Request \cup {None}]
        /\ backup' \in [Call -> Request \cup {None}]
    BY <1>a, <1>h DEF Inv, TypeOK, Await
  <2> QED BY <1>c, <1>g, <1>i, <2>1, <2>2, <2>3 DEF Inv, TypeOK
<1>2. Kinds'
  BY <1>a, <1>c, <1>d, <1>h, <1>j DEF Inv, Kinds, own
<1>3. CallsOK'
  BY <1>a, <1>d, <1>h DEF Inv, CallsOK, UnderWay, own
<1>4. Fresh'
  BY <1>b, <1>d, <1>e, <1>h, RequestFacts DEF Inv, Fresh, own
<1>5. Made'
  <2>1. \A s \in Request : stage'[s] # "none" => base'[s] # None
    BY <1>a, <1>e DEF Inv, Made
  <2>2. \A s \in Request : stage[s] # "none" => stage'[s] # "none"
    BY <1>e
  <2>3. pending' # None /\ stage'[pending'] # "none"
    BY <1>a, <1>c, <1>e
  <2>4. speculative' # None => stage'[speculative'] # "none"
    BY <1>j, <2>2 DEF Inv, TypeOK, Made
  <2>5. \A e \in Call : waits'[e] # None => stage'[waits'[e]] # "none"
    BY <1>d, <1>h, <2>2 DEF Inv, TypeOK, Made
  <2>6. \A e \in Call : backup'[e] # None => stage'[backup'[e]] # "none"
    BY <1>d, <1>e, <1>h, <2>2 DEF Inv, TypeOK, Made
  <2> QED BY <2>1, <2>3, <2>4, <2>5, <2>6 DEF Made
<1>6. SpeculativeFree'
  BY <1>d, <1>h, <1>j DEF Inv, SpeculativeFree
<1>7. Hooked'
  <2>1. ASSUME NEW e \in Call, NEW s \in Request, Needs(e, s)'
        PROVE  hook'[s][e] = "live"
    <3>1. CASE e = c
      BY <2>1, <3>1, <1>b, <1>d, <1>f, <1>g, <1>h DEF Needs
    <3>2. CASE e # c
      <4>1. s # own /\ Needs(e, s)
        BY <2>1, <3>2, <1>b, <1>c, <1>d, <1>e DEF Needs, Running, Settled
      <4> QED BY <4>1, <3>2, <1>f, <1>g DEF Inv, Hooked
    <3> QED BY <3>1, <3>2
  <2>2. ASSUME NEW e \in Call, backup'[e] # None, e \notin token', Running(backup[e])'
        PROVE  hook'[backup'[e]][e] = "live"
    <3>1. CASE e = c
      BY <2>2, <3>1, <1>d, <1>g, <1>h
    <3>2. CASE e # c
      <4>1. backup'[e] = backup[e] /\ backup[e] # own /\ backup[e] \in Request
        BY <2>2, <3>2, <1>b, <1>d DEF Inv, TypeOK
      <4>2. hook[backup[e]][e] = "live"
        BY <4>1, <2>2, <1>e DEF Inv, Hooked, Running
      <4> QED BY <4>1, <4>2, <3>2, <1>f, <1>g
    <3> QED BY <3>1, <3>2
  <2> QED BY <2>1, <2>2 DEF Hooked
<1>8. Fitting'
  <2> SUFFICES ASSUME NEW e \in Call
               PROVE  /\ backup'[e] # None => base'[backup'[e]] = at'[e]
                      /\ pc'[e] \in {"own", "join"} /\ ComputedFor(waits[e])' = base'[waits'[e]] =>
                           base'[waits'[e]][2] = at'[e][2]
    BY DEF Fitting
  <2>1. CASE e = c
    <3>1. CASE where = "own"
      <4>1. ComputedFor(own)' = <<d, history>> /\ base'[own] = Here(d)
        BY <1>e, <1>a, HereFacts DEF ComputedFor, Inv
      <4>2. history = place[2]
        BY <3>1
      <4> QED BY <2>1, <3>1, <4>1, <4>2, <1>d, <1>h DEF Here
    <3>2. CASE where = "rebase"
      BY <2>1, <3>2, <1>d, <1>e, <1>h
    <3> QED BY <3>1, <3>2, <1>h
  <2>2. CASE e # c
    <3>1. waits'[e] = waits[e] /\ backup'[e] = backup[e] /\ waits[e] # own /\ backup[e] # own
      BY <2>2, <1>b, <1>d
    <3>2. pc[e] \in {"own", "join"} => waits[e] \in Request
      BY DEF Inv, TypeOK, CallsOK, UnderWay
    <3>3. backup[e] \in Request \cup {None}
      BY DEF Inv, TypeOK
    <3> QED BY <2>2, <3>1, <3>2, <3>3, <1>d, <1>e DEF Inv, Fitting, ComputedFor
  <2> QED BY <2>1, <2>2
<1>9. NobodyIsForgotten'
  <2> SUFFICES ASSUME NEW s \in Request, s # own, Running(s)', ~Settled(s)', s \notin cancelled'
               PROVE  s = speculative' \/ \E e \in Call : hook'[s][e] \in {"live", "timer"}
    BY <1>c DEF NobodyIsForgotten
  <2>1. Running(s) /\ ~Settled(s) /\ s \notin cancelled
    BY <1>c, <1>e, <1>i DEF Running, Settled
  <2>2. CASE \E e \in Call : hook[s][e] \in {"live", "timer"}
    BY <2>1, <2>2, <1>f, <1>g
  <2>3. CASE s = speculative
    BY <2>3, <1>c
  <2>4. CASE s = pending
    <3>1. where = "rebase"
      BY <2>4, <1>c, <1>h, RequestFacts
    <3> QED BY <2>4, <3>1, <1>f, <1>g
  <2> QED BY <2>1, <2>2, <2>3, <2>4 DEF Inv, NobodyIsForgotten
<1> QED BY <1>1, <1>2, <1>3, <1>4, <1>5, <1>6, <1>7, <1>8, <1>9 DEF Inv

\* A call whose rebase failed goes on with its backup.
LEMMA BackupKeeps ==
    ASSUME Inv, NEW c \in Call, pc[c] = "rebase", backup[c] # None,
           Dropped(hook', c), Await(c, "own", backup[c], None),
           UNCHANGED <<pending, speculative, requestVars, stage>>,
           UNCHANGED <<config, text, abandoned, at, token, life, lastShown>>
    PROVE  Inv'
<1> USE DEF requestVars
<1>a. waits[c] # None /\ backup[c] = Own(c) /\ backup[c] \in Request /\ at[c] # None
  BY DEF Inv, TypeOK, Kinds, CallsOK, UnderWay
<1>b. /\ hook' \in [Request -> [Call -> {"none", "live", "removed", "timer"}]]
      /\ \A r \in Request : \A d \in Call :
           hook'[r][d] = hook[r][d] \/ (d = c /\ r = waits[c] /\ Settled(r))
  BY <1>a, DroppedFacts
<1>c. /\ pc'[c] = "own" /\ waits'[c] = Own(c) /\ backup'[c] = None
      /\ \A d \in Call : d # c =>
           pc'[d] = pc[d] /\ waits'[d] = waits[d] /\ backup'[d] = backup[d]
  BY <1>a DEF Inv, TypeOK, Await
<1>1. TypeOK'
  BY <1>a, <1>b DEF Inv, TypeOK, Await
<1>2. Kinds' /\ SpeculativeFree'
  BY <1>c, RequestFacts DEF Inv, Kinds, SpeculativeFree
<1>3. CallsOK'
  BY <1>a, <1>c, RequestFacts DEF Inv, CallsOK, UnderWay
<1>4. Fresh' /\ Made'
  BY <1>a, <1>c DEF Inv, Fresh, Made
<1>5. Hooked'
  <2> SUFFICES ASSUME NEW d \in Call, NEW r \in Request, Needs(d, r)'
               PROVE  hook'[r][d] = "live"
    <3>1. ASSUME NEW d \in Call, backup'[d] # None, d \notin token', Running(backup[d])'
          PROVE  hook'[backup'[d]][d] = "live"
      <4>1. d # c /\ backup'[d] = backup[d] /\ backup[d] \in Request
        BY <3>1, <1>c DEF Inv, TypeOK
      <4>2. hook[backup[d]][d] = "live"
        BY <3>1, <4>1 DEF Inv, Hooked, Running
      <4> QED BY <4>1, <4>2, <1>b
    <3> QED BY <3>1 DEF Hooked, Running
  <2>1. CASE d = c
    BY <2>1, <1>a, <1>b, <1>c DEF Inv, Hooked, Needs, Running, Settled
  <2>2. CASE d # c
    BY <2>2, <1>b, <1>c DEF Inv, Hooked, Needs, Running, Settled
  <2> QED BY <2>1, <2>2
<1>6. Fitting'
  BY <1>a, <1>c DEF Inv, Fitting, ComputedFor
<1>7. NobodyIsForgotten'
  BY <1>b DEF Inv, NobodyIsForgotten, Running, Settled
<1> QED BY <1>1, <1>2, <1>3, <1>4, <1>5, <1>6, <1>7 DEF Inv

LEMMA GetNextEditKeeps ==
    ASSUME Inv, NEW c \in Call, NEW d \in Document, GetNextEdit(c, d)
    PROVE  Inv'
<1>a. /\ pc[c] = "idle" /\ backup[c] = None /\ stage[Own(c)] = "none"
      /\ at' = [at EXCEPT ![c] = Here(d)] /\ Here(d) \in Place /\ Here(d)[2] = text[d] /\ text[d] \in Text
      /\ UNCHANGED <<config, text, abandoned, token, life, lastShown>>
  BY HereFacts DEF Inv, TypeOK, CallsOK, Fresh, GetNextEdit
<1>1. CASE CallSpeculative(c, d)
  <2>1. /\ speculative \in Request /\ stage[speculative] # "none" /\ speculative' = None
        /\ base[speculative][2] = Here(d)[2]
        /\ JoinRequest(c, speculative, hook) /\ Await(c, "join", speculative, None)
    BY <1>1 DEF Inv, TypeOK, Made, CallSpeculative, SpeculativeMatches
  <2> QED BY <1>a, <2>1, JoinKeeps
<1>2. CASE CallPending(c, d)
  <2>1. /\ pending \in Request /\ stage[pending] # "none" /\ speculative' = speculative
        /\ base[pending][2] = Here(d)[2]
        /\ JoinRequest(c, pending, hook) /\ Await(c, "join", pending, None)
    BY <1>2 DEF Inv, TypeOK, Made, CallPending, PendingIsFor
  <2> QED BY <1>a, <2>1, JoinKeeps
<1>3. CASE CallStale(c, d)
  <2>1. pending \in Request /\ pending # None /\ stage[pending] # "none"
    BY <1>3 DEF Inv, TypeOK, Made, CallStale
  <2>2. CASE /\ Execute(c, d, text[d], None, Join(hook, pending, c))
             /\ Await(c, "rebase", pending, Own(c))
    BY <1>a, <2>1, <2>2, ExecuteKeeps
  <2>3. CASE /\ JoinRequest(c, pending, hook)
             /\ Await(c, "rebase", pending, None)
             /\ UNCHANGED speculative
    BY <1>a, <2>1, <2>3, JoinKeeps
  <2> QED BY <1>3, <2>2, <2>3 DEF CallStale
<1>4. CASE CallNew(c, d)
  <2>1. Execute(c, d, text[d], pending, hook) /\ Await(c, "own", Own(c), None)
    BY <1>4 DEF CallNew
  <2> QED BY <1>a, <2>1, ExecuteKeeps
<1> QED BY <1>1, <1>2, <1>3, <1>4 DEF GetNextEdit

LEMMA CallStepKeeps ==
    ASSUME Inv, NEW c \in Call, CallStep(c)
    PROVE  Inv'
<1>1. CASE JoinReturns(c)
  <2>1. /\ UnderWay(c) /\ Return(c, Offers(c)) /\ Dropped(hook', c)
        /\ UNCHANGED <<base, prompt, first, cancelled, stage, abandoned>>
    BY <1>1 DEF JoinReturns, JoinDue, UnderWay, Dropped, requestVars
  <2>2. Offers(c) \in BOOLEAN
    BY DEF Offers
  <2> QED BY <2>1, <2>2, ReturnKeeps DEF Inv, TypeOK
<1>2. CASE OwnReturns(c)
  <2>1. /\ UnderWay(c) /\ Return(c, Offers(c)) /\ Dropped(hook', c)
        /\ UNCHANGED <<base, prompt, first, cancelled, stage, abandoned>>
    BY <1>2 DEF OwnReturns, OwnDue, UnderWay, Dropped, requestVars, streamVars
  <2>2. Offers(c) \in BOOLEAN
    BY DEF Offers
  <2> QED BY <2>1, <2>2, ReturnKeeps DEF Inv, TypeOK
<1>3. CASE RebaseReturns(c)
  <2>1. /\ UnderWay(c) /\ Dropped(hook', c)
        /\ UNCHANGED <<base, prompt, first, stage>>
    BY <1>3 DEF RebaseReturns, RebaseDue, UnderWay, Dropped
  <2>2. Return(c, Offers(c)) \/ Return(c, FALSE)
    BY <1>3 DEF RebaseReturns
  <2>3. /\ cancelled \subseteq cancelled' /\ cancelled' \in SUBSET Request
        /\ abandoned' \in SUBSET Request
    BY <1>3 DEF Inv, TypeOK, RebaseReturns, GiveUp, GiveUpLater
  <2>4. Offers(c) \in BOOLEAN
    BY DEF Offers
  <2> QED BY <2>1, <2>2, <2>3, <2>4, ReturnKeeps
<1>4. CASE RebaseFails(c)
  <2>a. /\ pc[c] = "rebase" /\ at[c] \in Place /\ at[c][1] \in Document /\ at[c][2] \in Text
        /\ at' = [at EXCEPT ![c] = at[c]]
        /\ Dropped(Left(waits[c], c), c)
        /\ UNCHANGED <<config, text, abandoned, at, token, life, lastShown>>
    BY <1>4, PlaceFacts DEF Inv, TypeOK, CallsOK, UnderWay, RebaseFails, RebaseDue, Dropped
  <2>1. CASE /\ backup[c] # None
             /\ Await(c, "own", backup[c], None)
             /\ hook' = Left(waits[c], c)
             /\ UNCHANGED <<pending, speculative, requestVars, stage>>
    <3>1. Dropped(hook', c)
      BY <2>1, <1>4 DEF RebaseFails, RebaseDue, Dropped
    <3> QED BY <2>1, <2>a, <3>1, BackupKeeps
  <2>2. CASE /\ backup[c] = None
             /\ PendingIsFor(at[c]) /\ pending \notin cancelled
             /\ Await(c, "join", pending, None)
             /\ JoinRequest(c, pending, Left(waits[c], c))
             /\ UNCHANGED speculative
    <3>1. pending \in Request /\ stage[pending] # "none" /\ base[pending][2] = at[c][2]
      BY <2>2 DEF Inv, TypeOK, Made, PendingIsFor
    <3> QED BY <2>a, <2>2, <3>1, JoinKeeps
  <2>3. CASE /\ backup[c] = None
             /\ Await(c, "own", Own(c), None)
             /\ Execute(c, at[c][1], at[c][2], pending, Left(waits[c], c))
    <3>1. stage[Own(c)] = "none"
      BY <2>3, <2>a DEF Inv, Fresh
    <3> QED BY <2>a, <2>3, <3>1, ExecuteKeeps
  <2> QED BY <1>4, <2>1, <2>2, <2>3 DEF RebaseFails
<1> QED BY <1>1, <1>2, <1>3, <1>4 DEF CallStep

-----------------------------------------------------------------------------
(* The theorems.                                                           *)

LEMMA NextKeeps == Inv /\ [Next]_vars => Inv'
<1> SUFFICES ASSUME Inv, [Next]_vars PROVE Inv'
  OBVIOUS
<1>1. ASSUME NEW c \in Call, CallStep(c) PROVE Inv'
  BY <1>1, CallStepKeeps
<1>2. ASSUME NEW r \in Request, Stream(r) PROVE Inv'
  BY <1>2, FetchIssuedKeeps, FirstEditKeeps, StreamEndsKeeps, FirstEditThrowsKeeps DEF Stream
<1>3. CASE Event
  BY <1>3, GetNextEditKeeps, CancelTokenKeeps, EndOfLifeKeeps, TimerKeeps, DocumentKeeps, ShownKeeps
     DEF Event
<1>4. CASE UNCHANGED vars
  <2>1. TypeOK'
    BY <1>4 DEF Inv, TypeOK, vars, requestVars, streamVars, callVars
  <2>2. Kinds' /\ CallsOK' /\ Fresh' /\ Made' /\ SpeculativeFree'
    BY <1>4 DEF Inv, Kinds, CallsOK, UnderWay, Fresh, Made, SpeculativeFree, vars, requestVars,
                streamVars, callVars
  <2>3. Hooked' /\ Fitting' /\ NobodyIsForgotten'
    BY <1>4 DEF Inv, Hooked, Needs, Running, Settled, Fitting, ComputedFor, NobodyIsForgotten, vars,
                requestVars, streamVars, callVars
  <2> QED BY <2>1, <2>2, <2>3 DEF Inv
<1> QED BY <1>1, <1>2, <1>3, <1>4 DEF Next

LEMMA Invariance == Spec => []Inv
BY InitInv, NextKeeps, PTL DEF Spec

\* Every reachable state of the provider is well typed.
THEOREM TypeCorrect == Spec => []TypeOK
<1>1. Inv => TypeOK
  BY DEF Inv
<1> QED BY <1>1, Invariance, PTL

\* No request that is neither settled nor cancelled runs for nobody: whatever
\* replaces, joins or leaves it.
THEOREM NobodyForgotten == Spec => []NobodyIsForgotten
<1>1. Inv => NobodyIsForgotten
  BY DEF Inv
<1> QED BY <1>1, Invariance, PTL

\* The step of NeededIsNotCancelled.
NeededStep ==
    \A r \in Request, c \in Call :
         /\ Needs(c, r) /\ c \notin token'
         /\ r \notin cancelled /\ r \in cancelled'
         => (pending = r /\ pending' # r) \/ text' # text \/ r \in abandoned
            \/ \E b \in Call : backup[b] = r

\* Making a request cancels the one it replaces, or a speculative request that
\* nobody waits for.
LEMMA ExecuteCancels ==
    ASSUME Inv, NEW c \in Call, NEW d, NEW history, NEW hooks, NEW replaced \in {pending, None},
           stage[Own(c)] = "none", Execute(c, d, history, replaced, hooks)
    PROVE  NeededStep
<1>1. pending # Own(c)
  BY RequestFacts DEF Inv, Made
<1>2. pending' = Own(c) /\ cancelled' \subseteq cancelled \cup ({pending, speculative} \ {None})
  BY DEF Execute
<1>3. \A e \in Call, r \in Request : Needs(e, r) => r # speculative
  BY RequestFacts DEF Inv, SpeculativeFree, Needs
<1> QED BY <1>1, <1>2, <1>3 DEF NeededStep

\* A request that somebody waits for is only cancelled for the reasons
\* NeededIsNotCancelled lists.
THEOREM NeededStays == Spec => NeededIsNotCancelled
<1>1. ASSUME Inv, [Next]_vars PROVE NeededStep
  <2>1. ASSUME UNCHANGED cancelled PROVE NeededStep
    BY <2>1 DEF NeededStep
  <2>2. \A c \in Call, r \in Request : Needs(c, r) => c \in Dependants(r) /\ r # speculative
    BY <1>1, RequestFacts DEF Inv, Hooked, SpeculativeFree, Needs, Dependants
  <2>3. ASSUME NEW c \in Call, CallStep(c) PROVE NeededStep
    <3>1. CASE JoinReturns(c) \/ OwnReturns(c)
      BY <3>1, <2>1 DEF JoinReturns, OwnReturns, requestVars
    <3>2. CASE RebaseReturns(c)
      BY <3>2, RequestFacts DEF RebaseReturns, GiveUp, NeededStep
    <3>3. CASE RebaseFails(c)
      <4>1. CASE backup[c] = None /\ Execute(c, at[c][1], at[c][2], pending, Left(waits[c], c))
        <5>1. stage[Own(c)] = "none"
          BY <1>1, <3>3, <4>1 DEF Inv, Fresh, RebaseFails, RebaseDue
        <5> QED BY <1>1, <4>1, <5>1, ExecuteCancels
      <4>2. CASE UNCHANGED cancelled
        BY <4>2, <2>1
      <4> QED BY <3>3, <4>1, <4>2 DEF RebaseFails, JoinRequest, requestVars
    <3> QED BY <2>3, <3>1, <3>2, <3>3 DEF CallStep
  <2>4. ASSUME NEW r \in Request, Stream(r) PROVE NeededStep
    <3>1. CASE FetchIssued(r) \/ FirstEditThrows(r)
      BY <3>1, <2>1 DEF FetchIssued, FirstEditThrows, requestVars
    <3>2. CASE FirstEdit(r) \/ StreamEnds(r)
      BY <3>2 DEF FirstEdit, StreamEnds, PromiseResolves, NeededStep
    <3> QED BY <2>4, <3>1, <3>2 DEF Stream
  <2>5. ASSUME NEW c \in Call, NEW d \in Document, GetNextEdit(c, d) PROVE NeededStep
    <3>1. stage[Own(c)] = "none"
      BY <1>1, <2>5 DEF Inv, Fresh, GetNextEdit
    <3>2. \/ UNCHANGED cancelled
          \/ Execute(c, d, text[d], None, Join(hook, pending, c))
          \/ Execute(c, d, text[d], pending, hook)
      BY <2>5 DEF GetNextEdit, CallSpeculative, CallPending, CallStale, CallNew, JoinRequest, requestVars
    <3> QED BY <1>1, <3>1, <3>2, <2>1, ExecuteCancels
  <2>6. ASSUME NEW c \in Call, CancelToken(c) PROVE NeededStep
    <3> SUFFICES ASSUME NEW r \in Request, NEW e \in Call, Needs(e, r), e \notin token',
                        r \notin cancelled, r \in cancelled'
                 PROVE  FALSE
      BY DEF NeededStep
    <3>1. Dependants(r) = {c}
      BY <2>6 DEF CancelToken, Deserted
    <3>2. e = c
      BY <3>1, <2>2
    <3> QED BY <1>1, <2>6, <3>2 DEF CancelToken, Inv, CallsOK, UnderWay, Needs
  <2>7. ASSUME NEW c \in Call, HandleEndOfLife(c) PROVE NeededStep
    BY <2>7, <2>2 DEF HandleEndOfLife, CancelSpeculative, NeededStep
  <2>8. ASSUME NEW r \in Request, NEW c \in Call, TimerFires(r, c) PROVE NeededStep
    BY <2>8, <2>2 DEF TimerFires, NeededStep
  <2>9. ASSUME NEW d \in Document, NEW value \in Text, DocumentChanges(d, value) PROVE NeededStep
    BY <1>1, <2>9 DEF Inv, TypeOK, DocumentChanges, NeededStep
  <2>10. ASSUME NEW c \in Call, NEW value \in Text, HandleShown(c, value) PROVE NeededStep
    BY <2>10, <2>2 DEF HandleShown, requestVars, NeededStep
  <2>11. CASE UNCHANGED vars
    BY <2>11, <2>1 DEF vars, requestVars
  <2> QED BY <1>1, <2>3, <2>4, <2>5, <2>6, <2>7, <2>8, <2>9, <2>10, <2>11 DEF Next, Event
<1> QED BY <1>1, Invariance, PTL DEF Spec, NeededIsNotCancelled, NeededStep

\* Making a request for the text a document has now mismatches nothing but
\* that request, and only if its prompt is made from another text.
LEMMA CreateMismatches ==
    ASSUME TypeOK, NEW r \in Request, NEW place \in Place, NEW after \in Text,
           Create(r, place, after),
           NEW s \in Request, Mismatched(s)', ~Mismatched(s)
    PROVE  s = r /\ after # place[2]
<1>1. s = r
  <2> SUFFICES ASSUME s # r PROVE FALSE
    OBVIOUS
  <2> QED BY DEF TypeOK, Create, Mismatched, ComputedFor
<1>2. base'[r] = place /\ prompt'[r] = after
  BY DEF TypeOK, Create
<1> QED BY <1>1, <1>2, PlaceFacts DEF Mismatched, ComputedFor

\* A request that is made for the text of now, with a prompt from the text the
\* call was made at.
LEMMA ExecuteMismatches ==
    ASSUME Inv, NEW c \in Call, NEW d \in Document, NEW history \in Text, NEW hooks,
           NEW replaced, Execute(c, d, history, replaced, hooks),
           NEW s \in Request, Mismatched(s)', ~Mismatched(s)
    PROVE  OwnerOf(s) = c /\ history # text[d]
<1>1. Here(d) \in Place /\ Here(d)[2] = text[d] /\ Own(c) \in Request /\ OwnerOf(Own(c)) = c
  BY HereFacts, RequestFacts DEF Inv
<1>2. Create(Own(c), Here(d), history)
  BY DEF Execute
<1> QED BY <1>1, <1>2, CreateMismatches DEF Inv

\* The edit of a call that returns it as it is was computed for the text its
\* document has now, unless its request is mismatched, and a request is made so
\* only for a call whose text, or whose suggestion's text, is outdated.
THEOREM EditsFit == Spec => EditsFitText
<1> DEFINE Returned == \A c \in Call : Suggests(c) /\ ~Mismatched(waits[c]) => Fits(c)
<1> DEFINE OnlyOutdated == \A r \in Request : Mismatched(r)' => Mismatched(r) \/ Outdated(OwnerOf(r))
<1>1. Inv => Returned
  <2> SUFFICES ASSUME Inv, NEW c \in Call, Suggests(c), ~Mismatched(waits[c]),
                      base[waits[c]][1] = at[c][1]
               PROVE  ComputedFor(waits[c]) = Here(at[c][1])
    BY DEF Fits
  <2>1. /\ waits[c] \in Request /\ base[waits[c]] \in Place /\ at[c] \in Place
        /\ ComputedFor(waits[c]) = base[waits[c]]
    BY RequestFacts, PlaceFacts DEF Inv, TypeOK, CallsOK, UnderWay, Made, Suggests, Mismatched
  <2>2. base[waits[c]][2] = at[c][2]
    BY <2>1 DEF Inv, Fitting, Suggests
  <2>3. base[waits[c]] = at[c]
    BY <2>1, <2>2, PlaceFacts
  <2>4. Here(at[c][1]) = at[c]
    BY DEF Suggests, Offers
  <2> QED BY <2>1, <2>3, <2>4
<1>2. ASSUME Inv, [Next]_vars PROVE OnlyOutdated
  <2> SUFFICES ASSUME NEW s \in Request, Mismatched(s)', ~Mismatched(s)
               PROVE  Outdated(OwnerOf(s))
    OBVIOUS
  <2>1. ~UNCHANGED <<base, prompt>>
    BY DEF Mismatched, ComputedFor
  <2>2. ASSUME NEW c \in Call, RebaseFails(c) PROVE Outdated(OwnerOf(s))
    <3>1. Execute(c, at[c][1], at[c][2], pending, Left(waits[c], c))
      BY <2>1, <2>2 DEF RebaseFails, JoinRequest, requestVars
    <3>2. at[c] \in Place /\ at[c][1] \in Document /\ at[c][2] \in Text
      BY <1>2, <2>2, PlaceFacts DEF Inv, TypeOK, CallsOK, UnderWay, RebaseFails, RebaseDue
    <3>3. OwnerOf(s) = c /\ at[c][2] # text[at[c][1]]
      BY <1>2, <3>1, <3>2, ExecuteMismatches
    <3>4. Here(at[c][1])[2] = text[at[c][1]]
      BY <1>2, <3>2, HereFacts DEF Inv
    <3> QED BY <3>2, <3>3, <3>4, PlaceFacts DEF Outdated
  <2>3. ASSUME NEW c \in Call, CallStep(c) PROVE Outdated(OwnerOf(s))
    BY <2>1, <2>2, <2>3 DEF CallStep, JoinReturns, OwnReturns, RebaseReturns, requestVars
  <2>4. ASSUME NEW r \in Request, Stream(r) PROVE FALSE
    BY <2>1, <2>4 DEF Stream, FetchIssued, FirstEdit, StreamEnds, FirstEditThrows, requestVars
  <2>5. ASSUME NEW c \in Call, NEW d \in Document, GetNextEdit(c, d) PROVE FALSE
    <3>1. \/ Execute(c, d, text[d], None, Join(hook, pending, c))
          \/ Execute(c, d, text[d], pending, hook)
      BY <2>1, <2>5 DEF GetNextEdit, CallSpeculative, CallPending, CallStale, CallNew, JoinRequest,
                        requestVars
    <3>2. text[d] \in Text
      BY <1>2 DEF Inv, TypeOK
    <3> QED BY <1>2, <3>1, <3>2, ExecuteMismatches
  <2>6. ASSUME NEW c \in Call, NEW value \in Text, HandleShown(c, value)
        PROVE  Outdated(OwnerOf(s))
    <3>1. PICK after \in Text : /\ Outdated(c) \/ after = value
                               /\ Create(Guess(c), <<at[c][1], value>>, after)
      BY <2>1, <2>6 DEF HandleShown, Guess, requestVars
    <3>2. at[c] \in Place
      BY <1>2, <2>6 DEF Inv, TypeOK, CallsOK, HandleShown
    <3>3. <<at[c][1], value>> \in Place /\ <<at[c][1], value>>[2] = value
      BY <3>2, PlaceFacts
    <3>4. s = Guess(c) /\ after # value
      BY <1>2, <3>1, <3>3, RequestFacts, CreateMismatches DEF Inv
    <3> QED BY <3>1, <3>4, RequestFacts
  <2>7. ASSUME Event PROVE Outdated(OwnerOf(s))
    BY <2>1, <2>5, <2>6, <2>7 DEF Event, CancelToken, HandleEndOfLife, TimerFires, DocumentChanges
  <2> QED BY <1>2, <2>1, <2>3, <2>4, <2>7 DEF Next, vars, requestVars
<1> QED BY <1>1, <1>2, Invariance, PTL DEF Spec, EditsFitText

-----------------------------------------------------------------------------
(* What a call waits for.                                                  *)

\* A stream that has ended settled the first edit, and only the result of a
\* fetch is an error.
EndsSettled ==
    \A r \in Request :
        /\ stage[r] = "ended" => first[r] # "unset"
        /\ stage[r] = "thrown" => IsFetch(r)

\* A call that is under way awaits a request that runs, or one whose result
\* it is about to see: nothing it waits for has stopped without telling it.
AwaitsAnswer ==
    \A c \in Call :
        UnderWay(c) => Running(waits[c]) \/ JoinDue(c) \/ OwnDue(c) \/ RebaseDue(c)

\* A step that does not end a stream.
LEMMA EndsQuiet ==
    ASSUME EndsSettled, UNCHANGED first,
           \A r \in Request : stage'[r] \in {stage[r], "preparing", "fetching"}
    PROVE  EndsSettled'
BY DEF EndsSettled, IsFetch

LEMMA EndsStep ==
    ASSUME Inv, EndsSettled, [Next]_vars
    PROVE  EndsSettled'
<1> USE DEF requestVars, streamVars, callVars
<1>0. TypeOK
  BY DEF Inv
<1>1. CASE UNCHANGED vars
  BY <1>1, EndsQuiet DEF vars
<1>2. ASSUME NEW c \in Call, CallStep(c)
      PROVE  EndsSettled'
  <2>1. CASE JoinReturns(c) \/ OwnReturns(c) \/ RebaseReturns(c)
    BY <2>1, EndsQuiet DEF JoinReturns, OwnReturns, RebaseReturns
  <2>2. CASE RebaseFails(c)
    BY <1>0, <2>2, EndsQuiet DEF RebaseFails, JoinRequest, Execute, Create, TypeOK
  <2> QED BY <1>2, <2>1, <2>2 DEF CallStep
<1>3. ASSUME NEW r \in Request, Stream(r)
      PROVE  EndsSettled'
  <2>1. CASE FetchIssued(r)
    BY <1>0, <2>1, EndsQuiet DEF FetchIssued, TypeOK
  <2>2. CASE FirstEdit(r)
    BY <1>0, <2>2 DEF FirstEdit, EndsSettled, IsFetch, TypeOK
  <2>3. CASE StreamEnds(r)
    BY <1>0, <2>3 DEF StreamEnds, EndsSettled, IsFetch, TypeOK
  <2>4. CASE FirstEditThrows(r)
    BY <1>0, <2>4 DEF FirstEditThrows, EndsSettled, IsFetch, TypeOK
  <2> QED BY <1>3, <2>1, <2>2, <2>3, <2>4 DEF Stream
<1>4. CASE Event
  <2>1. ASSUME NEW c \in Call, NEW d \in Document, GetNextEdit(c, d)
        PROVE  EndsSettled'
    BY <1>0, <2>1, EndsQuiet DEF GetNextEdit, CallSpeculative, CallPending, CallStale, CallNew,
                                 JoinRequest, Execute, Create, TypeOK
  <2>2. ASSUME NEW c \in Call, CancelToken(c) \/ HandleEndOfLife(c)
        PROVE  EndsSettled'
    BY <2>2, EndsQuiet DEF CancelToken, HandleEndOfLife
  <2>3. ASSUME NEW r \in Request, NEW c \in Call, TimerFires(r, c)
        PROVE  EndsSettled'
    BY <2>3, EndsQuiet DEF TimerFires
  <2>4. ASSUME NEW d \in Document, NEW value \in Text, DocumentChanges(d, value)
        PROVE  EndsSettled'
    BY <2>4, EndsQuiet DEF DocumentChanges
  <2>5. ASSUME NEW c \in Call, NEW value \in Text, HandleShown(c, value)
        PROVE  EndsSettled'
    BY <1>0, <2>5, EndsQuiet DEF HandleShown, Create, TypeOK
  <2> QED BY <1>4, <2>1, <2>2, <2>3, <2>4, <2>5 DEF Event
<1> QED BY <1>1, <1>2, <1>3, <1>4 DEF Next

\* A call never waits for a request that has stopped without an answer: what
\* it awaits runs or has settled, however often the request was handed over,
\* given up or cancelled, and whatever becomes of it after its first edit.
THEOREM CallsAwaitAnswers == Spec => []AwaitsAnswer
<1>1. Init => EndsSettled
  BY DEF Init, EndsSettled
<1>2. Inv /\ EndsSettled /\ [Next]_vars => EndsSettled'
  BY EndsStep
<1>3. Inv /\ EndsSettled => AwaitsAnswer
  <2> SUFFICES ASSUME Inv, EndsSettled, NEW c \in Call, UnderWay(c), ~Running(waits[c])
               PROVE  JoinDue(c) \/ OwnDue(c) \/ RebaseDue(c)
    BY DEF AwaitsAnswer
  <2>1. waits[c] \in Request /\ stage[waits[c]] \in {"ended", "thrown"}
    BY DEF Inv, TypeOK, CallsOK, Made, Running
  <2>2. first[waits[c]] # "unset" \/ (stage[waits[c]] = "thrown" /\ IsFetch(waits[c]))
    BY <2>1 DEF EndsSettled
  <2> QED BY <2>2 DEF UnderWay, JoinDue, OwnDue, RebaseDue, Settled
<1> QED BY <1>1, <1>2, <1>3, Invariance, PTL DEF Spec
=============================================================================
