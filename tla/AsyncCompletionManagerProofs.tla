--------------------- MODULE AsyncCompletionManagerProofs -------------------
(* Theorems about AsyncCompletionManager, for any calls, texts and capacity *)
(* of the map.                                                             *)
EXTENDS AsyncCompletionManager, TLAPS

-----------------------------------------------------------------------------
(* The inductive invariant.                                                *)

\* Only requests in flight or completed are in the map, and the most recent
\* call is not speculative.
Listed ==
    /\ \A r \in requests : fetch[r] \in {"running", "succeeded"}
    /\ mostRecent \notin Speculative

\* How far a call has come says what it has asked for.
Phases ==
    \A c \in Call :
        /\ pc[c] \in {"idle", "waiting"} =>
               fetch[c] = "none" /\ answer[<<c, "own">>] = "unasked"
        /\ pc[c] = "idle" => answer[<<c, "first">>] = "unasked"
        /\ pc[c] # "idle" => prompt[c] \in Prompt
        /\ fetch[c] = "none" => text[c] = None

\* A wait is subscribed to something only until it settles.
OnlyWaitsSubscribe == \A w \in Wait : answer[w] # "waiting" => subscribed[w] = {}

\* The latest wait of the most recent call is subscribed to the requests it
\* will cancel if they stop matching: this is why OnlyCandidatesRun lasts.
LatestWatchesAll ==
    mostRecent # None /\ answer[LatestWait(mostRecent)] = "waiting" =>
        \A r \in requests \ Speculative :
            fetch[r] = "running" =>
                /\ r \in subscribed[LatestWait(mostRecent)]
                /\ IsCandidate(prompt[mostRecent], r)

Inv == TypeOK /\ Listed /\ Phases /\ OnlyWaitsSubscribe /\ Watching /\ LatestWatchesAll

-----------------------------------------------------------------------------
(* Facts about the operators.                                              *)

LEMMA WaitsAre ==
    ASSUME NEW c \in Call
    PROVE  /\ <<c, "first">> \in Wait /\ <<c, "own">> \in Wait
           /\ CallerOf(<<c, "first">>) = c /\ CallerOf(<<c, "own">>) = c
           /\ LatestWait(c) \in Wait /\ CallerOf(LatestWait(c)) = c
BY DEF Wait, CallerOf, LatestWait

LEMMA RoomIsLess == ASSUME NEW r PROVE MakeRoom(r) \subseteq requests
BY DEF MakeRoom

LEMMA OrderTyped ==
    ASSUME TypeOK, NEW keys \in SUBSET Call, NEW r \in Call
    PROVE  Ordered(keys, r) \in SUBSET (Call \X Call)
BY DEF TypeOK, Ordered

\* What nothing is known of can be what its own call waits for.
LEMMA OwnMatches ==
    ASSUME NEW p \in Prompt
    PROVE  Matches(p, p, None, FALSE)
<1>1. p.prefix \in Seq(Character)
  BY TextAssumption
<1>2. IsPrefix(p.prefix, p.prefix)
  BY <1>1 DEF IsPrefix
<1> QED
  BY <1>2 DEF Matches

\* Which candidate a request is only depends on what is known of it.
LEMMA SameCandidate ==
    ASSUME NEW p, NEW r,
           prompt'[r] = prompt[r], text'[r] = text[r], fetch'[r] = fetch[r],
           IsCandidate(p, r)
    PROVE  Matches(p, prompt'[r], text'[r], fetch'[r] = "succeeded")
BY DEF IsCandidate

-----------------------------------------------------------------------------
(* A call asks: it waits for a request in flight, or queues its own.  keys  *)
(* is what the map holds then.                                             *)

Asks(c, w, keys, p) ==
    /\ w = <<c, "first">> \/ w = <<c, "own">>
    /\ pc[c] \in {"idle", "waiting"}
    /\ pc[c] = "waiting" => w = <<c, "own">>
    /\ w = <<c, "first">> =>
           /\ pc' = [pc EXCEPT ![c] = "waiting"]
           /\ keys = requests
           /\ \E r \in keys : IsCandidate(p, r)
           /\ fetch' = fetch
    /\ w = <<c, "own">> =>
           /\ pc' = [pc EXCEPT ![c] = "own"]
           /\ keys \subseteq requests \cup {c}
           /\ c \in keys
           /\ fetch' = [fetch EXCEPT ![c] = "running"]
    /\ p \in Prompt
    /\ prompt' = [prompt EXCEPT ![c] = p]
    /\ text' = text
    /\ \E order \in SUBSET (Call \X Call) : GetFirstMatching(w, keys, order, p)

LEMMA AskFacts ==
    ASSUME Inv, NEW c \in Call, NEW w, NEW keys, NEW p, Asks(c, w, keys, p)
    PROVE  keys \in SUBSET Call /\ w \in Wait /\ CallerOf(w) = c /\ fetch[c] = "none"
<1>1. w \in Wait /\ CallerOf(w) = c
  BY WaitsAre DEF Asks
<1>2. keys \in SUBSET Call
  <2>1. CASE w = <<c, "first">>
    BY <2>1 DEF Inv, TypeOK, Asks
  <2>2. CASE w = <<c, "own">>
    BY <2>2 DEF Inv, TypeOK, Asks
  <2> QED
    BY <2>1, <2>2 DEF Asks
<1>3. fetch[c] = "none"
  BY DEF Inv, Asks, Phases
<1> QED
  BY <1>1, <1>2, <1>3

LEMMA AskKeepsTypes ==
    ASSUME Inv, NEW c \in Call, NEW w, NEW keys, NEW p, Asks(c, w, keys, p)
    PROVE  TypeOK' /\ Listed' /\ Phases' /\ OnlyWaitsSubscribe'
<1>1. keys \in SUBSET Call /\ w \in Wait /\ CallerOf(w) = c /\ fetch[c] = "none"
  BY AskFacts
<1>2. TypeOK'
  BY <1>1 DEF Inv, TypeOK, Asks, GetFirstMatching, CancelAndDelete
<1>3. Listed'
  <2>1. requests' \subseteq keys
    BY DEF Asks, GetFirstMatching, CancelAndDelete
  <2>2. \A r \in requests' : fetch'[r] \in {"running", "succeeded"}
    BY <1>1, <2>1 DEF Inv, TypeOK, Listed, Asks
  <2>3. mostRecent' \notin Speculative
    BY <1>1 DEF Inv, Listed, Asks, GetFirstMatching
  <2> QED
    BY <2>2, <2>3 DEF Listed
<1>4. Phases'
  <2> SUFFICES ASSUME NEW d \in Call
               PROVE  /\ pc'[d] \in {"idle", "waiting"} =>
                            fetch'[d] = "none" /\ answer'[<<d, "own">>] = "unasked"
                      /\ pc'[d] = "idle" => answer'[<<d, "first">>] = "unasked"
                      /\ pc'[d] # "idle" => prompt'[d] \in Prompt
                      /\ fetch'[d] = "none" => text'[d] = None
    BY DEF Phases
  <2>1. CASE d = c
    <3>1. w = <<c, "first">> => answer'[<<c, "own">>] = answer[<<c, "own">>]
      BY <1>1, WaitsAre DEF Inv, TypeOK, Asks, GetFirstMatching
    <3> QED
      BY <1>1, <2>1, <3>1 DEF Inv, TypeOK, Phases, Asks
  <2>2. CASE d # c
    <3>1. w # <<d, "first">> /\ w # <<d, "own">>
      BY <2>2 DEF Asks
    <3>2. /\ answer'[<<d, "own">>] = answer[<<d, "own">>]
          /\ answer'[<<d, "first">>] = answer[<<d, "first">>]
      BY <1>1, <3>1, WaitsAre DEF Inv, TypeOK, Asks, GetFirstMatching
    <3> QED
      BY <1>1, <2>2, <3>2 DEF Inv, TypeOK, Phases, Asks
  <2> QED
    BY <2>1, <2>2
<1>5. OnlyWaitsSubscribe'
  BY <1>1 DEF Inv, TypeOK, OnlyWaitsSubscribe, Asks, GetFirstMatching
<1> QED
  BY <1>2, <1>3, <1>4, <1>5

LEMMA AskKeepsWatching ==
    ASSUME Inv, NEW c \in Call, NEW w, NEW keys, NEW p, Asks(c, w, keys, p)
    PROVE  Watching'
<1>1. keys \in SUBSET Call /\ w \in Wait /\ CallerOf(w) = c /\ fetch[c] = "none"
  BY AskFacts
<1> DEFINE found == {r \in keys : r = c \/ IsCandidate(p, r)}
           ready == {r \in found : fetch[r] = "succeeded"}
<1>2. /\ subscribed' = [subscribed EXCEPT ![w] = IF ready = {} THEN found ELSE {}]
      /\ answer' = [answer EXCEPT ![w] = IF ready = {} THEN "waiting" ELSE "found"]
  BY <1>1 DEF Asks, GetFirstMatching
<1>3. found # {}
  BY DEF Asks
<1>4. ready = {} => \A r \in found : fetch'[r] = "running"
  BY <1>1 DEF Inv, TypeOK, Listed, Asks
<1>5. \A r \in Call : fetch[r] = "running" => fetch'[r] = "running"
  BY <1>1 DEF Inv, TypeOK, Asks
<1> HIDE DEF found, ready
<1> QED
  BY <1>1, <1>2, <1>3, <1>4, <1>5 DEF Inv, TypeOK, Watching

LEMMA AskKeepsLatest ==
    ASSUME Inv, NEW c \in Call, NEW w, NEW keys, NEW p, Asks(c, w, keys, p)
    PROVE  LatestWatchesAll'
<1>1. keys \in SUBSET Call /\ w \in Wait /\ CallerOf(w) = c /\ fetch[c] = "none"
  BY AskFacts
<1> DEFINE found == {r \in keys : r = c \/ IsCandidate(p, r)}
           ready == {r \in found : fetch[r] = "succeeded"}
<1>2. /\ subscribed' = [subscribed EXCEPT ![w] = IF ready = {} THEN found ELSE {}]
      /\ answer' = [answer EXCEPT ![w] = IF ready = {} THEN "waiting" ELSE "found"]
  BY <1>1 DEF Asks, GetFirstMatching
<1> SUFFICES ASSUME mostRecent' # None, answer'[LatestWait(mostRecent)'] = "waiting",
                    NEW r \in requests' \ Speculative, fetch'[r] = "running"
             PROVE  /\ r \in subscribed'[LatestWait(mostRecent)']
                    /\ IsCandidate(prompt[mostRecent], r)'
  BY DEF LatestWatchesAll
<1>3. requests' \subseteq keys /\ r \in Call
  BY <1>1 DEF Asks, GetFirstMatching, CancelAndDelete
<1>4. text'[r] = text[r] /\ (r # c => prompt'[r] = prompt[r] /\ fetch'[r] = fetch[r])
  BY <1>1, <1>3 DEF Inv, TypeOK, Asks
<1>5. CASE c \notin Speculative
  <2>1. mostRecent' = c /\ LatestWait(mostRecent)' = w
    BY <1>1, <1>5 DEF Inv, TypeOK, Asks, GetFirstMatching, LatestWait
  <2>2. ready = {} /\ subscribed'[w] = found
    BY <1>1, <1>2, <2>1 DEF Inv, TypeOK
  <2>3. r \in found
    <3>1. r # c => fetch[r] = "running"
      BY <1>4
    <3> QED
      BY <1>1, <1>3, <1>5, <3>1 DEF Asks, GetFirstMatching, CancelAndDelete
  <2>4. prompt'[c] = p
    BY DEF Inv, TypeOK, Asks
  <2>5. CASE r = c
    <3>1. text'[c] = None
      BY <1>1, <1>4, <2>5 DEF Inv, Phases
    <3> QED
      BY <2>1, <2>2, <2>3, <2>4, <2>5, <3>1, OwnMatches DEF IsCandidate, Asks
  <2>6. CASE r # c
    BY <1>4, <2>1, <2>2, <2>3, <2>4, <2>6 DEF IsCandidate
  <2> QED
    BY <2>5, <2>6
<1>6. CASE c \in Speculative
  <2>1. mostRecent' = mostRecent /\ mostRecent # c /\ mostRecent \in Call /\ r # c
    BY <1>1, <1>6 DEF Inv, TypeOK, Listed, Asks, GetFirstMatching
  <2>2. r \in requests /\ fetch[r] = "running"
    BY <1>3, <1>4, <2>1 DEF Asks
  <2>3. LatestWait(mostRecent)' = LatestWait(mostRecent) /\ LatestWait(mostRecent) # w
    BY <2>1 DEF Inv, TypeOK, Asks, LatestWait
  <2>4. /\ answer'[LatestWait(mostRecent)] = answer[LatestWait(mostRecent)]
        /\ subscribed'[LatestWait(mostRecent)] = subscribed[LatestWait(mostRecent)]
    BY <1>1, <1>2, <2>1, <2>3, WaitsAre DEF Inv, TypeOK
  <2>5. prompt'[mostRecent] = prompt[mostRecent]
    BY <2>1 DEF Inv, TypeOK, Asks
  <2> QED
    BY <1>4, <2>1, <2>2, <2>3, <2>4, <2>5 DEF Inv, LatestWatchesAll, IsCandidate
<1> QED
  BY <1>5, <1>6

LEMMA AskKeepsInv ==
    ASSUME Inv, NEW c \in Call, NEW w, NEW keys, NEW p, Asks(c, w, keys, p)
    PROVE  Inv'
BY AskKeepsTypes, AskKeepsWatching, AskKeepsLatest DEF Inv

\* A request is cancelled because its caller is the most recent one now.
LEMMA AskKeepsCandidates ==
    ASSUME Inv, NEW c \in Call, NEW w, NEW keys, NEW p, Asks(c, w, keys, p),
           NEW r \in cancelled' \ cancelled
    PROVE  ~Matches(prompt'[mostRecent'], prompt'[r], text'[r], FALSE)
<1>1. keys \in SUBSET Call /\ CallerOf(w) = c
  BY WaitsAre DEF Inv, TypeOK, Asks
<1>2. /\ r \in keys /\ r # c /\ ~IsCandidate(p, r) /\ fetch[r] # "succeeded"
      /\ mostRecent' = c
  BY <1>1 DEF Asks, GetFirstMatching, CancelAndDelete
<1>3. prompt'[c] = p /\ prompt'[r] = prompt[r] /\ text'[r] = text[r]
  BY <1>1, <1>2 DEF Inv, TypeOK, Asks
<1> QED
  BY <1>2, <1>3 DEF IsCandidate, Matches

LEMMA QueueAsks ==
    ASSUME Inv, NEW c \in Call, NEW p \in Prompt, pc[c] \in {"idle", "waiting"},
           Queue(c, p), prompt' = [prompt EXCEPT ![c] = p]
    PROVE  Asks(c, <<c, "own">>, MakeRoom(c) \cup {c}, p)
<1> DEFINE keys == MakeRoom(c) \cup {c}
<1>1. keys \subseteq requests \cup {c} /\ keys \in SUBSET Call
  BY RoomIsLess DEF Inv, TypeOK
<1>2. Ordered(keys, c) \in SUBSET (Call \X Call)
  BY <1>1, OrderTyped DEF Inv
<1>3. /\ pc' = [pc EXCEPT ![c] = "own"]
      /\ fetch' = [fetch EXCEPT ![c] = "running"]
      /\ GetFirstMatching(<<c, "own">>, keys, Ordered(keys, c), p)
      /\ text' = text
  BY DEF Queue
<1> HIDE DEF keys
<1>4. \E order \in SUBSET (Call \X Call) : GetFirstMatching(<<c, "own">>, keys, order, p)
  BY <1>2, <1>3
<1>5. c \in keys
  BY DEF keys
<1>6. Asks(c, <<c, "own">>, keys, p)
  BY <1>1, <1>3, <1>4, <1>5 DEF Asks
<1> QED
  BY <1>6 DEF keys

\* What a call does that asks for something.
Asking(c) ==
    \/ \E p \in Prompt : WaitFirst(c, p) \/ QueueAtOnce(c, p)
    \/ pc[c] = "waiting" /\ Queue(c, prompt[c]) /\ UNCHANGED prompt

LEMMA AskingAsks ==
    ASSUME Inv, NEW c \in Call, Asking(c)
    PROVE  \E w, keys, p : Asks(c, w, keys, p)
<1>1. ASSUME NEW p \in Prompt, WaitFirst(c, p)
      PROVE  Asks(c, <<c, "first">>, requests, p)
  <2>1. \E order \in SUBSET (Call \X Call) :
            GetFirstMatching(<<c, "first">>, requests, order, p)
    BY <1>1 DEF Inv, TypeOK, WaitFirst
  <2> QED
    BY <1>1, <2>1 DEF WaitFirst, Asks, ShouldWait
<1>2. ASSUME NEW p \in Prompt, QueueAtOnce(c, p)
      PROVE  Asks(c, <<c, "own">>, MakeRoom(c) \cup {c}, p)
  BY <1>2, QueueAsks DEF QueueAtOnce
<1>3. CASE pc[c] = "waiting" /\ Queue(c, prompt[c]) /\ UNCHANGED prompt
  <2>1. prompt[c] \in Prompt
    BY <1>3 DEF Inv, Phases
  <2>2. prompt' = [prompt EXCEPT ![c] = prompt[c]]
    BY <1>3 DEF Inv, TypeOK
  <2>3. Asks(c, <<c, "own">>, MakeRoom(c) \cup {c}, prompt[c])
    BY <1>3, <2>1, <2>2, QueueAsks
  <2> QED
    BY <2>3
<1> QED
  BY <1>1, <1>2, <1>3 DEF Asking

-----------------------------------------------------------------------------
(* The other steps of a call, and the requests.                            *)

LEMMA ReturnKeepsInv ==
    ASSUME Inv, NEW c \in Call, pc[c] \in {"waiting", "own"},
           pc' = [pc EXCEPT ![c] = "done"],
           UNCHANGED <<mapVars, mostRecent, prompt, text, fetch, waitVars>>
    PROVE  Inv'
<1> USE DEF mapVars, waitVars
<1>1. TypeOK' /\ Listed' /\ OnlyWaitsSubscribe' /\ Watching'
  BY DEF Inv, TypeOK, Listed, OnlyWaitsSubscribe, Watching
<1>2. Phases'
  BY DEF Inv, TypeOK, Phases
<1>3. LatestWatchesAll'
  BY DEF Inv, LatestWatchesAll, LatestWait, IsCandidate
<1> QED
  BY <1>1, <1>2, <1>3 DEF Inv

\* What a request does to the waits that watch it: it leaves some of them, and
\* settles those it was the last hope of.
LEMMA FinishKeeps ==
    ASSUME Inv, NEW r \in Call, NEW ws \in SUBSET Watchers(r), Finish(ws, r)
    PROVE  /\ subscribed' \in [Wait -> SUBSET Call]
           /\ answer' \in [Wait -> {"unasked", "waiting", "nothing", "found"}]
           /\ \A w \in Wait : answer'[w] = "waiting" =>
                  /\ answer[w] = "waiting"
                  /\ subscribed'[w] # {}
                  /\ subscribed'[w] = subscribed[w] \ (IF w \in ws THEN {r} ELSE {})
           /\ \A w \in Wait : answer'[w] # "waiting" => subscribed'[w] = {}
           /\ \A w \in Wait : answer[w] = "unasked" => answer'[w] = "unasked"
<1>1. \A w \in Wait : w \in ws => answer[w] = "waiting"
  BY DEF Inv, OnlyWaitsSubscribe, Watchers
<1>2. \A w \in Wait : subscribed[w] # {r} => (subscribed[w] \ {r} # {} \/ subscribed[w] = {})
  OBVIOUS
<1> QED
  BY <1>1, <1>2 DEF Inv, TypeOK, OnlyWaitsSubscribe, Watching, Finish

LEMMA UpdateKeepsInv ==
    ASSUME Inv, NEW r \in Call, NEW t \in Completion, Update(r, t)
    PROVE  Inv'
<1> DEFINE losers == Mismatched(r, t, FALSE)
           lost == IF \E w \in losers : CallerOf(w) = mostRecent THEN {r} ELSE {}
<1>1. /\ fetch[r] = "running" /\ r \in requests
      /\ text' = [text EXCEPT ![r] = t]
      /\ CancelAndDelete(lost, requests, Ordered(requests, r))
      /\ Finish(losers, r)
      /\ UNCHANGED <<mostRecent, prompt, fetch, pc>>
  BY DEF Update
<1>2. losers \in SUBSET Watchers(r)
  BY DEF Mismatched
<1>3. /\ subscribed' \in [Wait -> SUBSET Call]
      /\ answer' \in [Wait -> {"unasked", "waiting", "nothing", "found"}]
      /\ \A w \in Wait : answer'[w] = "waiting" =>
             /\ answer[w] = "waiting"
             /\ subscribed'[w] # {}
             /\ subscribed'[w] = subscribed[w] \ (IF w \in losers THEN {r} ELSE {})
      /\ \A w \in Wait : answer'[w] # "waiting" => subscribed'[w] = {}
      /\ \A w \in Wait : answer[w] = "unasked" => answer'[w] = "unasked"
  BY <1>1, <1>2, FinishKeeps
<1>4. requests' = requests \ lost /\ lost \subseteq {r}
  BY <1>1 DEF CancelAndDelete
<1>5. Ordered(requests, r) \in SUBSET (Call \X Call)
  BY OrderTyped DEF Inv, TypeOK
<1>6. TypeOK'
  BY <1>1, <1>3, <1>4, <1>5 DEF Inv, TypeOK, CancelAndDelete
<1>7. Listed'
  BY <1>1, <1>4 DEF Inv, Listed
<1>8. Phases'
  <2>1. \A c \in Call : fetch[c] = "none" => text'[c] = text[c]
    BY <1>1 DEF Inv, TypeOK
  <2>2. \A c \in Call : \A k \in {"first", "own"} :
            answer[<<c, k>>] = "unasked" => answer'[<<c, k>>] = "unasked"
    BY <1>3 DEF Wait
  <2> QED
    BY <1>1, <2>1, <2>2 DEF Inv, Phases
<1>9. OnlyWaitsSubscribe' /\ Watching'
  BY <1>1, <1>3 DEF Inv, OnlyWaitsSubscribe, Watching
<1>10. LatestWatchesAll'
  <2> SUFFICES ASSUME mostRecent # None, answer'[LatestWait(mostRecent)] = "waiting",
                      NEW q \in requests' \ Speculative, fetch[q] = "running"
               PROVE  /\ q \in subscribed'[LatestWait(mostRecent)]
                      /\ Matches(prompt[mostRecent], prompt[q], text'[q], FALSE)
    BY <1>1 DEF LatestWatchesAll, LatestWait, IsCandidate
  <2>1. mostRecent \in Call /\ LatestWait(mostRecent) \in Wait
        /\ CallerOf(LatestWait(mostRecent)) = mostRecent
    BY WaitsAre DEF Inv, TypeOK
  <2>2. q \in subscribed[LatestWait(mostRecent)] /\ IsCandidate(prompt[mostRecent], q)
    BY <1>3, <1>4, <2>1 DEF Inv, LatestWatchesAll
  <2>3. CASE q = r
    <3>1. LatestWait(mostRecent) \notin losers
      BY <1>4, <2>1, <2>3
    <3>2. Matches(prompt[mostRecent], prompt[r], t, FALSE)
      BY <2>1, <2>2, <2>3, <3>1 DEF Mismatched, Watchers
    <3> QED
      BY <1>1, <1>3, <2>1, <2>2, <2>3, <3>1, <3>2 DEF Inv, TypeOK
  <2>4. CASE q # r
    <3>1. text'[q] = text[q]
      BY <1>1, <2>4 DEF Inv, TypeOK
    <3> QED
      BY <1>3, <2>1, <2>2, <2>4, <3>1 DEF IsCandidate
  <2> QED
    BY <2>3, <2>4
<1> QED
  BY <1>6, <1>7, <1>8, <1>9, <1>10 DEF Inv

LEMMA UpdateKeepsCandidates ==
    ASSUME Inv, NEW r \in Call, NEW t \in Completion, Update(r, t),
           NEW q \in cancelled' \ cancelled
    PROVE  ~Matches(prompt'[mostRecent'], prompt'[q], text'[q], FALSE)
<1>1. q = r /\ \E w \in Mismatched(r, t, FALSE) : CallerOf(w) = mostRecent
  BY DEF Update, CancelAndDelete
<1>2. ~Matches(prompt[mostRecent], prompt[r], t, FALSE)
  BY <1>1 DEF Mismatched
<1> QED
  BY <1>1, <1>2 DEF Update, Inv, TypeOK

\* A request settles: it is in flight no more, nobody watches it, and a wait
\* that still waits watched something else too.
LEMMA SettlingKeepsInv ==
    ASSUME Inv, NEW r \in Call, fetch[r] = "running",
           NEW result \in {"succeeded", "failed"}, NEW t \in Completion \cup {None},
           fetch' = [fetch EXCEPT ![r] = result],
           text' = [text EXCEPT ![r] = t],
           requests' \subseteq requests \cup {r},
           result = "failed" => r \notin requests',
           older' \in SUBSET (Call \X Call),
           subscribed' \in [Wait -> SUBSET Call],
           answer' \in [Wait -> {"unasked", "waiting", "nothing", "found"}],
           \A w \in Wait : answer'[w] = "waiting" =>
               /\ answer[w] = "waiting"
               /\ subscribed'[w] # {}
               /\ subscribed'[w] = subscribed[w] \ {r},
           \A w \in Wait : answer'[w] # "waiting" => subscribed'[w] = {},
           \A w \in Wait : answer[w] = "unasked" => answer'[w] = "unasked",
           UNCHANGED <<cancelled, mostRecent, prompt, pc>>
    PROVE  Inv'
<1>1. TypeOK'
  BY DEF Inv, TypeOK
<1>2. Listed'
  BY DEF Inv, TypeOK, Listed
<1>3. Phases'
  <2>1. \A c \in Call : \A k \in {"first", "own"} :
            answer[<<c, k>>] = "unasked" => answer'[<<c, k>>] = "unasked"
    BY DEF Wait
  <2>2. \A c \in Call :
            /\ fetch[c] = "none" => fetch'[c] = "none"
            /\ fetch'[c] = "none" => fetch[c] = "none" /\ text'[c] = text[c]
    BY DEF Inv, TypeOK
  <2>3. pc' = pc /\ prompt' = prompt
    OBVIOUS
  <2> SUFFICES ASSUME NEW c \in Call
               PROVE  /\ pc[c] \in {"idle", "waiting"} =>
                            fetch'[c] = "none" /\ answer'[<<c, "own">>] = "unasked"
                      /\ pc[c] = "idle" => answer'[<<c, "first">>] = "unasked"
                      /\ pc[c] # "idle" => prompt[c] \in Prompt
                      /\ fetch'[c] = "none" => text'[c] = None
    BY <2>3 DEF Phases
  <2> QED
    BY <2>1, <2>2 DEF Inv, Phases
<1>4. OnlyWaitsSubscribe'
  BY DEF OnlyWaitsSubscribe
<1>5. Watching'
  <2> SUFFICES ASSUME NEW w \in Wait, answer'[w] = "waiting", NEW q \in subscribed'[w]
               PROVE  fetch'[q] = "running"
    BY DEF Watching
  <2>1. q \in subscribed[w] /\ q # r /\ fetch[q] = "running"
    BY DEF Inv, Watching
  <2> QED
    BY <2>1 DEF Inv, TypeOK
<1>6. LatestWatchesAll'
  <2> SUFFICES ASSUME mostRecent # None, answer'[LatestWait(mostRecent)'] = "waiting",
                      NEW q \in requests' \ Speculative, fetch'[q] = "running"
               PROVE  /\ q \in subscribed'[LatestWait(mostRecent)']
                      /\ IsCandidate(prompt[mostRecent], q)'
    BY DEF LatestWatchesAll
  <2>1. mostRecent \in Call /\ LatestWait(mostRecent)' = LatestWait(mostRecent)
        /\ LatestWait(mostRecent) \in Wait
    BY WaitsAre DEF Inv, TypeOK, LatestWait
  <2>2. q # r /\ q \in requests /\ q \in Call
    BY DEF Inv, TypeOK
  <2>3. fetch[q] = fetch'[q] /\ text'[q] = text[q] /\ prompt'[q] = prompt[q]
    BY <2>2 DEF Inv, TypeOK
  <2>4. q \in subscribed[LatestWait(mostRecent)] /\ IsCandidate(prompt[mostRecent], q)
    BY <2>1, <2>2, <2>3 DEF Inv, LatestWatchesAll
  <2> QED
    BY <2>1, <2>2, <2>3, <2>4 DEF IsCandidate
<1> QED
  BY <1>1, <1>2, <1>3, <1>4, <1>5, <1>6 DEF Inv

LEMMA SuccessKeepsInv ==
    ASSUME Inv, NEW r \in Call, NEW t \in Completion, FetchSucceeds(r, t)
    PROVE  Inv'
<1> DEFINE keys == MakeRoom(r) \cup {r}
           winners == Watchers(r) \ Mismatched(r, t, TRUE)
<1>1. /\ fetch[r] = "running"
      /\ fetch' = [fetch EXCEPT ![r] = "succeeded"]
      /\ text' = [text EXCEPT ![r] = t]
      /\ requests' = keys
      /\ older' = Ordered(keys, r)
      /\ subscribed' = [w \in Wait |-> IF w \in winners THEN {} ELSE subscribed[w] \ {r}]
      /\ answer' = [w \in Wait |-> IF w \in winners THEN "found"
                                   ELSE IF subscribed[w] = {r} THEN "nothing" ELSE answer[w]]
      /\ UNCHANGED <<cancelled, mostRecent, prompt, pc>>
  BY DEF FetchSucceeds
<1>2. keys \subseteq requests \cup {r} /\ keys \in SUBSET Call
  BY RoomIsLess DEF Inv, TypeOK
<1>3. older' \in SUBSET (Call \X Call)
  BY <1>1, <1>2, OrderTyped DEF Inv
<1>4. \A w \in winners : w \in Wait /\ answer[w] = "waiting"
  BY DEF Inv, OnlyWaitsSubscribe, Watchers
<1>5. \A w \in Wait : subscribed[w] = {r} => answer[w] = "waiting"
  BY DEF Inv, OnlyWaitsSubscribe
<1> HIDE DEF keys, winners
<1>6. /\ subscribed' \in [Wait -> SUBSET Call]
      /\ answer' \in [Wait -> {"unasked", "waiting", "nothing", "found"}]
  BY <1>1 DEF Inv, TypeOK
<1>7. \A w \in Wait : answer'[w] = "waiting" =>
          /\ answer[w] = "waiting"
          /\ subscribed'[w] # {}
          /\ subscribed'[w] = subscribed[w] \ {r}
  BY <1>1 DEF Inv, Watching
<1>8. \A w \in Wait : answer'[w] # "waiting" => subscribed'[w] = {}
  BY <1>1, <1>5 DEF Inv, OnlyWaitsSubscribe
<1>9. \A w \in Wait : answer[w] = "unasked" => answer'[w] = "unasked"
  BY <1>1, <1>4, <1>5
<1> QED
  BY <1>1, <1>2, <1>3, <1>6, <1>7, <1>8, <1>9, SettlingKeepsInv

LEMMA FailureKeepsInv ==
    ASSUME Inv, NEW r \in Call, FetchFails(r)
    PROVE  Inv'
<1>1. /\ fetch[r] = "running"
      /\ fetch' = [fetch EXCEPT ![r] = "failed"]
      /\ text' = [text EXCEPT ![r] = None]
      /\ requests' = requests \ {r}
      /\ older' \in SUBSET (Call \X Call)
      /\ Finish(Watchers(r), r)
      /\ UNCHANGED <<cancelled, mostRecent, prompt, pc>>
  BY DEF FetchFails, Inv, TypeOK
<1>2. \A w \in Wait : w \notin Watchers(r) => subscribed[w] \ {r} = subscribed[w]
  BY DEF Watchers
<1>3. /\ subscribed' \in [Wait -> SUBSET Call]
      /\ answer' \in [Wait -> {"unasked", "waiting", "nothing", "found"}]
      /\ \A w \in Wait : answer'[w] = "waiting" =>
             /\ answer[w] = "waiting"
             /\ subscribed'[w] # {}
             /\ subscribed'[w] = subscribed[w] \ {r}
      /\ \A w \in Wait : answer'[w] # "waiting" => subscribed'[w] = {}
      /\ \A w \in Wait : answer[w] = "unasked" => answer'[w] = "unasked"
  BY <1>1, <1>2, FinishKeeps
<1> QED
  BY <1>1, <1>3, SettlingKeepsInv

LEMMA ClearKeepsInv ==
    ASSUME Inv, Clear
    PROVE  Inv'
<1> USE DEF waitVars
<1>1. TypeOK' /\ Listed' /\ Phases' /\ OnlyWaitsSubscribe' /\ Watching'
  BY DEF Inv, Clear, TypeOK, Listed, Phases, OnlyWaitsSubscribe, Watching
<1>2. LatestWatchesAll'
  BY DEF Clear, LatestWatchesAll
<1> QED
  BY <1>1, <1>2 DEF Inv

-----------------------------------------------------------------------------
(* The theorems.                                                           *)

\* A step of a call asks for something, or returns.
LEMMA CallSteps ==
    ASSUME NEW c \in Call, CallStep(c)
    PROVE  \/ Asking(c)
           \/ /\ pc[c] \in {"waiting", "own"}
              /\ pc' = [pc EXCEPT ![c] = "done"]
              /\ UNCHANGED <<mapVars, mostRecent, prompt, text, fetch, waitVars>>
BY DEF CallStep, Asking, FirstReturns, FirstTimesOut, OwnReturns, GoOn

LEMMA Initially == Init => Inv
<1> SUFFICES ASSUME Init PROVE Inv
  OBVIOUS
<1>1. TypeOK
  BY DEF Init, TypeOK
<1>2. Listed /\ OnlyWaitsSubscribe /\ Watching /\ LatestWatchesAll
  BY CallAssumption DEF Init, Listed, OnlyWaitsSubscribe, Watching, LatestWatchesAll
<1>3. Phases
  BY WaitsAre DEF Init, Phases
<1> QED
  BY <1>1, <1>2, <1>3 DEF Inv

LEMMA Inductive == Inv /\ [Next]_vars => Inv'
<1> SUFFICES ASSUME Inv, [Next]_vars PROVE Inv'
  OBVIOUS
<1>1. ASSUME NEW c \in Call, CallStep(c) PROVE Inv'
  <2>1. CASE Asking(c)
    BY <2>1, AskingAsks, AskKeepsInv
  <2>2. CASE /\ pc[c] \in {"waiting", "own"}
             /\ pc' = [pc EXCEPT ![c] = "done"]
             /\ UNCHANGED <<mapVars, mostRecent, prompt, text, fetch, waitVars>>
    BY <2>2, ReturnKeepsInv
  <2> QED
    BY <1>1, <2>1, <2>2, CallSteps
<1>2. ASSUME NEW r \in Call, RequestStep(r) PROVE Inv'
  BY <1>2, UpdateKeepsInv, SuccessKeepsInv, FailureKeepsInv DEF RequestStep, FetchSettles
<1>3. CASE Clear
  BY <1>3, ClearKeepsInv
<1>4. CASE UNCHANGED vars
  <2> USE <1>4 DEF vars, mapVars, waitVars
  <2>1. TypeOK' /\ Listed' /\ Phases' /\ OnlyWaitsSubscribe' /\ Watching'
    BY DEF Inv, TypeOK, Listed, Phases, OnlyWaitsSubscribe, Watching
  <2>2. LatestWatchesAll'
    BY DEF Inv, LatestWatchesAll, LatestWait, IsCandidate
  <2> QED
    BY <2>1, <2>2 DEF Inv
<1> QED
  BY <1>1, <1>2, <1>3, <1>4 DEF Next

LEMMA Invariant == Spec => []Inv
BY Initially, Inductive, PTL DEF Spec

\* Every reachable state of the manager and its callers is well typed.
THEOREM TypeCorrect == Spec => []TypeOK
<1>1. Inv => TypeOK
  BY DEF Inv
<1> QED
  BY <1>1, Invariant, PTL

\* No wait is left with nothing to wait for: what it is subscribed to is in
\* flight, though updates, cancellations, evictions and failures take requests
\* from it, from the map and from each other.
THEOREM WaitsWatch == Spec => []Watching
<1>1. Inv => Watching
  BY DEF Inv
<1> QED
  BY <1>1, Invariant, PTL

\* Nothing the most recent call has no use for goes on in the map while it
\* waits.
THEOREM CandidatesRun == Spec => []OnlyCandidatesRun
<1>1. Inv => OnlyCandidatesRun
  BY DEF Inv, LatestWatchesAll, OnlyCandidatesRun
<1> QED
  BY <1>1, Invariant, PTL

\* Nothing the most recent call could still use is cancelled.
THEOREM CandidatesKept == Spec => CandidatesAreKept
<1> DEFINE Kept == \A r \in cancelled' \ cancelled :
                       ~Matches(prompt'[mostRecent'], prompt'[r], text'[r], FALSE)
<1>1. Inv /\ [Next]_vars => [Kept]_vars
  <2> SUFFICES ASSUME Inv, Next PROVE Kept
    BY DEF vars
  <2>1. ASSUME NEW c \in Call, CallStep(c) PROVE Kept
    <3>1. CASE Asking(c)
      BY <3>1, AskingAsks, AskKeepsCandidates
    <3>2. CASE UNCHANGED mapVars
      BY <3>2 DEF mapVars
    <3> QED
      BY <2>1, <3>1, <3>2, CallSteps
  <2>2. ASSUME NEW r \in Call, NEW t \in Completion, Update(r, t) PROVE Kept
    BY <2>2, UpdateKeepsCandidates
  <2>3. ASSUME NEW r \in Call, FetchSettles(r) PROVE Kept
    BY <2>3 DEF FetchSettles, FetchSucceeds, FetchFails
  <2>4. CASE Clear
    BY <2>4 DEF Clear
  <2> QED
    BY <2>1, <2>2, <2>3, <2>4 DEF Next, RequestStep
<1>2. Spec => [][Kept]_vars
  BY <1>1, Invariant, PTL DEF Spec
<1> QED
  BY <1>2 DEF CandidatesAreKept
=============================================================================
