----------------------- MODULE AsyncCompletionManager -----------------------
(***************************************************************************)
(* AsyncCompletionManager (asyncCompletions.ts) with the callers it has in *)
(* getGhostText (ghostText.ts): calls for a completion at some prompt wait *)
(* for a request in flight that may still produce it, or queue one of      *)
(* their own; what streams in decides who goes on waiting and which        *)
(* requests are cancelled.                                                 *)
(*                                                                         *)
(* Prompts and completions are short sequences, because all decisions are  *)
(* about one being a prefix of the other.  A call queues at most one       *)
(* request, so a request has the name of its call (ourRequestId).  A call  *)
(* waits at most twice: for the first match with a timeout, and for its    *)
(* own request.  Which of several completions it is given is not told      *)
(* apart.  What follows a settled wait are microtasks: events, the actions *)
(* with Quiet in their guards, come after them.                            *)
(***************************************************************************)
EXTENDS Integers, Sequences, SequencesExt

CONSTANTS
    Call,         \* calls of getGhostText that find nothing in the caches
    Speculative,  \* those with isSpeculative
    Character,    \* what texts are made of
    Blank,        \* the characters trimEnd() removes
    Prompt,       \* records of a prefix and a suffix
    Completion,   \* what the model can stream and return
    MaxRequests,  \* the capacity of the map, 100 in the code
    None          \* no call, no text

Wait == Call \X {"first", "own"}

ASSUME CallAssumption ==
    IsFiniteSet(Call) /\ Speculative \subseteq Call /\ None \notin Call

ASSUME TextAssumption ==
    /\ Blank \subseteq Character
    /\ \A p \in Prompt : p.prefix \in Seq(Character)
    /\ Completion \subseteq Seq(Character) /\ None \notin Completion

ASSUME BoundAssumption == MaxRequests \in Nat \ {0}

VARIABLES
    requests,     \* the keys of the map
    older,        \* its order: <<q, r>> if q comes before r
    mostRecent,   \* mostRecentRequestId
    prompt,       \* the prompt of every call
    text,         \* partialCompletionText, and then the text of the choice
    fetch,        \* "none", "running", "succeeded" or "failed"
    cancelled,    \* the requests whose token source is cancelled
    subscribed,   \* the requests every wait is subscribed to
    answer,       \* "unasked", "waiting", "nothing" or "found"
    pc            \* "idle", "waiting", "own" or "done"

mapVars == <<requests, older, cancelled>>
waitVars == <<subscribed, answer>>
vars == <<mapVars, mostRecent, prompt, text, fetch, waitVars, pc>>

TypeOK ==
    /\ requests \in SUBSET Call
    /\ older \in SUBSET (Call \X Call)
    /\ mostRecent \in Call \cup {None}
    /\ prompt \in [Call -> Prompt \cup {None}]
    /\ text \in [Call -> Completion \cup {None}]
    /\ fetch \in [Call -> {"none", "running", "succeeded", "failed"}]
    /\ cancelled \in SUBSET Call
    /\ subscribed \in [Wait -> SUBSET Call]
    /\ answer \in [Wait -> {"unasked", "waiting", "nothing", "found"}]
    /\ pc \in [Call -> {"idle", "waiting", "own", "done"}]

Init ==
    /\ requests = {}
    /\ older = {}
    /\ mostRecent = None
    /\ prompt = [c \in Call |-> None]
    /\ text = [c \in Call |-> None]
    /\ fetch = [c \in Call |-> "none"]
    /\ cancelled = {}
    /\ subscribed = [w \in Wait |-> {}]
    /\ answer = [w \in Wait |-> "unasked"]
    /\ pc = [c \in Call |-> "idle"]

CallerOf(w) == w[1]

-----------------------------------------------------------------------------
(* isCandidate: whether the completion of a request made at prompt q, of   *)
(* which t is known, can be what is to be inserted at prompt p.            *)

TrimmedLen(t) ==
    CHOOSE n \in 0 .. Len(t) :
        /\ n > 0 => t[n] \notin Blank
        /\ \A i \in n + 1 .. Len(t) : t[i] \in Blank

Remaining(p, q) == SubSeq(p.prefix, Len(q.prefix) + 1, Len(p.prefix))

Matches(p, q, t, completed) ==
    /\ p.suffix = q.suffix
    /\ IsPrefix(q.prefix, p.prefix)
    /\ t # None => IsPrefix(Remaining(p, q), t)
    /\ completed => TrimmedLen(t) > Len(Remaining(p, q))

IsCandidate(p, r) == Matches(p, prompt[r], text[r], fetch[r] = "succeeded")

-----------------------------------------------------------------------------
(* The LRUCacheMap.                                                        *)

Oldest(rs) == CHOOSE r \in rs : \A q \in rs : <<q, r>> \notin older

\* The keys that are left when r is about to be set.
MakeRoom(r) ==
    IF r \notin requests /\ Cardinality(requests) >= MaxRequests
    THEN requests \ {Oldest(requests)}
    ELSE requests

\* The order of the keys once r was set or read.
Ordered(keys, r) ==
    {p \in older : {p[1], p[2]} \subseteq keys \ {r}} \cup ((keys \ {r}) \X {r})

\* cancelRequest on several requests.
CancelAndDelete(rs, keys, order) ==
    /\ cancelled' = cancelled \cup rs
    /\ requests' = keys \ rs
    /\ older' = {p \in order : {p[1], p[2]} \cap rs = {}}

-----------------------------------------------------------------------------
(* Waiting.  A wait that settles ends all its subscriptions: the finally   *)
(* block is a microtask, before which nothing else happens.                *)

\* finishRequest by each of the waits ws: the last subscription that ends
\* settles a wait which found nothing.
Finish(ws, r) ==
    /\ subscribed' = [w \in Wait |-> subscribed[w] \ (IF w \in ws THEN {r} ELSE {})]
    /\ answer' = [w \in Wait |->
           IF w \in ws /\ subscribed[w] = {r}
           THEN "nothing" ELSE answer[w]]

\* Broken variant: the caller becomes the most recent one after the others were
\* looked at, none of which is cancelled.
GetFirstMatchingLate(w, keys, order, p) ==
    LET c == CallerOf(w)
        found == {r \in keys : r = c \/ IsCandidate(p, r)}
        ready == {r \in found : fetch[r] = "succeeded"}
    IN  /\ mostRecent' = IF c \in Speculative THEN mostRecent ELSE c
        /\ subscribed' = [subscribed EXCEPT ![w] = IF ready = {} THEN found ELSE {}]
        /\ answer' = [answer EXCEPT ![w] = IF ready = {} THEN "waiting" ELSE "found"]
        /\ CancelAndDelete({}, keys, order)

\* getFirstMatchingRequest at prompt p: subscribes to every candidate among the
\* keys, the caller's own request among them if it has just been queued; is
\* answered at once by a candidate that has completed; and cancels what is left
\* when the caller is the most recent one.
GetFirstMatching(w, keys, order, p) ==
    LET c == CallerOf(w)
        found == {r \in keys : r = c \/ IsCandidate(p, r)}
        ready == {r \in found : fetch[r] = "succeeded"}
        lost == {r \in keys \ found : fetch[r] # "succeeded" /\ c \notin Speculative}
    IN  /\ mostRecent' = IF c \in Speculative THEN mostRecent ELSE c
        /\ subscribed' = [subscribed EXCEPT ![w] = IF ready = {} THEN found ELSE {}]
        /\ answer' = [answer EXCEPT ![w] = IF ready = {} THEN "waiting" ELSE "found"]
        /\ CancelAndDelete(lost, keys, order)

Settled(w) == answer[w] \in {"nothing", "found"}

\* No caller has yet to go on from a wait that settled.
Quiet ==
    \A c \in Call :
        /\ pc[c] = "waiting" => ~Settled(<<c, "first">>)
        /\ pc[c] = "own" => ~Settled(<<c, "own">>)

-----------------------------------------------------------------------------
(* The calls of getGhostText.                                              *)

\* The network request is made, queued and waited for without an await.
Queue(c, p) ==
    LET keys == MakeRoom(c) \cup {c}
    IN  /\ pc' = [pc EXCEPT ![c] = "own"]
        /\ fetch' = [fetch EXCEPT ![c] = "running"]
        /\ GetFirstMatching(<<c, "own">>, keys, Ordered(keys, c), p)
        /\ UNCHANGED text

ShouldWait(p) == \E r \in requests : IsCandidate(p, r)

WaitFirst(c, p) ==
    /\ Quiet
    /\ pc[c] = "idle"
    /\ ShouldWait(p)
    /\ pc' = [pc EXCEPT ![c] = "waiting"]
    /\ prompt' = [prompt EXCEPT ![c] = p]
    /\ GetFirstMatching(<<c, "first">>, requests, older, p)
    /\ UNCHANGED <<text, fetch>>

QueueAtOnce(c, p) ==
    /\ Quiet
    /\ pc[c] = "idle"
    /\ ~ShouldWait(p)
    /\ prompt' = [prompt EXCEPT ![c] = p]
    /\ Queue(c, p)

\* The first wait brought nothing: the call goes on unless its token was
\* cancelled or another call has begun.
GoOn(c) ==
    \/ Queue(c, prompt[c]) /\ UNCHANGED prompt
    \/ /\ pc' = [pc EXCEPT ![c] = "done"]
       /\ UNCHANGED <<mapVars, mostRecent, prompt, text, fetch, waitVars>>

FirstReturns(c) ==
    /\ pc[c] = "waiting"
    /\ Settled(<<c, "first">>)
    /\ \/ answer[<<c, "first">>] = "nothing" /\ GoOn(c)
       \/ /\ answer[<<c, "first">>] = "found"
          /\ pc' = [pc EXCEPT ![c] = "done"]
          /\ UNCHANGED <<mapVars, mostRecent, prompt, text, fetch, waitVars>>

\* The subscriptions of a wait that timed out stay, and so does its say in
\* what is cancelled.
FirstTimesOut(c) ==
    /\ Quiet
    /\ pc[c] = "waiting"
    /\ answer[<<c, "first">>] = "waiting"
    /\ GoOn(c)

OwnReturns(c) ==
    /\ pc[c] = "own"
    /\ Settled(<<c, "own">>)
    /\ pc' = [pc EXCEPT ![c] = "done"]
    /\ UNCHANGED <<mapVars, mostRecent, prompt, text, fetch, waitVars>>

-----------------------------------------------------------------------------
(* The requests.                                                           *)

Watchers(r) == {w \in Wait : r \in subscribed[w]}

Mismatched(r, t, completed) ==
    {w \in Watchers(r) : ~Matches(prompt[CallerOf(w)], prompt[r], t, completed)}

\* Broken variant: every wait the part does not fit cancels the request.
UpdateByAnyone(r, t) ==
    LET losers == Mismatched(r, t, FALSE)
        lost == IF losers # {} THEN {r} ELSE {}
    IN  /\ Quiet
        /\ fetch[r] = "running"
        /\ r \in requests
        /\ text[r] # None => IsStrictPrefix(text[r], t)
        /\ text' = [text EXCEPT ![r] = t]
        /\ CancelAndDelete(lost, requests, Ordered(requests, r))
        /\ Finish(losers, r)
        /\ UNCHANGED <<mostRecent, prompt, fetch, pc>>

\* updateCompletion: a longer part has streamed in.  A wait it does not fit
\* leaves, and cancels the request if its caller is the most recent one.
Update(r, t) ==
    LET losers == Mismatched(r, t, FALSE)
        lost == IF \E w \in losers : CallerOf(w) = mostRecent THEN {r} ELSE {}
    IN  /\ Quiet
        /\ fetch[r] = "running"
        /\ r \in requests
        /\ text[r] # None => IsStrictPrefix(text[r], t)
        /\ text' = [text EXCEPT ![r] = t]
        /\ CancelAndDelete(lost, requests, Ordered(requests, r))
        /\ Finish(losers, r)
        /\ UNCHANGED <<mostRecent, prompt, fetch, pc>>

\* The choice is what was streamed, less what post-processing cut off, or
\* more than what was reported.
FetchSucceeds(r, t) ==
    LET keys == MakeRoom(r) \cup {r}
        winners == Watchers(r) \ Mismatched(r, t, TRUE)
    IN  /\ Quiet
        /\ fetch[r] = "running"
        /\ text[r] # None => IsPrefix(text[r], t) \/ IsPrefix(t, text[r])
        /\ fetch' = [fetch EXCEPT ![r] = "succeeded"]
        /\ text' = [text EXCEPT ![r] = t]
        /\ requests' = keys
        /\ older' = Ordered(keys, r)
        /\ subscribed' = [w \in Wait |->
               IF w \in winners THEN {} ELSE subscribed[w] \ {r}]
        /\ answer' = [w \in Wait |->
               IF w \in winners THEN "found"
               ELSE IF subscribed[w] = {r} THEN "nothing" ELSE answer[w]]
        /\ UNCHANGED <<cancelled, mostRecent, prompt, pc>>

\* Broken variant: the subscribers are not told.
FetchFailsSilently(r) ==
    /\ Quiet
    /\ fetch[r] = "running"
    /\ fetch' = [fetch EXCEPT ![r] = "failed"]
    /\ text' = [text EXCEPT ![r] = None]
    /\ requests' = requests \ {r}
    /\ older' = {p \in older : r \notin {p[1], p[2]}}
    /\ UNCHANGED <<cancelled, waitVars, mostRecent, prompt, pc>>

\* Also what a cancelled request comes to, unless it was about to succeed.
\* What it had streamed is of no use to anybody.
FetchFails(r) ==
    /\ Quiet
    /\ fetch[r] = "running"
    /\ fetch' = [fetch EXCEPT ![r] = "failed"]
    /\ text' = [text EXCEPT ![r] = None]
    /\ requests' = requests \ {r}
    /\ older' = {p \in older : r \notin {p[1], p[2]}}
    /\ Finish(Watchers(r), r)
    /\ UNCHANGED <<cancelled, mostRecent, prompt, pc>>

\* The user selects another model.
Clear ==
    /\ Quiet
    /\ requests # {}
    /\ requests' = {}
    /\ older' = {}
    /\ UNCHANGED <<cancelled, waitVars, mostRecent, prompt, text, fetch, pc>>

-----------------------------------------------------------------------------
CallStep(c) ==
    \/ \E p \in Prompt : WaitFirst(c, p) \/ QueueAtOnce(c, p)
    \/ FirstReturns(c) \/ FirstTimesOut(c) \/ OwnReturns(c)

FetchSettles(r) == FetchFails(r) \/ \E t \in Completion : FetchSucceeds(r, t)

RequestStep(r) == FetchSettles(r) \/ \E t \in Completion : Update(r, t)

Next ==
    \/ \E c \in Call : CallStep(c)
    \/ \E r \in Call : RequestStep(r)
    \/ Clear

Spec == Init /\ [][Next]_vars

\* Continuations run, and every network request ends; nobody has to type, and
\* no timer has to fire.
FairSpec ==
    /\ Spec
    /\ \A c \in Call :
           WF_vars(FirstReturns(c)) /\ WF_vars(OwnReturns(c)) /\ WF_vars(FetchSettles(c))

-----------------------------------------------------------------------------
\* The wait that decides what the requests in flight are good for.
LatestWait(c) == <<c, IF fetch[c] = "none" THEN "first" ELSE "own">>

\* While the most recent call waits, every request in flight that the map
\* holds can still be what it waits for, requests of speculative calls aside:
\* "we only want to cancel requests that don't match the most recent request
\* prefix", and those all are.
OnlyCandidatesRun ==
    mostRecent # None /\ answer[LatestWait(mostRecent)] = "waiting" =>
        \A r \in requests \ Speculative :
            fetch[r] = "running" => IsCandidate(prompt[mostRecent], r)

\* A request is only cancelled while it does not match the most recent call,
\* whichever call found that out, in whatever order calls and updates came.
CandidatesAreKept ==
    [][\A r \in cancelled' \ cancelled :
           ~Matches(prompt'[mostRecent'], prompt'[r], text'[r], FALSE)]_vars

\* A wait that has not settled is subscribed to requests in flight, and to
\* nothing else, so the last of them that ends will settle it.
Watching ==
    \A w \in Wait : answer[w] = "waiting" =>
        subscribed[w] # {} /\ \A r \in subscribed[w] : fetch[r] = "running"

\* Every call that waits returns, whoever cancels, evicts or clears what it
\* waits for.
CallersAnswered == \A c \in Call : pc[c] \in {"waiting", "own"} ~> pc[c] = "done"
=============================================================================
