-------------------------- MODULE NextEditProvider --------------------------
(***************************************************************************)
(* NextEditProvider (nextEditProvider.ts): calls of getNextEdit from the   *)
(* moment their edit is not in the cache, the requests they make, join and *)
(* give up, and the speculative requests for the text a shown suggestion   *)
(* would leave behind.  The cache itself, delays, telemetry and the user's *)
(* edits that are composed into a request under way are left out: a rebase *)
(* of a stale result succeeds or fails.                                    *)
(*                                                                         *)
(* A call makes at most one request, and a suggestion that is shown        *)
(* triggers at most one: a request is named by the call and its kind.  A   *)
(* place is a document with its text: where a call was made, and what a    *)
(* request was made for.                                                   *)
(*                                                                         *)
(* The provider's stream is that of xtabProvider.ts, which catches its own *)
(* errors: it ends with a reason, and what throws is the processing of an  *)
(* edit.                                                                   *)
(***************************************************************************)
EXTENDS Naturals

CONSTANTS
    Config,    \* the configurations considered
    MaxCall,   \* calls of getNextEdit
    MayShow,   \* the calls whose suggestion may be shown, by configuration
    Document,  \* the open documents
    MaxText,   \* the last value a document can have
    None       \* no request, no place

Call == 1 .. MaxCall

Text == 0 .. MaxText

Request == Call \X {"fetch", "speculative"}

Place == Document \X Text

\* "async" is isAsyncCompletions, and "eager" isEagerBackupRequest with it.
ASSUME ConfigAssumption == Config \subseteq {"sync", "async", "eager"}

ASSUME BoundAssumption ==
    MaxCall \in Nat /\ MaxText \in Nat /\ MayShow \in [Config -> SUBSET Call]

ASSUME NoneAssumption == None \notin Request /\ None \notin Place

VARIABLES
    config,       \* the configuration, which stays
    text,         \* the value of every document
    pending,      \* _pendingStatelessNextEditRequest
    speculative,  \* the request of _speculativePendingRequest
    base,         \* the document and documentBeforeEdits of every request
    prompt,       \* its text of its prompt, which its edits are computed for
    first,        \* its firstEdit: "unset", "edit" or "none"
    cancelled,    \* the requests whose token source is cancelled
    stage,        \* "none", "preparing", "fetching", "ended" or "thrown"
    abandoned,    \* the backups to cancel once their promise resolves
    hook,         \* the hookup of every call on every request
    pc,           \* "idle", "own", "join", "rebase" or "done"
    at,           \* the place a call was made, or its suggestion is for
    waits,        \* the request a call awaits
    backup,       \* the backup request of a call
    token,        \* the calls under way whose token is cancelled
    life,         \* suggestions: "none", "suggested", "shown" or "over"
    lastShown     \* _lastShownSuggestionId

requestVars == <<base, prompt, first, cancelled>>
streamVars == <<stage, abandoned, hook>>
callVars == <<pc, at, waits, backup, token, life>>
vars == <<config, text, pending, speculative, requestVars, streamVars, callVars, lastShown>>

TypeOK ==
    /\ config \in Config
    /\ text \in [Document -> Text]
    /\ pending \in Request \cup {None}
    /\ speculative \in Request \cup {None}
    /\ base \in [Request -> Place \cup {None}]
    /\ prompt \in [Request -> Text \cup {None}]
    /\ first \in [Request -> {"unset", "edit", "none"}]
    /\ cancelled \in SUBSET Request
    /\ stage \in [Request -> {"none", "preparing", "fetching", "ended", "thrown"}]
    /\ abandoned \in SUBSET Request
    /\ hook \in [Request -> [Call -> {"none", "live", "removed", "timer"}]]
    /\ pc \in [Call -> {"idle", "own", "join", "rebase", "done"}]
    /\ at \in [Call -> Place \cup {None}]
    /\ waits \in [Call -> Request \cup {None}]
    /\ backup \in [Call -> Request \cup {None}]
    /\ token \in SUBSET Call
    /\ life \in [Call -> {"none", "suggested", "shown", "over"}]
    /\ lastShown \in Call \cup {None}

\* Which value a document starts with is a matter of naming; that two start
\* with the same one is not, and is the case that matters.
Init ==
    /\ config \in Config
    /\ text = [d \in Document |-> 0]
    /\ pending = None
    /\ speculative = None
    /\ base = [r \in Request |-> None]
    /\ prompt = [r \in Request |-> None]
    /\ first = [r \in Request |-> "unset"]
    /\ cancelled = {}
    /\ stage = [r \in Request |-> "none"]
    /\ abandoned = {}
    /\ hook = [r \in Request |-> [c \in Call |-> "none"]]
    /\ pc = [c \in Call |-> "idle"]
    /\ at = [c \in Call |-> None]
    /\ waits = [c \in Call |-> None]
    /\ backup = [c \in Call |-> None]
    /\ token = {}
    /\ life = [c \in Call |-> "none"]
    /\ lastShown = None

OwnerOf(r) == r[1]

IsFetch(r) == r[2] = "fetch"

Own(c) == <<c, "fetch">>

Here(d) == <<d, text[d]>>

Running(r) == stage[r] \in {"preparing", "fetching"}

\* The result of a fetch settles when its stream ends, the one of a
\* speculative request with its first edit.
Settled(r) == IF IsFetch(r) THEN ~Running(r) ELSE first[r] # "unset"

\* liveDependentants counts these calls.
Dependants(r) == {c \in Call : hook[r][c] = "live"}

-----------------------------------------------------------------------------
(* Hookups.                                                                *)

\* _hookupCancellation.
Join(hooks, r, c) == [hooks EXCEPT ![r][c] = "live"]

\* Disposing of the hookup a call has on a request.
Left(r, c) == [hook EXCEPT ![r][c] = "none"]

\* The requests only this call depends on.
Deserted(c) == {r \in Request : Dependants(r) = {c}}

\* The token of a call is cancelled, which matters as long as the call is under
\* way or a hookup listens.  A request nobody else depends on is cancelled at
\* once before its fetch, and a second later otherwise.
CancelToken(c) ==
    /\ \/ pc[c] \notin {"idle", "done"} /\ c \notin token
       \/ \E r \in Request : hook[r][c] = "live"
    /\ token' = IF pc[c] = "done" THEN token ELSE token \cup {c}
    /\ LET given == {r \in Deserted(c) : stage[r] = "preparing"} IN
       /\ cancelled' = cancelled \cup given
       /\ hook' = [r \in Request |->
                     IF hook[r][c] # "live" THEN hook[r]
                     ELSE [hook[r] EXCEPT ![c] =
                             IF r \in Deserted(c) \ given THEN "timer" ELSE "removed"]]
    /\ UNCHANGED <<config, text, pending, speculative, base, prompt, first, stage, abandoned,
                   pc, at, waits, backup, life, lastShown>>

\* A broken variant, used to check that the properties notice it: a timer that
\* does not look at the dependants again.
TimerUnchecked(r, c) ==
    /\ hook[r][c] = "timer"
    /\ hook' = [hook EXCEPT ![r][c] = "removed"]
    /\ cancelled' = cancelled \cup {r}
    /\ UNCHANGED <<config, text, pending, speculative, base, prompt, first, stage, abandoned,
                   callVars, lastShown>>

\* The second is over: the request may have got another dependant.
TimerFires(r, c) ==
    /\ hook[r][c] = "timer"
    /\ hook' = [hook EXCEPT ![r][c] = "removed"]
    /\ cancelled' = IF Dependants(r) = {} THEN cancelled \cup {r} ELSE cancelled
    /\ UNCHANGED <<config, text, pending, speculative, base, prompt, first, stage, abandoned,
                   callVars, lastShown>>

-----------------------------------------------------------------------------
(* Calls.                                                                  *)

Create(r, place, history) ==
    /\ base' = [base EXCEPT ![r] = place]
    /\ prompt' = [prompt EXCEPT ![r] = history]
    /\ stage' = [stage EXCEPT ![r] = "preparing"]
    /\ UNCHANGED first

\* _executeNewNextEditRequest of a call in a document, replacing a request
\* (or none) while the hookups are as given.  The request is for the text of
\* now, its prompt is made from the history the call started with.
Execute(c, d, history, replaced, hooks) ==
    LET mismatched == IF speculative # None /\ base[speculative] # Here(d)
                        THEN {speculative} ELSE {}
    IN  /\ Create(Own(c), Here(d), history)
        /\ cancelled' = cancelled \cup ({replaced} \ {None}) \cup mismatched
        /\ speculative' = IF mismatched = {} THEN speculative ELSE None
        /\ pending' = Own(c)
        /\ hook' = Join(hooks, Own(c), c)

\* _joinNextEditRequest, while the hookups are as given.
JoinRequest(c, r, hooks) ==
    /\ hook' = Join(hooks, r, c)
    /\ UNCHANGED <<pending, requestVars, stage>>

Await(c, where, r, b) ==
    /\ pc' = [pc EXCEPT ![c] = where]
    /\ waits' = [waits EXCEPT ![c] = r]
    /\ backup' = [backup EXCEPT ![c] = b]

\* A broken variant: any pending request will do.
PendingIsThere(place) == pending # None

\* The text of the pending request is compared, not its document.
PendingIsFor(place) == pending # None /\ base[pending][2] = place[2]

SpeculativeMatches(place) ==
    speculative # None /\ base[speculative] = place /\ speculative \notin cancelled

CallSpeculative(c, d) ==
    /\ SpeculativeMatches(Here(d))
    /\ speculative' = None
    /\ JoinRequest(c, speculative, hook)
    /\ Await(c, "join", speculative, None)

CallPending(c, d) ==
    /\ ~SpeculativeMatches(Here(d))
    /\ PendingIsFor(Here(d)) /\ pending \notin cancelled
    /\ JoinRequest(c, pending, hook)
    /\ Await(c, "join", pending, None)
    /\ UNCHANGED speculative

\* The pending request is stale.  With isEagerBackupRequest, a backup takes
\* its place without cancelling it.
CallStale(c, d) ==
    /\ ~SpeculativeMatches(Here(d))
    /\ pending # None /\ ~PendingIsFor(Here(d)) /\ pending \notin cancelled
    /\ \/ /\ config = "eager"
          /\ Execute(c, d, text[d], None, Join(hook, pending, c))
          /\ Await(c, "rebase", pending, Own(c))
       \/ /\ config = "async"
          /\ JoinRequest(c, pending, hook)
          /\ Await(c, "rebase", pending, None)
          /\ UNCHANGED speculative

CallNew(c, d) ==
    /\ ~SpeculativeMatches(Here(d))
    /\ \/ pending = None
       \/ pending \in cancelled
       \/ ~PendingIsFor(Here(d)) /\ config = "sync"
    /\ Execute(c, d, text[d], pending, hook)
    /\ Await(c, "own", Own(c), None)

\* fetchNextEdit, up to its first await.
GetNextEdit(c, d) ==
    /\ pc[c] = "idle"
    /\ c > 1 => pc[c - 1] # "idle"
    /\ at' = [at EXCEPT ![c] = Here(d)]
    /\ CallSpeculative(c, d) \/ CallPending(c, d) \/ CallStale(c, d) \/ CallNew(c, d)
    /\ UNCHANGED <<config, text, abandoned, token, life, lastShown>>

\* The end of _getNextEditCanThrow with an edit: one for a document that
\* changed since is dropped, and so is one for a call that was cancelled.
Offers(c) ==
    /\ first[waits[c]] = "edit" /\ stage[waits[c]] # "thrown"
    /\ base[waits[c]][1] = at[c][1] => Here(at[c][1]) = at[c]
    /\ c \notin token

\* A call returns, with a suggestion (which is only recorded if it may be
\* shown) or without.
Return(c, suggests) ==
    LET recorded == suggests /\ c \in MayShow[config] IN
    /\ pc' = [pc EXCEPT ![c] = "done"]
    /\ at' = [at EXCEPT ![c] = IF recorded THEN Here(base[waits[c]][1]) ELSE None]
    /\ life' = [life EXCEPT ![c] = IF recorded THEN "suggested" ELSE "none"]
    /\ waits' = [waits EXCEPT ![c] = None]
    /\ backup' = [backup EXCEPT ![c] = None]
    /\ token' = token \ {c}
    /\ UNCHANGED <<config, text, pending, speculative, lastShown>>

JoinDue(c) == pc[c] = "join" /\ Settled(waits[c])

\* A joined request has settled: the hookup is disposed of, and the first edit
\* returned.
JoinReturns(c) ==
    /\ JoinDue(c)
    /\ hook' = Left(waits[c], c)
    /\ Return(c, Offers(c))
    /\ UNCHANGED <<requestVars, stage, abandoned>>

OwnDue(c) == pc[c] = "own" /\ (first[waits[c]] # "unset" \/ stage[waits[c]] = "thrown")

\* A call returns with the first edit of its own request while the stream goes
\* on, and keeps its hookup.
OwnReturns(c) ==
    /\ OwnDue(c)
    /\ Return(c, Offers(c))
    /\ UNCHANGED <<requestVars, streamVars>>

\* cancelBackupRequest cancels once the promise of the backup has resolved.
GiveUp(b) == IF b # None /\ first[b] # "unset" THEN {b} ELSE {}

GiveUpLater(b) == IF b # None /\ first[b] = "unset" /\ stage[b] # "thrown" THEN {b} ELSE {}

RebaseDue(c) == pc[c] = "rebase" /\ Settled(waits[c])

\* A stale request has settled and its edit could be rebased, its error is
\* thrown, or the call was cancelled meanwhile.
RebaseReturns(c) ==
    /\ RebaseDue(c)
    /\ hook' = Left(waits[c], c)
    /\ \/ /\ stage[waits[c]] = "thrown"
          /\ Return(c, FALSE)
          /\ UNCHANGED <<cancelled, abandoned>>
       \/ /\ stage[waits[c]] # "thrown"
          /\ \/ first[waits[c]] = "edit" /\ Return(c, Offers(c))
             \/ c \in token /\ Return(c, FALSE)
          /\ cancelled' = cancelled \cup GiveUp(backup[c])
          /\ abandoned' = abandoned \cup GiveUpLater(backup[c])
    /\ UNCHANGED <<base, prompt, first, stage>>

\* The rebase failed: the call goes on with its backup, with a pending request
\* for the text it was made for, or with a new request for the text of now.
RebaseFails(c) ==
    /\ RebaseDue(c)
    /\ stage[waits[c]] # "thrown"
    /\ c \notin token
    /\ \/ /\ backup[c] # None
          /\ Await(c, "own", backup[c], None)
          /\ hook' = Left(waits[c], c)
          /\ UNCHANGED <<pending, speculative, requestVars, stage>>
       \/ /\ backup[c] = None
          /\ PendingIsFor(at[c]) /\ pending \notin cancelled
          /\ Await(c, "join", pending, None)
          /\ JoinRequest(c, pending, Left(waits[c], c))
          /\ UNCHANGED speculative
       \/ /\ backup[c] = None
          /\ ~PendingIsFor(at[c]) \/ pending \in cancelled
          /\ Await(c, "own", Own(c), None)
          /\ Execute(c, at[c][1], at[c][2], pending, Left(waits[c], c))
    /\ UNCHANGED <<config, text, abandoned, at, token, life, lastShown>>

-----------------------------------------------------------------------------
(* Requests.                                                               *)

\* The promise of a backup that was given up resolves.
PromiseResolves(r) ==
    /\ cancelled' = cancelled \cup (abandoned \cap {r})
    /\ abandoned' = abandoned \ {r}

FetchIssued(r) ==
    /\ stage[r] = "preparing"
    /\ r \notin cancelled
    /\ stage' = [stage EXCEPT ![r] = "fetching"]
    /\ UNCHANGED <<config, text, pending, speculative, requestVars, abandoned, hook,
                   callVars, lastShown>>

\* The first edit of the stream.  One that cannot be rebased is an error for
\* a fetch, and skipped by a speculative request.
FirstEdit(r) ==
    /\ stage[r] = "fetching" /\ first[r] = "unset"
    /\ \/ first' = [first EXCEPT ![r] = "edit"]
       \/ IsFetch(r) /\ first' = [first EXCEPT ![r] = "none"]
    /\ PromiseResolves(r)
    /\ UNCHANGED <<config, text, pending, speculative, base, prompt, stage, hook,
                   callVars, lastShown>>

\* A broken variant: a stream that ends without edits leaves firstEdit unset.
EndLeavingFirstEdit(r) ==
    /\ Running(r)
    /\ stage' = [stage EXCEPT ![r] = "ended"]
    /\ abandoned' = abandoned \ {r}
    /\ UNCHANGED <<config, text, pending, speculative, requestVars, hook, callVars,
                   lastShown>>

\* The stream ends: handleStreamEnd of a fetch settles it, disposes of the
\* hookup of its call, and removes it from the pending field.
StreamEnds(r) ==
    /\ Running(r)
    /\ stage' = [stage EXCEPT ![r] = "ended"]
    /\ first' = [first EXCEPT ![r] = IF @ = "unset" THEN "none" ELSE @]
    /\ PromiseResolves(r)
    /\ IF IsFetch(r)
         THEN /\ hook' = Left(r, OwnerOf(r))
              /\ pending' = IF pending = r THEN None ELSE pending
         ELSE UNCHANGED <<hook, pending>>
    /\ UNCHANGED <<config, text, speculative, base, prompt, callVars, lastShown>>

\* Processing the first edit of a fetch throws: the error is its result, and
\* nothing else is cleaned up.
FirstEditThrows(r) ==
    /\ IsFetch(r)
    /\ stage[r] = "fetching" /\ first[r] = "unset"
    /\ stage' = [stage EXCEPT ![r] = "thrown"]
    /\ abandoned' = abandoned \ {r}
    /\ UNCHANGED <<config, text, pending, speculative, requestVars, hook, callVars,
                   lastShown>>

-----------------------------------------------------------------------------
(* Documents and suggestions.                                              *)

\* A document changes; _cancelPendingRequestDueToDocChange.
DocumentChanges(d, value) ==
    /\ text[d] # value
    /\ text' = [text EXCEPT ![d] = value]
    /\ cancelled' = IF config = "sync" /\ pending # None /\ base[pending][1] = d
                                       /\ prompt[pending] # value
                      THEN cancelled \cup {pending} ELSE cancelled
    /\ UNCHANGED <<config, pending, speculative, base, prompt, first, streamVars, callVars,
                   lastShown>>

\* A broken variant: the request is forgotten, and goes on.
ForgetSpeculative ==
    /\ speculative' = None
    /\ UNCHANGED cancelled

\* _cancelSpeculativeRequest.
CancelSpeculative ==
    /\ speculative' = None
    /\ cancelled' = cancelled \cup ({speculative} \ {None})

\* The text of the document is no longer the one the call was made at, or its
\* suggestion is for.
Outdated(c) == at[c] # None /\ Here(at[c][1]) # at[c]

\* handleShown and _triggerSpeculativeRequest for the text the suggestion
\* would leave behind, which is not done for one whose next edit is in the
\* cache.  The prompt applies the edit to the document as it is now: to another
\* text than the suggestion's, that gives any text, or throws.  The previous
\* speculative request is cancelled also when no new one can be made.  The one
\* await is for a function that awaits nothing.
HandleShown(c, value) ==
    LET place == <<at[c][1], value>> IN
    /\ life[c] = "suggested"
    /\ value # at[c][2]
    /\ life' = [life EXCEPT ![c] = "shown"]
    /\ lastShown' = c
    /\ \/ UNCHANGED <<speculative, requestVars, stage>>
       \/ /\ ~PendingIsFor(place)
          /\ speculative # None => base[speculative] # place
          /\ cancelled' = cancelled \cup ({speculative} \ {None})
          /\ \/ /\ \E after \in Text :
                     /\ Outdated(c) \/ after = value
                     /\ Create(<<c, "speculative">>, place, after)
                /\ speculative' = <<c, "speculative">>
             \/ /\ speculative' = None
                /\ UNCHANGED <<base, prompt, first, stage>>
    /\ UNCHANGED <<config, text, pending, abandoned, hook, pc, at, waits, backup, token>>

\* The end of life of a suggestion that was shown: accepted, rejected, which
\* cancels the speculative request, or ignored, which does so when it was shown
\* last and not superseded.
HandleEndOfLife(c) ==
    /\ life[c] = "shown"
    /\ life' = [life EXCEPT ![c] = "over"]
    /\ at' = [at EXCEPT ![c] = None]
    /\ \E reason \in {"accepted", "rejected", "ignored", "superseded"} :
         IF reason = "rejected" \/ (reason = "ignored" /\ lastShown = c)
           THEN CancelSpeculative
           ELSE UNCHANGED <<speculative, cancelled>>
    /\ UNCHANGED <<config, text, pending, base, prompt, first, streamVars, pc, waits, backup,
                   token, lastShown>>

-----------------------------------------------------------------------------
CallStep(c) == JoinReturns(c) \/ OwnReturns(c) \/ RebaseReturns(c) \/ RebaseFails(c)

Stream(r) == FetchIssued(r) \/ FirstEdit(r) \/ StreamEnds(r) \/ FirstEditThrows(r)

Event ==
    \/ \E c \in Call, d \in Document : GetNextEdit(c, d)
    \/ \E c \in Call : CancelToken(c) \/ HandleEndOfLife(c)
    \/ \E r \in Request, c \in Call : TimerFires(r, c)
    \/ \E d \in Document, value \in Text : DocumentChanges(d, value)
    \/ \E c \in Call, value \in Text : HandleShown(c, value)

\* The continuations of a settled promise run before the next event of the
\* editor or of a timer, in any order with the steps of streams.
Quiet == \A c \in Call : ~(JoinDue(c) \/ OwnDue(c) \/ RebaseDue(c))

Next ==
    \/ \E c \in Call : CallStep(c)
    \/ \E r \in Request : Stream(r)
    \/ Quiet /\ Event

Spec == Init /\ [][Next]_vars

\* Continuations run, and streams go on: xtabProvider.ts ends its stream when
\* the response ends, fails or is cancelled.
FairSpec ==
    /\ Spec
    /\ \A c \in Call : WF_vars(CallStep(c))
    /\ \A r \in Request : WF_vars(Stream(r))

-----------------------------------------------------------------------------
\* A call whose token is live awaits the first edit of its own request, or the
\* result of a request it joined.
Needs(c, r) ==
    /\ waits[c] = r /\ Running(r) /\ c \notin token
    /\ (pc[c] \in {"join", "rebase"} /\ ~Settled(r)) \/ (pc[c] = "own" /\ first[r] = "unset")

\* The comment in _hookupCancellation: "there are others depending on this
\* request".  A request somebody waits for is cancelled only because a newer
\* request took its place, because its document changed, or as the backup of a
\* call that could do without: neither the token of another call nor its timer
\* does it, however the joins and the second they wait race.
NeededIsNotCancelled ==
    [][\A r \in Request, c \in Call :
         /\ Needs(c, r) /\ c \notin token'
         /\ r \notin cancelled /\ r \in cancelled'
         => (pending = r /\ pending' # r) \/ text' # text \/ r \in abandoned
            \/ \E b \in Call : backup[b] = r]_vars

\* No request runs for nobody: one that is neither settled nor cancelled is
\* where the next call finds it, or has a dependant, or a timer that will
\* look for one.
NobodyIsForgotten ==
    \A r \in Request :
        Running(r) /\ ~Settled(r) /\ r \notin cancelled =>
            \/ r = pending \/ r = speculative
            \/ \E c \in Call : hook[r][c] \in {"live", "timer"}

Suggests(c) == pc[c] \in {"own", "join"} /\ pc'[c] = "done" /\ Offers(c)

ComputedFor(r) == <<base[r][1], prompt[r]>>

Fits(c) == base[waits[c]][1] = at[c][1] => ComputedFor(waits[c]) = Here(at[c][1])

\* The edits of a request are computed for another text than the one it was
\* made for, under which the next call finds it.
Mismatched(r) == base[r] # None /\ ComputedFor(r) # base[r]

\* An edit that a call returns as it is, for its own document, was computed for
\* the text that document has now, whatever was typed and joined since: unless
\* its request is mismatched, and there are two ways to make such a request.  A
\* call whose text changed while it waited makes one after the rebase failed,
\* from the history it started with, and a suggestion whose text changed before
\* it was shown makes a speculative one.  Whoever joins it is given its edit.
EditsFitText ==
    [][/\ \A c \in Call : Suggests(c) /\ ~Mismatched(waits[c]) => Fits(c)
       /\ \A r \in Request : Mismatched(r)' => Mismatched(r) \/ Outdated(OwnerOf(r))]_vars

\* Every call returns: the request it waits for settles, however often it was
\* handed over, given up or cancelled.
CallsReturn == \A c \in Call : pc[c] # "idle" ~> pc[c] = "done"
=============================================================================
