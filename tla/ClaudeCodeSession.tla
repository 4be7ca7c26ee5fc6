------------------------- MODULE ClaudeCodeSession --------------------------
(***************************************************************************)
(* ClaudeCodeSession of claudeCodeAgent.ts: chat requests are queued by    *)
(* concurrent calls of invoke(), handed to the Claude agent SDK by an      *)
(* async iterable, and settled by a loop that reads the SDK's messages.    *)
(*                                                                         *)
(* Everything runs on one JavaScript thread, so a step is the code between *)
(* two awaits, and what awaits a settled promise runs before the next      *)
(* event.  The actors are                                                  *)
(*   - invoke(r), one per request r                                        *)
(*   - _doStartSession, one per generation g; a generation is one SDK      *)
(*     query with its prompt iterable and its abort controller             *)
(*   - _createPromptIterable of g, pulled by the SDK query of g            *)
(*   - _processMessages of g                                               *)
(*   - the SDK process of g, which is not part of the repository           *)
(*   - the user: cancellation, yield requests, edited settings, disposal   *)
(*                                                                         *)
(* Zero stands for an undefined generator or promise.                      *)
(***************************************************************************)
EXTENDS Naturals, Sequences, FiniteSets

CONSTANTS
    Req,       \* the chat requests, one call of invoke() each
    NoReq,     \* no request
    MaxGen,    \* bound: how many times a session start can be attempted
    MaxOut,    \* bound: streamed messages the SDK buffers before they are read
    Events     \* what the environment may do, a subset of AllEvents

AllEvents == {"cancel",       \* a request's token is cancelled
              "yield",        \* the user asks to interrupt a request
              "settings",     \* a settings file changed
              "tools",        \* the set of enabled tools changed
              "idle",         \* the gateway idle timeout elapses
              "dispose",      \* the session is disposed
              "crash",        \* the SDK's message stream ends by itself
              "failure",      \* the SDK reports error_during_execution
              "startfail",    \* starting a query throws
              "controlfail"}  \* setModel or setPermissionMode throws

ASSUME NoReqAssumption == NoReq \notin Req
ASSUME BoundsAssumption == MaxGen \in Nat \ {0} /\ MaxOut \in Nat
ASSUME EventsAssumption == Events \subseteq AllEvents

Gen == 1..MaxGen
GenOrNone == 0..MaxGen

VARIABLES
    (* The fields of the session object. *)
    queryGenerator,    \* _queryGenerator: the generation it belongs to
    promptQueue,       \* _promptQueue
    currentRequest,    \* _currentRequest
    pendingPrompt,     \* _pendingPrompt: the generation whose iterable waits on it
    abortController,   \* _abortController: the generation it was passed to
    isResumed,         \* _isResumed
    yieldInProgress,   \* _yieldInProgress
    sessionStarting,   \* _sessionStarting: the generation being started
    idleTimer,         \* _gatewayIdleTimeout is set
    disposed,          \* _store.isDisposed
    (* The calls of invoke. *)
    pc,                \* the await each call is at, or how it returned
    awaits,            \* the generation whose start or control call it awaits
    (* The generations. *)
    phase,             \* the await _doStartSession is at
    resume,            \* whether its options say resume instead of sessionId
    retry,             \* the starts that _restartAfterYield awaits
    iter,              \* the prompt iterable
    loop,              \* the message loop
    aborted,           \* the generations whose abort controller is aborted;
                       \* 0 stands for a controller not passed to a query yet
    (* The SDK processes. *)
    sdk,               \* not spawned, running, or ended
    inbox,             \* the prompts it was given and has not finished
    outbox,            \* the messages it sent and nobody has read yet
    (* The users. *)
    cancelled,         \* the requests whose token is cancelled
    yieldRequested     \* the requests whose yieldRequested() returns true

queryVars == <<queryGenerator, abortController, aborted>>
queueVars == <<promptQueue, pendingPrompt, iter>>
flagVars  == <<isResumed, yieldInProgress, idleTimer, disposed>>
startVars == <<sessionStarting, phase, retry>>
callVars  == <<pc, awaits>>
sdkVars   == <<sdk, inbox, outbox>>
userVars  == <<cancelled, yieldRequested>>
vars == <<queryVars, queueVars, currentRequest, flagVars, startVars, callVars,
          resume, loop, sdkVars, userVars>>

PCs == {"idle",      \* not called
        "settings",  \* awaiting hasChanges()
        "starting",  \* awaiting _startSession
        "ready",     \* awaiting _setModel and _setPermissionMode
        "queued",    \* awaiting its deferred
        "done",      \* returned
        "error"}     \* threw
Phases == {"unused", "mcp", "query", "snapshot", "launched", "started", "failed"}
Messages == [kind : {"assistant", "result", "failure"}, req : Req]
Iterables == [st : {"new", "pending", "closed"}, req : {NoReq}]
                 \cup [st : {"got", "waiting"}, req : Req]

TypeOK ==
    /\ queryGenerator \in GenOrNone
    /\ promptQueue \in Seq(Req)
    /\ currentRequest \in Req \cup {NoReq}
    /\ pendingPrompt \in GenOrNone
    /\ abortController \in GenOrNone
    /\ isResumed \in BOOLEAN
    /\ yieldInProgress \in BOOLEAN
    /\ sessionStarting \in GenOrNone
    /\ idleTimer \in BOOLEAN
    /\ disposed \in BOOLEAN
    /\ pc \in [Req -> PCs]
    /\ awaits \in [Req -> GenOrNone]
    /\ phase \in [Gen -> Phases]
    /\ resume \in [Gen -> BOOLEAN]
    /\ retry \in SUBSET Gen
    /\ iter \in [Gen -> Iterables]
    /\ loop \in [Gen -> {"none", "reading", "closing", "ended"}]
    /\ aborted \in SUBSET GenOrNone
    /\ sdk \in [Gen -> {"none", "running", "ended"}]
    /\ inbox \in [Gen -> Seq(Req)]
    /\ outbox \in [Gen -> Seq(Messages)]
    /\ cancelled \in SUBSET Req
    /\ yieldRequested \in SUBSET Req

\* The constructor; isNewSession decides whether the session is on disk.
Init ==
    /\ queryGenerator = 0
    /\ promptQueue = <<>>
    /\ currentRequest = NoReq
    /\ pendingPrompt = 0
    /\ abortController = 0
    /\ isResumed \in BOOLEAN
    /\ yieldInProgress = FALSE
    /\ sessionStarting = 0
    /\ idleTimer = FALSE
    /\ disposed = FALSE
    /\ pc = [r \in Req |-> "idle"]
    /\ awaits = [r \in Req |-> 0]
    /\ phase = [g \in Gen |-> "unused"]
    /\ resume = [g \in Gen |-> FALSE]
    /\ retry = {}
    /\ iter = [g \in Gen |-> [st |-> "new", req |-> NoReq]]
    /\ loop = [g \in Gen |-> "none"]
    /\ aborted = {}
    /\ sdk = [g \in Gen |-> "none"]
    /\ inbox = [g \in Gen |-> <<>>]
    /\ outbox = [g \in Gen |-> <<>>]
    /\ cancelled = {}
    /\ yieldRequested = {}

-----------------------------------------------------------------------------
Queued == {promptQueue[i] : i \in DOMAIN promptQueue}

\* The calls pc maps r to q, for every r of R.
Settle(R, q) == [r \in Req |-> IF r \in R THEN q ELSE pc[r]]

(* Broken variants of the pieces below: each has a fault a change to the    *)
(* code could introduce, and a property of the last section fails with it. *)

CompleteLast ==        \* pop() instead of shift()
    LET n == Len(promptQueue) IN
    IF n = 0 THEN UNCHANGED <<promptQueue, pc>>
    ELSE /\ promptQueue' = SubSeq(promptQueue, 1, n - 1)
         /\ pc' = [pc EXCEPT ![promptQueue[n]] = "done"]

RejectAfterClearing(R) ==    \* the queue is cleared before the loop over it
    /\ pc' = Settle(R, "error")
    /\ promptQueue' = <<>>
    /\ UNCHANGED <<pendingPrompt, iter>>

ForgetToMarkResumed == UNCHANGED isResumed

RestartUnmarked ==     \* a restart that leaves it to a message to mark the session
    /\ queryGenerator' = 0
    /\ aborted' = (aborted \cup {abortController}) \ {0}
    /\ abortController' = 0
    /\ UNCHANGED isResumed

AbortNothing == UNCHANGED <<aborted, abortController>>

AbortAndRenew ==       \* replace the controller at once, as _restartSession does
    /\ aborted' = aborted \cup {abortController}
    /\ abortController' = 0

StartWithoutGuard(s) ==      \* no check of _sessionStarting
    /\ phase[s] = "unused"
    /\ \A h \in 1..(s - 1) : phase[h] # "unused"
    /\ sessionStarting' = s
    /\ phase' = [phase EXCEPT ![s] = "mcp"]

ResetKeepingGenerator ==     \* _queryGenerator is not cleared
    /\ abortController' = 0
    /\ aborted' = aborted \ {0}
    /\ currentRequest' = NoReq
    /\ UNCHANGED queryGenerator

-----------------------------------------------------------------------------
(* Pieces of steps.  Each one fixes the next value of the variables it     *)
(* names and of no other.                                                  *)

\* promptQueue.shift() and complete() of the request it returns.
CompleteHead ==
    IF promptQueue = <<>>
      THEN UNCHANGED <<promptQueue, pc>>
      ELSE /\ promptQueue' = Tail(promptQueue)
           /\ pc' = [pc EXCEPT ![Head(promptQueue)] = "done"]

\* Continuations of promises that are already settled are microtasks: they
\* run before the next event (I/O, a timer, a call from the editor).
MicrotaskPending ==
    \E g \in Gen : \/ phase[g] = "launched"
                   \/ iter[g].st = "got"
                   \/ iter[g].st = "waiting" /\ pc[iter[g].req] \in {"done", "error"}

\* The first SDK message confirms that the session exists on disk.
MarkResumed == isResumed' = TRUE

\* _abortController.abort()
AbortCurrent ==
    /\ aborted' = aborted \cup {abortController}
    /\ UNCHANGED abortController

\* error() on the pending prompt: the iterable that awaits it throws.
RejectPendingPrompt ==
    /\ pendingPrompt' = 0
    /\ iter' = IF pendingPrompt = 0 THEN iter
               ELSE [iter EXCEPT ![pendingPrompt] = [st |-> "closed", req |-> NoReq]]

\* _rejectPendingRequests, where R are calls that throw in the same step.
RejectPendingRequests(R) ==
    /\ pc' = Settle(R \cup Queued, "error")
    /\ promptQueue' = <<>>
    /\ RejectPendingPrompt

\* _restartSession
RestartSession ==
    /\ queryGenerator' = 0
    /\ aborted' = (aborted \cup {abortController}) \ {0}
    /\ abortController' = 0
    /\ isResumed' = TRUE

\* _startSession: s is the start that the caller awaits, the one in progress
\* if there is one and a new one otherwise.
StartSession(s) ==
    IF sessionStarting # 0
      THEN /\ s = sessionStarting
           /\ UNCHANGED <<sessionStarting, phase>>
      ELSE /\ phase[s] = "unused"
           /\ \A h \in 1..(s - 1) : phase[h] # "unused"
           /\ sessionStarting' = s
           /\ phase' = [phase EXCEPT ![s] = "mcp"]

ResetSessionState ==
    /\ queryGenerator' = 0
    /\ abortController' = 0
    /\ aborted' = aborted \ {0}
    /\ currentRequest' = NoReq

\* Broken variant: _restartAfterYield that leaves the queue to the next invoke.
CleanupWithoutRestart ==
    /\ ResetSessionState
    /\ yieldInProgress' = FALSE
    /\ IF yieldInProgress THEN UNCHANGED <<queueVars, pc>> ELSE RejectPendingRequests({})
    /\ UNCHANGED startVars

\* _cleanup, ending in _restartAfterYield or _rejectPendingRequests.
Cleanup ==
    /\ ResetSessionState
    /\ yieldInProgress' = FALSE
    /\ IF yieldInProgress
         THEN /\ IF promptQueue = <<>>
                   THEN UNCHANGED <<startVars>>
                   ELSE \E s \in Gen : StartSession(s) /\ retry' = retry \cup {s}
              /\ UNCHANGED <<queueVars, pc>>
         ELSE /\ RejectPendingRequests({})
              /\ UNCHANGED <<startVars>>

-----------------------------------------------------------------------------
(* invoke(r)                                                               *)

AwaitStart(r, s) ==
    /\ StartSession(s)
    /\ pc' = [pc EXCEPT ![r] = "starting"]
    /\ awaits' = [awaits EXCEPT ![r] = s]

Invoke(r) ==
    /\ pc[r] = "idle"
    /\ ~MicrotaskPending
    /\ \/ /\ disposed
          /\ pc' = [pc EXCEPT ![r] = "error"]
          /\ UNCHANGED <<idleTimer, sessionStarting, phase, awaits>>
       \/ /\ ~disposed
          /\ queryGenerator # 0
          /\ idleTimer' = FALSE
          /\ pc' = [pc EXCEPT ![r] = "settings"]
          /\ UNCHANGED <<sessionStarting, phase, awaits>>
       \/ /\ ~disposed
          /\ queryGenerator = 0
          /\ idleTimer' = FALSE
          /\ \E s \in Gen : AwaitStart(r, s)
    /\ UNCHANGED <<queryVars, queueVars, currentRequest, isResumed,
                   yieldInProgress, disposed, retry, resume, loop, sdkVars,
                   userVars>>

\* hasChanges() answered, or the tools differ: restart; then start a session
\* unless there is one, and go on to _setModel.
SettingsChecked(r) ==
    /\ pc[r] = "settings"
    /\ ~MicrotaskPending
    /\ \/ /\ \/ "settings" \in Events
             \/ "tools" \in Events /\ queryGenerator # 0
          /\ RestartSession
          /\ \E s \in Gen : AwaitStart(r, s)
       \/ /\ queryGenerator = 0
          /\ \E s \in Gen : AwaitStart(r, s)
          /\ UNCHANGED <<queryVars, isResumed>>
       \/ /\ queryGenerator # 0
          /\ pc' = [pc EXCEPT ![r] = "ready"]
          /\ awaits' = [awaits EXCEPT ![r] = queryGenerator]
          /\ UNCHANGED <<queryVars, isResumed, sessionStarting, phase>>
    /\ UNCHANGED <<queueVars, currentRequest, yieldInProgress, idleTimer,
                   disposed, retry, resume, loop, sdkVars, userVars>>

\* setModel or setPermissionMode of the SDK query throws, and so does invoke.
ControlCallFails(r) ==
    /\ "controlfail" \in Events
    /\ pc[r] = "ready"
    /\ awaits[r] # 0
    /\ pc' = [pc EXCEPT ![r] = "error"]
    /\ UNCHANGED <<queryVars, queueVars, currentRequest, flagVars, startVars,
                   awaits, resume, loop, sdkVars, userVars>>

\* Broken variant: the pending prompt is cleared and never completed.
PushWithoutFulfilling(r) ==
    /\ pc[r] = "ready"
    /\ pc' = [pc EXCEPT ![r] = "queued"]
    /\ awaits' = [awaits EXCEPT ![r] = 0]
    /\ promptQueue' = Append(promptQueue, r)
    /\ pendingPrompt' = 0
    /\ UNCHANGED <<queryVars, iter, currentRequest, flagVars, startVars, resume,
                   loop, sdkVars, userVars>>

\* Queue the request and fulfil the pending prompt with it.
Push(r) ==
    /\ pc[r] = "ready"
    /\ pc' = [pc EXCEPT ![r] = "queued"]
    /\ awaits' = [awaits EXCEPT ![r] = 0]
    /\ promptQueue' = Append(promptQueue, r)
    /\ pendingPrompt' = 0
    /\ iter' = IF pendingPrompt = 0 THEN iter
               ELSE [iter EXCEPT ![pendingPrompt] = [st |-> "got", req |-> r]]
    /\ UNCHANGED <<queryVars, currentRequest, flagVars, startVars, resume,
                   loop, sdkVars, userVars>>

-----------------------------------------------------------------------------
(* _doStartSession of generation g, and the end of _startSession           *)

Waiters(g) == {r \in Req : pc[r] = "starting" /\ awaits[r] = g}

\* The MCP servers are known: build the options and call query().
BuildOptions(g) ==
    /\ phase[g] = "mcp"
    /\ phase' = [phase EXCEPT ![g] = "query"]
    /\ resume' = [resume EXCEPT ![g] = isResumed]
    /\ abortController' = g
    /\ aborted' = IF abortController \in aborted
                    THEN (aborted \cup {g}) \ {0}
                    ELSE aborted \ {0, g}
    /\ UNCHANGED <<queryGenerator, queueVars, currentRequest, flagVars,
                   sessionStarting, retry, callVars, loop, sdkVars, userVars>>

\* Broken variant: the query is kept in a local variable, not in the field.
QueryReadyUnstored(g) ==
    /\ phase[g] = "query"
    /\ phase' = [phase EXCEPT ![g] = "snapshot"]
    /\ sdk' = [sdk EXCEPT ![g] = "running"]
    /\ UNCHANGED <<queryVars, queueVars, currentRequest, flagVars,
                   sessionStarting, retry, callVars, resume, loop, inbox,
                   outbox, userVars>>

\* query() returned: the SDK runs and the generator is set, while the start
\* goes on to take the settings snapshot.
QueryReady(g) ==
    /\ phase[g] = "query"
    /\ phase' = [phase EXCEPT ![g] = "snapshot"]
    /\ queryGenerator' = g
    /\ sdk' = [sdk EXCEPT ![g] = "running"]
    /\ UNCHANGED <<abortController, aborted, queueVars, currentRequest,
                   flagVars, sessionStarting, retry, callVars, resume, loop,
                   inbox, outbox, userVars>>

\* The snapshot is taken: launch _processMessages, which iterates over the
\* generator of this moment and, when it is undefined, throws into _cleanup.
LaunchLoop(g) ==
    /\ phase[g] = "snapshot"
    /\ ~MicrotaskPending
    /\ phase' = [phase EXCEPT ![g] = "launched"]
    /\ \/ /\ queryGenerator # 0
          /\ loop' = [loop EXCEPT ![queryGenerator] = "reading"]
          /\ UNCHANGED <<queryVars, queueVars, currentRequest, flagVars,
                         sessionStarting, retry, pc>>
       \/ /\ queryGenerator = 0
          /\ ResetSessionState
          /\ yieldInProgress' = FALSE
          /\ IF yieldInProgress
               THEN /\ retry' = IF promptQueue = <<>> THEN retry ELSE retry \cup {g}
                    /\ UNCHANGED <<queueVars, pc>>
               ELSE /\ RejectPendingRequests({})
                    /\ UNCHANGED retry
          /\ UNCHANGED <<isResumed, idleTimer, disposed, sessionStarting,
                         loop>>
    /\ UNCHANGED <<awaits, resume, sdkVars, userVars>>

\* The start promise is fulfilled: everyone who awaits it goes on.
StartSettles(g) ==
    /\ phase[g] = "launched"
    /\ phase' = [phase EXCEPT ![g] = "started"]
    /\ sessionStarting' = 0
    /\ pc' = Settle(Waiters(g), "ready")
    /\ awaits' = [r \in Req |-> IF r \in Waiters(g) THEN queryGenerator ELSE awaits[r]]
    /\ UNCHANGED <<queryVars, queueVars, currentRequest, flagVars, retry,
                   resume, loop, sdkVars, userVars>>

\* The start promise is rejected: the calls that await it throw, and
\* _restartAfterYield rejects what is queued.
StartFails(g) ==
    /\ "startfail" \in Events
    /\ phase[g] \in {"mcp", "query"}
    /\ phase' = [phase EXCEPT ![g] = "failed"]
    /\ sessionStarting' = 0
    /\ IF g \in retry
         THEN RejectPendingRequests(Waiters(g))
         ELSE /\ pc' = Settle(Waiters(g), "error")
              /\ UNCHANGED <<queueVars>>
    /\ UNCHANGED <<queryVars, currentRequest, flagVars, retry, awaits, resume,
                   loop, sdkVars, userVars>>

-----------------------------------------------------------------------------
(* _createPromptIterable of generation g                                   *)

SdkPulls(g) == sdk[g] = "running" /\ g \notin aborted

\* Broken variant: the iterable goes on without waiting for the request it
\* yielded.
GetNextWithoutWaiting(g) ==
    /\ iter[g].st \in {"new", "waiting"} /\ SdkPulls(g)
    /\ IF promptQueue # <<>>
         THEN /\ iter' = [iter EXCEPT ![g] = [st |-> "got", req |-> Head(promptQueue)]]
              /\ UNCHANGED pendingPrompt
         ELSE /\ iter' = [iter EXCEPT ![g] = [st |-> "pending", req |-> NoReq]]
              /\ pendingPrompt' = g
    /\ UNCHANGED <<queryVars, promptQueue, currentRequest, flagVars, startVars,
                   callVars, resume, loop, sdkVars, userVars>>

\* _getNextRequest, on the first pull of the SDK and each time the request
\* yielded last has completed.
GetNextRequest(g) ==
    /\ \/ iter[g].st = "new" /\ SdkPulls(g)
       \/ iter[g].st = "waiting" /\ pc[iter[g].req] = "done"
    /\ IF promptQueue # <<>>
         THEN /\ iter' = [iter EXCEPT ![g] = [st |-> "got", req |-> Head(promptQueue)]]
              /\ UNCHANGED pendingPrompt
         ELSE /\ iter' = [iter EXCEPT ![g] = [st |-> "pending", req |-> NoReq]]
              /\ pendingPrompt' = g
    /\ UNCHANGED <<queryVars, promptQueue, currentRequest, flagVars, startVars,
                   callVars, resume, loop, sdkVars, userVars>>

\* Make the request current and yield its prompt.  An SDK that was stopped
\* meanwhile leaves its for-await loop, and the prompt is dropped.
YieldPrompt(g) ==
    LET r == iter[g].req IN
    /\ iter[g].st = "got"
    /\ currentRequest' = r
    /\ IF SdkPulls(g)
         THEN /\ iter' = [iter EXCEPT ![g].st = "waiting"]
              /\ inbox' = [inbox EXCEPT ![g] = Append(@, r)]
         ELSE /\ iter' = [iter EXCEPT ![g] = [st |-> "closed", req |-> NoReq]]
              /\ UNCHANGED inbox
    /\ UNCHANGED <<queryVars, promptQueue, pendingPrompt, flagVars, startVars,
                   callVars, resume, loop, sdk, outbox, userVars>>

\* The awaited deferred was rejected: the iterable throws.
IterableThrows(g) ==
    /\ iter[g].st = "waiting"
    /\ pc[iter[g].req] = "error"
    /\ iter' = [iter EXCEPT ![g] = [st |-> "closed", req |-> NoReq]]
    /\ UNCHANGED <<queryVars, promptQueue, pendingPrompt, currentRequest,
                   flagVars, startVars, callVars, resume, loop, sdkVars,
                   userVars>>

-----------------------------------------------------------------------------
(* _processMessages of generation g                                        *)

Reads(g, kinds) ==
    /\ loop[g] = "reading"
    /\ outbox[g] # <<>>
    /\ Head(outbox[g]).kind \in kinds

\* The body of the loop throws: for-await closes the SDK query before the
\* catch clause runs _cleanup.
Throw(g) ==
    /\ loop' = [loop EXCEPT ![g] = "closing"]
    /\ sdk' = [sdk EXCEPT ![g] = "ended"]
    /\ inbox' = [inbox EXCEPT ![g] = <<>>]
    /\ outbox' = [outbox EXCEPT ![g] = <<>>]

AnyKind == {"assistant", "result", "failure"}

\* The current request's token is cancelled.
MessageWhenCancelled(g) ==
    /\ Reads(g, AnyKind)
    /\ currentRequest \in cancelled
    /\ Throw(g)
    /\ UNCHANGED <<queryVars, queueVars, currentRequest, flagVars, startVars,
                   callVars, resume, userVars>>

\* _checkYieldRequested: complete the head of the queue, forget the current
\* request and abort the current controller.
MessageWhenYielding(g) ==
    /\ Reads(g, AnyKind)
    /\ currentRequest \in yieldRequested \ cancelled
    /\ outbox' = [outbox EXCEPT ![g] = Tail(@)]
    /\ MarkResumed
    /\ yieldInProgress' = TRUE
    /\ CompleteHead
    /\ currentRequest' = NoReq
    /\ AbortCurrent
    /\ UNCHANGED <<queryGenerator, pendingPrompt, iter,
                   idleTimer, disposed, startVars, awaits, resume, loop, sdk,
                   inbox, userVars>>

\* A message nobody asked for, or one that is only streamed.
StreamMessage(g) ==
    /\ \/ Reads(g, AnyKind) /\ currentRequest = NoReq
       \/ Reads(g, {"assistant"}) /\ currentRequest \notin cancelled \cup yieldRequested
    /\ outbox' = [outbox EXCEPT ![g] = Tail(@)]
    /\ MarkResumed
    /\ UNCHANGED <<queryVars, queueVars, currentRequest, yieldInProgress,
                   idleTimer, disposed, startVars, callVars, resume, loop, sdk,
                   inbox, userVars>>

\* A result completes the head of the queue and starts the idle timer.
ResultMessage(g) ==
    /\ Reads(g, {"result"})
    /\ currentRequest \notin cancelled \cup yieldRequested \cup {NoReq}
    /\ outbox' = [outbox EXCEPT ![g] = Tail(@)]
    /\ MarkResumed
    /\ CompleteHead
    /\ currentRequest' = NoReq
    /\ idleTimer' = TRUE
    /\ UNCHANGED <<queryVars, pendingPrompt, iter, yieldInProgress, disposed,
                   startVars, awaits, resume, loop, sdk, inbox, userVars>>

\* handleResultMessage throws on error_during_execution.
FailureMessage(g) ==
    /\ Reads(g, {"failure"})
    /\ currentRequest \notin cancelled \cup yieldRequested \cup {NoReq}
    /\ MarkResumed
    /\ Throw(g)
    /\ UNCHANGED <<queryVars, queueVars, currentRequest, yieldInProgress,
                   idleTimer, disposed, startVars, callVars, resume, userVars>>

\* The loop threw, or the SDK's messages are exhausted: _cleanup.
LoopEnds(g) ==
    /\ \/ loop[g] = "closing"
       \/ loop[g] = "reading" /\ outbox[g] = <<>> /\ sdk[g] = "ended"
    /\ loop' = [loop EXCEPT ![g] = "ended"]
    /\ Cleanup
    /\ UNCHANGED <<isResumed, idleTimer, disposed, awaits, resume, sdkVars,
                   userVars>>

-----------------------------------------------------------------------------
(* Timer and disposal                                                      *)

\* The callback of _startGatewayIdleTimer.
IdleTimeout ==
    /\ "idle" \in Events
    /\ ~MicrotaskPending
    /\ idleTimer
    /\ idleTimer' = FALSE
    /\ RestartSession
    /\ UNCHANGED <<queueVars, currentRequest, yieldInProgress, disposed,
                   startVars, callVars, resume, loop, sdkVars, userVars>>

Dispose ==
    /\ "dispose" \in Events
    /\ ~MicrotaskPending
    /\ ~disposed
    /\ disposed' = TRUE
    /\ idleTimer' = FALSE
    /\ AbortCurrent
    /\ RejectPendingRequests({})
    /\ UNCHANGED <<queryGenerator, currentRequest, isResumed,
                   yieldInProgress, startVars, awaits, resume, loop, sdkVars,
                   userVars>>

-----------------------------------------------------------------------------
(* The SDK query of generation g (external) and the user                   *)

Send(g, k) == outbox' = [outbox EXCEPT ![g] = Append(@, [kind |-> k, req |-> Head(inbox[g])])]

\* A streamed message about the prompt being worked on.
SdkStreams(g) ==
    /\ sdk[g] = "running"
    /\ ~MicrotaskPending
    /\ inbox[g] # <<>>
    /\ Len(outbox[g]) < MaxOut
    /\ Send(g, "assistant")
    /\ UNCHANGED <<queryVars, queueVars, currentRequest, flagVars, startVars,
                   callVars, resume, loop, sdk, inbox, userVars>>

\* The message that ends the work on a prompt.
SdkAnswers(g) ==
    /\ sdk[g] = "running"
    /\ ~MicrotaskPending
    /\ inbox[g] # <<>>
    /\ \/ Send(g, "result")
       \/ "failure" \in Events /\ Send(g, "failure")
    /\ inbox' = [inbox EXCEPT ![g] = Tail(@)]
    /\ UNCHANGED <<queryVars, queueVars, currentRequest, flagVars, startVars,
                   callVars, resume, loop, sdk, userVars>>

\* The message stream ends, once aborted or on its own; what it has sent
\* stays readable.
SdkEnds(g) ==
    /\ sdk[g] = "running"
    /\ ~MicrotaskPending
    /\ g \in aborted \/ "crash" \in Events
    /\ sdk' = [sdk EXCEPT ![g] = "ended"]
    /\ inbox' = [inbox EXCEPT ![g] = <<>>]
    /\ UNCHANGED <<queryVars, queueVars, currentRequest, flagVars, startVars,
                   callVars, resume, loop, outbox, userVars>>

Unsettled(r) == pc[r] \notin {"idle", "done", "error"}

CancelRequest(r) ==
    /\ "cancel" \in Events
    /\ ~MicrotaskPending
    /\ Unsettled(r)
    /\ cancelled' = cancelled \cup {r}
    /\ UNCHANGED <<queryVars, queueVars, currentRequest, flagVars, startVars,
                   callVars, resume, loop, sdkVars, yieldRequested>>

RequestYield(r) ==
    /\ "yield" \in Events
    /\ ~MicrotaskPending
    /\ Unsettled(r)
    /\ yieldRequested' = yieldRequested \cup {r}
    /\ UNCHANGED <<queryVars, queueVars, currentRequest, flagVars, startVars,
                   callVars, resume, loop, sdkVars, cancelled>>

-----------------------------------------------------------------------------
CallStep(r) == SettingsChecked(r) \/ Push(r)

StartStep(g) == BuildOptions(g) \/ QueryReady(g) \/ LaunchLoop(g) \/ StartSettles(g)

IterStep(g) == GetNextRequest(g) \/ YieldPrompt(g) \/ IterableThrows(g)

LoopStep(g) ==
    \/ MessageWhenCancelled(g) \/ MessageWhenYielding(g) \/ StreamMessage(g)
    \/ ResultMessage(g) \/ FailureMessage(g) \/ LoopEnds(g)

UserStep(r) == Invoke(r) \/ CancelRequest(r) \/ RequestYield(r) \/ ControlCallFails(r)

SdkStep(g) == SdkStreams(g) \/ SdkAnswers(g) \/ SdkEnds(g)

Next ==
    \/ \E r \in Req : CallStep(r) \/ UserStep(r)
    \/ \E g \in Gen : \/ StartStep(g) \/ StartFails(g)
                      \/ IterStep(g) \/ LoopStep(g) \/ SdkStep(g)
    \/ IdleTimeout
    \/ Dispose

Spec == Init /\ [][Next]_vars

\* Promises that are resolved run their continuations, the SDK answers the
\* prompts it was given and stops when aborted.
Fairness ==
    /\ \A r \in Req : WF_vars(CallStep(r))
    /\ \A g \in Gen :
         /\ WF_vars(StartStep(g))
         /\ WF_vars(IterStep(g))
         /\ WF_vars(LoopStep(g))
         /\ WF_vars(SdkAnswers(g))
         /\ WF_vars(g \in aborted /\ SdkEnds(g))

FairSpec == Spec /\ Fairness
=============================================================================
