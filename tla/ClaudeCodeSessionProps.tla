----------------------- MODULE ClaudeCodeSessionProps -----------------------
(* What ClaudeCodeSession promises.  Which of these hold depends on what   *)
(* the environment does: see the runs.                                     *)
EXTENDS ClaudeCodeSession

\* The doc of _startSession: it "guards against concurrent starts (e.g., from
\* yield restart racing with a new invoke)".  However calls of invoke, the
\* restart after a yield and failing starts interleave, no two starts are
\* under way at once.
InFlight == {g \in Gen : phase[g] \in {"mcp", "query", "snapshot", "launched"}}
SingleStart == \A g, h \in InFlight : g = h

\* A caller that awaits its deferred is in the queue exactly once: the queue
\* is all that a result, an error, a yield or dispose() can settle it from,
\* so a caller that fell out of it would never return.
CallersAreQueued ==
    /\ \A r \in Req : pc[r] = "queued" <=> r \in Queued
    /\ \A i, j \in DOMAIN promptQueue : promptQueue[i] = promptQueue[j] => i = j

\* The comment of _processMessages: "clean up so next invoke starts fresh".
\* A generator that invoke finds set has a message loop, or is about to get
\* one: no interleaving of restarts, stale loops and ends of streams leaves a
\* generator behind that nobody reads, which invoke would queue on forever.
GeneratorIsRead ==
    queryGenerator # 0 =>
        \/ loop[queryGenerator] \in {"reading", "closing"}
        \/ phase[queryGenerator] = "snapshot"

\* Requests are completed in the order they were queued, also when stale
\* loops and interrupted requests take part: nobody overtakes a caller that
\* is still waiting.
CompletedInOrder ==
    [][\A i, j \in DOMAIN promptQueue :
         i < j /\ pc'[promptQueue[j]] = "done" => pc'[promptQueue[i]] # "queued"]_vars

\* The comment of _processMessages: future restarts "use `resume` instead of
\* `sessionId`".  A query built after any request was completed resumes the
\* session, whichever of result, yield or restart came in between; creating
\* it a second time would be refused by the SDK.
ResumeAfterAnswer ==
    [][\A g \in Gen :
         phase[g] = "mcp" /\ phase'[g] = "query" /\ (\E r \in Req : pc[r] = "done")
            => resume'[g]]_vars

\* The comment on the options of a query: "Use sessionId for new sessions,
\* resume for existing ones (mutually exclusive)". At most one running query was told to create the
\* session: a restart that comes before the first message, a query that dies
\* before it, or a start that was already building its options when either
\* happened, never lets a second one create it while the first still runs.
OneQueryCreates ==
    \A g, h \in Gen :
        sdk[g] = "running" /\ sdk[h] = "running" /\ ~resume[g] /\ ~resume[h] => g = h

\* The abstract request queue is implemented, whatever the environment does.
Outcome ==
    [r \in Req |-> IF pc[r] \in {"queued", "done", "error"} THEN pc[r] ELSE "open"]
RQ == INSTANCE RequestQueue WITH queue <- promptQueue, outcome <- Outcome
QueueSpec == RQ!Spec

-----------------------------------------------------------------------------
(* While no restart happens (settings, tools, idle timeout).               *)

\* One SDK query at a time works on the session; two would both append to
\* the session on disk.
OneLiveQuery == \A g, h \in Gen : SdkPulls(g) /\ SdkPulls(h) => g = h

\* The controller that a yield or dispose() aborts is the one the current
\* query was given.
AbortReachesGenerator ==
    queryGenerator # 0 /\ sdk[queryGenerator] = "running" =>
        abortController = queryGenerator

\* A yield in progress has stopped the query it interrupts, so the message
\* loop will end, and with it the yield.
YieldAborts == yieldInProgress => queryGenerator \in aborted

\* The doc of _getNextRequest: it "gets the next request from the queue or
\* waits for one to be available".  The iterable that waits is the one the next
\* invoke wakes: no iterable of an older query has taken its place.
NoOrphanIterable ==
    queryGenerator # 0 /\ iter[queryGenerator].st = "pending" =>
        pendingPrompt = queryGenerator

\* The request a tool permission is asked on: canUseTool uses the stream and
\* the token of _currentRequest.  It is the request the SDK is working on.
ToolsAskOnOwnRequest ==
    \A g \in Gen : SdkPulls(g) /\ inbox[g] # <<>> => currentRequest = Head(inbox[g])

\* The comment of _processMessages on a result: "Resolve and remove the
\* completed request".  Until somebody yields or the session is disposed, a
\* request is completed by the result of its own prompt, also when other
\* requests are cancelled, fail, or lose their session.
CompletedByOwnResult ==
    [][\A r \in Req :
          pc[r] = "queued" /\ pc'[r] = "done" /\ yieldRequested = {} /\ ~disposed =>
             \E g \in Gen : /\ outbox[g] # <<>>
                            /\ Head(outbox[g]) = [kind |-> "result", req |-> r]
                            /\ outbox'[g] = Tail(outbox[g])]_vars

-----------------------------------------------------------------------------
(* While queries run until they are yielded: no crash, restart, failing     *)
(* request, cancellation or disposal; starting a query may fail.            *)

\* The request whose stream is written is the one a result will complete,
\* until somebody yields: a late result may then be another request's.
CurrentIsHead ==
    currentRequest # NoReq /\ yieldRequested = {} =>
        promptQueue # <<>> /\ currentRequest = Head(promptQueue)

\* A queued request has a session that serves it, or one that is starting.  A
\* yield, like the end of a query, can strand a call that is between its look
\* at the generator and the queue.
NeverStranded ==
    promptQueue # <<>> /\ yieldRequested = {} => queryGenerator # 0 \/ sessionStarting # 0

\* Every queued request is settled, with the others queued behind it, whichever
\* starts and control calls fail, unless somebody yields.
Answered ==
    \A r \in Req : pc[r] = "queued" ~> pc[r] \in {"done", "error"} \/ yieldRequested # {}

\* After a yield the requests that are still queued (the steering message)
\* get a session of their own, or are settled.
YieldRestarts ==
    yieldInProgress /\ promptQueue # <<>> ~>
        sessionStarting # 0 \/ promptQueue = <<>>
=============================================================================
