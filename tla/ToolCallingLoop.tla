-------------------------- MODULE ToolCallingLoop ---------------------------
(***************************************************************************)
(* The turns of one conversation over the WebSocket transport:             *)
(* ToolCallingLoop.run and runOne (toolCallingLoop.ts), called by          *)
(* runWithToolCalling (defaultIntentRequestHandler.ts), which closes the   *)
(* connection of its turn in the end, and the fetch of a round             *)
(* (_doFetchAndStreamChat and _doFetchViaWebSocket of chatMLFetcher.ts),   *)
(* composed with ChatWebSocketManager.  A turn is                          *)
(*                                                                         *)
(*   "none"     not started                                                *)
(*   "prompt"   in runOne, running tools and building the prompt           *)
(*   "fetch"    in fetchMany, before the request is made                   *)
(*   "connect"  awaiting getOrCreateConnection                             *)
(*   "stream"   reading the response                                       *)
(*   "hook"     running the stop hook                                      *)
(*   "done"     returned or threw, its connection closed                   *)
(***************************************************************************)
EXTENDS ChatWebSocketManager

VARIABLES
    pc,          \* where each turn is
    i,           \* the counter of run(), for running turns
    connection,  \* the connection a running turn was given last
    cancelled,   \* the turns whose token is cancelled
    yielded,     \* the running turns asked to yield
    shutdown     \* the manager has been disposed of

loopVars == <<pc, i, connection, cancelled, yielded, shutdown>>
vars == <<connectionVars, loopVars>>

TypeOK ==
    /\ ConnectionTypeOK
    /\ pc \in [Turn -> {"none", "prompt", "fetch", "connect", "stream", "hook", "done"}]
    /\ i \in [Turn -> 0 .. ToolCallLimit]
    /\ connection \in [Turn -> Round \cup {NoRound}]
    /\ cancelled \in SUBSET Turn
    /\ yielded \in SUBSET Turn
    /\ shutdown \in BOOLEAN

Init ==
    /\ ConnectionInit
    /\ pc = [t \in Turn |-> "none"]
    /\ i = [t \in Turn |-> 0]
    /\ connection = [t \in Turn |-> NoRound]
    /\ cancelled = {}
    /\ yielded = {}
    /\ shutdown = FALSE

Running(t) == pc[t] \notin {"none", "done"}

Current(t) == <<t, i[t]>>

Goto(t, stage) == pc' = [pc EXCEPT ![t] = stage]

\* run() ends, by a break or a throw, and the finally block of
\* runWithToolCalling closes the connection.
Finish(t) ==
    /\ Goto(t, "done")
    /\ CloseConnection(t)
    /\ i' = [i EXCEPT ![t] = 0]
    /\ connection' = [connection EXCEPT ![t] = NoRound]
    /\ yielded' = yielded \ {t}
    /\ UNCHANGED <<cancelled, shutdown>>

\* Broken variants of the steps below: a loop that does not count its rounds,
\* and a fetch that does not look at the token.
IterateUncounted(t) ==
    /\ Goto(t, "prompt")
    /\ UNCHANGED <<connectionVars, i, connection, cancelled, yielded, shutdown>>

FetchUnchecked(t) ==
    /\ pc[t] = "fetch"
    /\ GetOrCreateConnection(Current(t))
    /\ connection' = [connection EXCEPT ![t] = mapped']
    /\ Goto(t, "connect")
    /\ UNCHANGED <<i, cancelled, yielded, shutdown>>

\* A further pass of the loop in run(), which counts the rounds after the
\* first one against the limit.
Iterate(t) ==
    \/ /\ i[t] >= ToolCallLimit \/ t \in yielded
       /\ Finish(t)
    \/ /\ i[t] < ToolCallLimit /\ t \notin yielded
       /\ i' = [i EXCEPT ![t] = @ + 1]
       /\ Goto(t, "prompt")
       /\ UNCHANGED <<connectionVars, connection, cancelled, yielded, shutdown>>

\* The editor starts a turn when the one before has ended or is cancelled.
Start(t) ==
    /\ pc[t] = "none"
    /\ t > 1 => pc[t - 1] = "done" \/ (pc[t - 1] # "none" /\ t - 1 \in cancelled)
    /\ Goto(t, "prompt")
    /\ UNCHANGED <<connectionVars, i, connection, cancelled, yielded, shutdown>>

\* runOne reaches the fetch unless a tool or the prompt throws, the token is
\* cancelled, or a yield is requested after the first round.
PromptBuilt(t) ==
    /\ pc[t] = "prompt"
    /\ t \notin cancelled
    /\ i[t] = 0 \/ t \notin yielded
    /\ Goto(t, "fetch")
    /\ UNCHANGED <<connectionVars, i, connection, cancelled, yielded, shutdown>>

PromptThrows(t) == pc[t] = "prompt" /\ Finish(t)

\* A response that is not a success ends the loop when the token is cancelled,
\* and runs the stop hook otherwise.
Unsuccessful(t) ==
    \/ t \in cancelled /\ Finish(t)
    \/ /\ t \notin cancelled
       /\ Goto(t, "hook")
       /\ UNCHANGED <<connectionVars, i, connection, cancelled, yielded, shutdown>>

\* The request is made unless the token is cancelled by then.
Fetch(t) ==
    /\ pc[t] = "fetch"
    /\ t \notin cancelled
    /\ GetOrCreateConnection(Current(t))
    /\ connection' = [connection EXCEPT ![t] = mapped']
    /\ Goto(t, "connect")
    /\ UNCHANGED <<i, cancelled, yielded, shutdown>>

\* The request is not made: the token is cancelled, or the key is missing.
FetchRefused(t) == pc[t] = "fetch" /\ Unsuccessful(t)

\* connect() has settled: the request is sent if the connection is open, and
\* the fetch fails otherwise.  The token is not looked at.
Connected(t) ==
    /\ pc[t] = "connect"
    /\ ~IsConnecting(connection[t])
    /\ \/ /\ SendRequest(connection[t], Current(t))
          /\ Goto(t, "stream")
          /\ UNCHANGED <<i, connection, cancelled, yielded, shutdown>>
       \/ /\ ~IsOpen(connection[t])
          /\ Unsuccessful(t)

\* The response has been read, and its round pushed: with tool calls the loop
\* goes on.  Reporting it may throw.
Returned(t) ==
    /\ pc[t] = "stream"
    /\ ~IsPending(Current(t))
    /\ \/ request[Current(t)] = "completed" /\ Iterate(t)
       \/ Unsuccessful(t)
       \/ Finish(t)

\* The stop hook answers: it blocks, which makes the loop go on, or it does
\* not.
HookAnswers(t) ==
    /\ pc[t] = "hook"
    /\ Iterate(t) \/ Finish(t)

\* The user cancels a turn: a request in flight settles at once.
Cancel(t) ==
    /\ Running(t) /\ t \notin cancelled
    /\ cancelled' = cancelled \cup {t}
    /\ IF pc[t] = "stream" THEN CancelActive(connection[t], Current(t))
                           ELSE UNCHANGED connectionVars
    /\ UNCHANGED <<pc, i, connection, yielded, shutdown>>

\* A listener added to a token cancelled before is called by a timer.
CancelTimer(t) ==
    /\ pc[t] = "stream" /\ t \in cancelled
    /\ IsPending(Current(t))
    /\ CancelActive(connection[t], Current(t))
    /\ UNCHANGED loopVars

\* The editor asks a turn to yield.
RequestYield(t) ==
    /\ Running(t) /\ t \notin yielded
    /\ yielded' = yielded \cup {t}
    /\ UNCHANGED <<connectionVars, pc, i, connection, cancelled, shutdown>>

\* The extension is deactivated: dispose of the manager.
Shutdown ==
    /\ ~shutdown
    /\ shutdown' = TRUE
    /\ CloseAll
    /\ UNCHANGED <<pc, i, connection, cancelled, yielded>>

Socket(c) == SocketEvent(c) /\ UNCHANGED loopVars

Step(t) ==
    \/ PromptBuilt(t)
    \/ PromptThrows(t)
    \/ Fetch(t)
    \/ FetchRefused(t)
    \/ Connected(t)
    \/ Returned(t)
    \/ HookAnswers(t)
    \/ CancelTimer(t)

Next ==
    \/ \E t \in Turn : Start(t) \/ Step(t) \/ Cancel(t) \/ RequestYield(t)
    \/ \E c \in Round : Socket(c)
    \/ Shutdown

\* Code that is running goes on; tools, prompts and hooks return or throw; a
\* socket that connects opens or fails; a request on an open socket is
\* answered, or the socket closes.  Nobody has to start, cancel or yield.
Fairness ==
    /\ \A t \in Turn : WF_vars(Step(t))
    /\ \A c \in Round :
         /\ WF_vars(IsConnecting(c) /\ Socket(c))
         /\ WF_vars(IsPending(active[c]) /\ Socket(c))

Spec == Init /\ [][Next]_vars

FairSpec == Spec /\ Fairness

-----------------------------------------------------------------------------
\* A request that has not settled can still be settled by its connection: the
\* socket is open and the request is the active one, whatever other turns and
\* earlier rounds did to the connections; and while its turn is live, no other
\* turn has taken its connection from the map.
RequestIsServed ==
    \A r \in Round : IsPending(r) =>
        LET t == TurnOf(r) IN
        /\ r = Current(t) /\ pc[t] = "stream"
        /\ IsOpen(connection[t]) /\ active[connection[t]] = r
        /\ t \in cancelled \/ shutdown \/ mapped = connection[t]

\* Sockets are closed with their turn: one that opened in time belongs to the
\* connection in the map, whose turn is running.  Only cancelling a turn or
\* shutting down while its connection is being set up leaves a socket that
\* opens later and that nobody closes.
SocketsAreClosed ==
    \A c \in Round :
        /\ socket[c] = "open" => c = mapped /\ Running(TurnOf(c))
        /\ socket[c] \in {"abandoned", "orphan"} => TurnOf(c) \in cancelled \/ shutdown

\* The comment on getOrCreateConnection: a connection is "reused across tool
\* call rounds within the same turn".  A turn connects again only after its
\* earlier connections failed or were closed by the other side, never because
\* another turn disposed of one.
ReusedAcrossRounds ==
    [][\A t \in Turn, k \in 0 .. ToolCallLimit :
         socket[<<t, k>>] = "none" /\ socket'[<<t, k>>] # "none" /\ ~shutdown =>
            \A j \in 0 .. ToolCallLimit : socket[<<t, j>>] \in {"none", "lost"}]_vars

\* Every turn ends, even when the model asks for tools and the stop hook
\* blocks for ever, when sockets fail, and when it is cancelled at any moment.
TurnsEnd == \A t \in Turn : Running(t) ~> pc[t] = "done"
=============================================================================
