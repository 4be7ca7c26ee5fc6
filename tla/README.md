# TLA+ models of the chat extension

Models, model-checking runs and machine-checked proofs for the GitHub Copilot
Chat extension of this repository (`src/` below is the repository's `src/`
directory). The extension is one Node.js process: there are no threads, but
nearly everything waits for something (a model, an SDK process, a file, the
user), and between two `await`s anything else may run. The models are about
those interleavings.

Contents: [inventory](#inventory), [modules](#modules),
[the Claude session](#the-claude-session), [the mutex](#the-mutex),
[the agent manager](#the-agent-manager),
[the Copilot CLI session service](#the-copilot-cli-session-service),
[turns over a WebSocket](#turns-over-a-websocket), [next edits](#next-edits),
[async completions](#async-completions), [runs](#runs-and-bounds),
[disagreements found](#where-the-code-and-its-comments-disagree),
[proofs](#proofs), [what is not modelled](#not-modelled),
[what is left](#what-is-left), [how to run](#how-to-run).

## Inventory

| Component | State it keeps | Operations | What is hard | What makes it correct |
|---|---|---|---|---|
| **Claude session** `extension/chatSessions/claude/node/claudeCodeAgent.ts`, `ClaudeCodeSession` | SDK query, prompt queue, current request, pending prompt, abort controller, resume/yield/starting flags, idle timer | `invoke`, `_doStartSession`, prompt iterable, message loop, restart, yield, `dispose` | five kinds of coroutine share ten fields; an old query's loop and iterable outlive it | every caller is answered, in order, by its own result; one query at a time; `resume` iff the session exists |
| **Claude agent manager** same file, `ClaudeAgentManager` | language model server, map of sessions | `handleRequest`, disposal | check-then-act around the start of the server | the calls of one id share one session |
| **Claude language model server** `claudeLanguageModelServer.ts` | HTTP server, port, counter | `start`, request handler | `start()` called by one of several | as above |
| **Copilot CLI session mutex** `extension/chatSessions/copilotcli/node/copilotcliSessionService.ts`, `Mutex` | flag, queue of closures | `acquire(token)`, `_release` | cancellation between grant and delivery | exclusion, order, no lost wake-up |
| **Copilot CLI session service** same file | wrappers with reference counts, terminator timers, one mutex per id | `getSession`, `createSession`, `deleteSession`, disposal callbacks | a wrapper's disposal deletes the map entries of whoever came after it | one wrapper per id, counts that match the holders, no session closed under one or left behind |
| **Chat WebSocket manager** `platform/networking/node/chatWebSocketManager.ts` | connection per conversation, active request | `getOrCreateConnection`, `sendRequest`, `closeConnection` | dispose while connecting, superseded requests | a request in flight can be settled, sockets are closed with their turn |
| **Next edit provider** `extension/inlineEdits/node/nextEditProvider.ts` | pending and speculative request, the dependants of each request and their timers | `getNextEdit`, shown/accepted/rejected/ignored | calls join, rebase and back up requests of other calls; timers race with joins | calls return, no request runs for nobody, edits fit their text |
| **Async completions** `extension/completions-core/.../ghostText/asyncCompletions.ts` | requests in flight, most recent id, the subscriptions of every wait | `queueCompletionRequest`, `getFirstMatchingRequest`, `updateCompletion` | cancellation by others, streamed updates, eviction | callers are answered, what the newest caller can use is kept, the rest is cancelled |
| **Tool calling loop** `extension/intents/node/toolCallingLoop.ts` | rounds, limit, stop hooks | `run` | limit, yield, stop hook and cancellation in one loop | every turn ends and keeps its connection |
| **Lock, TaskSingler** `util/common` | flag and queue; promise per key | `acquire`/`release`, `getOrCreate` | barging; failing tasks | exclusion; one task per key |

Other parts (prompts, tools, MCP, BYOK, search and indexing, tokens, transcript
and metadata stores, cloud sessions, telemetry) are listed in `PROJECT.json`
with the reason they are left out.

Interactions modelled: `handleRequest` of the manager calls `invoke` of the
session; the session hands its prompts to the SDK through an async iterable
and reads an async generator back; the SDK process is aborted through an
`AbortController`; the manager disposes its sessions through a
`DisposableMap`; the CLI session service guards `getSession` with a mutex per id
and hands out reference counted sessions, which timers, deletions and other
callers may dispose; the tool calling loop of a turn asks the WebSocket manager for
the connection its rounds share and closes it in the end, while the next turn of
the conversation may already take its place; `getGhostText` waits on requests other
calls have queued.

## Modules

| Module | What it is |
|---|---|
| `ClaudeCodeSession` | the session, the SDK process and the user, one action per step between two awaits |
| `ClaudeCodeSessionProps` | its properties, grouped by what the environment must not do for them to hold |
| `RequestQueue` | the abstract specification: what the session promises the callers of `invoke` |
| `MC_ClaudeCodeSession` | environments and symmetry for TLC |
| `ClaudeCodeSessionTypes`, `ClaudeCodeSessionProofs` | theorems about the session |
| `SessionMutex`, `MC_SessionMutex`, `SessionMutexProofs` | the CLI session mutex |
| `ClaudeAgentManager`, `MC_ClaudeAgentManager`, `ClaudeAgentManagerProofs` | the manager and its server |
| `CliSessionService` | the CLI session service, seen from one session id |
| `CliSessionServiceProps` | its properties; instantiates `SessionMutex` for every mutex the id ever had |
| `MC_CliSessionService`, `CliSessionServiceProofs` | its instance for TLC, its theorems |
| `ChatWebSocketManager` | the connections, sockets and requests of one conversation |
| `ToolCallingLoop` | the turns of that conversation; composes the former |
| `MC_ToolCallingLoop`, `ToolCallingLoopProofs` | its instance, its theorems |
| `NextEditProvider`, `MC_NextEditProvider`, `NextEditProviderProofs` | the next edit provider |
| `AsyncCompletionManager`, `MC_AsyncCompletionManager`, `AsyncCompletionManagerProofs` | the ghost text requests in flight and the calls that wait for them |

Each component module also holds a few *broken variants* of its operations (a
dropped guard, a swapped order), marked as such; no specification uses them.
They document which fault each property notices.

## The Claude session

**One step** is the code between two awaits. Continuations of settled promises
are microtasks and run before the next event; `MicrotaskPending` says that one
is due, and the actions that begin with an event (a call from the editor, I/O, a
timer, the SDK) wait until none is. Without this rule the model would have
interleavings Node.js cannot produce, for instance a user call between the
completion of a request and the iterable's next look at the queue.

**State.** The fields of the object keep their names. A *generation* `g` is one
SDK query with its iterable, its message loop and the abort controller it was
given; `queryGenerator`, `pendingPrompt` and `abortController` hold the
generation they belong to, 0 for none. `aborted` contains 0 while the
controller in the field is aborted but was not given to a query yet. A call of
`invoke` is at `pc[r]`; the settings check, the wait for a start and the
model/permission calls are separate states because the code awaits there.

| Action | Code |
|---|---|
| `Invoke`, `SettingsChecked`, `ControlCallFails`, `Push` | `invoke` up to `hasChanges()`; the restart check and the start; a failing `setModel`; the push and the hand-over to the pending prompt |
| `BuildOptions`, `QueryReady`, `LaunchLoop`, `StartSettles`, `StartFails` | `_doStartSession` between its awaits, and the `finally` of `_startSession` |
| `GetNextRequest`, `YieldPrompt`, `IterableThrows` | `_getNextRequest` and `_createPromptIterable` |
| `MessageWhenCancelled`, `MessageWhenYielding`, `StreamMessage`, `ResultMessage`, `FailureMessage`, `LoopEnds` | one message of `_processMessages`, by the branch it takes; the end of the loop with the whole `_cleanup` |
| `IdleTimeout`, `Dispose` | the gateway idle timer, `dispose()` |
| `SdkStreams`, `SdkAnswers`, `SdkEnds`, `CancelRequest`, `RequestYield` | the environment |

`LaunchLoop` starts `_processMessages` over the generator *of that moment*,
which need not be the one its start created; when it is undefined the
`for await` throws and `_cleanup` runs in the same step.

**The SDK (external)** is modelled from how the code uses it: it pulls the
prompt iterable while it runs and is not aborted; it answers prompts in order,
with streamed messages and one final message each; messages it has sent stay
readable after it was aborted; its stream ends when aborted, or by itself
(event `crash`); leaving the `for await` loop by an exception closes it.

**Abstracted:** contents of prompts and messages, rendering, edit tracking,
hooks, OTel, the capturing token, the gateway object. `setModel` and
`setPermissionMode` are one await because nothing happens between them.

**Environment.** `Events` says what the environment may do. Properties are
grouped by it, since many hold only while something does not happen:

- *Always*: `SingleStart`, `CallersAreQueued`, `GeneratorIsRead`,
  `CompletedInOrder`, `ResumeAfterAnswer`, `OneQueryCreates`, `QueueSpec`
  (refinement of `RequestQueue`).
- *While there is no restart* (settings, tools, idle timer): `OneLiveQuery`,
  `AbortReachesGenerator`, `YieldAborts`, `NoOrphanIterable`,
  `ToolsAskOnOwnRequest`; and, until the first yield or
  disposal, `CompletedByOwnResult`.
- *While queries run until they are yielded* (starts and control calls may
  fail): `CurrentIsHead`, `NeverStranded` and the liveness property `Answered`,
  which hold until the first yield, and `YieldRestarts`, which is about yields.

**Fairness** (`FairSpec`): weak fairness of every step that continues a settled
promise or reads a message; of the SDK's final answer and of its end once it
is aborted. There is none for the user, for streamed messages, for failures
or for the end of an SDK by itself. The JavaScript event loop runs every
continuation that is due, and the loops read what they are sent, which is what
weak fairness says; that the SDK answers is an assumption about the SDK, and
`Answered` is conditional on it.

## The mutex

`acquire` returns `raceCancellation(inner promise, token)`. The inner promise is
resolved in one step and its value reaches the caller in a later microtask;
cancellation in between makes the caller see `undefined`. A call therefore
passes from `waiting` through `granted` to `holding`, and `Cancel` may hit either
of the first two. `Release` runs the closure at the head of the queue, which
takes the lock, or returns without waking the next one if its token is
cancelled. Here no microtask rule is needed: a token is cancelled from code that
may itself run in a microtask, so cancellation may fall between any two steps.

Fairness: the microtask of a granted call runs, and a holder releases (it does so
in a `finally` block). `WaitersServed` says that every waiter gets the lock unless
some call gave up. `LostOnlyByGivingUp` is about steps and says which call that is: the
mutex loses its owner while somebody waits, or while the flag is up, only in a step
that cancels a call whose grant is on its way, or in a release whose wake-up goes to a
closure of a call that was cancelled before. A cancellation of anybody else, at any
moment, leaves every waiter behind an owner.

## The agent manager

A call of `handleRequest` either finds its state uncommitted and returns an error,
or asks for the server. The first one creates and starts it and waits; the others
are given the field, whatever its state. Then, in one step, the config is read
and the session of the id is looked up or created. `invoke` is one step that
may succeed, throw, or never settle (no fairness is assumed); what happens in it is the
module above. `start()` has three outcomes too: the callback of `listen()` resolves or
rejects it (`StartSettled`), or an error event comes instead, for which the code has no
handler (`ListenFails`): then the call that started the server waits for ever, and later
ones go on with a server that does not listen. No property says that calls return,
because the code does not see to it. The port is not modelled: which calls read
it before it is known is one step of `HandleRequest` (entry 4 of the disagreements).

## The Copilot CLI session service

The maps of the service (`sessionMutexForGetSession`, `_sessionWrappers`,
`sessionTerminators`) are independent per session id, so the module follows one
id. Each map entry is replaced during the life of the service; a mutex and a
session are therefore named after the call that created them, and objects that
left the maps stay in the state, because calls still hold or wait for them.

| Action | Code |
|---|---|
| `GetSession`, `Resume`, `Enter`, `AgentSelected`, `Answer` | `getSession` between its awaits: the mutex of the id, the grant, the early return / the reuse of a wrapper / the load, and the `finally` block (`Leave`) |
| `CreateSession` | `createSession`; it makes the id, so no other call can know it yet |
| `DeleteSession`, `Deleted` | `deleteSession` before and after its await |
| `TerminatorFires`, `StartRequest`, `EndRequest` | the shutdown timer, armed and cleared by the status of the session |
| `Release`, `Cancel`, `Dispose` | the caller disposes its reference; its token; disposal of the service |

`CreateCopilotSession` and `ReleaseReference` contain the cascade of disposal
callbacks: replacing a map entry releases the old reference, the last release
disposes the session, and the session's callback empties both maps of the id,
whatever they hold by then.

There is no microtask rule: `getAllSessions` disposes its reference in the
continuation that receives it, so a disposal may fall between a grant and the
continuation of the call that was granted the mutex. The SDK's session manager is
external: it answers or throws, and knows the session until it is deleted. The
editor runs one request of a chat session at a time. Left out: lists of sessions,
titles and labels, the permission status, aborting and closing the SDK session.

`Holders` are the calls that have a reference, or will return it; `Lost` those whose
reference went with the exception of `selectCustomAgent`, which nobody can release any
more. `ReferencesCounted` counts both. `LeakedByAgentOnly` says that an open session whose
holders cannot close it (there are none, or its count is not theirs) has lost a reference in
that way: this leak is real, and the only one. `HeldStaysOpen` lists when a session is
closed under a caller that holds it: by its terminator, by a deletion, or after another
wrapper took its place in the map. The code allows these three. A terminator may also
fire while `selectCustomAgent` is awaited, and the call then returns a disposed session.
That an old session's disposal drops a newer wrapper from the map under its holder
(`copilotcliSessionService.ts:340`) is in the model (`DisposeObject`); no property excludes
it, and `MappedIsOpen`, `LeakedByAgentOnly` and `HeldStaysOpen` hold with it.

Fairness: continuations run, and the SDK answers. Nobody has to call, release,
cancel or delete.

## Turns over a WebSocket

`ToolCallingLoop` is about the turns of one conversation. A turn runs the loop of
`toolCallingLoop.ts` and closes its connection in the `finally` of
`runWithToolCalling`; each round makes a fetch (`chatMLFetcher.ts`) over the
connection `ChatWebSocketManager` has for the conversation. The editor starts the
next turn when the last one is over, or after cancelling it, and then the two overlap
for as long as the old one takes to notice.

A round names the connection it created and the request it sent, since it does each
at most once. `socket[c]` distinguishes how a socket ended because the properties do:
disposed, lost, or abandoned while it was connecting (`dispose` closes `_ws`, which is
only set once the socket has opened) and then open with nobody to close it
(`orphan`).

| Action | Code |
|---|---|
| `Start`, `Iterate`, `PromptBuilt`, `PromptThrows`, `HookAnswers` | `run` and `runOne`: the limit, the yield check, the prompt, the stop hook |
| `Fetch`, `FetchRefused`, `Connected`, `Returned` | the fetch between its awaits: get or create a connection, send, read the answer or the error |
| `CancelTimer` | the cancellation of the active request |
| `Socket` (`SocketOpens`, `SocketFails`, `SocketCloses`, `ServerSettles`) | the events of a socket |
| `Cancel`, `RequestYield`, `Shutdown` | the editor |

Left out: prompts, tool results, statistics, the autopilot mode (which raises the
limit), retries over HTTP. Fairness: the continuations of a turn run; a socket that
connects opens or fails; and a request on an open socket is settled by the server
or by the socket closing. The last two are assumptions about the network, and
the code has no timeout of its own that would replace them.

## Next edits

`NextEditProvider` follows calls of `getNextEdit` from the moment the cache has no edit
for them. Each makes at most one request, so a request is named by its call and
its kind (`fetch`, or the `speculative` one made when the call's suggestion is shown).
A *place* is a document with its text: the decisions of the code compare texts, some
of them without the document, and two documents start with the same text.

| Action | Code |
|---|---|
| `GetNextEdit` | `fetchNextEdit` to its first await: take over the speculative request (`CallSpeculative`), join the pending one (`CallPending`), rebase a stale one, with or without an eager backup (`CallStale`), or make a request (`CallNew`, `Execute`) |
| `JoinReturns`, `OwnReturns`, `RebaseReturns`, `RebaseFails` | its continuations |
| `CancelToken`, `TimerFires` | `_hookupCancellation`: a dependant leaves, and the second that is given to a request nobody depends on |
| `FetchIssued`, `FirstEdit`, `StreamEnds`, `FirstEditThrows` | the stream of a request, `processEdit`, `handleStreamEnd`, the `catch` |
| `DocumentChanges` | the document, and the cancellation of a request it makes useless |
| `HandleShown`, `HandleEndOfLife` | the speculative request of a shown suggestion, made for the text the suggestion leaves behind, with a prompt that applies the edit to the document as it is by then (or none, and the previous one is cancelled all the same); and how acceptance, rejection and dismissal end it |

`EditsFitText` has two parts. An edit a call returns as it is, for its own document, was
computed for the text the document has, unless its request is `Mismatched`: its prompt is
made from another text than the one under which later calls find it. And a request is
made so on two occasions only, both while the text is `Outdated`: by a call whose text
changed during a rebase that failed, and for a suggestion whose text changed before it
was shown. The documents of a call and of the request it joins may differ (the
pending request is compared by its text alone); the edit is then for the other document,
and the property does not speak about it.

`config` is the pair of experiment settings the code branches on; all three
combinations are checked. Continuations of settled promises run before the next
event (`Quiet`). Left out: the contents of the cache, delays, the user's edits
composed into a request under way; a rebase succeeds or fails. Fairness:
continuations run and a stream ends, since `xtabProvider.ts` turns every failure of
its response into an end of the stream.

## Async completions

`AsyncCompletionManager` has the map of requests with its eviction order, the most
recent caller, and for every *wait* of a caller (the first match with a timeout, then
its own request) the requests it is subscribed to. Prompts and completions are short
sequences, because candidates are decided by one being a prefix of another.

| Action | Code |
|---|---|
| `WaitFirst`, `QueueAtOnce`, `FirstReturns`, `FirstTimesOut`, `OwnReturns` | `getGhostText` between its awaits; `GetFirstMatching` subscribes, answers and cancels |
| `Update` | `updateCompletion`, with what every subscribed wait does about it |
| `FetchSucceeds`, `FetchFails` | the continuation of the network request in `queueCompletionRequest` |
| `Clear` | the map is emptied when the user selects another model |

A wait that loses its timeout keeps its subscriptions and its say in what is
cancelled, as in the code. Waits settle through microtasks, which come before the next
event (`Quiet`); that a request is deleted from the map does not end it, so it may
come back when it succeeds. Fairness: continuations run and network requests end;
timers need not fire.

## Runs and bounds

Deadlock checking is off in every run: a session with nothing to do, or whose
requests have all been answered, stops, and so does the bounded model when every
generation is used.

| Run | Instance | States | Shows |
|---|---|---|---|
| `session_all` | 2 requests, 3 generations, 1 buffered message, every event | 2.3 M | the *always* group, `OneQueryCreates` with it |
| `session_no_restart` | 2 requests, 4 generations, 2 buffered | 193 k | the *no restart* group |
| `session_steady` | 3 requests, 4 generations; yields, failing starts and control calls; fair | 119 k | `CurrentIsHead`, `NeverStranded`, `Answered`, `YieldRestarts` |
| `mutex` | 4 calls, all cancellable, fair | 8 k | exclusion, order, lost wake-ups, service |
| `manager` | 3 calls, 2 ids | 32 k | `SharedSession` |
| `cli_service` | 3 calls on one id, every failure, cancellation, deletion and timer; fair | 727 k | open wrappers, counts, leaks, closing under a holder, one wrapper, timers, refinement of the mutex, service of waiters |
| `tool_loop` | 2 turns of 2 rounds, fair | 862 k | requests can be settled, sockets are closed, connections are kept, turns end |
| `next_edit` | 3 calls, 1 document, 2 texts, all configurations | 3.5 M | no request for nobody, none cancelled under a caller, edits fit or their request is one of two kinds |
| `next_edit_returns` | 2 calls, 2 documents, 2 texts, all configurations, fair | 868 k | every call returns |
| `async_completions` | 3 calls (1 speculative), 2 prompts, 2 completions, a map of 2, fair | 552 k | what runs, what is kept, everybody is answered |

and two `violation` runs, `session_stranded` and `mutex_leak`, for the first two entries
of the next section; each checks the one property its entry is about on the smallest
environment that breaks it.

*Why the bounds are enough.* `MaxGen` bounds how often a start is attempted.
Three generations are the smallest number with an old query, its replacement, and
a start that races both; `SettingsChecked` and `LoopEnds` simply cannot start a
fourth. Two requests are enough for one to be in progress while another one is
at any await of `invoke`; three put two behind the head, which order and liveness
need. One buffered message suffices for an assistant message or a late result to
be read after the fields changed; `MaxOut` only bounds streamed messages, the
final one is always sent. Three calls of the session service are one that holds
or has just left the mutex, one that was granted it, and a newcomer that finds the
maps changed; the module has no other bound. Two turns are the one that was cancelled
and the one that overlaps it, which is all the editor allows; two rounds let a turn
reuse, lose and replace its connection. Three calls of `getNextEdit` are the owner of a
request, one that joins it, and one that comes after either has left; two texts are
what a document was and what it became, and going back is what makes a stale request
current again. Speculative requests multiply the states, so the run with three calls
makes them in one configuration, and the one with two calls in the two in which a stale
request is joined; the join after a failed rebase needs the third call. In
`async_completions` the third caller finds the map full and the two others in any
relation to each other, and the capacity of two stands for the code's 100.
Requests are interchangeable, hence symmetry, in runs
without liveness properties only.

## Where the code and its comments disagree

The first two are `violation` runs with the quoted line in `PROJECT.json`.

1. `session_stranded`: a query that ends between the generator test and the push
   strands the request: `invoke` never returns.
2. `mutex_leak`: a mutex whose release function nobody was given.

The others were met while modelling. The models contain them, and the properties state
the exception they make where one is needed.

3. After a yield, the late result of the interrupted prompt completes the request
   that was queued behind it (`claudeCodeAgent.ts:680`; the comment at 678 says "Resolve
   and remove the completed request"). `CompletedByOwnResult` is stated until the first
   yield.
4. `getLangModelServer` returns a server whose `start()` is still under way
   (`claudeCodeAgent.ts:45`; the comment at 78 says "Get server config, start server if
   needed"), so a second request may create its session with port 0; in the model
   `HandleRequest` goes on to `config` while `server` is `"starting"`, `"failed"` or
   `"broken"`.
5. Disposing a session of the CLI service forgets the mutex of its id while a call has
   been granted it; the next call makes a new one and both load the session
   (`copilotcliSessionService.ts:341`; the test at `copilotCliSessionService.spec.ts:208`
   is "concurrent getSession calls for same id create only one wrapper").
   `OneWrapper` is for this reason stated only until a session of the id is
   disposed or deleted.
6. A socket whose connection is disposed while it connects opens later and is never
   closed (`chatWebSocketManager.ts:226-233` against 327-338). `SocketsAreClosed` names
   cancellation and shutdown as the only ways to get there.
7. `cancelBackupRequest` (`nextEditProvider.ts:515-519`) cancels the backup without
   looking at `liveDependentants`, so a third call that joined it is cancelled with it,
   where `_hookupCancellation` goes to some length to avoid that ("there are others
   depending on this request", 875 and 885). It is an exception in
   `NeededIsNotCancelled`.
8. After a failed rebase without backup, the new request is made for the document's
   text of now (639) with a prompt from the history of the invocation (626), and
   later calls with that text join it. So does the speculative request of a suggestion that
   is shown after its document changed: it is found under the text the suggestion would have
   left (965, 1161), and its prompt applies the edit to the text of now (1107-1117). They are
   the two exceptions in `EditsFitText`.
9. A request whose first edit throws (851) stays in `_pendingStatelessNextEditRequest`:
   calls with the same text join it and fail at once, and with asynchronous completions
   those with another text too, until the token of its owner is cancelled.
10. `currentRequestId` is "The most recent inline completion request id, excluding
   speculative requests." (`current.ts:47`), but `getGhostText` sets it for every call
   (`ghostText.ts:152`), so a speculative call makes a user's call give up at its next
   check. In the model a call may give up after its first wait (`GoOn`) for any reason.

The models also contain consequences that no comment contradicts, which is why
some properties are conditional: with `"settings"` or `"tools"` among the
events a restart marks the session as resumed before any message confirmed it and two iterables share `_pendingPrompt`
(`NoOrphanIterable` fails); an `invoke` under way when the session is disposed may
start a query on it; a reference lost with the exception of `selectCustomAgent` keeps its
session open for ever; and a late `handleRequest` adds a session to a disposed map.

## Proofs

`tlapm` checks every theorem for every set of requests, every number of
generations, every bound on buffered messages and every set of events, from the
named assumptions of the component modules only (`NoReq` is not a request,
the bounds are natural numbers, `Events` is a subset of the known ones; `None` is not
a request or call; `Cancellable` is a set of calls; finitely many calls use the
session service; turns, rounds, calls and texts are numbered up to any bound; the
prefixes and completions are sequences of characters, and the map of requests has
room for one).

| Theorem | Argument |
|---|---|
| `ClaudeCodeSessionTypes!TypeCorrect` | `TypeOK` is inductive; one step per action |
| `StartsAreSingle` | strengthened to `StartInv`: a start is in flight exactly while `sessionStarting` names it |
| `GeneratorsAreRead` | inductive over the types: whoever sets the generator goes on to `snapshot`, and a loop that is launched takes the generator of that moment |
| `QueueImplemented` | refinement mapping `queue <- promptQueue`, `outcome` from `pc`; each action is a submission, a completion of the head, a refusal, a rejection of all, or a stutter |
| `CallersQueued`, `InOrder` | the queue invariant of `RequestQueue`, carried by the refinement steps |
| `ResumesAfterAnswer` | `isResumed` is never reset and is set by every step that completes a request |
| `QueriesAreSingle`, `AbortsReach`, `YieldsAbort` | under `NoRestart` (no settings, tools or idle event), `QueryInv`: generator and controller are set and cleared together, a start runs only while there is no generator, and an open message loop reads the generator; with `StartInv`, since otherwise a second start could replace the generator of a running query |
| `SettledOnce` | every step that sets a call's outcome looks for a call that is queued or has not got that far; with `CallersAreQueued`, because a result and a failure settle whatever is in the queue |
| `CreatedOnce` | `CreateInv`: as long as the session is not marked, only the query in the field runs or is read, and none is built while there is one; a start that chose its options before the mark was set found no query running that was told the same |
| `SessionSafe` | under `NoRestart`: `SessionInv`, explained below |
| `NoOrphans`, `ToolsAsk` | parts of `SessionInv`, and what follows from it: the query that can still pull is the one `queryGenerator` names, and what its SDK works on is `WaitsInTurn`'s request |
| `OwnResults` | under `NoRestart`: `SessionInv` and `AbortsAreAsked`, nothing is aborted before somebody yields or the session is disposed; a result that is read then is about the request the iterable waits for, which is the head of the queue |
| `HeadIsCurrent`, `NobodyStranded` | under `Steady`: `Undisturbed`, until somebody yields the one query that was made runs (`RunsOn`) and serves the current request (`Served`) |
| `HeadServed` | under `Steady`: with `AnswersInTurn`, while the iterable waits in turn the SDK has the request in work or its result is on the way |
| `SessionMutexProofs!Exclusion`, `NoLostWakeup` | `MutexInv`: the closures in the queue are exactly the waiting calls plus cancelled ones. A release that wakes a call which was not cancelled hands it the lock, so that one is the new owner (`ReleaseLoses`); a cancellation takes an owner away only from a grant (`CancelLoses`); no other step leaves the lock without an owner |
| `Served` | `MutexInv`: a call that is granted after it waited was the head of the queue a release looked at |
| `ClaudeAgentManagerProofs!SessionShared` | a call at work uses the object the map holds for its id, until disposal |
| `CliSessionServiceProofs!MappedStaysOpen` | inductive over the types: a disposal empties the map, and what is created is put there |
| `MutexesImplemented` | refinement of `SessionMutex` by every mutex at once: a step of the service is one step of the mutex of the acting call and a stutter of the others. It needs that a call in the section holds its mutex (`LockChosen`), and that the queues hold exactly calls of that mutex (`QueuesLinked`), each once (`QueuedOnce`) |
| `CountsReferences`, `LeaksExplained` | `CountBounded` and `GivenCounted`: an open session is counted at least once and at most as often as a reference was given out, which is to a holder or to a call that lost it (`GivenSplit`), and the mapped one as often, by the cardinality of finite sets; it rests on who has a reference (`ReferencesOwned`) and on references being to sessions that exist (`SessionsCreated`) |
| `HeldStays` | the count of the mapped wrapper is that of its references, so a release that closes it is the last one's; the other steps that close a session are those the property lists |
| `LoadedOnce` | `LockedForOne`: a mutex is locked for one call; `MappedIsOnly`: until a session is disposed or deleted all calls use the mutex in the map, a session is loading only while the map has none, and no other session exists |
| `WaitersExplained` | `LockedForOne` and `WaitInv`, a waiting call's closure is in the queue of its mutex; each step of the service is one of `SessionMutex` for the mutex of its call, and loses that mutex only as `LostOnlyByGivingUp` says (`LostOnlyStep`) |
| `BusyNotTimed` | with: one request of the chat session runs at a time, so a request that ends arms the terminator for a session nobody is busy on |
| `ToolCallingLoopProofs!RequestsServed`, `SocketsClosedWithTurn`, `ReusesItsConnection` | one invariant: of two turns that started the earlier one is done or cancelled (`Ordered`), the map holds a connection of a running turn (`MappedOK`), a live turn uses the mapped connection (`Holding`), and nobody closes a socket of a live turn (`NotClosed`) |
| `NextEditProviderProofs!NobodyForgotten` | inductive with what every field can hold (`Kinds`, `Made`, `Fresh`): a request leaves `pending` or `speculative` only cancelled, settled or with a dependant |
| `NeededStays` | `Hooked`: a live call counts as a dependant of what it waits for and of its backup, so no timer finds the request deserted |
| `EditsFit` | `Fitting`: a call that will not rebase waits for a request made for the text it was called with, unless that is mismatched; and two lemmas about what making a request can mismatch (`CreateMismatches`, `ExecuteMismatches`) |
| `CallsAwaitAnswers` | `EndsSettled`: a stream that ends settles the first edit, and only a fetch can throw; with `Made`, a call awaits a request that was made |
| `AsyncCompletionManagerProofs!WaitsWatch` | inductive: a wait that loses its last subscription settles in the same step |
| `CandidatesRun` | `LatestWatchesAll`: the latest wait of the most recent caller is subscribed to every request in flight that the map holds and that is not speculative, so it hears of the update that makes one useless |
| `CandidatesKept` | by the two steps that cancel: what `GetFirstMatching` and `Update` cancel does not match the caller that is the most recent one after the step |

**The conditions.** Some theorems hold for some values of `Events` only, which is a
constant, and say so: `NoRestart` is `Events` without `settings`, `tools` and `idle`,
the environment of the run `session_no_restart`; `Steady` is a subset of `yield`,
`startfail` and `controlfail`, that of `session_steady`. Crashes, cancellation,
yields, disposal and failures of every kind are within `NoRestart`. Outside of these
environments the properties fail, which is why the runs do not check them there: a
restart can leave the prompt of an old query pending, and a query that stops by
itself strands the call that has just looked at the generator.

**The session's invariant.** `SessionInv` is `TypeOK`, `StartInv`, `QueryInv`,
`CallersAreQueued` and `PromptInv`. The last one ties four things the code keeps
apart: the queue, the prompt iterable of each generation, the SDK behind it and the
loop that reads its messages. Its core is `WaitsInTurn`: an iterable that waits for a
request either waits for one that is settled, and moves on before the next event, or
for the head of the queue, which is the current request and the only one the SDK has
in work or has sent messages about. That is not inductive alone:

- a request is yielded later than it is taken from the queue, and must still be its
  head then (`YieldsHead`);
- an aborted query may still send what it had begun, which must not count for the
  next request (`NothingLate`);
- a new query begins while the iterables of older ones still have a step to make.
  They make it before the next event, since it is the continuation of a settled
  promise, and until they have the new query has sent nothing (`OldComesToRest`);
- `_pendingPrompt` has one place, so whoever holds it must be the first to ask: a
  prompt is pending only while nothing is queued, and an older iterable has the place
  only until the present one pulls (`PendingIsFirst`).

The parts were found by running the invariant with TLC on the instances of
`session_no_restart` and `session_steady` and reading the counterexamples, before the
proof of each step. One step per action, one lemma per action that disturbs several
parts (`PromptYield`, `PromptRead`, `PromptComplete`, `PromptDispose`, ...).

**Only model-checked: liveness** (`Answered`, `YieldRestarts`, `WaitersServed`,
`CallsReturn` of the next edit provider, `WaitersReturn`, `TurnsEnd`, `CallersAnswered`), because
the prover does not handle fairness. Every safety property that a passing run checks
is a theorem. For most of the liveness properties the safety half is one too: whoever
waits, waits for something that a fair step is about to do (`HeadServed`,
`NoLostWakeup`, `WaitersExplained`, `CallsAwaitAnswers`, `RequestsServed`,
`WaitsWatch`). That each of these steps brings the end nearer is what TLC adds, on the
bounded instances.

## Not modelled

Whatever `PROJECT.json` lists as `not_modelled`. Within the modelled files: the
content of messages and prompts, tool rendering, hooks and edit tracking of the
session; the HTTP handlers of the language model server; the list of CLI sessions;
the contents of the next edit cache and of the ghost text caches; cycling requests,
which use no async completion. The idle timer's start
while requests are queued, and hooks that keep the token of the first request, are
listed as hazards without a property, with the reason.

Most of the repository's lines are prompts, language data, adapters of the editor and
of servers, telemetry and vendored helpers: they keep no state that several actors
share, and a model of them would repeat their text. The modelled parts are those whose
correctness depends on the order in which things happen.

## What is left

1. `Lock`, `LockMap` and `TaskSingler` as one small module with proofs; the services
   that use them (token, model metadata) on top.
2. The session list of the CLI service (`getAllSessions` and its shared progress), and
   the CLI session with its permission requests.
3. The cache of the next edit provider with its eviction and rebases, as far as it is
   control.
4. More proofs: `Answered`'s argument as a chain of action theorems (each fair step
   brings the answer of the head nearer), and what remains true of the session when it
   is restarted.

## How to run

`tlc -config MC_Session_All.cfg MC_ClaudeCodeSession` checks a run;
`tlapm ClaudeCodeSessionProofs.tla` checks the proofs.
