------------------------- MODULE ClaudeAgentManager -------------------------
(***************************************************************************)
(* ClaudeAgentManager of claudeCodeAgent.ts: concurrent calls of           *)
(* handleRequest share one language model server, started by the first of  *)
(* them, and one ClaudeCodeSession per session id.  What happens inside    *)
(* invoke() is the module ClaudeCodeSession; here it succeeds or throws.   *)
(***************************************************************************)
EXTENDS Naturals

CONSTANTS
    Req,       \* the calls of handleRequest
    Id,        \* the session ids
    None       \* no session

ASSUME NoneAssumption == None \notin Req

VARIABLES
    server,    \* _langModelServer: unset, being started, or as start() left it
    sessions,  \* _sessions: a session object is named by the call that created it
    disposed,  \* the manager and its session map are disposed
    pc,        \* the await each call is at, or how it returned
    id,        \* the session id of each call
    uses,      \* the session object the call works with
    closed     \* the session objects that were disposed

vars == <<server, sessions, disposed, pc, id, uses, closed>>

TypeOK ==
    /\ server \in {"none", "starting", "listening", "failed", "broken"}
    /\ sessions \in [Id -> Req \cup {None}]
    /\ disposed \in BOOLEAN
    /\ pc \in [Req -> {"idle", "server", "config", "prompt", "invoked", "returned", "error"}]
    /\ id \in [Req -> Id]
    /\ uses \in [Req -> Req \cup {None}]
    /\ closed \in SUBSET Req

Init ==
    /\ server = "none"
    /\ sessions = [s \in Id |-> None]
    /\ disposed = FALSE
    /\ pc = [r \in Req |-> "idle"]
    /\ id \in [Req -> Id]
    /\ uses = [r \in Req |-> None]
    /\ closed = {}

-----------------------------------------------------------------------------
(* handleRequest(r)                                                        *)

\* The state of the session was not committed, or getLangModelServer is
\* called: the first caller starts the server and waits for it, the others
\* are given the server as it is.
HandleRequest(r) ==
    /\ pc[r] = "idle"
    /\ \/ /\ pc' = [pc EXCEPT ![r] = "error"]
          /\ UNCHANGED server
       \/ /\ server = "none"
          /\ server' = "starting"
          /\ pc' = [pc EXCEPT ![r] = "server"]
       \/ /\ server # "none"
          /\ pc' = [pc EXCEPT ![r] = "config"]
          /\ UNCHANGED server
    /\ UNCHANGED <<sessions, disposed, id, uses, closed>>

\* Broken variant: the map is not asked for a session; set() disposes and
\* overwrites the one it has.
UseSessionUnchecked(r) ==
    /\ pc[r] = "config"
    /\ pc' = [pc EXCEPT ![r] = "prompt"]
    /\ sessions' = [sessions EXCEPT ![id[r]] = r]
    /\ uses' = [uses EXCEPT ![r] = r]
    /\ closed' = closed \cup ({sessions[id[r]]} \ {None})
    /\ UNCHANGED <<server, disposed, id>>

\* The config is read, and the session of the id is reused or created with
\* it.  A disposed map still takes the session.
UseSession(r) ==
    /\ pc[r] = "config"
    /\ pc' = [pc EXCEPT ![r] = "prompt"]
    /\ \/ /\ sessions[id[r]] # None
          /\ uses' = [uses EXCEPT ![r] = sessions[id[r]]]
          /\ UNCHANGED sessions
       \/ /\ sessions[id[r]] = None
          /\ sessions' = [sessions EXCEPT ![id[r]] = r]
          /\ uses' = [uses EXCEPT ![r] = r]
    /\ UNCHANGED <<server, disposed, id, closed>>

\* The prompt is resolved: invoke, which throws when the session was disposed
\* meanwhile.
CallInvoke(r) ==
    /\ pc[r] = "prompt"
    /\ pc' = [pc EXCEPT ![r] = IF uses[r] \in closed THEN "error" ELSE "invoked"]
    /\ UNCHANGED <<server, sessions, disposed, id, uses, closed>>

\* invoke settles: handleRequest returns its session id, also for an abort,
\* or the error details.
Return(r) ==
    /\ pc[r] = "invoked"
    /\ \E q \in {"returned", "error"} : pc' = [pc EXCEPT ![r] = q]
    /\ UNCHANGED <<server, sessions, disposed, id, uses, closed>>

-----------------------------------------------------------------------------
(* start() of the server, and disposal                                     *)

\* The callback of listen(): the port is known and start() is resolved, or
\* there is no address and start() is rejected; the server stays set.
StartSettled(ok) ==
    /\ server = "starting"
    /\ server' = IF ok THEN "listening" ELSE "failed"
    /\ pc' = [r \in Req |-> IF pc[r] # "server" THEN pc[r]
                            ELSE IF ok THEN "config" ELSE "error"]
    /\ UNCHANGED <<sessions, disposed, id, uses, closed>>

\* An error event instead of the callback: start() has no handler for it and
\* never settles, and the call that started the server waits for ever.  The
\* server stays set: every later call goes on with port 0.
ListenFails ==
    /\ server = "starting"
    /\ server' = "broken"
    /\ UNCHANGED <<sessions, disposed, pc, id, uses, closed>>

\* The map is cleared and its sessions are disposed.
Dispose ==
    /\ ~disposed
    /\ disposed' = TRUE
    /\ closed' = closed \cup ({sessions[s] : s \in Id} \ {None})
    /\ sessions' = [s \in Id |-> None]
    /\ UNCHANGED <<server, pc, id, uses>>

-----------------------------------------------------------------------------
Step(r) == UseSession(r) \/ CallInvoke(r) \/ Return(r)

Next ==
    \/ \E r \in Req : HandleRequest(r) \/ Step(r)
    \/ \E ok \in BOOLEAN : StartSettled(ok)
    \/ ListenFails
    \/ Dispose

Spec == Init /\ [][Next]_vars

-----------------------------------------------------------------------------
Working == {r \in Req : pc[r] \in {"prompt", "invoked"}}

\* However the calls for one session id interleave with the start of the
\* server, those at work share one session object: its queue is what keeps
\* their prompts in order, and a second object would resume the same session
\* on disk.
SharedSession ==
    ~disposed => \A r, q \in Working : id[r] = id[q] => uses[r] = uses[q]
=============================================================================
