------------------------ MODULE ChatWebSocketManager ------------------------
(***************************************************************************)
(* ChatWebSocketManager, ChatWebSocketConnection and                       *)
(* ChatWebSocketActiveRequest of chatWebSocketManager.ts, for one          *)
(* conversation: the connections its turns create, and the requests sent   *)
(* on them.  ToolCallingLoop composes this module with the turns that use  *)
(* it.                                                                     *)
(*                                                                         *)
(* A turn asks for a connection at most once per round of its tool calling *)
(* loop and sends one request on it, so a round names the connection it    *)
(* created, if it did, and the request it sent, if it did.                 *)
(*                                                                         *)
(* A socket is "none" (not created), "connecting", "open", "closed" (by    *)
(* dispose) or "lost" (failed to connect, or closed by the other side).    *)
(* Dispose closes only a socket that has opened; one whose connection was  *)
(* disposed of before is "abandoned", and "orphan" once it opens.  _state  *)
(* is Open exactly while the socket is: onOpen sets it whatever happened   *)
(* to the connection before, dispose and the close event reset it.         *)
(***************************************************************************)
EXTENDS Naturals

CONSTANTS
    MaxTurn,        \* turns of the conversation
    ToolCallLimit,  \* options.toolCallLimit
    NoRound         \* no connection, no request

ASSUME LimitAssumption == MaxTurn \in Nat /\ ToolCallLimit \in Nat

Turn == 1 .. MaxTurn

Round == Turn \X (0 .. ToolCallLimit)

ASSUME NoRoundAssumption == NoRound \notin Round

VARIABLES
    mapped,   \* _connections: the connection of the conversation, or NoRound
    socket,   \* the WebSocket of every connection
    active,   \* _activeRequest of every connection
    request   \* _settled and done of every request

connectionVars == <<mapped, socket, active, request>>

TurnOf(r) == r[1]

ConnectionTypeOK ==
    /\ mapped \in Round \cup {NoRound}
    /\ socket \in [Round -> {"none", "connecting", "open", "closed", "abandoned", "orphan", "lost"}]
    /\ active \in [Round -> Round \cup {NoRound}]
    /\ request \in [Round -> {"none", "pending", "completed", "failed"}]

ConnectionInit ==
    /\ mapped = NoRound
    /\ socket = [c \in Round |-> "none"]
    /\ active = [c \in Round |-> NoRound]
    /\ request = [r \in Round |-> "none"]

IsConnecting(c) == socket[c] \in {"connecting", "abandoned"}

IsOpen(c) == c # NoRound /\ socket[c] \in {"open", "orphan"}

MappedFor(t) == mapped # NoRound /\ TurnOf(mapped) = t

IsPending(r) == r # NoRound /\ request[r] = "pending"

\* handleEvent, handleError and handleConnectionClose do nothing once the
\* request has settled.
Settled(r, result) == IF IsPending(r) THEN [request EXCEPT ![r] = result] ELSE request

\* What dispose does to a socket.
Disposed(s) ==
    CASE s = "open" -> "closed"
      [] s = "connecting" -> "abandoned"
      [] OTHER -> s

\* A broken variant, used to check that the properties notice it: dispose
\* forgets the request in flight.
DisposeForgettingRequest(c, sockets) ==
    /\ socket' = [d \in Round |-> IF d = c THEN Disposed(sockets[d]) ELSE sockets[d]]
    /\ active' = [d \in Round |-> IF d = c THEN NoRound ELSE active[d]]
    /\ UNCHANGED request

\* Dispose of a connection (or of none) while the sockets are as given: the
\* request in flight fails, and a socket that has opened is closed.  One that
\* is still connecting goes on connecting.
Dispose(c, sockets) ==
    /\ socket' = [d \in Round |-> IF d = c THEN Disposed(sockets[d]) ELSE sockets[d]]
    /\ active' = [d \in Round |-> IF d = c THEN NoRound ELSE active[d]]
    /\ request' = IF c = NoRound THEN request ELSE Settled(active[c], "failed")

\* getOrCreateConnection, called in round r: the open connection of the same
\* turn is used again; any other one is disposed of and replaced.
GetOrCreateConnection(r) ==
    \/ /\ IsOpen(mapped) /\ MappedFor(TurnOf(r))
       /\ UNCHANGED connectionVars
    \/ /\ ~(IsOpen(mapped) /\ MappedFor(TurnOf(r)))
       /\ mapped' = r
       /\ Dispose(mapped, [socket EXCEPT ![r] = "connecting"])

\* A broken variant: closeConnection only forgets the connection.
CloseWithoutDisposing(t) ==
    /\ mapped' = IF MappedFor(t) THEN NoRound ELSE mapped
    /\ UNCHANGED <<socket, active, request>>

\* closeConnection for a turn leaves the connection of another turn alone.
CloseConnection(t) ==
    \/ /\ MappedFor(t)
       /\ mapped' = NoRound
       /\ Dispose(mapped, socket)
    \/ /\ ~MappedFor(t)
       /\ UNCHANGED connectionVars

\* closeAll.
CloseAll ==
    /\ mapped' = NoRound
    /\ Dispose(mapped, socket)

\* sendRequest on an open connection: a request still in flight there is
\* superseded.
SendRequest(c, r) ==
    /\ IsOpen(c)
    /\ active' = [active EXCEPT ![c] = r]
    /\ request' = [Settled(active[c], "failed") EXCEPT ![r] = "pending"]
    /\ UNCHANGED <<mapped, socket>>

\* The listener of sendRequest on the token of the request.
CancelActive(c, r) ==
    /\ IF active[c] = r
         THEN /\ active' = [active EXCEPT ![c] = NoRound]
              /\ request' = Settled(r, "failed")
         ELSE UNCHANGED <<active, request>>
    /\ UNCHANGED <<mapped, socket>>

-----------------------------------------------------------------------------
(* Events of the sockets.                                                  *)

\* onOpen, on a connection that may have been disposed of meanwhile.
SocketOpens(c) ==
    /\ IsConnecting(c)
    /\ socket' = [socket EXCEPT ![c] = IF @ = "connecting" THEN "open" ELSE "orphan"]
    /\ UNCHANGED <<mapped, active, request>>

\* onError or onClose during the setup: connect() rejects, and the entry of
\* the map stays.
SocketFails(c) ==
    /\ IsConnecting(c)
    /\ socket' = [socket EXCEPT ![c] = "lost"]
    /\ UNCHANGED <<mapped, active, request>>

\* The close event of an open socket.
SocketCloses(c) ==
    /\ IsOpen(c)
    /\ socket' = [socket EXCEPT ![c] = "lost"]
    /\ active' = [active EXCEPT ![c] = NoRound]
    /\ request' = Settled(active[c], "failed")
    /\ UNCHANGED mapped

\* A message that settles the request in flight (response.completed or
\* error), or an error event of the socket.  _activeRequest is left as it is.
ServerSettles(c) ==
    /\ IsOpen(c) /\ IsPending(active[c])
    /\ \E result \in {"completed", "failed"} : request' = Settled(active[c], result)
    /\ UNCHANGED <<mapped, socket, active>>

SocketEvent(c) ==
    SocketOpens(c) \/ SocketFails(c) \/ SocketCloses(c) \/ ServerSettles(c)
=============================================================================
