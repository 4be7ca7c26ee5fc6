----------------------- MODULE ToolCallingLoopProofs ------------------------
(***************************************************************************)
(* Theorems about the turns of a conversation and their connections, for   *)
(* every number of turns and every limit of rounds.                        *)
(***************************************************************************)
EXTENDS ToolCallingLoop, TLAPS

-----------------------------------------------------------------------------
(* The inductive invariant.                                                *)

\* Of two turns that started, the earlier one is done or cancelled.
Ordered ==
    \A t, u \in Turn : t < u /\ pc[u] # "none" =>
        pc[t] = "done" \/ (pc[t] # "none" /\ t \in cancelled)

\* The entry of the map belongs to a running turn and was not disposed of.
MappedOK ==
    mapped # NoRound =>
        Running(TurnOf(mapped)) /\ socket[mapped] \in {"connecting", "open", "lost"}

SocketsMapped == \A c \in Round : socket[c] \in {"connecting", "open"} => c = mapped

AbandonedByCancel ==
    \A c \in Round : socket[c] \in {"abandoned", "orphan"} => TurnOf(c) \in cancelled \/ shutdown

\* A socket that connects is awaited by its turn.
Awaited ==
    \A c \in Round : IsConnecting(c) =>
        pc[TurnOf(c)] = "connect" /\ connection[TurnOf(c)] = c

\* A turn uses a connection of its own, and the mapped one while it is live.
Holding ==
    \A t \in Turn : pc[t] \in {"connect", "stream"} =>
        /\ connection[t] \in Round /\ TurnOf(connection[t]) = t
        /\ t \in cancelled \/ shutdown \/ mapped = connection[t]

\* Rounds to come have no connection yet.
Fresh ==
    \A t \in Turn : \A k \in 0 .. ToolCallLimit :
        \/ pc[t] = "none"
        \/ pc[t] \in {"prompt", "fetch"} /\ k >= i[t]
        \/ Running(t) /\ k > i[t]
        => socket[<<t, k>>] = "none"

\* Nobody closes a socket of a live turn.
NotClosed ==
    \A c \in Round :
        Running(TurnOf(c)) /\ TurnOf(c) \notin cancelled /\ ~shutdown => socket[c] # "closed"

Inv ==
    /\ TypeOK /\ Ordered /\ MappedOK /\ SocketsMapped /\ AbandonedByCancel
    /\ Awaited /\ Holding /\ Fresh /\ NotClosed /\ RequestIsServed

LEMMA RoundFacts ==
    /\ \A t \in Turn, k \in 0 .. ToolCallLimit : <<t, k>> \in Round /\ TurnOf(<<t, k>>) = t
    /\ \A r \in Round : r[2] \in 0 .. ToolCallLimit /\ TurnOf(r) \in Turn /\ r = <<TurnOf(r), r[2]>>
    /\ NoRound \notin Round
BY NoRoundAssumption DEF Round, TurnOf

LEMMA InitInv == Init => Inv
<1> SUFFICES ASSUME Init PROVE Inv
  OBVIOUS
<1>1. TypeOK
  <2>1. ConnectionTypeOK
    BY DEF Init, ConnectionInit, ConnectionTypeOK
  <2>2. 0 \in 0 .. ToolCallLimit
    BY LimitAssumption
  <2> QED BY <2>1, <2>2 DEF Init, TypeOK
<1>2. Ordered /\ MappedOK /\ Holding
  BY DEF Init, ConnectionInit, Ordered, MappedOK, Holding
<1>3. SocketsMapped /\ AbandonedByCancel /\ Awaited /\ NotClosed
  BY DEF Init, ConnectionInit, SocketsMapped, AbandonedByCancel, Awaited, NotClosed, IsConnecting
<1>4. Fresh /\ RequestIsServed
  BY RoundFacts DEF Init, ConnectionInit, Fresh, RequestIsServed, IsPending
<1> QED BY <1>1, <1>2, <1>3, <1>4 DEF Inv

-----------------------------------------------------------------------------
(* Steps that leave the connections alone.                                 *)

\* A turn that is not waiting for its connection or its response.
Free(t) ==
    /\ Running(t)
    /\ pc[t] = "connect" => ~IsConnecting(connection[t])
    /\ pc[t] = "stream" => ~IsPending(Current(t))

\* A free turn goes on to its stop hook, or to its next round.
LEMMA MoveKeeps ==
    ASSUME Inv, NEW t \in Turn, Free(t), UNCHANGED connectionVars,
           UNCHANGED <<connection, cancelled, yielded, shutdown>>,
           \/ Goto(t, "hook") /\ UNCHANGED i
           \/ pc[t] = "prompt" /\ Goto(t, "fetch") /\ UNCHANGED i
           \/ i[t] < ToolCallLimit /\ i' = [i EXCEPT ![t] = @ + 1] /\ Goto(t, "prompt")
    PROVE  Inv'
<1> USE DEF connectionVars
<1>a. pc' = [pc EXCEPT ![t] = pc'[t]] /\ pc'[t] \in {"hook", "fetch", "prompt"}
  BY DEF Inv, TypeOK, Goto
<1>b. \A u \in Turn : u # t => pc'[u] = pc[u] /\ i'[u] = i[u]
  BY DEF Inv, TypeOK, Goto
<1>c. i'[t] \in 0 .. ToolCallLimit /\ i' \in [Turn -> 0 .. ToolCallLimit]
  BY LimitAssumption DEF Inv, TypeOK
<1>1. TypeOK'
  <2>1. ConnectionTypeOK'
    BY DEF Inv, TypeOK, ConnectionTypeOK
  <2>2. pc' \in [Turn -> {"none", "prompt", "fetch", "connect", "stream", "hook", "done"}]
    BY <1>a DEF Inv, TypeOK
  <2> QED BY <2>1, <2>2, <1>c DEF Inv, TypeOK
<1>2. Ordered'
  BY <1>a, <1>b DEF Inv, Ordered, Free, Running
<1>3. MappedOK'
  BY <1>a, <1>b, RoundFacts DEF Inv, TypeOK, ConnectionTypeOK, MappedOK, Running
<1>4. SocketsMapped' /\ AbandonedByCancel'
  BY DEF Inv, SocketsMapped, AbandonedByCancel
<1>5. Awaited'
  BY <1>a, <1>b, RoundFacts DEF Inv, Awaited, IsConnecting, Free
<1>6. Holding'
  BY <1>a, <1>b DEF Inv, Holding
<1>7. Fresh'
  <2> SUFFICES ASSUME NEW u \in Turn, NEW k \in 0 .. ToolCallLimit,
                      \/ pc'[u] = "none"
                      \/ pc'[u] \in {"prompt", "fetch"} /\ k >= i'[u]
                      \/ Running(u)' /\ k > i'[u]
               PROVE  socket[<<u, k>>] = "none"
    BY DEF Fresh
  <2>1. CASE u # t
    BY <2>1, <1>b DEF Inv, Fresh, Running
  <2>2. CASE u = t
    <3>1. i[t] \in Nat /\ k \in Nat /\ i'[t] \in Nat
      BY <1>c, LimitAssumption DEF Inv, TypeOK
    <3>2. k > i[t] \/ (pc[t] = "prompt" /\ k >= i[t])
      BY <2>2, <3>1, <1>a DEF Inv, TypeOK, Goto
    <3> QED BY <3>1, <3>2, <2>2 DEF Inv, Fresh, Free
  <2> QED BY <2>1, <2>2
<1>8. NotClosed'
  BY <1>a, <1>b, RoundFacts DEF Inv, NotClosed, Free, Running
<1>9. RequestIsServed'
  BY <1>a, <1>b, RoundFacts DEF Inv, RequestIsServed, IsPending, IsOpen, Free, Current
<1> QED BY <1>1, <1>2, <1>3, <1>4, <1>5, <1>6, <1>7, <1>8, <1>9 DEF Inv

LEMMA StartKeeps ==
    ASSUME Inv, NEW t \in Turn, Start(t)
    PROVE  Inv'
<1> USE DEF connectionVars
<1>b. /\ pc' = [pc EXCEPT ![t] = "prompt"] /\ pc'[t] = "prompt" /\ pc[t] = "none"
      /\ \A u \in Turn : u # t => pc'[u] = pc[u]
  BY DEF Inv, TypeOK, Goto, Start
<1>1. TypeOK'
  BY <1>b DEF Inv, TypeOK, ConnectionTypeOK, Start
<1>2. Ordered'
  <2> SUFFICES ASSUME NEW u \in Turn, NEW v \in Turn, u < v, pc'[v] # "none"
               PROVE  pc'[u] = "done" \/ (pc'[u] # "none" /\ u \in cancelled')
    BY DEF Ordered
  <2>1. CASE v # t
    <3>1. u # t
      BY <2>1, <1>b DEF Inv, Ordered
    <3> QED BY <2>1, <3>1, <1>b DEF Inv, Ordered, Start
  <2>2. CASE v = t
    <3>1. t - 1 \in Turn /\ u <= t - 1 /\ t > 1
      BY <2>2, LimitAssumption DEF Turn
    <3>2. pc[t - 1] = "done" \/ (pc[t - 1] # "none" /\ t - 1 \in cancelled)
      BY <3>1 DEF Start
    <3>3. u = t - 1 \/ u < t - 1
      BY <3>1, LimitAssumption DEF Turn
    <3>4. pc[u] = "done" \/ (pc[u] # "none" /\ u \in cancelled)
      BY <3>1, <3>2, <3>3 DEF Inv, Ordered
    <3> QED BY <3>4, <2>2, <1>b DEF Start
  <2> QED BY <2>1, <2>2
<1>3. MappedOK'
  BY <1>b, RoundFacts DEF Inv, TypeOK, ConnectionTypeOK, MappedOK, Running, Start
<1>4. SocketsMapped' /\ AbandonedByCancel'
  BY DEF Inv, SocketsMapped, AbandonedByCancel, Start
<1>5. Awaited'
  BY <1>b, RoundFacts DEF Inv, Awaited, IsConnecting, Start
<1>6. Holding'
  BY <1>b DEF Inv, Holding, Start
<1>7. Fresh'
  BY <1>b DEF Inv, TypeOK, Fresh, Running, Start
<1>8. NotClosed'
  <2> SUFFICES ASSUME NEW c \in Round, Running(TurnOf(c))', TurnOf(c) \notin cancelled', ~shutdown'
               PROVE  socket[c] # "closed"
    BY DEF NotClosed, Start
  <2>1. CASE TurnOf(c) = t
    BY <2>1, <1>b, RoundFacts DEF Inv, Fresh
  <2>2. CASE TurnOf(c) # t
    BY <2>2, <1>b, RoundFacts DEF Inv, NotClosed, Running, Start
  <2> QED BY <2>1, <2>2
<1>9. RequestIsServed'
  BY <1>b, RoundFacts DEF Inv, RequestIsServed, IsPending, IsOpen, Current, Start
<1> QED BY <1>1, <1>2, <1>3, <1>4, <1>5, <1>6, <1>7, <1>8, <1>9 DEF Inv

LEMMA YieldKeeps ==
    ASSUME Inv, NEW t \in Turn, RequestYield(t)
    PROVE  Inv'
<1> USE DEF connectionVars, RequestYield
<1>1. TypeOK'
  BY DEF Inv, TypeOK, ConnectionTypeOK
<1>2. Ordered' /\ MappedOK' /\ SocketsMapped' /\ AbandonedByCancel'
  BY DEF Inv, Ordered, MappedOK, SocketsMapped, AbandonedByCancel, Running
<1>3. Awaited' /\ Holding' /\ Fresh' /\ NotClosed'
  BY DEF Inv, Awaited, Holding, Fresh, NotClosed, IsConnecting, Running
<1>4. RequestIsServed'
  BY DEF Inv, RequestIsServed, IsPending, IsOpen, Current
<1> QED BY <1>1, <1>2, <1>3, <1>4 DEF Inv

-----------------------------------------------------------------------------
(* Steps that dispose of a connection.                                     *)

Sockets == {"none", "connecting", "open", "closed", "abandoned", "orphan", "lost"}

\* What Settled does, whatever it is told about.
LEMMA SettledFacts ==
    ASSUME ConnectionTypeOK, NEW r \in Round \cup {NoRound}, NEW result \in {"completed", "failed"}
    PROVE  /\ Settled(r, result) \in [Round -> {"none", "pending", "completed", "failed"}]
           /\ \A q \in Round : Settled(r, result)[q] = "pending" => request[q] = "pending" /\ q # r
           /\ \A q \in Round : q # r => Settled(r, result)[q] = request[q]
BY RoundFacts DEF ConnectionTypeOK, Settled, IsPending

\* Dispose touches the one connection, and only settles requests.
LEMMA DisposeFacts ==
    ASSUME ConnectionTypeOK, NEW c \in Round \cup {NoRound},
           NEW sockets \in [Round -> Sockets], Dispose(c, sockets)
    PROVE  /\ socket' \in [Round -> Sockets]
           /\ active' \in [Round -> Round \cup {NoRound}]
           /\ request' \in [Round -> {"none", "pending", "completed", "failed"}]
           /\ \A d \in Round : d # c => socket'[d] = sockets[d] /\ active'[d] = active[d]
           /\ c \in Round => socket'[c] = Disposed(sockets[c])
           /\ \A q \in Round : request'[q] = "pending" =>
                 request[q] = "pending" /\ (c \in Round => q # active[c])
<1>1. socket' \in [Round -> Sockets] /\ active' \in [Round -> Round \cup {NoRound}]
  BY DEF Dispose, Disposed, Sockets, ConnectionTypeOK
<1>2. \A d \in Round : d # c => socket'[d] = sockets[d] /\ active'[d] = active[d]
  BY DEF Dispose
<1>3. c \in Round => socket'[c] = Disposed(sockets[c])
  BY DEF Dispose
<1>4. CASE c = NoRound
  BY <1>1, <1>2, <1>3, <1>4, RoundFacts DEF Dispose, ConnectionTypeOK
<1>5. CASE c \in Round
  <2>1. active[c] \in Round \cup {NoRound} /\ request' = Settled(active[c], "failed")
    BY <1>5, RoundFacts DEF Dispose, ConnectionTypeOK
  <2> QED BY <1>1, <1>2, <1>3, <2>1, SettledFacts
<1> QED BY <1>4, <1>5

\* A free turn ends and closes its connection.
LEMMA FinishKeeps ==
    ASSUME Inv, NEW t \in Turn, Free(t), Finish(t)
    PROVE  Inv'
<1>a. /\ pc' = [pc EXCEPT ![t] = "done"] /\ pc'[t] = "done"
      /\ \A u \in Turn : u # t => pc'[u] = pc[u] /\ i'[u] = i[u] /\ connection'[u] = connection[u]
      /\ cancelled' = cancelled /\ shutdown' = shutdown
  BY DEF Inv, TypeOK, Goto, Finish
<1>t. ConnectionTypeOK /\ mapped \in Round \cup {NoRound} /\ socket \in [Round -> Sockets]
  BY DEF Inv, TypeOK, ConnectionTypeOK, Sockets
<1>b. /\ ConnectionTypeOK'
      /\ mapped' = IF MappedFor(t) THEN NoRound ELSE mapped
      /\ \A d \in Round : d # mapped \/ ~MappedFor(t) => socket'[d] = socket[d] /\ active'[d] = active[d]
      /\ MappedFor(t) => socket'[mapped] = Disposed(socket[mapped])
      /\ \A q \in Round : request'[q] = "pending" => request[q] = "pending"
  <2>1. CASE MappedFor(t)
    <3>1. Dispose(mapped, socket) /\ mapped' = NoRound
      BY <2>1 DEF Finish, CloseConnection
    <3>2. mapped \in Round
      BY <2>1, <1>t DEF MappedFor
    <3> QED BY <3>1, <3>2, <2>1, <1>t, DisposeFacts DEF ConnectionTypeOK, Sockets
  <2>2. CASE ~MappedFor(t)
    BY <2>2, <1>t DEF Finish, CloseConnection, connectionVars, ConnectionTypeOK
  <2> QED BY <2>1, <2>2
<1>c. MappedFor(t) => mapped \in Round /\ socket[mapped] \in {"open", "lost"}
  BY <1>t DEF Inv, MappedFor, MappedOK, Awaited, IsConnecting, Free
<1>1. TypeOK'
  <2>1. i' \in [Turn -> 0 .. ToolCallLimit]
    <3>1. 0 \in 0 .. ToolCallLimit
      BY LimitAssumption
    <3> QED BY <3>1 DEF Finish, Inv, TypeOK
  <2>2. yielded' \in SUBSET Turn /\ connection' \in [Turn -> Round \cup {NoRound}]
    BY DEF Finish, Inv, TypeOK
  <2>3. pc' \in [Turn -> {"none", "prompt", "fetch", "connect", "stream", "hook", "done"}]
    BY <1>a DEF Inv, TypeOK
  <2> QED BY <1>a, <1>b, <2>1, <2>2, <2>3 DEF Inv, TypeOK
<1>2. Ordered'
  BY <1>a DEF Inv, Ordered, Free, Running
<1>3. MappedOK'
  BY <1>a, <1>b, <1>t, RoundFacts DEF Inv, MappedOK, MappedFor, Running
<1>4. SocketsMapped'
  BY <1>b, <1>c DEF Inv, SocketsMapped, Disposed
<1>5. AbandonedByCancel'
  BY <1>a, <1>b, <1>c DEF Inv, AbandonedByCancel, Disposed
<1>6. Awaited'
  BY <1>a, <1>b, <1>c, RoundFacts DEF Inv, Awaited, IsConnecting, Disposed, Free
<1>7. Holding'
  BY <1>a, <1>b DEF Inv, Holding, MappedFor
<1>8. Fresh'
  BY <1>a, <1>b, <1>c, RoundFacts DEF Inv, Fresh, Running, Disposed, MappedFor
<1>9. NotClosed'
  BY <1>a, <1>b, RoundFacts DEF Inv, NotClosed, Running, MappedFor
<1>10. RequestIsServed'
  <2> SUFFICES ASSUME NEW r \in Round, IsPending(r)'
               PROVE  LET u == TurnOf(r) IN
                      /\ r = Current(u)' /\ pc'[u] = "stream"
                      /\ IsOpen(connection[u])' /\ active'[connection'[u]] = r
                      /\ u \in cancelled' \/ shutdown' \/ mapped' = connection'[u]
    BY DEF RequestIsServed
  <2>1. IsPending(r) /\ TurnOf(r) \in Turn
    BY <1>b, RoundFacts DEF IsPending
  <2>2. TurnOf(r) # t
    BY <2>1 DEF Inv, RequestIsServed, Free
  <2>3. connection[TurnOf(r)] \in Round /\ TurnOf(connection[TurnOf(r)]) = TurnOf(r)
    BY <2>1 DEF Inv, RequestIsServed, Holding
  <2> QED BY <2>1, <2>2, <2>3, <1>a, <1>b DEF Inv, RequestIsServed, MappedFor, IsOpen, Current
<1> QED BY <1>1, <1>2, <1>3, <1>4, <1>5, <1>6, <1>7, <1>8, <1>9, <1>10 DEF Inv

\* A live turn is the only live one: the others that run are cancelled.
LEMMA OnlyLiveTurn ==
    ASSUME Inv, NEW t \in Turn, Running(t), t \notin cancelled,
           NEW u \in Turn, u # t, Running(u)
    PROVE  u \in cancelled
<1>1. u < t \/ t < u
  BY LimitAssumption DEF Turn
<1> QED BY <1>1 DEF Inv, Ordered, Running

LEMMA FetchKeeps ==
    ASSUME Inv, NEW t \in Turn, Fetch(t)
    PROVE  Inv'
<1> DEFINE r == Current(t)
<1>a. /\ pc[t] = "fetch" /\ t \notin cancelled /\ Running(t)
      /\ pc' = [pc EXCEPT ![t] = "connect"] /\ pc'[t] = "connect"
      /\ connection' = [connection EXCEPT ![t] = mapped'] /\ connection'[t] = mapped'
      /\ \A u \in Turn : u # t => pc'[u] = pc[u] /\ connection'[u] = connection[u]
      /\ i' = i /\ cancelled' = cancelled /\ yielded' = yielded /\ shutdown' = shutdown
  BY DEF Inv, TypeOK, Goto, Fetch, Running
<1>r. /\ r \in Round /\ TurnOf(r) = t /\ r[2] = i[t]
      /\ i[t] \in 0 .. ToolCallLimit /\ socket[r] = "none" /\ mapped # r
  <2>1. i[t] \in 0 .. ToolCallLimit
    BY DEF Inv, TypeOK
  <2>2. r \in Round /\ TurnOf(r) = t /\ r[2] = i[t]
    BY <2>1, RoundFacts DEF Current
  <2>3. i[t] >= i[t]
    BY <2>1, LimitAssumption
  <2>4. socket[r] = "none"
    BY <2>1, <2>3, <1>a DEF Inv, Fresh, Current
  <2> QED BY <2>1, <2>2, <2>4, RoundFacts DEF Inv, MappedOK
<1>t. ConnectionTypeOK /\ mapped \in Round \cup {NoRound} /\ socket \in [Round -> Sockets]
  BY DEF Inv, TypeOK, ConnectionTypeOK, Sockets
<1> HIDE DEF r
<1>1. CASE IsOpen(mapped) /\ MappedFor(t)
  <2>1. UNCHANGED connectionVars
    BY <1>1, <1>a, <1>r DEF Fetch, GetOrCreateConnection, r
  <2>2. mapped \in Round /\ TurnOf(mapped) = t /\ mapped' = mapped
    BY <1>1, <1>t, <2>1 DEF MappedFor, connectionVars
  <2> USE DEF connectionVars
  <2>3. TypeOK'
    BY <1>a, <2>1, <2>2 DEF Inv, TypeOK, ConnectionTypeOK
  <2>4. Ordered' /\ MappedOK' /\ SocketsMapped' /\ AbandonedByCancel'
    BY <1>a, <2>1, <2>2, RoundFacts DEF Inv, Ordered, MappedOK, SocketsMapped, AbandonedByCancel, Running
  <2>5. Awaited' /\ Holding' /\ NotClosed'
    BY <1>a, <2>1, <2>2, RoundFacts DEF Inv, Awaited, Holding, NotClosed, IsConnecting, Running
  <2>6. Fresh'
    BY <1>a, <1>r, <2>1, LimitAssumption DEF Inv, TypeOK, Fresh, Running
  <2>7. RequestIsServed'
    BY <1>a, <2>1, RoundFacts DEF Inv, RequestIsServed, IsPending, IsOpen, Current
  <2> QED BY <2>3, <2>4, <2>5, <2>6, <2>7 DEF Inv
<1>2. CASE ~(IsOpen(mapped) /\ MappedFor(t))
  <2> DEFINE sockets == [socket EXCEPT ![r] = "connecting"]
  <2>1. mapped' = r /\ Dispose(mapped, sockets)
    BY <1>2, <1>a, <1>r DEF Fetch, GetOrCreateConnection, r
  <2>2. sockets \in [Round -> Sockets] /\ sockets[r] = "connecting"
        /\ \A d \in Round : d # r => sockets[d] = socket[d]
    BY <1>t, <1>r DEF Sockets
  <2> HIDE DEF sockets
  <2>3. /\ ConnectionTypeOK'
        /\ \A d \in Round : d # mapped /\ d # r => socket'[d] = socket[d] /\ active'[d] = active[d]
        /\ socket'[r] = "connecting"
        /\ mapped \in Round => socket'[mapped] = Disposed(socket[mapped])
        /\ \A q \in Round : request'[q] = "pending" => request[q] = "pending"
    <3>1. mapped' \in Round \cup {NoRound}
      BY <2>1, <1>r
    <3>2. socket'[r] = "connecting" /\ (mapped \in Round => socket'[mapped] = Disposed(socket[mapped]))
      BY <2>1, <2>2, <1>t, <1>r, DisposeFacts
    <3> QED BY <2>1, <2>2, <1>t, <1>r, <3>1, <3>2, DisposeFacts DEF ConnectionTypeOK, Sockets
  <2>4. /\ mapped \in Round /\ TurnOf(mapped) = t => socket[mapped] = "lost"
        /\ mapped \in Round /\ TurnOf(mapped) # t => TurnOf(mapped) \in cancelled
    <3>1. mapped \in Round /\ TurnOf(mapped) = t => socket[mapped] = "lost"
      BY <1>2, <1>a, RoundFacts DEF Inv, MappedOK, MappedFor, IsOpen, Awaited, IsConnecting
    <3>2. mapped \in Round /\ TurnOf(mapped) # t => TurnOf(mapped) \in cancelled
      BY <1>a, OnlyLiveTurn, RoundFacts DEF Inv, MappedOK
    <3> QED BY <3>1, <3>2
  <2>5. TypeOK'
    BY <1>a, <1>r, <2>1, <2>3 DEF Inv, TypeOK
  <2>6. Ordered'
    BY <1>a DEF Inv, Ordered
  <2>7. MappedOK'
    BY <1>a, <1>r, <2>1, <2>3 DEF MappedOK, Running
  <2>8. SocketsMapped'
    BY <1>r, <1>t, <2>1, <2>3, RoundFacts DEF Inv, SocketsMapped, Disposed
  <2>9. AbandonedByCancel'
    BY <1>a, <1>r, <1>t, <2>1, <2>3, <2>4 DEF Inv, AbandonedByCancel, Disposed
  <2>10. Awaited'
    BY <1>a, <1>r, <1>t, <2>1, <2>3, <2>4, RoundFacts DEF Inv, Awaited, IsConnecting, Disposed
  <2>11. Holding'
    <3>1. \A u \in Turn : u # t /\ Running(u) => u \in cancelled
      BY <1>a, OnlyLiveTurn
    <3> QED BY <3>1, <1>a, <1>r, <2>1 DEF Inv, Holding, Running
  <2>12. Fresh'
    <3> SUFFICES ASSUME NEW u \in Turn, NEW k \in 0 .. ToolCallLimit,
                        \/ pc'[u] = "none"
                        \/ pc'[u] \in {"prompt", "fetch"} /\ k >= i'[u]
                        \/ Running(u)' /\ k > i'[u]
                 PROVE  socket'[<<u, k>>] = "none"
      BY DEF Fresh
    <3>1. socket[<<u, k>>] = "none"
      BY <1>a DEF Inv, Fresh, Running
    <3>2. <<u, k>> # r
      <4>1. CASE u # t
        BY <4>1, <1>r, RoundFacts
      <4>2. CASE u = t
        <5>1. k > i[t] /\ i[t] \in Nat /\ k \in Nat
          BY <4>2, <1>a, LimitAssumption DEF Inv, TypeOK
        <5> QED BY <5>1, <1>r, RoundFacts
      <4> QED BY <4>1, <4>2
    <3>3. <<u, k>> \in Round /\ <<u, k>> # mapped
      BY <3>1, RoundFacts DEF Inv, MappedOK
    <3> QED BY <3>1, <3>2, <3>3, <2>3
  <2>13. NotClosed'
    BY <1>a, <1>r, <1>t, <2>1, <2>3, <2>4, RoundFacts DEF Inv, NotClosed, Running, Disposed
  <2>14. RequestIsServed'
    <3> SUFFICES ASSUME NEW q \in Round, IsPending(q)'
                 PROVE  LET u == TurnOf(q) IN
                        /\ q = Current(u)' /\ pc'[u] = "stream"
                        /\ IsOpen(connection[u])' /\ active'[connection'[u]] = q
                        /\ u \in cancelled' \/ shutdown' \/ mapped' = connection'[u]
      BY DEF RequestIsServed
    <3> DEFINE u == TurnOf(q)
    <3>1. IsPending(q) /\ u \in Turn
      BY <2>3, RoundFacts DEF IsPending
    <3>2. u # t /\ Running(u) /\ connection[u] \in Round /\ TurnOf(connection[u]) = u
      BY <3>1, <1>a DEF Inv, RequestIsServed, Running, Holding
    <3>3. u \in cancelled
      BY <3>1, <3>2, <1>a, OnlyLiveTurn
    <3>4. connection[u] # mapped
      <4>1. active[connection[u]] = q
        BY <3>1 DEF Inv, RequestIsServed
      <4>2. mapped = connection[u] => q # active[connection[u]]
        <5> SUFFICES ASSUME mapped = connection[u] PROVE q # active[mapped]
          OBVIOUS
        <5>1. mapped \in Round
          BY <3>2
        <5>2. request'[q] = "pending"
          BY DEF IsPending
        <5> QED BY <5>1, <5>2, <2>1, <2>2, <1>t, DisposeFacts
      <4> QED BY <4>1, <4>2
    <3>5. connection[u] # r
      BY <3>2, <1>r
    <3> QED BY <3>1, <3>2, <3>3, <3>4, <3>5, <1>a, <2>3 DEF Inv, RequestIsServed, IsOpen, Current
  <2> QED BY <2>5, <2>6, <2>7, <2>8, <2>9, <2>10, <2>11, <2>12, <2>13, <2>14 DEF Inv
<1> QED BY <1>1, <1>2

LEMMA ShutdownKeeps ==
    ASSUME Inv, Shutdown
    PROVE  Inv'
<1>t. ConnectionTypeOK /\ mapped \in Round \cup {NoRound} /\ socket \in [Round -> Sockets]
  BY DEF Inv, TypeOK, ConnectionTypeOK, Sockets
<1>a. /\ pc' = pc /\ i' = i /\ connection' = connection /\ cancelled' = cancelled
      /\ yielded' = yielded /\ shutdown' = TRUE /\ mapped' = NoRound /\ Dispose(mapped, socket)
  BY DEF Shutdown, CloseAll
<1>b. /\ ConnectionTypeOK'
      /\ \A d \in Round : d # mapped => socket'[d] = socket[d] /\ active'[d] = active[d]
      /\ mapped \in Round => socket'[mapped] = Disposed(socket[mapped])
      /\ \A q \in Round : request'[q] = "pending" =>
            request[q] = "pending" /\ (mapped \in Round => q # active[mapped])
  BY <1>t, <1>a, DisposeFacts DEF ConnectionTypeOK, Sockets
<1>1. TypeOK' /\ Ordered' /\ MappedOK' /\ AbandonedByCancel' /\ NotClosed' /\ Holding'
  BY <1>a, <1>b DEF Inv, TypeOK, Ordered, MappedOK, AbandonedByCancel, NotClosed, Holding
<1>2. SocketsMapped'
  BY <1>a, <1>b, <1>t DEF Inv, SocketsMapped, Disposed
<1>3. Awaited'
  BY <1>a, <1>b, <1>t DEF Inv, Awaited, IsConnecting, Disposed
<1>4. Fresh'
  BY <1>a, <1>b, <1>t, RoundFacts DEF Inv, Fresh, Running, Disposed
<1>5. RequestIsServed'
  <2> SUFFICES ASSUME NEW q \in Round, IsPending(q)'
               PROVE  LET u == TurnOf(q) IN
                      /\ q = Current(u)' /\ pc'[u] = "stream"
                      /\ IsOpen(connection[u])' /\ active'[connection'[u]] = q
                      /\ u \in cancelled' \/ shutdown' \/ mapped' = connection'[u]
    BY DEF RequestIsServed
  <2> DEFINE u == TurnOf(q)
  <2>1. IsPending(q) /\ u \in Turn /\ (mapped \in Round => q # active[mapped])
    BY <1>b, RoundFacts DEF IsPending
  <2>2. connection[u] \in Round /\ connection[u] # mapped
    BY <2>1 DEF Inv, RequestIsServed, Holding
  <2> QED BY <2>1, <2>2, <1>a, <1>b DEF Inv, RequestIsServed, IsOpen, Current
<1> QED BY <1>1, <1>2, <1>3, <1>4, <1>5 DEF Inv

-----------------------------------------------------------------------------
(* Requests.                                                               *)

LEMMA SendKeeps ==
    ASSUME Inv, NEW t \in Turn, pc[t] = "connect",
           SendRequest(connection[t], Current(t)), Goto(t, "stream"),
           UNCHANGED <<i, connection, cancelled, yielded, shutdown>>
    PROVE  Inv'
<1> DEFINE c == connection[t]
           r == Current(t)
<1>t. ConnectionTypeOK
  BY DEF Inv, TypeOK
<1>r. /\ r \in Round /\ TurnOf(r) = t /\ c \in Round /\ TurnOf(c) = t /\ IsOpen(c)
      /\ t \in cancelled \/ shutdown \/ mapped = c
  BY RoundFacts DEF Inv, TypeOK, Current, Holding, SendRequest
<1>a. /\ pc' = [pc EXCEPT ![t] = "stream"] /\ pc'[t] = "stream"
      /\ \A u \in Turn : u # t => pc'[u] = pc[u]
      /\ mapped' = mapped /\ socket' = socket
      /\ active' \in [Round -> Round \cup {NoRound}] /\ active'[c] = r
      /\ \A d \in Round : d # c => active'[d] = active[d]
  BY <1>r, <1>t DEF Inv, TypeOK, Goto, SendRequest, ConnectionTypeOK
<1>b. /\ request' \in [Round -> {"none", "pending", "completed", "failed"}]
      /\ \A q \in Round : q # r /\ request'[q] = "pending" => request[q] = "pending"
  <2>1. active[c] \in Round \cup {NoRound} /\ "failed" \in {"completed", "failed"}
    BY <1>r, <1>t DEF ConnectionTypeOK
  <2>2. request' = [Settled(active[c], "failed") EXCEPT ![r] = "pending"]
    BY DEF SendRequest
  <2>3. /\ Settled(active[c], "failed") \in [Round -> {"none", "pending", "completed", "failed"}]
        /\ \A q \in Round : Settled(active[c], "failed")[q] = "pending" => request[q] = "pending"
    BY <2>1, <1>t, SettledFacts
  <2> QED BY <2>2, <2>3, <1>r
<1> HIDE DEF c, r
<1>1. TypeOK'
  BY <1>a, <1>b DEF Inv, TypeOK, ConnectionTypeOK
<1>2. Ordered'
  BY <1>a DEF Inv, Ordered
<1>3. MappedOK' /\ SocketsMapped' /\ AbandonedByCancel'
  BY <1>a, <1>t, RoundFacts DEF Inv, MappedOK, SocketsMapped, AbandonedByCancel, Running, ConnectionTypeOK
<1>4. Awaited'
  BY <1>a, <1>r, RoundFacts DEF Inv, Awaited, IsConnecting, IsOpen, c
<1>5. Holding'
  BY <1>a DEF Inv, Holding
<1>6. Fresh'
  BY <1>a DEF Inv, Fresh, Running
<1>7. NotClosed'
  BY <1>a, RoundFacts DEF Inv, NotClosed, Running
<1>8. RequestIsServed'
  <2> SUFFICES ASSUME NEW q \in Round, IsPending(q)'
               PROVE  LET u == TurnOf(q) IN
                      /\ q = Current(u)' /\ pc'[u] = "stream"
                      /\ IsOpen(connection[u])' /\ active'[connection'[u]] = q
                      /\ u \in cancelled' \/ shutdown' \/ mapped' = connection'[u]
    BY DEF RequestIsServed
  <2>1. CASE q = r
    <3>1. q = Current(t)' /\ TurnOf(q) = t /\ connection' = connection
      BY <2>1, <1>r DEF r, Current
    <3> QED BY <3>1, <2>1, <1>r, <1>a DEF IsOpen, c
  <2>2. CASE q # r
    <3>1. IsPending(q) /\ TurnOf(q) \in Turn
      BY <2>2, <1>b, RoundFacts DEF IsPending
    <3>2. TurnOf(q) # t /\ connection[TurnOf(q)] \in Round /\ TurnOf(connection[TurnOf(q)]) = TurnOf(q)
      BY <3>1 DEF Inv, RequestIsServed, Holding
    <3> QED BY <3>1, <3>2, <1>a, <1>r DEF Inv, RequestIsServed, IsOpen, Current
  <2> QED BY <2>1, <2>2
<1> QED BY <1>1, <1>2, <1>3, <1>4, <1>5, <1>6, <1>7, <1>8 DEF Inv

\* Steps that settle requests, forget active ones, and at most cancel a turn
\* keep the invariant when what stays pending is still active.
LEMMA SettlingKeeps ==
    ASSUME Inv, UNCHANGED <<mapped, socket, pc, i, connection, yielded, shutdown>>,
           cancelled' \in SUBSET Turn, cancelled \subseteq cancelled',
           active' \in [Round -> Round \cup {NoRound}],
           request' \in [Round -> {"none", "pending", "completed", "failed"}],
           \A q \in Round : request'[q] = "pending" =>
               /\ request[q] = "pending"
               /\ active'[connection[TurnOf(q)]] = active[connection[TurnOf(q)]]
    PROVE  Inv'
<1>1. TypeOK'
  BY DEF Inv, TypeOK, ConnectionTypeOK
<1>2. Ordered' /\ MappedOK' /\ SocketsMapped' /\ AbandonedByCancel'
  BY DEF Inv, Ordered, MappedOK, SocketsMapped, AbandonedByCancel, Running
<1>3. Awaited' /\ Holding' /\ Fresh' /\ NotClosed'
  BY DEF Inv, Awaited, Holding, Fresh, NotClosed, IsConnecting, Running
<1>4. RequestIsServed'
  BY DEF Inv, RequestIsServed, IsPending, IsOpen, Current
<1> QED BY <1>1, <1>2, <1>3, <1>4 DEF Inv

\* Cancelling the request of a connection settles it if it is pending.
LEMMA CancelActiveKeeps ==
    ASSUME Inv, NEW t \in Turn, pc[t] = "stream", CancelActive(connection[t], Current(t)),
           UNCHANGED <<pc, i, connection, yielded, shutdown>>,
           cancelled' \in SUBSET Turn, cancelled \subseteq cancelled'
    PROVE  Inv'
<1> DEFINE c == connection[t]
           r == Current(t)
<1>t. ConnectionTypeOK
  BY DEF Inv, TypeOK
<1>r. r \in Round /\ TurnOf(r) = t /\ c \in Round /\ TurnOf(c) = t
  BY RoundFacts DEF Inv, TypeOK, Current, Holding
<1>1. CASE active[c] = r
  <2>1. active' = [active EXCEPT ![c] = NoRound] /\ request' = Settled(r, "failed")
        /\ UNCHANGED <<mapped, socket>>
    BY <1>1 DEF CancelActive
  <2>2. /\ request' \in [Round -> {"none", "pending", "completed", "failed"}]
        /\ \A q \in Round : request'[q] = "pending" => request[q] = "pending" /\ q # r
    BY <2>1, <1>r, <1>t, SettledFacts
  <2>3. active' \in [Round -> Round \cup {NoRound}]
    BY <2>1, <1>t DEF ConnectionTypeOK
  <2>4. ASSUME NEW q \in Round, request'[q] = "pending"
        PROVE  active'[connection[TurnOf(q)]] = active[connection[TurnOf(q)]]
    <3>1. active[connection[TurnOf(q)]] = q /\ q # r
      BY <2>2, <2>4, RoundFacts DEF Inv, RequestIsServed, IsPending
    <3>2. connection[TurnOf(q)] # c
      BY <3>1, <1>1
    <3> QED BY <3>2, <2>1, <1>t DEF ConnectionTypeOK
  <2> HIDE DEF c, r
  <2> QED BY <2>1, <2>2, <2>3, <2>4, SettlingKeeps
<1>2. CASE active[c] # r
  <2>1. UNCHANGED <<mapped, socket, active, request>>
    BY <1>2 DEF CancelActive
  <2> QED BY <2>1, <1>t, SettlingKeeps DEF ConnectionTypeOK
<1> QED BY <1>1, <1>2

LEMMA CancelKeeps ==
    ASSUME Inv, NEW t \in Turn, Cancel(t) \/ CancelTimer(t)
    PROVE  Inv'
<1>1. CASE Cancel(t)
  <2>1. /\ UNCHANGED <<pc, i, connection, yielded, shutdown>>
        /\ cancelled' \in SUBSET Turn /\ cancelled \subseteq cancelled'
    BY <1>1 DEF Cancel, Inv, TypeOK
  <2>2. CASE pc[t] = "stream"
    BY <1>1, <2>1, <2>2, CancelActiveKeeps DEF Cancel
  <2>3. CASE pc[t] # "stream"
    <3>1. UNCHANGED connectionVars
      BY <1>1, <2>3 DEF Cancel
    <3> QED BY <2>1, <3>1, SettlingKeeps DEF connectionVars, Inv, TypeOK, ConnectionTypeOK
  <2> QED BY <2>2, <2>3
<1>2. CASE CancelTimer(t)
  BY <1>2, CancelActiveKeeps DEF CancelTimer, loopVars, Inv, TypeOK
<1> QED BY <1>1, <1>2

-----------------------------------------------------------------------------
(* Events of the sockets.                                                  *)

LEMMA SocketKeeps ==
    ASSUME Inv, NEW c \in Round, Socket(c)
    PROVE  Inv'
<1>u. UNCHANGED <<pc, i, connection, cancelled, yielded, shutdown>>
  BY DEF Socket, loopVars
<1>t. ConnectionTypeOK
  BY DEF Inv, TypeOK
<1>1. CASE ServerSettles(c)
  <2>1. PICK result \in {"completed", "failed"} : request' = Settled(active[c], result)
    BY <1>1 DEF ServerSettles
  <2>2. active[c] \in Round \cup {NoRound}
    BY <1>t DEF ConnectionTypeOK
  <2>3. /\ request' \in [Round -> {"none", "pending", "completed", "failed"}]
        /\ \A q \in Round : request'[q] = "pending" => request[q] = "pending"
    BY <2>1, <2>2, <1>t, SettledFacts
  <2>4. UNCHANGED <<mapped, socket, active>>
    BY <1>1 DEF ServerSettles
  <2> QED BY <2>3, <2>4, <1>u, <1>t, SettlingKeeps DEF ConnectionTypeOK, Inv, TypeOK
<1>2. CASE SocketOpens(c) \/ SocketFails(c) \/ SocketCloses(c)
  <2>1. /\ mapped' = mapped
        /\ socket' \in [Round -> Sockets] /\ \A d \in Round : d # c => socket'[d] = socket[d]
        /\ \/ socket'[c] = "lost" /\ IsConnecting(c) /\ UNCHANGED <<active, request>>
           \/ socket'[c] = "open" /\ socket[c] = "connecting" /\ UNCHANGED <<active, request>>
           \/ socket'[c] = "orphan" /\ socket[c] = "abandoned" /\ UNCHANGED <<active, request>>
           \/ socket'[c] = "lost" /\ IsOpen(c)
    BY <1>2, <1>t DEF SocketOpens, SocketFails, SocketCloses, IsConnecting, IsOpen, ConnectionTypeOK, Sockets
  <2>2. /\ active' \in [Round -> Round \cup {NoRound}]
        /\ \A d \in Round : d # c => active'[d] = active[d]
        /\ request' \in [Round -> {"none", "pending", "completed", "failed"}]
        /\ \A q \in Round : request'[q] = "pending" =>
              request[q] = "pending" /\ (IsOpen(c) => q # active[c])
    <3>1. CASE SocketCloses(c)
      <4>1. active[c] \in Round \cup {NoRound}
        BY <1>t DEF ConnectionTypeOK
      <4> QED BY <3>1, <4>1, <1>t, SettledFacts DEF SocketCloses, ConnectionTypeOK
    <3>2. CASE SocketOpens(c) \/ SocketFails(c)
      BY <3>2, <1>t DEF SocketOpens, SocketFails, IsConnecting, IsOpen, ConnectionTypeOK
    <3> QED BY <3>1, <3>2, <1>2
  <2>3. TypeOK'
    BY <1>u, <2>1, <2>2 DEF Inv, TypeOK, ConnectionTypeOK, Sockets
  <2>4. Ordered' /\ Holding'
    BY <1>u, <2>1 DEF Inv, Ordered, Holding
  <2>5. MappedOK'
    BY <1>u, <1>t, <2>1 DEF Inv, MappedOK, Running, ConnectionTypeOK
  <2>6. SocketsMapped' /\ AbandonedByCancel'
    BY <1>u, <2>1 DEF Inv, SocketsMapped, AbandonedByCancel
  <2>7. Awaited'
    BY <1>u, <2>1 DEF Inv, Awaited, IsConnecting
  <2>8. Fresh'
    BY <1>u, <2>1, RoundFacts DEF Inv, Fresh, Running, IsConnecting, IsOpen
  <2>9. NotClosed'
    BY <1>u, <2>1 DEF Inv, NotClosed, Running
  <2>10. RequestIsServed'
    <3> SUFFICES ASSUME NEW q \in Round, IsPending(q)'
                 PROVE  LET u == TurnOf(q) IN
                        /\ q = Current(u)' /\ pc'[u] = "stream"
                        /\ IsOpen(connection[u])' /\ active'[connection'[u]] = q
                        /\ u \in cancelled' \/ shutdown' \/ mapped' = connection'[u]
      BY DEF RequestIsServed
    <3> DEFINE u == TurnOf(q)
    <3>1. IsPending(q) /\ u \in Turn /\ (IsOpen(c) => q # active[c])
      BY <2>2, RoundFacts DEF IsPending
    <3>2. connection[u] \in Round /\ IsOpen(connection[u]) /\ active[connection[u]] = q
      BY <3>1 DEF Inv, RequestIsServed, Holding
    <3>3. connection[u] # c
      BY <3>1, <3>2
    <3> QED BY <3>1, <3>2, <3>3, <1>u, <2>1, <2>2 DEF Inv, RequestIsServed, IsOpen, Current
  <2> QED BY <2>3, <2>4, <2>5, <2>6, <2>7, <2>8, <2>9, <2>10 DEF Inv
<1> QED BY <1>1, <1>2 DEF Socket, SocketEvent

-----------------------------------------------------------------------------
(* Every step.                                                             *)

\* A free turn may go to its stop hook, iterate or end.
LEMMA IterateKeeps ==
    ASSUME Inv, NEW t \in Turn, Free(t), Iterate(t) \/ Unsuccessful(t)
    PROVE  Inv'
BY MoveKeeps, FinishKeeps DEF Iterate, Unsuccessful

LEMMA StepKeeps ==
    ASSUME Inv, NEW t \in Turn, Step(t)
    PROVE  Inv'
<1>1. CASE PromptBuilt(t)
  BY <1>1, MoveKeeps DEF PromptBuilt, Free, Running
<1>2. CASE PromptThrows(t)
  BY <1>2, FinishKeeps DEF PromptThrows, Free, Running
<1>3. CASE Fetch(t)
  BY <1>3, FetchKeeps
<1>4. CASE FetchRefused(t)
  BY <1>4, IterateKeeps DEF FetchRefused, Free, Running
<1>5. CASE Connected(t)
  BY <1>5, SendKeeps, IterateKeeps DEF Connected, Free, Running
<1>6. CASE Returned(t)
  BY <1>6, IterateKeeps, FinishKeeps DEF Returned, Free, Running
<1>7. CASE HookAnswers(t)
  BY <1>7, IterateKeeps, FinishKeeps DEF HookAnswers, Free, Running
<1>8. CASE CancelTimer(t)
  BY <1>8, CancelKeeps
<1> QED BY <1>1, <1>2, <1>3, <1>4, <1>5, <1>6, <1>7, <1>8 DEF Step

LEMMA NextInv == Inv /\ [Next]_vars => Inv'
<1> SUFFICES ASSUME Inv, [Next]_vars PROVE Inv'
  OBVIOUS
<1>1. CASE Next
  BY <1>1, StartKeeps, StepKeeps, CancelKeeps, YieldKeeps, SocketKeeps, ShutdownKeeps DEF Next
<1>2. CASE UNCHANGED vars
  <2>1. UNCHANGED <<connectionVars, pc, i, connection, cancelled, yielded, shutdown>>
    BY <1>2 DEF vars, loopVars
  <2> QED BY <2>1, SettlingKeeps DEF connectionVars, Inv, TypeOK, ConnectionTypeOK
<1> QED BY <1>1, <1>2

LEMMA InvAlways == Spec => []Inv
BY InitInv, NextInv, PTL DEF Spec

\* Every reachable state is well typed.
THEOREM TypeCorrect == Spec => []TypeOK
<1>1. Inv => TypeOK
  BY DEF Inv
<1> QED BY <1>1, InvAlways, PTL

\* A request in flight can always be settled by the connection that carries
\* it, and a live turn keeps its connection in the map.
THEOREM RequestsServed == Spec => []RequestIsServed
<1>1. Inv => RequestIsServed
  BY DEF Inv
<1> QED BY <1>1, InvAlways, PTL

\* Only cancelling or shutting down during the setup of a connection leaves a
\* socket behind.
THEOREM SocketsClosedWithTurn == Spec => []SocketsAreClosed
<1>1. Inv => SocketsAreClosed
  BY RoundFacts DEF Inv, SocketsAreClosed, SocketsMapped, AbandonedByCancel, MappedOK
<1> QED BY <1>1, InvAlways, PTL

-----------------------------------------------------------------------------
(* Connecting again.                                                       *)

Reused(t, k) ==
    socket[<<t, k>>] = "none" /\ socket'[<<t, k>>] # "none" /\ ~shutdown =>
        \A j \in 0 .. ToolCallLimit : socket[<<t, j>>] \in {"none", "lost"}

\* Only the fetch of a round gives it a socket.
LEMMA OnlyFetchCreates ==
    ASSUME Inv, [Next]_vars, NEW t \in Turn, NEW k \in 0 .. ToolCallLimit,
           socket[<<t, k>>] = "none", socket'[<<t, k>>] # "none"
    PROVE  Fetch(t) /\ k = i[t] /\ mapped' = <<t, k>>
<1> DEFINE c == <<t, k>>
<1>c. c \in Round /\ TurnOf(c) = t
  BY RoundFacts
<1>t. ConnectionTypeOK /\ mapped \in Round \cup {NoRound} /\ socket \in [Round -> Sockets]
  BY DEF Inv, TypeOK, ConnectionTypeOK, Sockets
<1> HIDE DEF c
<1>d. ASSUME Dispose(mapped, socket) PROVE FALSE
  BY <1>c, <1>t, <1>d, DisposeFacts DEF Disposed, c
<1>f. ASSUME NEW u \in Turn, Finish(u) PROVE FALSE
  BY <1>f, <1>d DEF Finish, CloseConnection, connectionVars
<1>n. ASSUME socket' = socket PROVE FALSE
  BY <1>n
<1>1. ASSUME NEW u \in Turn, Fetch(u)
      PROVE  Fetch(t) /\ k = i[t] /\ mapped' = c
  <2>1. Current(u) \in Round /\ TurnOf(Current(u)) = u /\ Current(u)[2] = i[u]
    BY RoundFacts DEF Inv, TypeOK, Current
  <2>2. mapped' = Current(u) /\ Dispose(mapped, [socket EXCEPT ![Current(u)] = "connecting"])
    BY <1>1, <1>n DEF Fetch, GetOrCreateConnection, connectionVars
  <2>3. [socket EXCEPT ![Current(u)] = "connecting"] \in [Round -> Sockets]
    BY <1>t DEF Sockets
  <2>4. c = Current(u)
    <3> SUFFICES ASSUME c # Current(u) PROVE FALSE
      OBVIOUS
    <3> DEFINE sockets == [socket EXCEPT ![Current(u)] = "connecting"]
    <3>1. sockets[c] = "none" /\ socket'[c] # "none"
      BY <1>c, <1>t DEF c
    <3> HIDE DEF sockets
    <3>2. Dispose(mapped, sockets) /\ sockets \in [Round -> Sockets]
      BY <2>2, <2>3 DEF sockets
    <3>3. socket'[c] = sockets[c] \/ socket'[c] = Disposed(sockets[c])
      BY <3>2, <1>c, <1>t, DisposeFacts
    <3> QED BY <3>1, <3>3 DEF Disposed
  <2>5. u = t /\ k = i[t]
    BY <2>1, <2>4, <1>c DEF c
  <2> QED BY <2>2, <2>4, <2>5, <1>1
<1>2. ASSUME NEW u \in Turn, Iterate(u) \/ Unsuccessful(u) PROVE FALSE
  BY <1>2, <1>f, <1>n DEF Iterate, Unsuccessful, connectionVars
<1>3. CASE \E u \in Turn : Start(u) \/ Cancel(u) \/ RequestYield(u)
  BY <1>3, <1>n DEF Start, Cancel, RequestYield, CancelActive, connectionVars
<1>4. ASSUME NEW u \in Turn, Step(u)
      PROVE  Fetch(t) /\ k = i[t] /\ mapped' = c
  <2>1. CASE PromptBuilt(u) \/ CancelTimer(u)
    BY <2>1, <1>n DEF PromptBuilt, CancelTimer, CancelActive, connectionVars
  <2>2. CASE PromptThrows(u) \/ HookAnswers(u) \/ Returned(u) \/ FetchRefused(u)
    BY <2>2, <1>f, <1>2 DEF PromptThrows, HookAnswers, Returned, FetchRefused
  <2>3. CASE Connected(u)
    BY <2>3, <1>2, <1>n DEF Connected, SendRequest
  <2> QED BY <1>4, <1>1, <2>1, <2>2, <2>3 DEF Step
<1>5. CASE \E d \in Round : Socket(d)
  BY <1>5, <1>c, <1>t, <1>n DEF Socket, SocketEvent, SocketOpens, SocketFails, SocketCloses,
       ServerSettles, IsConnecting, IsOpen, c
<1>6. CASE Shutdown
  BY <1>6, <1>d DEF Shutdown, CloseAll
<1> QED BY <1>3, <1>4, <1>5, <1>6, <1>n DEF Next, vars, connectionVars, c

\* A turn connects again only when the other side closed, or refused, each of
\* the connections it had before.
THEOREM ReusesItsConnection == Spec => ReusedAcrossRounds
<1>1. ASSUME Inv, [Next]_vars, NEW t \in Turn, NEW k \in 0 .. ToolCallLimit
      PROVE  Reused(t, k)
  <2> SUFFICES ASSUME socket[<<t, k>>] = "none", socket'[<<t, k>>] # "none", ~shutdown,
                      NEW j \in 0 .. ToolCallLimit
               PROVE  socket[<<t, j>>] \in {"none", "lost"}
    BY DEF Reused
  <2>1. Fetch(t) /\ k = i[t] /\ mapped' = <<t, k>>
    BY <1>1, OnlyFetchCreates
  <2>2. pc[t] = "fetch" /\ t \notin cancelled /\ Running(t)
    BY <2>1 DEF Fetch, Running
  <2>3. <<t, j>> \in Round /\ TurnOf(<<t, j>>) = t
    BY RoundFacts
  <2>4. socket[<<t, j>>] \notin {"connecting", "abandoned", "orphan", "closed"}
    BY <1>1, <2>2, <2>3 DEF Inv, Awaited, IsConnecting, AbandonedByCancel, NotClosed
  <2>5. socket[<<t, j>>] # "open"
    <3> SUFFICES ASSUME socket[<<t, j>>] = "open" PROVE FALSE
      OBVIOUS
    <3>1. mapped = <<t, j>> /\ IsOpen(mapped) /\ MappedFor(t)
      BY <1>1, <2>3, RoundFacts DEF Inv, SocketsMapped, IsOpen, MappedFor
    <3>2. TurnOf(Current(t)) = t
      BY DEF Current, TurnOf
    <3> QED BY <2>1, <3>1, <3>2 DEF Fetch, GetOrCreateConnection, connectionVars
  <2> QED BY <1>1, <2>3, <2>4, <2>5 DEF Inv, TypeOK, ConnectionTypeOK
<1>2. Inv /\ [Next]_vars =>
        [\A t \in Turn, k \in 0 .. ToolCallLimit : Reused(t, k)]_vars
  BY <1>1
<1>3. (\A t \in Turn, k \in 0 .. ToolCallLimit : Reused(t, k)) <=>
      (\A t \in Turn, k \in 0 .. ToolCallLimit :
         socket[<<t, k>>] = "none" /\ socket'[<<t, k>>] # "none" /\ ~shutdown =>
            \A j \in 0 .. ToolCallLimit : socket[<<t, j>>] \in {"none", "lost"})
  BY DEF Reused
<1> QED BY <1>2, <1>3, InvAlways, PTL DEF Spec, ReusedAcrossRounds
=============================================================================
