------------------------ MODULE CliSessionServiceProps ------------------------
(* What the session service promises about one session id.                 *)
EXTENDS CliSessionService

-----------------------------------------------------------------------------
\* What call c looks like from mutex m.
StageIn(m, c) ==
    IF lock[c] # m THEN "idle"
    ELSE IF pc[c] \in {"waiting", "granted", "gone"} THEN pc[c]
    ELSE IF pc[c] \in {"entering", "agent", "loading"} THEN "holding"
    ELSE "done"

Mutex(m) == INSTANCE SessionMutex
    WITH Cancellable <- Call, locked <- locked[m], acquireQueue <- acquireQueue[m],
         state <- [c \in Call |-> StageIn(m, c)]

\* getSession uses every mutex as SessionMutex describes: a call acquires at
\* most one, once, and releases it exactly when it leaves the guarded section,
\* on every path out of it.  So all that holds of a mutex holds of each one the
\* map ever contained, also after it was dropped from the map.
MutexSpec ==
    /\ \A m \in Call : Mutex(m)!Init
    /\ [][\A m \in Call : [Mutex(m)!Next]_(Mutex(m)!vars)]_vars

-----------------------------------------------------------------------------
\* The wrapper a call of getSession would be given is open: disposal, by
\* whatever reference, timer or deletion, and replacement never leave a
\* disposed session in the map.
MappedIsOpen == sessionWrapper # None => object[sessionWrapper] = "open"

\* The calls that have a reference to session o, or will return it.
Holders(o) == {c \in Call : holds[c] = o /\ pc[c] \in {"agent", "using", "busy"}}

\* The calls whose reference to o was acquired and then lost with the exception
\* of selectCustomAgent: nobody was given it, so nobody can release it.
Lost(o) == {c \in Call : holds[c] = o /\ pc[c] = "failed"}

\* The count of the mapped wrapper is the number of calls that hold a
\* reference, plus the references failing selections of an agent have lost,
\* except while deleteSession has taken one that is not its own.
ReferencesCounted ==
    sessionWrapper # None /\ deleting # "pending" =>
        counter[sessionWrapper] =
            Cardinality(Holders(sessionWrapper)) + Cardinality(Lost(sessionWrapper))

\* The releases of all its holders will not close o: its count never meets
\* zero on the way.
Leaked(o) == object[o] = "open" /\ counter[o] \notin 1 .. Cardinality(Holders(o))

\* A session is only ever leaked by a selectCustomAgent that threw: whatever
\* replaces it in the map, deletes it or fails besides, its last holder closes
\* it, and nobody leaves it open behind him.
LeakedByAgentOnly == \A o \in Call : Leaked(o) => Lost(o) # {}

\* A session is closed under a caller that holds it by its terminator or by a
\* deletion, or after another wrapper took its place in the map; the release
\* of one caller does not close the mapped session of another.
HeldStaysOpen ==
    [][\A o \in Call :
         object[o] = "open" /\ object'[o] = "disposed" /\ Holders(o)' # {} =>
            \/ terminator = o /\ terminator' = None
            \/ deleting = "pending" \/ deleting' = "pending"
            \/ sessionWrapper # o \/ sessionWrapper' \notin {o, None}]_vars

\* Concurrent calls of getSession for an id create one wrapper, whatever is
\* cancelled or fails, as long as no session of the id was disposed or deleted.
OneWrapper ==
    deleting = "no" /\ (\A o \in Call : object[o] # "disposed") =>
        \A o, p \in Call : object[o] # "none" /\ object[p] # "none" => o = p

\* No terminator is armed for the session a request is running on: "If in the
\* mean time we get another request, we'll clear the timeout".
BusyIsNotTimed == \A c \in Call : pc[c] = "busy" => terminator # holds[c]

\* A call that waits for the mutex is served unless some call was cancelled,
\* also when its mutex is no longer the one in the map.
WaitersReturn ==
    \A c \in Call : pc[c] = "waiting" ~> pc[c] # "waiting" \/ cancelled # {}
=============================================================================
