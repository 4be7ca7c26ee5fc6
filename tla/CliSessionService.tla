--------------------------- MODULE CliSessionService ---------------------------
(***************************************************************************)
(* CopilotCLISessionService, seen from one session id: the mutex and the   *)
(* wrapper its maps hold for the id, the reference counted sessions that   *)
(* were created for it, and the calls of getSession and createSession with *)
(* the reference each returns.                                             *)
(*                                                                         *)
(* A mutex, and a session, is named after the call that created it.        *)
(* A call passes through                                                   *)
(*                                                                         *)
(*   "idle"      not made yet                                              *)
(*   "waiting", "granted", "entering"                                      *)
(*               in the mutex: queued, lock taken, promise resolved        *)
(*   "agent", "loading"                                                    *)
(*               in the guarded section: awaiting selectCustomAgent, or    *)
(*               the session manager                                       *)
(*   "using", "busy"                                                       *)
(*               the caller has its reference; busy in handleRequest       *)
(*   "gone"      acquire resolved to undefined                             *)
(*   "failed"    turned back, or threw, in the section                     *)
(*   "done"      the caller has disposed its reference                     *)
(*                                                                         *)
(* There is no microtask rule: tokens are cancelled and references are     *)
(* disposed from code that may itself run in a microtask (getAllSessions   *)
(* disposes a reference in the continuation that receives it).             *)
(***************************************************************************)
EXTENDS Integers, FiniteSets, Sequences

CONSTANTS
    Call,   \* the calls of getSession and createSession
    None

ASSUME NoneAssumption == None \notin Call

\* Only finitely many calls are made.
ASSUME CallAssumption == IsFiniteSet(Call)

VARIABLES
    sessionMutex,     \* sessionMutexForGetSession.get(id)
    locked,           \* Mutex._locked of every mutex
    acquireQueue,     \* Mutex._acquireQueue of every mutex
    lock,             \* the mutex each call waits for or holds
    pc,               \* where each call is
    cancelled,        \* the calls whose token is cancelled
    sessionWrapper,   \* _sessionWrappers.get(id)
    object,           \* each CopilotCLISession: none yet, open or disposed
    counter,          \* RefCountedDisposable._counter of its wrapper
    holds,            \* the session each call has a reference to
    terminator,       \* the session that sessionTerminators.get(id) will dispose
    deleting,         \* progress of deleteSession
    stored,           \* does the session manager know the session
    isDisposed        \* the service is disposed

mutexVars == <<sessionMutex, locked, acquireQueue, lock>>
callVars == <<pc, cancelled, holds>>
objectVars == <<sessionWrapper, object, counter>>
otherVars == <<terminator, deleting, stored, isDisposed>>
vars == <<mutexVars, callVars, objectVars, otherVars>>

Stages == {"idle", "waiting", "granted", "entering", "agent", "loading",
           "using", "busy", "gone", "failed", "done"}

TypeOK ==
    /\ sessionMutex \in Call \cup {None}
    /\ locked \in [Call -> BOOLEAN]
    /\ acquireQueue \in [Call -> Seq(Call)]
    /\ lock \in [Call -> Call \cup {None}]
    /\ pc \in [Call -> Stages]
    /\ cancelled \in SUBSET Call
    /\ sessionWrapper \in Call \cup {None}
    /\ object \in [Call -> {"none", "open", "disposed"}]
    /\ counter \in [Call -> Int]
    /\ holds \in [Call -> Call \cup {None}]
    /\ terminator \in Call \cup {None}
    /\ deleting \in {"no", "pending", "done"}
    /\ stored \in BOOLEAN
    /\ isDisposed \in BOOLEAN

Init ==
    /\ sessionMutex = None
    /\ locked = [m \in Call |-> FALSE]
    /\ acquireQueue = [m \in Call |-> <<>>]
    /\ lock = [c \in Call |-> None]
    /\ pc = [c \in Call |-> "idle"]
    /\ cancelled = {}
    /\ sessionWrapper = None
    /\ object = [o \in Call |-> "none"]
    /\ counter = [o \in Call |-> 0]
    /\ holds = [c \in Call |-> None]
    /\ terminator = None
    /\ deleting = "no"
    /\ stored = TRUE
    /\ isDisposed = FALSE

-----------------------------------------------------------------------------
(* The mutex, as in SessionMutex, and the disposal of a session.           *)

\* c leaves the guarded section for stage s: the finally block disposes the
\* lock, and the closure at the head of the queue takes it, or returns without
\* waking the next one when its token is cancelled.
Leave(c, s) ==
    LET m == lock[c]
        woken == acquireQueue[m] # <<>> /\ Head(acquireQueue[m]) \notin cancelled
    IN  /\ locked' = [locked EXCEPT ![m] = woken]
        /\ acquireQueue' = [acquireQueue EXCEPT ![m] = IF @ = <<>> THEN @ ELSE Tail(@)]
        /\ pc' = [d \in Call |-> IF d = c THEN s
                                 ELSE IF woken /\ d = Head(acquireQueue[m]) THEN "granted"
                                 ELSE pc[d]]

\* Broken variants, here and below, show what the properties notice.  This
\* disposal callback forgets the wrapper map.
DisposeKeepingWrapper(o) ==
    IF object[o] = "open"
      THEN /\ object' = [object EXCEPT ![o] = "disposed"]
           /\ sessionMutex' = None
           /\ UNCHANGED sessionWrapper
      ELSE UNCHANGED <<object, sessionWrapper, sessionMutex>>

\* The disposal callback of createCopilotSession removes whatever wrapper and
\* mutex the maps hold for the id.  Disposing again does nothing.
DisposeObject(o) ==
    IF object[o] = "open"
      THEN /\ object' = [object EXCEPT ![o] = "disposed"]
           /\ sessionWrapper' = None
           /\ sessionMutex' = None
      ELSE UNCHANGED <<object, sessionWrapper, sessionMutex>>

\* The count is compared before it is decremented.
ReleaseTestingFirst(o) ==
    /\ counter' = [counter EXCEPT ![o] = @ - 1]
    /\ IF counter[o] = 0
         THEN DisposeObject(o)
         ELSE UNCHANGED <<object, sessionWrapper, sessionMutex>>

\* RefCountedDisposable.release: only the count of exactly 0 disposes.
ReleaseReference(o) ==
    /\ counter' = [counter EXCEPT ![o] = @ - 1]
    /\ IF counter[o] = 1
         THEN DisposeObject(o)
         ELSE UNCHANGED <<object, sessionWrapper, sessionMutex>>

-----------------------------------------------------------------------------
(* getSession.                                                             *)

\* getSession that makes a mutex without looking for the one of the id,
\* returns early without disposing the lock, reuses a wrapper without
\* acquiring it, or disposes the lock only when the load succeeds.
GetSessionOnNewMutex(c) ==
    /\ pc[c] = "idle"
    /\ sessionMutex' = c
    /\ lock' = [lock EXCEPT ![c] = c]
    /\ IF c \in cancelled
         THEN pc' = [pc EXCEPT ![c] = "gone"] /\ UNCHANGED locked
         ELSE /\ pc' = [pc EXCEPT ![c] = "granted"]
              /\ locked' = [locked EXCEPT ![c] = TRUE]
    /\ UNCHANGED <<acquireQueue, cancelled, holds, objectVars, otherVars>>

TurnBackLocked(c) ==
    /\ pc[c] = "entering"
    /\ c \in cancelled \/ isDisposed
    /\ pc' = [pc EXCEPT ![c] = "failed"]
    /\ UNCHANGED <<mutexVars, cancelled, holds, objectVars, otherVars>>

ReuseUncounted(c) ==
    /\ pc[c] = "entering"
    /\ c \notin cancelled /\ ~isDisposed
    /\ sessionWrapper # None
    /\ holds' = [holds EXCEPT ![c] = sessionWrapper]
    /\ Leave(c, "using")
    /\ UNCHANGED <<sessionMutex, lock, cancelled, objectVars, otherVars>>

LoadFailsLocked(c) ==
    /\ pc[c] = "loading"
    /\ pc' = [pc EXCEPT ![c] = "failed"]
    /\ UNCHANGED <<mutexVars, cancelled, holds, objectVars, otherVars>>

\* Up to the await of lock.acquire: the mutex of the id, or a new one.
GetSession(c) ==
    LET m == IF sessionMutex = None THEN c ELSE sessionMutex IN
    /\ pc[c] = "idle"
    /\ sessionMutex' = m
    /\ lock' = [lock EXCEPT ![c] = m]
    /\ \/ /\ c \in cancelled
          /\ pc' = [pc EXCEPT ![c] = "gone"]
          /\ UNCHANGED <<locked, acquireQueue>>
       \/ /\ c \notin cancelled
          /\ ~locked[m]
          /\ locked' = [locked EXCEPT ![m] = TRUE]
          /\ pc' = [pc EXCEPT ![c] = "granted"]
          /\ UNCHANGED acquireQueue
       \/ /\ c \notin cancelled
          /\ locked[m]
          /\ acquireQueue' = [acquireQueue EXCEPT ![m] = Append(@, c)]
          /\ pc' = [pc EXCEPT ![c] = "waiting"]
          /\ UNCHANGED locked
    /\ UNCHANGED <<cancelled, holds, objectVars, otherVars>>

\* The microtask of raceCancellation.
Resume(c) ==
    /\ pc[c] = "granted"
    /\ pc' = [pc EXCEPT ![c] = "entering"]
    /\ UNCHANGED <<mutexVars, cancelled, holds, objectVars, otherVars>>

TurnedBack(c) == c \in cancelled \/ isDisposed

\* Cancelled, or the service is disposed: release the lock and return.
TurnBack(c) ==
    /\ pc[c] = "entering"
    /\ TurnedBack(c)
    /\ Leave(c, "failed")
    /\ UNCHANGED <<sessionMutex, lock, cancelled, holds, objectVars, otherVars>>

\* The map has a wrapper: acquire it.  A call that is not readonly and names
\* an agent awaits selectCustomAgent, any other one returns.
Reuse(c) ==
    /\ pc[c] = "entering"
    /\ ~TurnedBack(c)
    /\ sessionWrapper # None
    /\ counter' = [counter EXCEPT ![sessionWrapper] = @ + 1]
    /\ holds' = [holds EXCEPT ![c] = sessionWrapper]
    /\ \/ Leave(c, "using")
       \/ /\ pc' = [pc EXCEPT ![c] = "agent"]
          /\ UNCHANGED <<locked, acquireQueue>>
    /\ UNCHANGED <<sessionMutex, lock, cancelled, sessionWrapper, object, otherVars>>

\* selectCustomAgent returns, or throws: then nobody is given the reference
\* that was acquired for the call.
AgentSelected(c) ==
    /\ pc[c] = "agent"
    /\ Leave(c, "using") \/ Leave(c, "failed")
    /\ UNCHANGED <<sessionMutex, lock, cancelled, holds, objectVars, otherVars>>

\* The map has no wrapper: ask the session manager for the session.
StartLoading(c) ==
    /\ pc[c] = "entering"
    /\ ~TurnedBack(c)
    /\ sessionWrapper = None
    /\ pc' = [pc EXCEPT ![c] = "loading"]
    /\ UNCHANGED <<mutexVars, cancelled, holds, objectVars, otherVars>>

\* createCopilotSession: a session with one reference.  DisposableMap.set
\* disposes the wrapper it replaces before it stores the new one.
CreateCopilotSession(c) ==
    LET old == sessionWrapper
        oldDies == old # None /\ counter[old] = 1 /\ object[old] = "open"
    IN  /\ object' = [o \in Call |-> IF o = c THEN "open"
                                     ELSE IF o = old /\ oldDies THEN "disposed"
                                     ELSE object[o]]
        /\ counter' = [o \in Call |-> IF o = c THEN 1
                                      ELSE IF o = old THEN counter[o] - 1
                                      ELSE counter[o]]
        /\ sessionMutex' = IF oldDies THEN None ELSE sessionMutex
        /\ sessionWrapper' = c
        /\ holds' = [holds EXCEPT ![c] = c]

\* The session manager has the session.
Loaded(c) ==
    /\ pc[c] = "loading"
    /\ stored
    /\ CreateCopilotSession(c)
    /\ Leave(c, "using")
    /\ UNCHANGED <<lock, cancelled, otherVars>>

\* It does not, or a step of the load throws.
LoadFails(c) ==
    /\ pc[c] = "loading"
    /\ Leave(c, "failed")
    /\ UNCHANGED <<sessionMutex, lock, cancelled, holds, objectVars, otherVars>>

-----------------------------------------------------------------------------
(* The other operations of the service.                                    *)

\* createSession makes the id, so it is the first call that knows it; it
\* takes no mutex.
CreateSession(c) ==
    /\ \A d \in Call : pc[d] = "idle"
    /\ deleting = "no"
    /\ CreateCopilotSession(c)
    /\ pc' = [pc EXCEPT ![c] = "using"]
    /\ UNCHANGED <<locked, acquireQueue, lock, cancelled, otherVars>>

\* deleteSession up to its first await takes the reference of whoever holds
\* the wrapper ...
DeleteSession ==
    /\ deleting = "no"
    /\ deleting' = "pending"
    /\ IF sessionWrapper = None
         THEN UNCHANGED <<counter, object, sessionWrapper, sessionMutex>>
         ELSE ReleaseReference(sessionWrapper)
    /\ UNCHANGED <<locked, acquireQueue, lock, callVars, terminator, stored, isDisposed>>

\* ... and removes the wrapper of that moment from the map when the session
\* manager has deleted the session, or failed to.
Deleted ==
    /\ deleting = "pending"
    /\ deleting' = "done"
    /\ stored' \in {FALSE, stored}
    /\ sessionWrapper' = None
    /\ UNCHANGED <<mutexVars, callVars, object, counter, terminator, isDisposed>>

\* The terminator: disposes the session itself, whatever references it has.
TerminatorFires ==
    /\ terminator # None
    /\ terminator' = None
    /\ DisposeObject(terminator)
    /\ UNCHANGED <<locked, acquireQueue, lock, callVars, counter, deleting, stored, isDisposed>>

\* Disposal of the service only marks it; no map is registered with it.
Dispose ==
    /\ ~isDisposed
    /\ isDisposed' = TRUE
    /\ UNCHANGED <<mutexVars, callVars, objectVars, terminator, deleting, stored>>

-----------------------------------------------------------------------------
(* What callers do with their references.                                  *)

\* A request that leaves the terminator armed.
StartRequestTimed(c) ==
    /\ pc[c] = "using"
    /\ object[holds[c]] = "open"
    /\ \A d \in Call : pc[d] # "busy"
    /\ pc' = [pc EXCEPT ![c] = "busy"]
    /\ UNCHANGED <<mutexVars, cancelled, holds, objectVars, otherVars>>

\* handleRequest: the status InProgress clears the terminator.  A disposed
\* session throws at once.  The editor runs one request of a chat session at
\* a time.
StartRequest(c) ==
    /\ pc[c] = "using"
    /\ object[holds[c]] = "open"
    /\ \A d \in Call : pc[d] # "busy"
    /\ pc' = [pc EXCEPT ![c] = "busy"]
    /\ terminator' = None
    /\ UNCHANGED <<mutexVars, cancelled, holds, objectVars, deleting, stored, isDisposed>>

\* Completed or Failed sets the terminator; a disposed session has no
\* listeners left.
EndRequest(c) ==
    /\ pc[c] = "busy"
    /\ pc' = [pc EXCEPT ![c] = "using"]
    /\ terminator' = IF object[holds[c]] = "open" THEN holds[c] ELSE terminator
    /\ UNCHANGED <<mutexVars, cancelled, holds, objectVars, deleting, stored, isDisposed>>

\* The caller disposes its reference.
Release(c) ==
    /\ pc[c] = "using"
    /\ pc' = [pc EXCEPT ![c] = "done"]
    /\ holds' = [holds EXCEPT ![c] = None]
    /\ ReleaseReference(holds[c])
    /\ UNCHANGED <<locked, acquireQueue, lock, cancelled, otherVars>>

\* The listener of raceCancellation; later on the token is only looked at.
Cancel(c) ==
    /\ pc[c] \in {"idle", "waiting", "granted", "entering"}
    /\ c \notin cancelled
    /\ cancelled' = cancelled \cup {c}
    /\ pc' = [pc EXCEPT ![c] = IF @ \in {"waiting", "granted"} THEN "gone" ELSE @]
    /\ UNCHANGED <<mutexVars, holds, objectVars, otherVars>>

Enter(c) == TurnBack(c) \/ Reuse(c) \/ StartLoading(c)

Answer(c) == Loaded(c) \/ LoadFails(c)

Next ==
    \/ DeleteSession \/ Deleted \/ TerminatorFires \/ Dispose
    \/ \E c \in Call :
        \/ GetSession(c) \/ Resume(c) \/ Enter(c) \/ AgentSelected(c) \/ Answer(c)
        \/ CreateSession(c)
        \/ StartRequest(c) \/ EndRequest(c) \/ Release(c) \/ Cancel(c)

\* Continuations run, and the SDK answers or throws.  Nobody has to call,
\* release, cancel or delete.
Fairness ==
    \A c \in Call :
        WF_vars(Resume(c)) /\ WF_vars(Enter(c)) /\ WF_vars(AgentSelected(c)) /\ WF_vars(Answer(c))

Spec == Init /\ [][Next]_vars

FairSpec == Spec /\ Fairness
=============================================================================
