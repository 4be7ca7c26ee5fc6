---------------------------- MODULE SessionMutex ----------------------------
(***************************************************************************)
(* The Mutex of copilotcliSessionService.ts, which getSession takes once   *)
(* per session id.  Every element of Call is one call of acquire(token)    *)
(* with a token of its own.                                                *)
(*                                                                         *)
(* acquire() wraps the promise of the wait queue in raceCancellation, so a *)
(* call settles in two stages: tryAcquire resolves the inner promise, and  *)
(* a later microtask hands the value to the caller unless the token was    *)
(* cancelled in between.  The stages are the states of a call:             *)
(*                                                                         *)
(*   "idle"     acquire not called yet                                     *)
(*   "waiting"  its tryAcquire closure is in _acquireQueue                 *)
(*   "granted"  the inner promise holds the release function               *)
(*   "holding"  the caller holds the release function                      *)
(*   "gone"     the caller was given undefined                             *)
(*   "done"     the caller has released                                    *)
(***************************************************************************)
EXTENDS Naturals, Sequences

CONSTANTS
    Call,         \* the calls of acquire
    Cancellable   \* the calls whose token may be cancelled

ASSUME CancellableAssumption == Cancellable \subseteq Call

VARIABLES
    locked,         \* Mutex._locked
    acquireQueue,   \* Mutex._acquireQueue: the calls whose closures wait
    state,          \* the stage each call has reached
    cancelled       \* the calls whose token is cancelled

vars == <<locked, acquireQueue, state, cancelled>>

States == {"idle", "waiting", "granted", "holding", "gone", "done"}

TypeOK ==
    /\ locked \in BOOLEAN
    /\ acquireQueue \in Seq(Call)
    /\ state \in [Call -> States]
    /\ cancelled \in SUBSET Cancellable

Init ==
    /\ locked = FALSE
    /\ acquireQueue = <<>>
    /\ state = [c \in Call |-> "idle"]
    /\ cancelled = {}

\* Broken variants of the operations below, used to check that the
\* properties notice them: tryAcquire that forgets to test _locked, _release
\* that forgets to wake the queue, and a queue served from its tail.
AcquireUnchecked(c) ==
    /\ state[c] = "idle"
    /\ locked' = TRUE
    /\ state' = [state EXCEPT ![c] = IF c \in cancelled THEN "gone" ELSE "granted"]
    /\ UNCHANGED <<acquireQueue, cancelled>>

ReleaseWithoutWaking(c) ==
    /\ state[c] = "holding"
    /\ locked' = FALSE
    /\ state' = [state EXCEPT ![c] = "done"]
    /\ UNCHANGED <<acquireQueue, cancelled>>

ReleaseToLast(c) ==
    LET n == Len(acquireQueue) IN
    /\ state[c] = "holding"
    /\ IF n > 0 /\ acquireQueue[n] \notin cancelled
         THEN /\ locked' = TRUE
              /\ state' = [state EXCEPT ![c] = "done", ![acquireQueue[n]] = "granted"]
         ELSE /\ locked' = FALSE
              /\ state' = [state EXCEPT ![c] = "done"]
    /\ acquireQueue' = IF n = 0 THEN <<>> ELSE SubSeq(acquireQueue, 1, n - 1)
    /\ UNCHANGED cancelled

\* A first tryAcquire: the call gives up, takes the lock, or queues.
Acquire(c) ==
    /\ state[c] = "idle"
    /\ \/ /\ c \in cancelled
          /\ state' = [state EXCEPT ![c] = "gone"]
          /\ UNCHANGED <<locked, acquireQueue>>
       \/ /\ c \notin cancelled
          /\ ~locked
          /\ locked' = TRUE
          /\ state' = [state EXCEPT ![c] = "granted"]
          /\ UNCHANGED acquireQueue
       \/ /\ c \notin cancelled
          /\ locked
          /\ acquireQueue' = Append(acquireQueue, c)
          /\ state' = [state EXCEPT ![c] = "waiting"]
          /\ UNCHANGED locked
    /\ UNCHANGED cancelled

\* The microtask of raceCancellation: the caller gets the release function.
Resume(c) ==
    /\ state[c] = "granted"
    /\ state' = [state EXCEPT ![c] = "holding"]
    /\ UNCHANGED <<locked, acquireQueue, cancelled>>

\* The listener of raceCancellation: a call that has not been resumed yet
\* returns undefined.  Its closure stays in the queue, its grant stays taken.
Cancel(c) ==
    /\ c \in Cancellable \ cancelled
    /\ cancelled' = cancelled \cup {c}
    /\ state' = [state EXCEPT ![c] = IF @ \in {"waiting", "granted"} THEN "gone" ELSE @]
    /\ UNCHANGED <<locked, acquireQueue>>

\* _release: unlock, then run the closure at the head of the queue.  That
\* closure takes the lock unless its token is cancelled, in which case it
\* returns without waking the next one.
Release(c) ==
    /\ state[c] = "holding"
    /\ IF acquireQueue # <<>> /\ Head(acquireQueue) \notin cancelled
         THEN /\ locked' = TRUE
              /\ state' = [state EXCEPT ![c] = "done", ![Head(acquireQueue)] = "granted"]
         ELSE /\ locked' = FALSE
              /\ state' = [state EXCEPT ![c] = "done"]
    /\ acquireQueue' = IF acquireQueue = <<>> THEN <<>> ELSE Tail(acquireQueue)
    /\ UNCHANGED cancelled

Next ==
    \E c \in Call : Acquire(c) \/ Resume(c) \/ Cancel(c) \/ Release(c)

\* A caller that was given the release function calls it in a finally block,
\* and microtasks run: both are fair.  Nobody has to call acquire or cancel.
Fairness == \A c \in Call : WF_vars(Resume(c)) /\ WF_vars(Release(c))

Spec == Init /\ [][Next]_vars

FairSpec == Spec /\ Fairness

-----------------------------------------------------------------------------
Holders == {c \in Call : state[c] \in {"granted", "holding"}}

\* At most one call holds the lock or is about to be handed it, and the flag
\* is up while it is: the section that getSession guards runs once at a time,
\* across direct acquisition, hand-over in _release, and cancellation at any
\* moment of either.
MutualExclusion ==
    /\ \A c, d \in Holders : c = d
    /\ Holders # {} => locked

\* Nobody owns the lock, nobody is about to be handed it, and still somebody
\* waits, or everybody who comes will.
Ownerless == Holders = {} /\ (locked \/ \E c \in Call : state[c] = "waiting")

\* The call d, which gives up or gave up, keeps for itself what was meant for
\* the next one: it is cancelled with the grant in its hands, so that it never
\* gets the release function, or its closure is the one that _release runs,
\* and returns without waking another.
Swallows(d) ==
    \/ state[d] = "granted" /\ d \in cancelled' \ cancelled
    \/ acquireQueue # <<>> /\ d = Head(acquireQueue) /\ d \in cancelled /\ acquireQueue' = Tail(acquireQueue)

\* The mutex is lost to those who wait or come in one of two kinds of step,
\* and the step names the call to blame: it was cancelled in this very step
\* while the grant was on its way, or it was cancelled earlier and this release
\* spent its wake-up on it. A cancellation of anybody else, at any moment,
\* leaves every waiter behind an owner.
LostOnlyByGivingUp == [][~Ownerless /\ Ownerless' => \E d \in Call : Swallows(d)]_vars

\* A closure in the queue belongs to one call, which still waits or was
\* cancelled while it did.
QueuedStage ==
    /\ \A i, j \in DOMAIN acquireQueue : acquireQueue[i] = acquireQueue[j] => i = j
    /\ \A i \in DOMAIN acquireQueue :
         state[acquireQueue[i]] = IF acquireQueue[i] \in cancelled THEN "gone" ELSE "waiting"

\* Every call that waits has its closure in the queue.
WaitersQueued ==
    \A c \in Call : state[c] = "waiting" => \E i \in DOMAIN acquireQueue : acquireQueue[i] = c

\* What _acquireQueue, the flag and the stages of the calls always agree on;
\* it is inductive, and LostOnlyByGivingUp follows from it.
MutexInv == TypeOK /\ MutualExclusion /\ QueuedStage /\ WaitersQueued

\* Waiters are served in the order they queued: a waiting call only gets the
\* lock when every call ahead of it in the queue has been cancelled.
ServedInOrder ==
    [][\A c \in Call :
         state[c] = "waiting" /\ state'[c] = "granted" =>
            \A i, j \in DOMAIN acquireQueue :
                acquireQueue[i] = c /\ j < i => acquireQueue[j] \in cancelled]_vars

\* The comment on acquire: "resolves with a release function you MUST call".
\* Whenever the flag is up, some call has been or is being handed the release
\* function that takes it down again.
LockedHasReleaser == locked => Holders # {}

\* As long as no call gives up, every call that waits is served, however many
\* others wait or arrive; cancelling a call that already holds the lock does
\* not matter.
WaitersServed ==
    \A c \in Call :
        state[c] = "waiting" ~> state[c] = "holding" \/ \E d \in Call : state[d] = "gone"
=============================================================================
