----------------------- MODULE CliSessionServiceProofs -----------------------
(***************************************************************************)
(* Theorems about the session service of one id, for every finite set of   *)
(* calls.                                                                  *)
(***************************************************************************)
EXTENDS CliSessionServiceProps, FiniteSetTheorems, TLAPS

-----------------------------------------------------------------------------
(* Types, and the wrapper in the map.                                      *)

Inv == TypeOK /\ MappedIsOpen

\* Leaving the section keeps the types of what it changes.
LEMMA LeaveTypes ==
    ASSUME TypeOK, NEW c \in Call, NEW s \in Stages, Leave(c, s)
    PROVE  /\ locked' \in [Call -> BOOLEAN]
           /\ acquireQueue' \in [Call -> Seq(Call)]
           /\ pc' \in [Call -> Stages]
<1>1. locked' \in [Call -> BOOLEAN]
  BY DEF TypeOK, Leave
<1>2. acquireQueue' \in [Call -> Seq(Call)]
  <2> DEFINE m == lock[c]
             rest == IF acquireQueue[m] = <<>> THEN acquireQueue[m] ELSE Tail(acquireQueue[m])
  <2>1. acquireQueue' = [acquireQueue EXCEPT ![m] = rest]
    BY DEF Leave
  <2>2. m \in Call => rest \in Seq(Call)
    BY DEF TypeOK
  <2> HIDE DEF rest
  <2> QED BY <2>1, <2>2 DEF TypeOK
<1>3. "granted" \in Stages
  BY DEF Stages
<1>4. pc' \in [Call -> Stages]
  BY <1>3 DEF TypeOK, Leave
<1> QED BY <1>1, <1>2, <1>4

\* Disposing a session, directly or with its last reference, keeps the types
\* and empties the map if it changes anything.
LEMMA DisposeKeeps ==
    ASSUME Inv, NEW o, DisposeObject(o)
    PROVE  /\ object' \in [Call -> {"none", "open", "disposed"}]
           /\ sessionWrapper' \in Call \cup {None}
           /\ sessionMutex' \in Call \cup {None}
           /\ MappedIsOpen'
BY DEF Inv, TypeOK, MappedIsOpen, DisposeObject

LEMMA ReleaseKeeps ==
    ASSUME Inv, NEW o, ReleaseReference(o)
    PROVE  /\ counter' \in [Call -> Int]
           /\ object' \in [Call -> {"none", "open", "disposed"}]
           /\ sessionWrapper' \in Call \cup {None}
           /\ sessionMutex' \in Call \cup {None}
           /\ MappedIsOpen'
<1>1. counter' \in [Call -> Int]
  <2>1. counter' = [counter EXCEPT ![o] = counter[o] - 1]
    BY DEF ReleaseReference
  <2>2. CASE o \in Call
    BY <2>1, <2>2 DEF Inv, TypeOK
  <2>3. CASE o \notin Call
    BY <2>1, <2>3 DEF Inv, TypeOK
  <2> QED BY <2>2, <2>3
<1>2. CASE counter[o] = 1
  BY <1>1, <1>2, DisposeKeeps DEF ReleaseReference
<1>3. CASE counter[o] # 1
  BY <1>1, <1>3 DEF Inv, TypeOK, MappedIsOpen, ReleaseReference
<1> QED BY <1>2, <1>3

\* The session that is created is the one in the map, and it is open.
LEMMA CreateKeeps ==
    ASSUME Inv, NEW c \in Call, CreateCopilotSession(c)
    PROVE  /\ counter' \in [Call -> Int]
           /\ object' \in [Call -> {"none", "open", "disposed"}]
           /\ sessionWrapper' \in Call \cup {None}
           /\ sessionMutex' \in Call \cup {None}
           /\ holds' \in [Call -> Call \cup {None}]
           /\ MappedIsOpen'
<1>1. counter' \in [Call -> Int]
  BY DEF Inv, TypeOK, CreateCopilotSession
<1>2. object' \in [Call -> {"none", "open", "disposed"}]
  BY DEF Inv, TypeOK, CreateCopilotSession
<1>3. /\ sessionWrapper' = c
      /\ sessionMutex' \in Call \cup {None}
      /\ holds' \in [Call -> Call \cup {None}]
  BY DEF Inv, TypeOK, CreateCopilotSession
<1>4. object'[c] = "open"
  BY DEF CreateCopilotSession
<1> QED BY <1>1, <1>2, <1>3, <1>4 DEF MappedIsOpen

LEMMA InitInv == Init => Inv
<1> SUFFICES ASSUME Init PROVE Inv
  OBVIOUS
<1>1. acquireQueue \in [Call -> Seq(Call)]
  <2>1. <<>> \in Seq(Call)
    OBVIOUS
  <2> QED BY <2>1 DEF Init
<1>2. counter \in [Call -> Int] /\ pc \in [Call -> Stages]
  BY DEF Init, Stages
<1>3. /\ sessionMutex = None /\ sessionWrapper = None /\ terminator = None
      /\ locked \in [Call -> BOOLEAN]
      /\ lock \in [Call -> Call \cup {None}]
      /\ holds \in [Call -> Call \cup {None}]
      /\ object \in [Call -> {"none", "open", "disposed"}]
      /\ cancelled = {} /\ deleting = "no" /\ stored = TRUE /\ isDisposed = FALSE
  BY DEF Init
<1> QED BY <1>1, <1>2, <1>3 DEF Inv, TypeOK, MappedIsOpen

LEMMA InvStep ==
    ASSUME Inv, [Next]_vars
    PROVE  Inv'
<1> USE DEF Inv, otherVars, mutexVars, callVars, objectVars
<1>a. CASE UNCHANGED vars
  BY <1>a DEF TypeOK, MappedIsOpen, vars
<1>b. CASE DeleteSession
  <2>1. CASE sessionWrapper = None
    BY <1>b, <2>1 DEF DeleteSession, TypeOK, MappedIsOpen
  <2>2. CASE sessionWrapper # None
    BY <1>b, <2>2, ReleaseKeeps DEF DeleteSession, TypeOK
  <2> QED BY <2>1, <2>2
<1>c. CASE Deleted
  BY <1>c DEF Deleted, TypeOK, MappedIsOpen
<1>d. CASE TerminatorFires
  BY <1>d, DisposeKeeps DEF TerminatorFires, TypeOK
<1>e. CASE Dispose
  BY <1>e DEF Dispose, TypeOK, MappedIsOpen
<1>f. ASSUME NEW c \in Call,
             \/ GetSession(c) \/ Resume(c) \/ Enter(c) \/ AgentSelected(c) \/ Answer(c)
             \/ CreateSession(c)
             \/ StartRequest(c) \/ EndRequest(c) \/ Release(c) \/ Cancel(c)
      PROVE  Inv'
  <2>0. {"idle", "waiting", "granted", "entering", "agent", "loading",
         "using", "busy", "gone", "failed", "done"} = Stages
    BY DEF Stages
  <2>1. CASE GetSession(c)
    <3>1. /\ sessionMutex' \in Call
          /\ lock' \in [Call -> Call \cup {None}]
          /\ locked' \in [Call -> BOOLEAN]
          /\ pc' \in [Call -> Stages]
      BY <2>0, <2>1 DEF GetSession, TypeOK
    <3>2. acquireQueue' \in [Call -> Seq(Call)]
      <4> DEFINE m == IF sessionMutex = None THEN c ELSE sessionMutex
      <4>1. m \in Call
        BY DEF TypeOK
      <4>2. Append(acquireQueue[m], c) \in Seq(Call)
        BY <4>1 DEF TypeOK
      <4>3. acquireQueue' \in {acquireQueue, [acquireQueue EXCEPT ![m] = Append(@, c)]}
        BY <2>1 DEF GetSession
      <4> QED BY <4>1, <4>2, <4>3 DEF TypeOK
    <3> QED BY <2>1, <3>1, <3>2 DEF GetSession, TypeOK, MappedIsOpen
  <2>2. CASE Resume(c)
    BY <2>0, <2>2 DEF Resume, TypeOK, MappedIsOpen
  <2>3. CASE TurnBack(c)
    BY <2>0, <2>3, LeaveTypes DEF TurnBack, TypeOK, MappedIsOpen
  <2>4. CASE Reuse(c)
    <3>1. counter' \in [Call -> Int] /\ holds' \in [Call -> Call \cup {None}]
      BY <2>4 DEF Reuse, TypeOK
    <3>2. /\ locked' \in [Call -> BOOLEAN]
          /\ acquireQueue' \in [Call -> Seq(Call)]
          /\ pc' \in [Call -> Stages]
      BY <2>0, <2>4, LeaveTypes DEF Reuse, TypeOK
    <3> QED BY <2>4, <3>1, <3>2 DEF Reuse, TypeOK, MappedIsOpen
  <2>5. CASE StartLoading(c)
    BY <2>0, <2>5 DEF StartLoading, TypeOK, MappedIsOpen
  <2>6. CASE AgentSelected(c)
    BY <2>0, <2>6, LeaveTypes DEF AgentSelected, TypeOK, MappedIsOpen
  <2>7. CASE Loaded(c)
    BY <2>0, <2>7, LeaveTypes, CreateKeeps DEF Loaded, TypeOK
  <2>8. CASE LoadFails(c)
    BY <2>0, <2>8, LeaveTypes DEF LoadFails, TypeOK, MappedIsOpen
  <2>9. CASE CreateSession(c)
    BY <2>0, <2>9, CreateKeeps DEF CreateSession, TypeOK
  <2>10. CASE StartRequest(c)
    BY <2>0, <2>10 DEF StartRequest, TypeOK, MappedIsOpen
  <2>11. CASE EndRequest(c)
    BY <2>0, <2>11 DEF EndRequest, TypeOK, MappedIsOpen
  <2>12. CASE Release(c)
    <3>1. pc' \in [Call -> Stages] /\ holds' \in [Call -> Call \cup {None}]
      BY <2>0, <2>12 DEF Release, TypeOK
    <3> QED BY <2>12, <3>1, ReleaseKeeps DEF Release, TypeOK
  <2>13. CASE Cancel(c)
    BY <2>0, <2>13 DEF Cancel, TypeOK, MappedIsOpen
  <2> QED BY <1>f, <2>1, <2>2, <2>3, <2>4, <2>5, <2>6, <2>7, <2>8, <2>9, <2>10, <2>11,
             <2>12, <2>13 DEF Enter, Answer
<1> QED BY <1>a, <1>b, <1>c, <1>d, <1>e, <1>f DEF Next

\* Every reachable state of the service is well typed.
THEOREM TypeCorrect == Spec => []TypeOK
<1> QED BY InitInv, InvStep, PTL DEF Spec, Inv

\* getSession never hands out a disposed session from the map, for every
\* number of calls, references, replacements and deletions.
THEOREM MappedStaysOpen == Spec => []MappedIsOpen
<1> QED BY InitInv, InvStep, PTL DEF Spec, Inv

-----------------------------------------------------------------------------
(* Every mutex is a SessionMutex.                                          *)

InSection == {"entering", "agent", "loading"}

\* The call and the mutex agree: a call has no mutex before it asks for one,
\* and a closure in a queue belongs to a call that waits there, or gave up
\* while it did.
LockChosen ==
    \A c \in Call :
        /\ pc[c] = "idle" => lock[c] = None
        /\ pc[c] \in InSection \cup {"waiting", "granted", "gone"} => lock[c] \in Call

Queued(m, i) == acquireQueue[m][i]

QueuesLinked ==
    \A m \in Call : \A i \in DOMAIN acquireQueue[m] :
        /\ lock[Queued(m, i)] = m
        /\ pc[Queued(m, i)] = IF Queued(m, i) \in cancelled THEN "gone" ELSE "waiting"

QueuedOnce ==
    \A m \in Call : \A i, j \in DOMAIN acquireQueue[m] : Queued(m, i) = Queued(m, j) => i = j

LinkInv == TypeOK /\ LockChosen /\ QueuesLinked /\ QueuedOnce

MutexStep == \A m \in Call : [Mutex(m)!Next]_(Mutex(m)!vars)

\* A step that moves no call from one stage of the mutex to another.
LEMMA QuietStep ==
    ASSUME UNCHANGED <<locked, acquireQueue, lock, cancelled>>,
           \A m, c \in Call : StageIn(m, c)' = StageIn(m, c)
    PROVE  MutexStep
BY DEF MutexStep, Mutex!vars

\* The stages that leaving the section produces, and that the links survive.
LEMMA LeaveStep ==
    ASSUME LinkInv, NEW c \in Call, NEW s \in {"using", "failed"}, pc[c] \in InSection,
           Leave(c, s), UNCHANGED <<lock, cancelled>>, TypeOK'
    PROVE  LinkInv' /\ MutexStep
<1> DEFINE m == lock[c]
           q == acquireQueue[m]
           woken == q # <<>> /\ Head(q) \notin cancelled
<1>1. m \in Call /\ q \in Seq(Call)
  BY DEF LinkInv, LockChosen, TypeOK
<1>2. ASSUME q # <<>>
      PROVE  /\ Head(q) = q[1] /\ 1 \in DOMAIN q /\ Head(q) \in Call /\ Head(q) # c
             /\ lock[Head(q)] = m
             /\ pc[Head(q)] = IF Head(q) \in cancelled THEN "gone" ELSE "waiting"
             /\ Len(Tail(q)) = Len(q) - 1
             /\ \A i \in 1..(Len(q) - 1) : Tail(q)[i] = q[i + 1]
  <2>1. Head(q) = q[1] /\ 1 \in DOMAIN q /\ Head(q) \in Call
    BY <1>1, <1>2
  <2>2. /\ lock[q[1]] = m
        /\ pc[q[1]] = IF q[1] \in cancelled THEN "gone" ELSE "waiting"
    BY <1>1, <2>1 DEF LinkInv, QueuesLinked, Queued
  <2>3. Head(q) # c
    BY <2>1, <2>2 DEF InSection
  <2>4. /\ Len(Tail(q)) = Len(q) - 1
        /\ \A i \in 1..(Len(q) - 1) : Tail(q)[i] = q[i + 1]
    BY <1>1, <1>2
  <2> QED BY <2>1, <2>2, <2>3, <2>4
<1>3. /\ locked' = [locked EXCEPT ![m] = woken]
      /\ acquireQueue' = [acquireQueue EXCEPT ![m] = IF q = <<>> THEN q ELSE Tail(q)]
      /\ pc' = [d \in Call |-> IF d = c THEN s
                               ELSE IF woken /\ d = Head(q) THEN "granted" ELSE pc[d]]
  BY DEF Leave
<1>4. LockChosen'
  BY <1>1, <1>2, <1>3 DEF LinkInv, LockChosen, InSection
<1>5. QueuesLinked' /\ QueuedOnce'
  <2>1. ASSUME NEW n \in Call, n # m
        PROVE  /\ acquireQueue'[n] = acquireQueue[n]
               /\ \A i \in DOMAIN acquireQueue[n] : pc'[Queued(n, i)] = pc[Queued(n, i)]
    <3>1. acquireQueue'[n] = acquireQueue[n]
      BY <1>3, <2>1 DEF LinkInv, TypeOK
    <3>2. ASSUME NEW i \in DOMAIN acquireQueue[n]
          PROVE  pc'[Queued(n, i)] = pc[Queued(n, i)]
      <4>1. Queued(n, i) \in Call /\ lock[Queued(n, i)] = n
        BY DEF LinkInv, TypeOK, QueuesLinked, Queued
      <4> QED BY <1>2, <1>3, <2>1, <4>1
    <3> QED BY <3>1, <3>2
  <2>2. CASE q = <<>>
    <3>1. acquireQueue' = acquireQueue
      BY <1>1, <1>3, <2>2 DEF LinkInv, TypeOK
    <3>2. \A n \in Call : \A i \in DOMAIN acquireQueue[n] : pc'[Queued(n, i)] = pc[Queued(n, i)]
      BY <2>1, <2>2
    <3> QED BY <3>1, <3>2 DEF LinkInv, QueuesLinked, QueuedOnce, Queued
  <2>3. CASE q # <<>>
    <3>1. acquireQueue'[m] = Tail(q)
      BY <1>1, <1>3, <2>3 DEF LinkInv, TypeOK
    <3>2. ASSUME NEW i \in DOMAIN acquireQueue'[m]
          PROVE  /\ acquireQueue'[m][i] = q[i + 1] /\ i + 1 \in DOMAIN q
                 /\ q[i + 1] # Head(q) /\ q[i + 1] # c
                 /\ lock[q[i + 1]] = m
                 /\ pc'[q[i + 1]] = IF q[i + 1] \in cancelled THEN "gone" ELSE "waiting"
      <4>1. i \in 1..(Len(q) - 1) /\ i + 1 \in DOMAIN q /\ i + 1 # 1 /\ i \in Nat
        BY <1>1, <1>2, <2>3, <3>1
      <4>2. acquireQueue'[m][i] = q[i + 1]
        BY <1>2, <2>3, <3>1, <4>1
      <4>3. q[i + 1] # q[1]
        BY <1>1, <1>2, <2>3, <4>1 DEF LinkInv, QueuedOnce, Queued
      <4>4. /\ q[i + 1] \in Call
            /\ lock[q[i + 1]] = m
            /\ pc[q[i + 1]] = IF q[i + 1] \in cancelled THEN "gone" ELSE "waiting"
        BY <1>1, <4>1 DEF LinkInv, QueuesLinked, Queued
      <4>5. q[i + 1] # c
        BY <4>4 DEF InSection
      <4> QED BY <1>2, <1>3, <2>3, <4>1, <4>2, <4>3, <4>4, <4>5
    <3>3. QueuesLinked'
      BY <2>1, <3>2 DEF LinkInv, QueuesLinked, Queued
    <3>4. QueuedOnce'
      <4>1. ASSUME NEW i \in DOMAIN acquireQueue'[m], NEW j \in DOMAIN acquireQueue'[m],
                   acquireQueue'[m][i] = acquireQueue'[m][j]
            PROVE  i = j
        <5>1. i + 1 = j + 1
          BY <1>1, <3>2, <4>1 DEF LinkInv, QueuedOnce, Queued
        <5>2. i \in Int /\ j \in Int
          BY <1>1, <2>3, <3>1
        <5> QED BY <5>1, <5>2
      <4> QED BY <2>1, <4>1 DEF LinkInv, QueuedOnce, Queued
    <3> QED BY <3>3, <3>4
  <2> QED BY <2>2, <2>3
<1>6. ASSUME NEW n \in Call
      PROVE  [Mutex(n)!Next]_(Mutex(n)!vars)
  <2>1. CASE n = m
    <3>1. /\ StageIn(n, c) = "holding" /\ StageIn(n, c)' = "done"
          /\ \A d \in Call \ {c} : StageIn(n, d)' = IF woken /\ d = Head(q) THEN "granted"
                                                    ELSE StageIn(n, d)
      BY <1>1, <1>2, <1>3, <2>1 DEF StageIn, InSection
    <3>2. Mutex(n)!Release(c)
      <4>1. CASE woken
        <5>1. locked'[n] = TRUE /\ acquireQueue'[n] = Tail(q)
          BY <1>1, <1>3, <2>1, <4>1 DEF LinkInv, TypeOK
        <5>2. [d \in Call |-> StageIn(n, d)]'
                = [[d \in Call |-> StageIn(n, d)] EXCEPT ![c] = "done", ![Head(q)] = "granted"]
          BY <1>2, <3>1, <4>1
        <5>3. [d \in Call |-> StageIn(n, d)][c] = "holding"
          BY <3>1
        <5> QED BY <2>1, <4>1, <5>1, <5>2, <5>3 DEF Mutex!Release
      <4>2. CASE ~woken
        <5>1. locked'[n] = FALSE /\ acquireQueue'[n] = IF q = <<>> THEN <<>> ELSE Tail(q)
          BY <1>1, <1>3, <2>1, <4>2 DEF LinkInv, TypeOK
        <5> QED BY <1>1, <2>1, <3>1, <4>2, <5>1 DEF Mutex!Release
      <4> QED BY <4>1, <4>2
    <3>3. Mutex(n)!Next
      BY <3>2, Zenon DEF Mutex!Next
    <3> QED BY <3>3, Zenon
  <2>2. CASE n # m
    <3>1. locked'[n] = locked[n] /\ acquireQueue'[n] = acquireQueue[n]
      BY <1>3, <2>2 DEF LinkInv, TypeOK
    <3>2. \A d \in Call : StageIn(n, d)' = StageIn(n, d)
      BY <1>2, <1>3, <2>2 DEF StageIn
    <3> QED BY <3>1, <3>2 DEF Mutex!vars
  <2> QED BY <2>1, <2>2
<1> QED BY <1>4, <1>5, <1>6 DEF LinkInv, MutexStep

\* A call moves on without touching its mutex: into the section's awaits, or
\* among the stages after it.
LEMMA QuietCall ==
    ASSUME LinkInv, TypeOK', NEW c \in Call, NEW s,
           \/ pc[c] \in InSection /\ s \in InSection
           \/ pc[c] \in {"using", "busy"} /\ s \in {"using", "busy", "done"}
           \/ pc[c] = "idle" /\ s = "using",
           pc' = [pc EXCEPT ![c] = s],
           UNCHANGED <<locked, acquireQueue, lock, cancelled>>
    PROVE  LinkInv' /\ MutexStep
<1>1. /\ pc'[c] = s
      /\ \A d \in Call \ {c} : pc'[d] = pc[d]
  BY DEF LinkInv, TypeOK
<1>2. \A m, d \in Call : StageIn(m, d)' = StageIn(m, d)
  BY <1>1 DEF LinkInv, LockChosen, StageIn, InSection
<1>3. MutexStep
  BY <1>2, QuietStep
<1>4. LockChosen'
  BY <1>1 DEF LinkInv, LockChosen, InSection
<1>5. ASSUME NEW m \in Call, NEW i \in DOMAIN acquireQueue[m]
      PROVE  pc'[Queued(m, i)] = pc[Queued(m, i)]
  <2>1. Queued(m, i) \in Call /\ pc[Queued(m, i)] \in {"gone", "waiting"}
    BY DEF LinkInv, TypeOK, QueuesLinked, Queued
  <2> QED BY <1>1, <2>1 DEF InSection
<1>6. QueuesLinked' /\ QueuedOnce'
  BY <1>5 DEF LinkInv, QueuesLinked, QueuedOnce, Queued
<1> QED BY <1>3, <1>4, <1>6 DEF LinkInv

\* Nothing the mutexes are about changes.
LEMMA QuietLinks ==
    ASSUME LinkInv, TypeOK', UNCHANGED <<locked, acquireQueue, lock, cancelled, pc>>
    PROVE  LinkInv' /\ MutexStep
<1>1. LockChosen' /\ QueuesLinked' /\ QueuedOnce'
  BY DEF LinkInv, LockChosen, QueuesLinked, QueuedOnce, Queued
<1>2. \A m, d \in Call : StageIn(m, d)' = StageIn(m, d)
  BY DEF StageIn
<1> QED BY <1>1, <1>2, QuietStep DEF LinkInv

LEMMA GetSessionStep ==
    ASSUME LinkInv, TypeOK', NEW c \in Call, GetSession(c)
    PROVE  LinkInv' /\ MutexStep
<1> DEFINE m == IF sessionMutex = None THEN c ELSE sessionMutex
           q == acquireQueue[m]
<1>1. /\ m \in Call /\ q \in Seq(Call)
      /\ lock[c] = None /\ pc[c] = "idle"
      /\ lock'[c] = m /\ cancelled' = cancelled
      /\ \A d \in Call \ {c} : lock'[d] = lock[d] /\ pc'[d] = pc[d]
      /\ pc'[c] \in {"gone", "granted", "waiting"}
  BY DEF GetSession, LinkInv, LockChosen, TypeOK
<1>2. ASSUME NEW n \in Call, NEW i \in DOMAIN acquireQueue[n]
      PROVE  /\ Queued(n, i) \in Call /\ Queued(n, i) # c
             /\ pc'[Queued(n, i)] = pc[Queued(n, i)]
             /\ lock'[Queued(n, i)] = lock[Queued(n, i)]
  <2>1. Queued(n, i) \in Call /\ pc[Queued(n, i)] \in {"gone", "waiting"}
    BY DEF LinkInv, TypeOK, QueuesLinked, Queued
  <2> QED BY <1>1, <2>1
<1>3. LockChosen'
  BY <1>1, NoneAssumption DEF LinkInv, LockChosen, InSection
<1>4. /\ \A n \in Call \ {m} : acquireQueue'[n] = acquireQueue[n] /\ locked'[n] = locked[n]
      /\ \A n \in Call \ {m}, d \in Call : StageIn(n, d)' = StageIn(n, d)
  <2>1. \A n \in Call \ {m} : acquireQueue'[n] = acquireQueue[n] /\ locked'[n] = locked[n]
    BY DEF GetSession, LinkInv, TypeOK
  <2>2. \A n \in Call \ {m}, d \in Call : StageIn(n, d)' = StageIn(n, d)
    BY <1>1, NoneAssumption DEF StageIn
  <2> QED BY <2>1, <2>2
<1>5. ASSUME acquireQueue' = acquireQueue
      PROVE  LinkInv'
  <2>1. QueuesLinked'
    BY <1>1, <1>2, <1>5 DEF LinkInv, QueuesLinked, Queued
  <2>2. QueuedOnce'
    BY <1>5 DEF LinkInv, QueuedOnce, Queued
  <2> QED BY <1>3, <2>1, <2>2 DEF LinkInv
<1>6. ASSUME acquireQueue'[m] = Append(q, c), c \notin cancelled, pc'[c] = "waiting"
      PROVE  LinkInv'
  <2>1. /\ DOMAIN acquireQueue'[m] = 1..(Len(q) + 1)
        /\ acquireQueue'[m][Len(q) + 1] = c
        /\ \A i \in DOMAIN q : acquireQueue'[m][i] = q[i]
        /\ DOMAIN q = 1..Len(q) /\ Len(q) \in Nat
    BY <1>1, <1>6
  <2>2. ASSUME NEW i \in DOMAIN acquireQueue'[m]
        PROVE  \/ i \in DOMAIN q
               \/ i = Len(q) + 1
    BY <2>1
  <2>3. QueuesLinked'
    <3>1. ASSUME NEW i \in DOMAIN acquireQueue'[m]
          PROVE  /\ lock'[acquireQueue'[m][i]] = m
                 /\ pc'[acquireQueue'[m][i]] =
                        IF acquireQueue'[m][i] \in cancelled THEN "gone" ELSE "waiting"
      <4>1. CASE i \in DOMAIN q
        BY <1>1, <1>2, <2>1, <4>1 DEF LinkInv, QueuesLinked, Queued
      <4>2. CASE i = Len(q) + 1
        BY <1>1, <1>6, <2>1, <4>2
      <4> QED BY <2>2, <4>1, <4>2
    <3>2. ASSUME NEW n \in Call \ {m}, NEW i \in DOMAIN acquireQueue'[n]
          PROVE  /\ lock'[acquireQueue'[n][i]] = n
                 /\ pc'[acquireQueue'[n][i]] =
                        IF acquireQueue'[n][i] \in cancelled THEN "gone" ELSE "waiting"
      BY <1>2, <1>4 DEF LinkInv, QueuesLinked, Queued
    <3> QED BY <1>1, <3>1, <3>2 DEF QueuesLinked, Queued
  <2>4. QueuedOnce'
    <3>1. ASSUME NEW i \in DOMAIN acquireQueue'[m], NEW j \in DOMAIN acquireQueue'[m],
                 acquireQueue'[m][i] = acquireQueue'[m][j]
          PROVE  i = j
      BY <1>1, <1>2, <2>1, <2>2, <3>1 DEF LinkInv, QueuedOnce, Queued
    <3> QED BY <1>4, <3>1 DEF LinkInv, QueuedOnce, Queued
  <2> QED BY <1>3, <2>3, <2>4 DEF LinkInv
<1>7. LinkInv'
  <2>1. \/ acquireQueue' = acquireQueue
        \/ acquireQueue'[m] = Append(q, c) /\ c \notin cancelled /\ pc'[c] = "waiting"
    BY <1>1 DEF GetSession, LinkInv, TypeOK
  <2> QED BY <1>5, <1>6, <2>1
<1>8. ASSUME NEW n \in Call
      PROVE  [Mutex(n)!Next]_(Mutex(n)!vars)
  <2>1. CASE n = m
    <3>1. /\ StageIn(n, c) = "idle" /\ StageIn(n, c)' = pc'[c]
          /\ \A d \in Call \ {c} : StageIn(n, d)' = StageIn(n, d)
      BY <1>1, <2>1, NoneAssumption DEF StageIn
    <3>2. [d \in Call |-> StageIn(n, d)]'
          = [[d \in Call |-> StageIn(n, d)] EXCEPT ![c] = pc'[c]]
      BY <3>1
    <3>3. [d \in Call |-> StageIn(n, d)][c] = "idle"
      BY <3>1
    <3>4. \/ /\ c \in cancelled /\ pc'[c] = "gone"
             /\ locked'[n] = locked[n] /\ acquireQueue'[n] = acquireQueue[n]
          \/ /\ c \notin cancelled /\ ~locked[n] /\ pc'[c] = "granted"
             /\ locked'[n] = TRUE /\ acquireQueue'[n] = acquireQueue[n]
          \/ /\ c \notin cancelled /\ locked[n] /\ pc'[c] = "waiting"
             /\ locked'[n] = locked[n] /\ acquireQueue'[n] = Append(acquireQueue[n], c)
      BY <2>1 DEF GetSession, LinkInv, TypeOK
    <3>5. Mutex(n)!Acquire(c)
      BY <1>1, <3>2, <3>3, <3>4 DEF Mutex!Acquire
    <3>6. Mutex(n)!Next
      BY <3>5, Zenon DEF Mutex!Next
    <3> QED BY <3>6, Zenon
  <2>2. CASE n # m
    BY <1>1, <1>4, <2>2 DEF Mutex!vars
  <2> QED BY <2>1, <2>2
<1> QED BY <1>7, <1>8 DEF MutexStep

\* The steps of one call of getSession in the mutex, other than asking for it.
LEMMA ResumeStep ==
    ASSUME LinkInv, TypeOK', NEW c \in Call, Resume(c)
    PROVE  LinkInv' /\ MutexStep
<1>1. /\ pc[c] = "granted" /\ pc'[c] = "entering"
      /\ \A d \in Call \ {c} : pc'[d] = pc[d]
      /\ UNCHANGED <<locked, acquireQueue, lock, cancelled>>
  BY DEF Resume, LinkInv, TypeOK, mutexVars
<1>2. ASSUME NEW m \in Call, NEW i \in DOMAIN acquireQueue[m]
      PROVE  pc'[Queued(m, i)] = pc[Queued(m, i)]
  <2>1. Queued(m, i) \in Call /\ pc[Queued(m, i)] \in {"gone", "waiting"}
    BY DEF LinkInv, TypeOK, QueuesLinked, Queued
  <2> QED BY <1>1, <2>1
<1>3. LockChosen'
  BY <1>1 DEF LinkInv, LockChosen, InSection
<1>4. QueuesLinked' /\ QueuedOnce'
  BY <1>1, <1>2 DEF LinkInv, QueuesLinked, QueuedOnce, Queued
<1>5. ASSUME NEW m \in Call
      PROVE  [Mutex(m)!Next]_(Mutex(m)!vars)
  <2>1. CASE lock[c] = m
    <3>1. /\ StageIn(m, c) = "granted" /\ StageIn(m, c)' = "holding"
          /\ \A d \in Call \ {c} : StageIn(m, d)' = StageIn(m, d)
      BY <1>1, <2>1 DEF StageIn
    <3>2. Mutex(m)!Resume(c)
      BY <1>1, <3>1 DEF Mutex!Resume
    <3>3. Mutex(m)!Next
      BY <3>2, Zenon DEF Mutex!Next
    <3> QED BY <3>3, Zenon
  <2>2. CASE lock[c] # m
    <3>1. \A d \in Call : StageIn(m, d)' = StageIn(m, d)
      BY <1>1, <2>2 DEF StageIn
    <3> QED BY <1>1, <3>1 DEF Mutex!vars
  <2> QED BY <2>1, <2>2
<1> QED BY <1>3, <1>4, <1>5 DEF LinkInv, MutexStep

LEMMA CancelStep ==
    ASSUME LinkInv, TypeOK', NEW c \in Call, Cancel(c)
    PROVE  LinkInv' /\ MutexStep
<1>1. /\ c \notin cancelled /\ cancelled' = cancelled \cup {c}
      /\ pc[c] \in {"idle", "waiting", "granted", "entering"}
      /\ pc'[c] = IF pc[c] \in {"waiting", "granted"} THEN "gone" ELSE pc[c]
      /\ \A d \in Call \ {c} : pc'[d] = pc[d]
      /\ UNCHANGED <<locked, acquireQueue, lock>>
  BY DEF Cancel, LinkInv, TypeOK, mutexVars
<1>2. ASSUME NEW m \in Call, NEW i \in DOMAIN acquireQueue[m]
      PROVE  pc'[Queued(m, i)] = IF Queued(m, i) \in cancelled' THEN "gone" ELSE "waiting"
  <2>1. /\ Queued(m, i) \in Call
        /\ pc[Queued(m, i)] = IF Queued(m, i) \in cancelled THEN "gone" ELSE "waiting"
    BY DEF LinkInv, TypeOK, QueuesLinked, Queued
  <2> QED BY <1>1, <2>1
<1>3. LockChosen'
  BY <1>1 DEF LinkInv, LockChosen, InSection
<1>4. QueuesLinked' /\ QueuedOnce'
  BY <1>1, <1>2 DEF LinkInv, QueuesLinked, QueuedOnce, Queued
<1>5. ASSUME NEW m \in Call
      PROVE  [Mutex(m)!Next]_(Mutex(m)!vars)
  <2>1. /\ StageIn(m, c)' = IF StageIn(m, c) \in {"waiting", "granted"} THEN "gone"
                            ELSE StageIn(m, c)
        /\ \A d \in Call \ {c} : StageIn(m, d)' = StageIn(m, d)
    BY <1>1 DEF StageIn
  <2>2. [d \in Call |-> StageIn(m, d)]'
        = [[d \in Call |-> StageIn(m, d)] EXCEPT
              ![c] = IF @ \in {"waiting", "granted"} THEN "gone" ELSE @]
    BY <2>1
  <2>3. Mutex(m)!Cancel(c)
    BY <1>1, <2>2 DEF Mutex!Cancel
  <2>4. Mutex(m)!Next
    BY <2>3, Zenon DEF Mutex!Next
  <2> QED BY <2>4, Zenon
<1> QED BY <1>3, <1>4, <1>5 DEF LinkInv, MutexStep

LEMMA LinkStep ==
    ASSUME LinkInv, Inv', [Next]_vars
    PROVE  LinkInv' /\ MutexStep
<1> USE DEF otherVars, mutexVars, callVars, objectVars
<1>0. TypeOK'
  BY DEF Inv
<1>a. CASE UNCHANGED vars
  BY <1>0, <1>a, QuietLinks DEF vars
<1>b. CASE DeleteSession \/ Deleted \/ TerminatorFires \/ Dispose
  BY <1>0, <1>b, QuietLinks DEF DeleteSession, Deleted, TerminatorFires, Dispose
<1>c. ASSUME NEW c \in Call,
             \/ GetSession(c) \/ Resume(c) \/ Enter(c) \/ AgentSelected(c) \/ Answer(c)
             \/ CreateSession(c)
             \/ StartRequest(c) \/ EndRequest(c) \/ Release(c) \/ Cancel(c)
      PROVE  LinkInv' /\ MutexStep
  <2>1. CASE GetSession(c)
    BY <1>0, <2>1, GetSessionStep
  <2>2. CASE Resume(c)
    BY <1>0, <2>2, ResumeStep
  <2>3. CASE TurnBack(c)
    BY <1>0, <2>3, LeaveStep DEF TurnBack, InSection
  <2>4. CASE Reuse(c)
    <3>1. CASE Leave(c, "using")
      BY <1>0, <2>4, <3>1, LeaveStep DEF Reuse, InSection
    <3>2. CASE pc' = [pc EXCEPT ![c] = "agent"] /\ UNCHANGED <<locked, acquireQueue>>
      BY <1>0, <2>4, <3>2, QuietCall DEF Reuse, InSection
    <3> QED BY <2>4, <3>1, <3>2 DEF Reuse
  <2>5. CASE StartLoading(c)
    BY <1>0, <2>5, QuietCall DEF StartLoading, InSection
  <2>6. CASE AgentSelected(c)
    BY <1>0, <2>6, LeaveStep DEF AgentSelected, InSection
  <2>7. CASE Loaded(c)
    BY <1>0, <2>7, LeaveStep DEF Loaded, InSection
  <2>8. CASE LoadFails(c)
    BY <1>0, <2>8, LeaveStep DEF LoadFails, InSection
  <2>9. CASE CreateSession(c)
    BY <1>0, <2>9, QuietCall DEF CreateSession
  <2>10. CASE StartRequest(c)
    BY <1>0, <2>10, QuietCall DEF StartRequest
  <2>11. CASE EndRequest(c)
    BY <1>0, <2>11, QuietCall DEF EndRequest
  <2>12. CASE Release(c)
    BY <1>0, <2>12, QuietCall DEF Release
  <2>13. CASE Cancel(c)
    BY <1>0, <2>13, CancelStep
  <2> QED BY <1>c, <2>1, <2>2, <2>3, <2>4, <2>5, <2>6, <2>7, <2>8, <2>9, <2>10, <2>11,
             <2>12, <2>13 DEF Enter, Answer
<1> QED BY <1>a, <1>b, <1>c DEF Next

\* Each mutex the map ever contained is used as SessionMutex describes, for
\* every number of calls: the initial state is that of a free mutex, and every
\* step is a step of at most one call on it.
THEOREM MutexesImplemented == Spec => MutexSpec
<1>1. ASSUME Init
      PROVE  LinkInv /\ \A m \in Call : Mutex(m)!Init
  <2>1. TypeOK
    BY <1>1, InitInv DEF Inv
  <2>2. LockChosen /\ QueuesLinked /\ QueuedOnce
    BY <1>1 DEF Init, LockChosen, QueuesLinked, QueuedOnce, Queued, InSection
  <2>3. ASSUME NEW m \in Call
        PROVE  Mutex(m)!Init
    <3>1. \A c \in Call : StageIn(m, c) = "idle"
      BY <1>1, NoneAssumption DEF Init, StageIn
    <3> QED BY <1>1, <3>1 DEF Init, Mutex!Init
  <2> QED BY <2>1, <2>2, <2>3 DEF LinkInv
<1>2. Inv /\ LinkInv /\ [Next]_vars => Inv' /\ LinkInv' /\ [MutexStep]_vars
  BY InvStep, LinkStep
<1>3. [MutexStep]_vars => [\A m \in Call : [Mutex(m)!Next]_(Mutex(m)!vars)]_vars
  BY DEF MutexStep
<1> QED BY <1>1, <1>2, <1>3, InitInv, PTL DEF Spec, MutexSpec

-----------------------------------------------------------------------------
(* References.                                                             *)

\* A call has a reference from the moment it is counted until it is disposed;
\* one whose agent could not be selected keeps it for ever.
ReferencesOwned ==
    \A c \in Call :
        /\ holds[c] # None => pc[c] \in {"agent", "using", "busy", "failed"}
        /\ pc[c] \in {"agent", "using", "busy"} => holds[c] # None

\* A call that may still create its session has not done so, and references
\* are to sessions that exist.
SessionsCreated ==
    \A c \in Call :
        /\ pc[c] \in {"idle", "waiting", "granted", "entering", "loading"} => object[c] = "none"
        /\ holds[c] # None => object[holds[c]] # "none"

\* The calls that were given a reference to o and have not disposed it, those
\* included whose reference was lost with an exception.
Given(o) == {c \in Call : holds[c] = o}

\* Every open session is counted at least once, and never more often than
\* references were given: replacement and deletion only take references away.
CountBounded ==
    \A o \in Call :
        object[o] = "open" => counter[o] >= 1 /\ counter[o] <= Cardinality(Given(o))

\* Outside of a deletion the count of the mapped wrapper is exact.
GivenCounted ==
    sessionWrapper # None /\ deleting # "pending" =>
        counter[sessionWrapper] = Cardinality(Given(sessionWrapper))

CountInv == ReferencesOwned /\ SessionsCreated /\ CountBounded /\ GivenCounted

LEMMA GivenFinite ==
    ASSUME NEW o PROVE IsFiniteSet(Given(o)) /\ Cardinality(Given(o)) \in Nat
<1>1. Given(o) \subseteq Call
  BY DEF Given
<1> QED BY <1>1, CallAssumption, FS_Subset, FS_CardinalityType

\* How a step may move a call without a reference being taken or dropped.
StageQuiet(c) ==
    \/ pc'[c] = pc[c]
    \/ /\ holds[c] = None
       /\ pc[c] \in {"idle", "waiting", "granted", "entering", "loading"}
       /\ pc'[c] \in {"waiting", "granted", "entering", "loading", "gone", "failed"}
    \/ pc[c] \in {"agent", "using", "busy"} /\ pc'[c] \in {"using", "busy", "failed"}

\* Sessions are at most disposed, and only the map forgets one.
ObjectsQuiet ==
    /\ UNCHANGED <<holds, counter>>
    /\ \A o \in Call : object'[o] = object[o] \/ (object[o] = "open" /\ object'[o] = "disposed")
    /\ sessionWrapper' \in {None, sessionWrapper}
    /\ deleting = "pending" => deleting' = "pending" \/ sessionWrapper' = None

LEMMA CountQuiet ==
    ASSUME Inv, CountInv, ObjectsQuiet, \A c \in Call : StageQuiet(c)
    PROVE  CountInv'
<1>1. \A o : Given(o)' = Given(o)
  BY DEF Given, ObjectsQuiet
<1>2. ReferencesOwned'
  BY DEF CountInv, ReferencesOwned, ObjectsQuiet, StageQuiet
<1>3. \A c \in Call : holds[c] # None => holds[c] \in Call
  BY DEF Inv, TypeOK
<1>4. SessionsCreated'
  BY <1>3 DEF CountInv, SessionsCreated, ObjectsQuiet, StageQuiet
<1>5. CountBounded'
  BY <1>1 DEF CountInv, CountBounded, ObjectsQuiet
<1>6. GivenCounted'
  BY <1>1 DEF CountInv, GivenCounted, ObjectsQuiet
<1> QED BY <1>2, <1>4, <1>5, <1>6 DEF CountInv

\* The calls other than c stay where they are, but for one that c wakes.
OthersWait(c) ==
    \A d \in Call \ {c} : pc'[d] = pc[d] \/ (pc[d] = "waiting" /\ pc'[d] = "granted")

LEMMA LeaveQuiet ==
    ASSUME LinkInv, NEW c \in Call, NEW s, Leave(c, s), pc[c] \in InSection
    PROVE  pc'[c] = s /\ OthersWait(c)
<1> DEFINE q == acquireQueue[lock[c]]
           woken == q # <<>> /\ Head(q) \notin cancelled
<1>1. lock[c] \in Call /\ q \in Seq(Call)
  BY DEF LinkInv, LockChosen, TypeOK
<1>2. ASSUME woken
      PROVE  pc[Head(q)] = "waiting"
  <2>1. Head(q) = q[1] /\ 1 \in DOMAIN q
    BY <1>1, <1>2
  <2> QED BY <1>1, <1>2, <2>1 DEF LinkInv, QueuesLinked, Queued
<1>3. pc' = [d \in Call |-> IF d = c THEN s
                            ELSE IF woken /\ d = Head(q) THEN "granted" ELSE pc[d]]
  BY DEF Leave
<1> HIDE DEF woken, q
<1> QED BY <1>2, <1>3 DEF OthersWait

\* The others of a step that leaves the section are quiet.
LEMMA OthersQuiet ==
    ASSUME CountInv, NEW c \in Call, OthersWait(c), StageQuiet(c)
    PROVE  \A d \in Call : StageQuiet(d)
BY DEF CountInv, ReferencesOwned, OthersWait, StageQuiet

\* A call takes one more reference to the session in the map.
LEMMA CountReuse ==
    ASSUME Inv, LinkInv, CountInv, NEW c \in Call, Reuse(c)
    PROVE  CountInv'
<1>0. PICK w \in Call : w = sessionWrapper
  BY DEF Reuse, Inv, TypeOK
<1>1. /\ w = sessionWrapper /\ object[w] = "open" /\ pc[c] = "entering"
      /\ counter' = [counter EXCEPT ![w] = @ + 1]
      /\ holds' = [holds EXCEPT ![c] = w]
      /\ UNCHANGED <<object, sessionWrapper, deleting>>
  BY <1>0, NoneAssumption DEF Reuse, Inv, MappedIsOpen, otherVars
<1>2. pc'[c] \in {"using", "agent"} /\ OthersWait(c)
  <2>1. CASE Leave(c, "using")
    BY <1>1, <2>1, LeaveQuiet DEF InSection
  <2>2. CASE pc' = [pc EXCEPT ![c] = "agent"]
    BY <2>2 DEF OthersWait, Inv, TypeOK
  <2> QED BY <2>1, <2>2 DEF Reuse
<1>3. holds[c] = None
  BY <1>1 DEF CountInv, ReferencesOwned
<1>4. /\ holds'[c] = w /\ \A d \in Call \ {c} : holds'[d] = holds[d]
      /\ counter \in [Call -> Int]
      /\ \A d \in Call : holds[d] # None => holds[d] \in Call
  BY <1>1 DEF Inv, TypeOK
<1>5. /\ Given(w)' = Given(w) \cup {c} /\ c \notin Given(w)
      /\ \A o \in Call \ {w} : Given(o)' = Given(o)
  BY <1>1, <1>3, <1>4, NoneAssumption DEF Given
<1>6. Cardinality(Given(w)') = Cardinality(Given(w)) + 1
  BY <1>5, GivenFinite, FS_AddElement
<1>7. ReferencesOwned'
  BY <1>1, <1>2, <1>3, <1>4, NoneAssumption DEF CountInv, ReferencesOwned, OthersWait
<1>8. SessionsCreated'
  BY <1>1, <1>2, <1>4 DEF CountInv, SessionsCreated, OthersWait
<1>9. CountBounded'
  <2> SUFFICES ASSUME NEW o \in Call, object'[o] = "open"
               PROVE  counter'[o] >= 1 /\ counter'[o] <= Cardinality(Given(o)')
    BY DEF CountBounded
  <2>1. counter[o] >= 1 /\ counter[o] <= Cardinality(Given(o)) /\ counter[o] \in Int
    BY <1>1, <1>4 DEF CountInv, CountBounded
  <2>2. CASE o = w
    <3>1. counter'[o] = counter[o] + 1
      BY <1>1, <1>4, <2>2
    <3> QED BY <1>6, <2>1, <2>2, <3>1, GivenFinite
  <2>3. CASE o # w
    BY <1>1, <1>4, <1>5, <2>1, <2>3
  <2> QED BY <2>2, <2>3
<1>10. GivenCounted'
  <2>1. counter'[w] = counter[w] + 1
    BY <1>1, <1>4
  <2> QED BY <1>1, <1>6, <2>1 DEF CountInv, GivenCounted
<1> QED BY <1>7, <1>8, <1>9, <1>10 DEF CountInv

\* A session is created with the reference of the call that created it, and
\* takes the place of another one, which loses a reference.
LEMMA CountCreate ==
    ASSUME Inv, CountInv, NEW c \in Call, CreateCopilotSession(c),
           pc[c] \in {"idle", "loading"}, pc'[c] = "using", OthersWait(c)
    PROVE  CountInv'
<1> DEFINE w == sessionWrapper
<1>1. /\ holds[c] = None /\ object[c] = "none" /\ w # c
      /\ \A d \in Call : holds[d] # c
  BY NoneAssumption DEF CountInv, ReferencesOwned, SessionsCreated, Inv, MappedIsOpen
<1>2. /\ sessionWrapper' = c
      /\ object'[c] = "open" /\ counter'[c] = 1
      /\ \A o \in Call \ {c, w} : object'[o] = object[o] /\ counter'[o] = counter[o]
      /\ w \in Call => /\ object[w] = "open" /\ counter'[w] = counter[w] - 1
                       /\ object'[w] = IF counter[w] = 1 THEN "disposed" ELSE "open"
  BY <1>1, NoneAssumption DEF CreateCopilotSession, Inv, MappedIsOpen
<1>3. /\ holds'[c] = c /\ \A d \in Call \ {c} : holds'[d] = holds[d]
      /\ counter \in [Call -> Int]
      /\ \A d \in Call : holds[d] # None => holds[d] \in Call
      /\ \A o \in Call : object'[o] = "none" => object[o] = "none"
  BY <1>2 DEF CreateCopilotSession, Inv, TypeOK
<1>4. Given(c)' = {c} /\ \A o \in Call \ {c} : Given(o)' = Given(o)
  BY <1>1, <1>3, NoneAssumption DEF Given
<1>5. Cardinality(Given(c)') = 1
  BY <1>4, FS_Singleton
<1>6. ReferencesOwned'
  BY <1>1, <1>3, NoneAssumption DEF CountInv, ReferencesOwned, OthersWait
<1>7. SessionsCreated'
  <2> SUFFICES ASSUME NEW d \in Call
               PROVE  /\ pc'[d] \in {"idle", "waiting", "granted", "entering", "loading"}
                            => object'[d] = "none"
                      /\ holds'[d] # None => object'[holds'[d]] # "none"
    BY DEF SessionsCreated
  <2>1. CASE d = c
    BY <1>2, <1>3, <2>1
  <2>2. CASE d # c
    <3>1. pc'[d] \in {"idle", "waiting", "granted", "entering", "loading"} => object[d] = "none"
      BY <2>2 DEF CountInv, SessionsCreated, OthersWait
    <3>2. holds[d] # None => holds[d] \in Call /\ object[holds[d]] # "none"
      BY <1>3 DEF CountInv, SessionsCreated
    <3>3. object[d] = "none" => object'[d] = "none"
      BY <1>2, <2>2
    <3> QED BY <1>3, <2>2, <3>1, <3>2, <3>3
  <2> QED BY <2>1, <2>2
<1>8. CountBounded'
  <2> SUFFICES ASSUME NEW o \in Call, object'[o] = "open"
               PROVE  counter'[o] >= 1 /\ counter'[o] <= Cardinality(Given(o)')
    BY DEF CountBounded
  <2>1. CASE o = c
    BY <1>2, <1>5, <2>1
  <2>2. CASE o # c
    <3>1. object[o] = "open"
      BY <1>2, <2>2
    <3>2. counter[o] >= 1 /\ counter[o] <= Cardinality(Given(o)) /\ counter[o] \in Int
      BY <1>3, <3>1 DEF CountInv, CountBounded
    <3>3. \/ counter'[o] = counter[o]
          \/ counter'[o] = counter[o] - 1 /\ counter[o] # 1
      BY <1>2, <2>2
    <3> QED BY <1>4, <2>2, <3>2, <3>3, GivenFinite
  <2> QED BY <2>1, <2>2
<1>9. GivenCounted'
  BY <1>2, <1>5 DEF GivenCounted
<1> QED BY <1>6, <1>7, <1>8, <1>9 DEF CountInv

\* A caller disposes its reference; the session follows the last one.
LEMMA CountRelease ==
    ASSUME Inv, CountInv, NEW c \in Call, Release(c)
    PROVE  CountInv'
<1>0. PICK h \in Call : h = holds[c]
  BY DEF Release, CountInv, ReferencesOwned, Inv, TypeOK
<1>1. /\ pc[c] = "using" /\ h = holds[c]
      /\ pc' = [pc EXCEPT ![c] = "done"] /\ holds' = [holds EXCEPT ![c] = None]
      /\ counter' = [counter EXCEPT ![h] = @ - 1]
      /\ deleting' = deleting
  BY <1>0 DEF Release, ReleaseReference, otherVars
<1>2. /\ \A o \in Call \ {h} : object'[o] = object[o]
      /\ object'[h] = IF object[h] = "open" /\ counter[h] = 1 THEN "disposed" ELSE object[h]
      /\ sessionWrapper' \in {None, sessionWrapper}
      /\ sessionWrapper' # None => /\ object'[sessionWrapper'] = "open"
                                   /\ sessionWrapper' \in Call
  BY <1>1 DEF Release, ReleaseReference, DisposeObject, Inv, TypeOK, MappedIsOpen
<1>3. /\ holds'[c] = None /\ \A d \in Call \ {c} : holds'[d] = holds[d]
      /\ pc'[c] = "done" /\ \A d \in Call \ {c} : pc'[d] = pc[d]
      /\ counter \in [Call -> Int]
      /\ counter'[h] = counter[h] - 1 /\ \A o \in Call \ {h} : counter'[o] = counter[o]
      /\ \A d \in Call : holds[d] # None => holds[d] \in Call
      /\ \A o \in Call : object'[o] = "none" <=> object[o] = "none"
  BY <1>1, <1>2 DEF Inv, TypeOK
<1>4. /\ Given(h)' = Given(h) \ {c} /\ c \in Given(h)
      /\ \A o \in Call \ {h} : Given(o)' = Given(o)
  BY <1>1, <1>3, NoneAssumption DEF Given
<1>5. Cardinality(Given(h)') = Cardinality(Given(h)) - 1
  BY <1>4, GivenFinite, FS_RemoveElement
<1>6. ReferencesOwned'
  BY <1>3, NoneAssumption DEF CountInv, ReferencesOwned
<1>7. SessionsCreated'
  BY <1>3 DEF CountInv, SessionsCreated
<1>8. ASSUME NEW o \in Call, object'[o] = "open"
      PROVE  /\ object[o] = "open"
             /\ counter[o] >= 1 /\ counter[o] <= Cardinality(Given(o)) /\ counter[o] \in Int
             /\ o = h => counter[o] # 1
  BY <1>2, <1>3, <1>8 DEF CountInv, CountBounded
<1>9. CountBounded'
  <2> SUFFICES ASSUME NEW o \in Call, object'[o] = "open"
               PROVE  counter'[o] >= 1 /\ counter'[o] <= Cardinality(Given(o)')
    BY DEF CountBounded
  <2>1. CASE o = h
    BY <1>3, <1>5, <1>8, <2>1, GivenFinite
  <2>2. CASE o # h
    BY <1>3, <1>4, <1>8, <2>2
  <2> QED BY <2>1, <2>2
<1>10. GivenCounted'
  <2> SUFFICES ASSUME sessionWrapper' # None, deleting' # "pending"
               PROVE  counter'[sessionWrapper'] = Cardinality(Given(sessionWrapper)')
    BY DEF GivenCounted
  <2>0. PICK w \in Call : w = sessionWrapper /\ w = sessionWrapper'
    BY <1>2
  <2>1. Given(sessionWrapper)' = Given(w)'
    BY <2>0 DEF Given
  <2>2. counter[w] = Cardinality(Given(w))
    BY <1>1, <2>0, NoneAssumption DEF CountInv, GivenCounted
  <2>3. CASE w = h
    BY <1>3, <1>5, <2>0, <2>1, <2>2, <2>3
  <2>4. CASE w # h
    BY <1>3, <1>4, <2>0, <2>1, <2>2, <2>4
  <2> QED BY <2>3, <2>4
<1> QED BY <1>6, <1>7, <1>9, <1>10 DEF CountInv

\* deleteSession takes a reference that belongs to a call.
LEMMA CountDelete ==
    ASSUME Inv, CountInv, DeleteSession
    PROVE  CountInv'
<1> DEFINE w == sessionWrapper
<1>1. UNCHANGED <<pc, holds>> /\ deleting' = "pending"
  BY DEF DeleteSession, callVars
<1>2. \A o : Given(o)' = Given(o)
  BY <1>1 DEF Given
<1>3. /\ \A o \in Call \ {w} : object'[o] = object[o] /\ counter'[o] = counter[o]
      /\ w \in Call => /\ object[w] = "open" /\ counter'[w] = counter[w] - 1
                       /\ object'[w] = IF counter[w] = 1 THEN "disposed" ELSE "open"
      /\ counter \in [Call -> Int]
      /\ \A d \in Call : holds[d] # None => holds[d] \in Call
  BY NoneAssumption
  DEF DeleteSession, ReleaseReference, DisposeObject, Inv, TypeOK, MappedIsOpen
<1>4. ReferencesOwned'
  BY <1>1 DEF CountInv, ReferencesOwned
<1>5. SessionsCreated'
  <2>1. \A o \in Call : object'[o] = "none" <=> object[o] = "none"
    BY <1>3
  <2> QED BY <1>1, <1>3, <2>1 DEF CountInv, SessionsCreated
<1>6. CountBounded'
  <2> SUFFICES ASSUME NEW o \in Call, object'[o] = "open"
               PROVE  counter'[o] >= 1 /\ counter'[o] <= Cardinality(Given(o)')
    BY DEF CountBounded
  <2>1. object[o] = "open"
    BY <1>3
  <2>2. counter[o] >= 1 /\ counter[o] <= Cardinality(Given(o)) /\ counter[o] \in Int
    BY <1>3, <2>1 DEF CountInv, CountBounded
  <2>3. \/ counter'[o] = counter[o]
        \/ counter'[o] = counter[o] - 1 /\ counter[o] # 1
    BY <1>3
  <2> QED BY <1>2, <2>2, <2>3, GivenFinite
<1> QED BY <1>1, <1>4, <1>5, <1>6 DEF CountInv, GivenCounted

\* A call that only moves.
LEMMA CountMove ==
    ASSUME Inv, CountInv, NEW c \in Call, NEW s, pc' = [pc EXCEPT ![c] = s],
           UNCHANGED <<holds, counter, object, sessionWrapper, deleting>>,
           \/ /\ pc[c] \in {"idle", "waiting", "granted", "entering", "loading"}
              /\ s \in {"waiting", "granted", "entering", "loading", "gone", "failed"}
           \/ pc[c] = s
           \/ pc[c] \in {"using", "busy"} /\ s \in {"using", "busy"}
    PROVE  CountInv'
<1>1. ObjectsQuiet
  BY DEF ObjectsQuiet
<1>2. pc'[c] = s /\ OthersWait(c)
  BY DEF OthersWait, Inv, TypeOK
<1>3. StageQuiet(c)
  BY <1>2 DEF StageQuiet, CountInv, ReferencesOwned
<1> QED BY <1>1, <1>2, <1>3, OthersQuiet, CountQuiet

\* A call that leaves the section with the reference it has, or none.
LEMMA CountLeave ==
    ASSUME Inv, LinkInv, CountInv, NEW c \in Call, NEW s, Leave(c, s),
           UNCHANGED <<holds, counter, object, sessionWrapper, deleting>>,
           \/ pc[c] \in {"entering", "loading"} /\ s = "failed"
           \/ pc[c] = "agent" /\ s \in {"using", "failed"}
    PROVE  CountInv'
<1>1. ObjectsQuiet
  BY DEF ObjectsQuiet
<1>2. pc'[c] = s /\ OthersWait(c)
  BY LeaveQuiet DEF InSection
<1>3. StageQuiet(c)
  BY <1>2 DEF StageQuiet, CountInv, ReferencesOwned
<1> QED BY <1>1, <1>2, <1>3, OthersQuiet, CountQuiet

LEMMA CountStep ==
    ASSUME Inv, LinkInv, CountInv, [Next]_vars
    PROVE  CountInv'
<1> USE DEF otherVars, mutexVars, callVars, objectVars
<1>a. CASE UNCHANGED vars
  BY <1>a, CountQuiet DEF vars, ObjectsQuiet, StageQuiet
<1>b. CASE DeleteSession
  BY <1>b, CountDelete
<1>c. CASE Deleted \/ Dispose
  BY <1>c, CountQuiet DEF Deleted, Dispose, ObjectsQuiet, StageQuiet
<1>d. CASE TerminatorFires
  <2>1. ObjectsQuiet
    BY <1>d DEF TerminatorFires, DisposeObject, ObjectsQuiet, Inv, TypeOK
  <2>2. \A c \in Call : StageQuiet(c)
    BY <1>d DEF TerminatorFires, StageQuiet
  <2> QED BY <2>1, <2>2, CountQuiet
<1>e. ASSUME NEW c \in Call,
             \/ GetSession(c) \/ Resume(c) \/ Enter(c) \/ AgentSelected(c) \/ Answer(c)
             \/ CreateSession(c)
             \/ StartRequest(c) \/ EndRequest(c) \/ Release(c) \/ Cancel(c)
      PROVE  CountInv'
  <2>1. CASE GetSession(c)
    <3>1. \E s \in {"gone", "granted", "waiting"} : pc' = [pc EXCEPT ![c] = s]
      BY <2>1 DEF GetSession
    <3> QED BY <2>1, <3>1, CountMove DEF GetSession
  <2>2. CASE Resume(c)
    BY <2>2, CountMove DEF Resume
  <2>3. CASE TurnBack(c)
    BY <2>3, CountLeave DEF TurnBack
  <2>4. CASE Reuse(c)
    BY <2>4, CountReuse
  <2>5. CASE StartLoading(c)
    BY <2>5, CountMove DEF StartLoading
  <2>6. CASE AgentSelected(c)
    BY <2>6, CountLeave DEF AgentSelected
  <2>7. CASE Loaded(c)
    <3>1. pc[c] = "loading" /\ pc'[c] = "using" /\ OthersWait(c)
      BY <2>7, LeaveQuiet DEF Loaded, InSection
    <3> QED BY <2>7, <3>1, CountCreate DEF Loaded
  <2>8. CASE LoadFails(c)
    BY <2>8, CountLeave DEF LoadFails
  <2>9. CASE CreateSession(c)
    <3>1. pc[c] = "idle" /\ pc'[c] = "using" /\ OthersWait(c)
      BY <2>9 DEF CreateSession, OthersWait, Inv, TypeOK
    <3> QED BY <2>9, <3>1, CountCreate DEF CreateSession
  <2>10. CASE StartRequest(c)
    BY <2>10, CountMove DEF StartRequest
  <2>11. CASE EndRequest(c)
    BY <2>11, CountMove DEF EndRequest
  <2>12. CASE Release(c)
    BY <2>12, CountRelease
  <2>13. CASE Cancel(c)
    <3>1. pc' = [pc EXCEPT ![c] = IF pc[c] \in {"waiting", "granted"} THEN "gone" ELSE pc[c]]
      BY <2>13 DEF Cancel
    <3> QED BY <2>13, <3>1, CountMove DEF Cancel
  <2> QED BY <1>e, <2>1, <2>2, <2>3, <2>4, <2>5, <2>6, <2>7, <2>8, <2>9, <2>10, <2>11,
             <2>12, <2>13 DEF Enter, Answer
<1> QED BY <1>a, <1>b, <1>c, <1>d, <1>e DEF Next

LEMMA CountInit == Init => LinkInv /\ CountInv
<1> SUFFICES ASSUME Init PROVE LinkInv /\ CountInv
  OBVIOUS
<1>1. LinkInv
  BY InitInv
  DEF Init, Inv, LinkInv, LockChosen, QueuesLinked, QueuedOnce, Queued, InSection
<1>2. CountInv
  BY DEF Init, CountInv, ReferencesOwned, SessionsCreated, CountBounded, GivenCounted
<1> QED BY <1>1, <1>2

\* What was given is held, or was lost.
LEMMA GivenSplit ==
    ASSUME CountInv, NEW o \in Call
    PROVE  /\ Given(o) = Holders(o) \cup Lost(o)
           /\ Cardinality(Given(o)) = Cardinality(Holders(o)) + Cardinality(Lost(o))
           /\ Cardinality(Holders(o)) \in Nat /\ Cardinality(Lost(o)) \in Nat
           /\ Lost(o) = {} => Cardinality(Lost(o)) = 0
<1>1. Given(o) = Holders(o) \cup Lost(o)
  BY NoneAssumption DEF Given, Holders, Lost, CountInv, ReferencesOwned
<1>2. Holders(o) \cap Lost(o) = {}
  BY DEF Holders, Lost
<1>3. Holders(o) \subseteq Given(o) /\ Lost(o) \subseteq Given(o)
  BY <1>1
<1>4. IsFiniteSet(Holders(o)) /\ IsFiniteSet(Lost(o))
  BY <1>3, GivenFinite, FS_Subset
<1>5. Cardinality(Holders(o)) \in Nat /\ Cardinality(Lost(o)) \in Nat
  BY <1>4, FS_CardinalityType
<1>6. Cardinality(Holders(o) \cup Lost(o))
        = Cardinality(Holders(o)) + Cardinality(Lost(o)) - Cardinality(Holders(o) \cap Lost(o))
  BY <1>4, FS_Union
<1>7. Cardinality(Holders(o) \cap Lost(o)) = 0
  BY <1>2, FS_EmptySet
<1>8. Lost(o) = {} => Cardinality(Lost(o)) = 0
  BY FS_EmptySet
<1>9. Cardinality(Given(o)) = Cardinality(Holders(o)) + Cardinality(Lost(o))
  BY <1>1, <1>5, <1>6, <1>7
<1> QED BY <1>1, <1>5, <1>8, <1>9

LEMMA CountInvariance == Spec => [](Inv /\ LinkInv /\ CountInv)
<1>1. Inv /\ LinkInv /\ CountInv /\ [Next]_vars => Inv' /\ LinkInv' /\ CountInv'
  BY InvStep, LinkStep, CountStep
<1> QED BY <1>1, InitInv, CountInit, PTL DEF Spec

\* The count of the wrapper in the map is the number of references that are
\* held or were lost with an exception, for every number of calls.
THEOREM CountsReferences == Spec => []ReferencesCounted
<1>1. ASSUME Inv, CountInv
      PROVE  ReferencesCounted
  <2> SUFFICES ASSUME sessionWrapper # None, deleting # "pending"
               PROVE  counter[sessionWrapper] =
                        Cardinality(Holders(sessionWrapper)) + Cardinality(Lost(sessionWrapper))
    BY DEF ReferencesCounted
  <2>1. sessionWrapper \in Call
    BY <1>1 DEF Inv, TypeOK
  <2> QED BY <1>1, <2>1, GivenSplit DEF CountInv, GivenCounted
<1> QED BY <1>1, CountInvariance, PTL

\* A session that its holders cannot close is one whose reference a throwing
\* selectCustomAgent lost, for every number of calls.
THEOREM LeaksExplained == Spec => []LeakedByAgentOnly
<1>1. ASSUME Inv, CountInv
      PROVE  LeakedByAgentOnly
  <2> SUFFICES ASSUME NEW o \in Call, Leaked(o), Lost(o) = {} PROVE FALSE
    BY DEF LeakedByAgentOnly
  <2>1. counter[o] \in Int /\ counter[o] >= 1 /\ counter[o] <= Cardinality(Given(o))
    BY <1>1 DEF CountInv, CountBounded, Inv, TypeOK, Leaked
  <2>2. Cardinality(Given(o)) = Cardinality(Holders(o)) /\ Cardinality(Holders(o)) \in Nat
    BY <1>1, GivenSplit
  <2> QED BY <2>1, <2>2 DEF Leaked
<1> QED BY <1>1, CountInvariance, PTL

\* The release of one caller closes the mapped session of no other caller, for
\* every number of calls; a terminator, a deletion and a replacement may.
THEOREM HeldStays == Spec => HeldStaysOpen
<1> DEFINE Explained(o) ==
             \/ terminator = o /\ terminator' = None
             \/ deleting = "pending" \/ deleting' = "pending"
             \/ sessionWrapper # o \/ sessionWrapper' \notin {o, None}
           Step == \A o \in Call :
             object[o] = "open" /\ object'[o] = "disposed" /\ Holders(o)' # {} => Explained(o)
<1>1. ASSUME Inv, CountInv, Next
      PROVE  Step
  <2> SUFFICES ASSUME NEW o \in Call, object[o] = "open", object'[o] = "disposed",
                      Holders(o)' # {}
               PROVE  Explained(o)
    OBVIOUS
  <2> USE <1>1 DEF Inv, TypeOK
  <2>1. CASE TerminatorFires
    BY <2>1 DEF TerminatorFires, DisposeObject
  <2>2. CASE DeleteSession
    BY <2>2 DEF DeleteSession
  <2>3. CASE Deleted \/ Dispose
    BY <2>3 DEF Deleted, Dispose, objectVars
  <2>4. ASSUME NEW c \in Call, CreateCopilotSession(c) PROVE Explained(o)
    BY <2>4, NoneAssumption DEF CreateCopilotSession
  <2>5. ASSUME NEW c \in Call, Release(c) PROVE Explained(o)
    <3> SUFFICES ASSUME deleting # "pending", sessionWrapper = o PROVE FALSE
      OBVIOUS
    <3>1. holds[c] = o /\ counter[o] = 1 /\ holds' = [holds EXCEPT ![c] = None]
      BY <2>5 DEF Release, ReleaseReference, DisposeObject
    <3>2. Cardinality(Given(o)) = 1 /\ c \in Given(o)
      BY <3>1, NoneAssumption DEF CountInv, GivenCounted, Given
    <3>3. Cardinality(Given(o) \ {c}) = 0 /\ IsFiniteSet(Given(o) \ {c})
      <4>1. IsFiniteSet(Given(o))
        BY GivenFinite
      <4>2. IsFiniteSet(Given(o) \ {c}) /\ Cardinality(Given(o) \ {c}) = Cardinality(Given(o)) - 1
        BY <3>2, <4>1, FS_RemoveElement
      <4> QED BY <3>2, <4>2
    <3>4. Given(o) \ {c} = {}
      BY <3>3, FS_EmptySet
    <3>5. Holders(o)' \subseteq Given(o) \ {c}
      BY <3>1, NoneAssumption DEF Holders, Given
    <3> QED BY <3>4, <3>5
  <2>6. ASSUME NEW c \in Call,
               \/ GetSession(c) \/ Resume(c) \/ TurnBack(c) \/ Reuse(c) \/ StartLoading(c)
               \/ AgentSelected(c) \/ LoadFails(c)
               \/ StartRequest(c) \/ EndRequest(c) \/ Cancel(c)
        PROVE  FALSE
    <3>1. UNCHANGED object
      BY <2>6 DEF GetSession, Resume, TurnBack, Reuse, StartLoading, AgentSelected, LoadFails,
                  StartRequest, EndRequest, Cancel, objectVars
    <3> QED BY <3>1
  <2> QED BY <2>1, <2>2, <2>3, <2>4, <2>5, <2>6
          DEF Next, Enter, Answer, Loaded, CreateSession
<1>2. Inv /\ LinkInv /\ CountInv /\ [Next]_vars => [Step]_vars
  BY <1>1
<1>3. Spec => [][Step]_vars
  BY <1>2, CountInvariance, PTL DEF Spec
<1> QED
  BY <1>3 DEF HeldStaysOpen

-----------------------------------------------------------------------------
(* One wrapper, and the terminator.                                        *)

\* A mutex is locked for at most one call.
LockedForOne ==
    \A c \in Call : pc[c] \in InSection \cup {"granted"} =>
        /\ locked[lock[c]]
        /\ \A d \in Call : pc[d] \in InSection \cup {"granted"} /\ lock[d] = lock[c] => d = c

\* No session of the id was disposed or deleted.
Fresh == deleting = "no" /\ \A o \in Call : object[o] # "disposed"

\* Until then all calls use the mutex in the map, a session is loaded only if
\* there is none, and the only session is the one in the map.
MappedIsOnly ==
    Fresh =>
        /\ \A c \in Call : pc[c] \in InSection \cup {"granted", "waiting"} => lock[c] = sessionMutex
        /\ \A c \in Call : pc[c] = "loading" => sessionWrapper = None
        /\ \A o \in Call : object[o] # "none" => o = sessionWrapper

\* Nothing the mutexes are held for changes, or a call moves without taking
\* one.
LEMMA LockedQuiet ==
    ASSUME LockedForOne, UNCHANGED <<locked, lock>>,
           \A d \in Call : pc'[d] \in InSection \cup {"granted"}
                               => pc[d] \in InSection \cup {"granted"}
    PROVE  LockedForOne'
BY DEF LockedForOne

\* The holder leaves, and the lock is free or belongs to the head of the queue.
LEMMA LockedLeave ==
    ASSUME LinkInv, LockedForOne, NEW c \in Call, NEW s \in {"using", "failed"},
           pc[c] \in InSection, Leave(c, s), UNCHANGED lock
    PROVE  LockedForOne'
<1> DEFINE m == lock[c]
           q == acquireQueue[m]
           woken == q # <<>> /\ Head(q) \notin cancelled
<1>1. m \in Call /\ q \in Seq(Call)
  BY DEF LinkInv, LockChosen, TypeOK
<1>2. ASSUME woken
      PROVE  Head(q) \in Call /\ lock[Head(q)] = m
  <2>1. Head(q) = q[1] /\ 1 \in DOMAIN q /\ Head(q) \in Call
    BY <1>1, <1>2
  <2> QED BY <1>1, <2>1 DEF LinkInv, QueuesLinked, Queued
<1>3. /\ locked'[m] = woken /\ \A n \in Call \ {m} : locked'[n] = locked[n]
      /\ pc' = [d \in Call |-> IF d = c THEN s
                               ELSE IF woken /\ d = Head(q) THEN "granted" ELSE pc[d]]
  BY <1>1 DEF Leave, LinkInv, TypeOK
<1> HIDE DEF woken, q
<1>4. ASSUME NEW d \in Call, pc'[d] \in InSection \cup {"granted"}
      PROVE  \/ woken /\ d = Head(q) /\ lock[d] = m
             \/ /\ pc[d] \in InSection \cup {"granted"} /\ lock[d] # m
                /\ lock[d] \in Call /\ locked[lock[d]] /\ ~(woken /\ d = Head(q))
  <2>1. d # c
    BY <1>3, <1>4 DEF InSection
  <2>2. CASE woken /\ d = Head(q)
    BY <1>2, <2>2
  <2>3. CASE ~(woken /\ d = Head(q))
    <3>1. pc[d] \in InSection \cup {"granted"}
      BY <1>3, <1>4, <2>1, <2>3
    <3> QED BY <2>1, <2>3, <3>1 DEF LockedForOne, LinkInv, LockChosen
  <2> QED BY <2>2, <2>3
<1> QED BY <1>1, <1>3, <1>4 DEF LockedForOne

LEMMA LockedStep ==
    ASSUME Inv, LinkInv, LockedForOne, [Next]_vars
    PROVE  LockedForOne'
<1> USE DEF otherVars, mutexVars, callVars, objectVars
<1>0. TypeOK
  BY DEF Inv
<1>a. CASE UNCHANGED vars
  BY <1>a, LockedQuiet DEF vars
<1>b. CASE DeleteSession \/ Deleted \/ TerminatorFires \/ Dispose
  BY <1>b, LockedQuiet DEF DeleteSession, Deleted, TerminatorFires, Dispose
<1>c. ASSUME NEW c \in Call,
             \/ GetSession(c) \/ Resume(c) \/ Enter(c) \/ AgentSelected(c) \/ Answer(c)
             \/ CreateSession(c)
             \/ StartRequest(c) \/ EndRequest(c) \/ Release(c) \/ Cancel(c)
      PROVE  LockedForOne'
  <2>1. CASE GetSession(c)
    <3> DEFINE m == IF sessionMutex = None THEN c ELSE sessionMutex
    <3>1. /\ m \in Call /\ lock'[c] = m
          /\ \A d \in Call \ {c} : lock'[d] = lock[d] /\ pc'[d] = pc[d]
          /\ \A n \in Call : locked[n] => locked'[n]
          /\ pc'[c] \in InSection \cup {"granted"} => ~locked[m] /\ locked'[m]
      BY <1>0, <2>1 DEF GetSession, TypeOK, InSection
    <3>2. \A d \in Call : pc[d] \in InSection \cup {"granted"} => lock[d] \in Call
      BY DEF LinkInv, LockChosen
    <3> QED BY <3>1, <3>2 DEF LockedForOne
  <2>2. CASE Resume(c)
    BY <1>0, <2>2, LockedQuiet DEF Resume, TypeOK, InSection
  <2>3. CASE TurnBack(c)
    BY <2>3, LockedLeave DEF TurnBack, InSection
  <2>4. CASE Reuse(c)
    <3>1. CASE Leave(c, "using")
      BY <2>4, <3>1, LockedLeave DEF Reuse, InSection
    <3>2. CASE pc' = [pc EXCEPT ![c] = "agent"] /\ UNCHANGED <<locked, acquireQueue>>
      BY <1>0, <2>4, <3>2, LockedQuiet DEF Reuse, TypeOK, InSection
    <3> QED BY <2>4, <3>1, <3>2 DEF Reuse
  <2>5. CASE StartLoading(c)
    BY <1>0, <2>5, LockedQuiet DEF StartLoading, TypeOK, InSection
  <2>6. CASE AgentSelected(c)
    BY <2>6, LockedLeave DEF AgentSelected, InSection
  <2>7. CASE Loaded(c)
    BY <2>7, LockedLeave DEF Loaded, InSection
  <2>8. CASE LoadFails(c)
    BY <2>8, LockedLeave DEF LoadFails, InSection
  <2>9. CASE CreateSession(c)
    BY <1>0, <2>9, LockedQuiet DEF CreateSession, TypeOK, InSection
  <2>10. CASE StartRequest(c)
    BY <1>0, <2>10, LockedQuiet DEF StartRequest, TypeOK, InSection
  <2>11. CASE EndRequest(c)
    BY <1>0, <2>11, LockedQuiet DEF EndRequest, TypeOK, InSection
  <2>12. CASE Release(c)
    BY <1>0, <2>12, LockedQuiet DEF Release, TypeOK, InSection
  <2>13. CASE Cancel(c)
    BY <1>0, <2>13, LockedQuiet DEF Cancel, TypeOK, InSection
  <2> QED BY <1>c, <2>1, <2>2, <2>3, <2>4, <2>5, <2>6, <2>7, <2>8, <2>9, <2>10, <2>11,
             <2>12, <2>13 DEF Enter, Answer
<1> QED BY <1>a, <1>b, <1>c DEF Next

\* A step that creates no session leaves the only one the only one: either it
\* disposes it, or it keeps what the map holds for the id.
LEMMA OnlyQuiet ==
    ASSUME MappedIsOnly, UNCHANGED lock,
           \A o \in Call : object[o] = "disposed" => object'[o] = "disposed",
           deleting' = "no" => deleting = "no",
           Fresh' => UNCHANGED <<sessionMutex, sessionWrapper, object>>,
           \A d \in Call :
               /\ pc'[d] \in InSection \cup {"granted", "waiting"}
                      => pc[d] \in InSection \cup {"granted", "waiting"}
               /\ pc'[d] = "loading" => pc[d] = "loading" \/ sessionWrapper = None
    PROVE  MappedIsOnly'
<1> SUFFICES ASSUME Fresh' PROVE MappedIsOnly'
  BY DEF MappedIsOnly
<1>1. Fresh
  BY DEF Fresh
<1> QED BY <1>1 DEF MappedIsOnly

\* Leaving the section moves nobody into it but the head of the queue, which
\* waited.
LEMMA LeaveMoves ==
    ASSUME LinkInv, NEW c \in Call, NEW s \in {"using", "failed"}, Leave(c, s),
           pc[c] \in InSection, NEW d \in Call
    PROVE  /\ pc'[d] \in InSection \cup {"granted", "waiting"}
                  => d # c /\ pc[d] \in InSection \cup {"granted", "waiting"}
           /\ pc'[d] = "loading" => d # c /\ pc[d] = "loading"
<1> DEFINE q == acquireQueue[lock[c]]
           woken == q # <<>> /\ Head(q) \notin cancelled
<1>1. lock[c] \in Call /\ q \in Seq(Call)
  BY DEF LinkInv, LockChosen, TypeOK
<1>2. woken => pc[Head(q)] = "waiting"
  BY <1>1 DEF LinkInv, QueuesLinked, Queued
<1>3. pc'[d] = IF d = c THEN s ELSE IF woken /\ d = Head(q) THEN "granted" ELSE pc[d]
  BY DEF Leave
<1> HIDE DEF woken, q
<1> QED BY <1>2, <1>3 DEF InSection

\* A disposal ends the claim; anything else it leaves alone.
LEMMA DisposeEndsFresh ==
    ASSUME Inv, NEW o \in Call, DisposeObject(o) \/ ReleaseReference(o)
    PROVE  /\ \A p \in Call : object[p] = "disposed" => object'[p] = "disposed"
           /\ Fresh' => UNCHANGED <<sessionMutex, sessionWrapper, object>>
<1>1. \/ object' = [object EXCEPT ![o] = "disposed"]
      \/ UNCHANGED <<object, sessionWrapper, sessionMutex>>
  BY DEF DisposeObject, ReleaseReference
<1> QED BY <1>1 DEF Fresh, Inv, TypeOK

\* A call that waited for the others to load creates the only session.
LEMMA OnlyLoaded ==
    ASSUME Inv, LinkInv, CountInv, LockedForOne, MappedIsOnly, NEW c \in Call, Loaded(c)
    PROVE  MappedIsOnly'
<1> SUFFICES ASSUME Fresh' PROVE MappedIsOnly'
  BY DEF MappedIsOnly
<1>1. Fresh
  <2> SUFFICES ASSUME NEW o \in Call PROVE object[o] # "disposed"
    BY DEF Fresh, Loaded, otherVars
  <2>1. object[c] = "none"
    BY DEF CountInv, SessionsCreated, Loaded
  <2>2. o # c => object'[o] \in {object[o], "disposed"}
    BY DEF Loaded, CreateCopilotSession
  <2> QED BY <2>1, <2>2 DEF Fresh
<1>2. /\ pc[c] = "loading" /\ sessionWrapper = None /\ lock' = lock
      /\ \A o \in Call : object[o] = "none"
  BY <1>1, NoneAssumption DEF MappedIsOnly, Loaded
<1>3. /\ sessionMutex' = sessionMutex /\ sessionWrapper' = c
      /\ \A o \in Call \ {c} : object'[o] = object[o]
  BY <1>2, NoneAssumption DEF Loaded, CreateCopilotSession
<1>4. ASSUME NEW d \in Call
      PROVE  /\ pc'[d] \in InSection \cup {"granted", "waiting"}
                    => pc[d] \in InSection \cup {"granted", "waiting"}
             /\ pc'[d] # "loading"
  <2>1. /\ pc'[d] \in InSection \cup {"granted", "waiting"}
               => pc[d] \in InSection \cup {"granted", "waiting"}
        /\ pc'[d] = "loading" => d # c /\ pc[d] = "loading"
    BY <1>2, LeaveMoves DEF Loaded, InSection
  <2>2. pc[d] = "loading" => d = c
    BY <1>1, <1>2 DEF LockedForOne, MappedIsOnly, InSection
  <2> QED BY <2>1, <2>2
<1> QED BY <1>1, <1>2, <1>3, <1>4 DEF MappedIsOnly

LEMMA OnlyStep ==
    ASSUME Inv, LinkInv, CountInv, LockedForOne, MappedIsOnly, [Next]_vars
    PROVE  MappedIsOnly'
<1> USE DEF otherVars, mutexVars, callVars, objectVars
<1>0. TypeOK
  BY DEF Inv
<1>a. CASE UNCHANGED vars
  BY <1>a, OnlyQuiet DEF vars
<1>b. CASE DeleteSession \/ Deleted
  BY <1>b DEF DeleteSession, Deleted, MappedIsOnly, Fresh
<1>c. CASE TerminatorFires
  <2>1. terminator \in Call
    BY <1>0, <1>c DEF TerminatorFires, TypeOK
  <2> QED BY <1>c, <2>1, DisposeEndsFresh, OnlyQuiet DEF TerminatorFires
<1>d. CASE Dispose
  BY <1>d, OnlyQuiet DEF Dispose
<1>e. ASSUME NEW c \in Call,
             \/ GetSession(c) \/ Resume(c) \/ Enter(c) \/ AgentSelected(c) \/ Answer(c)
             \/ CreateSession(c)
             \/ StartRequest(c) \/ EndRequest(c) \/ Release(c) \/ Cancel(c)
      PROVE  MappedIsOnly'
  <2>1. CASE GetSession(c)
    <3> SUFFICES ASSUME Fresh' PROVE MappedIsOnly'
      BY DEF MappedIsOnly
    <3>1. Fresh /\ UNCHANGED <<sessionWrapper, object>>
      BY <2>1 DEF GetSession, Fresh
    <3>2. /\ lock'[c] = sessionMutex' /\ pc'[c] # "loading"
          /\ sessionMutex # None => sessionMutex' = sessionMutex
          /\ \A d \in Call \ {c} : lock'[d] = lock[d] /\ pc'[d] = pc[d]
      BY <1>0, <2>1 DEF GetSession, TypeOK
    <3>3. \A d \in Call : pc[d] \in InSection \cup {"granted", "waiting"} => lock[d] # None
      BY NoneAssumption DEF LinkInv, LockChosen
    <3> QED BY <3>1, <3>2, <3>3 DEF MappedIsOnly
  <2>2. CASE Resume(c)
    BY <1>0, <2>2, OnlyQuiet DEF Resume, TypeOK, InSection
  <2>3. CASE TurnBack(c)
    BY <2>3, LeaveMoves, OnlyQuiet DEF TurnBack, InSection
  <2>4. CASE Reuse(c)
    <3>1. CASE Leave(c, "using")
      BY <2>4, <3>1, LeaveMoves, OnlyQuiet DEF Reuse, InSection
    <3>2. CASE pc' = [pc EXCEPT ![c] = "agent"] /\ UNCHANGED <<locked, acquireQueue>>
      BY <1>0, <2>4, <3>2, OnlyQuiet DEF Reuse, TypeOK, InSection
    <3> QED BY <2>4, <3>1, <3>2 DEF Reuse
  <2>5. CASE StartLoading(c)
    BY <1>0, <2>5, OnlyQuiet DEF StartLoading, TypeOK, InSection
  <2>6. CASE AgentSelected(c)
    <3>1. PICK s \in {"using", "failed"} : Leave(c, s)
      BY <2>6 DEF AgentSelected
    <3> QED BY <2>6, <3>1, LeaveMoves, OnlyQuiet DEF AgentSelected, InSection
  <2>7. CASE Loaded(c)
    BY <2>7, OnlyLoaded
  <2>8. CASE LoadFails(c)
    BY <2>8, LeaveMoves, OnlyQuiet DEF LoadFails, InSection
  <2>9. CASE CreateSession(c)
    <3>1. sessionWrapper = None /\ \A o \in Call : object[o] = "none"
      BY <1>0, <2>9
      DEF CreateSession, CountInv, SessionsCreated, Inv, MappedIsOpen, TypeOK
    <3>2. /\ sessionWrapper' = c
          /\ \A o \in Call \ {c} : object'[o] = "none"
          /\ \A d \in Call : pc'[d] \in {"idle", "using"}
      BY <1>0, <2>9, <3>1, NoneAssumption DEF CreateSession, CreateCopilotSession, TypeOK
    <3> QED BY <3>2 DEF MappedIsOnly, InSection
  <2>10. CASE StartRequest(c)
    BY <1>0, <2>10, OnlyQuiet DEF StartRequest, TypeOK, InSection
  <2>11. CASE EndRequest(c)
    BY <1>0, <2>11, OnlyQuiet DEF EndRequest, TypeOK, InSection
  <2>12. CASE Release(c)
    <3>1. holds[c] \in Call
      BY <1>0, <2>12 DEF Release, CountInv, ReferencesOwned, TypeOK
    <3>2. \A d \in Call : pc'[d] \in {pc[d], "done"}
      BY <1>0, <2>12 DEF Release, TypeOK
    <3>3. ReleaseReference(holds[c]) /\ UNCHANGED <<lock, deleting>>
      BY <2>12 DEF Release
    <3>4. /\ \A p \in Call : object[p] = "disposed" => object'[p] = "disposed"
          /\ Fresh' => UNCHANGED <<sessionMutex, sessionWrapper, object>>
      BY <3>1, <3>3, DisposeEndsFresh
    <3> QED BY <3>2, <3>3, <3>4, OnlyQuiet DEF InSection
  <2>13. CASE Cancel(c)
    BY <1>0, <2>13, OnlyQuiet DEF Cancel, TypeOK, InSection
  <2> QED BY <1>e, <2>1, <2>2, <2>3, <2>4, <2>5, <2>6, <2>7, <2>8, <2>9, <2>10, <2>11,
             <2>12, <2>13 DEF Enter, Answer
<1> QED BY <1>a, <1>b, <1>c, <1>d, <1>e DEF Next

\* Concurrent calls create one session of the id, for every number of calls:
\* the mutex in the map is not replaced before a session is disposed, so its
\* section is entered by one call at a time, which looks into the map again.
THEOREM LoadedOnce == Spec => []OneWrapper
<1>1. Init => LockedForOne /\ MappedIsOnly
  BY DEF Init, LockedForOne, MappedIsOnly, InSection
<1>2. /\ Inv /\ LinkInv /\ CountInv /\ LockedForOne /\ MappedIsOnly /\ [Next]_vars
      => Inv' /\ LinkInv' /\ CountInv' /\ LockedForOne' /\ MappedIsOnly'
  BY InvStep, LinkStep, CountStep, LockedStep, OnlyStep
<1>3. MappedIsOnly => OneWrapper
  BY DEF MappedIsOnly, OneWrapper, Fresh
<1> QED BY <1>1, <1>2, <1>3, InitInv, CountInit, PTL DEF Spec

-----------------------------------------------------------------------------
\* One request of the chat session runs at a time, and nothing will dispose
\* its session in the mean time.
BusyInv ==
    /\ BusyIsNotTimed
    /\ \A c, d \in Call : pc[c] = "busy" /\ pc[d] = "busy" => c = d

\* A request that ends arms the terminator for a session nobody is busy on,
\* and one that starts disarms it, for every number of calls.
THEOREM BusyNotTimed == Spec => []BusyIsNotTimed
<1>1. Init => BusyInv
  BY DEF Init, BusyInv, BusyIsNotTimed
<1>2. ASSUME Inv, LinkInv, CountInv, BusyInv, [Next]_vars
      PROVE  BusyInv'
  <2> USE DEF otherVars, mutexVars, callVars, objectVars, BusyInv, BusyIsNotTimed
  <2>0. TypeOK /\ \A d \in Call : pc[d] \in {"using", "busy"} => holds[d] # None
    BY <1>2 DEF Inv, CountInv, ReferencesOwned
  <2>1. ASSUME terminator' \in {None, terminator},
               \A d \in Call : pc'[d] = "busy" => pc[d] = "busy" /\ holds'[d] = holds[d]
        PROVE  BusyInv'
    BY <1>2, <2>0, <2>1
  <2>a. CASE UNCHANGED vars
    BY <2>1, <2>a DEF vars
  <2>b. CASE DeleteSession \/ Deleted \/ TerminatorFires \/ Dispose
    BY <2>1, <2>b DEF DeleteSession, Deleted, TerminatorFires, Dispose
  <2>c. ASSUME NEW c \in Call, GetSession(c) \/ Resume(c) \/ StartLoading(c) \/ Release(c) \/ Cancel(c)
        PROVE  BusyInv'
    BY <2>0, <2>1, <2>c DEF GetSession, Resume, StartLoading, Release, Cancel, TypeOK
  <2>d. ASSUME NEW c \in Call, TurnBack(c) \/ AgentSelected(c) \/ LoadFails(c)
        PROVE  BusyInv'
    BY <2>1, <2>d DEF TurnBack, AgentSelected, LoadFails, Leave
  <2>e. ASSUME NEW c \in Call, Reuse(c) \/ Loaded(c) \/ CreateSession(c)
        PROVE  BusyInv'
    <3>1. /\ \A d \in Call : pc'[d] = "busy" => pc[d] = "busy" /\ d # c
          /\ \A d \in Call \ {c} : holds'[d] = holds[d]
          /\ terminator' = terminator
      BY <2>0, <2>e DEF Reuse, Loaded, CreateSession, CreateCopilotSession, Leave, TypeOK
    <3> QED BY <2>1, <3>1
  <2>f. ASSUME NEW c \in Call, StartRequest(c)
        PROVE  BusyInv'
    BY <2>0, <2>f DEF StartRequest, TypeOK
  <2>g. ASSUME NEW c \in Call, EndRequest(c)
        PROVE  BusyInv'
    BY <1>2, <2>0, <2>g DEF EndRequest, TypeOK
  <2> QED BY <1>2, <2>a, <2>b, <2>c, <2>d, <2>e, <2>f, <2>g DEF Next, Enter, Answer
<1>3. BusyInv => BusyIsNotTimed
  BY DEF BusyInv
<1>4. Inv /\ LinkInv /\ CountInv /\ [Next]_vars => Inv' /\ LinkInv' /\ CountInv'
  BY InvStep, LinkStep, CountStep
<1> QED BY <1>1, <1>2, <1>3, <1>4, InitInv, CountInit, PTL DEF Spec
-----------------------------------------------------------------------------
(* Why a call waits.                                                       *)

\* A waiting call has its closure in the queue of its mutex.
WaitInv ==
    \A c \in Call : pc[c] = "waiting" => \E i \in DOMAIN acquireQueue[lock[c]] : Queued(lock[c], i) = c

\* No call starts to wait, and the queues stay.
LEMMA WaitQuiet ==
    ASSUME WaitInv, UNCHANGED <<acquireQueue, lock>>,
           \A d \in Call : pc'[d] = "waiting" => pc[d] = "waiting"
    PROVE  WaitInv'
BY DEF WaitInv, Queued

\* The holder leaves: the head of the queue is granted the mutex, or it was
\* cancelled; either way it no longer waits.
LEMMA WaitLeave ==
    ASSUME LinkInv, WaitInv, NEW c \in Call, NEW s \in {"using", "failed"},
           pc[c] \in InSection, Leave(c, s), UNCHANGED <<lock, cancelled>>
    PROVE  WaitInv'
<1> DEFINE m == lock[c]
           q == acquireQueue[m]
           woken == q # <<>> /\ Head(q) \notin cancelled
<1>1. m \in Call /\ q \in Seq(Call) /\ acquireQueue \in [Call -> Seq(Call)]
  BY DEF LinkInv, LockChosen, TypeOK
<1>2. ASSUME q # <<>>
      PROVE  Head(q) = q[1] /\ 1 \in DOMAIN q /\ Head(q) \in Call /\ lock[Head(q)] = m
  <2>1. Head(q) = q[1] /\ 1 \in DOMAIN q /\ Head(q) \in Call
    BY <1>1, <1>2
  <2> QED BY <1>1, <2>1 DEF LinkInv, QueuesLinked, Queued
<1>3. /\ locked'[m] = woken /\ \A n \in Call \ {m} : locked'[n] = locked[n]
      /\ pc' = [d \in Call |-> IF d = c THEN s
                               ELSE IF woken /\ d = Head(q) THEN "granted" ELSE pc[d]]
      /\ acquireQueue'[m] = IF q = <<>> THEN q ELSE Tail(q)
      /\ \A n \in Call \ {m} : acquireQueue'[n] = acquireQueue[n]
  BY <1>1 DEF Leave, LinkInv, TypeOK
<1> HIDE DEF woken
<1>4. ASSUME NEW d \in Call, pc'[d] = "waiting"
      PROVE  \E i \in DOMAIN acquireQueue'[lock[d]] : acquireQueue'[lock[d]][i] = d
  <2>1. d # c /\ ~(woken /\ d = Head(q)) /\ pc[d] = "waiting"
    BY <1>3, <1>4
  <2>2. lock[d] \in Call
    BY <2>1 DEF LinkInv, LockChosen
  <2>3. PICK i \in DOMAIN acquireQueue[lock[d]] : acquireQueue[lock[d]][i] = d
    BY <2>1 DEF WaitInv, Queued
  <2>4. CASE lock[d] # m
    BY <1>3, <2>1, <2>2, <2>3, <2>4 DEF WaitInv
  <2>5. CASE lock[d] = m
    <3>1. q # <<>> /\ i \in 1 .. Len(q) /\ q[i] = d
      BY <1>1, <2>3, <2>5
    <3>2. d \notin cancelled
      BY <1>1, <2>1, <2>3, <2>5 DEF LinkInv, QueuesLinked, Queued
    <3>3. i # 1
      BY <1>2, <2>1, <3>1, <3>2 DEF woken
    <3>4. i - 1 \in DOMAIN Tail(q) /\ Tail(q)[i - 1] = d
      <4> HIDE DEF q, m
      <4>1. q \in Seq(Call) /\ Len(q) \in Nat /\ i \in Nat /\ i - 1 \in 1 .. Len(q) - 1
        BY <1>1, <3>1, <3>3
      <4>2. /\ DOMAIN Tail(q) = 1 .. Len(q) - 1
            /\ \A j \in 1 .. Len(q) - 1 : Tail(q)[j] = q[j + 1]
        BY <3>1, <4>1
      <4>3. Tail(q)[i - 1] = q[(i - 1) + 1] /\ (i - 1) + 1 = i
        BY <4>1, <4>2
      <4> QED BY <3>1, <4>1, <4>2, <4>3
    <3> QED BY <1>3, <2>5, <3>1, <3>4
  <2> QED BY <2>4, <2>5
<1> QED BY <1>4 DEF WaitInv, Queued

LEMMA WaitStep ==
    ASSUME Inv, LinkInv, WaitInv, [Next]_vars
    PROVE  WaitInv'
<1> USE DEF otherVars, mutexVars, callVars, objectVars
<1>0. TypeOK
  BY DEF Inv
<1>a. CASE UNCHANGED vars
  BY <1>a, WaitQuiet DEF vars
<1>b. CASE DeleteSession \/ Deleted \/ TerminatorFires \/ Dispose
  BY <1>b, WaitQuiet DEF DeleteSession, Deleted, TerminatorFires, Dispose
<1>c. ASSUME NEW c \in Call,
             \/ GetSession(c) \/ Resume(c) \/ Enter(c) \/ AgentSelected(c) \/ Answer(c)
             \/ CreateSession(c)
             \/ StartRequest(c) \/ EndRequest(c) \/ Release(c) \/ Cancel(c)
      PROVE  WaitInv'
  <2>1. CASE GetSession(c)
    <3> DEFINE m == IF sessionMutex = None THEN c ELSE sessionMutex
    <3>1. /\ m \in Call /\ lock'[c] = m /\ lock[c] = None /\ pc[c] = "idle"
          /\ \A d \in Call \ {c} : lock'[d] = lock[d] /\ pc'[d] = pc[d]
          /\ cancelled' = cancelled
          /\ acquireQueue \in [Call -> Seq(Call)]
          /\ \A n \in Call \ {m} : acquireQueue'[n] = acquireQueue[n] /\ locked'[n] = locked[n]
      BY <1>0, <2>1 DEF GetSession, TypeOK, LinkInv, LockChosen
    <3>2. \/ pc'[c] = "gone" /\ UNCHANGED <<locked, acquireQueue>>
          \/ pc'[c] = "granted" /\ locked'[m] /\ UNCHANGED acquireQueue
          \/ /\ pc'[c] = "waiting" /\ locked[m] /\ UNCHANGED locked
             /\ acquireQueue'[m] = Append(acquireQueue[m], c)
      BY <1>0, <2>1 DEF GetSession, TypeOK
    <3> HIDE DEF m
    <3>4. \A n \in Call : \A i \in DOMAIN acquireQueue[n] :
              i \in DOMAIN acquireQueue'[n] /\ acquireQueue'[n][i] = acquireQueue[n][i]
      <4>1. ASSUME NEW q \in Seq(Call), NEW i \in DOMAIN q
            PROVE  i \in DOMAIN Append(q, c) /\ Append(q, c)[i] = q[i]
        BY <4>1
      <4>2. \A i \in DOMAIN acquireQueue[m] :
              LET r == Append(acquireQueue[m], c) IN i \in DOMAIN r /\ r[i] = acquireQueue[m][i]
        BY <3>1, <4>1
      <4>3. acquireQueue'[m] \in {acquireQueue[m], Append(acquireQueue[m], c)}
        BY <3>2
      <4> QED BY <3>1, <4>2, <4>3
    <3>5. ASSUME NEW d \in Call, pc'[d] = "waiting"
          PROVE  \E i \in DOMAIN acquireQueue'[lock'[d]] : acquireQueue'[lock'[d]][i] = d
      <4>1. CASE d = c
        <5>1. acquireQueue'[m] = Append(acquireQueue[m], c) /\ acquireQueue[m] \in Seq(Call)
          BY <3>1, <3>2, <3>5, <4>1
        <5>2. /\ Len(acquireQueue[m]) + 1 \in DOMAIN Append(acquireQueue[m], c)
              /\ Append(acquireQueue[m], c)[Len(acquireQueue[m]) + 1] = c
          BY <5>1
        <5>3. lock'[d] = m
          BY <3>1, <4>1
        <5> QED BY <4>1, <5>1, <5>2, <5>3
      <4>2. CASE d # c
        <5>1. pc[d] = "waiting" /\ lock'[d] = lock[d] /\ lock[d] \in Call
          BY <3>1, <3>5, <4>2 DEF LinkInv, LockChosen
        <5>2. PICK i \in DOMAIN acquireQueue[lock[d]] : acquireQueue[lock[d]][i] = d
          BY <5>1 DEF WaitInv, Queued
        <5> QED BY <3>4, <5>1, <5>2
      <4> QED BY <4>1, <4>2
    <3> QED BY <3>5 DEF WaitInv, Queued
  <2>2. CASE Resume(c)
    BY <1>0, <2>2, WaitQuiet DEF Resume, TypeOK, InSection
  <2>3. CASE TurnBack(c)
    BY <2>3, WaitLeave DEF TurnBack, InSection
  <2>4. CASE Reuse(c)
    <3>1. CASE Leave(c, "using")
      BY <2>4, <3>1, WaitLeave DEF Reuse, InSection
    <3>2. CASE pc' = [pc EXCEPT ![c] = "agent"] /\ UNCHANGED <<locked, acquireQueue>>
      BY <1>0, <2>4, <3>2, WaitQuiet DEF Reuse, TypeOK, InSection
    <3> QED BY <2>4, <3>1, <3>2 DEF Reuse
  <2>5. CASE StartLoading(c)
    BY <1>0, <2>5, WaitQuiet DEF StartLoading, TypeOK, InSection
  <2>6. CASE AgentSelected(c)
    BY <2>6, WaitLeave DEF AgentSelected, InSection
  <2>7. CASE Loaded(c)
    BY <2>7, WaitLeave DEF Loaded, InSection
  <2>8. CASE LoadFails(c)
    BY <2>8, WaitLeave DEF LoadFails, InSection
  <2>9. CASE CreateSession(c)
    BY <1>0, <2>9, WaitQuiet DEF CreateSession, TypeOK, InSection
  <2>10. CASE StartRequest(c)
    BY <1>0, <2>10, WaitQuiet DEF StartRequest, TypeOK, InSection
  <2>11. CASE EndRequest(c)
    BY <1>0, <2>11, WaitQuiet DEF EndRequest, TypeOK, InSection
  <2>12. CASE Release(c)
    BY <1>0, <2>12, WaitQuiet DEF Release, TypeOK, InSection
  <2>13. CASE Cancel(c)
    BY <1>0, <2>13, WaitQuiet DEF Cancel, TypeOK, InSection
  <2> QED BY <1>c, <2>1, <2>2, <2>3, <2>4, <2>5, <2>6, <2>7, <2>8, <2>9, <2>10, <2>11,
             <2>12, <2>13 DEF Enter, Answer
<1> QED BY <1>a, <1>b, <1>c DEF Next

\* Mutex m is lost to those who wait for it only in a step of one of its calls
\* that swallowed the lock or its wake-up.
LostOnlyIn(m) ==
    ~Mutex(m)!Ownerless /\ Mutex(m)!Ownerless' => \E d \in Call : Mutex(m)!Swallows(d)

LEMMA LostOnlyStep ==
    ASSUME LinkInv, WaitInv, NEW m \in Call, Mutex(m)!Next
    PROVE  LostOnlyIn(m)
<1>0. PICK q \in Seq(Call), r \in Seq(Call) \cup {acquireQueue'[m]} :
        q = acquireQueue[m] /\ r = acquireQueue'[m]
  BY DEF LinkInv, TypeOK
<1>1. PICK a : a = [c \in Call |-> StageIn(m, c)]
  OBVIOUS
<1>2. PICK b : b = [c \in Call |-> StageIn(m, c)']
  OBVIOUS
<1>3. /\ Mutex(m)!Ownerless <=>
            /\ \A d \in Call : a[d] \notin {"granted", "holding"}
            /\ locked[m] \/ \E d \in Call : a[d] = "waiting"
      /\ Mutex(m)!Ownerless' <=>
            /\ \A d \in Call : b[d] \notin {"granted", "holding"}
            /\ locked'[m] \/ \E d \in Call : b[d] = "waiting"
  BY <1>1, <1>2 DEF Mutex!Ownerless, Mutex!Holders
<1>4. \A d \in Call : Mutex(m)!Swallows(d) <=>
          \/ a[d] = "granted" /\ d \in cancelled' \ cancelled
          \/ q # <<>> /\ d = Head(q) /\ d \in cancelled /\ r = Tail(q)
  BY <1>0, <1>1 DEF Mutex!Swallows
<1>5. \A c \in Call : a[c] = "waiting" => q # <<>>
  <2> SUFFICES ASSUME NEW c \in Call, a[c] = "waiting", q = <<>> PROVE FALSE
    OBVIOUS
  <2>1. pc[c] = "waiting" /\ lock[c] = m
    BY <1>1 DEF StageIn
  <2>2. DOMAIN q = {}
    OBVIOUS
  <2> QED BY <1>0, <2>1, <2>2 DEF WaitInv
<1> SUFFICES ASSUME ~Mutex(m)!Ownerless, Mutex(m)!Ownerless'
             PROVE  \E d \in Call : Mutex(m)!Swallows(d)
  BY DEF LostOnlyIn
<1>6. PICK c \in Call : \/ Mutex(m)!Acquire(c) \/ Mutex(m)!Resume(c)
                        \/ Mutex(m)!Cancel(c) \/ Mutex(m)!Release(c)
  BY DEF Mutex!Next
<1>7. a = [d \in Call |-> a[d]] /\ b = [d \in Call |-> b[d]]
  BY <1>1, <1>2
<1>8. CASE Mutex(m)!Acquire(c)
  <2>1. /\ a[c] = "idle"
        /\ \/ b = [a EXCEPT ![c] = "gone"] /\ locked'[m] = locked[m]
           \/ b = [a EXCEPT ![c] = "granted"]
           \/ b = [a EXCEPT ![c] = "waiting"] /\ locked[m]
    BY <1>1, <1>2, <1>8 DEF Mutex!Acquire
  <2> QED BY <1>3, <1>7, <2>1
<1>9. CASE Mutex(m)!Resume(c)
  <2>1. a[c] = "granted" /\ b = [a EXCEPT ![c] = "holding"]
    BY <1>1, <1>2, <1>9 DEF Mutex!Resume
  <2> QED BY <1>3, <1>7, <2>1
<1>10. CASE Mutex(m)!Cancel(c)
  <2>1. /\ c \in cancelled' \ cancelled /\ locked'[m] = locked[m]
        /\ b = [a EXCEPT ![c] = IF @ \in {"waiting", "granted"} THEN "gone" ELSE @]
    BY <1>1, <1>2, <1>10 DEF Mutex!Cancel
  <2>2. \A d \in Call \ {c} : b[d] = a[d]
    BY <1>7, <2>1
  <2>3. b[c] = IF a[c] \in {"waiting", "granted"} THEN "gone" ELSE a[c]
    BY <1>7, <2>1
  <2>4. a[c] = "granted"
    BY <1>3, <2>1, <2>2, <2>3
  <2> QED BY <1>4, <2>1, <2>4
<1>11. CASE Mutex(m)!Release(c)
  <2>1. /\ a[c] = "holding"
        /\ \/ /\ q # <<>> /\ Head(q) \notin cancelled
              /\ b = [a EXCEPT ![c] = "done", ![Head(q)] = "granted"]
           \/ /\ q = <<>> \/ Head(q) \in cancelled
              /\ ~locked'[m]
              /\ b = [a EXCEPT ![c] = "done"]
        /\ r = IF q = <<>> THEN <<>> ELSE Tail(q)
    BY <1>0, <1>1, <1>2, <1>11 DEF Mutex!Release
  <2>2. q # <<>> => Head(q) \in Call
    OBVIOUS
  <2>3. q # <<>>
    <3> SUFFICES ASSUME q = <<>> PROVE FALSE
      OBVIOUS
    <3>1. b = [a EXCEPT ![c] = "done"] /\ ~locked'[m]
      BY <2>1
    <3> QED BY <1>3, <1>5, <1>7, <3>1
  <2>4. Head(q) \in cancelled
    <3> SUFFICES ASSUME Head(q) \notin cancelled PROVE FALSE
      OBVIOUS
    <3>1. b = [a EXCEPT ![c] = "done", ![Head(q)] = "granted"]
      BY <2>1, <2>3
    <3>2. b[Head(q)] = "granted"
      BY <1>7, <2>2, <2>3, <3>1
    <3> QED BY <1>3, <2>2, <2>3, <3>2
  <2> QED BY <1>4, <2>1, <2>2, <2>3, <2>4
<1> QED BY <1>6, <1>8, <1>9, <1>10, <1>11

\* Whichever mutexes the map of the service had for the id, each is lost to
\* those who wait for it only in a step that names the call to blame, one of
\* its own that was cancelled with the grant on its way or ahead of them in the
\* queue, for every number of calls; and the section of a mutex has one call
\* at a time.
THEOREM WaitersExplained ==
    Spec => []LockedForOne /\ [][\A m \in Call : LostOnlyIn(m)]_vars
<1>1. Init => LockedForOne /\ WaitInv
  BY DEF Init, LockedForOne, WaitInv, InSection
<1>2. /\ Inv /\ LinkInv /\ LockedForOne /\ WaitInv /\ [Next]_vars
      => Inv' /\ LinkInv' /\ LockedForOne' /\ WaitInv'
  BY InvStep, LinkStep, LockedStep, WaitStep
<1>3. Inv /\ LinkInv /\ WaitInv /\ [Next]_vars => [\A m \in Call : LostOnlyIn(m)]_vars
  <2> SUFFICES ASSUME Inv, LinkInv, WaitInv, Next, NEW m \in Call PROVE LostOnlyIn(m)
    OBVIOUS
  <2>1. Mutex(m)!Next \/ UNCHANGED Mutex(m)!vars
    BY InvStep, LinkStep DEF MutexStep
  <2>2. CASE UNCHANGED Mutex(m)!vars
    BY <2>2 DEF Mutex!vars, LostOnlyIn, Mutex!Ownerless, Mutex!Holders
  <2> QED BY <2>1, <2>2, LostOnlyStep
<1>4. Init => LinkInv
  BY CountInit
<1> QED BY <1>1, <1>2, <1>3, <1>4, InitInv, PTL DEF Spec
=============================================================================
