------------------------- MODULE SessionMutexProofs -------------------------
(* The mutex of getSession, for every set of calls and every set of tokens *)
(* that may be cancelled.                                                  *)
EXTENDS SessionMutex, SequenceTheorems, TLAPS

LEMMA InitInv == Init => MutexInv
<1> SUFFICES ASSUME Init PROVE MutexInv
  OBVIOUS
<1>1. TypeOK
  <2>1. acquireQueue \in Seq(Call)
    BY EmptySeq DEF Init
  <2>2. state \in [Call -> States]
    BY DEF Init, States
  <2>3. QED
    BY <2>1, <2>2 DEF Init, TypeOK
<1>2. \A c \in Call : state[c] = "idle"
  BY DEF Init
<1>3. QED
  BY <1>1, <1>2 DEF Init, MutexInv, MutualExclusion, Holders, QueuedStage,
                    WaitersQueued

LEMMA AcquireInv == ASSUME MutexInv, NEW c \in Call, Acquire(c) PROVE MutexInv'
<1> USE CancellableAssumption DEF MutexInv, TypeOK, States, Acquire
<1>1. TypeOK'
  <2>1. acquireQueue' \in Seq(Call)
    BY AppendProperties
  <2>2. QED
    BY <2>1
<1>2. MutualExclusion'
  BY DEF MutualExclusion, Holders
<1>3. QueuedStage' /\ WaitersQueued'
  <2>1. CASE c \in cancelled \/ ~locked
    BY <2>1 DEF QueuedStage, WaitersQueued
  <2>2. CASE c \notin cancelled /\ locked
    <3> DEFINE n == Len(acquireQueue)
    <3>1. /\ n \in Nat
          /\ DOMAIN acquireQueue = 1..n
          /\ DOMAIN acquireQueue' = 1..(n + 1)
          /\ acquireQueue'[n + 1] = c
          /\ \A i \in 1..n : acquireQueue'[i] = acquireQueue[i] /\ acquireQueue[i] \in Call
      <4>1. acquireQueue \in Seq(Call) /\ acquireQueue' = Append(acquireQueue, c)
        BY <2>2
      <4> HIDE DEF MutexInv, TypeOK, Acquire
      <4>2. QED
        BY <4>1, LenProperties, AppendProperties, ElementOfSeq
    <3>2. \A i \in 1..n : acquireQueue[i] # c
      BY <3>1 DEF QueuedStage
    <3>3. state' = [state EXCEPT ![c] = "waiting"] /\ cancelled' = cancelled
      BY <2>2
    <3> HIDE DEF n, Acquire
    <3>4. QueuedStage'
      BY <2>2, <3>1, <3>2, <3>3 DEF QueuedStage
    <3>5. WaitersQueued'
      BY <3>1, <3>3 DEF WaitersQueued
    <3>6. QED
      BY <3>4, <3>5
  <2>3. QED
    BY <2>1, <2>2
<1>4. QED
  BY <1>1, <1>2, <1>3

LEMMA ReleaseInv == ASSUME MutexInv, NEW c \in Call, Release(c) PROVE MutexInv'
<1> USE CancellableAssumption DEF MutexInv, TypeOK, States, Release
<1>1. TypeOK'
  <2>1. CASE acquireQueue = <<>>
    BY <2>1
  <2>2. CASE acquireQueue # <<>>
    <3>1. Head(acquireQueue) \in Call /\ Tail(acquireQueue) \in Seq(Call)
      BY <2>2
    <3>2. QED
      BY <2>2, <3>1
  <2>3. QED
    BY <2>1, <2>2
<1>2. MutualExclusion'
  BY DEF MutualExclusion, Holders
<1>3. QueuedStage' /\ WaitersQueued'
  <2>1. CASE acquireQueue = <<>>
    BY <2>1 DEF QueuedStage, WaitersQueued
  <2>2. CASE acquireQueue # <<>>
    <3> DEFINE n == Len(acquireQueue)  h == Head(acquireQueue)
    <3>1. /\ n \in Nat \ {0}
          /\ DOMAIN acquireQueue = 1..n
          /\ DOMAIN acquireQueue' = 1..(n - 1)
          /\ h = acquireQueue[1] /\ h \in Call
          /\ \A i \in 1..(n - 1) : acquireQueue'[i] = acquireQueue[i + 1]
          /\ \A i \in 1..n : acquireQueue[i] \in Call
      BY <2>2
    <3>2. \A i \in 1..n : acquireQueue[i] # c
      BY <3>1 DEF QueuedStage
    <3>3. \A i \in 1..(n - 1) : acquireQueue[i + 1] # h
      BY <3>1 DEF QueuedStage
    <3>4. \A d \in Call \ {c, h} : state'[d] = state[d]
      BY <3>1
    <3>5. state'[c] = "done" /\ (h \notin cancelled => state'[h] = "granted")
          /\ (h \in cancelled => state'[h] = "gone")
      BY <2>2, <3>1, <3>2 DEF QueuedStage
    <3>6. cancelled' = cancelled
      OBVIOUS
    <3> HIDE DEF n, h, Release
    <3>7. QueuedStage'
      <4>1. ASSUME NEW i \in DOMAIN acquireQueue', NEW j \in DOMAIN acquireQueue',
                   acquireQueue'[i] = acquireQueue'[j]
            PROVE  i = j
        <5>1. /\ i \in Int /\ i + 1 \in 1..n /\ acquireQueue'[i] = acquireQueue[i + 1]
              /\ j \in Int /\ j + 1 \in 1..n /\ acquireQueue'[j] = acquireQueue[j + 1]
          BY <3>1
        <5>2. i + 1 = j + 1
          BY <3>1, <4>1, <5>1 DEF QueuedStage
        <5>3. QED
          BY <5>1, <5>2
      <4>2. ASSUME NEW i \in DOMAIN acquireQueue'
            PROVE  state'[acquireQueue'[i]] = IF acquireQueue'[i] \in cancelled' THEN "gone" ELSE "waiting"
        <5>1. i + 1 \in 1..n /\ acquireQueue'[i] = acquireQueue[i + 1]
          BY <3>1
        <5>2. acquireQueue[i + 1] \in Call \ {c, h}
          BY <3>1, <3>2, <3>3, <5>1
        <5>3. QED
          BY <3>1, <3>4, <3>6, <5>1, <5>2 DEF QueuedStage
      <4>3. QED
        BY <4>1, <4>2 DEF QueuedStage
    <3>8. WaitersQueued'
      <4> SUFFICES ASSUME NEW d \in Call, state'[d] = "waiting"
                   PROVE  \E i \in DOMAIN acquireQueue' : acquireQueue'[i] = d
        BY DEF WaitersQueued
      <4>1. d \notin {c, h} /\ state[d] = "waiting"
        BY <3>4, <3>5
      <4>2. PICK i \in 1..n : acquireQueue[i] = d
        BY <3>1, <4>1 DEF WaitersQueued
      <4>3. i - 1 \in 1..(n - 1) /\ acquireQueue'[i - 1] = d
        BY <3>1, <4>1, <4>2
      <4>4. QED
        BY <3>1, <4>3
    <3>9. QED
      BY <3>7, <3>8
  <2>3. QED
    BY <2>1, <2>2
<1>4. QED
  BY <1>1, <1>2, <1>3

\* Every step of a call keeps the agreement between the queue, the flag and
\* the stages of the calls.
LEMMA NextInv == MutexInv /\ [Next]_vars => MutexInv'
<1> SUFFICES ASSUME MutexInv, [Next]_vars PROVE MutexInv'
  OBVIOUS
<1>1. CASE UNCHANGED vars
  BY <1>1 DEF vars, MutexInv, TypeOK, MutualExclusion, Holders, QueuedStage,
              WaitersQueued
<1>2. ASSUME NEW c \in Call, Resume(c) PROVE MutexInv'
  BY <1>2 DEF Resume, MutexInv, TypeOK, States, MutualExclusion, Holders,
              QueuedStage, WaitersQueued
<1>3. ASSUME NEW c \in Call, Cancel(c) PROVE MutexInv'
  BY <1>3, CancellableAssumption
     DEF Cancel, MutexInv, TypeOK, States, MutualExclusion, Holders,
         QueuedStage, WaitersQueued
<1>4. QED
  BY <1>1, <1>2, <1>3, AcquireInv, ReleaseInv DEF Next

LEMMA Invariance == Spec => []MutexInv
  BY InitInv, NextInv, PTL DEF Spec

\* The state of the mutex keeps its types.
THEOREM TypeCorrect == Spec => []TypeOK
<1>1. MutexInv => TypeOK
  BY DEF MutexInv
<1>2. QED
  BY <1>1, Invariance, PTL

\* The section that getSession guards runs once at a time, for any number of
\* callers and cancellations at any moment.
THEOREM Exclusion == Spec => []MutualExclusion
<1>1. MutexInv => MutualExclusion
  BY DEF MutexInv
<1>2. QED
  BY <1>1, Invariance, PTL

\* A release that leaves the mutex without an owner found a cancelled call at
\* the head of the queue.
LEMMA ReleaseLoses ==
    ASSUME MutexInv, NEW c \in Call, Release(c), Ownerless'
    PROVE  \E d \in Call : Swallows(d)
<1>1. acquireQueue # <<>>
  <2> SUFFICES ASSUME acquireQueue = <<>> PROVE FALSE
    OBVIOUS
  <2>1. \A d \in Call : state[d] # "waiting"
    BY DEF MutexInv, WaitersQueued
  <2>2. \A d \in Call : state'[d] # "waiting"
    BY <2>1 DEF Release, MutexInv, TypeOK
  <2> QED BY <2>2 DEF Release, Ownerless
<1>2. Head(acquireQueue) \in Call
  BY <1>1 DEF MutexInv, TypeOK
<1>3. Head(acquireQueue) \in cancelled
  <2> SUFFICES ASSUME Head(acquireQueue) \notin cancelled PROVE FALSE
    OBVIOUS
  <2>1. state'[Head(acquireQueue)] = "granted"
    BY <1>1, <1>2 DEF Release, MutexInv, TypeOK
  <2> QED BY <1>2, <2>1 DEF Ownerless, Holders
<1> QED BY <1>1, <1>2, <1>3 DEF Release, Swallows

\* A cancellation that does, hit the call that had the grant.
LEMMA CancelLoses ==
    ASSUME MutexInv, NEW c \in Call, Cancel(c), ~Ownerless, Ownerless'
    PROVE  Swallows(c)
<1> USE DEF MutexInv, TypeOK, States, Cancel
<1>1. \A d \in Call : state'[d] = "waiting" => state[d] = "waiting"
  OBVIOUS
<1>2. PICK d \in Call : state[d] \in {"granted", "holding"}
  BY <1>1 DEF Ownerless, Holders
<1>3. state'[d] \notin {"granted", "holding"}
  BY DEF Ownerless, Holders
<1>4. d = c /\ state[c] = "granted"
  BY <1>2, <1>3
<1> QED BY <1>4 DEF Swallows

\* The mutex is lost only in a step that names the call which swallowed it.
THEOREM NoLostWakeup == Spec => LostOnlyByGivingUp
<1>1. MutexInv /\ [Next]_vars => [~Ownerless /\ Ownerless' => \E d \in Call : Swallows(d)]_vars
  <2> SUFFICES ASSUME MutexInv, Next, ~Ownerless, Ownerless'
               PROVE  \E d \in Call : Swallows(d)
    BY DEF vars
  <2>1. PICK c \in Call : Acquire(c) \/ Resume(c) \/ Cancel(c) \/ Release(c)
    BY DEF Next
  <2>2. CASE Acquire(c)
    <3>1. CASE c \in cancelled
      BY <2>2, <3>1 DEF Acquire, Ownerless, Holders, MutexInv, TypeOK
    <3>2. CASE c \notin cancelled /\ ~locked
      BY <2>2, <3>2 DEF Acquire, Ownerless, Holders, MutexInv, TypeOK
    <3>3. CASE c \notin cancelled /\ locked
      BY <2>2, <3>3 DEF Acquire, Ownerless, Holders, MutexInv, TypeOK
    <3> QED BY <3>1, <3>2, <3>3
  <2>3. CASE Resume(c)
    BY <2>3 DEF Resume, Ownerless, Holders, MutexInv, TypeOK
  <2>4. CASE Cancel(c)
    BY <2>4, CancelLoses
  <2>5. CASE Release(c)
    BY <2>5, ReleaseLoses
  <2> QED BY <2>1, <2>2, <2>3, <2>4, <2>5
<1>2. Spec => [][~Ownerless /\ Ownerless' => \E d \in Call : Swallows(d)]_vars
  BY <1>1, Invariance, PTL DEF Spec
<1> QED
  BY <1>2 DEF LostOnlyByGivingUp

\* A call gets the lock while it waits only from the head of the queue.
LEMMA GrantedIsHead ==
    ASSUME MutexInv, NEW c \in Call, state[c] = "waiting", NEW d \in Call, Release(d),
           state'[c] = "granted"
    PROVE  acquireQueue # <<>> /\ c = Head(acquireQueue)
<1>1. d # c
  BY DEF Release
<1>2. state \in [Call -> States]
  BY DEF MutexInv, TypeOK
<1> QED BY <1>1, <1>2 DEF Release

\* Waiters are served first come first served, whichever of those ahead of them
\* were cancelled.
THEOREM Served == Spec => ServedInOrder
<1> DEFINE InOrder ==
      \A c \in Call :
         state[c] = "waiting" /\ state'[c] = "granted" =>
            \A i, j \in DOMAIN acquireQueue :
                acquireQueue[i] = c /\ j < i => acquireQueue[j] \in cancelled
<1>1. MutexInv /\ [Next]_vars => [InOrder]_vars
  <2> SUFFICES ASSUME MutexInv, Next,
                      NEW c \in Call, state[c] = "waiting", state'[c] = "granted",
                      NEW i \in DOMAIN acquireQueue, NEW j \in DOMAIN acquireQueue,
                      acquireQueue[i] = c, j < i
               PROVE  FALSE
    BY DEF vars
  <2>1. PICK d \in Call : Acquire(d) \/ Resume(d) \/ Cancel(d) \/ Release(d)
    BY DEF Next
  <2>2. ~Acquire(d) /\ ~Resume(d) /\ ~Cancel(d)
    BY DEF MutexInv, TypeOK, Acquire, Resume, Cancel
  <2>3. acquireQueue # <<>> /\ c = Head(acquireQueue)
    BY <2>1, <2>2, GrantedIsHead
  <2>4. /\ DOMAIN acquireQueue = 1 .. Len(acquireQueue) /\ Len(acquireQueue) \in Nat
        /\ Head(acquireQueue) = acquireQueue[1]
    BY <2>3 DEF MutexInv, TypeOK
  <2>5. i = 1
    BY <2>3, <2>4 DEF MutexInv, QueuedStage
  <2> QED BY <2>4, <2>5
<1>2. Spec => [][InOrder]_vars
  BY <1>1, Invariance, PTL DEF Spec
<1> QED
  BY <1>2 DEF ServedInOrder
=============================================================================
