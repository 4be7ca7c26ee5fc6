----------------------- MODULE ClaudeCodeSessionProofs -----------------------
(* What holds of ClaudeCodeSession for every set of requests, every bound  *)
(* and every environment: no two starts at once, no generator without a    *)
(* reader, and the abstract request queue with what follows from it.       *)
EXTENDS ClaudeCodeSessionTypes

-----------------------------------------------------------------------------
(* The guard of _startSession.                                             *)

\* A start is under way exactly while _sessionStarting says so.
StartInv == \A g \in Gen : g \in InFlight <=> sessionStarting = g

LEMMA StartSessionInv ==
    ASSUME TypeOK, StartInv, NEW s \in Gen, StartSession(s)
    PROVE  StartInv'
<1>1. CASE sessionStarting # 0
  BY <1>1 DEF StartInv, StartSession, InFlight
<1>2. CASE sessionStarting = 0
  <2>1. \A g \in Gen : g # 0
    BY DEF Gen
  <2>2. sessionStarting' = s /\ phase' = [phase EXCEPT ![s] = "mcp"]
    BY <1>2 DEF StartSession
  <2>3. QED
    BY <1>2, <2>1, <2>2 DEF StartInv, InFlight, TypeOK
<1>3. QED
  BY <1>1, <1>2

LEMMA StartNext == TypeOK /\ StartInv /\ [Next]_vars => StartInv'
<1> SUFFICES ASSUME TypeOK, StartInv, [Next]_vars PROVE StartInv'
  OBVIOUS
<1>0. \A g \in Gen : g # 0
  BY DEF Gen
<1>1. ASSUME UNCHANGED <<sessionStarting, phase>> PROVE StartInv'
  BY <1>1 DEF StartInv, InFlight
<1> USE DEF startVars
<1>2. ASSUME NEW r \in Req, CallStep(r) \/ UserStep(r) PROVE StartInv'
  <2>1. (\E s \in Gen : StartSession(s)) \/ UNCHANGED <<sessionStarting, phase>>
    BY <1>2 DEF CallStep, UserStep, Invoke, SettingsChecked, ControlCallFails,
                Push, CancelRequest, RequestYield, AwaitStart
  <2>2. QED
    BY <2>1, <1>1, StartSessionInv
<1>3. ASSUME NEW g \in Gen, StartStep(g) PROVE StartInv'
  <2>1. CASE StartSettles(g)
    BY <1>0, <2>1 DEF StartSettles, StartInv, InFlight, TypeOK
  <2>2. CASE BuildOptions(g) \/ QueryReady(g) \/ LaunchLoop(g)
    <3>1. PICK p \in {"query", "snapshot", "launched"} :
            phase' = [phase EXCEPT ![g] = p] /\ g \in InFlight /\ UNCHANGED sessionStarting
      BY <2>2 DEF BuildOptions, QueryReady, LaunchLoop, InFlight
    <3>2. QED
      BY <3>1 DEF StartInv, InFlight, TypeOK
  <2>3. QED
    BY <1>3, <2>1, <2>2 DEF StartStep
<1>4. ASSUME NEW g \in Gen, StartFails(g) PROVE StartInv'
  BY <1>0, <1>4 DEF StartFails, StartInv, InFlight, TypeOK
<1>5. ASSUME NEW g \in Gen, LoopStep(g) PROVE StartInv'
  <2>1. (\E s \in Gen : StartSession(s)) \/ UNCHANGED <<sessionStarting, phase>>
    BY <1>5 DEF LoopStep, MessageWhenCancelled, MessageWhenYielding,
                StreamMessage, ResultMessage, FailureMessage, LoopEnds, Cleanup
  <2>2. QED
    BY <2>1, <1>1, StartSessionInv
<1>6. ASSUME NEW g \in Gen, IterStep(g) \/ SdkStep(g) PROVE StartInv'
  BY <1>1, <1>6 DEF IterStep, GetNextRequest, YieldPrompt, IterableThrows,
                    SdkStep, SdkStreams, SdkAnswers, SdkEnds
<1>7. CASE IdleTimeout \/ Dispose \/ UNCHANGED vars
  BY <1>1, <1>7 DEF IdleTimeout, Dispose, vars
<1>8. QED
  BY <1>2, <1>3, <1>4, <1>5, <1>6, <1>7 DEF Next

\* However invoke, the restart after a yield and failing starts interleave,
\* no two session starts are under way at once.
THEOREM StartsAreSingle == Spec => []SingleStart
<1>1. Init => StartInv
  BY DEF Init, StartInv, InFlight, Gen
<1>2. StartInv => SingleStart
  BY DEF StartInv, SingleStart, InFlight
<1>3. QED
  BY <1>1, <1>2, StartNext, TypeCorrect, PTL DEF Spec

-----------------------------------------------------------------------------
(* The generator and its message loop.                                     *)

LEMMA GeneratorNext == TypeOK /\ GeneratorIsRead /\ [Next]_vars => GeneratorIsRead'
<1> SUFFICES ASSUME TypeOK, GeneratorIsRead, [Next]_vars PROVE GeneratorIsRead'
  OBVIOUS
<1>1. ASSUME queryGenerator' = 0 PROVE GeneratorIsRead'
  BY <1>1 DEF GeneratorIsRead
<1>2. ASSUME queryGenerator' = queryGenerator, loop' = loop,
             \A g \in Gen : phase[g] = "snapshot" => phase'[g] = "snapshot"
      PROVE  GeneratorIsRead'
  <2>1. queryGenerator # 0 => queryGenerator \in Gen
    BY BoundsAssumption DEF TypeOK, Gen, GenOrNone
  <2>2. QED
    BY <1>2, <2>1 DEF GeneratorIsRead
<1>3. ASSUME NEW s \in Gen, StartSession(s)
      PROVE  \A g \in Gen : phase[g] = "snapshot" => phase'[g] = "snapshot"
  BY <1>3 DEF StartSession, TypeOK
<1> USE DEF queryVars, startVars
<1>4. ASSUME NEW r \in Req, CallStep(r) \/ UserStep(r) PROVE GeneratorIsRead'
  <2>1. loop' = loop /\ \/ queryGenerator' = 0
                        \/ queryGenerator' = queryGenerator
    BY <1>4 DEF CallStep, UserStep, Invoke, SettingsChecked, ControlCallFails,
                Push, CancelRequest, RequestYield, RestartSession
  <2>2. (\E s \in Gen : StartSession(s)) \/ phase' = phase
    BY <1>4 DEF CallStep, UserStep, Invoke, SettingsChecked, ControlCallFails,
                Push, CancelRequest, RequestYield, AwaitStart
  <2>3. QED
    BY <1>1, <1>2, <1>3, <2>1, <2>2
<1>5. ASSUME NEW g \in Gen, StartStep(g) PROVE GeneratorIsRead'
  <2>1. CASE BuildOptions(g) \/ StartSettles(g)
    BY <1>2, <2>1 DEF BuildOptions, StartSettles, TypeOK
  <2>2. CASE QueryReady(g)
    BY <2>2 DEF QueryReady, GeneratorIsRead, TypeOK
  <2>3. CASE LaunchLoop(g)
    <3>1. CASE queryGenerator = 0
      BY <1>1, <2>3, <3>1 DEF LaunchLoop, ResetSessionState
    <3>2. CASE queryGenerator # 0
      <4>1. queryGenerator \in Gen
        BY <3>2, BoundsAssumption DEF TypeOK, Gen, GenOrNone
      <4>2. queryGenerator' = queryGenerator /\ loop'[queryGenerator] = "reading"
        BY <2>3, <3>2, <4>1 DEF LaunchLoop, TypeOK
      <4>3. QED
        BY <4>2 DEF GeneratorIsRead
    <3>3. QED
      BY <3>1, <3>2
  <2>4. QED
    BY <1>5, <2>1, <2>2, <2>3 DEF StartStep
<1>6. ASSUME NEW g \in Gen, StartFails(g) PROVE GeneratorIsRead'
  BY <1>2, <1>6 DEF StartFails, TypeOK
<1>7. ASSUME NEW g \in Gen, LoopStep(g) PROVE GeneratorIsRead'
  <2>1. CASE LoopEnds(g)
    BY <1>1, <2>1 DEF LoopEnds, Cleanup, ResetSessionState
  <2>2. CASE MessageWhenYielding(g) \/ StreamMessage(g) \/ ResultMessage(g)
    BY <1>2, <2>2 DEF MessageWhenYielding, StreamMessage, ResultMessage
  <2>3. CASE MessageWhenCancelled(g) \/ FailureMessage(g)
    <3>1. /\ loop' = [loop EXCEPT ![g] = "closing"]
          /\ queryGenerator' = queryGenerator /\ phase' = phase
      BY <2>3 DEF MessageWhenCancelled, FailureMessage, Throw
    <3>2. QED
      BY <3>1 DEF GeneratorIsRead, TypeOK
  <2>4. QED
    BY <1>7, <2>1, <2>2, <2>3 DEF LoopStep
<1>8. ASSUME NEW g \in Gen, IterStep(g) \/ SdkStep(g) PROVE GeneratorIsRead'
  BY <1>2, <1>8 DEF IterStep, GetNextRequest, YieldPrompt, IterableThrows,
                    SdkStep, SdkStreams, SdkAnswers, SdkEnds
<1>9. CASE IdleTimeout \/ Dispose \/ UNCHANGED vars
  BY <1>1, <1>2, <1>9 DEF IdleTimeout, RestartSession, Dispose, vars
<1>10. QED
  BY <1>4, <1>5, <1>6, <1>7, <1>8, <1>9 DEF Next

\* A generator that invoke finds set always has a message loop, or is about to
\* get one.
THEOREM GeneratorsAreRead == Spec => []GeneratorIsRead
<1>1. Init => GeneratorIsRead
  BY DEF Init, GeneratorIsRead
<1>2. QED
  BY <1>1, GeneratorNext, TypeCorrect, PTL DEF Spec

-----------------------------------------------------------------------------
(* The abstract request queue.                                             *)

Open == {"idle", "settings", "starting", "ready"}

\* What the pieces of a step are on the abstract queue.
LEMMA StutterStep ==
    ASSUME promptQueue' = promptQueue,
           \A r \in Req : pc'[r] = pc[r] \/ (pc[r] \in Open /\ pc'[r] \in Open)
    PROVE  UNCHANGED RQ!queueVars
  BY DEF RQ!queueVars, Outcome, Open

LEMMA RefuseStep ==
    ASSUME TypeOK, NEW R \in SUBSET Req, \A r \in R : pc[r] \in Open,
           pc' = Settle(R, "error"), promptQueue' = promptQueue
    PROVE  RQ!Next
<1>1. \A r \in R : Outcome[r] = "open"
  BY DEF Outcome, Open
<1>2. Outcome' = [r \in Req |-> IF r \in R THEN "error" ELSE Outcome[r]]
  BY DEF Outcome, Settle
<1>3. RQ!Refuse(R)
  BY <1>1, <1>2 DEF RQ!Refuse
<1>4. QED
  BY <1>3 DEF RQ!Next

LEMMA RejectStep ==
    ASSUME TypeOK, NEW R \in SUBSET Req, \A r \in R : pc[r] \in Open,
           pc' = Settle(R \cup Queued, "error"), promptQueue' = <<>>
    PROVE  RQ!Next
<1>1. \A r \in R : Outcome[r] = "open"
  BY DEF Outcome, Open
<1>2. Outcome' = [r \in Req |-> IF r \in R \cup RQ!Waiting THEN "error" ELSE Outcome[r]]
  BY DEF Outcome, Settle, Queued, RQ!Waiting
<1>3. RQ!RejectAll(R)
  BY <1>1, <1>2 DEF RQ!RejectAll
<1>4. QED
  BY <1>3 DEF RQ!Next

LEMMA CompleteStep ==
    ASSUME TypeOK, CompleteHead
    PROVE  [RQ!Next]_RQ!queueVars
<1>1. CASE promptQueue = <<>>
  BY <1>1, StutterStep DEF CompleteHead
<1>2. CASE promptQueue # <<>>
  <2>1. Head(promptQueue) \in Req
    BY <1>2, HeadTailProperties DEF TypeOK
  <2>2. Outcome' = [Outcome EXCEPT ![Head(promptQueue)] = "done"]
    BY <1>2, <2>1 DEF CompleteHead, Outcome, TypeOK
  <2>3. RQ!CompleteFirst
    BY <1>2, <2>2 DEF CompleteHead, RQ!CompleteFirst
  <2>4. QED
    BY <2>3 DEF RQ!Next
<1>3. QED
  BY <1>1, <1>2

LEMMA QueueStep == TypeOK /\ [Next]_vars => [RQ!Next]_RQ!queueVars
<1> SUFFICES ASSUME TypeOK, [Next]_vars PROVE [RQ!Next]_RQ!queueVars
  OBVIOUS
<1>1. ASSUME UNCHANGED <<promptQueue, pc>> PROVE [RQ!Next]_RQ!queueVars
  BY <1>1, StutterStep
<1>2. ASSUME NEW r \in Req, pc[r] \in Open, pc' = [pc EXCEPT ![r] = "error"],
             promptQueue' = promptQueue
      PROVE  RQ!Next
  <2>1. pc' = Settle({r}, "error")
    BY <1>2 DEF Settle, TypeOK
  <2>2. QED
    BY <1>2, <2>1, RefuseStep
<1>3. ASSUME RejectPendingRequests({}) PROVE RQ!Next
  <2>1. {} \in SUBSET Req /\ \A r \in {} : pc[r] \in Open
    OBVIOUS
  <2>2. pc' = Settle({} \cup Queued, "error") /\ promptQueue' = <<>>
    BY <1>3 DEF RejectPendingRequests
  <2>3. QED
    BY <2>1, <2>2, RejectStep
<1> USE DEF queueVars, callVars
<1>4. ASSUME NEW r \in Req, CallStep(r) \/ UserStep(r)
      PROVE  [RQ!Next]_RQ!queueVars
  <2>1. ASSUME NEW s \in Gen, AwaitStart(r, s), pc[r] \in Open, promptQueue' = promptQueue
        PROVE  UNCHANGED RQ!queueVars
    BY <2>1, StutterStep DEF AwaitStart, Open, TypeOK
  <2>2. CASE Invoke(r)
    <3>1. pc[r] \in Open /\ promptQueue' = promptQueue
      BY <2>2 DEF Invoke, Open
    <3>2. \/ \E s \in Gen : AwaitStart(r, s)
          \/ pc' = [pc EXCEPT ![r] = "error"]
          \/ pc' = [pc EXCEPT ![r] = "settings"]
      BY <2>2 DEF Invoke
    <3>3. CASE pc' = [pc EXCEPT ![r] = "settings"]
      BY <3>1, <3>3, StutterStep DEF Open, TypeOK
    <3>4. QED
      BY <1>2, <2>1, <3>1, <3>2, <3>3
  <2>3. CASE SettingsChecked(r)
    <3>1. pc[r] \in Open /\ promptQueue' = promptQueue
      BY <2>3 DEF SettingsChecked, Open
    <3>2. (\E s \in Gen : AwaitStart(r, s)) \/ pc' = [pc EXCEPT ![r] = "ready"]
      BY <2>3 DEF SettingsChecked
    <3>3. CASE pc' = [pc EXCEPT ![r] = "ready"]
      BY <3>1, <3>3, StutterStep DEF Open, TypeOK
    <3>4. QED
      BY <2>1, <3>1, <3>2, <3>3
  <2>4. CASE ControlCallFails(r)
    BY <1>2, <2>4 DEF ControlCallFails, Open
  <2>5. CASE Push(r)
    <3>1. Outcome[r] = "open"
      BY <2>5 DEF Push, Outcome
    <3>2. Outcome' = [Outcome EXCEPT ![r] = "queued"]
      BY <2>5 DEF Push, Outcome, TypeOK
    <3>3. RQ!Submit(r)
      BY <2>5, <3>1, <3>2 DEF Push, RQ!Submit
    <3>4. QED
      BY <3>3 DEF RQ!Next
  <2>6. CASE CancelRequest(r) \/ RequestYield(r)
    BY <1>1, <2>6 DEF CancelRequest, RequestYield
  <2>7. QED
    BY <1>4, <2>2, <2>3, <2>4, <2>5, <2>6 DEF CallStep, UserStep
<1>5. ASSUME NEW g \in Gen, StartStep(g) PROVE [RQ!Next]_RQ!queueVars
  <2>1. CASE BuildOptions(g) \/ QueryReady(g)
    BY <1>1, <2>1 DEF BuildOptions, QueryReady
  <2>2. CASE LaunchLoop(g)
    BY <1>1, <1>3, <2>2 DEF LaunchLoop
  <2>3. CASE StartSettles(g)
    <3>1. \A r \in Req : pc'[r] = pc[r] \/ (pc[r] = "starting" /\ pc'[r] = "ready")
      BY <2>3 DEF StartSettles, Settle, Waiters
    <3>2. QED
      BY <2>3, <3>1, StutterStep DEF StartSettles, Open
  <2>4. QED
    BY <1>5, <2>1, <2>2, <2>3 DEF StartStep
<1>6. ASSUME NEW g \in Gen, StartFails(g) PROVE [RQ!Next]_RQ!queueVars
  <2>1. Waiters(g) \in SUBSET Req /\ \A r \in Waiters(g) : pc[r] \in Open
    BY DEF Waiters, Open
  <2>2. CASE g \in retry
    BY <1>6, <2>1, <2>2, RejectStep DEF StartFails, RejectPendingRequests
  <2>3. CASE g \notin retry
    BY <1>6, <2>1, <2>3, RefuseStep DEF StartFails
  <2>4. QED
    BY <2>2, <2>3
<1>7. ASSUME NEW g \in Gen, LoopStep(g) PROVE [RQ!Next]_RQ!queueVars
  <2>1. CASE MessageWhenYielding(g) \/ ResultMessage(g)
    BY <2>1, CompleteStep DEF MessageWhenYielding, ResultMessage
  <2>2. CASE LoopEnds(g)
    BY <1>1, <1>3, <2>2 DEF LoopEnds, Cleanup
  <2>3. CASE MessageWhenCancelled(g) \/ StreamMessage(g) \/ FailureMessage(g)
    BY <1>1, <2>3 DEF MessageWhenCancelled, StreamMessage, FailureMessage
  <2>4. QED
    BY <1>7, <2>1, <2>2, <2>3 DEF LoopStep
<1>8. ASSUME NEW g \in Gen, IterStep(g) \/ SdkStep(g) PROVE [RQ!Next]_RQ!queueVars
  BY <1>1, <1>8 DEF IterStep, GetNextRequest, YieldPrompt, IterableThrows,
                    SdkStep, SdkStreams, SdkAnswers, SdkEnds
<1>9. CASE IdleTimeout \/ UNCHANGED vars
  BY <1>1, <1>9 DEF IdleTimeout, vars
<1>10. CASE Dispose
  BY <1>3, <1>10 DEF Dispose
<1>11. QED
  BY <1>4, <1>5, <1>6, <1>7, <1>8, <1>9, <1>10 DEF Next

LEMMA QueueInit == Init => RQ!Init
  BY DEF Init, RQ!Init, Outcome

\* The session implements the abstract request queue: a caller is refused
\* before it is queued, or is queued until it is settled once, from the head
\* or along with the whole queue.
THEOREM QueueImplemented == Spec => QueueSpec
  BY QueueInit, QueueStep, TypeCorrect, PTL DEF Spec, QueueSpec, RQ!Spec

-----------------------------------------------------------------------------
(* What follows for the callers.                                           *)

LEMMA CallersNext ==
    ASSUME TypeOK, TypeOK', CallersAreQueued, [RQ!Next]_RQ!queueVars
    PROVE  CallersAreQueued'
<1> DEFINE Queue(q, o) ==
             /\ \A r \in Req : o[r] = "queued" <=> \E i \in DOMAIN q : q[i] = r
             /\ \A i, j \in DOMAIN q : q[i] = q[j] => i = j
<1>1. CallersAreQueued <=> Queue(promptQueue, Outcome)
  BY DEF CallersAreQueued, Outcome, Queued
<1>2. CallersAreQueued' <=> Queue(promptQueue', Outcome')
  BY DEF CallersAreQueued, Outcome, Queued
<1> DEFINE n == Len(promptQueue)
<1>3. n \in Nat /\ DOMAIN promptQueue = 1..n /\ \A i \in 1..n : promptQueue[i] \in Req
  BY LenProperties, ElementOfSeq DEF TypeOK
<1>4. CASE UNCHANGED RQ!queueVars
  BY <1>1, <1>2, <1>4 DEF RQ!queueVars
<1>5. ASSUME NEW r \in Req, RQ!Submit(r) PROVE Queue(promptQueue', Outcome')
  <2>1. /\ DOMAIN promptQueue' = 1..(n + 1) /\ promptQueue'[n + 1] = r
        /\ \A i \in 1..n : promptQueue'[i] = promptQueue[i]
    BY <1>3, <1>5, AppendProperties, LenProperties DEF RQ!Submit, TypeOK
  <2>2. /\ Outcome[r] = "open" /\ Outcome'[r] = "queued"
        /\ \A q \in Req \ {r} : Outcome'[q] = Outcome[q]
    BY <1>5 DEF RQ!Submit, Outcome
  <2>3. \A i \in 1..n : promptQueue[i] # r
    BY <1>1, <1>3, <2>2
  <2>4. QED
    BY <1>1, <1>3, <2>1, <2>2, <2>3
<1>6. CASE RQ!CompleteFirst
  <2>1. /\ promptQueue # <<>> /\ n \in Nat \ {0}
        /\ DOMAIN promptQueue' = 1..(n - 1)
        /\ \A i \in 1..(n - 1) : promptQueue'[i] = promptQueue[i + 1]
    BY <1>3, <1>6, HeadTailProperties, EmptySeq, LenProperties DEF RQ!CompleteFirst, TypeOK
  <2>2. /\ Outcome'[promptQueue[1]] = "done"
        /\ \A q \in Req \ {promptQueue[1]} : Outcome'[q] = Outcome[q]
    <3>1. Head(promptQueue) = promptQueue[1] /\ promptQueue[1] \in Req
      BY <1>3, <2>1
    <3>2. Outcome = [r \in Req |-> Outcome[r]]
      BY DEF Outcome
    <3>3. Outcome' = [Outcome EXCEPT ![promptQueue[1]] = "done"]
      BY <1>6, <3>1 DEF RQ!CompleteFirst
    <3>4. QED
      BY <3>1, <3>2, <3>3
  <2>3. \A i \in 1..(n - 1) : promptQueue[i + 1] # promptQueue[1]
    BY <1>1, <1>3, <2>1
  <2>4. \A i, j \in 1..(n - 1) : promptQueue'[i] = promptQueue'[j] => i = j
    BY <1>1, <1>3, <2>1
  <2>5. ASSUME NEW q \in Req
        PROVE  Outcome'[q] = "queued" <=> \E i \in 1..(n - 1) : promptQueue'[i] = q
    <3>1. CASE q = promptQueue[1]
      BY <2>1, <2>2, <2>3, <3>1
    <3>2. CASE q # promptQueue[1]
      <4>1. ASSUME NEW k \in 1..n, promptQueue[k] = q PROVE \E i \in 1..(n - 1) : promptQueue'[i] = q
        <5>1. k - 1 \in 1..(n - 1) /\ promptQueue'[k - 1] = q
          BY <1>3, <2>1, <3>2, <4>1
        <5>2. QED
          BY <5>1
      <4>2. ASSUME NEW i \in 1..(n - 1), promptQueue'[i] = q PROVE \E k \in 1..n : promptQueue[k] = q
        <5>1. i + 1 \in 1..n /\ promptQueue[i + 1] = q
          BY <1>3, <2>1, <4>2
        <5>2. QED
          BY <5>1
      <4>3. QED
        BY <1>1, <1>3, <2>2, <3>2, <4>1, <4>2
    <3>3. QED
      BY <3>1, <3>2
  <2>6. QED
    BY <1>2, <2>1, <2>4, <2>5
<1>7. ASSUME NEW R \in SUBSET Req, RQ!Refuse(R) PROVE Queue(promptQueue', Outcome')
  BY <1>1, <1>7 DEF RQ!Refuse, Outcome
<1>8. ASSUME NEW R \in SUBSET Req, RQ!RejectAll(R) PROVE Queue(promptQueue', Outcome')
  <2>1. promptQueue' = <<>> /\ \A r \in Req : r \in RQ!Waiting => Outcome'[r] = "error"
    BY <1>8 DEF RQ!RejectAll
  <2>2. \A r \in Req : Outcome'[r] # "queued"
    BY <1>1, <1>8, <2>1 DEF RQ!RejectAll, RQ!Waiting
  <2>3. QED
    BY <2>1, <2>2
<1> HIDE DEF Queue, n
<1>9. QED
  BY <1>2, <1>4, <1>5, <1>6, <1>7, <1>8 DEF RQ!Next

\* Whoever awaits its deferred is in the queue, once.
THEOREM CallersQueued == Spec => []CallersAreQueued
<1>1. Init => CallersAreQueued
  BY DEF Init, CallersAreQueued, Queued
<1>2. TypeOK /\ TypeOK' /\ CallersAreQueued /\ [Next]_vars => CallersAreQueued'
  BY QueueStep, CallersNext
<1>3. QED
  BY <1>1, <1>2, TypeCorrect, PTL DEF Spec

LEMMA InOrderStep ==
    ASSUME TypeOK, CallersAreQueued, [RQ!Next]_RQ!queueVars,
           NEW i \in DOMAIN promptQueue, NEW j \in DOMAIN promptQueue, i < j,
           pc'[promptQueue[j]] = "done"
    PROVE  pc'[promptQueue[i]] # "queued"
<1> DEFINE q == promptQueue[j]
<1>1. /\ promptQueue # <<>> /\ DOMAIN promptQueue = 1..Len(promptQueue)
      /\ Len(promptQueue) \in Nat /\ q \in Req
  BY LenProperties, ElementOfSeq DEF TypeOK
<1>2. Outcome[q] = "queued" /\ Outcome'[q] = "done"
  BY <1>1 DEF CallersAreQueued, Queued, Outcome
<1>3. q # Head(promptQueue)
  BY <1>1 DEF CallersAreQueued
<1>4. QED
  BY <1>1, <1>2, <1>3 DEF RQ!Next, RQ!Submit, RQ!CompleteFirst, RQ!Refuse,
                          RQ!RejectAll, RQ!queueVars, Outcome

\* No request overtakes one whose caller still waits.
THEOREM InOrder == Spec => CompletedInOrder
<1>1. TypeOK /\ CallersAreQueued /\ [Next]_vars =>
        [\A i, j \in DOMAIN promptQueue :
           i < j /\ pc'[promptQueue[j]] = "done" => pc'[promptQueue[i]] # "queued"]_vars
  BY QueueStep, InOrderStep
<1>2. QED
  BY <1>1, CallersQueued, TypeCorrect, PTL DEF Spec, CompletedInOrder

LEMMA SettledStep ==
    ASSUME TypeOK, CallersAreQueued, [RQ!Next]_RQ!queueVars,
           NEW r \in Req, pc[r] \in {"done", "error"}
    PROVE  pc'[r] = pc[r]
<1>1. Outcome[r] = pc[r] /\ r \notin Queued
  BY DEF Outcome, CallersAreQueued
<1>2. promptQueue # <<>> => Head(promptQueue) \in Queued
  <2>1. promptQueue # <<>> => Head(promptQueue) = promptQueue[1] /\ 1 \in DOMAIN promptQueue
    BY EmptySeq, HeadTailProperties, LenProperties DEF TypeOK
  <2> QED BY <2>1 DEF Queued
<1>3. Outcome'[r] = Outcome[r]
  BY <1>1, <1>2 DEF RQ!Next, RQ!Submit, RQ!CompleteFirst, RQ!Refuse, RQ!RejectAll,
                    RQ!Waiting, RQ!queueVars, Queued, Outcome
<1> QED BY <1>1, <1>3 DEF Outcome

\* A call returns or throws once: no result, failure, yield, failing start or
\* disposal settles a request that another one has settled.
THEOREM SettledOnce == Spec => [][\A r \in Req : pc[r] \in {"done", "error"} => pc'[r] = pc[r]]_vars
<1>1. TypeOK /\ CallersAreQueued /\ [Next]_vars =>
        [\A r \in Req : pc[r] \in {"done", "error"} => pc'[r] = pc[r]]_vars
  BY QueueStep, SettledStep
<1> QED BY <1>1, CallersQueued, TypeCorrect, PTL DEF Spec

-----------------------------------------------------------------------------
(* Resuming the session on disk.                                           *)

\* A request is only completed on a message, which marks the session resumed.
DoneResumed == (\E r \in Req : pc[r] = "done") => isResumed

LEMMA ResumedNext == TypeOK /\ DoneResumed /\ [Next]_vars => DoneResumed'
<1> SUFFICES ASSUME TypeOK, DoneResumed, [Next]_vars PROVE DoneResumed'
  OBVIOUS
<1>1. ASSUME isResumed' PROVE DoneResumed'
  BY <1>1 DEF DoneResumed
<1>2. ASSUME isResumed' = isResumed \/ isResumed' = TRUE,
             \A r \in Req : pc'[r] = "done" => pc[r] = "done"
      PROVE  DoneResumed'
  BY <1>2 DEF DoneResumed
<1> USE DEF flagVars, callVars
<1>3. ASSUME NEW R, RejectPendingRequests(R)
      PROVE  \A r \in Req : pc'[r] = "done" => pc[r] = "done"
  BY <1>3 DEF RejectPendingRequests, Settle
<1>4. ASSUME NEW r \in Req, CallStep(r) \/ UserStep(r) PROVE DoneResumed'
  <2>1. isResumed' = isResumed \/ isResumed' = TRUE
    BY <1>4 DEF CallStep, UserStep, Invoke, SettingsChecked, RestartSession,
                ControlCallFails, Push, CancelRequest, RequestYield
  <2>2. pc' = pc \/ \E q \in {"settings", "starting", "ready", "queued", "error"} :
                      pc' = [pc EXCEPT ![r] = q]
    BY <1>4 DEF CallStep, UserStep, Invoke, SettingsChecked, AwaitStart,
                ControlCallFails, Push, CancelRequest, RequestYield
  <2>3. QED
    BY <1>2, <2>1, <2>2 DEF TypeOK
<1>5. ASSUME NEW g \in Gen, StartStep(g) \/ StartFails(g) PROVE DoneResumed'
  <2>1. isResumed' = isResumed
    BY <1>5 DEF StartStep, BuildOptions, QueryReady, LaunchLoop, StartSettles, StartFails
  <2>2. \/ pc' = pc
        \/ \E R : RejectPendingRequests(R)
        \/ pc' = Settle(Waiters(g), "ready") \/ pc' = Settle(Waiters(g), "error")
    BY <1>5 DEF StartStep, BuildOptions, QueryReady, LaunchLoop, StartSettles, StartFails
  <2>3. QED
    BY <1>2, <1>3, <2>1, <2>2 DEF Settle
<1>6. ASSUME NEW g \in Gen, LoopStep(g) PROVE DoneResumed'
  <2>1. CASE MessageWhenYielding(g) \/ ResultMessage(g)
    BY <1>1, <2>1 DEF MessageWhenYielding, ResultMessage, MarkResumed
  <2>2. CASE MessageWhenCancelled(g) \/ StreamMessage(g) \/ FailureMessage(g)
    BY <1>2, <2>2 DEF MessageWhenCancelled, StreamMessage, FailureMessage, MarkResumed
  <2>3. CASE LoopEnds(g)
    BY <1>2, <1>3, <2>3 DEF LoopEnds, Cleanup
  <2>4. QED
    BY <1>6, <2>1, <2>2, <2>3 DEF LoopStep
<1>7. ASSUME NEW g \in Gen, IterStep(g) \/ SdkStep(g) PROVE DoneResumed'
  BY <1>2, <1>7 DEF IterStep, GetNextRequest, YieldPrompt, IterableThrows,
                    SdkStep, SdkStreams, SdkAnswers, SdkEnds
<1>8. CASE IdleTimeout \/ Dispose \/ UNCHANGED vars
  BY <1>2, <1>3, <1>8 DEF IdleTimeout, RestartSession, Dispose, vars
<1>9. QED
  BY <1>4, <1>5, <1>6, <1>7, <1>8 DEF Next

\* Only the step that builds the options moves a start on to query().
LEMMA QueryIsBuilt ==
    ASSUME TypeOK, Next, NEW g \in Gen, phase[g] = "mcp", phase'[g] = "query"
    PROVE  BuildOptions(g)
<1> USE DEF startVars
<1>1. phase' # phase
  OBVIOUS
<1>2. \A s \in Gen : ~StartSession(s)
  BY DEF StartSession, TypeOK
<1>3. \A r \in Req : ~(CallStep(r) \/ UserStep(r))
  BY <1>1, <1>2 DEF CallStep, UserStep, Invoke, SettingsChecked, AwaitStart,
                    ControlCallFails, Push, CancelRequest, RequestYield
<1>4. \A h \in Gen : ~(IterStep(h) \/ LoopStep(h) \/ SdkStep(h))
  BY <1>1, <1>2 DEF IterStep, GetNextRequest, YieldPrompt, IterableThrows,
       SdkStep, SdkStreams, SdkAnswers, SdkEnds, LoopStep, MessageWhenCancelled,
       MessageWhenYielding, StreamMessage, ResultMessage, FailureMessage,
       LoopEnds, Cleanup
<1>5. ~IdleTimeout /\ ~Dispose
  BY <1>1 DEF IdleTimeout, Dispose
<1>6. \A h \in Gen : ~(QueryReady(h) \/ LaunchLoop(h) \/ StartSettles(h) \/ StartFails(h))
  BY DEF QueryReady, LaunchLoop, StartSettles, StartFails, TypeOK
<1>7. \A h \in Gen : BuildOptions(h) => h = g
  BY <1>1 DEF BuildOptions, TypeOK
<1>8. QED
  BY <1>3, <1>4, <1>5, <1>6, <1>7 DEF Next, StartStep

\* No query creates the session anew once a request was completed.
THEOREM ResumesAfterAnswer == Spec => ResumeAfterAnswer
<1>1. Init => DoneResumed
  BY DEF Init, DoneResumed
<1>2. TypeOK /\ DoneResumed /\ [Next]_vars =>
        [\A g \in Gen :
           phase[g] = "mcp" /\ phase'[g] = "query" /\ (\E r \in Req : pc[r] = "done")
              => resume'[g]]_vars
  <2> SUFFICES ASSUME TypeOK, DoneResumed, Next, NEW g \in Gen, phase[g] = "mcp",
                      phase'[g] = "query", \E r \in Req : pc[r] = "done"
               PROVE  resume'[g]
    OBVIOUS
  <2>1. BuildOptions(g)
    BY QueryIsBuilt
  <2>2. QED
    BY <2>1 DEF BuildOptions, DoneResumed, TypeOK
<1>3. QED
  BY <1>1, <1>2, ResumedNext, TypeCorrect, PTL DEF Spec, ResumeAfterAnswer

-----------------------------------------------------------------------------
(* Creating the session, whatever restarts.                                *)

\* _startSession begins a start or joins the one in progress.
LEMMA PhaseOfStart ==
    ASSUME TypeOK, NEW s \in Gen, StartSession(s), NEW g \in Gen
    PROVE  phase'[g] = phase[g] \/ (phase[g] = "unused" /\ phase'[g] = "mcp")
<1>1. phase' = phase \/ (phase[s] = "unused" /\ phase' = [phase EXCEPT ![s] = "mcp"])
  BY DEF StartSession
<1>2. phase \in [Gen -> Phases]
  BY DEF TypeOK
<1> QED BY <1>1, <1>2

\* Nothing has restarted the session as long as it is not marked: then all that
\* runs is the query of the generator, and a start has none beside it. Once it
\* is marked, only the start that had built its options can still create it.
CreateInv ==
    /\ ~isResumed =>
         /\ \A g \in Gen : sdk[g] = "running" => queryGenerator = g
         /\ \A g \in Gen : loop[g] \in {"reading", "closing"} => queryGenerator = g
         /\ \A g \in Gen : loop[g] = "closing" => sdk[g] = "ended"
         /\ \A g \in Gen : phase[g] \in {"mcp", "query"} => queryGenerator = 0
    /\ \A g, h \in Gen : phase[g] = "query" /\ ~resume[g] /\ sdk[h] = "running" => resume[h]
    /\ OneQueryCreates

\* No query begins and none is about to; while the session is not marked, the
\* generator stays, and a start begins only while there is none.
LEMMA CreateQuiet ==
    ASSUME CreateInv, UNCHANGED resume,
           \A g \in Gen : sdk'[g] \in {sdk[g], "ended"},
           \A g \in Gen : phase'[g] = "query" => phase[g] = "query",
           ~isResumed' =>
              /\ ~isResumed /\ queryGenerator' = queryGenerator
              /\ \A g \in Gen : \/ loop'[g] = loop[g]
                                \/ g = queryGenerator /\ loop'[g] = "reading"
                                \/ loop[g] = "reading" /\ loop'[g] = "closing" /\ sdk'[g] = "ended"
              /\ \A g \in Gen : phase'[g] \in {"mcp", "query"} =>
                                   phase[g] \in {"mcp", "query"} \/ queryGenerator = 0
    PROVE  CreateInv'
<1>1. OneQueryCreates'
  BY DEF CreateInv, OneQueryCreates
<1>2. \A g, h \in Gen : phase'[g] = "query" /\ ~resume'[g] /\ sdk'[h] = "running" => resume'[h]
  BY DEF CreateInv
<1> QED BY <1>1, <1>2 DEF CreateInv

LEMMA CreateStarts ==
    ASSUME TypeOK, StartInv, CreateInv, NEW g \in Gen, StartStep(g) \/ StartFails(g)
    PROVE  CreateInv'
<1> USE DEF queryVars, flagVars, sdkVars
<1>0. \A h \in Gen : h # 0
  BY DEF Gen
<1>1. CASE BuildOptions(g)
  <2>1. /\ phase[g] = "mcp" /\ phase' = [phase EXCEPT ![g] = "query"]
        /\ resume'[g] = isResumed /\ \A h \in Gen \ {g} : resume'[h] = resume[h]
        /\ UNCHANGED <<queryGenerator, isResumed, sdk, loop>>
    BY <1>1 DEF BuildOptions, TypeOK
  <2>2. \A h \in Gen : phase'[h] = phase[h] \/ (h = g /\ phase'[h] = "query")
    BY <2>1 DEF TypeOK
  <2>3. CASE isResumed
    <3>1. resume'[g] /\ \A h \in Gen : resume[h] => resume'[h]
      BY <2>1, <2>3
    <3>2. \A h, k \in Gen : phase'[h] = "query" /\ ~resume'[h] /\ sdk'[k] = "running" => resume'[k]
      BY <2>1, <2>2, <3>1 DEF CreateInv
    <3>3. OneQueryCreates'
      BY <2>1, <3>1 DEF CreateInv, OneQueryCreates
    <3> QED BY <2>1, <2>3, <3>2, <3>3 DEF CreateInv
  <2>4. CASE ~isResumed
    <3>1. queryGenerator = 0 /\ \A h \in Gen : sdk[h] # "running"
      BY <1>0, <2>1, <2>4 DEF CreateInv
    <3> QED BY <2>1, <2>2, <2>4, <3>1 DEF CreateInv, OneQueryCreates
  <2> QED BY <2>3, <2>4
<1>2. CASE QueryReady(g)
  <2>1. /\ phase[g] = "query" /\ queryGenerator' = g
        /\ sdk'[g] = "running" /\ \A h \in Gen \ {g} : sdk'[h] = sdk[h]
        /\ UNCHANGED <<isResumed, loop, resume>>
    BY <1>2 DEF QueryReady, TypeOK
  <2>2. \A h \in Gen : phase'[h] \notin {"mcp", "query"}
    BY <1>2, <2>1 DEF QueryReady, StartInv, InFlight, TypeOK
  <2>3. OneQueryCreates'
    BY <2>1 DEF CreateInv, OneQueryCreates
  <2>4. CASE isResumed
    BY <2>1, <2>2, <2>3, <2>4 DEF CreateInv
  <2>5. CASE ~isResumed
    <3>1. /\ \A h \in Gen : sdk[h] # "running"
          /\ \A h \in Gen : loop[h] \notin {"reading", "closing"}
      BY <1>0, <2>1, <2>5 DEF CreateInv
    <3> QED BY <2>1, <2>2, <2>3, <3>1 DEF CreateInv
  <2> QED BY <2>4, <2>5
<1>3. CASE LaunchLoop(g)
  <2>1. /\ \A h \in Gen : phase'[h] \in {phase[h], "launched"}
        /\ UNCHANGED <<sdk, resume, isResumed, queryGenerator>>
    BY <1>3 DEF LaunchLoop, ResetSessionState, TypeOK
  <2>2. \A h \in Gen : loop'[h] = loop[h] \/ (h = queryGenerator /\ loop'[h] = "reading")
    <3>1. loop' = loop \/ loop' = [loop EXCEPT ![queryGenerator] = "reading"]
      BY <1>3 DEF LaunchLoop
    <3>2. loop \in [Gen -> {"none", "reading", "closing", "ended"}]
      BY DEF TypeOK
    <3> QED BY <3>1, <3>2
  <2> QED BY <2>1, <2>2, CreateQuiet
<1>4. CASE StartSettles(g) \/ StartFails(g)
  <2>1. /\ UNCHANGED <<queryGenerator, isResumed, sdk, loop, resume>>
        /\ \A h \in Gen : phase'[h] \in {phase[h], "started", "failed"}
    BY <1>4 DEF StartSettles, StartFails, TypeOK
  <2> QED BY <2>1, CreateQuiet
<1> QED BY <1>1, <1>2, <1>3, <1>4 DEF StartStep

LEMMA CreateLoopEnds ==
    ASSUME TypeOK, CreateInv, NEW g \in Gen, LoopEnds(g)
    PROVE  CreateInv'
<1>0. \A h \in Gen : h # 0
  BY DEF Gen
<1>1. /\ UNCHANGED <<isResumed, resume, sdk>> /\ queryGenerator' = 0
      /\ loop[g] \in {"reading", "closing"} /\ (loop[g] = "reading" => sdk[g] = "ended")
      /\ loop' = [loop EXCEPT ![g] = "ended"]
  BY DEF LoopEnds, Cleanup, ResetSessionState, sdkVars
<1>2. \A h \in Gen : phase'[h] = phase[h] \/ (phase[h] = "unused" /\ phase'[h] = "mcp")
  <2>1. phase' = phase \/ \E s \in Gen : StartSession(s)
    BY DEF LoopEnds, Cleanup, startVars
  <2> QED BY <2>1, PhaseOfStart
<1>3. CASE isResumed
  BY <1>1, <1>2, <1>3, CreateQuiet
<1>4. CASE ~isResumed
  <2>1. queryGenerator = g /\ sdk[g] = "ended"
    BY <1>1, <1>4 DEF CreateInv
  <2>2. \A h \in Gen : sdk[h] # "running"
    BY <1>4, <2>1 DEF CreateInv
  <2>3. \A h \in Gen : loop'[h] \notin {"reading", "closing"}
    BY <1>1, <1>4, <2>1 DEF CreateInv, TypeOK
  <2> QED BY <1>1, <2>2, <2>3 DEF CreateInv, OneQueryCreates
<1> QED BY <1>3, <1>4

LEMMA CreateNext == TypeOK /\ StartInv /\ CreateInv /\ [Next]_vars => CreateInv'
<1> SUFFICES ASSUME TypeOK, StartInv, CreateInv, [Next]_vars PROVE CreateInv'
  OBVIOUS
<1> USE DEF queryVars, flagVars, startVars, sdkVars
<1>1. ASSUME NEW r \in Req, CallStep(r) \/ UserStep(r) PROVE CreateInv'
  <2>1. /\ UNCHANGED <<resume, sdk, loop>>
        /\ phase' = phase \/ \E s \in Gen : StartSession(s)
        /\ ~isResumed' => /\ ~isResumed /\ queryGenerator' = queryGenerator
                          /\ phase' = phase \/ queryGenerator = 0
    BY <1>1 DEF CallStep, UserStep, Invoke, SettingsChecked, AwaitStart, RestartSession,
                ControlCallFails, Push, CancelRequest, RequestYield
  <2>2. \A h \in Gen : phase'[h] = phase[h] \/ (phase[h] = "unused" /\ phase'[h] = "mcp")
    BY <2>1, PhaseOfStart
  <2> QED BY <2>1, <2>2, CreateQuiet
<1>2. ASSUME NEW g \in Gen, StartStep(g) \/ StartFails(g) PROVE CreateInv'
  BY <1>2, CreateStarts
<1>3. ASSUME NEW g \in Gen, LoopStep(g) PROVE CreateInv'
  <2>1. CASE LoopEnds(g)
    BY <2>1, CreateLoopEnds
  <2>2. CASE MessageWhenCancelled(g) \/ FailureMessage(g)
    <3>1. /\ UNCHANGED <<queryGenerator, phase, resume>> /\ (~isResumed' => ~isResumed)
          /\ loop[g] = "reading"
          /\ loop' = [loop EXCEPT ![g] = "closing"] /\ sdk' = [sdk EXCEPT ![g] = "ended"]
      BY <2>2 DEF MessageWhenCancelled, FailureMessage, MarkResumed, Throw, Reads
    <3>2. \A h \in Gen : /\ sdk'[h] \in {sdk[h], "ended"}
                         /\ \/ loop'[h] = loop[h]
                            \/ loop[h] = "reading" /\ loop'[h] = "closing" /\ sdk'[h] = "ended"
      BY <3>1 DEF TypeOK
    <3> QED BY <3>1, <3>2, CreateQuiet
  <2>3. CASE StreamMessage(g) \/ ResultMessage(g) \/ MessageWhenYielding(g)
    BY <2>3, CreateQuiet DEF StreamMessage, ResultMessage, MessageWhenYielding, MarkResumed
  <2> QED BY <1>3, <2>1, <2>2, <2>3 DEF LoopStep
<1>4. ASSUME NEW g \in Gen, IterStep(g) \/ SdkStreams(g) \/ SdkAnswers(g) PROVE CreateInv'
  BY <1>4, CreateQuiet DEF IterStep, GetNextRequest, YieldPrompt, IterableThrows,
                           SdkStreams, SdkAnswers
<1>5. ASSUME NEW g \in Gen, SdkEnds(g) PROVE CreateInv'
  BY <1>5, CreateQuiet DEF SdkEnds, TypeOK
<1>6. CASE IdleTimeout \/ Dispose \/ UNCHANGED vars
  BY <1>6, CreateQuiet DEF IdleTimeout, RestartSession, Dispose, vars
<1> QED BY <1>1, <1>2, <1>3, <1>4, <1>5, <1>6 DEF Next, SdkStep

\* At most one running query was told to create the session, for every number
\* of requests and starts and in every environment, restarts included.
THEOREM CreatedOnce == Spec => []OneQueryCreates
<1>1. Init => StartInv /\ CreateInv
  BY DEF Init, StartInv, InFlight, CreateInv, OneQueryCreates, Gen
<1>2. CreateInv => OneQueryCreates
  BY DEF CreateInv
<1> QED BY <1>1, <1>2, StartNext, CreateNext, TypeCorrect, PTL DEF Spec

-----------------------------------------------------------------------------
(* While no restart happens: one query, and the controller that stops it.  *)

NoRestart == Events \cap {"settings", "tools", "idle"} = {}

\* The generator and the controller are set and cleared together, a session is
\* only started while there is no generator, and the message loop that is open
\* reads the generator: so the query that can still pull is the generator's.
QueryInv ==
    /\ \A g \in Gen : SdkPulls(g) => queryGenerator = g
    /\ \A g \in Gen : loop[g] \in {"reading", "closing"} => queryGenerator = g
    /\ \A g \in Gen : loop[g] = "closing" => sdk[g] = "ended"
    /\ \A g \in Gen : phase[g] \in {"mcp", "query"} => queryGenerator = 0
    /\ \A g \in Gen : phase[g] = "query" => abortController = g
    /\ \A g \in Gen : phase[g] \in {"unused", "mcp", "query"} => sdk[g] = "none"
    /\ queryGenerator # 0 => abortController = queryGenerator /\ sdk[queryGenerator] # "none"
    /\ yieldInProgress => queryGenerator # 0 /\ queryGenerator \in aborted

\* A query may only have stopped, and nobody has touched the generator.
LEMMA QueryQuiet ==
    ASSUME TypeOK, QueryInv,
           UNCHANGED <<queryGenerator, abortController, phase>>,
           aborted \subseteq aborted',
           yieldInProgress' => yieldInProgress,
           \A g \in Gen : /\ sdk'[g] \in {sdk[g], "ended"}
                          /\ sdk[g] = "none" => sdk'[g] = "none"
                          /\ \/ loop'[g] = loop[g]
                             \/ loop[g] = "reading" /\ loop'[g] = "closing" /\ sdk'[g] = "ended"
    PROVE  QueryInv'
<1>1. \A g \in Gen : SdkPulls(g)' => SdkPulls(g)
  BY DEF SdkPulls
<1>2. queryGenerator # 0 => queryGenerator \in Gen
  BY BoundsAssumption DEF TypeOK, Gen, GenOrNone
<1> QED BY <1>1, <1>2 DEF QueryInv

\* A call of _startSession while there is no generator.
LEMMA QueryStart ==
    ASSUME TypeOK, QueryInv, NEW s \in Gen, StartSession(s), queryGenerator = 0,
           UNCHANGED <<queryGenerator, abortController, aborted, yieldInProgress, sdk, loop>>
    PROVE  QueryInv'
<1>1. \A g \in Gen : SdkPulls(g)' <=> SdkPulls(g)
  BY DEF SdkPulls
<1>2. \A g \in Gen : phase'[g] = phase[g] \/ (phase[g] = "unused" /\ phase'[g] = "mcp")
  BY PhaseOfStart
<1> QED BY <1>1, <1>2 DEF QueryInv

\* The message loop of the query ends, and with it the query's generator.
LEMMA QueryEnds ==
    ASSUME TypeOK, StartInv, QueryInv, NEW g \in Gen, LoopEnds(g)
    PROVE  QueryInv'
<1>0. \A h \in Gen : h # 0
  BY DEF Gen
<1>1. queryGenerator = g /\ sdk[g] = "ended"
  BY DEF LoopEnds, QueryInv
<1>2. \A h \in Gen : ~SdkPulls(h)
  BY <1>0, <1>1 DEF QueryInv, SdkPulls
<1>3. /\ queryGenerator' = 0 /\ abortController' = 0 /\ aborted' = aborted \ {0}
      /\ yieldInProgress' = FALSE /\ sdk' = sdk
      /\ loop' = [loop EXCEPT ![g] = "ended"]
  BY DEF LoopEnds, Cleanup, ResetSessionState, sdkVars
<1>4. \A h \in Gen : phase[h] \notin {"mcp", "query"}
  BY <1>0, <1>1 DEF QueryInv
<1>5. \A h \in Gen : phase'[h] = phase[h] \/ (phase[h] = "unused" /\ phase'[h] = "mcp")
  <2>1. phase' = phase \/ \E s \in Gen : StartSession(s)
    BY DEF LoopEnds, Cleanup, startVars
  <2> QED BY <2>1, PhaseOfStart
<1>6. \A h \in Gen : ~SdkPulls(h)'
  BY <1>0, <1>2, <1>3 DEF SdkPulls
<1>7. \A h \in Gen : loop'[h] \notin {"reading", "closing"}
  BY <1>1, <1>3 DEF QueryInv, TypeOK
<1> QED BY <1>3, <1>4, <1>5, <1>6, <1>7 DEF QueryInv

\* The steps of a start.
LEMMA QueryStarts ==
    ASSUME TypeOK, StartInv, QueryInv, NEW g \in Gen, StartStep(g) \/ StartFails(g)
    PROVE  QueryInv'
<1> USE DEF queryVars, flagVars, sdkVars
<1>0. \A h \in Gen : h # 0
  BY DEF Gen
<1>1. CASE BuildOptions(g)
  <2>1. /\ queryGenerator = 0 /\ queryGenerator' = 0 /\ abortController' = g
        /\ UNCHANGED <<sdk, loop, yieldInProgress>>
        /\ phase[g] = "mcp" /\ phase' = [phase EXCEPT ![g] = "query"]
        /\ \A h \in Gen \ {g} : h \in aborted => h \in aborted'
    BY <1>0, <1>1 DEF BuildOptions, QueryInv
  <2>2. \A h \in Gen : phase[h] = "query" => h = g
    BY <2>1 DEF StartInv, InFlight
  <2>3. \A h \in Gen : ~SdkPulls(h)'
    BY <1>0, <2>1 DEF SdkPulls, QueryInv
  <2> QED BY <2>1, <2>2, <2>3 DEF QueryInv, TypeOK
<1>2. CASE QueryReady(g)
  <2>1. /\ queryGenerator = 0 /\ queryGenerator' = g /\ abortController = g
        /\ UNCHANGED <<abortController, aborted, loop, yieldInProgress>>
        /\ phase' = [phase EXCEPT ![g] = "snapshot"]
        /\ sdk' = [sdk EXCEPT ![g] = "running"]
    BY <1>2 DEF QueryReady, QueryInv
  <2>2. \A h \in Gen : phase'[h] \notin {"mcp", "query"}
    BY <1>2, <2>1 DEF QueryReady, StartInv, InFlight, TypeOK
  <2>3. \A h \in Gen : SdkPulls(h)' => h = g
    BY <1>0, <2>1 DEF SdkPulls, QueryInv, TypeOK
  <2>4. ~yieldInProgress /\ \A h \in Gen : loop[h] \notin {"reading", "closing"}
    BY <1>0, <2>1 DEF QueryInv
  <2>5. \A h \in Gen : phase'[h] = "unused" => phase[h] = "unused" /\ h # g
    BY <2>1 DEF TypeOK
  <2> QED BY <2>1, <2>2, <2>3, <2>4, <2>5 DEF QueryInv, TypeOK
<1>3. CASE LaunchLoop(g)
  <2>1. /\ \A h \in Gen : phase'[h] \in {phase[h], "launched"}
        /\ UNCHANGED <<sdk, queryGenerator>>
        /\ \A h \in Gen : phase[h] # "query"
    BY <1>3 DEF LaunchLoop, ResetSessionState, StartInv, InFlight, TypeOK
  <2>2. CASE queryGenerator # 0
    <3>1. /\ UNCHANGED <<abortController, aborted, yieldInProgress>>
          /\ loop' = [loop EXCEPT ![queryGenerator] = "reading"]
      BY <1>3, <2>2 DEF LaunchLoop
    <3>2. \A h \in Gen : SdkPulls(h)' <=> SdkPulls(h)
      BY <2>1, <3>1 DEF SdkPulls
    <3>3. \A h \in Gen : loop'[h] = loop[h] \/ (h = queryGenerator /\ loop'[h] = "reading")
      <4>1. loop \in [Gen -> {"none", "reading", "closing", "ended"}]
        BY DEF TypeOK
      <4> QED BY <3>1, <4>1
    <3> QED BY <2>1, <3>1, <3>2, <3>3 DEF QueryInv
  <2>3. CASE queryGenerator = 0
    <3>1. loop' = loop /\ yieldInProgress' = FALSE /\ aborted' = aborted \ {0}
      BY <1>3, <2>3 DEF LaunchLoop, ResetSessionState
    <3>2. \A h \in Gen : SdkPulls(h)' <=> SdkPulls(h)
      BY <1>0, <2>1, <3>1 DEF SdkPulls
    <3> QED BY <2>1, <2>3, <3>1, <3>2 DEF QueryInv
  <2> QED BY <2>2, <2>3
<1>4. CASE StartSettles(g) \/ StartFails(g)
  <2>1. /\ UNCHANGED <<queryGenerator, abortController, aborted, yieldInProgress, sdk, loop>>
        /\ \A h \in Gen : phase'[h] \in {phase[h], "started", "failed"}
    BY <1>4 DEF StartSettles, StartFails, TypeOK
  <2>2. \A h \in Gen : SdkPulls(h)' <=> SdkPulls(h)
    BY <2>1 DEF SdkPulls
  <2> QED BY <2>1, <2>2 DEF QueryInv
<1> QED BY <1>1, <1>2, <1>3, <1>4 DEF StartStep

LEMMA QueryNext ==
    NoRestart => (TypeOK /\ StartInv /\ QueryInv /\ [Next]_vars => QueryInv')
<1> SUFFICES ASSUME NoRestart, TypeOK, StartInv, QueryInv, [Next]_vars PROVE QueryInv'
  OBVIOUS
<1> USE DEF queryVars, flagVars, startVars, sdkVars
<1>1. ASSUME NEW r \in Req, CallStep(r) \/ UserStep(r) PROVE QueryInv'
  <2>1. /\ UNCHANGED <<queryGenerator, abortController, aborted, yieldInProgress, sdk, loop>>
        /\ \/ phase' = phase
           \/ queryGenerator = 0 /\ \E s \in Gen : StartSession(s)
    BY <1>1 DEF NoRestart, CallStep, UserStep, Invoke, SettingsChecked, AwaitStart,
                ControlCallFails, Push, CancelRequest, RequestYield
  <2> QED BY <2>1, QueryStart, QueryQuiet
<1>2. ASSUME NEW g \in Gen, StartStep(g) \/ StartFails(g) PROVE QueryInv'
  BY <1>2, QueryStarts
<1>3. ASSUME NEW g \in Gen, LoopStep(g) PROVE QueryInv'
  <2>1. CASE LoopEnds(g)
    BY <2>1, QueryEnds
  <2>2. CASE MessageWhenCancelled(g) \/ FailureMessage(g)
    <3>1. /\ UNCHANGED <<queryGenerator, abortController, aborted, phase, yieldInProgress>>
          /\ loop[g] = "reading"
          /\ loop' = [loop EXCEPT ![g] = "closing"] /\ sdk' = [sdk EXCEPT ![g] = "ended"]
      BY <2>2 DEF MessageWhenCancelled, FailureMessage, Throw, Reads
    <3>2. sdk[g] # "none"
      <4>1. queryGenerator = g /\ g # 0
        BY <3>1 DEF QueryInv, Gen
      <4> QED BY <4>1 DEF QueryInv
    <3> QED BY <3>1, <3>2, QueryQuiet DEF TypeOK
  <2>3. CASE StreamMessage(g) \/ ResultMessage(g)
    BY <2>3, QueryQuiet DEF StreamMessage, ResultMessage
  <2>4. CASE MessageWhenYielding(g)
    <3>1. /\ UNCHANGED <<queryGenerator, abortController, phase, sdk, loop>>
          /\ aborted' = aborted \cup {abortController}
          /\ queryGenerator = g
      BY <2>4 DEF MessageWhenYielding, AbortCurrent, Reads, QueryInv
    <3>2. \A h \in Gen : SdkPulls(h)' => SdkPulls(h)
      BY <3>1 DEF SdkPulls
    <3>3. g # 0
      BY DEF Gen
    <3> QED BY <3>1, <3>2, <3>3 DEF QueryInv
  <2> QED BY <1>3, <2>1, <2>2, <2>3, <2>4 DEF LoopStep
<1>4. ASSUME NEW g \in Gen, IterStep(g) \/ SdkStreams(g) \/ SdkAnswers(g) PROVE QueryInv'
  BY <1>4, QueryQuiet DEF IterStep, GetNextRequest, YieldPrompt, IterableThrows,
                          SdkStreams, SdkAnswers
<1>5. ASSUME NEW g \in Gen, SdkEnds(g) PROVE QueryInv'
  BY <1>5, QueryQuiet DEF SdkEnds, TypeOK
<1>6. CASE IdleTimeout \/ Dispose \/ UNCHANGED vars
  BY <1>6, QueryQuiet DEF NoRestart, IdleTimeout, Dispose, AbortCurrent, vars
<1> QED BY <1>1, <1>2, <1>3, <1>4, <1>5, <1>6 DEF Next, SdkStep

LEMMA QueryInit == Init => StartInv /\ QueryInv
BY DEF Init, StartInv, InFlight, QueryInv, SdkPulls, Gen

\* While no restart happens one query works on the session, for every number
\* of requests and starts, and whatever else is cancelled, yields or fails.
THEOREM QueriesAreSingle == NoRestart => (Spec => []OneLiveQuery)
<1> SUFFICES ASSUME NoRestart PROVE Spec => []OneLiveQuery
  OBVIOUS
<1>1. TypeOK /\ StartInv /\ QueryInv /\ [Next]_vars => QueryInv'
  BY QueryNext
<1>2. QueryInv => OneLiveQuery
  BY DEF QueryInv, OneLiveQuery
<1> QED BY <1>1, <1>2, QueryInit, StartNext, TypeCorrect, PTL DEF Spec

\* Under the same condition the controller of the session is the one its query
\* was given, so that an abort stops the query.
THEOREM AbortsReach == NoRestart => (Spec => []AbortReachesGenerator)
<1> SUFFICES ASSUME NoRestart PROVE Spec => []AbortReachesGenerator
  OBVIOUS
<1>1. TypeOK /\ StartInv /\ QueryInv /\ [Next]_vars => QueryInv'
  BY QueryNext
<1>2. QueryInv => AbortReachesGenerator
  BY DEF QueryInv, AbortReachesGenerator
<1> QED BY <1>1, <1>2, QueryInit, StartNext, TypeCorrect, PTL DEF Spec

\* And a yield in progress has stopped the query it interrupts.
THEOREM YieldsAbort == NoRestart => (Spec => []YieldAborts)
<1> SUFFICES ASSUME NoRestart PROVE Spec => []YieldAborts
  OBVIOUS
<1>1. TypeOK /\ StartInv /\ QueryInv /\ [Next]_vars => QueryInv'
  BY QueryNext
<1>2. QueryInv => YieldAborts
  BY DEF QueryInv, YieldAborts
<1> QED BY <1>1, <1>2, QueryInit, StartNext, TypeCorrect, PTL DEF Spec

-----------------------------------------------------------------------------
(* While no restart happens: what the SDK works on, and the request queue. *)

\* There is a query, or one is about to be made.
Serving == queryGenerator # 0 \/ \E g \in Gen : phase[g] \in {"mcp", "query"}

IsHead(r) == promptQueue # <<>> /\ r = Head(promptQueue)

\* The iterable of g waits for a request that is not settled.
InTurn(g) == iter[g].st = "waiting" /\ pc[iter[g].req] = "queued"

\* The iterable of g goes on before the next event.
MovesOn(g) == iter[g].st = "waiting" /\ pc[iter[g].req] \in {"done", "error"}

\* Its request is done, and what it yields next has not been yielded.
GoesOn(g) ==
    \/ iter[g].st \in {"pending", "got"}
    \/ iter[g].st = "waiting" /\ pc[iter[g].req] = "done"

SdkIdle(g) == inbox[g] = <<>> /\ outbox[g] = <<>>

\* The SDK query of g works on r, or it has worked on it: what it has sent is
\* about r, and after the message that ends the work it sends nothing more.
WorksOn(g, r) ==
    /\ inbox[g] \in {<<>>, <<r>>}
    /\ \A i \in DOMAIN outbox[g] :
          /\ outbox[g][i].req = r
          /\ outbox[g][i].kind # "assistant" => i = Len(outbox[g]) /\ inbox[g] = <<>>

\* Nothing was pulled by a query that has not begun.
NewIsIdle ==
    \A g \in Gen : /\ iter[g].st = "new" => SdkIdle(g)
                   /\ phase[g] \in {"unused", "mcp", "query"} => iter[g].st = "new"

\* A prompt is only pending while nothing is queued, and an iterable of an
\* older query has it only until the present one pulls for the first time.
PendingIsFirst ==
    pendingPrompt # 0 =>
        /\ iter[pendingPrompt].st = "pending"
        /\ promptQueue = <<>>
        /\ (queryGenerator \notin {0, pendingPrompt} => iter[queryGenerator].st = "new")

\* A request an iterable waits for is settled, or it is the head of the queue
\* and the present query, which nobody has aborted, works on it.
WaitsInTurn ==
    \A g \in Gen : iter[g].st = "waiting" =>
        \/ MovesOn(g)
        \/ /\ InTurn(g)
           /\ g = queryGenerator /\ g \notin aborted
           /\ IsHead(iter[g].req) /\ currentRequest = iter[g].req
           /\ WorksOn(g, iter[g].req)

\* What the present query still sends when its request is settled is about no
\* request, and a query that was not aborted sends nothing then.
NothingLate ==
    queryGenerator # 0 =>
        /\ GoesOn(queryGenerator) => SdkIdle(queryGenerator) \/ currentRequest = NoReq
        /\ queryGenerator \notin aborted /\ ~InTurn(queryGenerator) => SdkIdle(queryGenerator)

\* A request that is about to be yielded is the head of the queue.
YieldsHead == \A g \in Gen : iter[g].st = "got" /\ Serving => IsHead(iter[g].req)

\* As long as an iterable of an older query has not come to rest, the present
\* query has sent nothing.
OldComesToRest ==
    \A h \in Gen : h # queryGenerator /\ iter[h].st \in {"got", "waiting"} =>
        /\ Serving => promptQueue # <<>>
        /\ queryGenerator # 0 =>
              /\ outbox[queryGenerator] = <<>>
              /\ inbox[queryGenerator] = <<>> \/ InTurn(queryGenerator)

PromptInv ==
    /\ NewIsIdle
    /\ PendingIsFirst
    /\ NoOrphanIterable
    /\ WaitsInTurn
    /\ NothingLate
    /\ YieldsHead
    /\ OldComesToRest

SessionInv == TypeOK /\ StartInv /\ CallersAreQueued /\ QueryInv /\ PromptInv

LEMMA NumberFacts ==
    ASSUME TypeOK
    PROVE  /\ queryGenerator # 0 => queryGenerator \in Gen
           /\ pendingPrompt # 0 => pendingPrompt \in Gen
           /\ 0 \notin Gen
BY BoundsAssumption DEF TypeOK, Gen, GenOrNone

LEMMA IterFacts ==
    ASSUME TypeOK, NEW g \in Gen
    PROVE  /\ iter[g].st \in {"new", "pending", "closed", "got", "waiting"}
           /\ iter[g].st \in {"got", "waiting"} => iter[g].req \in Req
<1>1. iter[g] \in Iterables
  BY DEF TypeOK
<1> QED BY <1>1 DEF Iterables

\* The head of the queue waits for its deferred.
LEMMA HeadFacts ==
    ASSUME TypeOK, CallersAreQueued, promptQueue # <<>>
    PROVE  /\ Head(promptQueue) \in Req /\ pc[Head(promptQueue)] = "queued"
           /\ Tail(promptQueue) \in Seq(Req)
<1>1. Head(promptQueue) = promptQueue[1] /\ 1 \in DOMAIN promptQueue
      /\ Head(promptQueue) \in Req /\ Tail(promptQueue) \in Seq(Req)
  BY EmptySeq, HeadTailProperties, LenProperties DEF TypeOK
<1>2. Head(promptQueue) \in Queued
  BY <1>1 DEF Queued
<1> QED BY <1>1, <1>2 DEF CallersAreQueued

\* Between events every iterable is at rest, and only that of the present
\* query waits for a request.
LEMMA Quiescent ==
    ASSUME SessionInv, ~MicrotaskPending, NEW g \in Gen
    PROVE  /\ iter[g].st # "got" /\ ~MovesOn(g)
           /\ g # queryGenerator => iter[g].st # "waiting"
BY DEF MicrotaskPending, MovesOn, SessionInv, PromptInv, WaitsInTurn

\* A step that touches neither the prompts nor the queue.
LEMMA PromptQuiet ==
    ASSUME SessionInv,
           UNCHANGED <<iter, inbox, outbox, promptQueue, pendingPrompt, currentRequest, queryGenerator>>,
           queryGenerator # 0 => (queryGenerator \in aborted' <=> queryGenerator \in aborted),
           \A r \in Req : pc[r] \in {"queued", "done", "error"} => pc'[r] = pc[r],
           \A r \in Req : pc'[r] \in {"queued", "done"} => pc[r] = pc'[r],
           \A g \in Gen : phase'[g] \in {"unused", "mcp", "query"}
                              => phase[g] \in {"unused", "mcp", "query"},
           Serving' => Serving \/ ~MicrotaskPending
    PROVE  PromptInv'
<1> USE DEF SessionInv, PromptInv
<1>1. ASSUME NEW g \in Gen, iter[g].st = "waiting"
      PROVE  /\ MovesOn(g)' <=> MovesOn(g)
             /\ InTurn(g)' <=> InTurn(g)
             /\ pc'[iter[g].req] = pc[iter[g].req]
  <2>1. pc[iter[g].req] \in {"queued", "done", "error"} /\ iter[g].req \in Req
    BY <1>1, IterFacts DEF WaitsInTurn, MovesOn, InTurn
  <2> QED BY <2>1 DEF MovesOn, InTurn
<1>2. ASSUME NEW g \in Gen
      PROVE  /\ SdkIdle(g)' <=> SdkIdle(g)
             /\ InTurn(g)' <=> InTurn(g)
             /\ GoesOn(g)' <=> GoesOn(g)
             /\ \A r \in Req : WorksOn(g, r)' <=> WorksOn(g, r)
  <2>1. InTurn(g)' <=> InTurn(g)
    BY <1>1 DEF InTurn
  <2>2. GoesOn(g)' <=> GoesOn(g)
    BY <1>1 DEF GoesOn
  <2>3. SdkIdle(g)' <=> SdkIdle(g)
    BY DEF SdkIdle
  <2>4. \A r \in Req : WorksOn(g, r)' <=> WorksOn(g, r)
    BY DEF WorksOn
  <2> QED BY <2>1, <2>2, <2>3, <2>4
<1>3. \A r \in Req : IsHead(r)' <=> IsHead(r)
  BY DEF IsHead
<1>4. NewIsIdle'
  BY <1>2 DEF NewIsIdle
<1>a. PendingIsFirst'
  BY DEF PendingIsFirst
<1>b. NoOrphanIterable'
  BY DEF NoOrphanIterable
<1>5. WaitsInTurn'
  <2> SUFFICES ASSUME NEW g \in Gen, iter[g].st = "waiting", ~MovesOn(g)'
               PROVE  /\ InTurn(g)'
                      /\ g = queryGenerator /\ g \notin aborted'
                      /\ IsHead(iter[g].req)' /\ currentRequest = iter[g].req
                      /\ WorksOn(g, iter[g].req)'
    BY DEF WaitsInTurn
  <2>1. ~MovesOn(g) /\ iter[g].req \in Req
    BY <1>1, IterFacts
  <2>2. /\ InTurn(g) /\ g = queryGenerator /\ g \notin aborted
        /\ IsHead(iter[g].req) /\ currentRequest = iter[g].req
        /\ WorksOn(g, iter[g].req)
    BY <2>1 DEF WaitsInTurn
  <2>3. WorksOn(g, iter[g].req)' /\ IsHead(iter[g].req)'
    BY <2>2 DEF WorksOn, IsHead
  <2> QED BY <1>2, <2>2, <2>3, NumberFacts
<1>6. NothingLate'
  <2> SUFFICES ASSUME queryGenerator # 0 PROVE NothingLate'
    BY DEF NothingLate
  <2>1. PICK g \in Gen : g = queryGenerator
    BY NumberFacts
  <2>2. /\ GoesOn(g) => SdkIdle(g) \/ currentRequest = NoReq
        /\ g \notin aborted /\ ~InTurn(g) => SdkIdle(g)
    BY <2>1 DEF NothingLate
  <2>3. /\ GoesOn(g)' => SdkIdle(g)' \/ currentRequest = NoReq
        /\ g \notin aborted' /\ ~InTurn(g)' => SdkIdle(g)'
    BY <1>2, <2>1, <2>2
  <2> QED BY <2>1, <2>3 DEF NothingLate, GoesOn, SdkIdle, InTurn
<1>7. YieldsHead'
  BY <1>3, Quiescent, IterFacts DEF YieldsHead
<1>8. OldComesToRest'
  <2>1. CASE Serving' => Serving
    <3> SUFFICES ASSUME NEW h \in Gen, h # queryGenerator, iter[h].st \in {"got", "waiting"}
                 PROVE  /\ Serving' => promptQueue # <<>>
                        /\ queryGenerator # 0 =>
                              /\ outbox[queryGenerator] = <<>>
                              /\ inbox[queryGenerator] = <<>> \/ InTurn(queryGenerator)'
      BY DEF OldComesToRest
    <3>1. queryGenerator # 0 => (InTurn(queryGenerator)' <=> InTurn(queryGenerator))
      BY <1>2, NumberFacts DEF InTurn
    <3> QED BY <2>1, <3>1 DEF OldComesToRest
  <2>2. CASE ~MicrotaskPending
    BY <2>2, Quiescent DEF OldComesToRest
  <2> QED BY <2>1, <2>2
<1> QED BY <1>4, <1>a, <1>b, <1>5, <1>6, <1>7, <1>8

\* All that is queued is rejected, and no query is left or under way.
LEMMA PromptReject ==
    ASSUME SessionInv, NEW R, \A r \in R : pc[r] # "done", RejectPendingRequests(R),
           UNCHANGED <<inbox, outbox>>, queryGenerator' = 0, ~Serving',
           \A g \in Gen : phase'[g] \in {"unused", "mcp", "query"}
                              => phase[g] \in {"unused", "mcp", "query"}
    PROVE  PromptInv'
<1> USE DEF SessionInv, PromptInv
<1>1. /\ promptQueue' = <<>> /\ pendingPrompt' = 0
      /\ \A r \in Req : pc'[r] = IF r \in R \cup Queued THEN "error" ELSE pc[r]
  BY DEF RejectPendingRequests, RejectPendingPrompt, Settle
<1>2. \A g \in Gen :
        \/ iter'[g] = iter[g]
        \/ iter[g].st = "pending" /\ iter'[g].st = "closed"
  BY NumberFacts
  DEF RejectPendingRequests, RejectPendingPrompt, PendingIsFirst, TypeOK
<1>3. NewIsIdle'
  BY <1>2 DEF NewIsIdle, SdkIdle
<1>4. WaitsInTurn'
  <2> SUFFICES ASSUME NEW g \in Gen, iter'[g].st = "waiting" PROVE MovesOn(g)'
    BY DEF WaitsInTurn
  <2>1. iter'[g] = iter[g] /\ iter[g].st = "waiting" /\ iter[g].req \in Req
    BY <1>2, IterFacts
  <2>2. pc[iter[g].req] \in {"queued", "done", "error"}
    BY <2>1 DEF WaitsInTurn, MovesOn, InTurn
  <2>3. pc'[iter[g].req] \in {"done", "error"}
    BY <1>1, <2>1, <2>2 DEF CallersAreQueued
  <2> QED BY <2>1, <2>3 DEF MovesOn
<1> QED BY <1>1, <1>3, <1>4
        DEF PendingIsFirst, NoOrphanIterable, NothingLate, YieldsHead, OldComesToRest

\* The steps of a caller and of the user, except the one that queues.
LEMMA PromptCalls ==
    ASSUME NoRestart, SessionInv, NEW r \in Req,
           UserStep(r) \/ SettingsChecked(r)
    PROVE  PromptInv'
<1> USE DEF queryVars, queueVars, flagVars, startVars, callVars, sdkVars
<1>1. /\ UNCHANGED <<iter, inbox, outbox, promptQueue, pendingPrompt, currentRequest,
                     queryGenerator, aborted>>
      /\ (\E s \in Gen : StartSession(s)) \/ phase' = phase
      /\ ~MicrotaskPending \/ phase' = phase
      /\ pc[r] \notin {"queued", "done", "error"} \/ pc' = pc
      /\ pc' = pc \/ \E q \in {"settings", "starting", "ready", "error"} :
                       pc' = [pc EXCEPT ![r] = q]
  BY DEF NoRestart, UserStep, Invoke, SettingsChecked, AwaitStart, ControlCallFails,
         CancelRequest, RequestYield
<1>2. \A q \in Req : /\ pc[q] \in {"queued", "done", "error"} => pc'[q] = pc[q]
                     /\ pc'[q] \in {"queued", "done"} => pc[q] = pc'[q]
  BY <1>1 DEF SessionInv, TypeOK
<1>3. \A g \in Gen : phase'[g] = phase[g] \/ (phase[g] = "unused" /\ phase'[g] = "mcp")
  BY <1>1, PhaseOfStart DEF SessionInv
<1>4. Serving' => Serving \/ ~MicrotaskPending
  BY <1>1 DEF Serving
<1> QED BY <1>1, <1>2, <1>3, <1>4, PromptQuiet

\* A start whose query is not made yet, or is made and in place.
LEMMA PromptStarts ==
    ASSUME SessionInv, NEW g \in Gen,
           \/ BuildOptions(g)
           \/ StartSettles(g)
           \/ (LaunchLoop(g) /\ queryGenerator # 0)
           \/ (StartFails(g) /\ g \notin retry)
    PROVE  PromptInv'
<1> USE DEF queryVars, queueVars, flagVars, callVars, sdkVars
<1>1. /\ UNCHANGED <<iter, inbox, outbox, promptQueue, pendingPrompt, currentRequest,
                     queryGenerator>>
      /\ \/ phase[g] = "mcp" /\ phase' = [phase EXCEPT ![g] = "query"]
         \/ \E p \in {"launched", "started", "failed"} : phase' = [phase EXCEPT ![g] = p]
      /\ aborted' = aborted \/ phase[g] = "mcp"
      /\ \/ pc' = pc
         \/ pc' = Settle(Waiters(g), "ready") \/ pc' = Settle(Waiters(g), "error")
  BY DEF BuildOptions, StartSettles, LaunchLoop, StartFails
<1>2. \A q \in Req : /\ pc[q] \in {"queued", "done", "error"} => pc'[q] = pc[q]
                     /\ pc'[q] \in {"queued", "done"} => pc[q] = pc'[q]
  BY <1>1 DEF Settle, Waiters
<1>3. \A h \in Gen : phase'[h] = phase[h] \/ (h = g /\ phase'[h] # "unused")
  BY <1>1 DEF SessionInv, TypeOK
<1>4. \A h \in Gen : phase'[h] \in {"mcp", "query"} => phase[h] \in {"mcp", "query"}
  <2>1. CASE phase[g] = "mcp"
    BY <1>3, <2>1
  <2>2. CASE \E p \in {"launched", "started", "failed"} : phase' = [phase EXCEPT ![g] = p]
    BY <1>3, <2>2 DEF SessionInv, TypeOK
  <2> QED BY <1>1, <2>1, <2>2
<1>5. queryGenerator # 0 => aborted' = aborted
  BY <1>1 DEF SessionInv, QueryInv
<1>6. Serving' => Serving
  BY <1>1, <1>4 DEF Serving
<1> QED BY <1>1, <1>2, <1>3, <1>4, <1>5, <1>6, PromptQuiet

\* A start that fails after a yield, or whose query has ended before its loop.
LEMMA PromptStartFails ==
    ASSUME SessionInv, NEW g \in Gen,
           \/ (StartFails(g) /\ g \in retry)
           \/ (LaunchLoop(g) /\ queryGenerator = 0)
    PROVE  PromptInv'
<1> USE DEF queryVars, flagVars, sdkVars
<1>1. CASE StartFails(g) /\ g \in retry
  <2>1. /\ RejectPendingRequests(Waiters(g)) /\ UNCHANGED <<inbox, outbox, queryGenerator>>
        /\ phase' = [phase EXCEPT ![g] = "failed"] /\ phase[g] \in {"mcp", "query"}
    BY <1>1 DEF StartFails
  <2>2. \A h \in Gen : phase'[h] \in {"unused", "mcp", "query"} => phase[h] = phase'[h] /\ h # g
    BY <2>1 DEF SessionInv, TypeOK
  <2>3. queryGenerator' = 0
    BY <2>1 DEF SessionInv, QueryInv
  <2>4. ~Serving'
    BY <2>1, <2>2, <2>3 DEF Serving, SessionInv, StartInv, InFlight
  <2>5. \A r \in Waiters(g) : pc[r] # "done"
    BY DEF Waiters
  <2> QED BY <2>1, <2>2, <2>3, <2>4, <2>5, PromptReject
<1>2. CASE LaunchLoop(g) /\ queryGenerator = 0
  <2>1. ~yieldInProgress
    BY <1>2 DEF SessionInv, QueryInv
  <2>2. /\ RejectPendingRequests({}) /\ UNCHANGED <<inbox, outbox>> /\ queryGenerator' = 0
        /\ phase' = [phase EXCEPT ![g] = "launched"] /\ phase[g] = "snapshot"
    BY <1>2, <2>1 DEF LaunchLoop, ResetSessionState
  <2>3. \A h \in Gen : phase'[h] \in {"unused", "mcp", "query"} => phase[h] = phase'[h]
    BY <2>2 DEF SessionInv, TypeOK
  <2>4. ~Serving'
    BY <2>2, <2>3 DEF Serving, SessionInv, StartInv, InFlight
  <2> QED BY <2>2, <2>3, <2>4, PromptReject
<1> QED BY <1>1, <1>2

\* The message loop ends: a yield leaves the queue to a start of its own, any
\* other end rejects it.
LEMMA PromptLoopEnds ==
    ASSUME SessionInv, NEW g \in Gen, LoopEnds(g)
    PROVE  PromptInv'
<1> USE DEF SessionInv, queueVars, startVars, sdkVars
<1>1. queryGenerator = g /\ g # 0
  BY DEF LoopEnds, QueryInv, Gen
<1>2. /\ UNCHANGED <<inbox, outbox>> /\ queryGenerator' = 0 /\ currentRequest' = NoReq
  BY DEF LoopEnds, Cleanup, ResetSessionState
<1>3. \A h \in Gen : phase[h] \notin {"mcp", "query"}
  BY <1>1 DEF QueryInv
<1>4. CASE ~yieldInProgress
  <2>1. RejectPendingRequests({}) /\ phase' = phase
    BY <1>4 DEF LoopEnds, Cleanup
  <2>2. ~Serving'
    BY <1>2, <1>3, <2>1 DEF Serving
  <2> QED BY <1>2, <2>1, <2>2, PromptReject
<1>5. CASE yieldInProgress
  <2>1. UNCHANGED <<promptQueue, pendingPrompt, iter, pc>>
    BY <1>5 DEF LoopEnds, Cleanup
  <2>2. phase' = phase \/ (promptQueue # <<>> /\ \E s \in Gen : StartSession(s))
    BY <1>5 DEF LoopEnds, Cleanup
  <2>3. \A h \in Gen : phase'[h] = phase[h] \/ (phase[h] = "unused" /\ phase'[h] = "mcp")
    BY <2>2, PhaseOfStart
  <2>4. Serving' => promptQueue # <<>>
    BY <1>2, <1>3, <2>2 DEF Serving
  <2>5. g \in aborted
    BY <1>1, <1>5 DEF QueryInv
  <2>6. Serving
    BY <1>1 DEF Serving
  <2>7. NewIsIdle'
    BY <1>2, <2>1, <2>3 DEF PromptInv, NewIsIdle, SdkIdle
  <2>8. WaitsInTurn'
    BY <1>1, <2>1, <2>5 DEF PromptInv, WaitsInTurn, MovesOn
  <2>9. YieldsHead'
    BY <2>1, <2>6 DEF PromptInv, YieldsHead, IsHead
  <2>10. PendingIsFirst' /\ NoOrphanIterable' /\ NothingLate' /\ OldComesToRest'
    BY <1>2, <2>1, <2>4 DEF PromptInv, PendingIsFirst, NoOrphanIterable, NothingLate,
                            OldComesToRest
  <2> QED BY <2>7, <2>8, <2>9, <2>10 DEF PromptInv
<1> QED BY <1>4, <1>5

\* An iterable that a step leaves alone stands as it stood, if no settled or
\* queued call is touched either.
LEMMA SameTurn ==
    ASSUME SessionInv, NEW g \in Gen, iter'[g] = iter[g],
           \A r \in Req : pc[r] \in {"queued", "done", "error"} => pc'[r] = pc[r]
    PROVE  /\ MovesOn(g)' <=> MovesOn(g)
           /\ InTurn(g)' <=> InTurn(g)
           /\ GoesOn(g)' <=> GoesOn(g)
<1>1. iter[g].st = "waiting" => pc'[iter[g].req] = pc[iter[g].req]
  BY IterFacts DEF SessionInv, PromptInv, WaitsInTurn, MovesOn, InTurn
<1> QED BY <1>1 DEF MovesOn, InTurn, GoesOn

\* The head of the queue stays when a request is queued behind it.
LEMMA HeadStays ==
    ASSUME TypeOK, NEW r \in Req, promptQueue' = Append(promptQueue, r)
    PROVE  /\ promptQueue' # <<>>
           /\ promptQueue = <<>> => IsHead(r)'
           /\ \A q : IsHead(q) => IsHead(q)'
<1>1. /\ promptQueue' # <<>> /\ promptQueue \in Seq(Req)
      /\ promptQueue # <<>> => Head(promptQueue') = Head(promptQueue)
      /\ promptQueue = <<>> => Head(promptQueue') = r
  BY HeadTailAppend, AppendProperties DEF TypeOK
<1> QED BY <1>1 DEF IsHead

LEMMA PromptPush ==
    ASSUME SessionInv, NEW r \in Req, Push(r)
    PROVE  PromptInv'
<1> USE DEF SessionInv, PromptInv
<1>1. /\ UNCHANGED <<queryGenerator, aborted, phase, currentRequest, inbox, outbox>>
      /\ promptQueue' = Append(promptQueue, r) /\ pendingPrompt' = 0
      /\ \A q \in Req : pc'[q] = IF q = r THEN "queued" ELSE pc[q]
      /\ pc[r] = "ready"
  BY DEF Push, queryVars, startVars, sdkVars, TypeOK
<1>2. \A q \in Req : pc[q] \in {"queued", "done", "error"} => pc'[q] = pc[q]
  BY <1>1
<1>3. \A q : IsHead(q) => IsHead(q)'
  BY <1>1, HeadStays
<1>4. promptQueue' # <<>> /\ (promptQueue = <<>> => IsHead(r)')
  BY <1>1, HeadStays
<1>5. Serving' <=> Serving
  BY <1>1 DEF Serving
<1>6. \A g \in Gen : /\ SdkIdle(g)' <=> SdkIdle(g)
                     /\ \A q : WorksOn(g, q)' <=> WorksOn(g, q)
  BY <1>1 DEF SdkIdle, WorksOn
<1>7. CASE pendingPrompt = 0
  <2>1. iter' = iter
    BY <1>7 DEF Push
  <2>2. \A g \in Gen : /\ MovesOn(g)' <=> MovesOn(g)
                       /\ InTurn(g)' <=> InTurn(g)
                       /\ GoesOn(g)' <=> GoesOn(g)
    BY <1>2, <2>1, SameTurn
  <2>3. NewIsIdle' /\ PendingIsFirst' /\ NoOrphanIterable'
    BY <1>1, <1>6, <1>7, <2>1 DEF NewIsIdle, PendingIsFirst, NoOrphanIterable
  <2>4. WaitsInTurn'
    BY <1>1, <1>3, <1>6, <2>1, <2>2 DEF WaitsInTurn
  <2>5. NothingLate'
    <3> SUFFICES ASSUME queryGenerator # 0 PROVE NothingLate'
      BY <1>1 DEF NothingLate
    <3>1. PICK g \in Gen : g = queryGenerator
      BY NumberFacts
    <3> QED BY <1>1, <2>1, <3>1, <2>2, SameTurn
            DEF NothingLate, GoesOn, InTurn, SdkIdle
  <2>6. YieldsHead'
    BY <1>3, <1>5, <2>1 DEF YieldsHead
  <2>7. OldComesToRest'
    BY <1>1, <1>4, <2>1, <2>2, NumberFacts DEF OldComesToRest, InTurn
  <2> QED BY <2>3, <2>4, <2>5, <2>6, <2>7
<1>8. CASE pendingPrompt # 0
  <2>0. PICK p \in Gen : p = pendingPrompt
    BY <1>8, NumberFacts
  <2>1. /\ iter[p].st = "pending" /\ promptQueue = <<>>
        /\ queryGenerator \notin {0, p} => iter[queryGenerator].st = "new"
    BY <1>8, <2>0 DEF PendingIsFirst
  <2>2. /\ iter'[p].st = "got" /\ iter'[p].req = r
        /\ \A g \in Gen : g # p => iter'[g] = iter[g]
    BY <1>8, <2>0 DEF Push, TypeOK
  <2>3. \A g \in Gen : g # p => /\ MovesOn(g)' <=> MovesOn(g)
                                /\ InTurn(g)' <=> InTurn(g)
                                /\ GoesOn(g)' <=> GoesOn(g)
    BY <1>2, <2>2, SameTurn
  <2>4. /\ ~InTurn(p) /\ ~InTurn(p)' /\ GoesOn(p)
    BY <2>1, <2>2 DEF InTurn, GoesOn
  <2>5. \A q : ~IsHead(q)
    BY <2>1 DEF IsHead
  <2>6. NewIsIdle' /\ PendingIsFirst' /\ NoOrphanIterable'
    BY <1>1, <1>6, <2>1, <2>2, NumberFacts DEF NewIsIdle, PendingIsFirst, NoOrphanIterable
  <2>7. WaitsInTurn'
    BY <2>2, <2>3, <2>5 DEF WaitsInTurn
  <2>8. NothingLate'
    <3> SUFFICES ASSUME queryGenerator # 0 PROVE NothingLate'
      BY <1>1 DEF NothingLate
    <3>1. PICK g \in Gen : g = queryGenerator
      BY NumberFacts
    <3>2. /\ SdkIdle(g) \/ currentRequest = NoReq \/ ~GoesOn(g)
          /\ g \notin aborted /\ ~InTurn(g) => SdkIdle(g)
      BY <3>1 DEF NothingLate
    <3>3. /\ SdkIdle(g)' \/ currentRequest' = NoReq \/ ~GoesOn(g)'
          /\ g \notin aborted' /\ ~InTurn(g)' => SdkIdle(g)'
      BY <1>1, <1>6, <2>3, <2>4, <3>2
    <3> QED BY <1>1, <3>1, <3>3 DEF NothingLate, GoesOn, InTurn, SdkIdle
  <2>9. YieldsHead'
    BY <1>4, <1>5, <2>1, <2>2, <2>5 DEF YieldsHead
  <2>10. OldComesToRest'
    <3> SUFFICES ASSUME NEW h \in Gen, h # queryGenerator, iter'[h].st \in {"got", "waiting"},
                        queryGenerator # 0
                 PROVE  outbox[queryGenerator] = <<>> /\ inbox[queryGenerator] = <<>>
      BY <1>1, <1>4 DEF OldComesToRest
    <3>1. queryGenerator \in Gen
      BY NumberFacts
    <3>2. h = p
      BY <2>1, <2>2 DEF OldComesToRest, Serving
    <3> QED BY <2>1, <3>1, <3>2 DEF NewIsIdle, SdkIdle
  <2> QED BY <2>6, <2>7, <2>8, <2>9, <2>10
<1> QED BY <1>7, <1>8

\* An iterable in turn has not gone on.
LEMMA TurnsDiffer ==
    ASSUME NEW g \in Gen
    PROVE  ~(InTurn(g) /\ (GoesOn(g) \/ MovesOn(g)))
BY DEF InTurn, GoesOn, MovesOn

LEMMA PromptQueryReady ==
    ASSUME SessionInv, NEW g \in Gen, QueryReady(g)
    PROVE  PromptInv'
<1> USE DEF SessionInv, PromptInv
<1>1. /\ UNCHANGED <<iter, inbox, outbox, promptQueue, pendingPrompt, currentRequest, pc>>
      /\ queryGenerator' = g /\ phase[g] = "query"
      /\ phase' = [phase EXCEPT ![g] = "snapshot"]
  BY DEF QueryReady, queueVars, callVars
<1>2. /\ queryGenerator = 0 /\ g # 0 /\ Serving
      /\ iter[g].st = "new" /\ inbox[g] = <<>> /\ outbox[g] = <<>>
  BY <1>1 DEF QueryInv, Gen, Serving, NewIsIdle, SdkIdle
<1>3. \A h \in Gen : phase'[h] \in {"unused", "mcp", "query"} => phase'[h] = phase[h]
  BY <1>1 DEF TypeOK
<1>4. \A h \in Gen : iter[h].st = "waiting" => MovesOn(h)
  BY <1>2 DEF WaitsInTurn, Gen
<1>5. NewIsIdle'
  BY <1>1, <1>3 DEF NewIsIdle, SdkIdle
<1>6. PendingIsFirst' /\ NoOrphanIterable'
  BY <1>1, <1>2 DEF PendingIsFirst, NoOrphanIterable
<1>7. WaitsInTurn'
  BY <1>1, <1>4 DEF WaitsInTurn, MovesOn
<1>8. NothingLate'
  BY <1>1, <1>2 DEF NothingLate, GoesOn, SdkIdle
<1>9. YieldsHead'
  BY <1>1, <1>2 DEF YieldsHead, IsHead
<1>10. OldComesToRest'
  <2>1. \A h \in Gen : h # queryGenerator
    BY <1>2 DEF Gen
  <2> QED BY <1>1, <1>2, <2>1 DEF OldComesToRest
<1> QED BY <1>5, <1>6, <1>7, <1>8, <1>9, <1>10

\* The iterable of g is the only thing that moves, from a state in which it
\* waits for no request; it is neither new nor, by that, waiting for one.
LEMMA PromptIterable ==
    ASSUME SessionInv, NEW g \in Gen,
           UNCHANGED <<inbox, outbox, promptQueue, queryGenerator, aborted, phase, pc>>,
           iter[g].st # "pending", ~InTurn(g), iter[g].st # "new" \/ iter'[g].st # "closed",
           phase[g] \notin {"unused", "mcp", "query"},
           iter'[g].st \in {"got", "pending", "closed"},
           \A h \in Gen \ {g} : iter'[h] = iter[h],
           iter'[g].st = "got" => IsHead(iter'[g].req),
           \/ currentRequest' = currentRequest
           \/ iter[g].st = "got" /\ currentRequest' = iter[g].req /\ iter'[g].st = "closed",
           \/ pendingPrompt' = pendingPrompt /\ iter'[g].st # "pending"
           \/ pendingPrompt' = g /\ iter'[g].st = "pending" /\ promptQueue = <<>>,
           iter'[g].st \in {"got", "pending"} =>
              \/ iter[g].st = "new" /\ g = queryGenerator /\ g \notin aborted
              \/ iter[g].st = "waiting" /\ pc[iter[g].req] = "done"
    PROVE  PromptInv'
<1> USE DEF SessionInv, PromptInv
<1>1. \A h \in Gen \ {g} : /\ MovesOn(h)' <=> MovesOn(h)
                           /\ InTurn(h)' <=> InTurn(h)
                           /\ GoesOn(h)' <=> GoesOn(h)
  BY SameTurn
<1>2. ~InTurn(g)'
  BY DEF InTurn
<1>3. \A h \in Gen : SdkIdle(h)' <=> SdkIdle(h)
  BY DEF SdkIdle
<1>4. Serving' <=> Serving
  BY DEF Serving
<1>5. NewIsIdle'
  BY <1>3 DEF NewIsIdle
<1>6. PendingIsFirst' /\ NoOrphanIterable'
  <2>1. CASE pendingPrompt' = pendingPrompt /\ iter'[g].st # "pending"
    <3>1. PendingIsFirst'
      <4> SUFFICES ASSUME pendingPrompt # 0 PROVE PendingIsFirst'
        BY <2>1 DEF PendingIsFirst
      <4>1. /\ pendingPrompt \in Gen /\ iter[pendingPrompt].st = "pending" /\ promptQueue = <<>>
            /\ queryGenerator \notin {0, pendingPrompt} => iter[queryGenerator].st = "new"
        BY NumberFacts DEF PendingIsFirst
      <4>2. iter[g].st # "new"
        BY <2>1, <4>1 DEF IsHead
      <4> QED BY <2>1, <4>1, <4>2, NumberFacts DEF PendingIsFirst
    <3>2. NoOrphanIterable'
      BY <2>1, NumberFacts DEF NoOrphanIterable
    <3> QED BY <3>1, <3>2
  <2>2. CASE pendingPrompt' = g /\ iter'[g].st = "pending" /\ promptQueue = <<>>
    <3>1. g = queryGenerator \/ queryGenerator = 0
      BY <2>2 DEF OldComesToRest, Serving
    <3> QED BY <2>2, <3>1 DEF PendingIsFirst, NoOrphanIterable
  <2> QED BY <2>1, <2>2
<1>7. WaitsInTurn'
  <2> SUFFICES ASSUME NEW h \in Gen \ {g}, iter[h].st = "waiting", ~MovesOn(h)
               PROVE  /\ InTurn(h)
                      /\ h = queryGenerator /\ h \notin aborted
                      /\ IsHead(iter[h].req) /\ currentRequest' = iter[h].req
                      /\ WorksOn(h, iter[h].req)
    BY <1>1 DEF WaitsInTurn, IsHead, WorksOn
  <2>1. /\ InTurn(h) /\ IsHead(iter[h].req) /\ WorksOn(h, iter[h].req)
        /\ h = queryGenerator /\ h \notin aborted /\ currentRequest = iter[h].req
    BY DEF WaitsInTurn
  <2>2. Serving
    BY <2>1, NumberFacts DEF Serving
  <2> QED BY <2>1, <2>2 DEF YieldsHead, IsHead
<1>8. NothingLate'
  <2> SUFFICES ASSUME NEW q \in Gen, q = queryGenerator
               PROVE  /\ GoesOn(q)' => SdkIdle(q) \/ currentRequest' = NoReq
                      /\ q \notin aborted /\ ~InTurn(q)' => SdkIdle(q)
    BY NumberFacts, <1>3 DEF NothingLate, GoesOn, InTurn, SdkIdle
  <2>1. q # 0
    BY NumberFacts
  <2>2. /\ GoesOn(q) => SdkIdle(q) \/ currentRequest = NoReq
        /\ q \notin aborted /\ ~InTurn(q) => SdkIdle(q)
    BY <2>1 DEF NothingLate
  <2>3. CASE q = g
    <3>1. GoesOn(q)' => iter'[g].st \in {"got", "pending"}
      BY <2>3 DEF GoesOn
    <3>2. iter'[g].st \in {"got", "pending"} => currentRequest' = currentRequest
      OBVIOUS
    <3>3. iter'[g].st \in {"got", "pending"} => SdkIdle(q) \/ currentRequest = NoReq
      BY <2>2, <2>3 DEF NewIsIdle, GoesOn
    <3> QED BY <1>2, <2>2, <2>3, <3>1, <3>2, <3>3
  <2>4. CASE q # g /\ currentRequest' = currentRequest
    BY <1>1, <2>2, <2>4
  <2>5. CASE q # g /\ iter[g].st = "got"
    <3>1. outbox[q] = <<>> /\ (inbox[q] = <<>> \/ InTurn(q))
      BY <2>1, <2>5 DEF OldComesToRest
    <3> QED BY <1>1, <2>2, <2>5, <3>1, TurnsDiffer DEF SdkIdle
  <2> QED BY <2>3, <2>4, <2>5
<1>9. YieldsHead'
  BY <1>4 DEF YieldsHead, IsHead
<1>10. OldComesToRest'
  <2> SUFFICES ASSUME NEW h \in Gen, h # queryGenerator, iter'[h].st \in {"got", "waiting"}
               PROVE  /\ Serving => promptQueue # <<>>
                      /\ queryGenerator # 0 =>
                            /\ outbox[queryGenerator] = <<>>
                            /\ inbox[queryGenerator] = <<>> \/ InTurn(queryGenerator)'
    BY <1>4 DEF OldComesToRest
  <2>1. iter[h].st \in {"got", "waiting"}
    OBVIOUS
  <2>2. queryGenerator # 0 => (InTurn(queryGenerator) => InTurn(queryGenerator)')
    <3> SUFFICES ASSUME NEW q \in Gen, q = queryGenerator PROVE InTurn(q) => InTurn(q)'
      BY NumberFacts DEF InTurn
    <3> QED BY <1>1
  <2> QED BY <2>1, <2>2 DEF OldComesToRest
<1> QED BY <1>5, <1>6, <1>7, <1>8, <1>9, <1>10

LEMMA PromptGetNext ==
    ASSUME SessionInv, NEW g \in Gen, GetNextRequest(g)
    PROVE  PromptInv'
<1> USE DEF SessionInv, PromptInv
<1>1. UNCHANGED <<inbox, outbox, promptQueue, queryGenerator, aborted, phase, pc, currentRequest>>
  BY DEF GetNextRequest, queryVars, startVars, callVars, sdkVars
<1>2. \/ iter[g].st = "new" /\ g = queryGenerator /\ g \notin aborted
      \/ iter[g].st = "waiting" /\ pc[iter[g].req] = "done"
  BY DEF GetNextRequest, SdkPulls, QueryInv
<1>3. phase[g] \notin {"unused", "mcp", "query"}
  <2>1. iter[g].st = "new" => sdk[g] = "running"
    BY DEF GetNextRequest, SdkPulls
  <2> QED BY <1>2, <2>1 DEF NewIsIdle, QueryInv
<1>4. ~InTurn(g)
  BY <1>2 DEF InTurn
<1>5. \A h \in Gen \ {g} : iter'[h] = iter[h]
  BY DEF GetNextRequest, TypeOK
<1>6. \/ /\ promptQueue # <<>> /\ pendingPrompt' = pendingPrompt
         /\ iter'[g].st = "got" /\ IsHead(iter'[g].req)
      \/ /\ promptQueue = <<>> /\ pendingPrompt' = g
         /\ iter'[g].st = "pending"
  BY DEF GetNextRequest, TypeOK, IsHead
<1> QED BY <1>1, <1>2, <1>3, <1>4, <1>5, <1>6, PromptIterable

LEMMA PromptThrows ==
    ASSUME SessionInv, NEW g \in Gen, IterableThrows(g)
    PROVE  PromptInv'
<1>1. /\ UNCHANGED <<inbox, outbox, promptQueue, queryGenerator, aborted, phase, pc,
                     currentRequest, pendingPrompt>>
      /\ iter[g].st = "waiting" /\ pc[iter[g].req] = "error"
      /\ iter' = [iter EXCEPT ![g] = [st |-> "closed", req |-> NoReq]]
  BY DEF IterableThrows, queryVars, startVars, callVars, sdkVars
<1>2. iter'[g].st = "closed" /\ \A h \in Gen \ {g} : iter'[h] = iter[h]
  BY <1>1 DEF SessionInv, TypeOK
<1>3. ~InTurn(g) /\ phase[g] \notin {"unused", "mcp", "query"}
  BY <1>1 DEF InTurn, SessionInv, PromptInv, NewIsIdle
<1> QED BY <1>1, <1>2, <1>3, PromptIterable

\* The prompt is yielded to a query that pulls, or dropped.
LEMMA PromptYield ==
    ASSUME SessionInv, NEW g \in Gen, YieldPrompt(g)
    PROVE  PromptInv'
<1> USE DEF SessionInv, PromptInv
<1>1. PICK r \in Req : r = iter[g].req
  BY IterFacts DEF YieldPrompt
<1>2. /\ UNCHANGED <<outbox, promptQueue, queryGenerator, aborted, phase, pc, pendingPrompt>>
      /\ iter[g].st = "got" /\ currentRequest' = r
  BY <1>1 DEF YieldPrompt, queryVars, startVars, callVars
<1>3. ~InTurn(g) /\ phase[g] \notin {"unused", "mcp", "query"}
  BY <1>2 DEF InTurn, NewIsIdle
<1>4. CASE ~SdkPulls(g)
  <2>1. inbox' = inbox /\ iter' = [iter EXCEPT ![g] = [st |-> "closed", req |-> NoReq]]
    BY <1>4 DEF YieldPrompt
  <2>2. iter'[g].st = "closed" /\ \A h \in Gen \ {g} : iter'[h] = iter[h]
    BY <2>1 DEF TypeOK
  <2> QED BY <1>1, <1>2, <1>3, <2>1, <2>2, PromptIterable
<1>5. CASE SdkPulls(g)
  <2>1. g = queryGenerator /\ g # 0 /\ g \notin aborted /\ Serving
    BY <1>5 DEF QueryInv, SdkPulls, Gen, Serving
  <2>2. SdkIdle(g) /\ IsHead(r) /\ pc[r] = "queued"
    BY <1>1, <1>2, <1>3, <2>1, HeadFacts DEF NothingLate, YieldsHead, IsHead
  <2>3. /\ inbox' = [inbox EXCEPT ![g] = Append(@, r)]
        /\ iter' = [iter EXCEPT ![g].st = "waiting"]
    BY <1>1, <1>5 DEF YieldPrompt
  <2>4. /\ iter'[g].st = "waiting" /\ iter'[g].req = r
        /\ \A h \in Gen \ {g} : iter'[h] = iter[h]
    <3>1. iter \in [Gen -> Iterables] /\ iter[g] \in Iterables
      BY DEF TypeOK
    <3>2. iter[g] \in [st : {"got", "waiting"}, req : Req]
      BY <1>2, <3>1 DEF Iterables
    <3> QED BY <1>1, <2>3, <3>1, <3>2
  <2>5. inbox'[g] = <<r>> /\ outbox'[g] = <<>> /\ \A h \in Gen \ {g} : inbox'[h] = inbox[h]
    BY <1>2, <2>2, <2>3 DEF SdkIdle, TypeOK
  <2>6. \A h \in Gen \ {g} : MovesOn(h)' <=> MovesOn(h)
    BY <1>2, <2>4, SameTurn
  <2>7. InTurn(g)' /\ ~GoesOn(g)'
    BY <1>2, <2>2, <2>4 DEF InTurn, GoesOn
  <2>8. \A h \in Gen \ {g} : SdkIdle(h)' <=> SdkIdle(h)
    BY <1>2, <2>5 DEF SdkIdle
  <2>9. NewIsIdle'
    BY <1>2, <1>3, <2>4, <2>8 DEF NewIsIdle
  <2>10. pendingPrompt = 0
    BY <1>2, <2>1 DEF PendingIsFirst
  <2>11. PendingIsFirst' /\ NoOrphanIterable'
    BY <1>2, <2>1, <2>4, <2>10 DEF PendingIsFirst, NoOrphanIterable
  <2>12. WaitsInTurn'
    <3>1. \A h \in Gen \ {g} : iter'[h].st = "waiting" => MovesOn(h)'
      BY <2>1, <2>4, <2>6 DEF WaitsInTurn
    <3>2. WorksOn(g, r)'
      BY <2>5 DEF WorksOn
    <3>3. IsHead(r)'
      BY <1>2, <2>2 DEF IsHead
    <3>4. WorksOn(g, iter[g].req)' /\ IsHead(iter[g].req)'
      BY <2>4, <3>2, <3>3 DEF WorksOn, IsHead
    <3> QED BY <1>2, <2>1, <2>4, <2>7, <3>1, <3>4 DEF WaitsInTurn
  <2>13. NothingLate'
    BY <1>2, <2>1, <2>7 DEF NothingLate, GoesOn, InTurn, SdkIdle
  <2>14. YieldsHead'
    BY <1>2, <2>1, <2>4 DEF YieldsHead, IsHead, Serving
  <2>15. OldComesToRest'
    <3>1. \A h \in Gen : h # g /\ iter'[h].st \in {"got", "waiting"} => promptQueue # <<>>
      BY <2>1, <2>4 DEF OldComesToRest
    <3> QED BY <1>2, <2>1, <2>5, <2>7, <3>1 DEF OldComesToRest, InTurn
  <2> QED BY <2>9, <2>11, <2>12, <2>13, <2>14, <2>15
<1> QED BY <1>4, <1>5

\* A step of the SDK, or one that reads what the SDK has sent, and no other.
LEMMA PromptSdk ==
    ASSUME SessionInv, NEW g \in Gen,
           UNCHANGED <<iter, promptQueue, pendingPrompt, currentRequest, queryGenerator,
                       aborted, phase, pc>>,
           \A h \in Gen \ {g} : inbox'[h] = inbox[h] /\ outbox'[h] = outbox[h],
           SdkIdle(g) => SdkIdle(g)',
           inbox[g] = <<>> => inbox'[g] = <<>>,
           (outbox[g] = <<>> => outbox'[g] = <<>>) \/ ~MicrotaskPending,
           \A r \in Req : WorksOn(g, r) => WorksOn(g, r)'
    PROVE  PromptInv'
<1> USE DEF SessionInv, PromptInv
<1>1. \A h \in Gen : /\ MovesOn(h)' <=> MovesOn(h)
                     /\ InTurn(h)' <=> InTurn(h)
                     /\ GoesOn(h)' <=> GoesOn(h)
  BY SameTurn
<1>2. \A h \in Gen : SdkIdle(h) => SdkIdle(h)'
  BY DEF SdkIdle
<1>3. \A h \in Gen : \A r \in Req : WorksOn(h, r) => WorksOn(h, r)'
  <2> SUFFICES ASSUME NEW h \in Gen, h # g, NEW r \in Req, WorksOn(h, r) PROVE WorksOn(h, r)'
    OBVIOUS
  <2>1. inbox'[h] = inbox[h] /\ outbox'[h] = outbox[h]
    OBVIOUS
  <2> QED BY <2>1 DEF WorksOn
<1>4. NewIsIdle'
  BY <1>2 DEF NewIsIdle
<1>5. PendingIsFirst' /\ NoOrphanIterable'
  BY DEF PendingIsFirst, NoOrphanIterable
<1>6. WaitsInTurn'
  BY <1>1, <1>3, IterFacts DEF WaitsInTurn, IsHead
<1>7. NothingLate'
  <2> SUFFICES ASSUME NEW q \in Gen, q = queryGenerator
               PROVE  /\ GoesOn(q) => SdkIdle(q)' \/ currentRequest = NoReq
                      /\ q \notin aborted /\ ~InTurn(q) => SdkIdle(q)'
    BY NumberFacts, <1>1 DEF NothingLate, GoesOn, InTurn, SdkIdle
  <2> QED BY <1>2, NumberFacts DEF NothingLate
<1>8. YieldsHead'
  BY DEF YieldsHead, IsHead, Serving
<1>9. OldComesToRest'
  <2> SUFFICES ASSUME NEW h \in Gen, h # queryGenerator, iter[h].st \in {"got", "waiting"}
               PROVE  /\ Serving => promptQueue # <<>>
                      /\ queryGenerator # 0 =>
                            /\ outbox'[queryGenerator] = <<>>
                            /\ inbox'[queryGenerator] = <<>> \/ InTurn(queryGenerator)'
    BY DEF OldComesToRest, Serving
  <2>1. MicrotaskPending
    BY Quiescent
  <2>2. queryGenerator # 0 =>
           /\ outbox'[queryGenerator] = <<>>
           /\ inbox[queryGenerator] = <<>> => inbox'[queryGenerator] = <<>>
           /\ InTurn(queryGenerator)' <=> InTurn(queryGenerator)
    <3> SUFFICES ASSUME NEW q \in Gen, q = queryGenerator
                 PROVE  /\ outbox'[q] = <<>>
                        /\ inbox[q] = <<>> => inbox'[q] = <<>>
                        /\ InTurn(q)' <=> InTurn(q)
      BY NumberFacts DEF InTurn
    <3> QED BY <1>1, <2>1, NumberFacts DEF OldComesToRest
  <2> QED BY <2>2 DEF OldComesToRest
<1> QED BY <1>4, <1>5, <1>6, <1>7, <1>8, <1>9

\* What the SDK still sends is about the same request when one message is read.
LEMMA WorksOnRead ==
    ASSUME TypeOK, NEW g \in Gen, NEW r \in Req, WorksOn(g, r), outbox[g] # <<>>,
           inbox'[g] = inbox[g], outbox'[g] = Tail(outbox[g])
    PROVE  WorksOn(g, r)'
<1> DEFINE n == Len(outbox[g])
<1>1. outbox[g] \in Seq(Messages) /\ n \in Nat \ {0} /\ DOMAIN outbox[g] = 1..n
  BY LenProperties, EmptySeq DEF TypeOK
<1>2. /\ Len(outbox'[g]) = n - 1 /\ DOMAIN outbox'[g] = 1..(n - 1)
      /\ \A i \in 1..(n - 1) : outbox'[g][i] = outbox[g][i + 1]
  BY <1>1, HeadTailProperties, LenProperties
<1>3. /\ inbox'[g] \in {<<>>, <<r>>}
      /\ \A i \in 1..n : /\ outbox[g][i].req = r
                         /\ outbox[g][i].kind # "assistant" => i = n /\ inbox[g] = <<>>
  BY <1>1 DEF WorksOn
<1>4. ASSUME NEW i \in 1..(n - 1)
      PROVE  /\ outbox'[g][i].req = r
             /\ outbox'[g][i].kind # "assistant" => i = n - 1 /\ inbox[g] = <<>>
  <2>1. i + 1 \in 1..n /\ outbox'[g][i] = outbox[g][i + 1]
    BY <1>1, <1>2
  <2>2. i + 1 = n => i = n - 1
    BY <1>1
  <2> QED BY <1>3, <2>1, <2>2
<1> QED BY <1>2, <1>3, <1>4 DEF WorksOn

\* And when it sends one more, which may end its work.
LEMMA WorksOnSend ==
    ASSUME TypeOK, NEW g \in Gen, NEW r \in Req, WorksOn(g, r), inbox[g] # <<>>,
           NEW k \in {"assistant", "result", "failure"}, Send(g, k),
           inbox'[g] = IF k = "assistant" THEN inbox[g] ELSE Tail(inbox[g])
    PROVE  WorksOn(g, r)'
<1> DEFINE n == Len(outbox[g])
<1>1. outbox[g] \in Seq(Messages) /\ n \in Nat /\ DOMAIN outbox[g] = 1..n
  BY LenProperties, EmptySeq DEF TypeOK
<1>2. inbox[g] = <<r>>
  BY DEF WorksOn
<1>3. Head(inbox[g]) = r /\ Tail(inbox[g]) = <<>>
  BY <1>2
<1> DEFINE m == [kind |-> k, req |-> r]
<1>4. outbox'[g] = Append(outbox[g], m) /\ m \in Messages
  BY <1>3 DEF Send, TypeOK, Messages
<1>5. /\ Len(outbox'[g]) = n + 1 /\ DOMAIN outbox'[g] = 1..(n + 1)
      /\ outbox'[g][n + 1] = m
      /\ \A i \in 1..n : outbox'[g][i] = outbox[g][i]
  BY <1>1, <1>4, AppendProperties, LenProperties
<1>6. \A i \in 1..n : outbox[g][i].req = r /\ outbox[g][i].kind = "assistant"
  BY <1>1, <1>2 DEF WorksOn
<1>7. \A i \in 1..(n + 1) : i = n + 1 \/ i \in 1..n
  BY <1>1
<1>8. m.req = r /\ m.kind = k
  OBVIOUS
<1>9. inbox'[g] = IF k = "assistant" THEN <<r>> ELSE <<>>
  BY <1>2, <1>3
<1> HIDE DEF n, m
<1>10. \A i \in DOMAIN outbox'[g] :
          /\ outbox'[g][i].req = r
          /\ outbox'[g][i].kind # "assistant" => i = Len(outbox'[g]) /\ inbox'[g] = <<>>
  <2> SUFFICES ASSUME NEW i \in 1..(n + 1)
               PROVE  /\ outbox'[g][i].req = r
                      /\ outbox'[g][i].kind # "assistant" => i = n + 1 /\ inbox'[g] = <<>>
    BY <1>5
  <2>1. CASE i \in 1..n
    BY <1>5, <1>6, <2>1
  <2>2. CASE i = n + 1
    BY <1>5, <1>8, <1>9, <2>2
  <2> QED BY <1>7, <2>1, <2>2
<1>11. inbox'[g] \in {<<>>, <<r>>}
  BY <1>9
<1> QED BY <1>10, <1>11 DEF WorksOn

LEMMA PromptSdkStep ==
    ASSUME SessionInv, NEW g \in Gen, SdkStep(g)
    PROVE  PromptInv'
<1> USE DEF SessionInv
<1>1. /\ UNCHANGED <<iter, promptQueue, pendingPrompt, currentRequest, queryGenerator,
                     aborted, phase, pc>>
      /\ ~MicrotaskPending
  BY DEF SdkStep, SdkStreams, SdkAnswers, SdkEnds, queryVars, queueVars, startVars, callVars
<1>2. CASE SdkEnds(g)
  <2>1. inbox' = [inbox EXCEPT ![g] = <<>>] /\ outbox' = outbox
    BY <1>2 DEF SdkEnds
  <2>2. inbox'[g] = <<>> /\ \A h \in Gen \ {g} : inbox'[h] = inbox[h]
    BY <2>1 DEF TypeOK
  <2>3. \A r \in Req : WorksOn(g, r) => WorksOn(g, r)'
    BY <2>1, <2>2 DEF WorksOn
  <2>4. SdkIdle(g) => SdkIdle(g)'
    BY <2>1, <2>2 DEF SdkIdle
  <2> QED BY <1>1, <2>1, <2>2, <2>3, <2>4, PromptSdk
<1>3. CASE SdkStreams(g) \/ SdkAnswers(g)
  <2>1. PICK k \in {"assistant", "result", "failure"} :
          /\ inbox[g] # <<>> /\ Send(g, k)
          /\ \/ k = "assistant" /\ inbox' = inbox
             \/ k # "assistant" /\ inbox' = [inbox EXCEPT ![g] = Tail(@)]
    BY <1>3 DEF SdkStreams, SdkAnswers
  <2>2. /\ inbox'[g] = IF k = "assistant" THEN inbox[g] ELSE Tail(inbox[g])
        /\ \A h \in Gen \ {g} : inbox'[h] = inbox[h] /\ outbox'[h] = outbox[h]
    BY <2>1 DEF Send, TypeOK
  <2>3. \A r \in Req : WorksOn(g, r) => WorksOn(g, r)'
    BY <2>1, <2>2, WorksOnSend
  <2>4. ~SdkIdle(g)
    BY <2>1 DEF SdkIdle
  <2> QED BY <1>1, <2>1, <2>2, <2>3, <2>4, PromptSdk
<1> QED BY <1>2, <1>3 DEF SdkStep

\* A message that settles no request, read from the query that is in place.
LEMMA PromptRead ==
    ASSUME SessionInv, NEW g \in Gen,
           MessageWhenCancelled(g) \/ FailureMessage(g) \/ StreamMessage(g)
    PROVE  PromptInv'
<1> USE DEF SessionInv
<1>1. /\ UNCHANGED <<iter, promptQueue, pendingPrompt, currentRequest, queryGenerator,
                     aborted, phase, pc>>
      /\ outbox[g] # <<>>
  BY DEF MessageWhenCancelled, FailureMessage, StreamMessage, Reads,
         queryVars, queueVars, startVars, callVars
<1>2. ~SdkIdle(g)
  BY <1>1 DEF SdkIdle
<1>3. CASE MessageWhenCancelled(g) \/ FailureMessage(g)
  <2>1. inbox' = [inbox EXCEPT ![g] = <<>>] /\ outbox' = [outbox EXCEPT ![g] = <<>>]
    BY <1>3 DEF MessageWhenCancelled, FailureMessage, Throw
  <2>2. /\ inbox'[g] = <<>> /\ outbox'[g] = <<>>
        /\ \A h \in Gen \ {g} : inbox'[h] = inbox[h] /\ outbox'[h] = outbox[h]
    BY <2>1 DEF TypeOK
  <2>3. \A r \in Req : WorksOn(g, r)'
    BY <2>2 DEF WorksOn
  <2> QED BY <1>1, <1>2, <2>2, <2>3, PromptSdk
<1>4. CASE StreamMessage(g)
  <2>1. inbox' = inbox /\ outbox' = [outbox EXCEPT ![g] = Tail(@)]
    BY <1>4 DEF StreamMessage
  <2>2. /\ outbox'[g] = Tail(outbox[g])
        /\ \A h \in Gen \ {g} : outbox'[h] = outbox[h]
    BY <2>1 DEF TypeOK
  <2>3. \A r \in Req : WorksOn(g, r) => WorksOn(g, r)'
    BY <1>1, <2>1, <2>2, WorksOnRead
  <2> QED BY <1>1, <1>2, <2>1, <2>2, <2>3, PromptSdk
<1> QED BY <1>3, <1>4

\* Nothing is read on behalf of a request while an older iterable still moves,
\* or before the iterable of the query waits for that request.
LEMMA ReadsInTurn ==
    ASSUME SessionInv, NEW g \in Gen, Reads(g, AnyKind)
    PROVE  /\ g = queryGenerator /\ g # 0 /\ abortController = g
           /\ \A h \in Gen : iter[h].st = "waiting" => h = g
           /\ currentRequest # NoReq => \A h \in Gen : iter[h].st # "got"
           /\ currentRequest # NoReq => ~GoesOn(g)
           /\ g \notin aborted => InTurn(g)
           /\ iter[g].st # "new"
<1> USE DEF SessionInv, PromptInv
<1>1. outbox[g] # <<>> /\ ~SdkIdle(g)
  BY DEF Reads, SdkIdle
<1>2. g = queryGenerator /\ g # 0 /\ abortController = g
  BY DEF Reads, QueryInv, Gen
<1>3. \A h \in Gen : h # g => iter[h].st \notin {"got", "waiting"}
  BY <1>1, <1>2 DEF OldComesToRest
<1>4. /\ currentRequest # NoReq => ~GoesOn(g)
      /\ g \notin aborted => InTurn(g)
  BY <1>1, <1>2 DEF NothingLate
<1>5. iter[g].st # "new"
  BY <1>1 DEF NewIsIdle
<1> QED BY <1>2, <1>3, <1>4, <1>5 DEF GoesOn

\* A result or a yield completes the head of the queue.
LEMMA PromptComplete ==
    ASSUME SessionInv, NEW g \in Gen, ResultMessage(g) \/ MessageWhenYielding(g)
    PROVE  PromptInv'
<1> USE DEF SessionInv, PromptInv
<1>1. /\ Reads(g, AnyKind)
      /\ UNCHANGED <<iter, pendingPrompt, queryGenerator, phase, inbox>>
      /\ outbox' = [outbox EXCEPT ![g] = Tail(@)]
      /\ currentRequest' = NoReq /\ CompleteHead
      /\ aborted \subseteq aborted'
  BY DEF ResultMessage, MessageWhenYielding, AbortCurrent, Reads, AnyKind, queryVars, startVars
<1>2. currentRequest # NoReq \/ MessageWhenYielding(g)
  BY DEF ResultMessage
<1>3. currentRequest # NoReq
  <2>1. ASSUME MessageWhenYielding(g) PROVE currentRequest # NoReq
    BY <2>1, NoReqAssumption DEF MessageWhenYielding, TypeOK
  <2> QED BY <1>2, <2>1
<1>4. /\ g = queryGenerator /\ g # 0 /\ abortController = g
      /\ \A h \in Gen : iter[h].st = "waiting" => h = g
      /\ \A h \in Gen : iter[h].st # "got"
      /\ ~GoesOn(g) /\ iter[g].st # "new"
      /\ g \notin aborted => InTurn(g)
  BY <1>1, <1>3, ReadsInTurn
<1>5. \A h \in Gen \ {g} : inbox'[h] = inbox[h] /\ outbox'[h] = outbox[h]
  BY <1>1 DEF TypeOK
<1>6. promptQueue = <<>> => promptQueue' = <<>>
  BY <1>1 DEF CompleteHead
<1>7. ASSUME iter[g].st = "waiting" PROVE MovesOn(g)'
  <2>1. CASE MovesOn(g)
    <3>1. pc[iter[g].req] = "error" /\ iter[g].req \in Req
      BY <1>4, <2>1, IterFacts DEF MovesOn, GoesOn
    <3>2. pc'[iter[g].req] = "error"
      BY <1>1, <3>1, HeadFacts DEF CompleteHead, TypeOK
    <3> QED BY <1>1, <1>7, <3>2 DEF MovesOn
  <2>2. CASE InTurn(g)
    <3>1. promptQueue # <<>> /\ iter[g].req = Head(promptQueue) /\ iter[g].req \in Req
      BY <1>7, <2>2, TurnsDiffer, IterFacts DEF WaitsInTurn, IsHead
    <3>2. pc'[iter[g].req] = "done"
      BY <1>1, <3>1 DEF CompleteHead, TypeOK
    <3> QED BY <1>1, <1>7, <3>2 DEF MovesOn
  <2> QED BY <1>7, <2>1, <2>2 DEF WaitsInTurn
<1>8. NewIsIdle'
  BY <1>1, <1>4, <1>5 DEF NewIsIdle, SdkIdle
<1>9. PendingIsFirst' /\ NoOrphanIterable'
  BY <1>1, <1>6 DEF PendingIsFirst, NoOrphanIterable
<1>10. WaitsInTurn'
  BY <1>1, <1>4, <1>7 DEF WaitsInTurn
<1>11. g \notin aborted' => inbox'[g] = <<>> /\ outbox'[g] = <<>>
  <2> SUFFICES ASSUME g \notin aborted' PROVE inbox'[g] = <<>> /\ outbox'[g] = <<>>
    OBVIOUS
  <2>1. ResultMessage(g)
    BY <1>4 DEF MessageWhenYielding, AbortCurrent
  <2>2. InTurn(g)
    BY <1>1, <1>4
  <2>3. WorksOn(g, iter[g].req)
    BY <2>2, TurnsDiffer DEF WaitsInTurn, InTurn
  <2>4. /\ outbox[g] \in Seq(Messages) /\ outbox[g] # <<>>
        /\ 1 \in DOMAIN outbox[g] /\ outbox[g][1].kind = "result"
    BY <2>1, EmptySeq, LenProperties, HeadTailProperties DEF ResultMessage, Reads, TypeOK
  <2>5. Len(outbox[g]) = 1 /\ inbox[g] = <<>>
    BY <2>3, <2>4 DEF WorksOn
  <2>6. Tail(outbox[g]) = <<>>
    <3>1. \A q \in Seq(Messages) : q # <<>> => Tail(q) \in Seq(Messages) /\ Len(Tail(q)) = Len(q) - 1
      BY HeadTailProperties
    <3>2. Tail(outbox[g]) \in Seq(Messages) /\ Len(Tail(outbox[g])) = 0
      BY <2>4, <2>5, <3>1
    <3> QED BY <3>2, EmptySeq
  <2> QED BY <1>1, <2>5, <2>6 DEF TypeOK
<1>12. NothingLate'
  BY <1>1, <1>4, <1>11 DEF NothingLate, SdkIdle
<1>13. YieldsHead' /\ OldComesToRest'
  BY <1>1, <1>4 DEF YieldsHead, OldComesToRest
<1> QED BY <1>8, <1>9, <1>10, <1>12, <1>13

LEMMA PromptDispose ==
    ASSUME SessionInv, Dispose
    PROVE  PromptInv'
<1> USE DEF SessionInv, PromptInv
<1>1. /\ UNCHANGED <<queryGenerator, phase, inbox, outbox, currentRequest>>
      /\ RejectPendingRequests({}) /\ ~MicrotaskPending
      /\ aborted' = aborted \cup {abortController}
  BY DEF Dispose, AbortCurrent, startVars, sdkVars
<1>2. /\ promptQueue' = <<>> /\ pendingPrompt' = 0
      /\ \A r \in Req : pc'[r] = IF r \in Queued THEN "error" ELSE pc[r]
  BY <1>1 DEF RejectPendingRequests, RejectPendingPrompt, Settle
<1>3. \A g \in Gen :
        \/ iter'[g] = iter[g] /\ g # pendingPrompt
        \/ iter[g].st = "pending" /\ iter'[g].st = "closed"
  BY <1>1, NumberFacts
  DEF RejectPendingRequests, RejectPendingPrompt, PendingIsFirst, TypeOK
<1>4. \A g \in Gen : iter'[g].st = "waiting" => MovesOn(g)' /\ g = queryGenerator
                                             /\ pc'[iter'[g].req] = "error"
  <2> SUFFICES ASSUME NEW g \in Gen, iter[g].st = "waiting", iter'[g] = iter[g]
               PROVE  MovesOn(g)' /\ g = queryGenerator /\ pc'[iter[g].req] = "error"
    BY <1>3
  <2>1. InTurn(g) /\ g = queryGenerator /\ iter[g].req \in Req
    BY <1>1, Quiescent, IterFacts DEF WaitsInTurn
  <2>2. pc'[iter[g].req] = "error"
    BY <1>2, <2>1 DEF InTurn, CallersAreQueued
  <2> QED BY <2>1, <2>2 DEF MovesOn
<1>5. \A g \in Gen : iter'[g].st # "got"
  BY <1>1, <1>3, Quiescent
<1>6. NewIsIdle'
  BY <1>1, <1>3 DEF NewIsIdle, SdkIdle
<1>7. PendingIsFirst' /\ NoOrphanIterable'
  BY <1>1, <1>2, <1>3, NumberFacts DEF PendingIsFirst, NoOrphanIterable
<1>8. WaitsInTurn'
  BY <1>4 DEF WaitsInTurn
<1>9. NothingLate'
  <2> SUFFICES ASSUME NEW g \in Gen, g = queryGenerator PROVE ~GoesOn(g)' /\ g \in aborted'
    BY <1>1, NumberFacts DEF NothingLate, GoesOn
  <2>1. g \in aborted'
    BY <1>1, NumberFacts DEF QueryInv
  <2>2. iter'[g].st # "pending"
    BY <1>3, NumberFacts DEF NoOrphanIterable
  <2> QED BY <1>4, <1>5, <2>1, <2>2 DEF GoesOn
<1>10. YieldsHead' /\ OldComesToRest'
  BY <1>1, <1>4, <1>5 DEF YieldsHead, OldComesToRest
<1> QED BY <1>6, <1>7, <1>8, <1>9, <1>10

LEMMA PromptNext ==
    ASSUME NoRestart, SessionInv, [Next]_vars
    PROVE  PromptInv'
<1>1. ASSUME NEW r \in Req, CallStep(r) \/ UserStep(r) PROVE PromptInv'
  BY <1>1, PromptCalls, PromptPush DEF CallStep
<1>2. ASSUME NEW g \in Gen, StartStep(g) \/ StartFails(g) PROVE PromptInv'
  BY <1>2, PromptStarts, PromptStartFails, PromptQueryReady DEF StartStep
<1>3. ASSUME NEW g \in Gen, IterStep(g) PROVE PromptInv'
  BY <1>3, PromptGetNext, PromptYield, PromptThrows DEF IterStep
<1>4. ASSUME NEW g \in Gen, LoopStep(g) PROVE PromptInv'
  BY <1>4, PromptRead, PromptComplete, PromptLoopEnds DEF LoopStep
<1>5. ASSUME NEW g \in Gen, SdkStep(g) PROVE PromptInv'
  BY <1>5, PromptSdkStep
<1>6. ~IdleTimeout
  BY DEF IdleTimeout, NoRestart
<1>7. CASE UNCHANGED vars
  BY <1>7, PromptQuiet
  DEF vars, queryVars, queueVars, startVars, callVars, sdkVars, Serving
<1> QED BY <1>1, <1>2, <1>3, <1>4, <1>5, <1>6, <1>7, PromptDispose DEF Next

LEMMA PromptInit == Init => PromptInv
<1> SUFFICES ASSUME Init PROVE PromptInv
  OBVIOUS
<1>1. /\ queryGenerator = 0 /\ pendingPrompt = 0
      /\ \A g \in Gen : iter[g].st = "new" /\ inbox[g] = <<>> /\ outbox[g] = <<>>
  BY DEF Init
<1> QED BY <1>1 DEF PromptInv, NewIsIdle, SdkIdle, PendingIsFirst, NoOrphanIterable,
                    WaitsInTurn, NothingLate, YieldsHead, OldComesToRest

\* The whole invariant of a session that is not restarted.
THEOREM SessionSafe == NoRestart => (Spec => []SessionInv)
<1> SUFFICES ASSUME NoRestart PROVE Spec => []SessionInv
  OBVIOUS
<1>1. Init => StartInv /\ QueryInv /\ PromptInv
  BY QueryInit, PromptInit
<1>2. TypeOK /\ StartInv /\ [Next]_vars => StartInv'
  BY StartNext
<1>3. TypeOK /\ StartInv /\ QueryInv /\ [Next]_vars => QueryInv'
  BY QueryNext
<1>4. TypeOK /\ StartInv /\ CallersAreQueued /\ QueryInv /\ PromptInv /\ [Next]_vars => PromptInv'
  BY PromptNext DEF SessionInv
<1>5. SessionInv <=> TypeOK /\ StartInv /\ CallersAreQueued /\ QueryInv /\ PromptInv
  BY DEF SessionInv
<1> QED BY <1>1, <1>2, <1>3, <1>4, <1>5, TypeCorrect, CallersQueued, PTL DEF Spec

\* The iterable that waits for a request is the one the next invoke wakes.
THEOREM NoOrphans == NoRestart => (Spec => []NoOrphanIterable)
<1>1. SessionInv => NoOrphanIterable
  BY DEF SessionInv, PromptInv
<1> QED BY <1>1, SessionSafe, PTL

\* The permission of a tool is asked on the request the SDK works on.
THEOREM ToolsAsk == NoRestart => (Spec => []ToolsAskOnOwnRequest)
<1>1. SessionInv => ToolsAskOnOwnRequest
  <2> SUFFICES ASSUME SessionInv, NEW g \in Gen, SdkPulls(g), inbox[g] # <<>>
               PROVE  currentRequest = Head(inbox[g])
    BY DEF ToolsAskOnOwnRequest
  <2> USE DEF SessionInv, PromptInv
  <2>1. g = queryGenerator /\ g # 0 /\ g \notin aborted
    BY NumberFacts DEF SdkPulls, QueryInv
  <2>2. InTurn(g)
    BY <2>1 DEF NothingLate, SdkIdle
  <2>3. currentRequest = iter[g].req /\ inbox[g] = <<iter[g].req>>
    BY <2>2, TurnsDiffer DEF WaitsInTurn, InTurn, WorksOn
  <2> QED BY <2>3
<1> QED BY <1>1, SessionSafe, PTL

\* Nothing is aborted before somebody yields or the session is disposed.
AbortsAreAsked == aborted = {} \/ yieldRequested # {} \/ disposed

LEMMA AbortsAskedNext == NoRestart /\ AbortsAreAsked /\ [Next]_vars => AbortsAreAsked'
<1> SUFFICES ASSUME NoRestart, AbortsAreAsked, [Next]_vars PROVE AbortsAreAsked'
  OBVIOUS
<1> USE DEF AbortsAreAsked, queryVars, flagVars, userVars
<1>1. ASSUME NEW r \in Req, CallStep(r) \/ UserStep(r) PROVE AbortsAreAsked'
  BY <1>1 DEF NoRestart, CallStep, UserStep, Invoke, SettingsChecked, Push,
              ControlCallFails, CancelRequest, RequestYield
<1>2. ASSUME NEW g \in Gen, StartStep(g) \/ StartFails(g) PROVE AbortsAreAsked'
  BY <1>2 DEF StartStep, BuildOptions, QueryReady, LaunchLoop, StartSettles, StartFails,
              ResetSessionState
<1>3. ASSUME NEW g \in Gen, IterStep(g) \/ SdkStep(g) PROVE AbortsAreAsked'
  BY <1>3 DEF IterStep, GetNextRequest, YieldPrompt, IterableThrows,
              SdkStep, SdkStreams, SdkAnswers, SdkEnds
<1>4. ASSUME NEW g \in Gen, LoopStep(g) PROVE AbortsAreAsked'
  BY <1>4 DEF LoopStep, MessageWhenCancelled, MessageWhenYielding, StreamMessage,
              ResultMessage, FailureMessage, LoopEnds, Cleanup, ResetSessionState
<1>5. CASE IdleTimeout \/ Dispose \/ UNCHANGED vars
  BY <1>5 DEF NoRestart, IdleTimeout, Dispose, vars
<1> QED BY <1>1, <1>2, <1>3, <1>4, <1>5 DEF Next

\* Only a message of the SDK completes a request.
LEMMA DoneByMessage ==
    ASSUME TypeOK, Next, NEW r \in Req, pc[r] = "queued", pc'[r] = "done"
    PROVE  \E g \in Gen : /\ ResultMessage(g) \/ MessageWhenYielding(g)
                          /\ IsHead(r)
<1> USE DEF callVars
<1>1. \A R : ~RejectPendingRequests(R)
  BY DEF RejectPendingRequests, Settle
<1>2. pc' # pc /\ \A R, q : q # "done" => pc' # Settle(R, q)
  BY DEF Settle
<1>3. \A p \in Req : ~(CallStep(p) \/ UserStep(p))
  <2> SUFFICES ASSUME NEW p \in Req, CallStep(p) \/ UserStep(p) PROVE FALSE
    OBVIOUS
  <2>1. pc' = pc \/ \E q \in {"settings", "starting", "ready", "queued", "error"} :
                      pc' = [pc EXCEPT ![p] = q]
    BY DEF CallStep, UserStep, Invoke, SettingsChecked, AwaitStart,
           ControlCallFails, Push, CancelRequest, RequestYield
  <2> QED BY <2>1 DEF TypeOK
<1>4. \A g \in Gen : ~(StartStep(g) \/ StartFails(g))
  BY <1>1, <1>2 DEF StartStep, BuildOptions, QueryReady, LaunchLoop, StartSettles, StartFails
<1>5. \A g \in Gen : ~(IterStep(g) \/ SdkStep(g))
  BY <1>2 DEF IterStep, GetNextRequest, YieldPrompt, IterableThrows,
              SdkStep, SdkStreams, SdkAnswers, SdkEnds
<1>6. ~IdleTimeout /\ ~Dispose
  BY <1>1, <1>2 DEF IdleTimeout, Dispose
<1>7. PICK g \in Gen : LoopStep(g)
  BY <1>3, <1>4, <1>5, <1>6 DEF Next
<1>8. ResultMessage(g) \/ MessageWhenYielding(g)
  BY <1>1, <1>2, <1>7 DEF LoopStep, MessageWhenCancelled, StreamMessage,
                          FailureMessage, LoopEnds, Cleanup
<1>9. CompleteHead
  BY <1>8 DEF ResultMessage, MessageWhenYielding
<1>10. IsHead(r)
  BY <1>2, <1>9 DEF CompleteHead, IsHead, TypeOK
<1> QED BY <1>8, <1>10

LEMMA OwnResultStep ==
    ASSUME SessionInv, AbortsAreAsked, Next, NEW r \in Req, pc[r] = "queued", pc'[r] = "done",
           yieldRequested = {}, ~disposed
    PROVE  \E g \in Gen : /\ outbox[g] # <<>>
                          /\ Head(outbox[g]) = [kind |-> "result", req |-> r]
                          /\ outbox'[g] = Tail(outbox[g])
<1> USE DEF SessionInv, PromptInv
<1>1. PICK g \in Gen : ResultMessage(g) /\ IsHead(r)
  BY DoneByMessage DEF MessageWhenYielding
<1>2. Reads(g, AnyKind) /\ g \notin aborted
  BY <1>1 DEF ResultMessage, Reads, AnyKind, AbortsAreAsked
<1>3. InTurn(g) /\ g = queryGenerator
  BY <1>2, ReadsInTurn
<1>4. iter[g].req = r /\ WorksOn(g, r)
  BY <1>1, <1>3, TurnsDiffer DEF WaitsInTurn, InTurn, IsHead
<1>5. /\ outbox[g] \in Seq(Messages) /\ outbox[g] # <<>>
      /\ 1 \in DOMAIN outbox[g] /\ Head(outbox[g]) = outbox[g][1]
      /\ outbox[g][1] \in Messages /\ outbox[g][1].kind = "result"
  BY <1>1, EmptySeq, LenProperties, HeadTailProperties, ElementOfSeq
  DEF ResultMessage, Reads, TypeOK
<1>6. outbox[g][1].req = r
  BY <1>4, <1>5 DEF WorksOn
<1>7. Head(outbox[g]) = [kind |-> "result", req |-> r]
  BY <1>5, <1>6 DEF Messages
<1>8. outbox'[g] = Tail(outbox[g])
  BY <1>1 DEF ResultMessage, TypeOK
<1> QED BY <1>5, <1>7, <1>8

\* Until somebody yields or the session is disposed, a request is completed by
\* the result of its own prompt.
THEOREM OwnResults == NoRestart => (Spec => CompletedByOwnResult)
<1> SUFFICES ASSUME NoRestart PROVE Spec => CompletedByOwnResult
  OBVIOUS
<1>1. Init => AbortsAreAsked
  BY DEF Init, AbortsAreAsked
<1>2. AbortsAreAsked /\ [Next]_vars => AbortsAreAsked'
  BY AbortsAskedNext
<1>3. SessionInv /\ AbortsAreAsked /\ [Next]_vars =>
        [\A r \in Req :
           pc[r] = "queued" /\ pc'[r] = "done" /\ yieldRequested = {} /\ ~disposed =>
              \E g \in Gen : /\ outbox[g] # <<>>
                             /\ Head(outbox[g]) = [kind |-> "result", req |-> r]
                             /\ outbox'[g] = Tail(outbox[g])]_vars
  BY OwnResultStep
<1> QED BY <1>1, <1>2, <1>3, SessionSafe, PTL DEF Spec, CompletedByOwnResult

-----------------------------------------------------------------------------
(* While queries run until they are yielded: nobody is stranded.           *)

Steady == Events \subseteq {"yield", "startfail", "controlfail"}

\* Nothing has stopped: the one query that was made runs, and its iterable has
\* neither been closed nor been made to throw.
RunsOn ==
    /\ cancelled = {} /\ aborted = {}
    /\ \A g \in Gen :
         /\ sdk[g] # "ended" /\ loop[g] \in {"none", "reading"}
         /\ \A i \in DOMAIN outbox[g] : outbox[g][i].kind # "failure"
         /\ iter[g].st # "closed"
         /\ iter[g].st = "waiting" => pc[iter[g].req] # "error"
         /\ g # queryGenerator => sdk[g] = "none" /\ iter[g].st = "new"
         /\ phase[g] \in {"snapshot", "launched", "started"} => queryGenerator # 0

\* Whoever got past the start has a query, and the current request is the one
\* the iterable of that query waits for.
Served ==
    /\ \A r \in Req : pc[r] \in {"ready", "queued"} => queryGenerator # 0
    /\ currentRequest # NoReq =>
          /\ queryGenerator # 0 /\ InTurn(queryGenerator)
          /\ iter[queryGenerator].req = currentRequest

Undisturbed == yieldRequested = {} => RunsOn /\ Served

LEMMA SteadyNoRestart == Steady => NoRestart
BY DEF Steady, NoRestart

\* A step of a call or of a start: nothing that is queued or settled changes.
LEMMA SteadyQuiet ==
    ASSUME SessionInv, RunsOn, Served,
           UNCHANGED <<cancelled, aborted, currentRequest, queryGenerator, sdk, iter, outbox>>,
           \A g \in Gen : loop'[g] \in {"none", "reading"},
           \A r \in Req : pc[r] \in {"queued", "done", "error"} => pc'[r] = pc[r],
           queryGenerator = 0 => \A r \in Req : pc'[r] \notin {"ready", "queued"},
           queryGenerator = 0 => \A g \in Gen : phase'[g] \notin {"snapshot", "launched", "started"}
    PROVE  RunsOn' /\ Served'
<1>1. \A g \in Gen : iter[g].st = "waiting" => pc'[iter[g].req] = pc[iter[g].req]
  BY IterFacts DEF SessionInv, PromptInv, WaitsInTurn, MovesOn, InTurn
<1>2. RunsOn'
  BY <1>1 DEF RunsOn
<1>3. currentRequest # NoReq => InTurn(queryGenerator)'
  BY <1>1, NumberFacts DEF Served, InTurn, SessionInv
<1> QED BY <1>2, <1>3 DEF Served

LEMMA SteadyCalls ==
    ASSUME Steady, SessionInv, RunsOn, Served, NEW r \in Req,
           UserStep(r) \/ SettingsChecked(r), yieldRequested' = {}
    PROVE  RunsOn' /\ Served'
<1> USE DEF queryVars, queueVars, flagVars, startVars, callVars, sdkVars, userVars
<1>1. /\ UNCHANGED <<cancelled, aborted, currentRequest, queryGenerator, sdk, iter, outbox, loop>>
      /\ (\E s \in Gen : StartSession(s)) \/ phase' = phase
      /\ pc[r] \notin {"queued", "done", "error"}
      /\ \/ \E q \in {"settings", "starting", "error"} : pc' = [pc EXCEPT ![r] = q]
         \/ queryGenerator # 0 /\ pc' = [pc EXCEPT ![r] = "ready"]
  BY DEF Steady, UserStep, Invoke, SettingsChecked, AwaitStart, ControlCallFails,
         CancelRequest, RequestYield
<1>2. /\ \A q \in Req : pc[q] \in {"queued", "done", "error"} => pc'[q] = pc[q]
      /\ queryGenerator = 0 => \A q \in Req : pc'[q] \notin {"ready", "queued"}
  BY <1>1 DEF SessionInv, TypeOK, Served
<1>3. \A g \in Gen : phase'[g] = phase[g] \/ phase'[g] = "mcp"
  BY <1>1, PhaseOfStart DEF SessionInv
<1>4. queryGenerator = 0 => \A g \in Gen : phase'[g] \notin {"snapshot", "launched", "started"}
  BY <1>3 DEF RunsOn
<1>5. \A g \in Gen : loop'[g] \in {"none", "reading"}
  BY <1>1 DEF RunsOn
<1> QED BY <1>1, <1>2, <1>4, <1>5, SteadyQuiet

\* A start that fails leaves nobody behind: nothing is queued yet.
LEMMA SteadyStartFails ==
    ASSUME SessionInv, RunsOn, Served, NEW g \in Gen, StartFails(g)
    PROVE  RunsOn' /\ Served'
<1> USE DEF SessionInv, queryVars, queueVars, sdkVars, userVars
<1>1. /\ UNCHANGED <<cancelled, aborted, currentRequest, queryGenerator, sdk, outbox, loop>>
      /\ phase[g] \in {"mcp", "query"} /\ phase' = [phase EXCEPT ![g] = "failed"]
  BY DEF StartFails
<1>2. queryGenerator = 0
  BY <1>1 DEF QueryInv
<1>3. promptQueue = <<>>
  BY <1>2, HeadFacts DEF Served
<1>4. pendingPrompt = 0
  BY <1>2, NumberFacts DEF RunsOn, PromptInv, PendingIsFirst
<1>5. Queued = {}
  BY <1>3 DEF Queued
<1>6. iter' = iter /\ pc' = Settle(Waiters(g), "error")
  BY <1>4, <1>5 DEF StartFails, RejectPendingRequests, RejectPendingPrompt
<1>7. /\ \A r \in Req : pc[r] \in {"queued", "done", "error"} => pc'[r] = pc[r]
      /\ \A r \in Req : pc'[r] \notin {"ready", "queued"}
  BY <1>2, <1>6 DEF Settle, Waiters, Served
<1>8. \A h \in Gen : /\ phase'[h] \notin {"snapshot", "launched", "started"}
                     /\ loop'[h] \in {"none", "reading"}
  BY <1>1, <1>2 DEF RunsOn, TypeOK
<1> QED BY <1>1, <1>6, <1>7, <1>8, SteadyQuiet

LEMMA SteadyStarts ==
    ASSUME SessionInv, RunsOn, Served, NEW g \in Gen, StartStep(g)
    PROVE  RunsOn' /\ Served'
<1> USE DEF SessionInv, queryVars, queueVars, callVars, sdkVars, userVars
<1>1. CASE BuildOptions(g)
  <2>1. /\ UNCHANGED <<cancelled, currentRequest, queryGenerator, sdk, outbox, loop, iter, pc>>
        /\ phase' = [phase EXCEPT ![g] = "query"]
        /\ aborted' = aborted
    BY <1>1 DEF BuildOptions, RunsOn
  <2>2. queryGenerator = 0 =>
          /\ \A r \in Req : pc'[r] \notin {"ready", "queued"}
          /\ \A h \in Gen : phase'[h] \notin {"snapshot", "launched", "started"}
    BY <2>1 DEF Served, RunsOn, TypeOK
  <2>3. \A h \in Gen : loop'[h] \in {"none", "reading"}
    BY <2>1 DEF RunsOn
  <2> QED BY <2>1, <2>2, <2>3, SteadyQuiet
<1>2. CASE QueryReady(g)
  <2>1. /\ UNCHANGED <<cancelled, aborted, currentRequest, outbox, loop, iter, pc>>
        /\ queryGenerator = 0 /\ queryGenerator' = g /\ g # 0
        /\ sdk' = [sdk EXCEPT ![g] = "running"]
    BY <1>2 DEF QueryReady, QueryInv, Gen
  <2>2. \A h \in Gen : h # g => sdk'[h] = "none" /\ iter'[h].st = "new"
    BY <2>1 DEF RunsOn, TypeOK, Gen
  <2>3. sdk'[g] = "running"
    BY <2>1 DEF TypeOK
  <2>4. RunsOn'
    BY <2>1, <2>2, <2>3 DEF RunsOn
  <2> QED BY <2>1, <2>4 DEF Served
<1>3. CASE LaunchLoop(g)
  <2>1. queryGenerator # 0 /\ queryGenerator \in Gen
    BY <1>3, NumberFacts DEF LaunchLoop, RunsOn
  <2>2. /\ UNCHANGED <<cancelled, aborted, currentRequest, queryGenerator, sdk, outbox, iter, pc>>
        /\ loop' = [loop EXCEPT ![queryGenerator] = "reading"]
    BY <1>3, <2>1 DEF LaunchLoop
  <2>3. \A h \in Gen : loop'[h] \in {"none", "reading"}
    BY <2>1, <2>2 DEF RunsOn, TypeOK
  <2> QED BY <2>1, <2>2, <2>3, SteadyQuiet
<1>4. CASE StartSettles(g)
  <2>1. /\ UNCHANGED <<cancelled, aborted, currentRequest, queryGenerator, sdk, outbox, iter, loop>>
        /\ queryGenerator # 0
        /\ pc' = Settle(Waiters(g), "ready")
    BY <1>4 DEF StartSettles, RunsOn
  <2>2. \A r \in Req : pc[r] \in {"queued", "done", "error"} => pc'[r] = pc[r]
    BY <2>1 DEF Settle, Waiters
  <2>3. \A h \in Gen : loop'[h] \in {"none", "reading"}
    BY <2>1 DEF RunsOn
  <2> QED BY <2>1, <2>2, <2>3, SteadyQuiet
<1> QED BY <1>1, <1>2, <1>3, <1>4 DEF StartStep

LEMMA SteadyPush ==
    ASSUME SessionInv, RunsOn, Served, NEW r \in Req, Push(r)
    PROVE  RunsOn' /\ Served'
<1> USE DEF SessionInv, PromptInv, RunsOn, Served
<1>1. /\ UNCHANGED <<cancelled, aborted, currentRequest, queryGenerator, sdk, outbox, loop, phase>>
      /\ pc[r] = "ready" /\ pc' = [pc EXCEPT ![r] = "queued"]
  BY DEF Push, queryVars, startVars, sdkVars, userVars
<1>2. PICK g \in Gen : g = queryGenerator
  BY <1>1, NumberFacts
<1>3. \A h \in Gen \ {g} : iter'[h] = iter[h]
  BY <1>2, NumberFacts DEF Push, PendingIsFirst, TypeOK
<1>4. \/ iter'[g] = iter[g]
      \/ iter[g].st = "pending" /\ iter'[g].st = "got"
  BY <1>2, NumberFacts DEF Push, PendingIsFirst, TypeOK
<1>5. \A q \in Req : pc[q] \in {"queued", "done", "error"} => pc'[q] = pc[q]
  BY <1>1 DEF TypeOK
<1>6. iter'[g].st = "waiting" => iter'[g] = iter[g] /\ pc'[iter[g].req] = pc[iter[g].req]
  BY <1>4, <1>5, IterFacts DEF WaitsInTurn, MovesOn, InTurn
<1>7. RunsOn'
  BY <1>1, <1>2, <1>3, <1>4, <1>6
<1>8. currentRequest # NoReq => InTurn(g)' /\ iter'[g].req = currentRequest
  BY <1>2, <1>4, <1>5, SameTurn DEF InTurn
<1> QED BY <1>1, <1>2, <1>7, <1>8, NumberFacts DEF InTurn

LEMMA SteadyIterables ==
    ASSUME SessionInv, RunsOn, Served, NEW g \in Gen, IterStep(g)
    PROVE  RunsOn' /\ Served'
<1> USE DEF SessionInv, PromptInv, RunsOn, Served
<1>1. /\ UNCHANGED <<cancelled, aborted, queryGenerator, sdk, outbox, loop, phase, pc>>
      /\ \A h \in Gen \ {g} : iter'[h] = iter[h]
  BY DEF IterStep, GetNextRequest, YieldPrompt, IterableThrows, queryVars, startVars,
         callVars, sdkVars, userVars, TypeOK
<1>2. g = queryGenerator /\ g # 0
  BY NumberFacts DEF IterStep, GetNextRequest, YieldPrompt, IterableThrows, SdkPulls, QueryInv
<1>3. ~IterableThrows(g)
  BY DEF IterableThrows
<1>4. CASE GetNextRequest(g)
  <2>1. iter'[g].st \in {"got", "pending"} /\ currentRequest' = currentRequest
    BY <1>4 DEF GetNextRequest, TypeOK
  <2>2. currentRequest = NoReq
    BY <1>2, <1>4 DEF GetNextRequest, InTurn
  <2> QED BY <1>1, <1>2, <2>1, <2>2
<1>5. CASE YieldPrompt(g)
  <2>1. PICK r \in Req : r = iter[g].req
    BY <1>5, IterFacts DEF YieldPrompt
  <2>2. SdkPulls(g)
    BY <1>2 DEF SdkPulls, QueryInv, TypeOK
  <2>3. iter' = [iter EXCEPT ![g].st = "waiting"] /\ currentRequest' = r /\ iter[g].st = "got"
    BY <1>5, <2>1, <2>2 DEF YieldPrompt
  <2>4. iter'[g].st = "waiting" /\ iter'[g].req = r
    <3>1. iter \in [Gen -> Iterables] /\ iter[g] \in Iterables
      BY DEF TypeOK
    <3>2. iter[g] \in [st : {"got", "waiting"}, req : Req]
      BY <2>3, <3>1 DEF Iterables
    <3> QED BY <2>1, <2>3, <3>1, <3>2
  <2>5. pc[r] = "queued"
    BY <1>2, <2>1, <2>3, HeadFacts DEF YieldsHead, Serving, IsHead
  <2> QED BY <1>1, <1>2, <2>3, <2>4, <2>5 DEF InTurn
<1> QED BY <1>3, <1>4, <1>5 DEF IterStep

LEMMA SteadySdk ==
    ASSUME Steady, SessionInv, RunsOn, Served, NEW g \in Gen, SdkStep(g)
    PROVE  RunsOn' /\ Served'
<1> USE DEF SessionInv
<1>1. SdkStreams(g) \/ SdkAnswers(g)
  BY DEF SdkStep, SdkEnds, Steady, RunsOn
<1>2. PICK k \in {"assistant", "result"} : Send(g, k)
  BY <1>1 DEF SdkStreams, SdkAnswers, Steady
<1>3. /\ UNCHANGED <<cancelled, aborted, currentRequest, queryGenerator, sdk, iter, loop, phase, pc>>
      /\ outbox[g] \in Seq(Messages)
  BY <1>1 DEF SdkStreams, SdkAnswers, queryVars, queueVars, startVars, callVars, userVars, TypeOK
<1> DEFINE m == [kind |-> k, req |-> Head(inbox[g])]
           n == Len(outbox[g])
<1>4. /\ outbox'[g] = Append(outbox[g], m) /\ m.kind # "failure"
      /\ \A h \in Gen \ {g} : outbox'[h] = outbox[h]
  BY <1>2 DEF Send, TypeOK
<1> HIDE DEF m
<1>5. \A i \in DOMAIN outbox'[g] : outbox'[g][i] = m \/ (i \in DOMAIN outbox[g] /\ outbox'[g][i] = outbox[g][i])
  <2>1. n \in Nat /\ DOMAIN outbox[g] = 1..n
    BY <1>3, LenProperties
  <2>2. Append(outbox[g], m) = [i \in 1..(n + 1) |-> IF i = n + 1 THEN m ELSE outbox[g][i]]
    BY <1>3
  <2>3. \A i \in 1..(n + 1) : i = n + 1 \/ i \in 1..n
    BY <2>1
  <2> HIDE DEF n
  <2> QED BY <1>4, <2>1, <2>2, <2>3
<1>6. \A h \in Gen : \A i \in DOMAIN outbox'[h] : outbox'[h][i].kind # "failure"
  BY <1>4, <1>5 DEF RunsOn
<1> QED BY <1>3, <1>6 DEF RunsOn, Served, InTurn

\* Only messages and results of the present query are left to read.
LEMMA ReadsOn ==
    ASSUME SessionInv, RunsOn, yieldRequested = {}, NEW g \in Gen, LoopStep(g)
    PROVE  StreamMessage(g) \/ ResultMessage(g)
<1> USE DEF SessionInv
<1>1. ~LoopEnds(g) /\ ~MessageWhenCancelled(g) /\ ~MessageWhenYielding(g)
  BY DEF RunsOn, LoopEnds, MessageWhenCancelled, MessageWhenYielding
<1>2. ~FailureMessage(g)
  <2> SUFFICES ASSUME Reads(g, {"failure"}) PROVE FALSE
    BY DEF FailureMessage
  <2>1. /\ 1 \in DOMAIN outbox[g] /\ outbox[g][1].kind = "failure"
    BY EmptySeq, LenProperties, HeadTailProperties DEF Reads, TypeOK
  <2> QED BY <2>1 DEF RunsOn
<1> QED BY <1>1, <1>2 DEF LoopStep

LEMMA SteadyReads ==
    ASSUME SessionInv, RunsOn, Served, yieldRequested = {}, NEW g \in Gen, LoopStep(g)
    PROVE  RunsOn' /\ Served'
<1> USE DEF SessionInv
<1>1. StreamMessage(g) \/ ResultMessage(g)
  BY ReadsOn
<1>2. /\ UNCHANGED <<cancelled, aborted, queryGenerator, sdk, iter, loop, phase>>
      /\ outbox' = [outbox EXCEPT ![g] = Tail(@)]
      /\ outbox[g] # <<>> /\ outbox[g] \in Seq(Messages)
  BY <1>1 DEF StreamMessage, ResultMessage, Reads, queryVars, queueVars, startVars, userVars, TypeOK
<1>3. \A h \in Gen : \A i \in DOMAIN outbox'[h] : outbox'[h][i].kind # "failure"
  <2>1. \A i \in DOMAIN Tail(outbox[g]) :
           i + 1 \in DOMAIN outbox[g] /\ Tail(outbox[g])[i] = outbox[g][i + 1]
    BY <1>2, HeadTailProperties, LenProperties
  <2>2. /\ outbox'[g] = Tail(outbox[g])
        /\ \A h \in Gen \ {g} : outbox'[h] = outbox[h]
    BY <1>2 DEF TypeOK
  <2>3. \A h \in Gen : \A i \in DOMAIN outbox[h] : outbox[h][i].kind # "failure"
    BY DEF RunsOn
  <2>4. \A i \in DOMAIN Tail(outbox[g]) : Tail(outbox[g])[i].kind # "failure"
    BY <2>1, <2>3
  <2> QED BY <2>2, <2>3, <2>4
<1>4. CASE StreamMessage(g)
  BY <1>2, <1>3, <1>4 DEF StreamMessage, RunsOn, Served, InTurn, callVars
<1>5. CASE ResultMessage(g)
  <2>1. currentRequest' = NoReq /\ CompleteHead
    BY <1>5 DEF ResultMessage
  <2>2. \A r \in Req : pc'[r] = pc[r] \/ pc'[r] = "done"
    BY <2>1 DEF CompleteHead, TypeOK
  <2>3. \A h \in Gen : iter[h].st = "waiting" => pc'[iter[h].req] # "error"
    BY <2>2, IterFacts DEF RunsOn
  <2> QED BY <1>2, <1>3, <2>1, <2>2, <2>3 DEF RunsOn, Served
<1> QED BY <1>1, <1>4, <1>5

LEMMA YieldsStay == [Next]_vars => yieldRequested \subseteq yieldRequested'
<1> SUFFICES ASSUME [Next]_vars PROVE yieldRequested \subseteq yieldRequested'
  OBVIOUS
<1> USE DEF userVars
<1>1. CASE \E r \in Req : CallStep(r) \/ UserStep(r)
  BY <1>1 DEF CallStep, UserStep, Invoke, SettingsChecked, Push, ControlCallFails,
              CancelRequest, RequestYield
<1>2. CASE \E g \in Gen : StartStep(g) \/ StartFails(g) \/ IterStep(g) \/ SdkStep(g)
  BY <1>2 DEF StartStep, BuildOptions, QueryReady, LaunchLoop, StartSettles, StartFails,
              IterStep, GetNextRequest, YieldPrompt, IterableThrows,
              SdkStep, SdkStreams, SdkAnswers, SdkEnds
<1>3. CASE \E g \in Gen : LoopStep(g)
  BY <1>3 DEF LoopStep, MessageWhenCancelled, MessageWhenYielding, StreamMessage,
              ResultMessage, FailureMessage, LoopEnds
<1>4. CASE IdleTimeout \/ Dispose \/ UNCHANGED vars
  BY <1>4 DEF IdleTimeout, Dispose, vars
<1> QED BY <1>1, <1>2, <1>3, <1>4 DEF Next

LEMMA SteadyNext ==
    ASSUME Steady, SessionInv, Undisturbed, [Next]_vars
    PROVE  Undisturbed'
<1> SUFFICES ASSUME yieldRequested' = {} PROVE RunsOn' /\ Served'
  BY DEF Undisturbed
<1> USE DEF userVars
<1>1. yieldRequested \subseteq yieldRequested'
  BY YieldsStay
<1>2. yieldRequested = {} /\ RunsOn /\ Served
  BY <1>1 DEF Undisturbed
<1>3. ~IdleTimeout /\ ~Dispose
  BY DEF Steady, IdleTimeout, Dispose
<1>4. ASSUME NEW r \in Req, CallStep(r) \/ UserStep(r) PROVE RunsOn' /\ Served'
  BY <1>2, <1>4, SteadyCalls, SteadyPush DEF CallStep
<1>5. ASSUME NEW g \in Gen, StartStep(g) \/ StartFails(g) PROVE RunsOn' /\ Served'
  BY <1>2, <1>5, SteadyStarts, SteadyStartFails
<1>6. ASSUME NEW g \in Gen, IterStep(g) \/ LoopStep(g) \/ SdkStep(g) PROVE RunsOn' /\ Served'
  BY <1>2, <1>6, SteadyIterables, SteadyReads, SteadySdk
<1>7. CASE UNCHANGED vars
  BY <1>2, <1>7 DEF vars, queryVars, queueVars, startVars, callVars, sdkVars,
                    RunsOn, Served, InTurn
<1> QED BY <1>3, <1>4, <1>5, <1>6, <1>7 DEF Next

LEMMA SteadyInit == Init => Undisturbed
BY NumberFacts DEF Init, Undisturbed, RunsOn, Served

LEMMA SteadySafe == Steady => (Spec => [](SessionInv /\ Undisturbed))
<1> SUFFICES ASSUME Steady PROVE Spec => [](SessionInv /\ Undisturbed)
  OBVIOUS
<1>1. Spec => []SessionInv
  BY SessionSafe, SteadyNoRestart
<1>2. SessionInv /\ Undisturbed /\ [Next]_vars => Undisturbed'
  BY SteadyNext
<1> QED BY <1>1, <1>2, SteadyInit, PTL DEF Spec

\* Until somebody yields, the request whose stream is written is the one a
\* result will complete.
THEOREM HeadIsCurrent == Steady => (Spec => []CurrentIsHead)
<1>1. SessionInv /\ Undisturbed => CurrentIsHead
  <2> SUFFICES ASSUME SessionInv, RunsOn, Served, currentRequest # NoReq
               PROVE  IsHead(currentRequest)
    BY DEF Undisturbed, CurrentIsHead, IsHead
  <2>1. PICK g \in Gen : g = queryGenerator
    BY NumberFacts DEF Served, SessionInv
  <2>2. InTurn(g) /\ iter[g].req = currentRequest
    BY <2>1 DEF Served
  <2> QED BY <2>2, TurnsDiffer DEF SessionInv, PromptInv, WaitsInTurn, InTurn
<1> QED BY <1>1, SteadySafe, PTL

\* And a queued request has a session that serves it, whichever starts and
\* control calls fail.
THEOREM NobodyStranded == Steady => (Spec => []NeverStranded)
<1>1. SessionInv /\ Undisturbed => NeverStranded
  BY HeadFacts DEF SessionInv, Undisturbed, Served, NeverStranded
<1> QED BY <1>1, SteadySafe, PTL

\* The SDK has not finished with the request of g, or what it has sent holds
\* the result.
Answers(g) == inbox[g] # <<>> \/ \E i \in DOMAIN outbox[g] : outbox[g][i].kind = "result"

AnswersInTurn == yieldRequested = {} => \A g \in Gen : InTurn(g) => Answers(g)

LEMMA AnswersNext ==
    ASSUME Steady, SessionInv, Undisturbed, AnswersInTurn, Next, yieldRequested = {}
    PROVE  AnswersInTurn'
<1> USE DEF SessionInv
<1> SUFFICES ASSUME NEW g \in Gen, InTurn(g)' PROVE Answers(g)'
  BY DEF AnswersInTurn
<1>0. RunsOn /\ Served /\ \A h \in Gen : InTurn(h) => Answers(h)
  BY DEF Undisturbed, AnswersInTurn
<1>1. ASSUME UNCHANGED <<inbox, outbox>>,
             iter'[g].st = "waiting" => iter'[g] = iter[g],
             \A q \in Req : pc'[q] = "queued" => pc[q] \in {"queued", "ready"}
      PROVE  Answers(g)'
  <2>1. InTurn(g)
    BY <1>1, IterFacts DEF InTurn, PromptInv, WaitsInTurn, MovesOn
  <2> QED BY <1>0, <1>1, <2>1 DEF Answers
<1> USE DEF queryVars, queueVars, startVars, callVars, sdkVars
<1>2. ASSUME NEW r \in Req, CallStep(r) \/ UserStep(r) PROVE Answers(g)'
  <2>1. UNCHANGED <<inbox, outbox>>
    BY <1>2 DEF CallStep, UserStep, Invoke, SettingsChecked, Push, ControlCallFails,
                CancelRequest, RequestYield
  <2>2. iter'[g].st = "waiting" => iter'[g] = iter[g]
    BY <1>2, NumberFacts DEF CallStep, UserStep, Invoke, SettingsChecked, Push, ControlCallFails,
                             CancelRequest, RequestYield, TypeOK
  <2>3. \A q \in Req : pc'[q] = "queued" => pc[q] \in {"queued", "ready"}
    BY <1>2 DEF CallStep, UserStep, Invoke, SettingsChecked, AwaitStart, Push,
                ControlCallFails, CancelRequest, RequestYield, TypeOK
  <2> QED BY <1>1, <2>1, <2>2, <2>3
<1>3. ASSUME NEW h \in Gen, StartStep(h) \/ StartFails(h) PROVE Answers(g)'
  <2>1. /\ UNCHANGED <<inbox, outbox>>
        /\ iter' = iter \/ RejectPendingPrompt
    BY <1>3 DEF StartStep, BuildOptions, QueryReady, LaunchLoop, StartSettles, StartFails,
                RejectPendingRequests
  <2>2. iter'[g].st = "waiting" => iter'[g] = iter[g]
    BY <2>1, NumberFacts DEF RejectPendingPrompt, TypeOK
  <2>3. \A q \in Req : pc'[q] = "queued" => pc[q] = "queued"
    BY <1>3 DEF StartStep, BuildOptions, QueryReady, LaunchLoop, StartSettles, StartFails,
                RejectPendingRequests, Settle
  <2> QED BY <1>1, <2>1, <2>2, <2>3
<1>4. ASSUME NEW h \in Gen, IterStep(h) PROVE Answers(g)'
  <2>1. CASE GetNextRequest(h) \/ IterableThrows(h)
    <3>1. UNCHANGED <<inbox, outbox, pc>> /\ (iter'[g].st = "waiting" => iter'[g] = iter[g])
      BY <2>1 DEF GetNextRequest, IterableThrows, TypeOK
    <3> QED BY <1>1, <3>1
  <2>2. CASE YieldPrompt(h) /\ h # g
    <3>1. /\ iter'[g] = iter[g] /\ inbox'[g] = inbox[g] /\ UNCHANGED <<outbox, pc>>
      BY <2>2 DEF YieldPrompt, TypeOK
    <3> QED BY <1>0, <3>1 DEF InTurn, Answers
  <2>3. CASE YieldPrompt(g)
    <3>1. PICK r \in Req : r = iter[g].req
      BY <2>3, IterFacts DEF YieldPrompt
    <3>2. inbox' = [inbox EXCEPT ![g] = Append(@, r)]
      BY <2>3, <3>1 DEF YieldPrompt, InTurn, TypeOK
    <3>3. inbox'[g] = Append(inbox[g], r) /\ inbox[g] \in Seq(Req)
      BY <3>2 DEF TypeOK
    <3>4. inbox'[g] # <<>>
      BY <3>3, AppendProperties
    <3> QED BY <3>4 DEF Answers
  <2> QED BY <1>4, <2>1, <2>2, <2>3 DEF IterStep
<1>5. ASSUME NEW h \in Gen, SdkStep(h) PROVE Answers(g)'
  <2>1. SdkStreams(h) \/ SdkAnswers(h)
    BY <1>0, <1>5 DEF SdkStep, SdkEnds, Steady, RunsOn
  <2>2. InTurn(g) /\ UNCHANGED <<iter, pc>>
    BY <2>1 DEF SdkStreams, SdkAnswers, InTurn
  <2>3. CASE h # g
    <3>1. inbox'[g] = inbox[g] /\ outbox'[g] = outbox[g]
      BY <2>1, <2>3 DEF SdkStreams, SdkAnswers, Send, TypeOK
    <3> QED BY <1>0, <2>2, <3>1 DEF Answers
  <2>4. CASE SdkStreams(g)
    BY <2>4 DEF SdkStreams, Answers
  <2>5. CASE SdkAnswers(g)
    <3> DEFINE m == [kind |-> "result", req |-> Head(inbox[g])]
               n == Len(outbox[g])
    <3>1. outbox'[g] = Append(outbox[g], m) /\ outbox[g] \in Seq(Messages) /\ n \in Nat
      BY <2>5, LenProperties DEF SdkAnswers, Send, Steady, TypeOK
    <3>2. n + 1 \in DOMAIN outbox'[g] /\ outbox'[g][n + 1] = m
      BY <3>1
    <3>3. m.kind = "result"
      OBVIOUS
    <3> QED BY <3>2, <3>3 DEF Answers
  <2> QED BY <2>1, <2>3, <2>4, <2>5
<1>6. ASSUME NEW h \in Gen, LoopStep(h) PROVE Answers(g)'
  <2>1. StreamMessage(h) \/ ResultMessage(h)
    BY <1>0, <1>6, ReadsOn
  <2>2. /\ UNCHANGED <<iter, inbox>> /\ outbox' = [outbox EXCEPT ![h] = Tail(@)]
        /\ outbox[h] # <<>> /\ outbox[h] \in Seq(Messages)
        /\ pc' = pc \/ CompleteHead
    BY <2>1 DEF StreamMessage, ResultMessage, Reads, TypeOK
  <2>3. \A q \in Req : pc'[q] = "queued" => pc[q] = "queued"
    BY <2>2 DEF CompleteHead, TypeOK
  <2>4. InTurn(g)
    BY <2>2, <2>3, IterFacts DEF InTurn
  <2>5. CASE h # g
    <3>1. outbox'[g] = outbox[g]
      BY <2>2, <2>5 DEF TypeOK
    <3> QED BY <1>0, <2>2, <2>4, <3>1 DEF Answers
  <2>6. CASE h = g
    <3>1. iter[g].req \in Req /\ currentRequest = iter[g].req /\ IsHead(iter[g].req)
      BY <2>4, IterFacts, TurnsDiffer DEF PromptInv, WaitsInTurn, InTurn
    <3>2. ~ResultMessage(g)
      BY <2>2, <3>1 DEF ResultMessage, CompleteHead, IsHead, InTurn, TypeOK
    <3>3. Reads(g, {"assistant"})
      BY <2>1, <2>6, <3>1, <3>2, NoReqAssumption DEF StreamMessage
    <3>4. Head(outbox[g]) = outbox[g][1] /\ outbox[g][1].kind = "assistant"
      BY <2>2, <2>6, <3>3, HeadTailProperties DEF Reads
    <3> DEFINE n == Len(outbox[g])
    <3>5. n \in Nat \ {0} /\ DOMAIN outbox[g] = 1..n
      BY <2>2, <2>6, LenProperties, EmptySeq
    <3>6. /\ DOMAIN Tail(outbox[g]) = 1..(n - 1)
          /\ \A i \in 1..(n - 1) : Tail(outbox[g])[i] = outbox[g][i + 1]
      BY <2>2, <2>6, <3>5, HeadTailProperties, LenProperties
    <3>7. ASSUME NEW i \in 1..n, outbox[g][i].kind = "result"
          PROVE  \E j \in DOMAIN Tail(outbox[g]) : Tail(outbox[g])[j].kind = "result"
      <4>1. i # 1
        BY <3>4, <3>7
      <4>2. i - 1 \in 1..(n - 1) /\ (i - 1) + 1 = i
        BY <3>5, <4>1
      <4>3. Tail(outbox[g])[i - 1] = outbox[g][i]
        BY <3>6, <4>2
      <4> QED BY <3>6, <3>7, <4>2, <4>3
    <3>8. outbox'[g] = Tail(outbox[g]) /\ Answers(g)
      BY <1>0, <2>2, <2>4, <2>6 DEF TypeOK
    <3> QED BY <2>2, <3>5, <3>7, <3>8 DEF Answers
  <2> QED BY <2>5, <2>6
<1>7. ~IdleTimeout /\ ~Dispose
  BY DEF Steady, IdleTimeout, Dispose
<1> QED BY <1>2, <1>3, <1>4, <1>5, <1>6, <1>7 DEF Next

\* Until somebody yields, a queued request has a query that can pull it and a
\* loop that reads the query or is about to; and either the iterable of the
\* query is due to move, or it waits for the head of the queue, which the SDK
\* has not finished with or whose result is there to be read.
HeadIsServed ==
    promptQueue # <<>> /\ yieldRequested = {} =>
        \E g \in Gen :
            /\ SdkPulls(g)
            /\ loop[g] = "reading" \/ phase[g] = "snapshot"
            /\ \/ iter[g].st \in {"new", "got"}
               \/ iter[g].st = "waiting" /\ pc[iter[g].req] = "done"
               \/ InTurn(g) /\ IsHead(iter[g].req) /\ Answers(g)

\* So whatever starts and control calls fail, no request waits for something
\* that nobody will do.
THEOREM HeadServed == Steady => (Spec => []HeadIsServed)
<1> SUFFICES ASSUME Steady PROVE Spec => []HeadIsServed
  OBVIOUS
<1>1. Init => AnswersInTurn
  BY DEF Init, AnswersInTurn, InTurn
<1>2. SessionInv /\ Undisturbed /\ AnswersInTurn /\ [Next]_vars => AnswersInTurn'
  <2>1. CASE UNCHANGED vars
    BY <2>1 DEF vars, queueVars, callVars, sdkVars, userVars, AnswersInTurn, InTurn, Answers
  <2>2. ASSUME SessionInv, Undisturbed, AnswersInTurn, Next PROVE AnswersInTurn'
    <3>1. CASE yieldRequested = {}
      BY <2>2, <3>1, AnswersNext
    <3>2. CASE yieldRequested # {}
      <4>1. yieldRequested' # {}
        BY <2>2, <3>2, YieldsStay
      <4> QED BY <4>1 DEF AnswersInTurn
    <3> QED BY <3>1, <3>2
  <2> QED BY <2>1, <2>2
<1>3. SessionInv /\ Undisturbed /\ AnswersInTurn /\ GeneratorIsRead => HeadIsServed
  <2> SUFFICES ASSUME SessionInv, RunsOn, Served, \A g \in Gen : InTurn(g) => Answers(g),
                      GeneratorIsRead, promptQueue # <<>>
               PROVE  HeadIsServed
    BY DEF Undisturbed, AnswersInTurn, HeadIsServed
  <2> USE DEF SessionInv, PromptInv
  <2>1. queryGenerator # 0
    BY HeadFacts DEF Served
  <2>2. PICK g \in Gen : g = queryGenerator
    BY <2>1, NumberFacts
  <2>3. SdkPulls(g)
    BY <2>1, <2>2 DEF RunsOn, QueryInv, SdkPulls, TypeOK
  <2>4. loop[g] = "reading" \/ phase[g] = "snapshot"
    BY <2>1, <2>2 DEF RunsOn, GeneratorIsRead
  <2>5. iter[g].st \notin {"pending", "closed"}
    BY <2>1, <2>2 DEF RunsOn, NoOrphanIterable, PendingIsFirst
  <2>6. \/ iter[g].st \in {"new", "got"}
        \/ iter[g].st = "waiting" /\ pc[iter[g].req] = "done"
        \/ InTurn(g) /\ IsHead(iter[g].req) /\ Answers(g)
    BY <2>5, IterFacts DEF RunsOn, WaitsInTurn, MovesOn
  <2> QED BY <2>3, <2>4, <2>6 DEF HeadIsServed
<1> QED BY <1>1, <1>2, <1>3, SteadySafe, GeneratorsAreRead, PTL DEF Spec
=============================================================================
