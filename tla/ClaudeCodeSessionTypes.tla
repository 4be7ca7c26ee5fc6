----------------------- MODULE ClaudeCodeSessionTypes ------------------------
(* The state of ClaudeCodeSession keeps its types, for every set of        *)
(* requests, every bound and every environment.                            *)
EXTENDS ClaudeCodeSessionProps, SequenceTheorems, TLAPS

(* What the pieces that actions share do to the types of the variables     *)
(* they name.                                                              *)

LEMMA GenType == 0 \in GenOrNone /\ Gen \subseteq GenOrNone
  BY BoundsAssumption DEF Gen, GenOrNone

LEMMA SettleType ==
    ASSUME TypeOK, NEW R, NEW q \in PCs
    PROVE  Settle(R, q) \in [Req -> PCs]
  BY DEF TypeOK, Settle

LEMMA StartSessionType ==
    ASSUME TypeOK, NEW s \in Gen, StartSession(s)
    PROVE  sessionStarting' \in GenOrNone /\ phase' \in [Gen -> Phases]
  BY GenType DEF TypeOK, StartSession, Phases

LEMMA CompleteHeadType ==
    ASSUME TypeOK, CompleteHead
    PROVE  promptQueue' \in Seq(Req) /\ pc' \in [Req -> PCs]
<1>1. CASE promptQueue = <<>>
  BY <1>1 DEF TypeOK, CompleteHead
<1>2. CASE promptQueue # <<>>
  <2>1. Head(promptQueue) \in Req /\ Tail(promptQueue) \in Seq(Req)
    BY <1>2, HeadTailProperties DEF TypeOK
  <2>2. QED
    BY <1>2, <2>1 DEF TypeOK, CompleteHead, PCs
<1>3. QED
  BY <1>1, <1>2

LEMMA RejectPendingPromptType ==
    ASSUME TypeOK, RejectPendingPrompt
    PROVE  pendingPrompt' \in GenOrNone /\ iter' \in [Gen -> Iterables]
  BY BoundsAssumption DEF TypeOK, RejectPendingPrompt, Gen, GenOrNone, Iterables

LEMMA RejectPendingRequestsType ==
    ASSUME TypeOK, NEW R, RejectPendingRequests(R)
    PROVE  /\ promptQueue' \in Seq(Req)
           /\ pc' \in [Req -> PCs]
           /\ pendingPrompt' \in GenOrNone
           /\ iter' \in [Gen -> Iterables]
<1>1. promptQueue' \in Seq(Req)
  BY EmptySeq DEF RejectPendingRequests
<1>2. pc' \in [Req -> PCs]
  BY SettleType DEF RejectPendingRequests, PCs
<1>3. QED
  BY <1>1, <1>2, RejectPendingPromptType DEF RejectPendingRequests

LEMMA ResetType ==
    ASSUME TypeOK, ResetSessionState \/ RestartSession
    PROVE  /\ queryGenerator' \in GenOrNone
           /\ abortController' \in GenOrNone
           /\ aborted' \in SUBSET GenOrNone
  BY GenType DEF TypeOK, ResetSessionState, RestartSession

LEMMA CleanupType ==
    ASSUME TypeOK, Cleanup
    PROVE  /\ promptQueue' \in Seq(Req)
           /\ pc' \in [Req -> PCs]
           /\ pendingPrompt' \in GenOrNone
           /\ iter' \in [Gen -> Iterables]
           /\ sessionStarting' \in GenOrNone
           /\ phase' \in [Gen -> Phases]
           /\ retry' \in SUBSET Gen
<1>1. CASE ~yieldInProgress
  BY <1>1, RejectPendingRequestsType DEF Cleanup, TypeOK, startVars
<1>2. CASE yieldInProgress
  <2>1. CASE promptQueue = <<>>
    BY <1>2, <2>1 DEF Cleanup, TypeOK, startVars, queueVars
  <2>2. CASE promptQueue # <<>>
    <3>1. PICK s \in Gen : StartSession(s) /\ retry' = retry \cup {s}
      BY <1>2, <2>2 DEF Cleanup
    <3>2. QED
      BY <1>2, <3>1, StartSessionType DEF Cleanup, TypeOK, queueVars
  <2>3. QED
    BY <2>1, <2>2
<1>3. QED
  BY <1>1, <1>2

LEMMA TypeInit == Init => TypeOK
<1> SUFFICES ASSUME Init PROVE TypeOK
  OBVIOUS
<1> USE BoundsAssumption DEF Init, GenOrNone, Gen
<1>1. promptQueue \in Seq(Req)
  BY EmptySeq
<1>2. /\ pc \in [Req -> PCs]
      /\ awaits \in [Req -> GenOrNone]
  BY DEF PCs
<1>3. /\ phase \in [Gen -> Phases]
      /\ resume \in [Gen -> BOOLEAN]
  BY DEF Phases
<1>4. iter \in [Gen -> Iterables]
  BY DEF Iterables
<1>5. /\ loop \in [Gen -> {"none", "reading", "closing", "ended"}]
      /\ sdk \in [Gen -> {"none", "running", "ended"}]
  OBVIOUS
<1>6. /\ inbox \in [Gen -> Seq(Req)]
      /\ outbox \in [Gen -> Seq(Messages)]
  BY EmptySeq
<1>7. 0 \in GenOrNone
  OBVIOUS
<1> HIDE DEF GenOrNone, Gen
<1>8. QED
  BY <1>1, <1>2, <1>3, <1>4, <1>5, <1>6, <1>7 DEF TypeOK

LEMMA TypeCalls ==
    ASSUME TypeOK, NEW r \in Req, CallStep(r) \/ UserStep(r)
    PROVE  TypeOK'
<1> USE DEF queryVars, queueVars, flagVars, startVars, callVars, sdkVars, userVars
<1>1. ASSUME NEW s \in Gen, AwaitStart(r, s)
      PROVE  /\ sessionStarting' \in GenOrNone /\ phase' \in [Gen -> Phases]
             /\ pc' \in [Req -> PCs] /\ awaits' \in [Req -> GenOrNone]
  <2>1. StartSession(s) /\ s \in GenOrNone
    BY <1>1, BoundsAssumption DEF AwaitStart, Gen, GenOrNone
  <2>2. pc' \in [Req -> PCs] /\ awaits' \in [Req -> GenOrNone]
    BY <1>1, <2>1 DEF AwaitStart, TypeOK, PCs
  <2>3. QED
    BY <2>1, <2>2, StartSessionType
<1>2. CASE Invoke(r)
  <2>1. /\ sessionStarting' \in GenOrNone /\ phase' \in [Gen -> Phases]
        /\ pc' \in [Req -> PCs] /\ awaits' \in [Req -> GenOrNone]
    <3>1. CASE \E s \in Gen : AwaitStart(r, s)
      BY <1>1, <3>1
    <3>2. CASE ~ \E s \in Gen : AwaitStart(r, s)
      BY <1>2, <3>2 DEF Invoke, TypeOK, PCs
    <3>3. QED
      BY <3>1, <3>2
  <2>2. idleTimer' \in BOOLEAN
    BY <1>2 DEF Invoke, TypeOK
  <2>3. QED
    BY <1>2, <2>1, <2>2 DEF Invoke, TypeOK
<1>3. CASE SettingsChecked(r)
  <2>1. /\ sessionStarting' \in GenOrNone /\ phase' \in [Gen -> Phases]
        /\ pc' \in [Req -> PCs] /\ awaits' \in [Req -> GenOrNone]
    <3>1. CASE \E s \in Gen : AwaitStart(r, s)
      BY <1>1, <3>1
    <3>2. CASE ~ \E s \in Gen : AwaitStart(r, s)
      BY <1>3, <3>2 DEF SettingsChecked, TypeOK, PCs
    <3>3. QED
      BY <3>1, <3>2
  <2>2. /\ queryGenerator' \in GenOrNone /\ abortController' \in GenOrNone
        /\ aborted' \in SUBSET GenOrNone
    BY <1>3, ResetType DEF SettingsChecked, TypeOK
  <2>3. isResumed' \in BOOLEAN
    BY <1>3 DEF SettingsChecked, RestartSession, TypeOK
  <2>4. QED
    BY <1>3, <2>1, <2>2, <2>3 DEF SettingsChecked, TypeOK
<1>4. CASE ControlCallFails(r)
  BY <1>4 DEF ControlCallFails, TypeOK, PCs
<1>5. CASE Push(r)
  <2>1. promptQueue' \in Seq(Req)
    BY <1>5, AppendProperties DEF Push, TypeOK
  <2>2. /\ pc' \in [Req -> PCs]
        /\ awaits' \in [Req -> GenOrNone]
        /\ pendingPrompt' \in GenOrNone
    BY <1>5, BoundsAssumption DEF Push, TypeOK, PCs, GenOrNone
  <2>3. iter' \in [Gen -> Iterables]
    BY <1>5, BoundsAssumption DEF Push, TypeOK, Gen, GenOrNone, Iterables
  <2>4. QED
    BY <1>5, <2>1, <2>2, <2>3 DEF Push, TypeOK
<1>6. CASE CancelRequest(r) \/ RequestYield(r)
  BY <1>6 DEF CancelRequest, RequestYield, TypeOK
<1>7. QED
  BY <1>2, <1>3, <1>4, <1>5, <1>6 DEF CallStep, UserStep

LEMMA TypeStarts ==
    ASSUME TypeOK, NEW g \in Gen, StartStep(g) \/ StartFails(g)
    PROVE  TypeOK'
<1> USE DEF queryVars, queueVars, flagVars, startVars, callVars, sdkVars, userVars
<1>1. g \in GenOrNone /\ 0 \in GenOrNone
  BY BoundsAssumption DEF Gen, GenOrNone
<1>2. CASE BuildOptions(g)
  <2>1. phase' \in [Gen -> Phases] /\ resume' \in [Gen -> BOOLEAN]
    BY <1>2 DEF BuildOptions, TypeOK, Phases
  <2>2. abortController' \in GenOrNone /\ aborted' \in SUBSET GenOrNone
    BY <1>1, <1>2 DEF BuildOptions, TypeOK
  <2>3. QED
    BY <1>2, <2>1, <2>2 DEF BuildOptions, TypeOK
<1>3. CASE QueryReady(g)
  BY <1>1, <1>3 DEF QueryReady, TypeOK, Phases
<1>4. CASE LaunchLoop(g)
  <2>1. phase' \in [Gen -> Phases]
    BY <1>4 DEF LaunchLoop, TypeOK, Phases
  <2>2. CASE queryGenerator # 0
    <3>1. loop' \in [Gen -> {"none", "reading", "closing", "ended"}]
      BY <1>4, <2>2 DEF LaunchLoop, TypeOK, ResetSessionState
    <3>2. QED
      BY <1>4, <2>1, <2>2, <3>1 DEF LaunchLoop, TypeOK
  <2>3. CASE queryGenerator = 0
    <3>1. ResetSessionState /\ currentRequest' = NoReq
      BY <1>4, <2>3 DEF LaunchLoop, ResetSessionState
    <3>2. /\ promptQueue' \in Seq(Req) /\ pc' \in [Req -> PCs]
          /\ pendingPrompt' \in GenOrNone /\ iter' \in [Gen -> Iterables]
          /\ retry' \in SUBSET Gen
      <4>1. CASE yieldInProgress
        BY <1>4, <2>3, <4>1 DEF LaunchLoop, TypeOK
      <4>2. CASE ~yieldInProgress
        BY <1>4, <2>3, <4>2, RejectPendingRequestsType DEF LaunchLoop, TypeOK
      <4>3. QED
        BY <4>1, <4>2
    <3>3. QED
      BY <1>4, <2>1, <2>3, <3>1, <3>2, ResetType DEF LaunchLoop, TypeOK
  <2>4. QED
    BY <2>2, <2>3
<1>5. CASE StartSettles(g)
  <2>1. /\ phase' \in [Gen -> Phases] /\ awaits' \in [Req -> GenOrNone]
        /\ sessionStarting' \in GenOrNone
    BY <1>1, <1>5 DEF StartSettles, TypeOK, Phases
  <2>2. pc' \in [Req -> PCs]
    BY <1>5, SettleType DEF StartSettles, PCs
  <2>3. QED
    BY <1>5, <2>1, <2>2 DEF StartSettles, TypeOK
<1>6. CASE StartFails(g)
  <2>1. phase' \in [Gen -> Phases] /\ sessionStarting' \in GenOrNone
    BY <1>1, <1>6 DEF StartFails, TypeOK, Phases
  <2>2. /\ promptQueue' \in Seq(Req) /\ pc' \in [Req -> PCs]
        /\ pendingPrompt' \in GenOrNone /\ iter' \in [Gen -> Iterables]
    <3>1. CASE g \in retry
      BY <1>6, <3>1, RejectPendingRequestsType DEF StartFails
    <3>2. CASE g \notin retry
      <4>1. pc' \in [Req -> PCs]
        BY <1>6, <3>2, SettleType DEF StartFails, PCs
      <4>2. QED
        BY <1>6, <3>2, <4>1 DEF StartFails, TypeOK
    <3>3. QED
      BY <3>1, <3>2
  <2>3. QED
    BY <1>6, <2>1, <2>2 DEF StartFails, TypeOK
<1>7. QED
  BY <1>2, <1>3, <1>4, <1>5, <1>6 DEF StartStep

LEMMA TypeIterables ==
    ASSUME TypeOK, NEW g \in Gen, IterStep(g)
    PROVE  TypeOK'
<1> USE DEF queryVars, queueVars, flagVars, startVars, callVars, sdkVars, userVars
<1>1. g \in GenOrNone
  BY BoundsAssumption DEF Gen, GenOrNone
<1>2. CASE GetNextRequest(g)
  <2>1. CASE promptQueue # <<>>
    <3>1. [st |-> "got", req |-> Head(promptQueue)] \in Iterables
      BY <2>1, HeadTailProperties DEF TypeOK, Iterables
    <3>2. QED
      BY <1>2, <2>1, <3>1 DEF GetNextRequest, TypeOK
  <2>2. CASE promptQueue = <<>>
    <3>1. [st |-> "pending", req |-> NoReq] \in Iterables
      BY DEF Iterables
    <3>2. QED
      BY <1>1, <1>2, <2>2, <3>1 DEF GetNextRequest, TypeOK
  <2>3. QED
    BY <2>1, <2>2
<1>3. CASE YieldPrompt(g)
  <2>1. iter[g].req \in Req
    BY <1>3 DEF YieldPrompt, TypeOK, Iterables
  <2>2. [iter[g] EXCEPT !.st = "waiting"] \in Iterables
    BY <1>3 DEF YieldPrompt, TypeOK, Iterables
  <2>3. iter' \in [Gen -> Iterables]
    <3>1. [st |-> "closed", req |-> NoReq] \in Iterables
      BY DEF Iterables
    <3>2. QED
      BY <1>3, <2>2, <3>1 DEF YieldPrompt, TypeOK
  <2>4. inbox' \in [Gen -> Seq(Req)]
    <3>1. Append(inbox[g], iter[g].req) \in Seq(Req)
      BY <2>1, AppendProperties DEF TypeOK
    <3>2. QED
      BY <1>3, <3>1 DEF YieldPrompt, TypeOK
  <2>5. QED
    BY <1>3, <2>1, <2>3, <2>4 DEF YieldPrompt, TypeOK
<1>4. CASE IterableThrows(g)
  BY <1>4 DEF IterableThrows, TypeOK, Iterables
<1>5. QED
  BY <1>2, <1>3, <1>4 DEF IterStep

LEMMA TypeLoops ==
    ASSUME TypeOK, NEW g \in Gen, LoopStep(g)
    PROVE  TypeOK'
<1> USE DEF queryVars, queueVars, flagVars, startVars, callVars, sdkVars, userVars
<1>1. ASSUME Throw(g)
      PROVE  /\ loop' \in [Gen -> {"none", "reading", "closing", "ended"}]
             /\ sdk' \in [Gen -> {"none", "running", "ended"}]
             /\ inbox' \in [Gen -> Seq(Req)]
             /\ outbox' \in [Gen -> Seq(Messages)]
  BY <1>1, EmptySeq DEF Throw, TypeOK
<1>2. ASSUME outbox[g] # <<>>, outbox' = [outbox EXCEPT ![g] = Tail(@)]
      PROVE  outbox' \in [Gen -> Seq(Messages)]
  <2>1. Tail(outbox[g]) \in Seq(Messages)
    BY <1>2, HeadTailProperties DEF TypeOK
  <2>2. QED
    BY <1>2, <2>1 DEF TypeOK
<1>3. CASE MessageWhenCancelled(g)
  BY <1>1, <1>3 DEF MessageWhenCancelled, TypeOK
<1>4. CASE MessageWhenYielding(g)
  <2>1. outbox' \in [Gen -> Seq(Messages)]
    BY <1>2, <1>4 DEF MessageWhenYielding, Reads
  <2>2. abortController' \in GenOrNone /\ aborted' \in SUBSET GenOrNone
    BY <1>4 DEF MessageWhenYielding, AbortCurrent, TypeOK
  <2>3. QED
    BY <1>4, <2>1, <2>2, CompleteHeadType DEF MessageWhenYielding, MarkResumed, TypeOK
<1>5. CASE StreamMessage(g)
  BY <1>2, <1>5 DEF StreamMessage, Reads, MarkResumed, TypeOK
<1>6. CASE ResultMessage(g)
  <2>1. outbox' \in [Gen -> Seq(Messages)]
    BY <1>2, <1>6 DEF ResultMessage, Reads
  <2>2. QED
    BY <1>6, <2>1, CompleteHeadType DEF ResultMessage, MarkResumed, TypeOK
<1>7. CASE FailureMessage(g)
  BY <1>1, <1>7 DEF FailureMessage, MarkResumed, TypeOK
<1>8. CASE LoopEnds(g)
  <2>1. loop' \in [Gen -> {"none", "reading", "closing", "ended"}]
    BY <1>8 DEF LoopEnds, TypeOK
  <2>2. ResetSessionState /\ currentRequest' = NoReq /\ yieldInProgress' = FALSE
    BY <1>8 DEF LoopEnds, Cleanup, ResetSessionState
  <2>3. QED
    BY <1>8, <2>1, <2>2, CleanupType, ResetType DEF LoopEnds, TypeOK
<1>9. QED
  BY <1>3, <1>4, <1>5, <1>6, <1>7, <1>8 DEF LoopStep

LEMMA TypeSdk ==
    ASSUME TypeOK, NEW g \in Gen, SdkStep(g)
    PROVE  TypeOK'
<1> USE DEF queryVars, queueVars, flagVars, startVars, callVars, sdkVars, userVars
<1>1. ASSUME inbox[g] # <<>>, NEW k \in {"assistant", "result", "failure"}, Send(g, k)
      PROVE  outbox' \in [Gen -> Seq(Messages)]
  <2>1. [kind |-> k, req |-> Head(inbox[g])] \in Messages
    BY <1>1, HeadTailProperties DEF TypeOK, Messages
  <2>2. Append(outbox[g], [kind |-> k, req |-> Head(inbox[g])]) \in Seq(Messages)
    BY <2>1, AppendProperties DEF TypeOK
  <2>3. QED
    BY <1>1, <2>2 DEF Send, TypeOK
<1>2. CASE SdkStreams(g)
  BY <1>1, <1>2 DEF SdkStreams, TypeOK
<1>3. CASE SdkAnswers(g)
  <2>1. outbox' \in [Gen -> Seq(Messages)]
    BY <1>1, <1>3 DEF SdkAnswers
  <2>2. inbox' \in [Gen -> Seq(Req)]
    BY <1>3, HeadTailProperties DEF SdkAnswers, TypeOK
  <2>3. QED
    BY <1>3, <2>1, <2>2 DEF SdkAnswers, TypeOK
<1>4. CASE SdkEnds(g)
  BY <1>4, EmptySeq DEF SdkEnds, TypeOK
<1>5. QED
  BY <1>2, <1>3, <1>4 DEF SdkStep

LEMMA TypeTimerAndDisposal ==
    ASSUME TypeOK, IdleTimeout \/ Dispose
    PROVE  TypeOK'
<1> USE DEF queryVars, queueVars, flagVars, startVars, callVars, sdkVars, userVars
<1>1. CASE IdleTimeout
  <2>1. RestartSession /\ isResumed' = TRUE
    BY <1>1 DEF IdleTimeout, RestartSession
  <2>2. QED
    BY <1>1, <2>1, ResetType DEF IdleTimeout, TypeOK
<1>2. CASE Dispose
  <2>1. abortController' \in GenOrNone /\ aborted' \in SUBSET GenOrNone
    BY <1>2 DEF Dispose, AbortCurrent, TypeOK
  <2>2. QED
    BY <1>2, <2>1, RejectPendingRequestsType DEF Dispose, TypeOK
<1>3. QED
  BY <1>1, <1>2

LEMMA TypeNext == TypeOK /\ [Next]_vars => TypeOK'
<1> SUFFICES ASSUME TypeOK, [Next]_vars PROVE TypeOK'
  OBVIOUS
<1>1. CASE UNCHANGED vars
  BY <1>1 DEF TypeOK, vars, queryVars, queueVars, flagVars, startVars, callVars,
              sdkVars, userVars
<1>2. CASE Next
  BY <1>2, TypeCalls, TypeStarts, TypeIterables, TypeLoops, TypeSdk,
     TypeTimerAndDisposal DEF Next
<1>3. QED
  BY <1>1, <1>2

\* The fields of the session, the stages of its calls and generations and the
\* buffers of the SDK keep their types; in particular an iterable that yields
\* or awaits always has a request to do it with.
THEOREM TypeCorrect == Spec => []TypeOK
  BY TypeInit, TypeNext, PTL DEF Spec
=============================================================================
