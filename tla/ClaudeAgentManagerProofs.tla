---------------------- MODULE ClaudeAgentManagerProofs ----------------------
(* The sessions of the manager, for every set of calls and session ids.    *)
EXTENDS ClaudeAgentManager, TLAPS

\* Whoever works does so with the session object the map holds for its id.
WorksWithMapped == ~disposed => \A r \in Working : uses[r] = sessions[id[r]] /\ uses[r] # None

ManagerInv == TypeOK /\ WorksWithMapped

LEMMA InitInv == Init => ManagerInv
  BY DEF Init, ManagerInv, TypeOK, WorksWithMapped, Working

LEMMA NextInv == ManagerInv /\ [Next]_vars => ManagerInv'
<1> SUFFICES ASSUME ManagerInv, [Next]_vars PROVE ManagerInv'
  OBVIOUS
<1> USE DEF ManagerInv, TypeOK, WorksWithMapped, Working
<1>1. CASE UNCHANGED vars
  BY <1>1 DEF vars
<1>2. ASSUME NEW r \in Req, HandleRequest(r) PROVE ManagerInv'
  BY <1>2 DEF HandleRequest
<1>3. ASSUME NEW r \in Req, UseSession(r) PROVE ManagerInv'
  <2>1. r # None
    BY NoneAssumption
  <2>2. TypeOK'
    BY <1>3 DEF UseSession
  <2>3. CASE sessions[id[r]] # None
    BY <1>3, <2>2, <2>3 DEF UseSession
  <2>4. CASE sessions[id[r]] = None
    <3>1. ASSUME ~disposed, NEW q \in Working PROVE id[q] # id[r]
      BY <2>4, <3>1
    <3>2. QED
      BY <1>3, <2>1, <2>2, <2>4, <3>1 DEF UseSession
  <2>5. QED
    BY <2>3, <2>4
<1>4. ASSUME NEW r \in Req, CallInvoke(r) PROVE ManagerInv'
  BY <1>4 DEF CallInvoke
<1>5. ASSUME NEW r \in Req, Return(r) PROVE ManagerInv'
  BY <1>5 DEF Return
<1>6. ASSUME NEW ok \in BOOLEAN, StartSettled(ok) PROVE ManagerInv'
  BY <1>6 DEF StartSettled
<1>7. CASE ListenFails
  BY <1>7 DEF ListenFails
<1>8. CASE Dispose
  BY <1>8 DEF Dispose
<1>9. QED
  BY <1>1, <1>2, <1>3, <1>4, <1>5, <1>6, <1>7, <1>8 DEF Next, Step

LEMMA Invariance == Spec => []ManagerInv
  BY InitInv, NextInv, PTL DEF Spec

\* The state of the manager keeps its types.
THEOREM TypeCorrect == Spec => []TypeOK
<1>1. ManagerInv => TypeOK
  BY DEF ManagerInv
<1>2. QED
  BY <1>1, Invariance, PTL

\* The calls that work on one session id share one session object, for any
\* number of calls and ids and however they meet the start of the server.
THEOREM SessionShared == Spec => []SharedSession
<1>1. ManagerInv => SharedSession
  BY DEF ManagerInv, WorksWithMapped, SharedSession
<1>2. QED
  BY <1>1, Invariance, PTL
=============================================================================
