------------------------ MODULE SyncHttpClient_proofs ------------------------
(***************************************************************************)
(* Proofs about CSyncHttpClient: what its caller has in hand when the      *)
(* callback wakes it, and that the destructor destroys nothing in use.     *)
(***************************************************************************)
EXTENDS SyncHttpClient, TLAPS

\* A handler runs on the client's thread, inside run().
HandlersRunInside == thread # "running" => handler = "none"

\* The thread is created by the request and by nothing else.
ThreadComesWithRequest == caller = "idle" => thread = "off"

\* A handler that has passed the assignment in cb has stored the answer.
StoredBeforeNotified ==
    handler \in {"set", "notified"} => response = "answer"

SyncInv ==
    /\ TypeOK
    /\ HandlersRunInside
    /\ ThreadComesWithRequest
    /\ StoredBeforeNotified
    /\ ReturnsTheAnswer
    /\ DestroyedAtRest

-----------------------------------------------------------------------------
\* The invariant holds before make_request.
LEMMA InitSyncInv == Init => SyncInv
BY DEF Init, SyncInv, TypeOK, HandlersRunInside, ThreadComesWithRequest,
       StoredBeforeNotified, ReturnsTheAnswer, DestroyedAtRest

\* Each step of the caller keeps it: what it reads of the client's thread is
\* the answer it was woken for and that the thread has ended.
LEMMA CallerKeeps == SyncInv /\ (Caller \/ WakesSpuriously) => SyncInv'
<1> SUFFICES ASSUME SyncInv, Caller \/ WakesSpuriously PROVE SyncInv'
  OBVIOUS
<1> USE DEF SyncInv, HandlersRunInside, ThreadComesWithRequest,
            StoredBeforeNotified, ReturnsTheAnswer, DestroyedAtRest
<1>1. TypeOK'
  BY DEF TypeOK, Caller, CreateThread, MakeRequest, Wait, WakesSpuriously,
         Return, Destroy, Join, CloseAsyncClient
<1>2. (HandlersRunInside /\ ThreadComesWithRequest /\ StoredBeforeNotified)'
  BY DEF Caller, CreateThread, MakeRequest, Wait, WakesSpuriously, Return,
         Destroy, Join, CloseAsyncClient
<1>3. ReturnsTheAnswer'
  BY DEF Caller, CreateThread, MakeRequest, Wait, WakesSpuriously, Return,
         Destroy, Join, CloseAsyncClient
<1>4. DestroyedAtRest'
  <2>1. CASE Join
    BY <2>1 DEF Join
  <2>2. CASE ~Join
    BY <2>2
    DEF Caller, CreateThread, MakeRequest, Wait, WakesSpuriously, Return,
        Destroy, CloseAsyncClient
  <2> QED
    BY <2>1, <2>2
<1> QED
  BY <1>1, <1>2, <1>3, <1>4

\* Each step of the client's thread keeps it: the answer is stored before the
\* notification, and no handler is left behind in run().
LEMMA IoThreadKeeps == SyncInv /\ IoThread => SyncInv'
<1> SUFFICES ASSUME SyncInv, IoThread PROVE SyncInv'
  OBVIOUS
<1> USE DEF SyncInv, HandlersRunInside, ThreadComesWithRequest,
            StoredBeforeNotified, ReturnsTheAnswer, DestroyedAtRest,
            TakesHandler
<1>1. CASE EnterRun \/ LeaveRun
  BY <1>1 DEF EnterRun, LeaveRun, TypeOK
<1>2. CASE CoroutineStarts \/ RunAborted
  BY <1>2 DEF CoroutineStarts, RunAborted, TypeOK
<1>3. CASE CoroutineResumes
  <2>1. TypeOK'
    BY <1>3 DEF CoroutineResumes, TypeOK
  <2> QED
    BY <1>3, <2>1 DEF CoroutineResumes
<1>4. CASE RunTimeout
  <2>1. TypeOK'
    BY <1>4 DEF RunTimeout, TypeOK
  <2> QED
    BY <1>4, <2>1 DEF RunTimeout
<1>5. CASE SetResponse
  BY <1>5 DEF SetResponse, TypeOK
<1>6. CASE Notify
  BY <1>6 DEF Notify, TypeOK
<1>7. CASE HandlerReturns
  BY <1>7 DEF HandlerReturns, TypeOK
<1> QED
  BY <1>1, <1>2, <1>3, <1>4, <1>5, <1>6, <1>7 DEF IoThread

\* So do the network, the clock and a step of somebody else.
LEMMA NextSyncInv == SyncInv /\ [Next]_vars => SyncInv'
<1>1. SyncInv /\ (OpCompletes \/ TimerExpires \/ UNCHANGED vars) => SyncInv'
  BY DEF OpCompletes, TimerExpires, vars, SyncInv, TypeOK, HandlersRunInside,
         ThreadComesWithRequest, StoredBeforeNotified, ReturnsTheAnswer,
         DestroyedAtRest
<1> QED
  BY <1>1, CallerKeeps, IoThreadKeeps DEF Next

-----------------------------------------------------------------------------
\* Every reachable state satisfies the invariant, whatever is fair.
THEOREM SyncInvariance == Spec => []SyncInv
BY InitSyncInv, NextSyncInv, PTL DEF Spec

\* Every variable of the client keeps its type.
THEOREM SyncTypes == Spec => []TypeOK
<1>1. SyncInv => TypeOK
  BY DEF SyncInv
<1> QED
  BY <1>1, SyncInvariance, PTL

\* A caller of make_request that the callback has woken finds the answer in
\* m_response, though no lock orders the two.
THEOREM WokenWithAnswer == Spec => []ReturnsTheAnswer
<1>1. SyncInv => ReturnsTheAnswer
  BY DEF SyncInv
<1> QED
  BY <1>1, SyncInvariance, PTL

\* The destructor destroys the io_service, the condition variable and the
\* asynchronous client when no handler runs and none will.
THEOREM NothingInUseDestroyed == Spec => []DestroyedAtRest
<1>1. SyncInv => DestroyedAtRest
  BY DEF SyncInv
<1> QED
  BY <1>1, SyncInvariance, PTL
==============================================================================
