-------------------------- MODULE Publisher_proofs --------------------------
(***************************************************************************)
(* Proofs about the role "pub", for any numbers of audio and video         *)
(* publications: the inductive invariant IInv, the safety properties that  *)
(* follow from it, and that Publisher implements Registry.                 *)
(***************************************************************************)
EXTENDS Publisher, Dispatcher_proofs, FiniteSetTheorems

\* The invariant holds when main() enters the event loop.
LEMMA InitIInv == Init => IInv
<1> SUFFICES ASSUME Init PROVE IInv
  OBVIOUS
<1> USE DEF Init, DispatcherInit, SessionInit
<1>1. queue = <<>> /\ DOMAIN queue = {} /\ Range(queue) = {}
  BY DEF Range
<1>2. NoReply \in Responses
  BY DEF Responses, NoReply
<1>3. TypeOK
  <2>1. DispatcherTypeOK(Tasks)
    BY DEF DispatcherTypeOK, Waits
  <2>2. SessionTypeOK
    BY <1>2 DEF SessionTypeOK
  <2> QED
    BY <2>1, <2>2 DEF TypeOK
<1>4. /\ TasksNeedInfo
      /\ TokenFirst
      /\ StartFirst
      /\ PublishedOnce
  BY <1>1 DEF TasksNeedInfo, TokenFirst, StartFirst, PublishedOnce, IsQueued,
              IsQueuedAtMostOnce, AtMostOnce
<1>5. /\ TrackedWasPublished
      /\ EndedUntrackedIsUnseen
      /\ InfoOnceJoined
      /\ NothingTrackedOutside
      /\ ObserversAreTracked
      /\ ForgottenHasEnded
      /\ EndIsHeard
  BY DEF TrackedWasPublished, EndedUntrackedIsUnseen, InfoOnceJoined,
         NothingTrackedOutside, ObserversAreTracked, ForgottenHasEnded,
         EndIsHeard
<1> QED
  BY <1>3, <1>4, <1>5 DEF IInv

\* A step of the dispatcher, the network, the server or the user keeps it.
LEMMA NextIInv == IInv /\ [Next]_vars => IInv'
<1> SUFFICES ASSUME IInv, [Next]_vars PROVE IInv'
  OBVIOUS
<1> USE TaskEq, TaskOp
<1> USE DEF IInv, TypeOK, DispatcherTypeOK, SessionTypeOK, TasksNeedInfo,
            TokenFirst, StartFirst, PublishedOnce, TrackedWasPublished,
            EndedUntrackedIsUnseen, InfoOnceJoined, NothingTrackedOutside,
            ObserversAreTracked, ForgottenHasEnded, EndIsHeard, IsQueued,
            IsQueuedAtMostOnce, Running, dispatcherVars, sessionVars,
            publisherVars, Takes, Finishes, FinishesPosting, PostTask,
            PostedFacts, TakenFacts, TakenPostingFacts
<1>1. ASSUME RunToken, UNCHANGED publisherVars PROVE IInv'
  <2>2. TakenFacts(Tasks)
    BY <1>1, Taken DEF RunToken
  <2>3. TypeOK'
    BY <1>1, <2>2 DEF RunToken
  <2>4. (TasksNeedInfo /\ TokenFirst /\ StartFirst /\ PublishedOnce
          /\ EndIsHeard)'
    BY <1>1, <2>2 DEF RunToken
  <2>5. (TrackedWasPublished /\ EndedUntrackedIsUnseen /\ InfoOnceJoined
          /\ NothingTrackedOutside /\ ObserversAreTracked
          /\ ForgottenHasEnded)'
    BY <1>1, <2>2 DEF RunToken
  <2> QED
    BY <2>3, <2>4, <2>5
<1>2. ASSUME RunTicker, UNCHANGED publisherVars PROVE IInv'
  <2>2. TakenFacts(Tasks)
    BY <1>2, Taken DEF RunTicker, Waits
  <2>3. TypeOK'
    BY <1>2, <2>2 DEF RunTicker, Waits
  <2>4. (TasksNeedInfo /\ TokenFirst /\ StartFirst /\ PublishedOnce
          /\ EndIsHeard)'
    BY <1>2, <2>2 DEF RunTicker, Waits
  <2>5. (TrackedWasPublished /\ EndedUntrackedIsUnseen /\ InfoOnceJoined
          /\ NothingTrackedOutside /\ ObserversAreTracked
          /\ ForgottenHasEnded)'
    BY <1>2, <2>2 DEF RunTicker, Waits
  <2> QED
    BY <2>3, <2>4, <2>5
<1>3. ASSUME NEW w \in {"duration", "signal"}, RunStopRequest(w), info,
             UNCHANGED publisherVars
      PROVE  IInv'
  <2>1. Task("stop", NoArg) \in Tasks
    BY <1>3 DEF Tasks, Task, Waits
  <2>2. TakenPostingFacts(Tasks, Task("stop", NoArg))
    BY <1>3, <2>1, TakenPosting DEF RunStopRequest
  <2>3. TypeOK'
    BY <1>3, <2>2 DEF RunStopRequest
  <2>4. (TasksNeedInfo /\ TokenFirst /\ StartFirst /\ PublishedOnce
          /\ EndIsHeard)'
    BY <1>3, <2>2 DEF RunStopRequest
  <2>5. (TrackedWasPublished /\ EndedUntrackedIsUnseen /\ InfoOnceJoined
          /\ NothingTrackedOutside /\ ObserversAreTracked
          /\ ForgottenHasEnded)'
    BY <1>3, <2>2 DEF RunStopRequest
  <2> QED
    BY <2>3, <2>4, <2>5
<1>4. ASSUME NEW w \in {"duration", "signal"}, RunStopRequest(w), ~info,
             UNCHANGED publisherVars
      PROVE  IInv'
  <2>2. TakenFacts(Tasks)
    BY <1>4, Taken DEF RunStopRequest
  <2>3. TypeOK'
    BY <1>4, <2>2 DEF RunStopRequest
  <2>4. (TasksNeedInfo /\ TokenFirst /\ StartFirst /\ PublishedOnce
          /\ EndIsHeard)'
    BY <1>4, <2>2 DEF RunStopRequest
  <2>5. (TrackedWasPublished /\ EndedUntrackedIsUnseen /\ InfoOnceJoined
          /\ NothingTrackedOutside /\ ObserversAreTracked
          /\ ForgottenHasEnded)'
    BY <1>4, <2>2 DEF RunStopRequest
  <2> QED
    BY <2>3, <2>4, <2>5
<1>5. ASSUME RunStart PROVE IInv'
  <2>2. TakenFacts(Tasks)
    BY <1>5, Taken DEF RunStart
  <2>3. TypeOK'
    BY <1>5, <2>2 DEF RunStart
  <2>4. (TasksNeedInfo /\ TokenFirst /\ StartFirst /\ PublishedOnce
          /\ EndIsHeard)'
    BY <1>5, <2>2 DEF RunStart
  <2>5. (TrackedWasPublished /\ EndedUntrackedIsUnseen /\ InfoOnceJoined
          /\ NothingTrackedOutside /\ ObserversAreTracked
          /\ ForgottenHasEnded)'
    BY <1>5, <2>2 DEF RunStart
  <2> QED
    BY <2>3, <2>4, <2>5
<1>6. ASSUME NEW p \in Pubs, RunPublished(p) PROVE IInv'
  <2>2. TakenFacts(Tasks)
    BY <1>6, Taken DEF RunPublished, Mixes
  <2>3. TypeOK'
    BY <1>6, <2>2 DEF RunPublished, Mixes
  <2>4. (TasksNeedInfo /\ TokenFirst /\ StartFirst)'
    BY <1>6, <2>2 DEF RunPublished, Mixes
  <2>5. PublishedOnce'
    BY <1>6, <2>2 DEF RunPublished, Mixes
  <2>6. (TrackedWasPublished /\ EndedUntrackedIsUnseen /\ InfoOnceJoined)'
    BY <1>6, <2>2 DEF RunPublished, Mixes
  <2>7. (NothingTrackedOutside /\ ObserversAreTracked)'
    BY <1>6, <2>2 DEF RunPublished, Mixes
  <2>8. ForgottenHasEnded'
    BY <1>6, <2>2 DEF RunPublished, Mixes
  <2>9. EndIsHeard'
    BY <1>6, <2>2 DEF RunPublished, Mixes
  <2> QED
    BY <2>3, <2>4, <2>5, <2>6, <2>7, <2>8, <2>9
<1>7. ASSUME NEW p \in Pubs, RunRemove(p) PROVE IInv'
  <2>2. TakenFacts(Tasks)
    BY <1>7, Taken DEF RunRemove, StopsUnlessEnded
  <2>3. TypeOK'
    BY <1>7, <2>2 DEF RunRemove, StopsUnlessEnded
  <2>4. (TasksNeedInfo /\ TokenFirst /\ StartFirst)'
    BY <1>7, <2>2 DEF RunRemove, StopsUnlessEnded
  <2>5. PublishedOnce'
    BY <1>7, <2>2 DEF RunRemove, StopsUnlessEnded
  <2>6. (TrackedWasPublished /\ EndedUntrackedIsUnseen /\ InfoOnceJoined)'
    BY <1>7, <2>2 DEF RunRemove, StopsUnlessEnded
  <2>7. (NothingTrackedOutside /\ ObserversAreTracked)'
    BY <1>7, <2>2 DEF RunRemove, StopsUnlessEnded
  <2>8. ForgottenHasEnded'
    BY <1>7, <2>2 DEF RunRemove, StopsUnlessEnded
  <2>9. EndIsHeard'
    BY <1>7, <2>2 DEF RunRemove, StopsUnlessEnded
  <2> QED
    BY <2>3, <2>4, <2>5, <2>6, <2>7, <2>8, <2>9
<1>8. ASSUME RunStop PROVE IInv'
  <2>2. TakenFacts(Tasks)
    BY <1>8, Taken DEF RunStop, StopsUnlessEnded
  <2>3. TypeOK'
    BY <1>8, <2>2 DEF RunStop, StopsUnlessEnded
  <2>4. (TasksNeedInfo /\ TokenFirst /\ StartFirst)'
    BY <1>8, <2>2 DEF RunStop, StopsUnlessEnded
  <2>5. PublishedOnce'
    BY <1>8, <2>2 DEF RunStop, StopsUnlessEnded
  <2>6. (TrackedWasPublished /\ EndedUntrackedIsUnseen /\ InfoOnceJoined)'
    BY <1>8, <2>2 DEF RunStop, StopsUnlessEnded
  <2>7. (NothingTrackedOutside /\ ObserversAreTracked)'
    BY <1>8, <2>2 DEF RunStop, StopsUnlessEnded
  <2>8. ForgottenHasEnded'
    BY <1>8, <2>2 DEF RunStop, StopsUnlessEnded
  <2>9. EndIsHeard'
    BY <1>8, <2>2 DEF RunStop, StopsUnlessEnded
  <2> QED
    BY <2>3, <2>4, <2>5, <2>6, <2>7, <2>8, <2>9
<1>9. ASSUME NEW r \in Responses, TokenResponse(r), UNCHANGED publisherVars
      PROVE  IInv'
  <2>1. Task("token", NoArg) \in Tasks
    BY <1>9 DEF Tasks, Task, Waits
  <2>2. PostedFacts(Tasks, Task("token", NoArg))
    BY <1>9, <2>1, Posted DEF TokenResponse
  <2>3. TypeOK'
    BY <1>9, <2>2 DEF TokenResponse
  <2>4. (TasksNeedInfo /\ TokenFirst /\ StartFirst /\ PublishedOnce
          /\ EndIsHeard)'
    BY <1>9, <2>2 DEF TokenResponse
  <2>5. (TrackedWasPublished /\ EndedUntrackedIsUnseen /\ InfoOnceJoined
          /\ NothingTrackedOutside /\ ObserversAreTracked
          /\ ForgottenHasEnded)'
    BY <1>9, <2>2 DEF TokenResponse
  <2> QED
    BY <2>3, <2>4, <2>5
<1>10. ASSUME JoinSucceeds, UNCHANGED publisherVars PROVE IInv'
  <2>3. TypeOK'
    BY <1>10 DEF JoinSucceeds
  <2>4. (TasksNeedInfo /\ TokenFirst /\ StartFirst /\ PublishedOnce
          /\ EndIsHeard)'
    BY <1>10 DEF JoinSucceeds
  <2>5. (TrackedWasPublished /\ EndedUntrackedIsUnseen /\ InfoOnceJoined
          /\ NothingTrackedOutside /\ ObserversAreTracked
          /\ ForgottenHasEnded)'
    BY <1>10 DEF JoinSucceeds
  <2> QED
    BY <2>3, <2>4, <2>5
<1>11. ASSUME Run, UNCHANGED publisherVars PROVE IInv'
  <2>1. Task("start", NoArg) \in Tasks
    BY <1>11 DEF Tasks, Task, Waits
  <2>2. PostedFacts(Tasks, Task("start", NoArg))
    BY <1>11, <2>1, Posted DEF Run, Waits
  <2>3. TypeOK'
    BY <1>11, <2>2 DEF Run, Waits
  <2>4. (TasksNeedInfo /\ TokenFirst /\ StartFirst /\ PublishedOnce
          /\ EndIsHeard)'
    BY <1>11, <2>2 DEF Run, Waits
  <2>5. (TrackedWasPublished /\ EndedUntrackedIsUnseen /\ InfoOnceJoined
          /\ NothingTrackedOutside /\ ObserversAreTracked
          /\ ForgottenHasEnded)'
    BY <1>11, <2>2 DEF Run, Waits
  <2> QED
    BY <2>3, <2>4, <2>5
<1>12. ASSUME JoinFails, UNCHANGED publisherVars PROVE IInv'
  <2>3. TypeOK'
    BY <1>12 DEF JoinFails
  <2>4. (TasksNeedInfo /\ TokenFirst /\ StartFirst /\ PublishedOnce
          /\ EndIsHeard)'
    BY <1>12 DEF JoinFails
  <2>5. (TrackedWasPublished /\ EndedUntrackedIsUnseen /\ InfoOnceJoined
          /\ NothingTrackedOutside /\ ObserversAreTracked
          /\ ForgottenHasEnded)'
    BY <1>12 DEF JoinFails
  <2> QED
    BY <2>3, <2>4, <2>5
<1>13. ASSUME NEW w \in Waits, WaitCompletes(w), UNCHANGED sessionVars,
              UNCHANGED publisherVars
       PROVE  IInv'
  <2>1. Task(w, NoArg) \in Tasks
    BY <1>13 DEF Tasks, Task, Waits
  <2>2. PostedFacts(Tasks, Task(w, NoArg))
    BY <1>13, <2>1, Posted DEF WaitCompletes, Waits
  <2>3. TypeOK'
    BY <1>13, <2>2 DEF WaitCompletes, Waits
  <2>4. (TasksNeedInfo /\ TokenFirst /\ StartFirst /\ PublishedOnce
          /\ EndIsHeard)'
    BY <1>13, <2>2 DEF WaitCompletes, Waits
  <2>5. (TrackedWasPublished /\ EndedUntrackedIsUnseen /\ InfoOnceJoined
          /\ NothingTrackedOutside /\ ObserversAreTracked
          /\ ForgottenHasEnded)'
    BY <1>13, <2>2 DEF WaitCompletes, Waits
  <2> QED
    BY <2>3, <2>4, <2>5
<1>14. ASSUME NEW p \in Pubs, PublishSucceeds(p) PROVE IInv'
  <2>1. Task("published", p) \in Tasks
    BY <1>14 DEF Tasks, Task, Waits
  <2>2. PostedFacts(Tasks, Task("published", p))
    BY <1>14, <2>1, Posted DEF PublishSucceeds
  <2>3. TypeOK'
    BY <1>14, <2>2 DEF PublishSucceeds
  <2>4. (TasksNeedInfo /\ TokenFirst /\ StartFirst /\ PublishedOnce
          /\ EndIsHeard)'
    BY <1>14, <2>2 DEF PublishSucceeds
  <2>5. (TrackedWasPublished /\ EndedUntrackedIsUnseen /\ InfoOnceJoined
          /\ NothingTrackedOutside /\ ObserversAreTracked
          /\ ForgottenHasEnded)'
    BY <1>14, <2>2 DEF PublishSucceeds
  <2> QED
    BY <2>3, <2>4, <2>5
<1>15. ASSUME NEW p \in Pubs, PublishFails(p) PROVE IInv'
  <2>3. TypeOK'
    BY <1>15 DEF PublishFails
  <2>4. (TasksNeedInfo /\ TokenFirst /\ StartFirst /\ PublishedOnce
          /\ EndIsHeard)'
    BY <1>15 DEF PublishFails
  <2>5. (TrackedWasPublished /\ EndedUntrackedIsUnseen /\ InfoOnceJoined
          /\ NothingTrackedOutside /\ ObserversAreTracked
          /\ ForgottenHasEnded)'
    BY <1>15 DEF PublishFails
  <2> QED
    BY <2>3, <2>4, <2>5
<1>16. ASSUME NEW p \in Pubs, ServerEnds(p), p \in observed PROVE IInv'
  <2>1. Task("remove", p) \in Tasks
    BY <1>16 DEF Tasks, Task, Waits
  <2>2. PostedFacts(Tasks, Task("remove", p))
    BY <1>16, <2>1, Posted DEF ServerEnds, OnEnded
  <2>3. TypeOK'
    BY <1>16, <2>2 DEF ServerEnds, OnEnded
  <2>4. (TasksNeedInfo /\ TokenFirst /\ StartFirst /\ PublishedOnce
          /\ EndIsHeard)'
    BY <1>16, <2>2 DEF ServerEnds, OnEnded
  <2>5. (TrackedWasPublished /\ EndedUntrackedIsUnseen /\ InfoOnceJoined
          /\ NothingTrackedOutside /\ ObserversAreTracked
          /\ ForgottenHasEnded)'
    BY <1>16, <2>2 DEF ServerEnds, OnEnded
  <2> QED
    BY <2>3, <2>4, <2>5
<1>17. ASSUME NEW p \in Pubs, ServerEnds(p), p \notin observed PROVE IInv'
  <2>3. TypeOK'
    BY <1>17 DEF ServerEnds
  <2>4. (TasksNeedInfo /\ TokenFirst /\ StartFirst /\ PublishedOnce
          /\ EndIsHeard)'
    BY <1>17 DEF ServerEnds
  <2>5. (TrackedWasPublished /\ EndedUntrackedIsUnseen /\ InfoOnceJoined
          /\ NothingTrackedOutside /\ ObserversAreTracked
          /\ ForgottenHasEnded)'
    BY <1>17 DEF ServerEnds
  <2> QED
    BY <2>3, <2>4, <2>5
<1>18. ASSUME NEW p \in Pubs, ServerErrors(p) PROVE IInv'
  <2>1. Task("remove", p) \in Tasks
    BY <1>18 DEF Tasks, Task, Waits
  <2>2. PostedFacts(Tasks, Task("remove", p))
    BY <1>18, <2>1, Posted DEF ServerErrors, OnEnded
  <2>3. TypeOK'
    BY <1>18, <2>2 DEF ServerErrors, OnEnded
  <2>4. (TasksNeedInfo /\ TokenFirst /\ StartFirst /\ PublishedOnce
          /\ EndIsHeard)'
    BY <1>18, <2>2 DEF ServerErrors, OnEnded
  <2>5. (TrackedWasPublished /\ EndedUntrackedIsUnseen /\ InfoOnceJoined
          /\ NothingTrackedOutside /\ ObserversAreTracked
          /\ ForgottenHasEnded)'
    BY <1>18, <2>2 DEF ServerErrors, OnEnded
  <2> QED
    BY <2>3, <2>4, <2>5
<1>19. ASSUME UNCHANGED vars PROVE IInv'
  <2>3. TypeOK'
    BY <1>19 DEF vars
  <2>4. (TasksNeedInfo /\ TokenFirst /\ StartFirst /\ PublishedOnce
          /\ EndIsHeard)'
    BY <1>19 DEF vars
  <2>5. (TrackedWasPublished /\ EndedUntrackedIsUnseen /\ InfoOnceJoined
          /\ NothingTrackedOutside /\ ObserversAreTracked
          /\ ForgottenHasEnded)'
    BY <1>19 DEF vars
  <2> QED
    BY <2>3, <2>4, <2>5
<1>20. ASSUME ios' = "crashed",
              UNCHANGED <<queue, waits, sessionVars, publisherVars>>
       PROVE  IInv'
  <2>1. TypeOK'
    BY <1>20
  <2>2. (TasksNeedInfo /\ TokenFirst /\ StartFirst /\ PublishedOnce
          /\ EndIsHeard)'
    BY <1>20
  <2>3. (TrackedWasPublished /\ EndedUntrackedIsUnseen /\ InfoOnceJoined
          /\ NothingTrackedOutside /\ ObserversAreTracked
          /\ ForgottenHasEnded)'
    BY <1>20
  <2> QED
    BY <2>1, <2>2, <2>3
<1> HIDE DEF IInv
<1> QED
  BY <1>1, <1>2, <1>3, <1>4, <1>5, <1>6, <1>7, <1>8, <1>9, <1>10, <1>11,
     <1>12, <1>13, <1>14, <1>15, <1>16, <1>17, <1>18, <1>19, <1>20
  DEF Next, Dispatch, SessionTask, SessionEvent, Terminated, SecondSignal,
      TokenThrows, MixThrows, Throws
-----------------------------------------------------------------------------
\* Every reachable state satisfies the inductive invariant.
THEOREM Invariance == Spec => []IInv
BY InitIInv, NextIInv, PTL DEF Spec

\* Every variable stays within its type, whatever the numbers of publications
\* (publish_infos_, local_streams_ and the queue of the dispatcher).
THEOREM TypeCorrect == Spec => []TypeOK
<1>1. IInv => TypeOK
  BY DEF IInv
<1> QED
  BY <1>1, Invariance, PTL

\* A PubObserver is registered exactly while its entry in publish_infos_
\* exists: neither RemovePublish nor Stop leaves a dangling reference.
THEOREM ObserversTracked == Spec => []ObserversAreTracked
<1>1. IInv => ObserversAreTracked
  BY DEF IInv
<1> QED
  BY <1>1, Invariance, PTL

\* What the processor has forgotten has ended at the server.
THEOREM ForgottenEnded == Spec => []ForgottenHasEnded
<1>1. IInv => ForgottenHasEnded
  BY DEF IInv
<1> QED
  BY <1>1, Invariance, PTL

\* The end of a tracked publication is queued for removal unless nobody
\* listened yet.
THEOREM EndHeard == Spec => []EndIsHeard
<1>1. IInv => EndIsHeard
  BY DEF IInv
<1> QED
  BY <1>1, Invariance, PTL

\* No task that reads info_ is queued while it is null.
THEOREM InfoThere == Spec => []TasksNeedInfo
<1>1. IInv => TasksNeedInfo
  BY DEF IInv
<1> QED
  BY <1>1, Invariance, PTL

-----------------------------------------------------------------------------
\* The task the main thread takes was queued.
LEMMA TakenWasQueued ==
    ASSUME IInv, NEW op, NEW arg, Takes(op, arg)
    PROVE  IsQueued(op, arg)
<1>1. queue \in Seq(Tasks) /\ queue # <<>> /\ Head(queue) = Task(op, arg)
  BY DEF IInv, TypeOK, DispatcherTypeOK, Takes
<1> QED
  BY <1>1, TailFacts DEF IsQueued

\* A publication is not tracked yet when its success task runs.
LEMMA PublishedIsNew ==
    ASSUME IInv, NEW p \in Pubs, Takes("published", p)
    PROVE  p \notin local_streams
BY TakenWasQueued DEF IInv, PublishedOnce

\* Under the refinement mapping nothing is tracked at first.
LEMMA InitRefines == Init => R!Init
BY DEF Init, DispatcherInit, R!Init, phase

\* A step that changes neither the maps nor the loop is a stutter of Registry.
LEMMA Stutter ==
    UNCHANGED <<publish_infos, local_streams, ios>> => UNCHANGED R!registryVars
BY DEF R!registryVars, phase

\* Every step of Publisher is a step of Registry or a stutter.
LEMMA NextRefines == IInv /\ [Next]_vars => [R!Next]_(R!registryVars)
<1> SUFFICES ASSUME IInv, [Next]_vars PROVE [R!Next]_(R!registryVars)
  OBVIOUS
<1>1. /\ publish_infos \subseteq local_streams
      /\ local_streams \subseteq Pubs
      /\ NothingTrackedOutside
  BY DEF IInv, TypeOK, TrackedWasPublished
<1>2. ASSUME NEW w \in {"duration", "signal"}, RunStopRequest(w),
             UNCHANGED publisherVars
      PROVE  [R!Next]_(R!registryVars)
  <2>1. CASE info
    BY <1>2, <2>1, Stutter DEF RunStopRequest, publisherVars
  <2>2. CASE ~info
    <3>1. R!Die
      BY <1>2, <2>2
      DEF RunStopRequest, Takes, Running, publisherVars, R!Die, phase
    <3> QED
      BY <3>1 DEF R!Next
  <2> QED
    BY <2>1, <2>2
<1>3. ASSUME NEW p \in Pubs, RunPublished(p)
      PROVE  [R!Next]_(R!registryVars)
  <2>1. p \notin local_streams
    BY <1>3, PublishedIsNew DEF RunPublished
  <2>2. R!Track(p)
    BY <1>1, <1>3, <2>1 DEF RunPublished, Takes, Running, R!Track, phase
  <2> QED
    BY <2>2 DEF R!Next
<1>4. ASSUME NEW p \in Pubs, RunRemove(p)
      PROVE  [R!Next]_(R!registryVars)
  <2>1. CASE p \in publish_infos
    <3>1. R!Release(p)
      BY <1>1, <1>4, <2>1 DEF RunRemove, Takes, Running, R!Release, phase
    <3> QED
      BY <3>1 DEF R!Next
  <2>2. CASE p \notin publish_infos
    BY <1>4, <2>2, Stutter DEF RunRemove
  <2> QED
    BY <2>1, <2>2
<1>5. ASSUME RunStop PROVE [R!Next]_(R!registryVars)
  <2>1. R!Close
    BY <1>1, <1>5
    DEF RunStop, Takes, Running, R!Close, R!ReleasesAll, phase
  <2> QED
    BY <2>1 DEF R!Next
<1>6. CASE (SecondSignal \/ Throws) /\ UNCHANGED publisherVars
  <2>1. R!Die
    BY <1>6 DEF SecondSignal, Throws, Running, publisherVars, R!Die, phase
  <2> QED
    BY <2>1 DEF R!Next
<1>7. ASSUME \/ /\ SessionEvent /\ ~SecondSignal /\ ~Throws
                /\ UNCHANGED publisherVars
             \/ RunToken /\ UNCHANGED publisherVars
             \/ RunTicker /\ UNCHANGED publisherVars
             \/ RunStart
             \/ \E p \in Pubs : \/ PublishSucceeds(p)
                                \/ PublishFails(p)
                                \/ ServerEnds(p)
                                \/ ServerErrors(p)
             \/ UNCHANGED vars
      PROVE  UNCHANGED <<publish_infos, local_streams, ios>>
  BY <1>7
  DEF SessionEvent, TokenResponse, TokenThrows, JoinSucceeds, Run, JoinFails,
      WaitCompletes, RunToken, RunTicker, RunStart, PublishSucceeds,
      PublishFails, ServerEnds, ServerErrors, vars, publisherVars,
      dispatcherVars
<1> QED
  BY <1>2, <1>3, <1>4, <1>5, <1>6, <1>7, Stutter
  DEF Next, Dispatch, SessionTask, MixThrows, Terminated

\* Publisher implements Registry: a publication is tracked and released at
\* most once, and none is tracked when the program leaves its loop.
THEOREM Refinement == Spec => TracksAndReleases
<1>1. Spec => R!Spec
  BY InitRefines, NextRefines, Invariance, PTL DEF Spec, R!Spec
<1> QED
  BY <1>1 DEF TracksAndReleases

-----------------------------------------------------------------------------
\* The maps are finite, so that their sizes are numbers.
LEMMA Finite ==
    ASSUME TypeOK
    PROVE  IsFiniteSet(publish_infos) /\ IsFiniteSet(local_streams)
<1>1. IsFiniteSet(Pubs)
  BY PubsAssumption, FS_Union DEF Pubs
<1> QED
  BY <1>1, FS_Subset DEF TypeOK

\* A step of the program keeps pub_count in line with the two maps.
LEMMA NextCounts == IInv /\ CountsRemovals /\ [Next]_vars => CountsRemovals'
<1> SUFFICES ASSUME IInv, CountsRemovals, [Next]_vars PROVE CountsRemovals'
  OBVIOUS
<1>1. /\ IsFiniteSet(publish_infos) /\ IsFiniteSet(local_streams)
      /\ Cardinality(publish_infos) \in Nat
      /\ Cardinality(local_streams) \in Nat
      /\ pub_count \in Int
      /\ publish_infos \subseteq local_streams
  BY Finite, FS_CardinalityType DEF IInv, TypeOK, TrackedWasPublished
<1>2. ASSUME NEW p \in Pubs, RunPublished(p) PROVE CountsRemovals'
  <2>1. p \notin local_streams
    BY <1>2, PublishedIsNew DEF RunPublished
  <2>2. /\ Cardinality(publish_infos') = Cardinality(publish_infos) + 1
        /\ Cardinality(local_streams') = Cardinality(local_streams) + 1
    BY <1>1, <1>2, <2>1, FS_AddElement DEF RunPublished
  <2> QED
    BY <1>1, <1>2, <2>2 DEF RunPublished, Takes, CountsRemovals
<1>3. ASSUME NEW p \in Pubs, RunRemove(p) PROVE CountsRemovals'
  <2>1. CASE p \in publish_infos
    <3>1. Cardinality(publish_infos') = Cardinality(publish_infos) - 1
      BY <1>1, <1>3, <2>1, FS_RemoveElement DEF RunRemove
    <3> QED
      BY <1>1, <1>3, <2>1, <3>1 DEF RunRemove, Takes, CountsRemovals
  <2>2. CASE p \notin publish_infos
    BY <1>3, <2>2 DEF RunRemove, CountsRemovals, Running
  <2> QED
    BY <2>1, <2>2
<1>4. CASE RunStop
  BY <1>4 DEF RunStop, CountsRemovals, Running
<1>5. ASSUME \/ SessionEvent /\ UNCHANGED publisherVars
             \/ MixThrows
             \/ SessionTask /\ UNCHANGED publisherVars
             \/ RunStart
             \/ \E p \in Pubs : \/ PublishSucceeds(p)
                                \/ PublishFails(p)
                                \/ ServerEnds(p)
                                \/ ServerErrors(p)
             \/ UNCHANGED vars
      PROVE  CountsRemovals'
  <2>1. /\ UNCHANGED <<publish_infos, local_streams, pub_count>>
        /\ Running' => Running
    BY <1>5
    DEF SessionEvent, TokenResponse, JoinSucceeds, Run, JoinFails,
        WaitCompletes, SecondSignal, TokenThrows, MixThrows, Throws,
        SessionTask, RunToken, RunTicker, RunStopRequest, Takes, PostTask, RunStart, PublishSucceeds,
        PublishFails, ServerEnds,
        ServerErrors, vars, publisherVars, dispatcherVars, Running
  <2> QED
    BY <2>1 DEF CountsRemovals
<1> QED
  BY <1>2, <1>3, <1>4, <1>5 DEF Next, Dispatch, Terminated

\* While the program runs, pub_count is minus the number of publications
\* removed, however often a removal was posted for one.
THEOREM Counting == Spec => []CountsRemovals
<1>1. Init => CountsRemovals
  BY FS_EmptySet DEF Init, CountsRemovals
<1> QED
  BY <1>1, NextCounts, Invariance, PTL DEF Spec

-----------------------------------------------------------------------------
\* One tick at most is on its way, and none before the first task is posted.
TickerOnce ==
    /\ IsQueuedAtMostOnce("ticker", NoArg)
    /\ startup # "joined" =>
        "ticker" \notin waits /\ ~IsQueued("ticker", NoArg)
    /\ ~("ticker" \in waits /\ IsQueued("ticker", NoArg))

\* A step of the program neither loses nor doubles the tick.
LEMMA NextTicker ==
    IInv /\ TickerOnce /\ TickerIsAlive /\ [Next]_vars
        => TickerOnce' /\ TickerIsAlive'
<1> SUFFICES ASSUME IInv, TickerOnce, TickerIsAlive, [Next]_vars
             PROVE  TickerOnce' /\ TickerIsAlive'
  OBVIOUS
<1> DEFINE tick == Task("ticker", NoArg)
<1> USE DEF TickerOnce, TickerIsAlive, IsQueued, IsQueuedAtMostOnce
<1>1. queue \in Seq(Tasks)
  BY DEF IInv, TypeOK, DispatcherTypeOK
<1>2. ASSUME queue # <<>>, queue' = Tail(queue), Head(queue) # tick,
             UNCHANGED waits, startup = "joined" <=> startup' = "joined",
             Running' => Running
      PROVE  TickerOnce' /\ TickerIsAlive'
  BY <1>1, <1>2, Taken DEF TakenFacts
<1>3. ASSUME NEW t \in Tasks, t # tick, queue' = Append(queue, t),
             "ticker" \in waits <=> "ticker" \in waits',
             startup = "joined" <=> startup' = "joined", Running' => Running
      PROVE  TickerOnce' /\ TickerIsAlive'
  BY <1>1, <1>3, Posted DEF PostedFacts
<1>4. ASSUME UNCHANGED <<queue, waits>>, Running' => Running,
             startup = "joined" <=> startup' = "joined"
      PROVE  TickerOnce' /\ TickerIsAlive'
  BY <1>4
<1>5. CASE RunToken /\ UNCHANGED publisherVars
  <2>1. startup = "answered" /\ startup' # "joined"
    BY <1>5, TakenWasQueued DEF RunToken, IInv, TokenFirst
  <2> QED
    BY <1>2, <1>5, <2>1, TaskEq
    DEF RunToken, Takes, Finishes, Running
<1>6. CASE RunTicker /\ UNCHANGED publisherVars
  <2>1. IsQueued("ticker", NoArg)
    BY <1>6, TakenWasQueued DEF RunTicker
  <2>2. TakenFacts(Tasks) /\ Head(queue) = tick
    BY <1>1, <1>6, Taken DEF RunTicker, Takes, Finishes
  <2>3. tick \notin Range(queue')
    BY <2>2 DEF TakenFacts
  <2> QED
    BY <1>6, <2>1, <2>2, <2>3 DEF RunTicker, sessionVars, TakenFacts
<1>7. ASSUME NEW w \in {"duration", "signal"}, RunStopRequest(w),
             UNCHANGED publisherVars
      PROVE  TickerOnce' /\ TickerIsAlive'
  <2>1. CASE info
    <3>1. Task("stop", NoArg) \in Tasks /\ Task("stop", NoArg) # tick
      BY TaskEq DEF Tasks, Task
    <3>2. TakenPostingFacts(Tasks, Task("stop", NoArg)) /\ Head(queue) # tick
      BY <1>1, <1>7, <2>1, <3>1, TakenPosting, TaskEq
      DEF RunStopRequest, Takes, FinishesPosting
    <3> QED
      BY <1>7, <2>1, <3>1, <3>2
      DEF RunStopRequest, sessionVars, TakenPostingFacts, Running
  <2>2. CASE ~info
    BY <1>2, <1>7, <2>2, TaskEq
    DEF RunStopRequest, Takes, Finishes, sessionVars, Running
  <2> QED
    BY <2>1, <2>2
<1>8. CASE RunStart
  BY <1>2, <1>8, TaskEq DEF RunStart, Takes, Finishes, sessionVars, Running
<1>9. ASSUME NEW p \in Pubs, RunPublished(p) \/ RunRemove(p)
      PROVE  TickerOnce' /\ TickerIsAlive'
  BY <1>2, <1>9, TaskEq
  DEF RunPublished, RunRemove, Takes, Finishes, sessionVars, Running
<1>10. CASE RunStop
  BY <1>2, <1>10, TaskEq DEF RunStop, Takes, Finishes, sessionVars, Running
<1>11. ASSUME NEW r \in Responses, TokenResponse(r)
       PROVE  TickerOnce' /\ TickerIsAlive'
  <2>1. Task("token", NoArg) \in Tasks /\ Task("token", NoArg) # tick
    BY TaskEq DEF Tasks, Task
  <2> QED
    BY <1>3, <1>11, <2>1 DEF TokenResponse, PostTask, Running
<1>12. CASE JoinSucceeds \/ JoinFails
  BY <1>4, <1>12 DEF JoinSucceeds, JoinFails, dispatcherVars, Running
<1>13. CASE Run
  <2>1. Task("start", NoArg) \in Tasks /\ Task("start", NoArg) # tick
    BY TaskEq DEF Tasks, Task
  <2>2. PostedFacts(Tasks, Task("start", NoArg))
    BY <1>1, <1>13, <2>1, Posted DEF Run, PostTask
  <2> QED
    BY <1>13, <2>1, <2>2 DEF Run, PostedFacts
<1>14. ASSUME NEW w \in Waits, WaitCompletes(w), UNCHANGED sessionVars
       PROVE  TickerOnce' /\ TickerIsAlive'
  <2>1. Task(w, NoArg) \in Tasks
    BY DEF Tasks, Task, Waits
  <2>2. CASE w = "ticker"
    <3>1. PostedFacts(Tasks, tick)
      BY <1>1, <1>14, <2>1, <2>2, Posted DEF WaitCompletes, PostTask
    <3> QED
      BY <1>14, <2>2, <3>1 DEF WaitCompletes, sessionVars, PostedFacts
  <2>3. CASE w # "ticker"
    <3>1. Task(w, NoArg) # tick
      BY <2>3, TaskEq
    <3> QED
      BY <1>3, <1>14, <2>1, <2>3, <3>1
      DEF WaitCompletes, PostTask, sessionVars, Running
  <2> QED
    BY <2>2, <2>3
<1>15. ASSUME NEW p \in Pubs,
              \/ PublishSucceeds(p)
              \/ ServerEnds(p) /\ p \in observed
              \/ ServerErrors(p)
       PROVE  TickerOnce' /\ TickerIsAlive'
  <2>1. \A op \in {"published", "remove"} :
            Task(op, p) \in Tasks /\ Task(op, p) # tick
    BY TaskEq DEF Tasks, Task
  <2> QED
    BY <1>3, <1>15, <2>1
    DEF PublishSucceeds, ServerEnds, ServerErrors, OnEnded, PostTask,
        sessionVars, Running
<1>16. ASSUME NEW p \in Pubs,
              \/ PublishFails(p)
              \/ ServerEnds(p) /\ p \notin observed
       PROVE  TickerOnce' /\ TickerIsAlive'
  BY <1>4, <1>16
  DEF PublishFails, ServerEnds, dispatcherVars, sessionVars, Running
<1>17. CASE (SecondSignal /\ UNCHANGED sessionVars) \/ Throws
  BY <1>4, <1>17 DEF SecondSignal, Throws, sessionVars, Running
<1>18. CASE UNCHANGED vars
  BY <1>4, <1>18 DEF vars, dispatcherVars, sessionVars, Running
<1> HIDE DEF TickerOnce, TickerIsAlive
<1> QED
  BY <1>5, <1>6, <1>7, <1>8, <1>9, <1>10, <1>11, <1>12, <1>13, <1>14, <1>15,
     <1>16, <1>17, <1>18
  DEF Next, Dispatch, SessionTask, SessionEvent, TokenThrows, MixThrows,
      Terminated

\* From Run() until the program leaves its loop exactly one tick is armed or
\* queued: the statistics neither stop nor double.
THEOREM TickerLives == Spec => []TickerIsAlive
<1>1. Init => TickerOnce /\ TickerIsAlive
  BY DEF Init, DispatcherInit, SessionInit, TickerOnce, TickerIsAlive,
         IsQueued, IsQueuedAtMostOnce, AtMostOnce, Range
<1> QED
  BY <1>1, NextTicker, Invariance, PTL DEF Spec

=============================================================================
