-------------------------- MODULE Subscriber_proofs --------------------------
(***************************************************************************)
(* Proofs about the role "sub", for any numbers of subscriptions and any   *)
(* streams: the inductive invariant SubInv, the safety properties that     *)
(* follow from it, and that Subscriber implements Registry.                *)
(***************************************************************************)
EXTENDS Subscriber, Dispatcher_proofs, FiniteSetTheorems

\* The session's token and start tasks are queued at most once; until the
\* start task has run, no slot has moved.
StartFirst ==
    /\ IsQueued("token", NoArg) => startup = "answered"
    /\ IsQueuedAtMostOnce("token", NoArg)
    /\ IsQueued("start", NoArg) => startup = "joined"
    /\ IsQueuedAtMostOnce("start", NoArg)
    /\ startup # "joined" \/ IsQueued("start", NoArg) =>
        \A s \in Slots : sub[s] = "idle"

\* A slot's own tasks are queued at most once: that of its token between the
\* answer and its use, that of its subscription before it is tracked.
TasksOfSlot ==
    \A s \in Slots :
        /\ IsQueued("subToken", s) => sub[s] \in {"answered", "refused"}
        /\ IsQueuedAtMostOnce("subToken", s)
        /\ IsQueued("subscribed", s) =>
            sub[s] \in {"live", "ended"} /\ handled[s] = 0
        /\ IsQueuedAtMostOnce("subscribed", s)

\* A handler has been called for what failed and for what was tracked.
HandledIsOver ==
    \A s \in Slots :
        /\ handled[s] \in {0, 1}
        /\ sub[s] = "failed" => handled[s] = 1
        /\ handled[s] = 1 => sub[s] \in {"live", "ended", "failed"}
        /\ s \in subscribe_infos =>
            handled[s] = 1 /\ sub[s] \in {"live", "ended"}

\* What ended before it was tracked had no observer.
EndedUntrackedIsUnseen ==
    \A s \in Slots : sub[s] = "ended" /\ handled[s] = 0 => s \in unseen

\* A removal is queued for what has ended or reported an error.
RemovalHasReason ==
    \A s \in Slots :
        IsQueued("remove", s) => sub[s] = "ended" \/ s \in errored

NothingTrackedOutside == ios = "stopped" => subscribe_infos = {}

SubInv ==
    /\ TypeOK
    /\ StartFirst
    /\ TasksOfSlot
    /\ HandledIsOver
    /\ EndedUntrackedIsUnseen
    /\ RemovalHasReason
    /\ NothingTrackedOutside
    /\ ObserversAreTracked
    /\ EndIsHeard
    /\ OnlyErrorsAbandon
    /\ RenderersAreOwned

-----------------------------------------------------------------------------
\* The invariant holds when main() enters the event loop.
LEMMA InitSubInv == Init => SubInv
<1> SUFFICES ASSUME Init PROVE SubInv
  OBVIOUS
<1> USE DEF Init, DispatcherInit, SessionInit
<1>1. queue = <<>> /\ DOMAIN queue = {} /\ Range(queue) = {}
  BY DEF Range
<1>2. TypeOK
  <2>1. DispatcherTypeOK(Tasks)
    BY DEF DispatcherTypeOK, Waits
  <2>2. SessionTypeOK
    BY DEF SessionTypeOK, Responses, NoReply
  <2> QED
    BY <2>1, <2>2 DEF TypeOK, Stages
<1>3. StartFirst /\ TasksOfSlot /\ RemovalHasReason
  BY <1>1 DEF StartFirst, TasksOfSlot, RemovalHasReason, IsQueued,
              IsQueuedAtMostOnce, AtMostOnce
<1>4. /\ HandledIsOver
      /\ EndedUntrackedIsUnseen
      /\ NothingTrackedOutside
      /\ ObserversAreTracked
      /\ EndIsHeard
      /\ OnlyErrorsAbandon
      /\ RenderersAreOwned
  BY DEF HandledIsOver, EndedUntrackedIsUnseen, NothingTrackedOutside,
         ObserversAreTracked, EndIsHeard, OnlyErrorsAbandon, everTracked,
         RenderersAreOwned
<1> QED
  BY <1>2, <1>3, <1>4 DEF SubInv

\* A callback that moves one slot on its way to its subscription, and queues
\* nothing, keeps the invariant if it tells the handler of a failure.
LEMMA SlotMoves ==
    ASSUME SubInv, NEW s \in Slots, NEW stage \in Stages,
           sub[s] \in {"joining", "emplacing", "joined", "requested"},
           stage \notin {"idle", "live", "ended"},
           Goes(s, stage),
           IF stage = "failed" THEN CallsHandler(s) ELSE UNCHANGED handled,
           target' \in [Slots -> Streams \cup {NoStream}],
           \A t \in Slots \ {s} : target'[t] = target[t],
           UNCHANGED <<dispatcherVars, sessionVars, remote, observed,
                       subscribe_infos, renderer, sub_count, unseen, errored>>
    PROVE  SubInv'
<1> USE DEF SubInv, Goes, CallsHandler, dispatcherVars, sessionVars
<1>1. handled[s] = 0 /\ s \notin subscribe_infos
  BY DEF HandledIsOver
<1>2. TypeOK'
  <2>1. DispatcherTypeOK(Tasks)' /\ SessionTypeOK'
    BY DEF TypeOK, DispatcherTypeOK, SessionTypeOK
  <2>2. sub' \in [Slots -> Stages] /\ handled' \in [Slots -> Nat]
    BY DEF TypeOK
  <2> QED
    BY <2>1, <2>2 DEF TypeOK
<1>3. /\ sub'[s] = stage
      /\ \A t \in Slots \ {s} : sub'[t] = sub[t] /\ handled'[t] = handled[t]
      /\ handled'[s] = IF stage = "failed" THEN 1 ELSE 0
  BY <1>1 DEF TypeOK
<1>4. StartFirst'
  BY <1>3 DEF StartFirst, IsQueued, IsQueuedAtMostOnce
<1>5. TasksOfSlot'
  BY <1>3 DEF TasksOfSlot, IsQueued, IsQueuedAtMostOnce
<1>6. HandledIsOver'
  BY <1>1, <1>3 DEF HandledIsOver
<1>7. (EndedUntrackedIsUnseen /\ NothingTrackedOutside
        /\ ObserversAreTracked)'
  BY <1>3 DEF EndedUntrackedIsUnseen, NothingTrackedOutside,
              ObserversAreTracked
<1>8. RemovalHasReason'
  BY <1>3 DEF RemovalHasReason, IsQueued
<1>9. (EndIsHeard /\ OnlyErrorsAbandon)'
  BY <1>1, <1>3 DEF EndIsHeard, OnlyErrorsAbandon, everTracked, IsQueued,
                    TypeOK
<1>10. RenderersAreOwned'
  <2>1. SUFFICES ASSUME NEW x \in Streams, renderer[x] # NoSlot
                 PROVE  /\ renderer[x] \in subscribe_infos \cap ForwardSubs
                        /\ target'[renderer[x]] = x
    BY DEF RenderersAreOwned
  <2>2. /\ renderer[x] \in subscribe_infos \cap ForwardSubs
        /\ target[renderer[x]] = x
    BY <2>1 DEF RenderersAreOwned
  <2>3. renderer[x] \in Slots \ {s}
    BY <1>1, <2>2 DEF TypeOK
  <2> QED
    BY <2>2, <2>3
<1> QED
  BY <1>2, <1>4, <1>5, <1>6, <1>7, <1>8, <1>9, <1>10

-----------------------------------------------------------------------------
\* The tasks that belong to slots are those that were queued before.
SlotTasksStay ==
    \A s \in Slots, op \in {"subToken", "subscribed", "remove"} :
        /\ Task(op, s) \in Range(queue') <=> Task(op, s) \in Range(queue)
        /\ AtMostOnce(Task(op, s), queue) => AtMostOnce(Task(op, s), queue')

\* A step of the session, of the loop or of other participants keeps the
\* invariant if it leaves the slots and their tasks alone.
LEMMA SlotsStay ==
    ASSUME SubInv, SlotTasksStay, StartFirst', ios' \in {ios, "crashed"},
           DispatcherTypeOK(Tasks)', SessionTypeOK', remote' \subseteq Streams,
           UNCHANGED <<sub, handled, tracking>>
    PROVE  SubInv'
<1> USE DEF SubInv, tracking
<1>1. TypeOK'
  BY DEF TypeOK
<1>2. TasksOfSlot'
  BY DEF TasksOfSlot, SlotTasksStay, IsQueued, IsQueuedAtMostOnce
<1>3. (HandledIsOver /\ EndedUntrackedIsUnseen /\ ObserversAreTracked
        /\ NothingTrackedOutside /\ OnlyErrorsAbandon /\ RenderersAreOwned)'
  BY DEF HandledIsOver, EndedUntrackedIsUnseen, ObserversAreTracked,
         NothingTrackedOutside, OnlyErrorsAbandon, RenderersAreOwned,
         everTracked
<1>4. (RemovalHasReason /\ EndIsHeard)'
  BY DEF RemovalHasReason, EndIsHeard, SlotTasksStay, IsQueued, TypeOK
<1> QED
  BY <1>1, <1>2, <1>3, <1>4

\* The tasks and events of the session keep the invariant.
LEMMA SessionKeeps ==
    ASSUME SubInv, UNCHANGED subscriberVars, SessionTask \/ SessionEvent
    PROVE  SubInv'
<1> USE TaskEq, TaskOp
<1> USE DEF Takes, Finishes, FinishesPosting, PostTask, Running
<1>1. /\ queue \in Seq(Tasks) /\ waits \subseteq Waits
      /\ ios \in {"running", "stopped", "crashed"}
      /\ SessionTypeOK /\ StartFirst
      /\ remote' \subseteq Streams /\ UNCHANGED <<sub, handled, tracking>>
  BY DEF SubInv, TypeOK, DispatcherTypeOK, subscriberVars, tracking
<1> USE DEF StartFirst, IsQueued, IsQueuedAtMostOnce, SlotTasksStay,
            DispatcherTypeOK, SessionTypeOK, sessionVars, dispatcherVars,
            PostedFacts, TakenFacts, TakenPostingFacts
<1>2. CASE RunToken
  <2>1. TakenFacts(Tasks)
    BY <1>1, <1>2, Taken DEF RunToken
  <2>2. SlotTasksStay /\ StartFirst' /\ DispatcherTypeOK(Tasks)'
          /\ SessionTypeOK' /\ ios' \in {ios, "crashed"}
    BY <1>1, <1>2, <2>1 DEF RunToken
  <2> QED
    BY <1>1, <2>2, SlotsStay
<1>3. CASE RunTicker
  <2>1. TakenFacts(Tasks)
    BY <1>1, <1>3, Taken DEF RunTicker
  <2>2. SlotTasksStay /\ StartFirst' /\ DispatcherTypeOK(Tasks)'
          /\ SessionTypeOK' /\ ios' \in {ios, "crashed"}
    BY <1>1, <1>3, <2>1 DEF RunTicker, Waits
  <2> QED
    BY <1>1, <2>2, SlotsStay
<1>4. ASSUME NEW w \in {"duration", "signal"}, RunStopRequest(w), info
      PROVE  SubInv'
  <2>1. Task("stop", NoArg) \in Tasks
    BY DEF Tasks, Task, Waits
  <2>2. TakenPostingFacts(Tasks, Task("stop", NoArg))
    BY <1>1, <1>4, <2>1, TakenPosting DEF RunStopRequest
  <2>3. SlotTasksStay /\ StartFirst' /\ DispatcherTypeOK(Tasks)'
          /\ SessionTypeOK' /\ ios' \in {ios, "crashed"}
    BY <1>1, <1>4, <2>2 DEF RunStopRequest
  <2> QED
    BY <1>1, <2>3, SlotsStay
<1>5. ASSUME NEW w \in {"duration", "signal"}, RunStopRequest(w), ~info
      PROVE  SubInv'
  <2>1. TakenFacts(Tasks)
    BY <1>1, <1>5, Taken DEF RunStopRequest
  <2>2. SlotTasksStay /\ StartFirst' /\ DispatcherTypeOK(Tasks)'
          /\ SessionTypeOK' /\ ios' \in {ios, "crashed"}
    BY <1>1, <1>5, <2>1 DEF RunStopRequest
  <2> QED
    BY <1>1, <2>2, SlotsStay
<1>6. ASSUME NEW r \in Responses, TokenResponse(r) PROVE SubInv'
  <2>1. Task("token", NoArg) \in Tasks
    BY DEF Tasks, Task
  <2>2. PostedFacts(Tasks, Task("token", NoArg))
    BY <1>1, <1>6, <2>1, Posted DEF TokenResponse
  <2>3. SlotTasksStay /\ StartFirst' /\ DispatcherTypeOK(Tasks)'
          /\ SessionTypeOK' /\ ios' \in {ios, "crashed"}
    BY <1>1, <1>6, <2>2 DEF TokenResponse
  <2> QED
    BY <1>1, <2>3, SlotsStay
<1>7. CASE JoinSucceeds \/ JoinFails
  <2>1. SlotTasksStay /\ StartFirst' /\ DispatcherTypeOK(Tasks)'
          /\ SessionTypeOK' /\ ios' \in {ios, "crashed"}
    BY <1>1, <1>7 DEF JoinSucceeds, JoinFails
  <2> QED
    BY <1>1, <2>1, SlotsStay
<1>8. CASE Run
  <2>1. Task("start", NoArg) \in Tasks
    BY DEF Tasks, Task
  <2>2. PostedFacts(Tasks, Task("start", NoArg))
    BY <1>1, <1>8, <2>1, Posted DEF Run
  <2>3. SlotTasksStay /\ StartFirst' /\ DispatcherTypeOK(Tasks)'
          /\ SessionTypeOK' /\ ios' \in {ios, "crashed"}
    BY <1>1, <1>8, <2>2 DEF Run, Waits
  <2> QED
    BY <1>1, <2>3, SlotsStay
<1>9. ASSUME NEW w \in Waits, WaitCompletes(w), UNCHANGED sessionVars
      PROVE  SubInv'
  <2>1. Task(w, NoArg) \in Tasks
    BY DEF Tasks, Task
  <2>2. PostedFacts(Tasks, Task(w, NoArg))
    BY <1>1, <1>9, <2>1, Posted DEF WaitCompletes
  <2>3. SlotTasksStay /\ StartFirst' /\ DispatcherTypeOK(Tasks)'
          /\ SessionTypeOK' /\ ios' \in {ios, "crashed"}
    BY <1>1, <1>9, <2>2 DEF WaitCompletes, Waits
  <2> QED
    BY <1>1, <2>3, SlotsStay
<1>10. CASE (SecondSignal /\ UNCHANGED sessionVars) \/ Throws
  <2>1. SlotTasksStay /\ StartFirst' /\ DispatcherTypeOK(Tasks)'
          /\ SessionTypeOK' /\ ios' \in {ios, "crashed"}
    BY <1>1, <1>10 DEF SecondSignal, Throws
  <2> QED
    BY <1>1, <2>1, SlotsStay
<1> QED
  BY <1>2, <1>3, <1>4, <1>5, <1>6, <1>7, <1>8, <1>9, <1>10
  DEF SessionTask, SessionEvent, TokenThrows

\* Steps that change neither the queue nor any slot keep it.
LEMMA OthersKeep ==
    ASSUME SubInv,
           StreamsChange \/ EmplaceRace \/ SubTokenThrows \/ UNCHANGED vars
    PROVE  SubInv'
<1> USE DEF SubInv, TypeOK, DispatcherTypeOK, SessionTypeOK, StartFirst,
            IsQueued, IsQueuedAtMostOnce, dispatcherVars, sessionVars,
            subscriberVars
<1>1. /\ SlotTasksStay /\ UNCHANGED <<sub, handled, tracking>>
      /\ remote' \subseteq Streams
      /\ ios' \in {ios, "crashed"} /\ UNCHANGED <<queue, waits, sessionVars>>
  BY DEF StreamsChange, EmplaceRace, SubTokenThrows, Throws, vars,
         SlotTasksStay, tracking
<1>2. StartFirst' /\ DispatcherTypeOK(Tasks)' /\ SessionTypeOK'
  BY <1>1
<1> QED
  BY <1>1, <1>2, SlotsStay

\* The first task of the role finds every slot at rest.
LEMMA StartKeeps == ASSUME SubInv, RunStart PROVE SubInv'
<1> USE TaskEq, TaskOp
<1> USE DEF Takes, Finishes, Running, SubInv, IsQueued, IsQueuedAtMostOnce
<1>1. /\ TakenFacts(Tasks)
      /\ IsQueued("start", NoArg)
      /\ Head(queue) = Task("start", NoArg)
  BY Taken, TailFacts DEF RunStart, TypeOK, DispatcherTypeOK
<1> USE DEF TakenFacts
<1>2. /\ \A s \in Slots : sub[s] = "idle" /\ sub'[s] = "token"
      /\ \A s \in Slots : handled[s] = 0 /\ handled'[s] = 0
      /\ subscribe_infos = {} /\ subscribe_infos' = {}
  BY <1>1 DEF RunStart, StartFirst, HandledIsOver, TypeOK, tracking
<1>3. TypeOK'
  <2>1. DispatcherTypeOK(Tasks)' /\ SessionTypeOK'
    BY <1>1 DEF RunStart, TypeOK, DispatcherTypeOK, SessionTypeOK, sessionVars
  <2>2. sub' \in [Slots -> Stages]
    BY DEF RunStart, Stages
  <2> QED
    BY <2>1, <2>2 DEF RunStart, TypeOK, tracking
<1>4. StartFirst'
  BY <1>1 DEF RunStart, StartFirst, sessionVars
<1>5. TasksOfSlot'
  BY <1>1, <1>2 DEF TasksOfSlot
<1>6. (HandledIsOver /\ EndedUntrackedIsUnseen /\ NothingTrackedOutside
        /\ EndIsHeard)'
  BY <1>2 DEF HandledIsOver, EndedUntrackedIsUnseen, NothingTrackedOutside,
              EndIsHeard
<1>7. (ObserversAreTracked /\ OnlyErrorsAbandon /\ RenderersAreOwned)'
  BY <1>2 DEF RunStart, ObserversAreTracked, OnlyErrorsAbandon, everTracked,
              RenderersAreOwned, tracking
<1>8. RemovalHasReason'
  BY <1>1, <1>2 DEF RunStart, RemovalHasReason, tracking
<1> QED
  BY <1>3, <1>4, <1>5, <1>6, <1>7, <1>8

\* The answer of a slot's token is posted once and used once.
LEMMA SubTokenKeeps ==
    ASSUME SubInv, NEW s \in Slots, SubTokenResponse(s) \/ RunSubToken(s)
    PROVE  SubInv'
<1> USE TaskEq, TaskOp
<1> USE DEF Takes, Finishes, PostTask, Running, SubInv, IsQueued,
            IsQueuedAtMostOnce, Goes, Fails, CallsHandler
<1>1. CASE SubTokenResponse(s)
  <2>1. Task("subToken", s) \in Tasks
    BY DEF Tasks, Task
  <2>2. PostedFacts(Tasks, Task("subToken", s))
    BY <1>1, <2>1, Posted DEF SubTokenResponse, TypeOK, DispatcherTypeOK
  <2> USE DEF PostedFacts
  <2>3. /\ sub[s] = "token" /\ sub'[s] \in {"answered", "refused"}
        /\ \A t \in Slots \ {s} : sub'[t] = sub[t]
        /\ UNCHANGED handled /\ s \notin subscribe_infos /\ handled[s] = 0
    BY <1>1, SMTT(30) DEF SubTokenResponse, TypeOK, HandledIsOver
  <2>4. TypeOK'
    <3>1. DispatcherTypeOK(Tasks)' /\ SessionTypeOK'
      BY <1>1, <2>2
      DEF SubTokenResponse, TypeOK, DispatcherTypeOK, SessionTypeOK, sessionVars
    <3>2. sub' \in [Slots -> Stages]
      BY <1>1 DEF SubTokenResponse, Stages, TypeOK
    <3> QED
      BY <1>1, <3>1, <3>2 DEF SubTokenResponse, TypeOK, tracking
  <2>5. StartFirst'
    BY <1>1, <2>2, <2>3 DEF SubTokenResponse, StartFirst, sessionVars
  <2>6. TasksOfSlot'
    BY <2>2, <2>3 DEF TasksOfSlot
  <2>7. (HandledIsOver /\ EndedUntrackedIsUnseen /\ NothingTrackedOutside)'
    BY <1>1, <2>3 DEF SubTokenResponse, HandledIsOver, EndedUntrackedIsUnseen,
                 NothingTrackedOutside, tracking
  <2>8. (ObserversAreTracked /\ OnlyErrorsAbandon /\ RenderersAreOwned)'
    BY <1>1, <2>3 DEF SubTokenResponse, ObserversAreTracked, OnlyErrorsAbandon,
                 everTracked, RenderersAreOwned, tracking
  <2>9. (RemovalHasReason /\ EndIsHeard)'
    BY <1>1, <2>2, <2>3 DEF SubTokenResponse, RemovalHasReason, EndIsHeard,
                 TypeOK, tracking
  <2> QED
    BY <2>4, <2>5, <2>6, <2>7, <2>8, <2>9
<1>2. CASE RunSubToken(s)
  <2>1. TakenFacts(Tasks) /\ Head(queue) = Task("subToken", s)
    BY <1>2, Taken DEF RunSubToken, TypeOK, DispatcherTypeOK
  <2> USE DEF TakenFacts
  <2>2. /\ sub[s] \in {"answered", "refused"}
        /\ sub'[s] \in {"joining", "failed"}
        /\ sub'[s] = "failed" <=> handled'[s] = 1
        /\ handled'[s] \in {0, 1}
        /\ \A t \in Slots \ {s} : sub'[t] = sub[t] /\ handled'[t] = handled[t]
        /\ s \notin subscribe_infos /\ handled[s] = 0
    BY <1>2 DEF RunSubToken, TypeOK, HandledIsOver
  <2>3. TypeOK'
    <3>1. DispatcherTypeOK(Tasks)' /\ SessionTypeOK'
      BY <1>2, <2>1
      DEF RunSubToken, TypeOK, DispatcherTypeOK, SessionTypeOK, sessionVars
    <3>2. sub' \in [Slots -> Stages]
      BY <1>2 DEF RunSubToken, Stages, TypeOK
    <3>3. handled' \in [Slots -> Nat]
      <4>1. handled \in [Slots -> Nat] /\ handled[s] + 1 \in Nat
        BY <2>2 DEF TypeOK
      <4>2. UNCHANGED handled \/ handled' = [handled EXCEPT ![s] = @ + 1]
        BY <1>2 DEF RunSubToken
      <4> QED
        BY <4>1, <4>2
    <3>4. UNCHANGED <<remote, tracking>>
      BY <1>2 DEF RunSubToken
    <3> QED
      BY <3>1, <3>2, <3>3, <3>4 DEF TypeOK, tracking
  <2>4. StartFirst'
    BY <1>2, <2>1, <2>2 DEF RunSubToken, StartFirst, sessionVars
  <2>5. TasksOfSlot'
    BY <2>1, <2>2 DEF TasksOfSlot
  <2>6. (HandledIsOver /\ EndedUntrackedIsUnseen /\ NothingTrackedOutside)'
    BY <1>2, <2>2 DEF RunSubToken, HandledIsOver, EndedUntrackedIsUnseen,
                 NothingTrackedOutside, tracking
  <2>7. (ObserversAreTracked /\ OnlyErrorsAbandon /\ RenderersAreOwned)'
    BY <1>2, <2>2 DEF RunSubToken, ObserversAreTracked, OnlyErrorsAbandon,
                 everTracked, RenderersAreOwned, tracking
  <2>8. (RemovalHasReason /\ EndIsHeard)'
    BY <1>2, <2>1, <2>2 DEF RunSubToken, RemovalHasReason, EndIsHeard,
                 TypeOK, tracking
  <2> QED
    BY <2>3, <2>4, <2>5, <2>6, <2>7, <2>8
<1> QED
  BY <1>1, <1>2

\* Subscribe succeeds once for a slot, and its task comes behind no other.
LEMMA SubscribeKeeps ==
    ASSUME SubInv, NEW s \in Slots, SubscribeSucceeds(s)
    PROVE  SubInv'
<1> USE TaskEq, TaskOp
<1> USE DEF PostTask, Running, SubInv, IsQueued, IsQueuedAtMostOnce, Goes,
            SubscribeSucceeds
<1>1. Task("subscribed", s) \in Tasks
  BY DEF Tasks, Task
<1>2. PostedFacts(Tasks, Task("subscribed", s))
  BY <1>1, Posted DEF TypeOK, DispatcherTypeOK
<1> USE DEF PostedFacts
<1>3. /\ sub[s] = "requested" /\ sub'[s] = "live"
      /\ \A t \in Slots \ {s} : sub'[t] = sub[t]
      /\ UNCHANGED handled /\ s \notin subscribe_infos /\ handled[s] = 0
  BY DEF TypeOK, HandledIsOver
<1>4. TypeOK'
  <2>1. DispatcherTypeOK(Tasks)' /\ SessionTypeOK'
    BY <1>2 DEF TypeOK, DispatcherTypeOK, SessionTypeOK, sessionVars
  <2>2. sub' \in [Slots -> Stages]
    BY DEF Stages, TypeOK
  <2> QED
    BY <2>1, <2>2 DEF TypeOK, tracking
<1>5. StartFirst'
  BY <1>2, <1>3 DEF StartFirst, sessionVars
<1>6. TasksOfSlot'
  BY <1>2, <1>3 DEF TasksOfSlot
<1>7. (HandledIsOver /\ EndedUntrackedIsUnseen /\ NothingTrackedOutside)'
  BY <1>3 DEF HandledIsOver, EndedUntrackedIsUnseen, NothingTrackedOutside,
              tracking
<1>8. (ObserversAreTracked /\ OnlyErrorsAbandon /\ RenderersAreOwned)'
  BY <1>3 DEF ObserversAreTracked, OnlyErrorsAbandon, everTracked,
              RenderersAreOwned, tracking
<1>9. (RemovalHasReason /\ EndIsHeard)'
  BY <1>2, <1>3 DEF RemovalHasReason, EndIsHeard, TypeOK, tracking
<1> QED
  BY <1>4, <1>5, <1>6, <1>7, <1>8, <1>9

\* The task of the success callback finds a slot that was never tracked.
LEMMA SubscribedKeeps ==
    ASSUME SubInv, NEW s \in Slots, RunSubscribed(s)
    PROVE  SubInv'
<1> USE TaskEq, TaskOp
<1> USE DEF Takes, Finishes, Running, SubInv, IsQueued, IsQueuedAtMostOnce,
            CallsHandler, RunSubscribed
<1>1. /\ TakenFacts(Tasks) /\ Head(queue) = Task("subscribed", s)
      /\ IsQueued("subscribed", s)
  BY Taken, TailFacts DEF TypeOK, DispatcherTypeOK
<1> USE DEF TakenFacts
<1>2. /\ sub[s] \in {"live", "ended"} /\ handled[s] = 0 /\ handled'[s] = 1
      /\ \A t \in Slots \ {s} : handled'[t] = handled[t]
      /\ s \notin subscribe_infos
      /\ UNCHANGED sub
  BY <1>1 DEF TypeOK, TasksOfSlot, HandledIsOver
<1>3. TypeOK'
  <2>1. DispatcherTypeOK(Tasks)' /\ SessionTypeOK'
    BY <1>1 DEF TypeOK, DispatcherTypeOK, SessionTypeOK, sessionVars
  <2>2. handled' \in [Slots -> Nat]
    BY DEF TypeOK
  <2>3. renderer' \in [Streams -> Slots \cup {NoSlot}]
    BY DEF TypeOK
  <2> QED
    BY <2>1, <2>2, <2>3 DEF TypeOK
<1>4. StartFirst'
  BY <1>1 DEF StartFirst, sessionVars
<1>5. TasksOfSlot'
  BY <1>1, <1>2 DEF TasksOfSlot
<1>6. (HandledIsOver /\ EndedUntrackedIsUnseen /\ NothingTrackedOutside)'
  BY <1>2 DEF HandledIsOver, EndedUntrackedIsUnseen, NothingTrackedOutside
<1>7. (ObserversAreTracked /\ OnlyErrorsAbandon)'
  BY <1>2 DEF ObserversAreTracked, OnlyErrorsAbandon, everTracked
<1>8. RenderersAreOwned'
  <2>1. SUFFICES ASSUME NEW x \in Streams, renderer'[x] # NoSlot
                 PROVE  /\ renderer'[x] \in subscribe_infos' \cap ForwardSubs
                        /\ target[renderer'[x]] = x
    BY DEF RenderersAreOwned
  <2>2. CASE s \in ForwardSubs /\ target[s] = x
    BY <2>2 DEF TypeOK
  <2>3. CASE ~(s \in ForwardSubs /\ target[s] = x)
    BY <2>1, <2>3 DEF RenderersAreOwned, TypeOK
  <2> QED
    BY <2>2, <2>3
<1>9. (RemovalHasReason /\ EndIsHeard)'
  BY <1>1, <1>2 DEF RemovalHasReason, EndIsHeard, EndedUntrackedIsUnseen
<1> QED
  BY <1>3, <1>4, <1>5, <1>6, <1>7, <1>8, <1>9

\* The server ends a subscription; its observer, if any, says so.
LEMMA ServerEndsKeeps ==
    ASSUME SubInv, NEW s \in Slots, ServerEnds(s)
    PROVE  SubInv'
<1> USE TaskEq, TaskOp
<1> USE DEF PostTask, Running, SubInv, IsQueued, IsQueuedAtMostOnce, Goes,
            ServerEnds, OnEnded
<1>1. Task("remove", s) \in Tasks
  BY DEF Tasks, Task
<1>2. IF s \in observed
      THEN PostedFacts(Tasks, Task("remove", s)) /\ UNCHANGED unseen
      ELSE unseen' = unseen \cup {s} /\ UNCHANGED queue
  BY <1>1, Posted DEF TypeOK, DispatcherTypeOK
<1>3. /\ sub[s] = "live" /\ sub'[s] = "ended"
      /\ \A t \in Slots \ {s} : sub'[t] = sub[t]
      /\ s \in observed <=> s \in subscribe_infos
      /\ s \in subscribe_infos => handled[s] = 1
  BY DEF TypeOK, HandledIsOver, ObserversAreTracked
<1>4. /\ queue' \in Seq(Tasks)
      /\ Range(queue') \subseteq Range(queue) \cup {Task("remove", s)}
      /\ Range(queue) \subseteq Range(queue')
      /\ s \in observed => Task("remove", s) \in Range(queue')
      /\ \A x : AtMostOnce(x, queue) /\ x # Task("remove", s)
                  => AtMostOnce(x, queue')
  BY <1>2 DEF PostedFacts, TypeOK, DispatcherTypeOK
<1>5. TypeOK'
  <2>1. DispatcherTypeOK(Tasks)' /\ SessionTypeOK'
    BY <1>4 DEF TypeOK, DispatcherTypeOK, SessionTypeOK, sessionVars
  <2>2. sub' \in [Slots -> Stages]
    BY DEF Stages, TypeOK
  <2>3. unseen' \subseteq Slots
    BY <1>2 DEF TypeOK
  <2> QED
    BY <2>1, <2>2, <2>3 DEF TypeOK
<1>6. StartFirst'
  BY <1>3, <1>4 DEF StartFirst, sessionVars
<1>7. TasksOfSlot'
  BY <1>3, <1>4 DEF TasksOfSlot
<1>8. (HandledIsOver /\ NothingTrackedOutside)'
  BY <1>3 DEF HandledIsOver, NothingTrackedOutside
<1>9. EndedUntrackedIsUnseen'
  BY <1>2, <1>3 DEF EndedUntrackedIsUnseen
<1>10. (ObserversAreTracked /\ OnlyErrorsAbandon /\ RenderersAreOwned)'
  BY <1>3 DEF ObserversAreTracked, OnlyErrorsAbandon, everTracked,
              RenderersAreOwned
<1>11. RemovalHasReason'
  BY <1>3, <1>4 DEF RemovalHasReason
<1>12. EndIsHeard'
  <2>1. SUFFICES ASSUME NEW t \in subscribe_infos, sub'[t] = "ended"
                 PROVE  t \in unseen' \/ Task("remove", t) \in Range(queue')
    BY DEF EndIsHeard
  <2>2. CASE t = s
    BY <1>3, <1>4, <2>1, <2>2
  <2>3. CASE t # s
    BY <1>2, <1>3, <1>4, <2>1, <2>3 DEF EndIsHeard, TypeOK
  <2> QED
    BY <2>2, <2>3
<1> QED
  BY <1>5, <1>6, <1>7, <1>8, <1>9, <1>10, <1>11, <1>12

\* An error posts a removal and says why.
LEMMA ServerErrorsKeeps ==
    ASSUME SubInv, NEW s \in Slots, ServerErrors(s)
    PROVE  SubInv'
<1> USE TaskEq, TaskOp
<1> USE DEF PostTask, Running, SubInv, IsQueued, IsQueuedAtMostOnce,
            ServerErrors, OnEnded
<1>1. Task("remove", s) \in Tasks
  BY DEF Tasks, Task
<1>2. PostedFacts(Tasks, Task("remove", s))
  BY <1>1, Posted DEF TypeOK, DispatcherTypeOK
<1> USE DEF PostedFacts
<1>3. TypeOK'
  <2>1. DispatcherTypeOK(Tasks)' /\ SessionTypeOK'
    BY <1>2 DEF TypeOK, DispatcherTypeOK, SessionTypeOK, sessionVars
  <2> QED
    BY <2>1 DEF TypeOK
<1>4. StartFirst' /\ TasksOfSlot'
  BY <1>2 DEF StartFirst, TasksOfSlot, sessionVars
<1>5. (HandledIsOver /\ EndedUntrackedIsUnseen /\ NothingTrackedOutside)'
  BY DEF HandledIsOver, EndedUntrackedIsUnseen, NothingTrackedOutside
<1>6. (ObserversAreTracked /\ OnlyErrorsAbandon /\ RenderersAreOwned)'
  BY DEF ObserversAreTracked, OnlyErrorsAbandon, everTracked,
         RenderersAreOwned
<1>7. (RemovalHasReason /\ EndIsHeard)'
  BY <1>2 DEF RemovalHasReason, EndIsHeard
<1> QED
  BY <1>3, <1>4, <1>5, <1>6, <1>7

\* The first removal of a slot takes its renderer and its observer along, a
\* second one finds nothing.
LEMMA RemoveKeeps ==
    ASSUME SubInv, NEW s \in Slots, RunRemove(s)
    PROVE  SubInv'
<1> USE TaskEq, TaskOp
<1> USE DEF Takes, Finishes, Running, SubInv, IsQueued, IsQueuedAtMostOnce,
            RunRemove, Detaches
<1>1. /\ TakenFacts(Tasks) /\ Head(queue) = Task("remove", s)
      /\ IsQueued("remove", s)
  BY Taken, TailFacts DEF TypeOK, DispatcherTypeOK
<1> USE DEF TakenFacts
<1>2. /\ subscribe_infos' = subscribe_infos \ {s}
      /\ observed' = subscribe_infos \ {s}
      /\ UNCHANGED <<sub, handled, target, unseen, errored>>
  BY DEF ObserversAreTracked
<1>3. \A x \in Streams :
          /\ renderer'[x] \in {NoSlot, renderer[x]}
          /\ s \in subscribe_infos /\ target[s] = x => renderer'[x] = NoSlot
  BY DEF TypeOK
<1>4. TypeOK'
  <2>1. DispatcherTypeOK(Tasks)' /\ SessionTypeOK'
    BY <1>1 DEF TypeOK, DispatcherTypeOK, SessionTypeOK, sessionVars
  <2>2. renderer' \in [Streams -> Slots \cup {NoSlot}]
    BY DEF TypeOK
  <2>3. sub_count' \in Int
    BY DEF TypeOK
  <2> QED
    BY <1>2, <2>1, <2>2, <2>3 DEF TypeOK
<1>5. StartFirst'
  BY <1>1 DEF StartFirst, sessionVars
<1>6. TasksOfSlot'
  BY <1>1, <1>2 DEF TasksOfSlot
<1>7. (HandledIsOver /\ EndedUntrackedIsUnseen /\ NothingTrackedOutside
        /\ ObserversAreTracked)'
  BY <1>2 DEF HandledIsOver, EndedUntrackedIsUnseen, NothingTrackedOutside,
              ObserversAreTracked
<1>8. OnlyErrorsAbandon'
  BY <1>1, <1>2 DEF OnlyErrorsAbandon, everTracked, RemovalHasReason
<1>9. RenderersAreOwned'
  BY <1>2, <1>3 DEF RenderersAreOwned
<1>10. (RemovalHasReason /\ EndIsHeard)'
  BY <1>1, <1>2 DEF RemovalHasReason, EndIsHeard, TypeOK
<1> QED
  BY <1>4, <1>5, <1>6, <1>7, <1>8, <1>9, <1>10

\* Stop empties the map and ends what was in it.
LEMMA StopKeeps == ASSUME SubInv, RunStop PROVE SubInv'
<1> USE TaskEq, TaskOp
<1> USE DEF Takes, Finishes, Running, SubInv, IsQueued, IsQueuedAtMostOnce,
            RunStop, Detaches
<1>1. TakenFacts(Tasks) /\ Head(queue) = Task("stop", NoArg)
  BY Taken DEF TypeOK, DispatcherTypeOK
<1> USE DEF TakenFacts
<1>2. /\ subscribe_infos' = {} /\ observed' = {}
      /\ \A s \in subscribe_infos : sub'[s] = "ended" /\ handled[s] = 1
      /\ \A s \in Slots \ subscribe_infos : sub'[s] = sub[s]
      /\ \A s \in subscribe_infos : sub[s] \in {"live", "ended"}
      /\ UNCHANGED <<handled, target, unseen, errored>>
  BY DEF ObserversAreTracked, HandledIsOver, TypeOK
<1>3. \A x \in Streams : renderer'[x] = NoSlot
  BY DEF RenderersAreOwned
<1>4. TypeOK'
  <2>1. DispatcherTypeOK(Tasks)' /\ SessionTypeOK'
    BY <1>1 DEF TypeOK, DispatcherTypeOK, SessionTypeOK, sessionVars
  <2>2. renderer' \in [Streams -> Slots \cup {NoSlot}]
    BY DEF TypeOK
  <2>3. sub' \in [Slots -> Stages]
    BY DEF TypeOK, Stages
  <2> QED
    BY <1>2, <2>1, <2>2, <2>3 DEF TypeOK
<1>5. StartFirst'
  <2>1. ASSUME NEW s \in Slots, sub[s] = "idle" PROVE sub'[s] = "idle"
    BY <1>2, <2>1
  <2> QED
    BY <1>1, <2>1 DEF StartFirst, sessionVars
<1>6. TasksOfSlot'
  BY <1>1, <1>2 DEF TasksOfSlot
<1>7. (HandledIsOver /\ EndedUntrackedIsUnseen)'
  BY <1>2 DEF HandledIsOver, EndedUntrackedIsUnseen
<1>8. (NothingTrackedOutside /\ ObserversAreTracked /\ OnlyErrorsAbandon)'
  BY <1>2 DEF NothingTrackedOutside, ObserversAreTracked, OnlyErrorsAbandon,
              everTracked
<1>9. RenderersAreOwned'
  BY <1>3 DEF RenderersAreOwned
<1>10. RemovalHasReason'
  BY <1>1, <1>2 DEF RemovalHasReason
<1>11. EndIsHeard'
  BY <1>2 DEF EndIsHeard
<1> QED
  BY <1>4, <1>5, <1>6, <1>7, <1>8, <1>9, <1>10, <1>11

\* Every step of the program keeps the invariant.
LEMMA NextSubInv == SubInv /\ [Next]_vars => SubInv'
<1> SUFFICES ASSUME SubInv, [Next]_vars PROVE SubInv'
  OBVIOUS
<1>1. ASSUME NEW s \in Slots,
             \/ SubJoinFails(s)
             \/ SubJoinSucceeds(s)
             \/ Emplaced(s)
             \/ SubscribeFails(s)
      PROVE  SubInv'
  <2>1. target \in [Slots -> Streams \cup {NoStream}]
    BY DEF SubInv, TypeOK
  <2>2. PICK stage \in {"failed", "emplacing", "joined"} :
          /\ sub[s] \in {"joining", "emplacing", "joined", "requested"}
          /\ Goes(s, stage)
          /\ IF stage = "failed" THEN CallsHandler(s) ELSE UNCHANGED handled
          /\ UNCHANGED <<dispatcherVars, sessionVars, remote, tracking>>
    BY <1>1 DEF SubJoinFails, SubJoinSucceeds, Emplaced, SubscribeFails, Fails
  <2> QED
    BY <2>1, <2>2, SlotMoves DEF Stages, tracking
<1>2. ASSUME NEW s \in Slots, ChooseMixed(s) \/ ChooseForward(s)
      PROVE  SubInv'
  <2>1. /\ target \in [Slots -> Streams \cup {NoStream}]
        /\ remote \subseteq Streams
    BY DEF SubInv, TypeOK
  <2>2. PICK stage \in {"failed", "stuck", "spinning", "requested"} :
          /\ sub[s] = "joined"
          /\ Goes(s, stage)
          /\ IF stage = "failed" THEN CallsHandler(s) ELSE UNCHANGED handled
    BY <1>2 DEF ChooseMixed, ChooseForward, Fails
  <2>3. /\ UNCHANGED <<dispatcherVars, sessionVars, remote, observed,
                       subscribe_infos, renderer, sub_count, unseen, errored>>
        /\ \/ UNCHANGED target
           \/ \E x \in remote : target' = [target EXCEPT ![s] = x]
    BY <1>2 DEF ChooseMixed, ChooseForward, OfKind
  <2>4. /\ target' \in [Slots -> Streams \cup {NoStream}]
        /\ \A t \in Slots \ {s} : target'[t] = target[t]
    BY <2>1, <2>3
  <2> QED
    BY <2>2, <2>3, <2>4, SlotMoves DEF Stages
<1> QED
  BY <1>1, <1>2, SessionKeeps, OthersKeep, StartKeeps, SubTokenKeeps,
     SubscribeKeeps, SubscribedKeeps, ServerEndsKeeps, ServerErrorsKeeps,
     RemoveKeeps, StopKeeps
  DEF Next, Dispatch, Terminated

-----------------------------------------------------------------------------
\* Every reachable state satisfies the inductive invariant.
THEOREM Invariance == Spec => []SubInv
BY InitSubInv, NextSubInv, PTL DEF Spec

\* Every variable stays within its type, whatever the numbers of
\* subscriptions and streams.
THEOREM TypeCorrect == Spec => []TypeOK
<1>1. SubInv => TypeOK
  BY DEF SubInv
<1> QED
  BY <1>1, Invariance, PTL

\* A SubObserver is registered exactly while its entry in subscribe_infos_
\* exists: neither RemoveSubscribe nor Stop leaves a dangling reference.
THEOREM ObserversTracked == Spec => []ObserversAreTracked
<1>1. SubInv => ObserversAreTracked
  BY DEF SubInv
<1> QED
  BY <1>1, Invariance, PTL

\* No stream renders into a VideoRendererMem whose entry is gone, whatever
\* slots share the stream.
THEOREM RenderersOwned == Spec => []RenderersAreOwned
<1>1. SubInv => RenderersAreOwned
  BY DEF SubInv
<1> QED
  BY <1>1, Invariance, PTL

\* The end of a tracked subscription is queued for removal unless it came
\* before the observer.
THEOREM EndHeard == Spec => []EndIsHeard
<1>1. SubInv => EndIsHeard
  BY DEF SubInv
<1> QED
  BY <1>1, Invariance, PTL

\* Only an error makes the processor forget a subscription that is live.
THEOREM OnlyErrors == Spec => []OnlyErrorsAbandon
<1>1. SubInv => OnlyErrorsAbandon
  BY DEF SubInv
<1> QED
  BY <1>1, Invariance, PTL

\* SubscribeOne tells its handler once, whichever of the client's thread and
\* the dispatcher does it.
THEOREM ToldOnce == Spec => []HandlerToldOnce
<1>1. SubInv => HandlerToldOnce
  BY DEF SubInv, HandledIsOver, HandlerToldOnce
<1> QED
  BY <1>1, Invariance, PTL

-----------------------------------------------------------------------------
\* What a step does to the entries: nothing, ...
EntriesStay ==
    everTracked' = everTracked /\ UNCHANGED <<subscribe_infos, sub_count>>

\* ... it adds the first one of a slot, ...
Adds(s) ==
    /\ Running /\ UNCHANGED <<ios, sub_count>>
    /\ s \notin everTracked
    /\ subscribe_infos' = subscribe_infos \cup {s}
    /\ everTracked' = everTracked \cup {s}

\* ... it takes one away, ...
TakesAway(s) ==
    /\ Running /\ UNCHANGED ios
    /\ everTracked' = everTracked
    /\ s \in subscribe_infos
    /\ subscribe_infos' = subscribe_infos \ {s}
    /\ sub_count' = sub_count - 1

\* ... or it takes all of them away and leaves the loop.
TakesAllAway ==
    /\ Running /\ ios' \in {"stopped", "crashed"}
    /\ subscribe_infos' = {}
    /\ everTracked' = everTracked

\* There is no other kind of step.
LEMMA EntrySteps ==
    ASSUME SubInv, [Next]_vars
    PROVE  \/ EntriesStay /\ (ios' = ios \/ (Running /\ ios' = "crashed"))
           \/ \E s \in Slots : Adds(s) \/ TakesAway(s)
           \/ TakesAllAway
<1> DEFINE Goal == \/ EntriesStay /\ (ios' = ios \/ (Running /\ ios' = "crashed"))
                   \/ \E s \in Slots : Adds(s) \/ TakesAway(s)
                   \/ TakesAllAway
<1>1. /\ sub \in [Slots -> Stages] /\ handled \in [Slots -> Nat]
      /\ subscribe_infos \subseteq everTracked
      /\ HandledIsOver
  BY DEF SubInv, TypeOK, HandledIsOver, everTracked
<1>2. ASSUME NEW s \in Slots, RunSubscribed(s) PROVE Goal
  <2>1. IsQueued("subscribed", s)
    BY <1>2, TailFacts
    DEF RunSubscribed, Takes, IsQueued, SubInv, TypeOK, DispatcherTypeOK
  <2>2. sub[s] \in {"live", "ended"} /\ handled[s] = 0
    BY <2>1 DEF SubInv, TasksOfSlot
  <2>3. handled' = [handled EXCEPT ![s] = 1] /\ UNCHANGED sub
    BY <1>2, <2>2 DEF RunSubscribed, CallsHandler
  <2>4. Adds(s)
    BY <1>1, <1>2, <2>2, <2>3 DEF RunSubscribed, Takes, Adds, everTracked
  <2> QED
    BY <2>4
<1>3. ASSUME NEW s \in Slots, RunRemove(s) PROVE Goal
  BY <1>3 DEF RunRemove, Takes, TakesAway, EntriesStay, everTracked
<1>4. ASSUME RunStop PROVE Goal
  BY <1>1, <1>4 DEF RunStop, Takes, TakesAllAway, everTracked
<1>5. ASSUME NEW s \in Slots,
             \/ /\ sub[s] \in {"live", "ended"} /\ Goes(s, "ended")
                /\ UNCHANGED handled
             \/ /\ sub[s] \notin {"live", "ended"} /\ handled[s] = 0
                /\ \E stage \in Stages \ {"live", "ended"} : Goes(s, stage)
                /\ UNCHANGED handled \/ CallsHandler(s)
             \/ /\ sub[s] \notin {"live", "ended"} /\ handled[s] = 0
                /\ Goes(s, "live") /\ UNCHANGED handled,
             UNCHANGED <<subscribe_infos, sub_count, ios>>
      PROVE  Goal
  <2>1. \A t \in Slots \ {s} : sub'[t] = sub[t] /\ handled'[t] = handled[t]
    BY <1>1, <1>5 DEF Goes, CallsHandler
  <2>2. \/ /\ sub[s] \in {"live", "ended"} /\ sub'[s] = "ended"
           /\ handled'[s] = handled[s]
        \/ sub[s] \notin {"live", "ended"} /\ sub'[s] \notin {"live", "ended"}
        \/ sub[s] \notin {"live", "ended"} /\ handled'[s] = 0
    BY <1>1, <1>5 DEF Goes, CallsHandler
  <2>3. everTracked' = everTracked
    BY <2>1, <2>2 DEF everTracked
  <2> QED
    BY <1>5, <2>3 DEF EntriesStay
<1>6. ASSUME NEW s \in Slots,
             \/ SubTokenResponse(s) \/ RunSubToken(s)
             \/ SubJoinFails(s) \/ SubJoinSucceeds(s) \/ Emplaced(s)
             \/ ChooseMixed(s) \/ ChooseForward(s)
             \/ SubscribeFails(s) \/ SubscribeSucceeds(s)
             \/ ServerEnds(s)
      PROVE  Goal
  <2>1. UNCHANGED <<subscribe_infos, sub_count, ios>>
    BY <1>6
    DEF SubTokenResponse, RunSubToken, SubJoinFails, SubJoinSucceeds, Emplaced,
        ChooseMixed, ChooseForward, SubscribeFails, SubscribeSucceeds,
        ServerEnds, tracking, dispatcherVars
  <2>2. CASE ServerEnds(s)
    BY <1>5, <2>1, <2>2 DEF ServerEnds
  <2>3. CASE ~ServerEnds(s)
    <3>1. sub[s] \notin {"live", "ended", "failed"}
      BY <1>6, <2>3
      DEF SubTokenResponse, RunSubToken, SubJoinFails, SubJoinSucceeds,
          Emplaced, ChooseMixed, ChooseForward, SubscribeFails,
          SubscribeSucceeds
    <3>2. handled[s] = 0
      BY <1>1, <3>1 DEF HandledIsOver
    <3>3. CASE SubscribeSucceeds(s)
      BY <1>5, <2>1, <3>1, <3>2, <3>3 DEF SubscribeSucceeds
    <3>4. CASE ~SubscribeSucceeds(s)
      <4>1. /\ \E stage \in Stages \ {"live", "ended"} : Goes(s, stage)
            /\ UNCHANGED handled \/ CallsHandler(s)
        BY <1>6, <2>3, <3>4
        DEF SubTokenResponse, RunSubToken, SubJoinFails, SubJoinSucceeds,
            Emplaced, ChooseMixed, ChooseForward, SubscribeFails, Fails, Stages
      <4> QED
        BY <1>5, <2>1, <3>1, <3>2, <4>1
    <3> QED
      BY <3>3, <3>4
  <2> QED
    BY <2>2, <2>3
<1>7. ASSUME RunStart PROVE Goal
  <2>1. IsQueued("start", NoArg)
    BY <1>7, TailFacts
    DEF RunStart, Takes, IsQueued, SubInv, TypeOK, DispatcherTypeOK
  <2>2. \A s \in Slots : sub[s] = "idle" /\ sub'[s] = "token"
    BY <1>7, <2>1 DEF RunStart, SubInv, StartFirst
  <2>3. everTracked = {} /\ everTracked' = {}
    BY <2>2 DEF everTracked
  <2> QED
    BY <1>7, <2>3 DEF RunStart, EntriesStay, tracking
<1>8. ASSUME \/ (SessionTask \/ SessionEvent) /\ UNCHANGED subscriberVars
             \/ StreamsChange
             \/ EmplaceRace
             \/ SubTokenThrows
             \/ \E s \in Slots : ServerErrors(s)
             \/ UNCHANGED vars
      PROVE  Goal
  <2>1. UNCHANGED <<sub, handled, subscribe_infos, sub_count>>
    BY <1>8 DEF StreamsChange, EmplaceRace, SubTokenThrows, Throws,
                ServerErrors, vars, subscriberVars, tracking
  <2>2. ios' = ios \/ (Running /\ ios' = "crashed")
    <3>1. CASE SessionTask
      BY <3>1 DEF SessionTask, RunToken, RunTicker, RunStopRequest, Takes
    <3>2. CASE SessionEvent
      BY <3>2 DEF SessionEvent, TokenResponse, JoinSucceeds, JoinFails, Run,
                  WaitCompletes, SecondSignal, TokenThrows, Throws,
                  dispatcherVars
    <3>3. CASE ~SessionTask /\ ~SessionEvent
      BY <1>8, <3>3
      DEF StreamsChange, EmplaceRace, SubTokenThrows, Throws, ServerErrors,
          vars, dispatcherVars
    <3> QED
      BY <3>1, <3>2, <3>3
  <2> QED
    BY <2>1, <2>2 DEF EntriesStay, everTracked
<1> HIDE DEF Goal
<1>9. Goal
  BY <1>2, <1>3, <1>4, <1>6, <1>7, <1>8 DEF Next, Dispatch, Terminated
<1> QED
  BY <1>9 DEF Goal

\* Under the refinement mapping nothing is tracked at first.
LEMMA InitRefines == Init => R!Init
BY DEF Init, DispatcherInit, R!Init, phase, everTracked

\* Every step of Subscriber is a step of Registry or a stutter.
LEMMA NextRefines == SubInv /\ [Next]_vars => [R!Next]_(R!registryVars)
<1> SUFFICES ASSUME SubInv, [Next]_vars PROVE [R!Next]_(R!registryVars)
  OBVIOUS
<1>1. subscribe_infos \subseteq everTracked /\ everTracked \subseteq Slots
  BY DEF SubInv, HandledIsOver, TypeOK, everTracked
<1>2. CASE EntriesStay /\ ios' = ios
  BY <1>2 DEF EntriesStay, phase, R!registryVars
<1>3. CASE EntriesStay /\ Running /\ ios' = "crashed"
  <2>1. R!Die
    BY <1>3 DEF EntriesStay, phase, Running, R!Die
  <2> QED
    BY <2>1 DEF R!Next
<1>4. ASSUME NEW s \in Slots, Adds(s) PROVE [R!Next]_(R!registryVars)
  <2>1. R!Track(s)
    BY <1>1, <1>4 DEF Adds, phase, Running, R!Track
  <2> QED
    BY <2>1 DEF R!Next
<1>5. ASSUME NEW s \in Slots, TakesAway(s) PROVE [R!Next]_(R!registryVars)
  <2>1. R!Release(s)
    BY <1>1, <1>5 DEF TakesAway, phase, Running, R!Release
  <2> QED
    BY <2>1 DEF R!Next
<1>6. CASE TakesAllAway
  <2>1. R!ReleasesAll /\ ios = "running" /\ ios' \in {"stopped", "crashed"}
    BY <1>1, <1>6 DEF TakesAllAway, phase, Running, R!ReleasesAll
  <2>2. R!Close \/ R!Die
    BY <2>1 DEF R!Close, R!Die
  <2> QED
    BY <2>2 DEF R!Next
<1> QED
  BY <1>2, <1>3, <1>4, <1>5, <1>6, EntrySteps

\* Subscriber implements Registry: a subscription is tracked and released at
\* most once, and none is tracked when the program leaves its loop.
THEOREM Refinement == Spec => TracksAndReleases
<1>1. Spec => R!Spec
  BY InitRefines, NextRefines, Invariance, PTL DEF Spec, R!Spec
<1> QED
  BY <1>1 DEF TracksAndReleases

-----------------------------------------------------------------------------
\* A step keeps sub_count in line with the entries removed.
LEMMA NextCounts == SubInv /\ CountsRemovals /\ [Next]_vars => CountsRemovals'
<1> SUFFICES ASSUME SubInv, CountsRemovals, [Next]_vars PROVE CountsRemovals'
  OBVIOUS
<1>1. subscribe_infos \subseteq everTracked /\ everTracked \subseteq Slots
  BY DEF SubInv, HandledIsOver, TypeOK, everTracked
<1>2. IsFiniteSet(Slots)
  BY SlotsAssumption, FS_Union DEF Slots
<1>3. IsFiniteSet(everTracked) /\ IsFiniteSet(subscribe_infos)
  BY <1>1, <1>2, FS_Subset
<1>4. /\ Cardinality(subscribe_infos) \in Nat
      /\ Cardinality(everTracked) \in Nat
      /\ sub_count \in Int
  BY <1>3, FS_CardinalityType DEF SubInv, TypeOK
<1>5. CASE EntriesStay /\ (ios' = ios \/ (Running /\ ios' = "crashed"))
  BY <1>5 DEF EntriesStay, CountsRemovals, Running
<1>6. ASSUME NEW s \in Slots, Adds(s) PROVE CountsRemovals'
  <2>1. s \notin everTracked /\ s \notin subscribe_infos
    BY <1>1, <1>6 DEF Adds
  <2>2. /\ Cardinality(subscribe_infos') = Cardinality(subscribe_infos) + 1
        /\ Cardinality(everTracked') = Cardinality(everTracked) + 1
    BY <1>3, <1>6, <2>1, FS_AddElement DEF Adds
  <2> QED
    BY <1>4, <1>6, <2>2 DEF Adds, CountsRemovals
<1>7. ASSUME NEW s \in Slots, TakesAway(s) PROVE CountsRemovals'
  <2>1. Cardinality(subscribe_infos') = Cardinality(subscribe_infos) - 1
    BY <1>3, <1>7, FS_RemoveElement DEF TakesAway
  <2> QED
    BY <1>4, <1>7, <2>1 DEF TakesAway, CountsRemovals
<1>8. CASE TakesAllAway
  BY <1>8 DEF TakesAllAway, CountsRemovals, Running
<1> QED
  BY <1>5, <1>6, <1>7, <1>8, EntrySteps

\* While the program runs, sub_count is minus the number of subscriptions
\* removed, however often a removal was posted for one.
THEOREM Counting == Spec => []CountsRemovals
<1>1. Init => CountsRemovals
  BY FS_EmptySet DEF Init, CountsRemovals, everTracked
<1> QED
  BY <1>1, NextCounts, Invariance, PTL DEF Spec
=============================================================================
