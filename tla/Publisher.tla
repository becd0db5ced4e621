----------------------------- MODULE Publisher ------------------------------
(***************************************************************************)
(* The processor in the role "pub" (StartPublish, PublishOne,              *)
(* RemovePublish, Stop and PubObserver of processor.cpp).  One item stands *)
(* for one call of PublishOne.  The conference client's thread reports     *)
(* what became of a publication; every change of the processor's maps is   *)
(* made by a task of the dispatcher.                                       *)
(***************************************************************************)
EXTENDS Session, Integers, FiniteSets

CONSTANTS
    AudioPubs,  \* the calls PublishOne(false, ...)
    VideoPubs,  \* the calls PublishOne(true, ...)
    MaxQueue    \* bound on the queue when a publication reports an error

Pubs == AudioPubs \cup VideoPubs

ASSUME PubsAssumption ==
    /\ IsFiniteSet(AudioPubs)
    /\ IsFiniteSet(VideoPubs)
    /\ AudioPubs \cap VideoPubs = {}

ASSUME MaxQueueAssumption == MaxQueue \in Nat

VARIABLES
    pub,             \* the publication at the server, Ended() included
    observed,        \* the publications a PubObserver is registered with
    publish_infos,   \* the keys of publish_infos_
    local_streams,   \* the publications whose stream is in local_streams_
    pub_count,
    mixed,           \* the publications Mix was requested for
    unseen           \* history: those that ended with no observer registered

publisherVars ==
    <<pub, observed, publish_infos, local_streams, pub_count, mixed, unseen>>

vars == <<dispatcherVars, sessionVars, publisherVars>>

Tasks ==
    [op : {"token", "start", "stop"} \cup Waits, arg : {NoArg}]
        \cup [op : {"published", "remove"}, arg : Pubs]

TypeOK ==
    /\ DispatcherTypeOK(Tasks)
    /\ SessionTypeOK
    /\ pub \in [Pubs -> {"idle", "pending", "live", "ended", "failed"}]
    /\ observed \subseteq Pubs
    /\ publish_infos \subseteq Pubs
    /\ local_streams \subseteq Pubs
    /\ pub_count \in Int
    /\ mixed \subseteq Pubs
    /\ unseen \subseteq Pubs

Init ==
    /\ DispatcherInit
    /\ SessionInit
    /\ pub = [p \in Pubs |-> "idle"]
    /\ observed = {}
    /\ publish_infos = {}
    /\ local_streams = {}
    /\ pub_count = 0
    /\ mixed = {}
    /\ unseen = {}

-----------------------------------------------------------------------------
\* StartPublish requests every publication.
RunStart ==
    /\ Takes("start", NoArg)
    /\ Finishes
    /\ pub' = [p \in Pubs |-> "pending"]
    /\ UNCHANGED <<waits, ios, sessionVars, observed, publish_infos,
                   local_streams, pub_count, mixed, unseen>>

\* The success callback of Publish, on the client's thread.
PublishSucceeds(p) ==
    /\ pub[p] = "pending"
    /\ pub' = [pub EXCEPT ![p] = "live"]
    /\ PostTask("published", p)
    /\ UNCHANGED <<waits, ios, sessionVars, observed, publish_infos,
                   local_streams, pub_count, mixed, unseen>>

\* The failure callback of Publish: the handler StartPublish gives is empty.
PublishFails(p) ==
    /\ Running
    /\ pub[p] = "pending"
    /\ pub' = [pub EXCEPT ![p] = "failed"]
    /\ UNCHANGED <<dispatcherVars, sessionVars, observed, publish_infos,
                   local_streams, pub_count, mixed, unseen>>

\* Mix is called for audio only.
Mixes(p) == {p} \cap AudioPubs

\* The task of the success callback: audio is mixed, the observer is
\* registered, the publication is tracked.
RunPublished(p) ==
    /\ Takes("published", p)
    /\ Finishes
    /\ mixed' = mixed \cup Mixes(p)
    /\ observed' = observed \cup {p}
    /\ publish_infos' = publish_infos \cup {p}
    /\ local_streams' = local_streams \cup {p}
    /\ UNCHANGED <<waits, ios, sessionVars, pub, pub_count, unseen>>

\* The headers of the response to Mix may be as bad as the token's.
MixThrows ==
    /\ mixed # {}
    /\ Throws
    /\ UNCHANGED publisherVars

\* Mutant: the end of a publication is only logged.
OnEndedLogs(p) == Running /\ UNCHANGED queue

\* Mutant: the task is posted with something else than the publication's id.
OnEndedWrongId(p) == PostTask("remove", NoArg)

\* PubObserver::OnEnded and OnError: post the task of RemovePublish.
OnEnded(p) == PostTask("remove", p)

\* The server ends a publication; without an observer nobody hears of it.
ServerEnds(p) ==
    /\ Running
    /\ pub[p] = "live"
    /\ pub' = [pub EXCEPT ![p] = "ended"]
    /\ IF p \in observed
       THEN OnEnded(p) /\ UNCHANGED unseen
       ELSE unseen' = unseen \cup {p} /\ UNCHANGED queue
    /\ UNCHANGED <<waits, ios, sessionVars, observed, publish_infos,
                   local_streams, pub_count, mixed>>

\* A publication reports an error, which may happen more than once and
\* need not end it.
ServerErrors(p) ==
    /\ pub[p] \in {"live", "ended"}
    /\ p \in observed
    /\ Len(queue) < MaxQueue
    /\ OnEnded(p)
    /\ UNCHANGED <<waits, ios, sessionVars, publisherVars>>

\* Mutant: a publication that reported an error is taken for ended.
LeavesRunning(S) == UNCHANGED pub

\* Each publication of S is stopped unless it has ended.
StopsUnlessEnded(S) ==
    pub' = [p \in Pubs |-> IF p \in S THEN "ended" ELSE pub[p]]

\* Mutant: the second of two removals counts as well.
RunRemoveCountsTwice(p) ==
    /\ Takes("remove", p)
    /\ Finishes
    /\ observed' = observed \ {p}
    /\ StopsUnlessEnded({p})
    /\ publish_infos' = publish_infos \ {p}
    /\ pub_count' = pub_count - 1
    /\ UNCHANGED <<waits, ios, sessionVars, local_streams, mixed, unseen>>

\* The task of RemovePublish.
RunRemove(p) ==
    /\ Takes("remove", p)
    /\ Finishes
    /\ IF p \in publish_infos
       THEN /\ observed' = observed \ {p}
            /\ StopsUnlessEnded({p})
            /\ publish_infos' = publish_infos \ {p}
            /\ pub_count' = pub_count - 1
       ELSE UNCHANGED <<observed, pub, publish_infos, pub_count>>
    /\ UNCHANGED <<waits, ios, sessionVars, local_streams, mixed, unseen>>

\* Mutant: Stop destroys the observers without taking them back.
RunStopLeavesObservers ==
    /\ Takes("stop", NoArg)
    /\ Finishes
    /\ StopsUnlessEnded(publish_infos)
    /\ publish_infos' = {}
    /\ ios' = "stopped"
    /\ UNCHANGED <<waits, sessionVars, observed, local_streams, pub_count,
                   mixed, unseen>>

\* Mutant: Stop leaves the last publication of the map.
RunStopSkipsOne ==
    /\ Takes("stop", NoArg)
    /\ Finishes
    /\ \E S \in SUBSET publish_infos :
        /\ publish_infos # {} => S # publish_infos
        /\ observed' = observed \ S
        /\ StopsUnlessEnded(S)
        /\ publish_infos' = publish_infos \ S
    /\ ios' = "stopped"
    /\ UNCHANGED <<waits, sessionVars, local_streams, pub_count, mixed, unseen>>

\* The task of Stop: every tracked publication loses its observer and is
\* stopped, the map is emptied, and the handler stops the dispatcher.
RunStop ==
    /\ Takes("stop", NoArg)
    /\ Finishes
    /\ observed' = observed \ publish_infos
    /\ StopsUnlessEnded(publish_infos)
    /\ publish_infos' = {}
    /\ ios' = "stopped"
    /\ UNCHANGED <<waits, sessionVars, local_streams, pub_count, mixed, unseen>>

\* main() has returned, or the process has died.
Terminated ==
    /\ ~Running
    /\ UNCHANGED vars

-----------------------------------------------------------------------------
\* One turn of the main thread inside ios_.run().
Dispatch ==
    \/ SessionTask /\ UNCHANGED publisherVars
    \/ RunStart
    \/ \E p \in Pubs : RunPublished(p) \/ RunRemove(p)
    \/ RunStop

Next ==
    \/ Dispatch
    \/ SessionEvent /\ UNCHANGED publisherVars
    \/ MixThrows
    \/ \E p \in Pubs :
        \/ PublishSucceeds(p)
        \/ PublishFails(p)
        \/ ServerEnds(p)
        \/ ServerErrors(p)
    \/ Terminated

Spec == Init /\ [][Next]_vars

\* The main thread keeps running tasks and the clock reaches the end of the
\* test's duration.  Nothing is assumed of the server or of the network.
Fairness ==
    /\ WF_vars(Dispatch)
    /\ WF_vars(WaitCompletes("duration") /\ UNCHANGED <<sessionVars, publisherVars>>)

FairSpec == Spec /\ Fairness

-----------------------------------------------------------------------------
\* What a tracked publication goes through, as Registry sees it.
phase ==
    [p \in Pubs |->
        CASE p \in publish_infos -> "tracked"
          [] p \in local_streams \ publish_infos -> "released"
          [] OTHER -> "absent"]

R == INSTANCE Registry WITH Items <- Pubs, phase <- phase, loop <- ios

\* A publication is tracked at most once and released at most once, whatever
\* the server reports and however often, and the program never stops its
\* loop with one still tracked (PublishOne, RemovePublish and Stop together).
TracksAndReleases == R!Spec

\* Unless the server answers in time the test still ends: the end of the
\* duration leads out of the loop, through Stop or through a crash.
TestEnds == R!Ends

\* A PubObserver is owned by its entry in publish_infos_ and registered by
\* reference: it is registered exactly as long as the entry exists, so no
\* event can reach a destroyed observer.
ObserversAreTracked == observed = publish_infos

\* The processor forgets a publication only after the server has: one that
\* was tracked and is not any more has ended, after Stop as well.  Whatever a
\* finished run leaves live was never tracked.
ForgottenHasEnded ==
    \A p \in local_streams \ publish_infos : pub[p] = "ended"

\* The end of a tracked publication is not lost: its removal is queued,
\* unless it ended before its observer was registered.
EndIsHeard ==
    \A p \in publish_infos :
        pub[p] = "ended" => p \in unseen \/ IsQueued("remove", p)

\* Before Stop runs, pub_count is minus the number of publications removed,
\* however often a removal was posted (it is never counted up).
CountsRemovals ==
    Running =>
        pub_count = Cardinality(publish_infos) - Cardinality(local_streams)

-----------------------------------------------------------------------------
\* The inductive invariant behind them.

\* The token's task is queued at most once, before the join.
TokenFirst ==
    /\ IsQueued("token", NoArg) => startup = "answered"
    /\ IsQueuedAtMostOnce("token", NoArg)

\* The start task is queued at most once, before anything is requested.
StartFirst ==
    /\ startup # "joined" => pub = [p \in Pubs |-> "idle"]
    /\ IsQueued("start", NoArg) =>
        /\ startup = "joined"
        /\ pub = [p \in Pubs |-> "idle"]
    /\ IsQueuedAtMostOnce("start", NoArg)

\* The success task of a publication is queued at most once and only while
\* the publication is at the server and not tracked yet.
PublishedOnce ==
    \A p \in Pubs :
        /\ IsQueued("published", p) =>
            pub[p] \in {"live", "ended"} /\ p \notin local_streams
        /\ IsQueuedAtMostOnce("published", p)

\* What was tracked had been published.
TrackedWasPublished ==
    /\ publish_infos \subseteq local_streams
    /\ \A p \in local_streams : pub[p] \in {"live", "ended"}

\* What ended before it was tracked had no observer.
EndedUntrackedIsUnseen ==
    \A p \in Pubs \ local_streams : pub[p] = "ended" => p \in unseen

\* The conference is known from the join on; no tick is armed before.
InfoOnceJoined ==
    /\ info <=> startup \in {"entered", "joined"}
    /\ "ticker" \in waits => info
    /\ startup # "joined" => local_streams = {}

NothingTrackedOutside == ios = "stopped" => publish_infos = {}

IInv ==
    /\ TypeOK
    /\ TasksNeedInfo
    /\ TokenFirst
    /\ StartFirst
    /\ PublishedOnce
    /\ TrackedWasPublished
    /\ EndedUntrackedIsUnseen
    /\ InfoOnceJoined
    /\ NothingTrackedOutside
    /\ ObserversAreTracked
    /\ ForgottenHasEnded
    /\ EndIsHeard
=============================================================================
