----------------------------- MODULE Subscriber -----------------------------
(***************************************************************************)
(* The processor in the role "sub" (StartSubscribe, SubscribeOne, Join,    *)
(* RemoveSubscribe, Stop and SubObserver of processor.cpp).  A slot stands *)
(* for one call of SubscribeOne.  Every slot joins with a conference       *)
(* client of its own, whose thread runs the callbacks up to the result of  *)
(* Subscribe, so these callbacks run concurrently with each other and with *)
(* the dispatcher's tasks.                                                 *)
(***************************************************************************)
EXTENDS Session, Integers, FiniteSets

CONSTANTS
    MixedSubs,    \* the calls SubscribeOne(true, ...)
    ForwardSubs,  \* the calls SubscribeOne(false, ...)
    Streams,      \* the streams others publish in the conference
    Kind,         \* what each of them carries
    MaxQueue      \* bound on the queue when a subscription reports an error

Slots == MixedSubs \cup ForwardSubs

Kinds == {"mixed", "forward", "audio"}

ASSUME SlotsAssumption ==
    /\ IsFiniteSet(MixedSubs)
    /\ IsFiniteSet(ForwardSubs)
    /\ MixedSubs \cap ForwardSubs = {}

ASSUME StreamsAssumption == IsFiniteSet(Streams) /\ Kind \in [Streams -> Kinds]

ASSUME MaxQueueAssumption == MaxQueue \in Nat

NoStream == "none"
NoSlot == "none"

VARIABLES
    remote,           \* what info_->RemoteStreams() would return
    sub,              \* how far a slot has come
    target,           \* the stream a slot subscribes to
    observed,         \* the subscriptions a SubObserver is registered with
    subscribe_infos,  \* the slots with an entry in subscribe_infos_
    renderer,         \* the slot whose renderer is attached to a stream
    sub_count,
    handled,          \* how often a slot's handler was called
    unseen,           \* history: ended with no observer registered
    errored           \* history: reported an error to their observer

subscriberVars == <<remote, sub, target, observed, subscribe_infos, renderer,
                    sub_count, handled, unseen, errored>>

vars == <<dispatcherVars, sessionVars, subscriberVars>>

Tasks ==
    [op : {"token", "start", "stop"} \cup Waits, arg : {NoArg}]
        \cup [op : {"subToken", "subscribed", "remove"}, arg : Slots]

Stages == {"idle", "token", "answered", "refused", "joining", "emplacing",
           "joined", "requested", "live", "ended", "failed", "stuck",
           "spinning"}

TypeOK ==
    /\ DispatcherTypeOK(Tasks)
    /\ SessionTypeOK
    /\ remote \subseteq Streams
    /\ sub \in [Slots -> Stages]
    /\ target \in [Slots -> Streams \cup {NoStream}]
    /\ observed \subseteq Slots
    /\ subscribe_infos \subseteq Slots
    /\ renderer \in [Streams -> Slots \cup {NoSlot}]
    /\ sub_count \in Int
    /\ handled \in [Slots -> Nat]
    /\ unseen \subseteq Slots
    /\ errored \subseteq Slots

Init ==
    /\ DispatcherInit
    /\ SessionInit
    /\ remote \in SUBSET Streams
    /\ sub = [s \in Slots |-> "idle"]
    /\ target = [s \in Slots |-> NoStream]
    /\ observed = {}
    /\ subscribe_infos = {}
    /\ renderer = [x \in Streams |-> NoSlot]
    /\ sub_count = 0
    /\ handled = [s \in Slots |-> 0]
    /\ unseen = {}
    /\ errored = {}

\* What stays the same while a slot is on its way to its subscription.
tracking == <<target, observed, subscribe_infos, renderer, sub_count, unseen,
              errored>>

Goes(s, stage) == sub' = [sub EXCEPT ![s] = stage]

\* The handler of SubscribeOne is called.
CallsHandler(s) == handled' = [handled EXCEPT ![s] = @ + 1]

\* The slot is given up and its handler told so.
Fails(s) == Goes(s, "failed") /\ CallsHandler(s)

-----------------------------------------------------------------------------
\* Other participants come and go.
StreamsChange ==
    /\ Running
    /\ \E x \in Streams :
        \/ x \in remote /\ remote' = remote \ {x}
        \/ x \notin remote /\ remote' = remote \cup {x}
    /\ UNCHANGED <<dispatcherVars, sessionVars, sub, handled, tracking>>

\* StartSubscribe asks for a token for every slot.
RunStart ==
    /\ Takes("start", NoArg)
    /\ Finishes
    /\ sub' = [s \in Slots |-> "token"]
    /\ UNCHANGED <<waits, ios, sessionVars, remote, handled, tracking>>

\* The answer of the token's request: with a body or without.
SubTokenResponse(s) ==
    /\ sub[s] = "token"
    /\ \E stage \in {"answered", "refused"} : Goes(s, stage)
    /\ PostTask("subToken", s)
    /\ UNCHANGED <<waits, ios, sessionVars, remote, handled, tracking>>

\* Of each of these requests the headers may be bad, as Session has it.
SubTokenThrows ==
    /\ \E s \in Slots : sub[s] # "idle"
    /\ Throws
    /\ UNCHANGED subscriberVars

\* The callback of GetToken in Join, on the dispatcher.
RunSubToken(s) ==
    /\ Takes("subToken", s)
    /\ Finishes
    /\ \/ /\ sub[s] = "answered"
          /\ Goes(s, "joining")
          /\ UNCHANGED handled
       \/ /\ sub[s] = "refused"
          /\ Fails(s)
    /\ UNCHANGED <<waits, ios, sessionVars, remote, tracking>>

\* The failure callback of the slot's own client.
SubJoinFails(s) ==
    /\ Running
    /\ sub[s] = "joining"
    /\ Fails(s)
    /\ UNCHANGED <<dispatcherVars, sessionVars, remote, tracking>>

\* The success callback enters emplace_back on sub_rooms_ and then on
\* sub_conference_infos_, two vectors all clients' threads share ...
SubJoinSucceeds(s) ==
    /\ Running
    /\ sub[s] = "joining"
    /\ Goes(s, "emplacing")
    /\ UNCHANGED <<dispatcherVars, sessionVars, remote, handled, tracking>>

\* ... and leaves it.
Emplaced(s) ==
    /\ Running
    /\ sub[s] = "emplacing"
    /\ Goes(s, "joined")
    /\ UNCHANGED <<dispatcherVars, sessionVars, remote, handled, tracking>>

\* Two threads inside emplace_back of the same vector are a data race.  A
\* lost element only leaks its client; two reallocations free one block twice
\* and kill the process.
EmplaceRace ==
    /\ Running
    /\ \E s, t \in Slots : s # t /\ sub[s] = "emplacing" /\ sub[t] = "emplacing"
    /\ ios' = "crashed"
    /\ UNCHANGED <<queue, waits, sessionVars, subscriberVars>>

OfKind(kind) == {x \in remote : Kind[x] = kind}

\* The mixed branch of SubscribeOne.  When there is no mixed stream it does
\* nothing at all: the handler is not called.
ChooseMixed(s) ==
    /\ Running
    /\ s \in MixedSubs
    /\ sub[s] = "joined"
    /\ \/ /\ OfKind("mixed") = {}
          /\ Goes(s, "stuck")
          /\ UNCHANGED target
       \/ /\ \E x \in OfKind("mixed") : target' = [target EXCEPT ![s] = x]
          /\ Goes(s, "requested")
    /\ UNCHANGED <<dispatcherVars, sessionVars, remote, handled, observed,
                   subscribe_infos, renderer, sub_count, unseen, errored>>

\* Mutant: the return after "no forward stream found" is missing.
ChooseForwardGoesOn(s) ==
    /\ Running
    /\ s \in ForwardSubs
    /\ sub[s] = "joined"
    /\ OfKind("forward") # {}
    /\ \E x \in OfKind("forward") : target' = [target EXCEPT ![s] = x]
    /\ Goes(s, "requested")
    /\ IF Cardinality(remote) < 2 THEN CallsHandler(s) ELSE UNCHANGED handled
    /\ UNCHANGED <<dispatcherVars, sessionVars, remote, observed,
                   subscribe_infos, renderer, sub_count, unseen, errored>>

\* The forward branch: it fails on fewer than two streams, and otherwise
\* looks for one with a video of its own, from a random place on, in a copy
\* of the list.  When there is none the search never ends.
ChooseForward(s) ==
    /\ Running
    /\ s \in ForwardSubs
    /\ sub[s] = "joined"
    /\ \/ /\ Cardinality(remote) < 2
          /\ Fails(s)
          /\ UNCHANGED target
       \/ /\ Cardinality(remote) >= 2
          /\ OfKind("forward") = {}
          /\ Goes(s, "spinning")
          /\ UNCHANGED <<handled, target>>
       \/ /\ Cardinality(remote) >= 2
          /\ \E x \in OfKind("forward") : target' = [target EXCEPT ![s] = x]
          /\ Goes(s, "requested")
          /\ UNCHANGED handled
    /\ UNCHANGED <<dispatcherVars, sessionVars, remote, observed,
                   subscribe_infos, renderer, sub_count, unseen, errored>>

\* The failure callback of Subscribe.
SubscribeFails(s) ==
    /\ Running
    /\ sub[s] = "requested"
    /\ Fails(s)
    /\ UNCHANGED <<dispatcherVars, sessionVars, remote, tracking>>

\* Its success callback.
SubscribeSucceeds(s) ==
    /\ sub[s] = "requested"
    /\ Goes(s, "live")
    /\ PostTask("subscribed", s)
    /\ UNCHANGED <<waits, ios, sessionVars, remote, handled, tracking>>

\* The task of the success callback.  Only the forward branch attaches the
\* renderer, in the place of whatever renderer the stream had.
RunSubscribed(s) ==
    /\ Takes("subscribed", s)
    /\ Finishes
    /\ observed' = observed \cup {s}
    /\ renderer' = IF s \in ForwardSubs
                   THEN [renderer EXCEPT ![target[s]] = s]
                   ELSE renderer
    /\ subscribe_infos' = subscribe_infos \cup {s}
    /\ CallsHandler(s)
    /\ UNCHANGED <<waits, ios, sessionVars, remote, sub, target, sub_count,
                   unseen, errored>>

\* Mutant: the end of a subscription is only logged.
OnEndedLogs(s) == Running /\ UNCHANGED queue

\* Mutant: the task captures the stream's id in the place of the slot's.
OnEndedOfStream(s) == PostTask("remove", target[s])

\* SubObserver::OnEnded and OnError post the task of RemoveSubscribe.
OnEnded(s) == PostTask("remove", s)

\* The server ends a subscription: the observer, if any, posts the task of
\* RemoveSubscribe.
ServerEnds(s) ==
    /\ Running
    /\ sub[s] = "live"
    /\ Goes(s, "ended")
    /\ IF s \in observed
       THEN OnEnded(s) /\ UNCHANGED unseen
       ELSE unseen' = unseen \cup {s} /\ UNCHANGED queue
    /\ UNCHANGED <<waits, ios, sessionVars, remote, handled, target, observed,
                   subscribe_infos, renderer, sub_count, errored>>

\* A subscription reports an error, which need not end it.
ServerErrors(s) ==
    /\ sub[s] \in {"live", "ended"}
    /\ s \in observed
    /\ Len(queue) < MaxQueue
    /\ OnEnded(s)
    /\ errored' = errored \cup {s}
    /\ UNCHANGED <<waits, ios, sessionVars, remote, sub, handled, target,
                   observed, subscribe_infos, renderer, sub_count, unseen>>

\* Mutant: the streams keep their renderers.
DetachesNothing(S) == UNCHANGED renderer

\* DetachVideoRenderer of the streams of S, whoever attached one there.
Detaches(S) ==
    renderer' = [x \in Streams |->
                    IF \E s \in S : target[s] = x THEN NoSlot ELSE renderer[x]]

\* Mutant: the second of two removals counts as well.
RunRemoveCountsTwice(s) ==
    /\ Takes("remove", s)
    /\ Finishes
    /\ Detaches({s})
    /\ observed' = observed \ {s}
    /\ subscribe_infos' = subscribe_infos \ {s}
    /\ sub_count' = sub_count - 1
    /\ UNCHANGED <<waits, ios, sessionVars, remote, sub, handled, target,
                   unseen, errored>>

\* The task of RemoveSubscribe.  Other than RemovePublish it does not stop
\* what it forgets.
RunRemove(s) ==
    /\ Takes("remove", s)
    /\ Finishes
    /\ IF s \in subscribe_infos
       THEN /\ Detaches({s})
            /\ observed' = observed \ {s}
            /\ subscribe_infos' = subscribe_infos \ {s}
            /\ sub_count' = sub_count - 1
       ELSE UNCHANGED <<renderer, observed, subscribe_infos, sub_count>>
    /\ UNCHANGED <<waits, ios, sessionVars, remote, sub, handled, target,
                   unseen, errored>>

\* Mutant: Stop empties the map and leaves the subscriptions as they are.
RunStopForgets ==
    /\ Takes("stop", NoArg)
    /\ Finishes
    /\ Detaches(subscribe_infos)
    /\ subscribe_infos' = {}
    /\ ios' = "stopped"
    /\ UNCHANGED <<waits, sessionVars, remote, sub, observed, handled, target,
                   sub_count, unseen, errored>>

\* Mutant: Stop stops the dispatcher and keeps the map.
RunStopKeepsMap ==
    /\ Takes("stop", NoArg)
    /\ Finishes
    /\ ios' = "stopped"
    /\ UNCHANGED <<waits, sessionVars, subscriberVars>>

\* The task of Stop.  The loop logs the key behind the entry it has erased:
\* behind the last one that is undefined and may kill the process, before the
\* handler stops the dispatcher.
RunStop ==
    /\ Takes("stop", NoArg)
    /\ Finishes
    /\ Detaches(subscribe_infos)
    /\ observed' = observed \ subscribe_infos
    /\ sub' = [s \in Slots |-> IF s \in subscribe_infos THEN "ended" ELSE sub[s]]
    /\ subscribe_infos' = {}
    /\ \/ ios' = "stopped"
       \/ subscribe_infos # {} /\ ios' = "crashed"
    /\ UNCHANGED <<waits, sessionVars, remote, handled, target, sub_count,
                   unseen, errored>>

Terminated ==
    /\ ~Running
    /\ UNCHANGED vars

-----------------------------------------------------------------------------
\* One turn of the main thread inside ios_.run().
Dispatch ==
    \/ SessionTask /\ UNCHANGED subscriberVars
    \/ RunStart
    \/ \E s \in Slots : RunSubToken(s) \/ RunSubscribed(s) \/ RunRemove(s)
    \/ RunStop

Next ==
    \/ Dispatch
    \/ SessionEvent /\ UNCHANGED subscriberVars
    \/ SubTokenThrows
    \/ StreamsChange
    \/ \E s \in Slots :
        \/ SubTokenResponse(s)
        \/ SubJoinFails(s)
        \/ SubJoinSucceeds(s)
        \/ Emplaced(s)
        \/ ChooseMixed(s)
        \/ ChooseForward(s)
        \/ SubscribeFails(s)
        \/ SubscribeSucceeds(s)
        \/ ServerEnds(s)
        \/ ServerErrors(s)
    \/ EmplaceRace
    \/ Terminated

Spec == Init /\ [][Next]_vars

-----------------------------------------------------------------------------
\* The slots whose subscription was tracked at some time.
everTracked == {s \in Slots : sub[s] \in {"live", "ended"} /\ handled[s] > 0}

\* A slot as Registry sees it.
phase ==
    [s \in Slots |->
        CASE s \in subscribe_infos -> "tracked"
          [] s \in everTracked \ subscribe_infos -> "released"
          [] OTHER -> "absent"]

R == INSTANCE Registry WITH Items <- Slots, phase <- phase, loop <- ios

\* A subscription is tracked at most once and released at most once, and
\* Stop leaves none (SubscribeOne, RemoveSubscribe and Stop together).
TracksAndReleases == R!Spec

\* A SubObserver is registered exactly as long as the entry that owns it.
ObserversAreTracked == observed = subscribe_infos

\* A stream renders into a VideoRendererMem by reference.  The entry of the
\* slot that attached it owns it: no stream ever renders into a destroyed one,
\* though several slots attach to and detach from the same stream.
RenderersAreOwned ==
    \A x \in Streams : renderer[x] # NoSlot =>
        /\ renderer[x] \in subscribe_infos \cap ForwardSubs
        /\ target[renderer[x]] = x

\* The end of a tracked subscription is not lost, unless it came before the
\* observer was registered.
EndIsHeard ==
    \A s \in subscribe_infos :
        sub[s] = "ended" => s \in unseen \/ IsQueued("remove", s)

\* A subscription is forgotten while it is live only after an error of it.
OnlyErrorsAbandon ==
    \A s \in everTracked \ subscribe_infos :
        sub[s] = "live" => s \in errored

\* A slot's handler is called once, when the slot fails or is tracked, and
\* never before, on whichever thread that happens.
HandlerToldOnce ==
    \A s \in Slots :
        /\ handled[s] <= 1
        /\ handled[s] = 0 => s \notin subscribe_infos /\ sub[s] # "failed"
        /\ handled[s] = 1 => sub[s] \in {"live", "ended", "failed"}

\* Before Stop runs, sub_count is minus the number of entries removed.
CountsRemovals ==
    Running =>
        sub_count = Cardinality(subscribe_infos) - Cardinality(everTracked)

\* When the search for a forward stream finds none, SubscribeOne says so to
\* its handler ("no forward stream found"): no client's thread searches for
\* ever.
SearchEnds == \A s \in Slots : sub[s] # "spinning"
=============================================================================
