--------------------------- MODULE SyncHttpClient ---------------------------
(***************************************************************************)
(* CSyncHttpClient (httpclient/synchttpclient.h): a caller that makes one  *)
(* request and waits for its response, and a thread of the client's own    *)
(* that runs the io_service of a CAsyncHttpClient.  Of the latter it       *)
(* matters here when its handlers run, when they call the response         *)
(* callback and that its destructor waits until none of them is busy;      *)
(* HttpClient has the rest.                                                *)
(***************************************************************************)
VARIABLES
    caller,     \* where the caller's thread is
    thread,     \* m_run_thread: "off" | "started" | "running" | "exited"; or
                \* "terminated" like the caller, when the process is
    stopped,    \* m_io_serv has been stopped
    coroutine,  \* yield_func of the asynchronous client
    timer,      \* its deadline
    called,     \* its m_cb_called
    handler,    \* how far the handler that runs has come
    runs,       \* which one it is
    response    \* m_response: "initial" | "answer" | "refused"

vars == <<caller, thread, stopped, coroutine, timer, called, handler, runs,
          response>>

TypeOK ==
    /\ caller \in {"idle", "threaded", "requested", "waiting", "woken",
                   "interrupted", "returned", "joining", "closing",
                   "destroyed", "terminated"}
    /\ thread \in {"off", "started", "running", "exited", "terminated"}
    /\ stopped \in BOOLEAN
    /\ coroutine \in {"none", "spawned", "suspended", "ready", "done"}
    /\ timer \in {"off", "armed", "expired", "aborted", "done"}
    /\ called \in BOOLEAN
    /\ handler \in {"none", "calling", "set", "notified"}
    /\ runs \in {"none", "coroutine", "timer"}
    /\ runs = "none" <=> handler = "none"
    /\ response \in {"initial", "answer", "refused"}

Init ==
    /\ caller = "idle"
    /\ thread = "off"
    /\ stopped = FALSE
    /\ coroutine = "none"
    /\ timer = "off"
    /\ called = FALSE
    /\ handler = "none"
    /\ runs = "none"
    /\ response = "initial"

-----------------------------------------------------------------------------
\* The caller's thread.

\* make_request starts the thread, or has no thread to start and returns.
CreateThread ==
    /\ caller = "idle"
    /\ \/ /\ caller' = "threaded"
          /\ thread' = "started"
          /\ UNCHANGED response
       \/ /\ caller' = "returned"
          /\ response' = "refused"
          /\ UNCHANGED thread
    /\ UNCHANGED <<stopped, coroutine, timer, called, handler, runs>>

\* make_request of the asynchronous client.
MakeRequest ==
    /\ caller = "threaded"
    /\ caller' = "requested"
    /\ coroutine' = "spawned"
    /\ timer' = "armed"
    /\ UNCHANGED <<thread, stopped, called, handler, runs, response>>

\* wait(): without a predicate.  Its mutex is nobody else's.
Wait ==
    /\ caller = "requested"
    /\ caller' = "waiting"
    /\ UNCHANGED <<thread, stopped, coroutine, timer, called, handler, runs,
                   response>>

\* A condition variable may also wake its waiter by itself; nothing tests why
\* the wait has ended.
WakesSpuriously ==
    /\ caller = "waiting"
    /\ caller' = "interrupted"
    /\ UNCHANGED <<thread, stopped, coroutine, timer, called, handler, runs,
                   response>>

Return ==
    /\ caller \in {"woken", "interrupted"}
    /\ caller' = "returned"
    /\ UNCHANGED <<thread, stopped, coroutine, timer, called, handler, runs,
                   response>>

\* Mutant: the destructor joins a thread that nothing stops.
DestroyWithoutStop ==
    /\ caller = "returned"
    /\ caller' = "joining"
    /\ UNCHANGED <<thread, stopped, coroutine, timer, called, handler, runs,
                   response>>

\* The destructor stops the io_service ...
Destroy ==
    /\ caller = "returned"
    /\ stopped' = TRUE
    /\ caller' = "joining"
    /\ UNCHANGED <<thread, coroutine, timer, called, handler, runs, response>>

\* Mutant: the thread is detached.
JoinDetached ==
    /\ caller = "joining"
    /\ caller' = "closing"
    /\ UNCHANGED <<thread, stopped, coroutine, timer, called, handler, runs,
                   response>>

\* ... and joins the thread if there is one.
Join ==
    /\ caller = "joining"
    /\ thread \in {"off", "exited"}
    /\ caller' = "closing"
    /\ UNCHANGED <<thread, stopped, coroutine, timer, called, handler, runs,
                   response>>

\* m_counter_busy # 0: a handler has been entered and not been left.  A
\* coroutine that is suspended has not been left.
Busy == coroutine \in {"suspended", "ready"} \/ handler # "none"

\* The destructor of the asynchronous client waits until it is not busy.
CloseAsyncClient ==
    /\ caller = "closing"
    /\ ~Busy
    /\ caller' = "destroyed"
    /\ UNCHANGED <<thread, stopped, coroutine, timer, called, handler, runs,
                   response>>

-----------------------------------------------------------------------------
\* The client's thread.  It takes no further handler once the io_service is
\* stopped, and without that its work object keeps it inside run().

EnterRun ==
    /\ thread = "started"
    /\ thread' = "running"
    /\ UNCHANGED <<caller, stopped, coroutine, timer, called, handler, runs,
                   response>>

LeaveRun ==
    /\ thread = "running"
    /\ stopped
    /\ handler = "none"
    /\ thread' = "exited"
    /\ UNCHANGED <<caller, stopped, coroutine, timer, called, handler, runs,
                   response>>

TakesHandler == thread = "running" /\ ~stopped /\ handler = "none"

CoroutineStarts ==
    /\ TakesHandler
    /\ coroutine = "spawned"
    /\ coroutine' = "suspended"
    /\ UNCHANGED <<caller, thread, stopped, timer, called, handler, runs,
                   response>>

\* The coroutine awaits its next operation, or is through with the request, or
\* throws over a content length that is no number: the exception leaves run()
\* and the thread, which ends the process.
CoroutineResumes ==
    /\ TakesHandler
    /\ coroutine = "ready"
    /\ \/ /\ coroutine' = "suspended"
          /\ UNCHANGED <<caller, thread, timer, called, handler, runs>>
       \/ /\ ~called
          /\ called' = TRUE
          /\ timer' = IF timer = "armed" THEN "aborted" ELSE timer
          /\ handler' = "calling"
          /\ runs' = "coroutine"
          /\ UNCHANGED <<caller, thread, coroutine>>
       \/ /\ called
          /\ coroutine' = "done"
          /\ UNCHANGED <<caller, thread, timer, called, handler, runs>>
       \/ /\ thread' = "terminated" /\ caller' = "terminated"
          /\ UNCHANGED <<coroutine, timer, called, handler, runs>>
    /\ UNCHANGED <<stopped, response>>

\* The deadline closes the socket, which ends the operation in flight unless
\* it is the resolver's.
RunTimeout ==
    /\ TakesHandler
    /\ timer = "expired"
    /\ \/ /\ called
          /\ timer' = "done"
          /\ UNCHANGED <<called, handler, runs, coroutine>>
       \/ /\ ~called
          /\ called' = TRUE
          /\ timer' = "done"
          /\ handler' = "calling"
          /\ runs' = "timer"
          /\ \/ UNCHANGED coroutine
             \/ coroutine = "suspended" /\ coroutine' = "ready"
    /\ UNCHANGED <<caller, thread, stopped, response>>

RunAborted ==
    /\ TakesHandler
    /\ timer = "aborted"
    /\ timer' = "done"
    /\ UNCHANGED <<caller, thread, stopped, coroutine, called, handler, runs,
                   response>>

\* Mutant: the waiter is notified before the response is stored.
SetResponseAfterNotify ==
    /\ handler = "calling"
    /\ handler' = "set"
    /\ caller' = IF caller = "waiting" THEN "woken" ELSE caller
    /\ UNCHANGED <<thread, stopped, coroutine, timer, called, runs, response>>

\* Mutant: cb keeps no response of a request that has timed out.
SetResponseUnlessTimeout ==
    /\ handler = "calling"
    /\ handler' = "set"
    /\ response' = IF runs = "timer" THEN response ELSE "answer"
    /\ UNCHANGED <<caller, thread, stopped, coroutine, timer, called, runs>>

\* cb stores the response ...
SetResponse ==
    /\ handler = "calling"
    /\ handler' = "set"
    /\ response' = "answer"
    /\ UNCHANGED <<caller, thread, stopped, coroutine, timer, called, runs>>

\* Mutant: nobody is notified.
NotifyNobody ==
    /\ handler = "set"
    /\ handler' = "notified"
    /\ UNCHANGED <<caller, thread, stopped, coroutine, timer, called, runs,
                   response>>

\* ... and notifies the waiter, if there is one already.
Notify ==
    /\ handler = "set"
    /\ handler' = "notified"
    /\ caller' = IF caller = "waiting" THEN "woken" ELSE caller
    /\ UNCHANGED <<thread, stopped, coroutine, timer, called, runs, response>>

\* The handler that called back returns.
HandlerReturns ==
    /\ handler = "notified"
    /\ handler' = "none"
    /\ runs' = "none"
    /\ coroutine' = IF runs = "coroutine" THEN "done" ELSE coroutine
    /\ UNCHANGED <<caller, thread, stopped, timer, called, response>>

-----------------------------------------------------------------------------
\* The network answers; the clock reaches the deadline.

OpCompletes ==
    /\ coroutine = "suspended"
    /\ coroutine' = "ready"
    /\ UNCHANGED <<caller, thread, stopped, timer, called, handler, runs,
                   response>>

TimerExpires ==
    /\ thread # "terminated"
    /\ timer = "armed"
    /\ timer' = "expired"
    /\ UNCHANGED <<caller, thread, stopped, coroutine, called, handler, runs,
                   response>>

-----------------------------------------------------------------------------
Caller ==
    \/ CreateThread
    \/ MakeRequest
    \/ Wait
    \/ Return
    \/ Destroy
    \/ Join
    \/ CloseAsyncClient

IoThread ==
    \/ EnterRun
    \/ LeaveRun
    \/ CoroutineStarts
    \/ CoroutineResumes
    \/ RunTimeout
    \/ RunAborted
    \/ SetResponse
    \/ Notify
    \/ HandlerReturns

Next == Caller \/ IoThread \/ WakesSpuriously \/ OpCompletes \/ TimerExpires

Spec == Init /\ [][Next]_vars

\* The two threads are scheduled, the io_service takes its handlers in turn,
\* and the clock runs; the caller destroys the client in the end.  Nothing is
\* assumed of the network.
FairSpec ==
    /\ Spec
    /\ WF_vars(Caller)
    /\ WF_vars(IoThread)
    /\ WF_vars(CoroutineResumes)
    /\ WF_vars(RunTimeout)
    /\ WF_vars(TimerExpires)

-----------------------------------------------------------------------------
\* Woken by the callback and not by itself, the caller has the response: cb
\* stores it first, without a lock.
ReturnsTheAnswer == caller = "woken" => response = "answer"

\* The io_service, the condition variable and the asynchronous client are
\* destroyed only after the thread that uses them has left run().
DestroyedAtRest ==
    caller \in {"closing", "destroyed"} =>
        thread \in {"off", "exited"} /\ handler = "none"

\* A caller that waits before the callback comes is woken, at the deadline
\* at the latest, if the process lives.
WaiterIsWoken ==
    caller = "waiting" /\ ~called ~> caller \in {"returned", "terminated"}

\* When the coroutine has ended before the destructor stops the io_service,
\* the destructor ends.
DestructorEndsAfterCoroutine ==
    caller = "joining" /\ coroutine \in {"none", "done"} ~> caller = "destroyed"

\* "provide synchronous http": make_request returns, if the process lives.
RequestReturns ==
    caller = "requested" ~> caller \in {"returned", "terminated"}
=============================================================================
