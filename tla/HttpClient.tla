----------------------------- MODULE HttpClient -----------------------------
(***************************************************************************)
(* One request of CAsyncHttpClient (httpclient/asynchttpclient.h), as      *)
(* GetToken and Mix make it: a coroutine (yield_func) that resolves,       *)
(* connects, writes and reads, against a deadline timer (timeout_cb), on   *)
(* an io_service that one thread runs.  Both end in do_response_callback.  *)
(*                                                                         *)
(* The coroutine waits for one asynchronous operation at a time.  Once its *)
(* result is there, resuming the coroutine is a handler of the io_service  *)
(* like the timer's: the thread runs the two in either order, and neither  *)
(* closing the socket nor cancelling the timer calls a handler back that   *)
(* is already queued.                                                      *)
(***************************************************************************)
EXTENDS Naturals

VARIABLES
    stage,      \* where the coroutine is
    op,         \* what it waits for: "none", "inflight", or the result
    timer,      \* m_deadline_timer and its handler
    sock,       \* m_sock is "open" or "closed"
    cb_called,  \* m_cb_called
    response,   \* m_response, as far as Responses tells apart
    mode,       \* how the body is delimited, once the headers are there
    body,       \* how much of it arrived
    stopped,    \* history: a headers or content callback returned false
    calls,      \* history: how often the response callback was called
    given,      \* history: the response it was called with
    calledAt    \* history: where the coroutine was when it was called

vars == <<stage, op, timer, sock, cb_called, response, mode, body, stopped,
          calls, given, calledAt>>

Reading == {"chunked", "length", "close"}

Stages == {"start", "resolve", "connect", "write", "headers", "done", "threw"}
              \cup Reading

\* The fields a callback looks at: it timed out, error_msg is not empty,
\* content is not empty.
ResponseInfo == [timeout : BOOLEAN, error : BOOLEAN, content : BOOLEAN]

NewResponse == [timeout |-> FALSE, error |-> FALSE, content |-> FALSE]

TypeOK ==
    /\ stage \in Stages
    /\ op \in {"none", "inflight", "ok", "eof", "error"}
    /\ timer \in {"armed", "expired", "aborted", "done"}
    /\ sock \in {"open", "closed"}
    /\ cb_called \in BOOLEAN
    /\ response \in ResponseInfo
    /\ mode \in {"unknown", "none"} \cup Reading
    /\ body \in {"none", "partial", "whole"}
    /\ stopped \in BOOLEAN
    /\ calls \in Nat
    /\ given \in ResponseInfo
    /\ calledAt \in Stages \cup {"never"}

\* make_request has armed the timer and spawned the coroutine.
Init ==
    /\ stage = "start"
    /\ op = "none"
    /\ timer = "armed"
    /\ sock = "closed"
    /\ cb_called = FALSE
    /\ response = NewResponse
    /\ mode = "unknown"
    /\ body = "none"
    /\ stopped = FALSE
    /\ calls = 0
    /\ given = NewResponse
    /\ calledAt = "never"

-----------------------------------------------------------------------------
\* Closing the socket ends the operation on it with an error.  The resolver
\* does not use the socket.
AbortedByClose ==
    IF op = "inflight" /\ stage # "resolve" THEN "error" ELSE op

\* Cancelling the timer: an expired one has its handler queued already.
Cancelled == IF timer = "armed" THEN "aborted" ELSE timer

\* Mutant: the test of m_cb_called is missing.
AnswersAgain(r, error) ==
    /\ cb_called' = TRUE
    /\ sock' = "closed"
    /\ response' = [r EXCEPT !.error = error]
    /\ calls' = calls + 1
    /\ given' = [r EXCEPT !.error = error]
    /\ calledAt' = stage

\* Mutant: the socket stays open when the callback is called.
AnswersKeepsSocket(r, error) ==
    IF cb_called
    THEN /\ response' = r
         /\ UNCHANGED <<sock, cb_called, calls, given, calledAt>>
    ELSE /\ cb_called' = TRUE
         /\ response' = [r EXCEPT !.error = error]
         /\ calls' = calls + 1
         /\ given' = [r EXCEPT !.error = error]
         /\ calledAt' = stage
         /\ UNCHANGED sock

\* do_response_callback(response_cb, error) on the response r, the timer
\* and the operation in flight excepted.
Answers(r, error) ==
    IF cb_called
    THEN /\ response' = r
         /\ UNCHANGED <<sock, cb_called, calls, given, calledAt>>
    ELSE /\ cb_called' = TRUE
         /\ sock' = "closed"
         /\ response' = [r EXCEPT !.error = error]
         /\ calls' = calls + 1
         /\ given' = [r EXCEPT !.error = error]
         /\ calledAt' = stage

\* The coroutine leaves its loop and answers.
Finishes(r, error) ==
    /\ stage' = "done"
    /\ op' = "none"
    /\ Answers(r, error)
    /\ timer' = IF cb_called THEN timer ELSE Cancelled

\* The coroutine starts its next operation on the socket; on a closed one
\* that fails at once.
Awaits(next) ==
    /\ stage' = next
    /\ op' = IF sock = "open" THEN "inflight" ELSE "error"
    /\ UNCHANGED <<timer, sock, cb_called, calls, given, calledAt>>

\* A headers or content callback is called.  When it returns false, ok is
\* false and it may set an error message.  The content callback gets content
\* by reference, so that "some" of it may be left or none.
CallsBack(ok, error) ==
    /\ stopped' = (stopped \/ ~ok)
    /\ ok => ~error

NoCallBack == UNCHANGED stopped

-----------------------------------------------------------------------------
\* The io_service enters yield_func.
CoroutineStarts ==
    /\ stage = "start"
    /\ stage' = "resolve"
    /\ op' = "inflight"
    /\ UNCHANGED <<timer, sock, cb_called, response, mode, body, stopped,
                   calls, given, calledAt>>

\* The network answers.  Only reading can meet the end of the stream.
OpCompletes(r) ==
    /\ op = "inflight"
    /\ r = "eof" => stage \in {"headers"} \cup Reading
    /\ op' = r
    /\ UNCHANGED <<stage, timer, sock, cb_called, response, mode, body,
                   stopped, calls, given, calledAt>>

\* The deadline passes: timeout_cb is queued.
TimerExpires ==
    /\ timer = "armed"
    /\ timer' = "expired"
    /\ UNCHANGED <<stage, op, sock, cb_called, response, mode, body, stopped,
                   calls, given, calledAt>>

\* Mutant: a timeout comes with an error message.
RunTimeoutAsError ==
    /\ timer = "expired"
    /\ timer' = "done"
    /\ Answers([response EXCEPT !.timeout = TRUE], TRUE)
    /\ op' = IF cb_called THEN op ELSE AbortedByClose
    /\ UNCHANGED <<stage, mode, body, stopped>>

\* timeout_cb without an error.
RunTimeout ==
    /\ timer = "expired"
    /\ timer' = "done"
    /\ Answers([response EXCEPT !.timeout = TRUE], FALSE)
    /\ op' = IF cb_called THEN op ELSE AbortedByClose
    /\ UNCHANGED <<stage, mode, body, stopped>>

\* timeout_cb with operation_aborted.
RunAborted ==
    /\ timer = "aborted"
    /\ timer' = "done"
    /\ UNCHANGED <<stage, op, sock, cb_called, response, mode, body, stopped,
                   calls, given, calledAt>>

\* The coroutine resumes with an error of resolve, connect, write or the
\* headers, where the end of the stream is one.
FailsBeforeBody ==
    /\ stage \in {"resolve", "connect", "write", "headers"}
    /\ op \in {"eof", "error"}
    /\ Finishes(response, TRUE)
    /\ NoCallBack
    /\ UNCHANGED <<mode, body>>

\* async_connect opens the socket, whatever happened to it before.
Resolved ==
    /\ stage = "resolve"
    /\ op = "ok"
    /\ stage' = "connect"
    /\ op' = "inflight"
    /\ sock' = "open"
    /\ NoCallBack
    /\ UNCHANGED <<timer, cb_called, response, mode, body, calls, given,
                   calledAt>>

Connected ==
    /\ stage = "connect"
    /\ op = "ok"
    /\ Awaits("write")
    /\ NoCallBack
    /\ UNCHANGED <<response, mode, body>>

\* Mutant: the deadline only covers the request.
WrittenInTime ==
    /\ stage = "write"
    /\ op = "ok"
    /\ stage' = "headers"
    /\ op' = IF sock = "open" THEN "inflight" ELSE "error"
    /\ timer' = Cancelled
    /\ NoCallBack
    /\ UNCHANGED <<sock, cb_called, calls, given, calledAt, response, mode,
                   body>>

Written ==
    /\ stage = "write"
    /\ op = "ok"
    /\ Awaits("headers")
    /\ NoCallBack
    /\ UNCHANGED <<response, mode, body>>

\* The headers cannot be parsed, or their callback stops the request.
HeadersRefused ==
    /\ stage = "headers"
    /\ op = "ok"
    /\ \/ /\ Finishes(response, TRUE)
          /\ NoCallBack
       \/ \E error \in BOOLEAN :
            /\ CallsBack(FALSE, error)
            /\ Finishes(response, error)
    /\ UNCHANGED <<mode, body>>

HeadersWithoutBody ==
    /\ stage = "headers"
    /\ op = "ok"
    /\ mode' = "none"
    /\ body' = "whole"
    /\ CallsBack(TRUE, FALSE)
    /\ Finishes(response, FALSE)

\* A chunked body may have arrived with the headers as a whole; what the
\* content callback returns then is ignored, except for its error message.
HeadersOfChunked ==
    /\ stage = "headers"
    /\ op = "ok"
    /\ mode' = "chunked"
    /\ \E some \in BOOLEAN :
        LET r == [response EXCEPT !.content = some] IN
        \/ /\ body' = "whole"
           /\ \E ok, error \in BOOLEAN :
                CallsBack(ok, error) /\ Finishes(r, error)
        \/ /\ body' = "partial"
           /\ CallsBack(TRUE, FALSE)
           /\ response' = r
           /\ Awaits("chunked")

\* With a length, the content callback gets what came with the headers
\* before the length is read; a length that is no number throws out of the
\* coroutine and out of the io_service's run().
HeadersOfLength ==
    /\ stage = "headers"
    /\ op = "ok"
    /\ mode' = "length"
    /\ \E some \in BOOLEAN :
        LET r == [response EXCEPT !.content = some] IN
        \/ /\ body' = "partial"
           /\ \E error \in BOOLEAN :
                CallsBack(FALSE, error) /\ Finishes(r, error)
        \/ /\ body' = "partial"
           /\ CallsBack(TRUE, FALSE)
           /\ response' = r
           /\ stage' = "threw"
           /\ op' = "none"
           /\ UNCHANGED <<timer, sock, cb_called, calls, given, calledAt>>
        \/ /\ body' = "whole"
           /\ CallsBack(TRUE, FALSE)
           /\ Finishes(r, FALSE)
        \/ /\ body' = "partial"
           /\ CallsBack(TRUE, FALSE)
           /\ response' = r
           /\ Awaits("length")

\* Without either, the body ends with the stream.
HeadersUntilClose ==
    /\ stage = "headers"
    /\ op = "ok"
    /\ mode' = "close"
    /\ body' = "partial"
    /\ \E some \in BOOLEAN :
        LET r == [response EXCEPT !.content = some] IN
        \/ \E error \in BOOLEAN :
            CallsBack(FALSE, error) /\ Finishes(r, error)
        \/ /\ CallsBack(TRUE, FALSE)
           /\ response' = r
           /\ Awaits("close")

\* More of a chunked body: the last chunk is there, or not yet.
ChunkRead ==
    /\ stage = "chunked"
    /\ op = "ok"
    /\ \E some \in BOOLEAN :
        LET r == [response EXCEPT !.content = some] IN
        \/ /\ body' = "whole"
           /\ \E ok, error \in BOOLEAN :
                CallsBack(ok, error) /\ Finishes(r, error)
        \/ /\ UNCHANGED body
           /\ NoCallBack
           /\ response' = r
           /\ Awaits("chunked")
    /\ UNCHANGED mode

\* All that was missing of a body with a length.
LengthRead ==
    /\ stage = "length"
    /\ op = "ok"
    /\ body' = "whole"
    /\ \E ok, error, some \in BOOLEAN :
        /\ CallsBack(ok, error)
        /\ Finishes([response EXCEPT !.content = some], error)
    /\ UNCHANGED mode

\* More of a body that ends with the stream.
CloseRead ==
    /\ stage = "close"
    /\ op = "ok"
    /\ \E some \in BOOLEAN :
        LET r == [response EXCEPT !.content = some] IN
        \/ \E error \in BOOLEAN :
            CallsBack(FALSE, error) /\ Finishes(r, error)
        \/ /\ CallsBack(TRUE, FALSE)
           /\ response' = r
           /\ Awaits("close")
    /\ UNCHANGED <<mode, body>>

\* Mutant: the end of the stream is no error for a body with a length either.
EndOfStreamIsClean ==
    /\ stage \in Reading
    /\ op = "eof"
    /\ body' = IF stage = "close" THEN "whole" ELSE body
    /\ Finishes(response, FALSE)
    /\ NoCallBack
    /\ UNCHANGED mode

\* The stream ends inside the body.  For a body with a length that is an
\* error, for the other two it is not.
EndOfStream ==
    /\ stage \in Reading
    /\ op = "eof"
    /\ body' = IF stage = "close" THEN "whole" ELSE body
    /\ Finishes(response, stage = "length")
    /\ NoCallBack
    /\ UNCHANGED mode

BodyFails ==
    /\ stage \in Reading
    /\ op = "error"
    /\ Finishes(response, TRUE)
    /\ NoCallBack
    /\ UNCHANGED <<mode, body>>

\* Both handlers have run, or the exception has ended run().
Terminated ==
    /\ stage = "threw" \/ (stage = "done" /\ timer = "done")
    /\ UNCHANGED vars

-----------------------------------------------------------------------------
Resumes ==
    \/ FailsBeforeBody
    \/ Resolved
    \/ Connected
    \/ Written
    \/ HeadersRefused
    \/ HeadersWithoutBody
    \/ HeadersOfChunked
    \/ HeadersOfLength
    \/ HeadersUntilClose
    \/ ChunkRead
    \/ LengthRead
    \/ CloseRead
    \/ EndOfStream
    \/ BodyFails

\* After an uncaught exception nobody runs the io_service any more.
Next ==
    \/ /\ stage # "threw"
       /\ \/ CoroutineStarts
          \/ \E r \in {"ok", "eof", "error"} : OpCompletes(r)
          \/ TimerExpires
          \/ RunTimeout
          \/ RunAborted
          \/ Resumes
    \/ Terminated

Spec == Init /\ [][Next]_vars

\* One thread runs the io_service's handlers in the order they became ready,
\* so each of them runs, and the clock reaches the deadline.  Nothing is
\* assumed of the network.
Fairness ==
    /\ WF_vars(CoroutineStarts)
    /\ WF_vars(Resumes)
    /\ WF_vars(TimerExpires)
    /\ WF_vars(RunTimeout)
    /\ WF_vars(RunAborted)

FairSpec == Spec /\ Fairness

-----------------------------------------------------------------------------
Clean(r) == ~r.timeout /\ ~r.error

\* The response callback is called at most once, whichever of the coroutine
\* and the deadline comes first and however late the other is.
AnsweredOnce == calls <= 1 /\ (cb_called <=> calls = 1)

\* A callback that checks the timeout and then the error, as responseinfo.h
\* tells it to, has the reason: the two exclude each other (Session relies on
\* it).
TimeoutOrError == given.timeout => ~given.error

\* A body with a length that is handed over with neither, and that no callback
\* stopped, is all there.
LengthIsWhole ==
    cb_called /\ Clean(given) /\ ~stopped /\ mode = "length" => body = "whole"

\* Once the callback was called nothing is sent or received any more, unless
\* the deadline passed before the name was resolved.
LateTrafficOnlyFromResolve ==
    cb_called /\ sock = "open" => calledAt \in {"start", "resolve"}

\* A callback that never comes leaves its caller waiting: it is called in the
\* end even if the network is silent, unless the coroutine throws.
AnswerComes == <>(cb_called \/ stage = "threw")
=============================================================================
