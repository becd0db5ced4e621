--------------------------- MODULE Download_proofs ---------------------------
(***************************************************************************)
(* Proofs about one request of the asynchronous client, for any sequence   *)
(* of results of the network and any time at which the deadline passes,    *)
(* and about the body it reads, for any bodies, however they are cut into  *)
(* chunks and reads.                                                       *)
(***************************************************************************)
EXTENDS Download, ChunkedBody_proofs

-----------------------------------------------------------------------------
\* How the body is delimited is known from the headers on, and the coroutine
\* reads it that way.
ModeIsStage ==
    /\ stage \in {"start", "resolve", "connect", "write", "headers"} =>
        mode = "unknown"
    /\ stage \in Reading => mode = stage

\* What is handed over still carries neither before it is.
NoReasonYet == ~cb_called => ~response.timeout /\ ~response.error

\* A clean answer is the coroutine's last step.
CleanIsLast == cb_called /\ Clean(given) => stage = "done"

\* Nobody is told anything between the resolver's result and its use.
CalledBeforeConnect ==
    cb_called /\ stage \in {"start", "resolve"} =>
        calledAt \in {"start", "resolve"}

HInv ==
    /\ TypeOK
    /\ ModeIsStage
    /\ NoReasonYet
    /\ CleanIsLast
    /\ CalledBeforeConnect
    /\ AnsweredOnce
    /\ TimeoutOrError
    /\ LengthIsWhole
    /\ LateTrafficOnlyFromResolve

\* What changing one field of a response does.
LEMMA Fields ==
    ASSUME NEW r \in ResponseInfo, NEW b \in BOOLEAN
    PROVE  /\ [r EXCEPT !.error = b] \in ResponseInfo
           /\ [r EXCEPT !.error = b].error = b
           /\ [r EXCEPT !.error = b].timeout = r.timeout
           /\ [r EXCEPT !.content = b] \in ResponseInfo
           /\ [r EXCEPT !.content = b].error = r.error
           /\ [r EXCEPT !.content = b].timeout = r.timeout
           /\ [r EXCEPT !.timeout = b] \in ResponseInfo
           /\ [r EXCEPT !.timeout = b].timeout = b
           /\ [r EXCEPT !.timeout = b].error = r.error
BY DEF ResponseInfo

\* The request as make_request starts it.
LEMMA InitHInv == Init => HInv
<1>1. /\ NewResponse \in ResponseInfo
      /\ ~NewResponse.timeout /\ ~NewResponse.error
  BY DEF NewResponse, ResponseInfo
<1>2. ASSUME Init PROVE TypeOK
  <2>1. cb_called \in BOOLEAN /\ stopped \in BOOLEAN
    BY <1>2 DEF Init
  <2>2. calls \in Nat
    BY <1>2 DEF Init
  <2>3. /\ stage \in Stages
        /\ op \in {"none", "inflight", "ok", "eof", "error"}
        /\ timer \in {"armed", "expired", "aborted", "done"}
        /\ sock \in {"open", "closed"}
        /\ mode \in {"unknown", "none"} \cup Reading
        /\ body \in {"none", "partial", "whole"}
        /\ calledAt \in Stages \cup {"never"}
    BY <1>2 DEF Init, Stages
  <2>4. response \in ResponseInfo /\ given \in ResponseInfo
    BY <1>1, <1>2 DEF Init
  <2> QED
    BY <2>1, <2>2, <2>3, <2>4 DEF TypeOK
<1>3. Init => ModeIsStage /\ NoReasonYet
  BY <1>1 DEF Init, ModeIsStage, NoReasonYet, Reading
<1>4. Init => /\ CleanIsLast
              /\ CalledBeforeConnect
              /\ AnsweredOnce
              /\ TimeoutOrError
              /\ LengthIsWhole
              /\ LateTrafficOnlyFromResolve
  BY <1>1
  DEF Init, CleanIsLast, CalledBeforeConnect, AnsweredOnce, TimeoutOrError,
      LengthIsWhole, LateTrafficOnlyFromResolve
<1> QED
  BY <1>2, <1>3, <1>4 DEF HInv

\* An answer of the coroutine keeps the invariant if a body with a length that
\* is not whole has an error or was stopped.
LEMMA FinishesKeeps ==
    ASSUME HInv, NEW r \in ResponseInfo, NEW error \in BOOLEAN,
           stage \notin {"start", "done"},
           Finishes(r, error),
           r.timeout = response.timeout, r.error = response.error,
           mode' \in {"unknown", "none"} \cup Reading,
           body' \in {"none", "partial", "whole"},
           stopped' \in BOOLEAN,
           mode' = "length" => body' = "whole" \/ error \/ stopped'
    PROVE  HInv'
<1>1. /\ [r EXCEPT !.error = error] \in ResponseInfo
      /\ [r EXCEPT !.error = error].error = error
      /\ [r EXCEPT !.error = error].timeout = r.timeout
  BY DEF ResponseInfo
<1>2. /\ cb_called' \in BOOLEAN /\ cb_called'
      /\ stage' = "done" /\ op' = "none"
      /\ timer' \in {"armed", "expired", "aborted", "done"}
  <2>1. cb_called' \in BOOLEAN
    BY DEF Finishes, Answers, HInv, TypeOK
  <2>2. cb_called'
    BY DEF Finishes, Answers, HInv, TypeOK
  <2>3. timer' \in {"armed", "expired", "aborted", "done"}
    BY DEF Finishes, Cancelled, HInv, TypeOK
  <2>4. stage' = "done" /\ op' = "none"
    BY DEF Finishes
  <2> QED
    BY <2>1, <2>2, <2>3, <2>4
<1> USE DEF HInv, TypeOK, Stages, Reading
<1>3. CASE cb_called
  <2>1. /\ response' = r
        /\ UNCHANGED <<sock, cb_called, calls, given, calledAt>>
    BY <1>3 DEF Finishes, Answers
  <2>2. ~Clean(given)
    BY <1>3 DEF CleanIsLast
  <2> QED
    BY <1>2, <1>3, <2>1, <2>2
    DEF ModeIsStage, NoReasonYet, CleanIsLast, CalledBeforeConnect,
        AnsweredOnce, TimeoutOrError, LengthIsWhole,
        LateTrafficOnlyFromResolve, Clean
<1>4. CASE ~cb_called
  <2>1. /\ sock' = "closed" /\ calls' = calls + 1 /\ calledAt' = stage
        /\ response' = [r EXCEPT !.error = error]
        /\ given' = [r EXCEPT !.error = error]
    BY <1>4 DEF Finishes, Answers
  <2>2. ~given'.timeout /\ given'.error = error /\ calls = 0
    BY <1>1, <1>4, <2>1 DEF NoReasonYet, AnsweredOnce
  <2> QED
    BY <1>1, <1>2, <1>4, <2>1, <2>2
    DEF ModeIsStage, NoReasonYet, CleanIsLast, CalledBeforeConnect,
        AnsweredOnce, TimeoutOrError, LengthIsWhole,
        LateTrafficOnlyFromResolve, Clean
<1> QED
  BY <1>3, <1>4

\* So does its next operation on the socket.
LEMMA AwaitsKeeps ==
    ASSUME HInv, NEW next \in {"write", "headers"} \cup Reading,
           stage \notin {"start", "done"},
           Awaits(next),
           response' \in ResponseInfo,
           response'.timeout = response.timeout,
           response'.error = response.error,
           mode' \in {"unknown", "none"} \cup Reading,
           next \in Reading => mode' = next,
           next \notin Reading => mode' = "unknown",
           body' \in {"none", "partial", "whole"},
           stopped' \in BOOLEAN
    PROVE  HInv'
<1> USE DEF HInv, TypeOK, Stages, Reading
<1>1. /\ stage' = next
      /\ op' \in {"inflight", "error"}
      /\ UNCHANGED <<timer, sock, cb_called, calls, given, calledAt>>
  BY DEF Awaits
<1>2. cb_called => ~Clean(given)
  BY DEF CleanIsLast
<1> QED
  BY <1>1, <1>2
  DEF ModeIsStage, NoReasonYet, CleanIsLast, CalledBeforeConnect,
      AnsweredOnce, TimeoutOrError, LengthIsWhole,
      LateTrafficOnlyFromResolve, Clean

\* A step that touches neither the answer nor the body keeps it if it leaves
\* the stage or starts the resolver.
LEMMA NothingToldKeeps ==
    ASSUME HInv,
           stage' = stage \/ (stage = "start" /\ stage' = "resolve"),
           op' \in {"none", "inflight", "ok", "eof", "error"},
           timer' \in {"armed", "expired", "aborted", "done"},
           UNCHANGED <<sock, cb_called, response, mode, body, stopped, calls,
                       given, calledAt>>
    PROVE  HInv'
BY DEF HInv, TypeOK, Stages, Reading, ModeIsStage, NoReasonYet, CleanIsLast,
       CalledBeforeConnect, AnsweredOnce, TimeoutOrError, LengthIsWhole,
       LateTrafficOnlyFromResolve, Clean

\* The deadline keeps it, whether it is the first to answer or not.
LEMMA RunTimeoutKeeps == HInv /\ RunTimeout => HInv'
<1> SUFFICES ASSUME HInv, RunTimeout PROVE HInv'
  OBVIOUS
<1> USE DEF HInv, TypeOK, Stages, Reading
<1> DEFINE late == [response EXCEPT !.timeout = TRUE]
           told == [late EXCEPT !.error = FALSE]
<1>1. /\ late \in ResponseInfo /\ late.timeout /\ late.error = response.error
      /\ told \in ResponseInfo /\ told.timeout /\ ~told.error
  BY Fields, ZenonT(30)
<1>2. /\ Answers(late, FALSE)
      /\ timer' = "done"
      /\ op' \in {"none", "inflight", "ok", "eof", "error"}
      /\ UNCHANGED <<stage, mode, body, stopped>>
  BY DEF RunTimeout, AbortedByClose
<1> HIDE DEF late
<1>3. CASE cb_called
  <2>1. /\ response' = late
        /\ UNCHANGED <<sock, cb_called, calls, given, calledAt>>
    BY <1>2, <1>3 DEF Answers
  <2> QED
    BY <1>1, <1>2, <1>3, <2>1
    DEF ModeIsStage, NoReasonYet, CleanIsLast, CalledBeforeConnect,
        AnsweredOnce, TimeoutOrError, LengthIsWhole,
        LateTrafficOnlyFromResolve, Clean
<1>4. CASE ~cb_called
  <2>1. /\ cb_called' = TRUE /\ sock' = "closed" /\ calls' = calls + 1
        /\ calledAt' = stage /\ response' = told /\ given' = told
    BY <1>2, <1>4 DEF Answers
  <2> HIDE DEF told
  <2> QED
    BY <1>1, <1>2, <1>4, <2>1
    DEF ModeIsStage, NoReasonYet, CleanIsLast, CalledBeforeConnect,
        AnsweredOnce, TimeoutOrError, LengthIsWhole,
        LateTrafficOnlyFromResolve, Clean
<1> QED
  BY <1>3, <1>4

\* A step of the coroutine, the deadline or the network keeps it.
LEMMA NextHInv == HInv /\ [Next]_vars => HInv'
<1> SUFFICES ASSUME HInv, [Next]_vars PROVE HInv'
  OBVIOUS
<1> USE DEF Reading
<1>t. TypeOK /\ ModeIsStage
  BY DEF HInv
<1>r. response \in ResponseInfo
  BY <1>t DEF TypeOK
<1>b. ASSUME NEW b \in BOOLEAN
      PROVE  /\ [response EXCEPT !.content = b] \in ResponseInfo
             /\ [response EXCEPT !.content = b].timeout = response.timeout
             /\ [response EXCEPT !.content = b].error = response.error
  BY <1>r, <1>b DEF ResponseInfo
<1>1. CASE CoroutineStarts
  BY <1>1, <1>t, NothingToldKeeps DEF CoroutineStarts, TypeOK
<1>2. ASSUME NEW r \in {"ok", "eof", "error"}, OpCompletes(r) PROVE HInv'
  BY <1>2, <1>t, NothingToldKeeps DEF OpCompletes, TypeOK
<1>3. CASE TimerExpires \/ RunAborted
  BY <1>3, <1>t, NothingToldKeeps DEF TimerExpires, RunAborted, TypeOK
<1>4. CASE RunTimeout
  BY <1>4, RunTimeoutKeeps
<1>5. CASE FailsBeforeBody
  BY <1>5, <1>t, <1>r, FinishesKeeps
  DEF FailsBeforeBody, NoCallBack, TypeOK, ModeIsStage
<1>6. CASE Resolved
  BY <1>6
  DEF Resolved, NoCallBack, HInv, TypeOK, Stages, ModeIsStage, NoReasonYet,
      CleanIsLast, CalledBeforeConnect, AnsweredOnce, TimeoutOrError,
      LengthIsWhole, LateTrafficOnlyFromResolve, Clean
<1>7. CASE Connected
  BY <1>7, <1>t, AwaitsKeeps DEF Connected, NoCallBack, TypeOK, ModeIsStage
<1>8. CASE Written
  BY <1>8, <1>t, AwaitsKeeps DEF Written, NoCallBack, TypeOK, ModeIsStage
<1>9. CASE HeadersRefused
  BY <1>9, <1>t, <1>r, FinishesKeeps
  DEF HeadersRefused, CallsBack, NoCallBack, TypeOK, ModeIsStage
<1>10. CASE HeadersWithoutBody
  BY <1>10, <1>t, <1>r, FinishesKeeps
  DEF HeadersWithoutBody, CallsBack, TypeOK
<1>11. CASE HeadersOfChunked
  <2>1. PICK some \in BOOLEAN :
            LET r == [response EXCEPT !.content = some] IN
            \/ /\ body' = "whole"
               /\ \E ok, error \in BOOLEAN :
                    CallsBack(ok, error) /\ Finishes(r, error)
            \/ /\ body' = "partial"
               /\ CallsBack(TRUE, FALSE)
               /\ response' = r
               /\ Awaits("chunked")
    BY <1>11 DEF HeadersOfChunked
  <2>2. stage = "headers" /\ mode' = "chunked"
    BY <1>11 DEF HeadersOfChunked
  <2> QED
    BY <1>t, <1>b, <2>1, <2>2, FinishesKeeps, AwaitsKeeps
    DEF CallsBack, TypeOK
<1>12. CASE HeadersOfLength
  <2>1. PICK some \in BOOLEAN :
            LET r == [response EXCEPT !.content = some] IN
            \/ /\ body' = "partial"
               /\ \E error \in BOOLEAN :
                    CallsBack(FALSE, error) /\ Finishes(r, error)
            \/ /\ body' = "partial"
               /\ CallsBack(TRUE, FALSE)
               /\ response' = r
               /\ stage' = "threw"
               /\ op' = "none"
               /\ UNCHANGED <<timer, sock, cb_called, calls, given, calledAt>>
            \/ /\ body' = "whole"
               /\ CallsBack(TRUE, FALSE)
               /\ Finishes(r, FALSE)
            \/ /\ body' = "partial"
               /\ CallsBack(TRUE, FALSE)
               /\ response' = r
               /\ Awaits("length")
    BY <1>12 DEF HeadersOfLength
  <2>2. stage = "headers" /\ mode' = "length"
    BY <1>12 DEF HeadersOfLength
  <2>3. CASE stage' = "threw"
    <3>1. /\ body' = "partial" /\ stopped' \in BOOLEAN /\ op' = "none"
          /\ response' = [response EXCEPT !.content = some]
          /\ UNCHANGED <<timer, sock, cb_called, calls, given, calledAt>>
      BY <1>t, <2>1, <2>3 DEF Finishes, Awaits, CallsBack, TypeOK
    <3>2. /\ response' \in ResponseInfo
          /\ response'.timeout = response.timeout
          /\ response'.error = response.error
      BY <1>b, <3>1
    <3>3. cb_called => ~Clean(given)
      BY <2>2 DEF HInv, CleanIsLast
    <3> QED
      BY <2>2, <2>3, <3>1, <3>2, <3>3
      DEF HInv, TypeOK, Stages, ModeIsStage, NoReasonYet, CleanIsLast,
          CalledBeforeConnect, AnsweredOnce, TimeoutOrError, LengthIsWhole,
          LateTrafficOnlyFromResolve, Clean
  <2>4. CASE stage' # "threw"
    BY <1>t, <1>b, <2>1, <2>2, <2>4, FinishesKeeps, AwaitsKeeps
    DEF CallsBack, TypeOK
  <2> QED
    BY <2>3, <2>4
<1>13. CASE HeadersUntilClose
  <2>1. PICK some \in BOOLEAN :
            LET r == [response EXCEPT !.content = some] IN
            \/ \E error \in BOOLEAN :
                CallsBack(FALSE, error) /\ Finishes(r, error)
            \/ /\ CallsBack(TRUE, FALSE)
               /\ response' = r
               /\ Awaits("close")
    BY <1>13 DEF HeadersUntilClose
  <2>2. stage = "headers" /\ mode' = "close" /\ body' = "partial"
    BY <1>13 DEF HeadersUntilClose
  <2> QED
    BY <1>t, <1>b, <2>1, <2>2, FinishesKeeps, AwaitsKeeps
    DEF CallsBack, TypeOK
<1>14. CASE ChunkRead
  <2>1. PICK some \in BOOLEAN :
            LET r == [response EXCEPT !.content = some] IN
            \/ /\ body' = "whole"
               /\ \E ok, error \in BOOLEAN :
                    CallsBack(ok, error) /\ Finishes(r, error)
            \/ /\ UNCHANGED body
               /\ NoCallBack
               /\ response' = r
               /\ Awaits("chunked")
    BY <1>14 DEF ChunkRead
  <2>2. stage = "chunked" /\ mode' = "chunked"
    BY <1>14, <1>t DEF ChunkRead, ModeIsStage
  <2> QED
    BY <1>t, <1>b, <2>1, <2>2, FinishesKeeps, AwaitsKeeps
    DEF CallsBack, NoCallBack, TypeOK
<1>15. CASE LengthRead
  <2>1. PICK ok \in BOOLEAN, error \in BOOLEAN, some \in BOOLEAN :
            /\ CallsBack(ok, error)
            /\ Finishes([response EXCEPT !.content = some], error)
    BY <1>15 DEF LengthRead
  <2>2. stage = "length" /\ UNCHANGED mode /\ body' = "whole"
    BY <1>15 DEF LengthRead
  <2> QED
    BY <1>t, <1>b, <2>1, <2>2, FinishesKeeps DEF CallsBack, TypeOK
<1>16. CASE CloseRead
  <2>1. PICK some \in BOOLEAN :
            LET r == [response EXCEPT !.content = some] IN
            \/ \E error \in BOOLEAN :
                CallsBack(FALSE, error) /\ Finishes(r, error)
            \/ /\ CallsBack(TRUE, FALSE)
               /\ response' = r
               /\ Awaits("close")
    BY <1>16 DEF CloseRead
  <2>2. stage = "close" /\ mode' = "close" /\ UNCHANGED body
    BY <1>16, <1>t DEF CloseRead, ModeIsStage
  <2> QED
    BY <1>t, <1>b, <2>1, <2>2, FinishesKeeps, AwaitsKeeps
    DEF CallsBack, TypeOK
<1>17. CASE EndOfStream
  <2>1. /\ stage \in Reading /\ mode = stage /\ UNCHANGED <<mode, stopped>>
        /\ body' \in {body, "whole"}
        /\ Finishes(response, stage = "length")
    BY <1>17, <1>t DEF EndOfStream, NoCallBack, ModeIsStage
  <2> QED
    BY <1>t, <1>r, <2>1, FinishesKeeps DEF TypeOK
<1>18. CASE BodyFails
  BY <1>18, <1>t, <1>r, FinishesKeeps DEF BodyFails, NoCallBack, TypeOK
<1>19. CASE UNCHANGED vars
  BY <1>19, <1>t, NothingToldKeeps DEF vars, TypeOK
<1> QED
  BY <1>1, <1>2, <1>3, <1>4, <1>5, <1>6, <1>7, <1>8, <1>9, <1>10, <1>11,
     <1>12, <1>13, <1>14, <1>15, <1>16, <1>17, <1>18, <1>19
  DEF Next, Resumes, Terminated

\* Every reachable state satisfies the invariant.
THEOREM RequestInvariance == Spec => []HInv
BY InitHInv, NextHInv, PTL DEF Spec

\* Every variable of the request keeps its type.
THEOREM RequestTypes == Spec => []TypeOK
<1>1. HInv => TypeOK
  BY DEF HInv
<1> QED
  BY <1>1, RequestInvariance, PTL

\* do_response_callback calls back once at most, whether the deadline or the
\* coroutine comes first and however late the other one is.
THEOREM OneAnswer == Spec => []AnsweredOnce
<1>1. HInv => AnsweredOnce
  BY DEF HInv
<1> QED
  BY <1>1, RequestInvariance, PTL

\* The response callback never gets a timeout together with an error.
THEOREM TimeoutExcludesError == Spec => []TimeoutOrError
<1>1. HInv => TimeoutOrError
  BY DEF HInv
<1> QED
  BY <1>1, RequestInvariance, PTL

\* A body with a length that comes with neither, and that no callback stopped,
\* is whole.
THEOREM WholeLength == Spec => []LengthIsWhole
<1>1. HInv => LengthIsWhole
  BY DEF HInv
<1> QED
  BY <1>1, RequestInvariance, PTL

\* After the response callback the socket is open only if the deadline passed
\* before the name was resolved.
THEOREM LateTraffic == Spec => []LateTrafficOnlyFromResolve
<1>1. HInv => LateTrafficOnlyFromResolve
  BY DEF HInv
<1> QED
  BY <1>1, RequestInvariance, PTL

-----------------------------------------------------------------------------
\* Every step of a download is a step of the request.
LEMMA DNextIsNext == [DNext]_dvars => [Next]_vars
<1>1. DResumes => Resumes
  BY DEF DResumes, DOther, DHeadersRefused, DHeadersOfChunked,
         DHeadersOfLength, DHeadersUntilClose, DChunkRead, DLengthRead,
         DCloseRead, DEndOfStream, DBodyFails, BreaksOff, Resumes
<1>2. DBytesArrive => UNCHANGED vars
  BY DEF DBytesArrive
<1>3. DNext => Next \/ UNCHANGED vars
  BY <1>1, <1>2 DEF DNext, DOther, DOpCompletes, Next
<1> QED
  BY <1>3 DEF dvars

\* A download implements HttpClient's request: whatever the callbacks do with
\* the content, the request is answered as HttpClient says.
THEOREM DownloadIsRequest == DSpec => Spec
<1>1. DInit => Init
  BY DEF DInit
<1> QED
  BY <1>1, DNextIsNext, PTL DEF DSpec, Spec

-----------------------------------------------------------------------------
\* After an answer that did not come before the socket was opened no
\* operation is in flight any more, so that one read at most is still to be
\* seen, and none after its content callback.
OneReadLeft ==
    cb_called /\ calledAt \notin {"start", "resolve"} =>
        /\ op # "inflight"
        /\ lateCalls <= 1
        /\ op = "ok" => lateCalls = 0

LateInv ==
    /\ HInv
    /\ lateCalls \in Nat
    /\ ~cb_called => lateCalls = 0
    /\ OneReadLeft

\* The steps that use a result: the operation after it is in flight only on
\* an open socket, and there is none after an answer.
UsesResult ==
    /\ op' \in {"none", "inflight", "error"}
    /\ op' = "inflight" => sock = "open"
    /\ \/ UNCHANGED <<cb_called, calledAt>>
       \/ ~cb_called /\ cb_called' = TRUE /\ op' = "none"

\* Answering and starting the next operation use the result.
LEMMA FinishesUses ==
    ASSUME NEW r, NEW error, HInv, Finishes(r, error)
    PROVE  UsesResult
BY DEF Finishes, Answers, UsesResult, HInv, TypeOK

\* So does waiting for the next operation.
LEMMA AwaitsUses ==
    ASSUME NEW next, Awaits(next)
    PROVE  UsesResult
BY DEF Awaits, UsesResult

\* The steps of the coroutine behind the resolver are of this kind.
LEMMA ResumesUses ==
    ASSUME HInv, Resumes, ~Resolved
    PROVE  UsesResult
<1>1. CASE FailsBeforeBody \/ HeadersRefused \/ HeadersWithoutBody
            \/ EndOfStream \/ BodyFails
  BY <1>1, FinishesUses
  DEF FailsBeforeBody, HeadersRefused, HeadersWithoutBody, EndOfStream,
      BodyFails
<1>2. CASE Connected \/ Written
  BY <1>2, AwaitsUses DEF Connected, Written
<1>3. CASE HeadersOfChunked \/ HeadersUntilClose \/ ChunkRead \/ CloseRead
  BY <1>3, FinishesUses, AwaitsUses
  DEF HeadersOfChunked, HeadersUntilClose, ChunkRead, CloseRead
<1>4. CASE HeadersOfLength
  <2>1. CASE stage' = "threw" /\ op' = "none"
                /\ UNCHANGED <<timer, sock, cb_called, calls, given, calledAt>>
    BY <2>1 DEF UsesResult
  <2> QED
    BY <1>4, <2>1, FinishesUses, AwaitsUses DEF HeadersOfLength
<1>5. CASE LengthRead
  BY <1>5, FinishesUses DEF LengthRead
<1> QED
  BY <1>1, <1>2, <1>3, <1>4, <1>5 DEF Resumes

\* Using a result keeps the invariant, with or without a content callback if
\* the result was there.
LEMMA UseKeeps ==
    ASSUME LateInv, HInv', UsesResult,
           \/ UNCHANGED lateCalls
           \/ /\ op = "ok"
              /\ lateCalls' = IF cb_called THEN lateCalls + 1 ELSE lateCalls
    PROVE  LateInv'
<1>1. cb_called \in BOOLEAN /\ cb_called' \in BOOLEAN
  BY DEF LateInv, HInv, TypeOK
<1>2. lateCalls' \in Nat /\ (~cb_called' => lateCalls' = 0)
  BY <1>1 DEF LateInv, UsesResult
<1>3. OneReadLeft'
  <2>1. SUFFICES ASSUME cb_called', calledAt' \notin {"start", "resolve"}
                 PROVE  op' # "inflight" /\ lateCalls' <= 1 /\ op' # "ok"
    BY DEF OneReadLeft
  <2>2. CASE UNCHANGED <<cb_called, calledAt>>
    <3>1. sock # "open"
      BY <2>1, <2>2 DEF LateInv, HInv, LateTrafficOnlyFromResolve
    <3> QED
      BY <2>1, <2>2, <3>1 DEF LateInv, OneReadLeft, UsesResult
  <2>3. CASE ~cb_called /\ op' = "none"
    BY <1>1, <2>3 DEF LateInv
  <2> QED
    BY <2>2, <2>3 DEF UsesResult
<1> QED
  BY <1>2, <1>3 DEF LateInv

\* What the coroutine does with the data is of that kind, too.
LEMMA DResumesCalls ==
    ASSUME DResumes
    PROVE  \/ UNCHANGED lateCalls
           \/ /\ op = "ok"
              /\ lateCalls' = IF cb_called THEN lateCalls + 1 ELSE lateCalls
<1>1. ASSUME Decodes
      PROVE  \/ UNCHANGED lateCalls
             \/ lateCalls' = IF cb_called THEN lateCalls + 1 ELSE lateCalls
  BY <1>1 DEF Decodes, ContentCallback
<1>2. CASE DHeadersOfChunked \/ DChunkRead
  BY <1>1, <1>2
  DEF DHeadersOfChunked, DChunkRead, HeadersOfChunked, ChunkRead
<1>3. CASE DHeadersOfLength \/ DHeadersUntilClose \/ DLengthRead \/ DCloseRead
  BY <1>3
  DEF DHeadersOfLength, DHeadersUntilClose, DLengthRead, DCloseRead,
      HeadersOfLength, HeadersUntilClose, LengthRead, CloseRead,
      ContentCallback
<1>4. ASSUME \/ DOther(FailsBeforeBody) \/ DOther(Resolved)
             \/ DOther(Connected) \/ DOther(Written) \/ DHeadersRefused
             \/ DOther(HeadersWithoutBody) \/ DEndOfStream \/ DBodyFails
      PROVE  UNCHANGED lateCalls
  BY <1>4
  DEF DOther, DHeadersRefused, DEndOfStream, DBodyFails, BreaksOff, data
<1> QED
  BY <1>2, <1>3, <1>4 DEF DResumes

\* Every step of a download keeps the invariant.
LEMMA NextLateInv == LateInv /\ [DNext]_dvars => LateInv'
<1> SUFFICES ASSUME LateInv, [DNext]_dvars PROVE LateInv'
  OBVIOUS
<1>1. HInv /\ HInv' /\ TypeOK
  BY DNextIsNext, NextHInv DEF LateInv, HInv
<1> USE DEF TypeOK
<1>2. CASE DResumes
  <2>1. Resumes
    BY <1>2
    DEF DResumes, DOther, DHeadersRefused, DHeadersOfChunked, DHeadersOfLength,
        DHeadersUntilClose, DChunkRead, DLengthRead, DCloseRead, DEndOfStream,
        DBodyFails, BreaksOff, Resumes
  <2>2. CASE DOther(Resolved)
    BY <1>1, <2>2
    DEF DOther, Resolved, data, LateInv, OneReadLeft, HInv, CalledBeforeConnect
  <2>3. CASE Resolved /\ ~DOther(Resolved)
    BY <1>2, <2>3
    DEF DResumes, DOther, DHeadersRefused, DHeadersOfChunked, DHeadersOfLength,
        DHeadersUntilClose, DChunkRead, DLengthRead, DCloseRead, DEndOfStream,
        DBodyFails, BreaksOff, Resolved,
        FailsBeforeBody, Connected, Written, HeadersRefused,
        HeadersWithoutBody, HeadersOfChunked, HeadersOfLength,
        HeadersUntilClose, ChunkRead, LengthRead, CloseRead, EndOfStream,
        BodyFails, Reading
  <2>4. CASE ~Resolved
    BY <1>1, <1>2, <2>1, <2>4, ResumesUses, DResumesCalls, UseKeeps
  <2> QED
    BY <2>2, <2>3, <2>4
<1>3. CASE DOther(CoroutineStarts)
  BY <1>1, <1>3
  DEF DOther, CoroutineStarts, data, LateInv, OneReadLeft, HInv,
      CalledBeforeConnect
<1>4. ASSUME NEW r \in {"ok", "eof", "error"}, DOpCompletes(r) PROVE LateInv'
  BY <1>1, <1>4 DEF DOpCompletes, OpCompletes, data, LateInv, OneReadLeft
<1>5. CASE DOther(TimerExpires) \/ DOther(RunAborted)
  BY <1>1, <1>5
  DEF DOther, TimerExpires, RunAborted, data, LateInv, OneReadLeft
<1>6. CASE DOther(RunTimeout)
  <2>1. CASE cb_called
    BY <1>1, <1>6, <2>1
    DEF DOther, RunTimeout, Answers, data, LateInv, OneReadLeft
  <2>2. CASE ~cb_called
    <3>1. /\ cb_called' = TRUE /\ calledAt' = stage
          /\ op' = AbortedByClose /\ lateCalls = 0 /\ lateCalls' = 0
      BY <1>6, <2>2 DEF DOther, RunTimeout, Answers, data, LateInv
    <3> QED
      BY <1>1, <3>1 DEF LateInv, OneReadLeft, AbortedByClose
  <2> QED
    BY <2>1, <2>2
<1>7. CASE UNCHANGED dvars \/ DOther(Terminated) \/ DBytesArrive
  BY <1>1, <1>7
  DEF DOther, Terminated, DBytesArrive, dvars, vars, data, LateInv,
      OneReadLeft
<1> QED
  BY <1>2, <1>3, <1>4, <1>5, <1>6, <1>7 DEF DNext

\* The content callback writes to the file once at most after the caller was
\* answered, unless the deadline passed before the name was resolved.
THEOREM OneCallAfterAnswer == DSpec => []OneLateCall
<1>1. DInit => LateInv
  BY InitHInv DEF DInit, Init, LateInv, OneReadLeft
<1>2. LateInv => OneLateCall
  BY DEF LateInv, OneReadLeft, OneLateCall, HInv, TypeOK
<1> QED
  BY <1>1, <1>2, NextLateInv, PTL DEF DSpec

-----------------------------------------------------------------------------
\* The data: what each variable may be.
HasBeginning(f, s) == \E n \in 0..Len(s) : f = SubSeq(s, 1, n)

DataTyped ==
    /\ client \in {"own", "async", "sync"}
    /\ sent \in Seq(MarkedByte)
    /\ arrived \in 0..Len(sent)
    /\ content \in Seq(Byte)
    /\ file \in Seq(Byte)
    /\ response.content <=> content # <<>>
    /\ HasBeginning(file, Data(sent))
    /\ opened \in BOOLEAN
    /\ lost \in BOOLEAN
    /\ lost => opened
    /\ lateCalls <= arrived + 1

\* Before the headers, and without a body, there is no data.
SentAsDelimited ==
    IF mode \in Reading THEN sent \in Sent[mode]
    ELSE /\ sent = <<>> /\ content = <<>> /\ file = <<>>
         /\ arrived = 0 /\ lateCalls = 0

OnlyDownloadsWrite == client = "own" => file = <<>>

\* The content of a chunked body is handed over in one piece, at its end.
ChunksAtOnce ==
    /\ mode = "chunked" /\ body # "whole" => file = <<>>
    /\ stage = "chunked" => body # "whole"

LengthArrives ==
    /\ mode = "length" /\ body = "whole" => arrived = Len(sent)
    /\ stage = "length" => arrived < Len(sent)

\* A download that does not stop the request leaves nothing of the content.
HandedOver ==
    mode \in {"length", "close"} \/ (mode = "chunked" /\ body = "whole")

Emptied == client # "own" /\ ~stopped /\ HandedOver => content = <<>>

\* A callback that stops the request ends it; a download says why.
StopIsLast == stopped => stage = "done" /\ cb_called

StopHasReason == stopped /\ client # "own" => ~Clean(given)

\* Bytes wait in a read of a body with a length only, and are dropped by its
\* end only.
UnreadTyped ==
    /\ response_buf \in Seq(Byte)
    /\ dropped \in Seq(Byte)
    /\ response_buf # <<>> => stage = "length"
    /\ dropped # <<>> => stage = "done"

DataInv ==
    /\ LateInv
    /\ UnreadTyped
    /\ DataTyped
    /\ SentAsDelimited
    /\ OnlyDownloadsWrite
    /\ NothingLostOrDoubled
    /\ EndOfChunks
    /\ ChunksAtOnce
    /\ LengthArrives
    /\ Emptied
    /\ StopIsLast
    /\ StopHasReason

\* What the server may send is data to the decoder.
LEMMA PlainType ==
    ASSUME NEW c \in Seq(Byte)
    PROVE  Plain(c) \in Seq(MarkedByte) /\ Len(Plain(c)) = Len(c)
<1>1. Len(c) \in Nat /\ DOMAIN c = 1..Len(c) /\ \A i \in 1..Len(c) : c[i] \in Byte
  BY LenProperties, ElementOfSeq
<1> QED
  BY <1>1 DEF Plain, MarkedByte

\* Whatever the server may send is a sequence of marked bytes.
LEMMA SentType ==
    ASSUME NEW m \in Reading, NEW s \in Sent[m]
    PROVE  s \in Seq(MarkedByte)
<1>1. ASSUME NEW b \in Bodies PROVE b.sent \in Seq(MarkedByte)
  BY BodiesAssumption, <1>1 DEF IsChunked
<1>2. CASE m = "chunked"
  BY <1>1, <1>2 DEF Sent, Reading
<1>3. CASE m # "chunked"
  <2>1. PICK b \in Bodies : s = Plain(Data(b.sent))
    BY <1>3 DEF Sent
  <2> QED
    BY <1>1, <2>1, DataType, PlainType
<1> QED
  BY <1>2, <1>3

\* What the decoder makes of a part of a chunked body.
LEMMA DecodesBody ==
    ASSUME NEW s \in Sent["chunked"], NEW n \in 0..Len(s)
    PROVE  /\ ReachChunkEnd(Bytes(SubSeq(s, 1, n)))
                = [end |-> n + 2 >= Len(s), content |-> Data(SubSeq(s, 1, n))]
           /\ n + 2 >= Len(s) => Data(SubSeq(s, 1, n)) = Data(s)
<1>1. PICK b \in Bodies : s = b.sent
  BY DEF Sent, Reading
<1>2. IsChunked(s, b.ends)
  BY <1>1, BodiesAssumption
<1> QED
  BY <1>2, DecodesEveryPrefix, DataAtEnd

\* The content that came behind the content there was.
LEMMA DataGoesOn ==
    ASSUME NEW s \in Seq(MarkedByte), NEW k \in 0..Len(s), NEW n \in k..Len(s)
    PROVE  /\ Data(SubSeq(s, 1, n)) =
                Data(SubSeq(s, 1, k)) \o Data(SubSeq(s, k + 1, n))
           /\ Data(SubSeq(s, 1, k)) \in Seq(Byte)
           /\ Data(SubSeq(s, k + 1, n)) \in Seq(Byte)
<1>1. /\ Len(s) \in Nat /\ 1 \in 1..(Len(s) + 1) /\ k \in (1 - 1)..Len(s)
      /\ 1 \in Nat \ {0} /\ k + 1 \in Nat \ {0} /\ n \in 0..Len(s)
  BY LenProperties
<1>2. Data(SubSeq(s, 1, n)) =
        Data(SubSeq(s, 1, k)) \o Data(SubSeq(s, k + 1, n))
  BY <1>1, DataOfParts
<1>3. Data(SubSeq(s, 1, k)) \in Seq(Byte)
  BY <1>1, PartType, DataType
<1> DEFINE next == k + 1
<1>4. next \in Nat \ {0}
  BY <1>1
<1> HIDE DEF next
<1>5. Data(SubSeq(s, next, n)) \in Seq(Byte)
  BY <1>1, <1>4, PartType, DataType
<1> QED
  BY <1>2, <1>3, <1>5 DEF next

\* What a sequence is put in front of begins with it.
LEMMA Beginning ==
    ASSUME NEW T, NEW f \in Seq(T), NEW r \in Seq(T)
    PROVE  HasBeginning(f, f \o r)
<1> DEFINE all == f \o r
           l == Len(f)
           p == SubSeq(all, 1, l)
<1>1. /\ all \in Seq(T) /\ l \in 0..Len(all)
      /\ l \in Nat /\ 1 \in Nat \ {0}
      /\ \A i \in 1..l : all[i] = f[i]
  BY ConcatProperties, LenProperties
<1> HIDE DEF l, all
<1>2. /\ p \in Seq(T)
      /\ Len(p) = IF 1 <= l THEN l - 1 + 1 ELSE 0
      /\ \A i \in 1..(l - 1 + 1) : p[i] = all[1 + i - 1]
  BY <1>1, PartType
<1> HIDE DEF p
<1>3. Len(p) = l /\ \A i \in 1..l : p[i] = f[i]
  BY <1>1, <1>2
<1>4. p = f
  BY <1>2, <1>3, SeqEqual DEF l
<1>5. \E n \in 0..Len(all) : f = SubSeq(all, 1, n)
  BY <1>1, <1>4 DEF p
<1> QED
  BY <1>5 DEF HasBeginning, all

\* It does so however much is put behind.
LEMMA BeginningOfConcat ==
    ASSUME NEW T, NEW f \in Seq(T), NEW c \in Seq(T), NEW r \in Seq(T)
    PROVE  HasBeginning(f, (f \o c) \o r)
<1>1. (f \o c) \o r = f \o (c \o r)
  BY ConcatAssociative
<1>2. c \o r \in Seq(T)
  BY ConcatProperties
<1> HIDE DEF HasBeginning
<1>3. HasBeginning(f, f \o (c \o r))
  <2> DEFINE rest == c \o r
  <2> HIDE DEF rest
  <2>1. rest \in Seq(T)
    BY <1>2 DEF rest
  <2>2. HasBeginning(f, f \o rest)
    BY <2>1, Beginning
  <2> QED
    BY <2>2 DEF rest
<1> QED
  BY <1>1, <1>3

\* The file begins the content of the body if file and content are what came.
LEMMA DataBegins ==
    ASSUME NEW s \in Seq(MarkedByte), NEW n \in 0..Len(s),
           NEW f \in Seq(Byte), NEW c \in Seq(Byte),
           f \o c = Data(SubSeq(s, 1, n))
    PROVE  HasBeginning(f, Data(s))
<1> DEFINE rest == Data(SubSeq(s, n + 1, Len(s)))
<1>1. Len(s) \in n..Len(s) /\ SubSeq(s, 1, Len(s)) = s
  BY LenProperties, SubSeqFull
<1>2. Data(s) = Data(SubSeq(s, 1, n)) \o rest /\ rest \in Seq(Byte)
  BY <1>1, DataGoesOn
<1> HIDE DEF rest
<1>3. HasBeginning(f, (f \o c) \o rest)
  BY <1>2, BeginningOfConcat
<1> QED
  BY <1>2, <1>3

-----------------------------------------------------------------------------
\* What a content callback has to leave behind: a download that does not stop
\* the request empties the content, one that does says why.
CallbackIsFair ==
    /\ client # "own" /\ ~stopped' => content' = <<>>
    /\ client # "own" /\ stopped' /\ ~cb_called => response'.error

DataKept ==
    /\ DataTyped'
    /\ OnlyDownloadsWrite'
    /\ NothingLostOrDoubled'

\* What is in the file and in the content after a callback.
LEMMA CallbackMoves ==
    ASSUME NEW c \in Seq(Byte), file \in Seq(Byte), lost => opened,
           ContentCallback(c), opened \in BOOLEAN, lost \in BOOLEAN,
           client \in {"own", "async", "sync"}
    PROVE  /\ CallbackIsFair
           /\ file' \in Seq(Byte) /\ content' \in Seq(Byte)
           /\ opened' \in BOOLEAN /\ lost' \in BOOLEAN /\ (lost' => opened')
           /\ client = "own" => file' = file
           /\ lost' => file' = file
           /\ client # "own" /\ ~lost' => ~lost /\ file' \o content' = file \o c
<1>1. <<>> \in Seq(Byte) /\ file \o c \in Seq(Byte)
  BY EmptySeq, ConcatProperties
<1>2. CASE OwnCallback(c)
  BY <1>1, <1>2 DEF OwnCallback, CallbackIsFair
<1>3. CASE CannotOpen(c)
  BY <1>1, <1>3 DEF CannotOpen, Returns, CallbackIsFair
<1>4. CASE Writes(c)
  <2>1. /\ client # "own" /\ opened' = TRUE /\ content' = <<>>
        /\ \/ ~lost /\ file' = file \o c /\ lost' = lost
           \/ lost' = TRUE /\ file' = file
        /\ stopped' = FALSE
    BY <1>4 DEF Writes, Returns
  <2>2. ~lost' => file' \o content' = file \o c
    <3>1. (file \o c) \o <<>> = file \o c
      BY <1>1, ConcatEmptySeq
    <3> QED
      BY <2>1, <3>1
  <2>3. file' \in Seq(Byte) /\ content' \in Seq(Byte) /\ opened' \in BOOLEAN
    BY <1>1, <2>1
  <2>4. lost' \in BOOLEAN /\ (lost' => file' = file) /\ (~lost' => ~lost)
    <3>1. CASE ~lost /\ lost' = lost
      BY <3>1
    <3>2. CASE lost' = TRUE /\ file' = file
      BY <3>2
    <3> QED
      BY <2>1, <3>1, <3>2
  <2>5. CallbackIsFair
    BY <2>1 DEF CallbackIsFair
  <2> QED
    BY <2>1, <2>2, <2>3, <2>4, <2>5
<1> QED
  BY <1>2, <1>3, <1>4 DEF ContentCallback

\* When no bytes wait or are dropped, file and content are all there is.
LEMMA NothingUnread ==
    ASSUME NEW f \in Seq(Byte), NEW c \in Seq(Byte)
    PROVE  f \o c \in Seq(Byte) /\ f \o c \o <<>> \o <<>> = f \o c
<1> DEFINE fc == f \o c
<1>1. fc \in Seq(Byte)
  BY ConcatProperties
<1> HIDE DEF fc
<1>2. fc \o <<>> = fc
  BY <1>1, ConcatEmptySeq
<1> QED
  BY <1>1, <1>2 DEF fc

\* A callback with all that came since the one before keeps the data.
LEMMA CallbackKeeps ==
    ASSUME DataInv, UNCHANGED client, sent' \in Seq(MarkedByte),
           arrived' \in 0..Len(sent'),
           sent' = sent \/ file = <<>>,
           lateCalls <= arrived',
           response'.content = (content' # <<>>),
           NEW c \in Seq(Byte), ContentCallback(c),
           client # "own" /\ ~lost => file \o c = Data(Received'),
           response_buf' = <<>>, dropped' = <<>>
    PROVE  DataKept /\ CallbackIsFair
<1>1. /\ CallbackIsFair
      /\ file' \in Seq(Byte) /\ content' \in Seq(Byte)
      /\ opened' \in BOOLEAN /\ lost' \in BOOLEAN /\ (lost' => opened')
      /\ client = "own" => file' = file
      /\ lost' => file' = file
      /\ client # "own" /\ ~lost' => ~lost /\ file' \o content' = file \o c
  BY CallbackMoves DEF DataInv, DataTyped
<1>2. OnlyDownloadsWrite' /\ NothingLostOrDoubled'
  <2>1. file' \o content' \o <<>> \o <<>> = file' \o content'
    BY <1>1, NothingUnread
  <2> QED
    BY <1>1, <2>1 DEF OnlyDownloadsWrite, NothingLostOrDoubled, DataInv
<1>3. lateCalls' <= arrived' + 1
  <2>1. /\ lateCalls \in Nat /\ arrived' \in Nat
        /\ lateCalls' = lateCalls \/ lateCalls' = lateCalls + 1
    BY LenProperties DEF ContentCallback, DataInv, LateInv
  <2> QED
    BY <2>1
<1>4. HasBeginning(file', Data(sent'))
  <2>1. ASSUME file' = file, ~(client # "own" /\ ~lost') PROVE HasBeginning(file', Data(sent'))
    <3>1. CASE sent' = sent
      BY <2>1, <3>1 DEF DataInv, DataTyped
    <3>2. CASE file = <<>>
      <4>1. Data(sent') \in Seq(Byte)
        BY DataType
      <4>2. <<>> \o Data(sent') = Data(sent') /\ <<>> \in Seq(Byte)
        BY <4>1, ConcatEmptySeq, EmptySeq
      <4>3. HasBeginning(<<>>, <<>> \o Data(sent'))
        <5> DEFINE s == Data(sent')
        <5> HIDE DEF s
        <5>1. HasBeginning(<<>>, <<>> \o s)
          BY <4>1, <4>2, Beginning DEF s
        <5> QED
          BY <5>1 DEF s
      <4> QED
        BY <2>1, <3>2, <4>2, <4>3
    <3> QED
      BY <3>1, <3>2
  <2>2. ASSUME client # "own", ~lost' PROVE HasBeginning(file', Data(sent'))
    <3>1. file' \o content' = Data(SubSeq(sent', 1, arrived'))
      BY <1>1, <2>2 DEF Received
    <3> QED
      BY <1>1, <3>1, DataBegins
  <2> QED
    BY <1>1, <2>1, <2>2
<1>5. DataTyped'
  BY <1>1, <1>3, <1>4 DEF DataTyped, DataInv
<1> QED
  BY <1>1, <1>2, <1>5 DEF DataKept

\* Decoding all that came of a chunked body keeps the data, and sees its end.
LEMMA DecodesKeeps ==
    ASSUME DataInv, UNCHANGED client, sent' \in Sent["chunked"],
           arrived' \in 0..Len(sent'), file = <<>>,
           lateCalls <= arrived',
           response'.content = (content' # <<>>), Decodes,
           response_buf' = <<>>, dropped' = <<>>
    PROVE  /\ DataKept
           /\ body' \in {"partial", "whole"}
           /\ body' = "whole" <=> arrived' + 2 >= Len(sent')
           /\ body' = "whole" => CallbackIsFair
           /\ body' # "whole" => file' = <<>>
<1>1. PICK decoded \in {ReachChunkEnd(Bytes(Received'))} :
        /\ body' = IF decoded.end THEN "whole" ELSE "partial"
        /\ \/ decoded.end /\ ContentCallback(decoded.content)
           \/ /\ ~decoded.end
              /\ content' = decoded.content
              /\ UNCHANGED <<file, opened, lost, lateCalls>>
  BY DEF Decodes
<1> DEFINE e == arrived' + 2 >= Len(sent')
           d == Data(Received')
<1>2. sent' \in Seq(MarkedByte) /\ "chunked" \in Reading
  BY SentType DEF Reading
<1>3. d \in Seq(Byte)
  <2>1. Len(sent') \in arrived'..Len(sent')
    BY <1>2, LenProperties
  <2> QED
    BY <1>2, <2>1, DataGoesOn DEF Received
<1>4. decoded = [end |-> e, content |-> d]
  <2>1. ReachChunkEnd(Bytes(Received')) = [end |-> e, content |-> d]
    BY DecodesBody DEF Received
  <2> QED
    BY <1>1, <2>1
<1>5. decoded.content = d /\ e \in BOOLEAN /\ decoded.end = e
  <2> HIDE DEF d
  <2>1. e \in BOOLEAN
    OBVIOUS
  <2> HIDE DEF e
  <2> QED
    BY <1>4, <2>1
<1>6. <<>> \o d = d
  BY <1>3, ConcatEmptySeq
<1>7. CASE e
  <2>1. body' = "whole" /\ ContentCallback(d)
    BY <1>1, <1>5, <1>7
  <2>2. DataKept /\ CallbackIsFair
    <3>1. file \o d = Data(Received')
      BY <1>6
    <3> HIDE DEF d
    <3> QED
      BY <1>2, <1>3, <2>1, <3>1, CallbackKeeps
  <2> QED
    BY <1>7, <2>1, <2>2
<1>8. CASE ~e
  <2>1. /\ body' = "partial" /\ content' = d
        /\ UNCHANGED <<file, opened, lost, lateCalls>>
    BY <1>1, <1>5, <1>8
  <2>2. OnlyDownloadsWrite' /\ NothingLostOrDoubled'
    <3>1. <<>> \o d \o <<>> \o <<>> = <<>> \o d
      <4> HIDE DEF d
      <4> QED
        BY <1>3, EmptySeq, NothingUnread
    <3> HIDE DEF d
    <3>2. file' \o content' \o response_buf' \o dropped' = d
      BY <1>6, <2>1, <3>1
    <3> QED
      BY <2>1, <3>2 DEF OnlyDownloadsWrite, NothingLostOrDoubled, d
  <2>3. HasBeginning(file', Data(sent'))
    <3>1. Data(sent') \in Seq(Byte) /\ <<>> \in Seq(Byte)
      BY <1>2, DataType, EmptySeq
    <3> DEFINE s == Data(sent')
    <3> HIDE DEF s
    <3>2. HasBeginning(<<>>, <<>> \o s) /\ <<>> \o s = s
      BY <3>1, Beginning, ConcatEmptySeq DEF s
    <3> QED
      BY <2>1, <3>2 DEF s
  <2>4. lateCalls' <= arrived' + 1
    <3>1. lateCalls \in Nat /\ arrived' \in Nat
      BY <1>2, LenProperties DEF DataInv, LateInv
    <3>2. lateCalls' = lateCalls /\ lateCalls <= arrived'
      BY <2>1
    <3>3. ASSUME NEW k \in Nat, NEW n \in Nat, k <= n
          PROVE  k <= n + 1
      BY <3>3
    <3> QED
      BY <3>1, <3>2, <3>3, Zenon
  <2>5. DataTyped'
    <3> HIDE DEF d
    <3> QED
      BY <1>2, <1>3, <2>1, <2>3, <2>4 DEF DataTyped, DataInv
  <2> QED
    BY <1>8, <2>1, <2>2, <2>5 DEF DataKept
<1> QED
  BY <1>7, <1>8

-----------------------------------------------------------------------------
\* The coroutine's answer tells an error if the callback left one.
LEMMA AnswerHasReason ==
    ASSUME HInv, stage # "done", NEW r, NEW error, Finishes(r, error),
           ~cb_called => response'.error
    PROVE  cb_called' /\ ~Clean(given') /\ stage' = "done"
<1>1. CASE cb_called
  BY <1>1 DEF Finishes, Answers, HInv, CleanIsLast, Clean
<1>2. CASE ~cb_called
  BY <1>2 DEF Finishes, Answers, Clean
<1> QED
  BY <1>1, <1>2 DEF HInv, TypeOK

\* Answering is the last step of the coroutine.
LEMMA FinishesLast ==
    ASSUME NEW r, NEW error, Finishes(r, error), cb_called \in BOOLEAN
    PROVE  cb_called' = TRUE /\ stage' = "done"
<1>1. CASE cb_called
  BY <1>1 DEF Finishes, Answers
<1>2. CASE ~cb_called
  BY <1>2 DEF Finishes, Answers
<1> QED
  BY <1>1, <1>2

\* Once answered, the answer stays.
LEMMA AnswerStays ==
    ASSUME [Next]_vars, cb_called = TRUE
    PROVE  cb_called' = TRUE /\ given' = given
<1>1. ASSUME NEW r, NEW error, Answers(r, error)
      PROVE  cb_called' = TRUE /\ given' = given
  BY <1>1 DEF Answers
<1>2. ASSUME NEW next, Awaits(next)
      PROVE  cb_called' = TRUE /\ given' = given
  BY <1>2 DEF Awaits
<1>3. CASE FailsBeforeBody \/ HeadersRefused \/ HeadersWithoutBody
            \/ LengthRead \/ EndOfStream \/ BodyFails
  BY <1>1, <1>3
  DEF FailsBeforeBody, HeadersRefused, HeadersWithoutBody, LengthRead,
      EndOfStream, BodyFails, Finishes
<1>4. CASE Resolved \/ Connected \/ Written
  BY <1>2, <1>4 DEF Resolved, Connected, Written
<1>5. CASE HeadersOfChunked \/ HeadersOfLength \/ HeadersUntilClose
            \/ ChunkRead \/ CloseRead
  BY <1>1, <1>2, <1>5
  DEF HeadersOfChunked, HeadersOfLength, HeadersUntilClose, ChunkRead,
      CloseRead, Finishes
<1>6. CASE CoroutineStarts \/ (\E r \in {"ok", "eof", "error"} : OpCompletes(r))
            \/ TimerExpires \/ RunAborted \/ Terminated \/ UNCHANGED vars
  BY <1>6
  DEF CoroutineStarts, OpCompletes, TimerExpires, RunAborted, Terminated, vars
<1>7. CASE RunTimeout
  BY <1>1, <1>7 DEF RunTimeout
<1> QED
  BY <1>3, <1>4, <1>5, <1>6, <1>7 DEF Next, Resumes

\* A callback stops the request in its last step only.
LEMMA StopEnds ==
    ASSUME HInv, StopIsLast, [Next]_vars
    PROVE  StopIsLast'
<1>1. cb_called \in BOOLEAN /\ stopped \in BOOLEAN
  BY DEF HInv, TypeOK
<1>2. ASSUME NEW r, NEW error, Finishes(r, error) PROVE StopIsLast'
  BY <1>1, <1>2, FinishesLast DEF StopIsLast
<1>3. ASSUME UNCHANGED stopped, stage = "done" => stage' = "done"
      PROVE  StopIsLast'
  BY <1>1, <1>3, AnswerStays DEF StopIsLast
<1>4. CASE FailsBeforeBody \/ HeadersRefused \/ HeadersWithoutBody
            \/ LengthRead \/ EndOfStream \/ BodyFails
  BY <1>2, <1>4
  DEF FailsBeforeBody, HeadersRefused, HeadersWithoutBody, LengthRead,
      EndOfStream, BodyFails
<1>5. CASE Resolved \/ Connected \/ Written
  BY <1>3, <1>5 DEF Resolved, Connected, Written, NoCallBack
<1>6. ASSUME HeadersOfChunked \/ HeadersOfLength \/ HeadersUntilClose
              \/ ChunkRead \/ CloseRead
      PROVE  \/ \E r, error : Finishes(r, error)
             \/ UNCHANGED stopped /\ stage # "done"
  <2>1. ASSUME CallsBack(TRUE, FALSE) PROVE UNCHANGED stopped
    BY <1>1, <2>1 DEF CallsBack
  <2>2. stage # "done"
    BY <1>6
    DEF HeadersOfChunked, HeadersOfLength, HeadersUntilClose, ChunkRead, CloseRead
  <2>3. CASE HeadersOfChunked
    BY <2>1, <2>2, <2>3 DEF HeadersOfChunked
  <2>4. CASE HeadersOfLength
    BY <2>1, <2>2, <2>4 DEF HeadersOfLength
  <2>5. CASE HeadersUntilClose
    BY <2>1, <2>2, <2>5 DEF HeadersUntilClose
  <2>6. CASE ChunkRead
    BY <2>2, <2>6 DEF ChunkRead, NoCallBack
  <2>7. CASE CloseRead
    BY <2>1, <2>2, <2>7 DEF CloseRead
  <2> QED
    BY <1>6, <2>3, <2>4, <2>5, <2>6, <2>7
<1>7. CASE HeadersOfChunked \/ HeadersOfLength \/ HeadersUntilClose
            \/ ChunkRead \/ CloseRead
  BY <1>2, <1>3, <1>6, <1>7
<1>8. CASE CoroutineStarts \/ (\E r \in {"ok", "eof", "error"} : OpCompletes(r))
            \/ TimerExpires \/ RunTimeout \/ RunAborted \/ Terminated
            \/ UNCHANGED vars
  <2>1. UNCHANGED stopped /\ (stage = "done" => stage' = "done")
    BY <1>8
    DEF CoroutineStarts, OpCompletes, TimerExpires, RunTimeout, RunAborted,
        Terminated, vars
  <2> QED
    BY <1>3, <2>1
<1> QED
  BY <1>4, <1>5, <1>7, <1>8 DEF Next, Resumes

-----------------------------------------------------------------------------
\* The steps without data.
Quiet ==
    /\ UNCHANGED <<client, data>>
    /\ response'.content = response.content
    /\ mode' = mode \/ (mode \notin Reading /\ mode' \notin Reading)
    /\ body' = body \/ mode' \notin {"length", "chunked"}
    /\ stage' = stage \/ stage' \notin Reading
    /\ client # "own" => UNCHANGED stopped

\* A quiet step keeps what is known of the data.
LEMMA QuietKeeps ==
    ASSUME DataInv, LateInv', StopIsLast', [Next]_vars, Quiet,
           UnreadTyped', NothingLostOrDoubled'
    PROVE  DataInv'
<1> USE DEF Quiet, data
<1>1. DataTyped'
  BY DEF DataInv, DataTyped
<1>2. SentAsDelimited'
  BY DEF DataInv, SentAsDelimited, Sent
<1>3. OnlyDownloadsWrite'
  BY DEF DataInv, OnlyDownloadsWrite
<1>4. EndOfChunks' /\ ChunksAtOnce'
  <2>1. mode' = "chunked" => mode = "chunked" /\ body' = body
    BY DEF Reading
  <2>2. stage' = "chunked" => stage = "chunked" /\ mode' = "chunked"
    BY DEF Reading, LateInv, HInv, ModeIsStage
  <2> QED
    BY <2>1, <2>2 DEF DataInv, EndOfChunks, ChunksAtOnce
<1>5. LengthArrives'
  <2>1. mode' = "length" => mode = "length" /\ body' = body
    BY DEF Reading
  <2>2. stage' = "length" => stage = "length"
    BY DEF Reading
  <2> QED
    BY <2>1, <2>2 DEF DataInv, LengthArrives
<1>6. Emptied'
  <2>1. HandedOver' => HandedOver
    BY DEF HandedOver, Reading
  <2> QED
    BY <2>1 DEF DataInv, Emptied
<1>7. StopHasReason'
  BY AnswerStays DEF DataInv, StopIsLast, StopHasReason, LateInv, HInv, TypeOK
<1> QED
  BY <1>1, <1>2, <1>3, <1>4, <1>5, <1>6, <1>7 DEF DataInv

\* A quiet step that touches no unread bytes either keeps what is known of
\* them.
LEMMA UnreadKeeps ==
    ASSUME DataInv, [Next]_vars, UNCHANGED <<client, data, unread>>,
           stage' = stage \/ stage \notin {"length", "done"}
    PROVE  UnreadTyped' /\ NothingLostOrDoubled'
<1>1. UnreadTyped'
  BY DEF DataInv, UnreadTyped, unread
<1>2. cb_called = TRUE => cb_called' = TRUE /\ given' = given
  BY AnswerStays
<1>3. cb_called \in BOOLEAN
  BY DEF DataInv, LateInv, HInv, TypeOK
<1>4. dropped' # <<>> => cb_called' /\ ~Clean(given')
  BY <1>2, <1>3 DEF DataInv, NothingLostOrDoubled, unread
<1>5. client' # "own" /\ ~lost' =>
        file' \o content' \o response_buf' \o dropped' = Data(Received)'
  BY DEF DataInv, NothingLostOrDoubled, Received, data, unread
<1> QED
  BY <1>1, <1>4, <1>5 DEF NothingLostOrDoubled

\* A read that breaks off drops what it had of a body with a length, and
\* answers with an error unless the deadline has answered.
LEMMA BreakingOffKeeps ==
    ASSUME DataInv, DEndOfStream \/ DBodyFails
    PROVE  UnreadTyped' /\ NothingLostOrDoubled'
<1>1. /\ stage \in Reading /\ stage # "done"
      /\ \E error : Finishes(response, error) /\ (stage = "length" => error = TRUE)
      /\ dropped' = response_buf /\ response_buf' = <<>>
      /\ UNCHANGED <<client, data>>
  <2>1. CASE DEndOfStream
    BY <2>1 DEF DEndOfStream, BreaksOff, EndOfStream, Reading
  <2>2. CASE DBodyFails
    BY <2>2 DEF DBodyFails, BreaksOff, BodyFails, Reading
  <2> QED
    BY <2>1, <2>2
<1>2. /\ dropped = <<>> /\ response_buf \in Seq(Byte)
      /\ response_buf # <<>> => stage = "length"
      /\ cb_called \in BOOLEAN /\ response \in ResponseInfo
  BY <1>1 DEF DataInv, UnreadTyped, LateInv, HInv, TypeOK
<1>3. PICK error : Finishes(response, error) /\ (stage = "length" => error = TRUE)
  BY <1>1
<1>4. cb_called' = TRUE /\ stage' = "done"
  BY <1>2, <1>3, FinishesLast
<1>5. UnreadTyped'
  BY <1>1, <1>2, <1>4, EmptySeq DEF UnreadTyped
<1>6. dropped' # <<>> => cb_called' /\ ~Clean(given')
  <2> SUFFICES ASSUME dropped' # <<>> PROVE cb_called' /\ ~Clean(given')
    OBVIOUS
  <2>1. error = TRUE
    BY <1>1, <1>2, <1>3
  <2>2. ~cb_called => response'.error
    BY <1>2, <1>3, <2>1 DEF Finishes, Answers, ResponseInfo
  <2> QED
    BY <1>1, <1>3, <2>2, AnswerHasReason DEF DataInv, LateInv
<1>7. client' # "own" /\ ~lost' =>
        file' \o content' \o response_buf' \o dropped' = Data(Received)'
  <2>1. file \o content \in Seq(Byte)
    BY ConcatProperties DEF DataInv, DataTyped
  <2> DEFINE fc == file \o content
  <2> HIDE DEF fc
  <2>2. fc \o <<>> = fc /\ fc \o response_buf \in Seq(Byte)
    BY <1>2, <2>1, ConcatEmptySeq, ConcatProperties DEF fc
  <2>3. (fc \o response_buf) \o <<>> = fc \o response_buf
    BY <2>2, ConcatEmptySeq
  <2>4. file' \o content' \o response_buf' \o dropped' = fc \o response_buf
    BY <1>1, <2>2 DEF data, fc
  <2>5. client # "own" /\ ~lost => fc \o response_buf = Data(Received)
    BY <1>2, <2>3 DEF DataInv, NothingLostOrDoubled, fc
  <2>6. Data(Received)' = Data(Received)
    BY <1>1 DEF Received, data
  <2> QED
    BY <1>1, <2>4, <2>5, <2>6 DEF data
<1> QED
  BY <1>5, <1>6, <1>7 DEF NothingLostOrDoubled

\* The bytes that arrive during a read wait behind the content.
LEMMA BytesArriveKeep ==
    ASSUME DataInv, LateInv', StopIsLast', DBytesArrive
    PROVE  DataInv'
<1>1. PICK n \in (arrived + 1)..(Len(sent) - 1) :
        /\ arrived' = n
        /\ response_buf' = response_buf \o Data(SubSeq(sent, arrived + 1, n))
  BY DEF DBytesArrive
<1>2. UNCHANGED <<vars, client, sent, content, file, opened, lost, lateCalls,
                  dropped>>
  BY DEF DBytesArrive
<1>3. UNCHANGED <<stage, cb_called, response, mode, body, stopped, given>>
  BY <1>2 DEF vars
<1>4. /\ stage = "length" /\ mode = "length" /\ dropped = <<>>
      /\ sent \in Seq(MarkedByte) /\ arrived \in 0..Len(sent)
      /\ content \in Seq(Byte) /\ file \in Seq(Byte)
      /\ response_buf \in Seq(Byte)
      /\ lateCalls \in Nat /\ lateCalls <= arrived + 1
  BY DEF DBytesArrive, DataInv, UnreadTyped, DataTyped, LateInv, HInv,
         ModeIsStage, Reading
<1>5. /\ n \in arrived..Len(sent) /\ n \in 0..Len(sent) /\ n < Len(sent)
      /\ lateCalls <= n + 1
  BY <1>4, LenProperties
<1> DEFINE more == Data(SubSeq(sent, arrived + 1, n))
<1>6. /\ Data(Received)' = Data(Received) \o more
      /\ more \in Seq(Byte)
  BY <1>1, <1>2, <1>4, <1>5, DataGoesOn DEF Received
<1>7. response_buf' = response_buf \o more
  BY <1>1
<1> HIDE DEF more
<1>8. UnreadTyped'
  BY <1>2, <1>3, <1>4, <1>6, <1>7, ConcatProperties DEF UnreadTyped
<1>9. NothingLostOrDoubled'
  <2> DEFINE fc == file \o content
  <2>1. fc \in Seq(Byte)
    BY <1>4, ConcatProperties
  <2> HIDE DEF fc
  <2>2. /\ fc \o response_buf \in Seq(Byte)
        /\ fc \o (response_buf \o more) = (fc \o response_buf) \o more
        /\ fc \o (response_buf \o more) \in Seq(Byte)
    <3> DEFINE both == response_buf \o more
    <3>1. fc \o response_buf \in Seq(Byte) /\ both \in Seq(Byte)
      BY <1>4, <1>6, <2>1, ConcatProperties
    <3>2. fc \o both = (fc \o response_buf) \o more
      BY <1>4, <1>6, <2>1, ConcatAssociative, SMTT(30)
    <3> HIDE DEF both
    <3>3. fc \o both \in Seq(Byte)
      BY <2>1, <3>1, ConcatProperties
    <3> QED
      BY <3>1, <3>2, <3>3 DEF both
  <2>3. /\ (fc \o response_buf) \o <<>> = fc \o response_buf
        /\ (fc \o (response_buf \o more)) \o <<>> =
                fc \o (response_buf \o more)
    BY <2>2, ConcatEmptySeq
  <2>4. client # "own" /\ ~lost => fc \o response_buf = Data(Received)
    BY <1>4, <2>3 DEF DataInv, NothingLostOrDoubled, fc
  <2>5. client # "own" /\ ~lost =>
            fc \o (response_buf \o more) \o <<>> = Data(Received)'
    BY <1>6, <2>2, <2>3, <2>4
  <2>6. file' \o content' \o response_buf' \o dropped' =
            fc \o (response_buf \o more) \o <<>>
    BY <1>2, <1>4, <1>7 DEF fc
  <2> QED
    BY <1>2, <1>4, <2>5, <2>6 DEF NothingLostOrDoubled
<1>10. DataTyped'
  BY <1>1, <1>2, <1>3, <1>5 DEF DataTyped, DataInv
<1>11. SentAsDelimited' /\ OnlyDownloadsWrite' /\ EndOfChunks' /\ ChunksAtOnce'
  BY <1>2, <1>3, <1>4
  DEF DataInv, SentAsDelimited, OnlyDownloadsWrite, EndOfChunks, ChunksAtOnce,
      Sent, Reading
<1>12. LengthArrives'
  <2>1. body # "whole"
    BY <1>4, LenProperties DEF DataInv, LengthArrives
  <2> QED
    BY <1>1, <1>2, <1>3, <1>5, <2>1 DEF LengthArrives
<1>13. Emptied' /\ StopHasReason'
  BY <1>2, <1>3 DEF DataInv, Emptied, HandedOver, StopHasReason
<1> QED
  BY <1>8, <1>9, <1>10, <1>11, <1>12, <1>13 DEF DataInv

\* An answer leaves the content alone.
LEMMA AnswerKeepsContent ==
    ASSUME NEW r \in ResponseInfo, NEW error, Answers(r, error)
    PROVE  response'.content = r.content
<1>1. [r EXCEPT !.error = error].content = r.content
  BY DEF ResponseInfo
<1> QED
  BY <1>1 DEF Answers

\* Nor does the end of the coroutine touch the content or go on reading.
LEMMA FinishesQuietly ==
    ASSUME HInv, NEW error, Finishes(response, error)
    PROVE  response'.content = response.content /\ stage' \notin Reading
<1>1. response'.content = response.content
  BY AnswerKeepsContent DEF Finishes, HInv, TypeOK
<1> QED
  BY <1>1 DEF Finishes, Reading

\* The steps of a download that are quiet.
LEMMA QuietSteps ==
    ASSUME HInv, UNCHANGED <<client, data>>, client # "own" => ~stopped',
           StopIsLast,
           \/ FailsBeforeBody \/ Resolved \/ Connected \/ Written
           \/ HeadersRefused \/ HeadersWithoutBody \/ EndOfStream \/ BodyFails
    PROVE  Quiet
<1>1. response \in ResponseInfo /\ stopped \in BOOLEAN /\ ModeIsStage
  BY DEF HInv, TypeOK
<1>2. CASE FailsBeforeBody
  BY <1>2, FinishesQuietly DEF FailsBeforeBody, NoCallBack, Quiet
<1>3. CASE Resolved
  BY <1>3 DEF Resolved, NoCallBack, Quiet, Reading
<1>4. CASE Connected \/ Written
  BY <1>4 DEF Connected, Written, Awaits, NoCallBack, Quiet, Reading
<1>5. CASE HeadersRefused
  <2>1. /\ response'.content = response.content /\ stage' \notin Reading
        /\ UNCHANGED <<mode, body>>
    BY <1>5, FinishesQuietly DEF HeadersRefused
  <2>2. stage = "headers"
    BY <1>5 DEF HeadersRefused
  <2>3. ~stopped
    BY <2>2 DEF StopIsLast
  <2>4. stopped' \in BOOLEAN
    BY <1>1, <1>5 DEF HeadersRefused, NoCallBack, CallsBack
  <2>5. client # "own" => UNCHANGED stopped
    BY <1>1, <2>3, <2>4
  <2> QED
    BY <2>1, <2>5 DEF Quiet
<1>6. CASE HeadersWithoutBody
  <2>1. /\ response'.content = response.content /\ stage' \notin Reading
        /\ mode = "unknown" /\ mode' = "none"
    BY <1>1, <1>6, FinishesQuietly DEF HeadersWithoutBody, ModeIsStage
  <2>2. UNCHANGED stopped
    BY <1>1, <1>6 DEF HeadersWithoutBody, CallsBack
  <2> QED
    BY <2>1, <2>2 DEF Quiet, Reading
<1>7. CASE EndOfStream
  <2>1. /\ response'.content = response.content /\ stage' \notin Reading
        /\ mode' = mode /\ UNCHANGED stopped
    BY <1>7, FinishesQuietly DEF EndOfStream, NoCallBack
  <2>2. body' = body \/ mode' \notin {"length", "chunked"}
    <3>1. CASE stage = "close"
      BY <1>1, <2>1, <3>1 DEF ModeIsStage, Reading
    <3>2. CASE stage # "close"
      BY <1>7, <3>2 DEF EndOfStream
    <3> QED
      BY <3>1, <3>2
  <2> QED
    BY <2>1, <2>2 DEF Quiet
<1>8. CASE BodyFails
  BY <1>8, FinishesQuietly DEF BodyFails, NoCallBack, Quiet
<1> QED
  BY <1>2, <1>3, <1>4, <1>5, <1>6, <1>7, <1>8

\* The other steps are quiet, too.
LEMMA OtherSteps ==
    ASSUME HInv, UNCHANGED <<client, data>>,
           \/ CoroutineStarts \/ (\E r \in {"ok", "eof", "error"} : OpCompletes(r))
           \/ TimerExpires \/ RunTimeout \/ RunAborted \/ Terminated
           \/ UNCHANGED vars
    PROVE  Quiet
<1>1. CASE RunTimeout
  <2>1. /\ [response EXCEPT !.timeout = TRUE] \in ResponseInfo
        /\ [response EXCEPT !.timeout = TRUE].content = response.content
    BY DEF HInv, TypeOK, ResponseInfo
  <2>2. response'.content = response.content
    BY <1>1, <2>1, AnswerKeepsContent DEF RunTimeout
  <2> QED
    BY <1>1, <2>2 DEF RunTimeout, Quiet
<1>2. CASE CoroutineStarts
  BY <1>2 DEF CoroutineStarts, Quiet, Reading
<1>3. CASE (\E r \in {"ok", "eof", "error"} : OpCompletes(r)) \/ TimerExpires
            \/ RunAborted \/ Terminated \/ UNCHANGED vars
  BY <1>3
  DEF OpCompletes, TimerExpires, RunAborted, Terminated, vars, Quiet
<1> QED
  BY <1>1, <1>2, <1>3

-----------------------------------------------------------------------------
\* A callback that stops a download is the end, and the answer says why.
LEMMA StoppedWithReason ==
    ASSUME DataInv, stage # "done", UNCHANGED client,
           client # "own" => CallbackIsFair,
           stopped' => \E r, error : Finishes(r, error)
    PROVE  StopHasReason'
<1>1. SUFFICES ASSUME stopped', client # "own" PROVE ~Clean(given')
  BY DEF StopHasReason
<1>2. PICK r, error : Finishes(r, error)
  BY <1>1
<1>3. ~cb_called => response'.error
  BY <1>1 DEF CallbackIsFair
<1> QED
  BY <1>2, <1>3, AnswerHasReason DEF DataInv, LateInv

\* The headers of a chunked body.
LEMMA ChunkedHeadersKeep ==
    ASSUME DataInv, LateInv', StopIsLast', DHeadersOfChunked
    PROVE  DataInv'
<1>1. /\ stage = "headers" /\ mode = "unknown" /\ ~stopped
      /\ file = <<>> /\ lateCalls = 0 /\ stopped \in BOOLEAN
      /\ dropped = <<>>
  BY DEF DataInv, LateInv, HInv, TypeOK, ModeIsStage, SentAsDelimited, Reading,
         StopIsLast, UnreadTyped, DHeadersOfChunked, HeadersOfChunked
<1>2. /\ sent' \in Sent["chunked"] /\ arrived' \in 0..Len(sent')
      /\ Decodes /\ UNCHANGED client
      /\ response'.content = (content' # <<>>)
      /\ mode' = "chunked"
      /\ response_buf' = <<>> /\ dropped' = <<>>
  BY <1>1 DEF DHeadersOfChunked, HeadersOfChunked, ArrivesUpTo
<1>3. lateCalls <= arrived'
  BY <1>1, <1>2
<1>4. /\ DataKept
      /\ body' \in {"partial", "whole"}
      /\ body' = "whole" <=> arrived' + 2 >= Len(sent')
      /\ body' = "whole" => CallbackIsFair
      /\ body' # "whole" => file' = <<>>
  BY <1>1, <1>2, <1>3, DecodesKeeps
<1>5. \/ body' = "whole" /\ (\E r, error : Finishes(r, error))
      \/ body' = "partial" /\ stage' = "chunked" /\ ~stopped'
  BY <1>1 DEF DHeadersOfChunked, HeadersOfChunked, CallsBack, Awaits
<1>6. StopHasReason'
  <2>1. CASE body' = "whole"
    BY <1>1, <1>2, <1>4, <1>5, <2>1, StoppedWithReason
  <2>2. CASE body' = "partial"
    BY <1>5, <2>2 DEF StopHasReason
  <2> QED
    BY <1>4, <2>1, <2>2
<1>7. SentAsDelimited'
  BY <1>2 DEF SentAsDelimited, Reading, Sent
<1>8. EndOfChunks'
  BY <1>2, <1>4 DEF EndOfChunks
<1>9. stage' = "done" \/ (stage' = "chunked" /\ body' = "partial")
  BY <1>5 DEF Finishes
<1>10. ChunksAtOnce' /\ LengthArrives'
  BY <1>2, <1>4, <1>9 DEF ChunksAtOnce, LengthArrives
<1>11. Emptied' /\ UnreadTyped'
  BY <1>2, <1>4, EmptySeq DEF Emptied, HandedOver, CallbackIsFair, UnreadTyped
<1> QED
  BY <1>4, <1>6, <1>7, <1>8, <1>10, <1>11 DEF DataInv, DataKept

\* More of a chunked body.
LEMMA ChunkReadKeeps ==
    ASSUME DataInv, LateInv', StopIsLast', DChunkRead
    PROVE  DataInv'
<1>1. /\ stage = "chunked" /\ mode = "chunked" /\ body # "whole" /\ ~stopped
      /\ file = <<>> /\ stopped \in BOOLEAN
      /\ sent \in Sent["chunked"] /\ sent \in Seq(MarkedByte)
      /\ arrived \in 0..Len(sent) /\ lateCalls <= arrived + 1
      /\ lateCalls \in Nat /\ dropped = <<>>
  BY DEF DataInv, DataTyped, LateInv, HInv, TypeOK, ModeIsStage,
         SentAsDelimited, Reading, StopIsLast, ChunksAtOnce, UnreadTyped,
         DChunkRead, ChunkRead
<1>2. /\ sent' = sent /\ arrived' \in (arrived + 1)..Len(sent)
      /\ Decodes /\ UNCHANGED client
      /\ response'.content = (content' # <<>>)
      /\ mode' = "chunked"
      /\ response_buf' = <<>> /\ dropped' = <<>>
  BY <1>1 DEF DChunkRead, ChunkRead, ArrivesUpTo
<1>3. /\ lateCalls <= arrived' /\ arrived' \in 0..Len(sent')
      /\ sent' \in Sent["chunked"]
  BY <1>1, <1>2, LenProperties
<1>4. /\ DataKept
      /\ body' \in {"partial", "whole"}
      /\ body' = "whole" <=> arrived' + 2 >= Len(sent')
      /\ body' = "whole" => CallbackIsFair
      /\ body' # "whole" => file' = <<>>
  BY <1>1, <1>2, <1>3, DecodesKeeps
<1>5. \/ body' = "whole" /\ (\E r, error : Finishes(r, error))
      \/ body' = body /\ stage' = "chunked" /\ ~stopped'
  BY <1>1 DEF DChunkRead, ChunkRead, NoCallBack, Awaits
<1>6. StopHasReason'
  <2>1. CASE body' = "whole"
    BY <1>1, <1>2, <1>4, <1>5, <2>1, StoppedWithReason
  <2>2. CASE body' # "whole"
    BY <1>5, <2>2 DEF StopHasReason
  <2> QED
    BY <2>1, <2>2
<1>7. SentAsDelimited'
  BY <1>2, <1>3 DEF SentAsDelimited, Reading, Sent
<1>8. EndOfChunks'
  BY <1>2, <1>4 DEF EndOfChunks
<1>9. stage' = "done" \/ (stage' = "chunked" /\ body' # "whole")
  BY <1>1, <1>5 DEF Finishes
<1>10. ChunksAtOnce' /\ LengthArrives'
  BY <1>2, <1>4, <1>9 DEF ChunksAtOnce, LengthArrives
<1>11. Emptied' /\ UnreadTyped'
  BY <1>2, <1>4, EmptySeq DEF Emptied, HandedOver, CallbackIsFair, UnreadTyped
<1> QED
  BY <1>4, <1>6, <1>7, <1>8, <1>10, <1>11 DEF DataInv, DataKept

\* The headers of a body that is delimited otherwise.
LEMMA PlainHeadersKeep ==
    ASSUME DataInv, LateInv', StopIsLast', DHeadersOfLength \/ DHeadersUntilClose
    PROVE  DataInv'
<1>1. /\ stage = "headers" /\ mode = "unknown" /\ ~stopped
      /\ file = <<>> /\ content = <<>> /\ lateCalls = 0 /\ stopped \in BOOLEAN
      /\ dropped = <<>>
  BY DEF DataInv, LateInv, HInv, TypeOK, ModeIsStage, SentAsDelimited, Reading,
         StopIsLast, UnreadTyped, DHeadersOfLength, HeadersOfLength, DHeadersUntilClose,
         HeadersUntilClose
<1>2. /\ mode' \in {"length", "close"} /\ sent' \in Sent[mode']
      /\ arrived' \in 0..Len(sent')
      /\ ContentCallback(content \o Data(Received')) /\ UNCHANGED client
      /\ response'.content = (content' # <<>>)
      /\ response_buf' = <<>> /\ dropped' = <<>>
  <2>1. CASE DHeadersOfLength
    BY <1>1, <2>1 DEF DHeadersOfLength, HeadersOfLength, ArrivesUpTo
  <2>2. CASE DHeadersUntilClose
    BY <1>1, <2>2 DEF DHeadersUntilClose, HeadersUntilClose, ArrivesUpTo
  <2> QED
    BY <2>1, <2>2
<1>3. sent' \in Seq(MarkedByte)
  BY <1>2, SentType DEF Reading
<1> DEFINE d == Data(Received')
<1>4. d \in Seq(Byte)
  <2>1. Len(sent') \in arrived'..Len(sent')
    BY <1>2, <1>3, LenProperties
  <2> QED
    BY <1>2, <1>3, <2>1, DataGoesOn DEF Received
<1>5. content \o d = d /\ file \o d = d
  BY <1>1, <1>4, ConcatEmptySeq
<1>6. DataKept /\ CallbackIsFair
  <2>1. ContentCallback(d) /\ file \o d = Data(Received')
    BY <1>2, <1>5
  <2>2. lateCalls <= arrived'
    BY <1>1, <1>2
  <2> HIDE DEF d
  <2> QED
    BY <1>1, <1>2, <1>3, <1>4, <2>1, <2>2, CallbackKeeps
<1>7. stopped' => \E r, error : Finishes(r, error)
  <2>1. CASE DHeadersOfLength
    BY <1>1, <2>1 DEF DHeadersOfLength, HeadersOfLength, CallsBack
  <2>2. CASE DHeadersUntilClose
    BY <1>1, <2>2 DEF DHeadersUntilClose, HeadersUntilClose, CallsBack
  <2> QED
    BY <2>1, <2>2
<1>8. StopHasReason'
  BY <1>1, <1>2, <1>6, <1>7, StoppedWithReason
<1>9. SentAsDelimited'
  BY <1>2 DEF SentAsDelimited, Reading, Sent
<1>10. EndOfChunks' /\ ChunksAtOnce'
  <2>1. stage' # "chunked"
    <3>1. CASE DHeadersOfLength
      BY <3>1 DEF DHeadersOfLength, HeadersOfLength, Finishes, Awaits
    <3>2. CASE DHeadersUntilClose
      BY <3>2 DEF DHeadersUntilClose, HeadersUntilClose, Finishes, Awaits
    <3> QED
      BY <3>1, <3>2
  <2> QED
    BY <1>2, <2>1 DEF EndOfChunks, ChunksAtOnce
<1>11. LengthArrives'
  <2>1. CASE DHeadersOfLength
    BY <2>1 DEF DHeadersOfLength, LengthArrives
  <2>2. CASE DHeadersUntilClose
    BY <2>2
    DEF DHeadersUntilClose, HeadersUntilClose, Finishes, Awaits, LengthArrives
  <2> QED
    BY <2>1, <2>2
<1>12. Emptied' /\ UnreadTyped'
  BY <1>2, <1>6, EmptySeq DEF Emptied, CallbackIsFair, UnreadTyped
<1> QED
  BY <1>6, <1>8, <1>9, <1>10, <1>11, <1>12 DEF DataInv, DataKept

\* More of such a body.
LEMMA PlainReadKeeps ==
    ASSUME DataInv, LateInv', StopIsLast', DLengthRead \/ DCloseRead
    PROVE  DataInv'
<1>1. /\ stage = mode /\ mode \in {"length", "close"} /\ ~stopped
      /\ stopped \in BOOLEAN /\ mode' = mode
      /\ sent \in Sent[mode] /\ sent \in Seq(MarkedByte)
      /\ content \in Seq(Byte) /\ file \in Seq(Byte)
      /\ arrived \in 0..Len(sent) /\ lateCalls <= arrived + 1
      /\ lateCalls \in Nat
      /\ response_buf \in Seq(Byte) /\ dropped = <<>>
      /\ mode = "close" => response_buf = <<>>
  BY DEF DataInv, DataTyped, LateInv, HInv, TypeOK, ModeIsStage, UnreadTyped,
         SentAsDelimited, Reading, StopIsLast, DLengthRead, LengthRead,
         DCloseRead, CloseRead
<1>2. /\ sent' = sent /\ arrived' \in (arrived + 1)..Len(sent)
      /\ ContentCallback(content \o response_buf
                            \o Data(SubSeq(sent, arrived + 1, arrived')))
      /\ UNCHANGED client
      /\ response'.content = (content' # <<>>)
      /\ response_buf' = <<>> /\ dropped' = <<>>
      /\ mode = "length" => arrived' = Len(sent)
  <2>1. CASE DLengthRead
    <3>1. arrived < Len(sent) /\ arrived' = Len(sent)
      BY <2>1 DEF DLengthRead, LengthRead, DataInv, LengthArrives, ArrivesUpTo
    <3>2. arrived' \in (arrived + 1)..Len(sent)
      BY <1>1, <3>1, LenProperties
    <3> QED
      BY <1>1, <2>1, <3>1, <3>2 DEF DLengthRead, ArrivesUpTo
  <2>2. CASE DCloseRead
    <3>1. PICK n \in (arrived + 1)..Len(sent) :
            /\ ContentCallback(content \o Data(SubSeq(sent, arrived + 1, n)))
            /\ ArrivesUpTo(n)
      BY <2>2 DEF DCloseRead
    <3>2. sent' = sent /\ mode = "close"
      BY <1>1, <2>2 DEF DCloseRead, CloseRead
    <3>3. content \o response_buf = content
      BY <1>1, <3>2, ConcatEmptySeq
    <3> QED
      BY <1>1, <3>1, <3>2, <3>3 DEF ArrivesUpTo
  <2> QED
    BY <2>1, <2>2
<1>3. /\ lateCalls <= arrived' /\ arrived' \in 0..Len(sent')
      /\ arrived' \in arrived..Len(sent)
  BY <1>1, <1>2, LenProperties
<1> DEFINE more == Data(SubSeq(sent, arrived + 1, arrived'))
           held == content \o response_buf
           c == held \o more
<1>4. /\ Data(Received') = Data(Received) \o more
      /\ Data(Received) \in Seq(Byte) /\ more \in Seq(Byte)
  BY <1>1, <1>2, <1>3, DataGoesOn DEF Received
<1>5. held \in Seq(Byte) /\ c \in Seq(Byte)
  <2> HIDE DEF more
  <2>1. held \in Seq(Byte)
    BY <1>1, ConcatProperties
  <2> HIDE DEF held
  <2> QED
    BY <1>4, <2>1, ConcatProperties
<1>6. client # "own" /\ ~lost => file \o c = Data(Received')
  <2> HIDE DEF more
  <2>1. file \o held = (file \o content) \o response_buf
    BY <1>1, ConcatAssociative, SMTT(30)
  <2>2. client # "own" /\ ~lost => file \o held = Data(Received)
    <3>1. file \o held \in Seq(Byte)
      <4> HIDE DEF held
      <4> QED
        BY <1>1, <1>5, ConcatProperties
    <3> DEFINE all == (file \o content) \o response_buf
    <3>2. all \in Seq(Byte)
      BY <2>1, <3>1
    <3> HIDE DEF all
    <3>3. all \o <<>> = all
      BY <3>2, ConcatEmptySeq
    <3>4. client # "own" /\ ~lost => all \o <<>> = Data(Received)
      BY <1>1 DEF DataInv, NothingLostOrDoubled, all
    <3> QED
      BY <2>1, <3>3, <3>4 DEF all
  <2> HIDE DEF held
  <2>3. file \o c = (file \o held) \o more
    BY <1>1, <1>4, <1>5, ConcatAssociative, SMTT(30)
  <2> QED
    BY <1>4, <2>2, <2>3
<1>7. DataKept /\ CallbackIsFair
  <2>1. ContentCallback(c)
    BY <1>2
  <2> HIDE DEF c
  <2> QED
    BY <1>1, <1>2, <1>3, <1>5, <1>6, <2>1, CallbackKeeps
<1>8. stopped' => \E r, error : Finishes(r, error)
  <2>1. CASE DLengthRead
    BY <2>1 DEF DLengthRead, LengthRead
  <2>2. CASE DCloseRead
    BY <1>1, <2>2 DEF DCloseRead, CloseRead, CallsBack
  <2> QED
    BY <2>1, <2>2
<1>9. StopHasReason'
  <2>1. stage # "done"
    BY <1>1
  <2> QED
    BY <1>2, <1>7, <1>8, <2>1, StoppedWithReason
<1>10. SentAsDelimited'
  BY <1>1, <1>2 DEF SentAsDelimited, Reading, Sent
<1>11. EndOfChunks' /\ ChunksAtOnce' /\ LengthArrives'
  <2>1. stage' # "chunked" /\ stage' # "length"
    <3>1. CASE DLengthRead
      BY <3>1 DEF DLengthRead, LengthRead, Finishes
    <3>2. CASE DCloseRead
      BY <3>2 DEF DCloseRead, CloseRead, Finishes, Awaits
    <3> QED
      BY <3>1, <3>2
  <2> QED
    BY <1>1, <1>2, <2>1 DEF EndOfChunks, ChunksAtOnce, LengthArrives
<1>12. Emptied' /\ UnreadTyped'
  BY <1>1, <1>2, <1>7, EmptySeq DEF Emptied, CallbackIsFair, UnreadTyped
<1> QED
  BY <1>7, <1>9, <1>10, <1>11, <1>12 DEF DataInv, DataKept

-----------------------------------------------------------------------------
\* The download before its first step.
LEMMA InitDataInv == DInit => DataInv
<1> SUFFICES ASSUME DInit PROVE DataInv
  OBVIOUS
<1>1. LateInv
  BY InitHInv DEF DInit, Init, LateInv, OneReadLeft
<1>2. <<>> \in Seq(MarkedByte) /\ <<>> \in Seq(Byte) /\ Len(<<>>) = 0
  BY EmptySeq
<1>3. Data(<<>>) = <<>> /\ SubSeq(<<>>, 1, 0) = <<>>
  BY DataOfEmpty, <1>2, SubSeqEmpty
<1>4. HasBeginning(<<>>, Data(<<>>))
  BY <1>2, <1>3 DEF HasBeginning
<1>5. ~response.content /\ response.content \in BOOLEAN
  BY DEF DInit, Init, NewResponse
<1>6. DataTyped
  <2>1. 0 \in 0..Len(<<>>) /\ 0 <= 0 + 1
    BY <1>2
  <2>2. (client = "sync") \in BOOLEAN
    OBVIOUS
  <2> QED
    BY <1>2, <1>4, <1>5, <2>1, <2>2 DEF DInit, DataTyped
<1>7. /\ SentAsDelimited /\ OnlyDownloadsWrite
      /\ EndOfChunks /\ ChunksAtOnce /\ LengthArrives /\ Emptied
      /\ StopIsLast /\ StopHasReason
  BY DEF DInit, Init, SentAsDelimited, OnlyDownloadsWrite, EndOfChunks,
         ChunksAtOnce, LengthArrives, Emptied, StopIsLast, StopHasReason,
         Reading
<1>8. NothingLostOrDoubled /\ UnreadTyped
  <2>1. SubSeq(sent, 1, arrived) = <<>>
        /\ file \o content \o response_buf \o dropped = <<>>
    BY <1>2, <1>3, ConcatEmptySeq DEF DInit
  <2> QED
    BY <1>2, <1>3, <2>1 DEF NothingLostOrDoubled, UnreadTyped, Received, DInit
<1> QED
  BY <1>1, <1>6, <1>7, <1>8 DEF DataInv

\* Every step of a download keeps the data.
LEMMA NextDataInv == DataInv /\ [DNext]_dvars => DataInv'
<1> SUFFICES ASSUME DataInv, [DNext]_dvars PROVE DataInv'
  OBVIOUS
<1>1. LateInv' /\ [Next]_vars
  BY NextLateInv, DNextIsNext DEF DataInv
<1>2. HInv /\ StopIsLast /\ stopped \in BOOLEAN
  BY DEF DataInv, LateInv, HInv, TypeOK
<1>3. StopIsLast'
  BY <1>1, <1>2, StopEnds
<1>4. ASSUME Quiet, UnreadTyped', NothingLostOrDoubled' PROVE DataInv'
  BY <1>1, <1>3, <1>4, QuietKeeps
<1>5. CASE \/ DOther(FailsBeforeBody) \/ DOther(Resolved) \/ DOther(Connected)
           \/ DOther(Written) \/ DHeadersRefused \/ DOther(HeadersWithoutBody)
           \/ DEndOfStream \/ DBodyFails
  <2>1. /\ UNCHANGED <<client, data>>
        /\ \/ FailsBeforeBody \/ Resolved \/ Connected \/ Written
           \/ HeadersRefused \/ HeadersWithoutBody \/ EndOfStream \/ BodyFails
    BY <1>5 DEF DOther, DHeadersRefused, DEndOfStream, DBodyFails, BreaksOff
  <2>2. stage # "done"
    BY <2>1
    DEF FailsBeforeBody, Resolved, Connected, Written, HeadersRefused,
        HeadersWithoutBody, EndOfStream, BodyFails, Reading
  <2>3. ~stopped
    BY <1>2, <2>2 DEF StopIsLast
  <2>4. client # "own" => ~stopped'
    <3>1. CASE DHeadersRefused
      BY <3>1 DEF DHeadersRefused
    <3>2. CASE HeadersWithoutBody
      BY <2>3, <3>2 DEF HeadersWithoutBody, CallsBack
    <3>3. CASE FailsBeforeBody \/ Resolved \/ Connected \/ Written
                \/ EndOfStream \/ BodyFails
      BY <2>3, <3>3
      DEF FailsBeforeBody, Resolved, Connected, Written, EndOfStream,
          BodyFails, NoCallBack
    <3> QED
      BY <1>5, <3>1, <3>2, <3>3 DEF DOther, DEndOfStream, DBodyFails, BreaksOff
  <2>5. UnreadTyped' /\ NothingLostOrDoubled'
    <3>1. CASE DEndOfStream \/ DBodyFails
      BY <3>1, BreakingOffKeeps
    <3>2. CASE ~(DEndOfStream \/ DBodyFails)
      <4>1. UNCHANGED <<client, data, unread>>
        BY <1>5, <3>2 DEF DOther, DHeadersRefused
      <4>2. stage \notin {"length", "done"}
        BY <1>5, <3>2
        DEF DOther, DHeadersRefused, FailsBeforeBody, Resolved, Connected,
            Written, HeadersRefused, HeadersWithoutBody
      <4> QED
        BY <1>1, <4>1, <4>2, UnreadKeeps
    <3> QED
      BY <3>1, <3>2
  <2> QED
    BY <1>2, <1>4, <2>1, <2>4, <2>5, QuietSteps
<1>6. CASE DHeadersOfChunked
  BY <1>1, <1>3, <1>6, ChunkedHeadersKeep
<1>7. CASE DChunkRead
  BY <1>1, <1>3, <1>7, ChunkReadKeeps
<1>8. CASE DHeadersOfLength \/ DHeadersUntilClose
  BY <1>1, <1>3, <1>8, PlainHeadersKeep
<1>9. CASE DLengthRead \/ DCloseRead
  BY <1>1, <1>3, <1>9, PlainReadKeeps
<1>10. CASE \/ DOther(CoroutineStarts)
            \/ (\E r \in {"ok", "eof", "error"} : DOpCompletes(r))
            \/ DOther(TimerExpires) \/ DOther(RunTimeout) \/ DOther(RunAborted)
            \/ DOther(Terminated) \/ UNCHANGED dvars
  <2>1. /\ UNCHANGED <<client, data, unread>>
        /\ \/ CoroutineStarts \/ (\E r \in {"ok", "eof", "error"} : OpCompletes(r))
           \/ TimerExpires \/ RunTimeout \/ RunAborted \/ Terminated
           \/ UNCHANGED vars
    BY <1>10 DEF DOther, DOpCompletes, dvars
  <2>2. stage' = stage \/ stage = "start"
    BY <2>1
    DEF CoroutineStarts, OpCompletes, TimerExpires, RunTimeout, RunAborted,
        Terminated, vars
  <2>3. UnreadTyped' /\ NothingLostOrDoubled'
    BY <1>1, <2>1, <2>2, UnreadKeeps
  <2> QED
    BY <1>2, <1>4, <2>1, <2>3, OtherSteps
<1>11. CASE DBytesArrive
  BY <1>1, <1>3, <1>11, BytesArriveKeep
<1> QED
  BY <1>5, <1>6, <1>7, <1>8, <1>9, <1>10, <1>11 DEF DNext, DResumes

\* The invariant of a download.
THEOREM DownloadInvariance == DSpec => []DataInv
BY InitDataInv, NextDataInv, PTL DEF DSpec

\* The variables of a download have their types, m_response.content is as the
\* callbacks see it, the file has the beginning of the body, even if a write
\* failed, and bytes wait in a read of a body with a length only.
THEOREM DownloadTypes == DSpec => []DTypeOK
<1>1. DataInv => DTypeOK
  <2> SUFFICES ASSUME DataInv PROVE DTypeOK
    OBVIOUS
  <2>1. lateCalls \in 0..(Len(sent) + 1)
    <3>1. /\ lateCalls \in Nat /\ arrived \in 0..Len(sent)
          /\ lateCalls <= arrived + 1 /\ Len(sent) \in Nat
      BY LenProperties DEF DataInv, DataTyped, LateInv
    <3> QED
      BY <3>1
  <2>2. IF mode \in Reading THEN sent \in Sent[mode] ELSE sent = <<>>
    BY DEF DataInv, SentAsDelimited
  <2> QED
    BY <2>1, <2>2
    DEF DataInv, LateInv, HInv, DataTyped, UnreadTyped, HasBeginning, DTypeOK
<1> QED
  BY <1>1, DownloadInvariance, PTL

\* A download neither loses nor doubles a byte, for any body and however it is
\* cut: what has arrived is in the file, in the content, in the hands of a
\* read, or it was dropped by one that broke off, and the caller is told.
THEOREM DownloadKeepsData == DSpec => []NothingLostOrDoubled
BY DownloadInvariance, PTL DEF DataInv

\* The decoder sees the end of a chunked body when its last size line is
\* there, for any chunked body and wherever the received part ends.
THEOREM DecoderSeesEnd == DSpec => []EndOfChunks
BY DownloadInvariance, PTL DEF DataInv

\* A caller that is told neither of a timeout nor of an error has the body in
\* the file, or nothing of a chunked body that was cut off.
THEOREM CleanDownload == DSpec => []CleanIsInFile
<1>1. DataInv => CleanIsInFile
  <2> SUFFICES ASSUME DataInv, client # "own", cb_called, Clean(given), ~lost
               PROVE  CASE mode = "length" -> file = Data(sent)
                        [] mode = "close" -> file = Data(Received)
                        [] mode = "chunked" /\ body = "whole" -> file = Data(sent)
                        [] OTHER -> file = <<>>
    BY DEF CleanIsInFile
  <2>1. ~stopped
    BY DEF DataInv, StopHasReason
  <2>2. HandedOver => file = Data(Received)
    <3>1. HandedOver => content = <<>>
      BY <2>1 DEF DataInv, Emptied
    <3>2. file \o <<>> = file
      BY ConcatEmptySeq DEF DataInv, DataTyped
    <3>3. response_buf = <<>> /\ dropped = <<>>
      BY DEF DataInv, LateInv, HInv, CleanIsLast, UnreadTyped,
             NothingLostOrDoubled
    <3>4. file \o content \o <<>> \o <<>> = file \o content
      BY NothingUnread DEF DataInv, DataTyped
    <3>5. file \o content = Data(Received)
      BY <3>3, <3>4 DEF DataInv, NothingLostOrDoubled
    <3> QED
      BY <3>1, <3>2, <3>5
  <2>3. ASSUME mode = "length" PROVE file = Data(sent)
    <3>1. arrived = Len(sent)
      BY <2>1, <2>3 DEF DataInv, LateInv, HInv, LengthIsWhole, LengthArrives
    <3>2. SubSeq(sent, 1, Len(sent)) = sent
      BY SubSeqFull DEF DataInv, DataTyped
    <3> QED
      BY <2>2, <2>3, <3>1, <3>2 DEF HandedOver, Received
  <2>4. ASSUME mode = "chunked", body = "whole" PROVE file = Data(sent)
    <3>1. /\ sent \in Sent["chunked"] /\ arrived \in 0..Len(sent)
          /\ arrived + 2 >= Len(sent)
      BY <2>4 DEF DataInv, DataTyped, SentAsDelimited, EndOfChunks, Reading
    <3>2. Data(SubSeq(sent, 1, arrived)) = Data(sent)
      BY <3>1, DecodesBody
    <3> QED
      BY <2>2, <2>4, <3>2 DEF HandedOver, Received
  <2>5. ASSUME mode = "chunked", body # "whole" PROVE file = <<>>
    BY <2>5 DEF DataInv, ChunksAtOnce
  <2>6. ASSUME mode \notin Reading PROVE file = <<>>
    BY <2>6 DEF DataInv, SentAsDelimited
  <2> QED
    BY <2>2, <2>3, <2>4, <2>5, <2>6 DEF HandedOver, Reading
<1> QED
  BY <1>1, DownloadInvariance, PTL
=============================================================================
