------------------------------ MODULE Session -------------------------------
(***************************************************************************)
(* What both roles of the benchmark share: main() starts the processor,    *)
(* the processor asks the server for a token (GetToken), joins the         *)
(* conference with it (Start) and posts the first task of its role (Run);  *)
(* a SIGINT or the end of the test's duration asks it to stop (Stop).      *)
(*                                                                         *)
(* Three threads meet here: the main thread runs the dispatcher's tasks,   *)
(* the conference client's own thread calls the results of Join, and the   *)
(* HTTP client's answer arrives as a task of the dispatcher.               *)
(***************************************************************************)
EXTENDS Dispatcher

VARIABLES
    startup,  \* how far Start() has come
    reply,    \* the ResponseInfo handed to the callback of GetToken
    info      \* info_ points to the conference: the join has succeeded

sessionVars == <<startup, reply, info>>

\* A response as the callback sees it: it timed out, it carries an error,
\* its body is not empty.  The HTTP client's timeout and its errors exclude
\* each other, and a body received in part stays in content.
Responses ==
    {r \in [timeout : BOOLEAN, error : BOOLEAN, content : BOOLEAN] :
        r.timeout => ~r.error}

\* A ResponseInfo as constructed.
NoReply == [timeout |-> FALSE, error |-> FALSE, content |-> FALSE]

SessionTypeOK ==
    /\ startup \in {"token", "answered", "joining", "entered", "joined", "failed"}
    /\ reply \in Responses
    /\ info \in BOOLEAN

SessionInit ==
    /\ startup = "token"
    /\ reply = NoReply
    /\ info = FALSE

-----------------------------------------------------------------------------
\* The HTTP client calls the response callback on the dispatcher.
TokenResponse(r) ==
    /\ startup = "token"
    /\ startup' = "answered"
    /\ reply' = r
    /\ PostTask("token", NoArg)
    /\ UNCHANGED <<waits, ios, info>>

\* A content length that is no number is an exception in the HTTP client that
\* leaves ios_.run() and main(), in the middle of a handler.
Throws ==
    /\ Running
    /\ ios' = "crashed"
    /\ UNCHANGED <<queue, waits, sessionVars>>

\* The headers of the token's response, which may still be read when the
\* request has timed out.
TokenThrows ==
    /\ startup = "token" \/ reply.timeout
    /\ Throws

\* The callback of GetToken in Start: only the body is looked at.
RunToken ==
    /\ Takes("token", NoArg)
    /\ Finishes
    /\ startup' = IF reply.content THEN "joining" ELSE "failed"
    /\ UNCHANGED <<waits, ios, reply, info>>

\* The success callback of Join, on the client's thread, sets info_ ...
JoinSucceeds ==
    /\ Running
    /\ startup = "joining"
    /\ startup' = "entered"
    /\ info' = TRUE
    /\ UNCHANGED <<dispatcherVars, reply>>

\* ... and then calls Run(), which posts the role's first task and arms the
\* first tick.
Run ==
    /\ startup = "entered"
    /\ startup' = "joined"
    /\ PostTask("start", NoArg)
    /\ waits' = waits \cup {"ticker"}
    /\ UNCHANGED <<ios, reply, info>>

JoinFails ==
    /\ Running
    /\ startup = "joining"
    /\ startup' = "failed"
    /\ UNCHANGED <<dispatcherVars, reply, info>>

-----------------------------------------------------------------------------
\* Mutant: the request gives up quietly when there is no conference.
RunStopRequestIgnored(w) ==
    /\ Takes(w, NoArg)
    /\ IF info THEN FinishesPosting("stop", NoArg) ELSE Finishes
    /\ UNCHANGED <<waits, ios, sessionVars>>

\* Mutant: the request does not look at the conference.
RunStopRequestUnchecked(w) ==
    /\ Takes(w, NoArg)
    /\ FinishesPosting("stop", NoArg)
    /\ UNCHANGED <<waits, ios, sessionVars>>

\* The handler of the signal or of the duration calls Stop(): it reads the
\* id of the conference to log it, which needs info_, and posts the task
\* that stops everything.
RunStopRequest(w) ==
    /\ Takes(w, NoArg)
    /\ IF info
       THEN /\ FinishesPosting("stop", NoArg)
            /\ UNCHANGED ios
       ELSE /\ Finishes
            /\ ios' = "crashed"
    /\ UNCHANGED <<waits, sessionVars>>

\* Mutant: the tick is not re-armed.
RunTickerOnce ==
    /\ Takes("ticker", NoArg)
    /\ Finishes
    /\ UNCHANGED <<waits, ios, sessionVars>>

\* Ticker() asks for statistics, which changes nothing here, and re-arms
\* itself.
RunTicker ==
    /\ Takes("ticker", NoArg)
    /\ Finishes
    /\ waits' = waits \cup {"ticker"}
    /\ UNCHANGED <<ios, sessionVars>>

\* The tasks of the dispatcher that both roles have.
SessionTask ==
    \/ RunToken
    \/ RunTicker
    \/ \E w \in {"duration", "signal"} : RunStopRequest(w)

\* What the other threads, the network, the clock and the user do.
SessionEvent ==
    \/ \E r \in Responses : TokenResponse(r)
    \/ TokenThrows
    \/ JoinSucceeds
    \/ Run
    \/ JoinFails
    \/ \E w \in Waits : WaitCompletes(w) /\ UNCHANGED sessionVars
    \/ SecondSignal /\ UNCHANGED sessionVars

-----------------------------------------------------------------------------
\* Every task but the token's and the requests to stop is posted behind the
\* join, and those of either role read info_: none of them is ever queued
\* while it is null (processor.cpp 164, 199, 274, 300).
TasksNeedInfo ==
    \A t \in Range(queue) :
        t.op \notin {"token", "duration", "signal"} => info

\* While the program runs after Run(), exactly one tick is on its way: armed
\* or queued, never both and never lost (Ticker re-arms itself).
TickerIsAlive ==
    Running /\ startup = "joined" =>
        (("ticker" \in waits) # IsQueued("ticker", NoArg))

\* responseinfo.h tells a callback to check the timeout first and then the
\* error before it uses the response: a join is tried only with a token from
\* a response that carries neither.
JoinOnlyOnCleanToken ==
    startup \in {"joining", "entered", "joined"} =>
        ~reply.timeout /\ ~reply.error

\* The option "duration" is the test's duration: when it runs out, or at a
\* SIGINT, the program leaves its loop in order: to ask for the end does not
\* crash it.
EndsInOrder ==
    [][\A w \in {"duration", "signal"} :
            RunStopRequest(w) => ios' # "crashed"]_<<dispatcherVars, sessionVars>>
=============================================================================
