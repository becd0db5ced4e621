----------------------------- MODULE Dispatcher -----------------------------
(***************************************************************************)
(* The event loop every part of the benchmark shares: class Dispatcher, a  *)
(* boost io_service that the main thread runs (dispatcher.cpp,             *)
(* dispatcher.h).  Any thread may post a task; the main thread runs the    *)
(* tasks one at a time, in the order they were posted.  A timer or a       *)
(* signal is an asynchronous wait; when it completes, its handler queues   *)
(* behind the tasks already posted.                                        *)
(*                                                                         *)
(* A task is a record: the function it runs and the object it captured.    *)
(***************************************************************************)
EXTENDS Naturals, Sequences, Functions

VARIABLES
    queue,  \* the tasks posted and not run yet, oldest first
    waits,  \* the asynchronous waits the io_service holds
    ios     \* "running" | "stopped" | "crashed": the thread inside ios_.run()

dispatcherVars == <<queue, waits, ios>>

NoArg == "none"

Task(op, arg) == [op |-> op, arg |-> arg]

Waits == {"duration", "ticker", "signal"}

DispatcherTypeOK(tasks) ==
    /\ queue \in Seq(tasks)
    /\ waits \subseteq Waits
    /\ ios \in {"running", "stopped", "crashed"}

\* What main() has set up when it calls ios_.run(): the signal handler and
\* the timer of the test's duration.
DispatcherInit ==
    /\ queue = <<>>
    /\ waits = {"duration", "signal"}
    /\ ios = "running"

Running == ios = "running"

\* A thread other than the main one posts a task.
PostTask(op, arg) ==
    /\ Running
    /\ queue' = Append(queue, Task(op, arg))

\* The main thread takes the oldest task; what the task posts queues behind.
Takes(op, arg) ==
    /\ Running
    /\ queue # <<>>
    /\ Head(queue) = Task(op, arg)

Finishes == queue' = Tail(queue)

FinishesPosting(op, arg) == queue' = Append(Tail(queue), Task(op, arg))

\* A timer runs out or the signal arrives.  Each wait is one-shot.
WaitCompletes(w) ==
    /\ w \in waits
    /\ PostTask(w, NoArg)
    /\ waits' = waits \ {w}
    /\ UNCHANGED ios

\* What is queued, and that it is not queued twice.
IsQueued(op, arg) == Task(op, arg) \in Range(queue)

AtMostOnce(t, q) == \A i, j \in DOMAIN q : q[i] = t /\ q[j] = t => i = j

IsQueuedAtMostOnce(op, arg) == AtMostOnce(Task(op, arg), queue)

\* The signal_set lives as long as its handler.  When that has run, SIGINT
\* has its default disposition again: the next one kills the process.
SecondSignal ==
    /\ Running
    /\ "signal" \notin waits
    /\ ~IsQueued("signal", NoArg)
    /\ ios' = "crashed"
    /\ UNCHANGED <<queue, waits>>
=============================================================================
