------------------------- MODULE Dispatcher_proofs --------------------------
(***************************************************************************)
(* Facts about the dispatcher's queue: what posting a task and taking the  *)
(* oldest one do to the set of queued tasks.  They are all the proofs of   *)
(* the roles need to know of sequences.                                    *)
(***************************************************************************)
EXTENDS Dispatcher, TLAPS

\* A task posted at the end joins the set of queued tasks.
LEMMA AppendFacts ==
    ASSUME NEW S, NEW q \in Seq(S), NEW t \in S
    PROVE  /\ Append(q, t) \in Seq(S)
           /\ Range(Append(q, t)) = Range(q) \cup {t}
<1>1. Append(q, t) \in Seq(S)
  OBVIOUS
<1>2. /\ DOMAIN q = 1..Len(q)
      /\ DOMAIN Append(q, t) = 1..(Len(q) + 1)
      /\ \A i \in 1..Len(q) : Append(q, t)[i] = q[i]
      /\ Append(q, t)[Len(q) + 1] = t
      /\ Len(q) \in Nat
  OBVIOUS
<1>3. Range(Append(q, t)) = Range(q) \cup {t}
  <2>1. ASSUME NEW x \in Range(Append(q, t)) PROVE x \in Range(q) \cup {t}
    BY <1>2 DEF Range
  <2>2. ASSUME NEW x \in Range(q) PROVE x \in Range(Append(q, t))
    <3>1. PICK i \in 1..Len(q) : x = q[i]
      BY <1>2 DEF Range
    <3>2. i \in 1..(Len(q) + 1) /\ Append(q, t)[i] = x
      BY <1>2, <3>1
    <3> QED
      BY <1>2, <3>2 DEF Range
  <2>3. t \in Range(Append(q, t))
    BY <1>2 DEF Range
  <2> QED
    BY <2>1, <2>2, <2>3
<1> QED
  BY <1>1, <1>3

\* Posting a task that is not queued keeps every task queued at most once.
LEMMA AppendOnce ==
    ASSUME NEW S, NEW q \in Seq(S), NEW t \in S, NEW x,
           AtMostOnce(x, q),
           x = t => x \notin Range(q)
    PROVE  AtMostOnce(x, Append(q, t))
<1>1. /\ DOMAIN q = 1..Len(q)
      /\ DOMAIN Append(q, t) = 1..(Len(q) + 1)
      /\ \A i \in 1..Len(q) : Append(q, t)[i] = q[i]
      /\ Append(q, t)[Len(q) + 1] = t
      /\ Len(q) \in Nat
  OBVIOUS
<1>2. SUFFICES ASSUME NEW i \in 1..(Len(q) + 1), NEW j \in 1..(Len(q) + 1),
                      Append(q, t)[i] = x, Append(q, t)[j] = x
               PROVE  i = j
  BY <1>1 DEF AtMostOnce
<1>3. CASE i \in 1..Len(q) /\ j \in 1..Len(q)
  BY <1>1, <1>2, <1>3 DEF AtMostOnce
<1>4. CASE i = Len(q) + 1 /\ j \in 1..Len(q)
  BY <1>1, <1>2, <1>4 DEF Range
<1>5. CASE i \in 1..Len(q) /\ j = Len(q) + 1
  BY <1>1, <1>2, <1>5 DEF Range
<1> QED
  BY <1>1, <1>3, <1>4, <1>5

\* Taking the oldest task leaves the others queued.
LEMMA TailFacts ==
    ASSUME NEW S, NEW q \in Seq(S), q # <<>>
    PROVE  /\ Tail(q) \in Seq(S)
           /\ Head(q) \in S
           /\ Range(q) = Range(Tail(q)) \cup {Head(q)}
<1>1. Tail(q) \in Seq(S) /\ Head(q) \in S
  OBVIOUS
<1>2. /\ DOMAIN q = 1..Len(q)
      /\ DOMAIN Tail(q) = 1..(Len(q) - 1)
      /\ \A i \in 1..(Len(q) - 1) : Tail(q)[i] = q[i + 1]
      /\ Head(q) = q[1]
      /\ Len(q) \in Nat \ {0}
  OBVIOUS
<1>3. ASSUME NEW x \in Range(q) PROVE x \in Range(Tail(q)) \cup {Head(q)}
  <2>1. PICK i \in 1..Len(q) : x = q[i]
    BY <1>2, <1>3 DEF Range
  <2>2. CASE i = 1
    BY <1>2, <2>1, <2>2
  <2>3. CASE i # 1
    <3>1. i - 1 \in 1..(Len(q) - 1) /\ Tail(q)[i - 1] = x
      BY <1>2, <2>1, <2>3
    <3> QED
      BY <1>2, <3>1 DEF Range
  <2> QED
    BY <2>2, <2>3
<1>4. ASSUME NEW x \in Range(Tail(q)) PROVE x \in Range(q)
  <2>1. PICK i \in 1..(Len(q) - 1) : x = Tail(q)[i]
    BY <1>2, <1>4 DEF Range
  <2>2. i + 1 \in 1..Len(q) /\ q[i + 1] = x
    BY <1>2, <2>1
  <2> QED
    BY <1>2, <2>2 DEF Range
<1>5. Head(q) \in Range(q)
  BY <1>2 DEF Range
<1> QED
  BY <1>1, <1>3, <1>4, <1>5

\* A task queued at most once is not queued any more once it was taken.
LEMMA TailOnce ==
    ASSUME NEW S, NEW q \in Seq(S), q # <<>>, NEW x, AtMostOnce(x, q)
    PROVE  /\ AtMostOnce(x, Tail(q))
           /\ Head(q) = x => x \notin Range(Tail(q))
<1>1. /\ DOMAIN q = 1..Len(q)
      /\ DOMAIN Tail(q) = 1..(Len(q) - 1)
      /\ \A i \in 1..(Len(q) - 1) : Tail(q)[i] = q[i + 1]
      /\ Head(q) = q[1]
      /\ Len(q) \in Nat \ {0}
  OBVIOUS
<1>2. ASSUME NEW i \in 1..(Len(q) - 1), NEW j \in 1..(Len(q) - 1),
             Tail(q)[i] = x, Tail(q)[j] = x
      PROVE  i = j
  <2>1. /\ i + 1 \in 1..Len(q) /\ q[i + 1] = x
        /\ j + 1 \in 1..Len(q) /\ q[j + 1] = x
    BY <1>1, <1>2
  <2>2. i + 1 = j + 1
    BY <1>1, <2>1 DEF AtMostOnce
  <2> QED
    BY <2>2
<1>3. ASSUME Head(q) = x, NEW i \in 1..(Len(q) - 1), Tail(q)[i] = x
      PROVE  FALSE
  <2>1. i + 1 \in 1..Len(q) /\ q[i + 1] = x /\ 1 \in 1..Len(q) /\ q[1] = x
    BY <1>1, <1>3
  <2>2. i + 1 = 1
    BY <1>1, <2>1 DEF AtMostOnce
  <2> QED
    BY <2>2
<1> QED
  BY <1>1, <1>2, <1>3 DEF AtMostOnce, Range

-----------------------------------------------------------------------------
\* Two tasks are the same when function and object are.
LEMMA TaskEq ==
    ASSUME NEW a, NEW b, NEW c, NEW d
    PROVE  Task(a, b) = Task(c, d) <=> a = c /\ b = d
BY DEF Task

LEMMA TaskOp == ASSUME NEW a, NEW b PROVE Task(a, b).op = a
BY DEF Task

\* What a step that posts t does to the queue, ...
PostedFacts(S, t) ==
    /\ queue' \in Seq(S)
    /\ Range(queue') = Range(queue) \cup {t}
    /\ \A x : AtMostOnce(x, queue) /\ (x = t => x \notin Range(queue))
                => AtMostOnce(x, queue')

\* ... one that takes the oldest task, ...
TakenFacts(S) ==
    /\ queue' \in Seq(S)
    /\ Range(queue) = Range(queue') \cup {Head(queue)}
    /\ \A x : AtMostOnce(x, queue)
                => /\ AtMostOnce(x, queue')
                   /\ Head(queue) = x => x \notin Range(queue')

\* ... and one that takes the oldest task and posts t.
TakenPostingFacts(S, t) ==
    /\ queue' \in Seq(S)
    /\ Range(queue) \cup {t} = Range(queue') \cup {Head(queue)}
    /\ Range(queue') \subseteq Range(queue) \cup {t}
    /\ \A x : AtMostOnce(x, queue) /\ x # t => AtMostOnce(x, queue')

\* The steps of the dispatcher have these effects on the queue.
LEMMA Posted ==
    ASSUME NEW S, queue \in Seq(S), NEW t \in S, queue' = Append(queue, t)
    PROVE  PostedFacts(S, t)
BY AppendFacts, AppendOnce DEF PostedFacts

LEMMA Taken ==
    ASSUME NEW S, queue \in Seq(S), queue # <<>>, queue' = Tail(queue)
    PROVE  TakenFacts(S)
BY TailFacts, TailOnce DEF TakenFacts

LEMMA TakenPosting ==
    ASSUME NEW S, queue \in Seq(S), queue # <<>>, NEW t \in S,
           queue' = Append(Tail(queue), t)
    PROVE  TakenPostingFacts(S, t)
<1> DEFINE q == Tail(queue)
<1>1. /\ q \in Seq(S)
      /\ Range(queue) = Range(q) \cup {Head(queue)}
      /\ \A x : AtMostOnce(x, queue) => AtMostOnce(x, q)
  BY TailFacts, TailOnce
<1>2. queue' = Append(q, t)
  OBVIOUS
<1> HIDE DEF q
<1>3. /\ Append(q, t) \in Seq(S)
      /\ Range(Append(q, t)) = Range(q) \cup {t}
  BY <1>1, AppendFacts
<1>4. ASSUME NEW x, AtMostOnce(x, queue), x # t PROVE AtMostOnce(x, Append(q, t))
  <2>1. AtMostOnce(x, q)
    BY <1>1, <1>4
  <2> QED
    BY <1>1, <1>4, <2>1, AppendOnce
<1> QED
  BY <1>1, <1>2, <1>3, <1>4 DEF TakenPostingFacts
=============================================================================
