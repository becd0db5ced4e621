-------------------------- MODULE ChunkedBody_proofs --------------------------
(***************************************************************************)
(* Proofs about reach_chunk_end, for every chunked body: whatever part of  *)
(* it has come, the decoder finds the content in it, neither more nor      *)
(* less, and sees the end when the last chunk's line is there.             *)
(*                                                                         *)
(* They are by induction: on numbers (Induction, from the well-founded     *)
(* order of the library), on sequences (SeqInduction) and on the steps of  *)
(* a recursive function (Recursion), each stated about a set and not about *)
(* a predicate.                                                            *)
(***************************************************************************)
EXTENDS ChunkedBody, Integers, SequenceTheorems, WellFoundedInduction, TLAPS

\* Induction, over a set.
LEMMA Induction ==
    ASSUME NEW S, 0 \in S, \A n \in Nat : n \in S => n + 1 \in S
    PROVE  Nat \subseteq S
<1> DEFINE T == Nat \ S
           Less == OpToRel(<, Nat)
<1>1. SUFFICES ASSUME T # {} PROVE FALSE
  OBVIOUS
<1>2. IsWellFoundedOn(Less, Nat)
  BY NatLessThanWellFounded
<1>3. \E x \in T : \A y \in T : ~(<<y, x>> \in Less)
  <2>1. T \subseteq Nat
    OBVIOUS
  <2> HIDE DEF T, Less
  <2> QED
    BY <1>1, <1>2, <2>1, WFMin
<1>4. \A x, y \in Nat : y < x => <<y, x>> \in Less
  BY DEF OpToRel
<1>5. PICK x \in T : \A y \in T : ~(y < x)
  BY <1>3, <1>4
<1>6. x # 0 /\ x - 1 \in Nat /\ x - 1 < x
  BY <1>5
<1>7. x - 1 \in S
  BY <1>5, <1>6
<1> QED
  BY <1>5, <1>6, <1>7

\* What makes one value of the one before, up to L times, and what it makes
\* of base.
Steps(V, L) == [1..L -> [V -> V]]

Made(V, L, base, step) ==
    {f \in [0..L -> V] :
        f[0] = base /\ \A n \in 1..L : f[n] = step[n][f[n - 1]]}

\* Such steps make a value at every place.
LEMMA Recursion ==
    ASSUME NEW V, NEW L \in Nat, NEW base \in V, NEW step \in Steps(V, L)
    PROVE  Made(V, L, base, step) # {}
<1> DEFINE Works(k) ==
               \E f \in [0..k -> V] :
                f[0] = base /\ \A n \in 1..k : f[n] = step[n][f[n - 1]]
           S == {k \in Nat : k <= L => Works(k)}
<1>1. Works(0)
  <2> DEFINE f == [n \in 0..0 |-> base]
  <2>1. f \in [0..0 -> V] /\ f[0] = base
    OBVIOUS
  <2>2. \A n \in 1..0 : f[n] = step[n][f[n - 1]]
    OBVIOUS
  <2> HIDE DEF f
  <2> QED
    BY <2>1, <2>2
<1>2. ASSUME NEW k \in Nat, k + 1 <= L, Works(k) PROVE Works(k + 1)
  <2>1. PICK f \in [0..k -> V] :
          f[0] = base /\ \A n \in 1..k : f[n] = step[n][f[n - 1]]
    BY <1>2
  <2> DEFINE next == step[k + 1][f[k]]
             g == [n \in 0..(k + 1) |-> IF n = k + 1 THEN next ELSE f[n]]
  <2>2. next \in V
    BY <1>2, <2>1 DEF Steps
  <2>3. g \in [0..(k + 1) -> V]
    BY <2>1, <2>2
  <2>4. (\A n \in 0..k : g[n] = f[n]) /\ g[k + 1] = next
    OBVIOUS
  <2> HIDE DEF g
  <2>5. ASSUME NEW n \in 1..(k + 1) PROVE g[n] = step[n][g[n - 1]]
    <3>1. CASE n = k + 1
      BY <2>4, <3>1
    <3>2. CASE n \in 1..k
      <4>1. n - 1 \in 0..k /\ n \in 0..k
        BY <3>2
      <4> QED
        BY <2>1, <2>4, <3>2, <4>1
    <3> QED
      BY <3>1, <3>2
  <2>6. g[0] = base
    BY <2>1, <2>4
  <2> QED
    BY <2>3, <2>5, <2>6
<1>3. Nat \subseteq S
  <2> HIDE DEF Works
  <2>1. 0 \in S
    BY <1>1
  <2>2. \A k \in Nat : k \in S => k + 1 \in S
    BY <1>2
  <2> HIDE DEF S
  <2> QED
    BY <2>1, <2>2, Induction
<1>4. Works(L)
  <2> HIDE DEF Works
  <2> QED
    BY <1>3
<1> QED
  BY <1>4 DEF Made

\* Two that start alike and whose steps are alike are the same.
StepAlike(f, g, L) ==
    /\ f[0] = g[0]
    /\ \A n \in 1..L : f[n - 1] = g[n - 1] => f[n] = g[n]

\* Being alike in each step, they are alike everywhere.
LEMMA SameSteps ==
    ASSUME NEW L \in Nat, NEW f, NEW g, StepAlike(f, g, L)
    PROVE  \A n \in 0..L : f[n] = g[n]
<1> DEFINE S == {n \in Nat : n <= L => f[n] = g[n]}
<1>1. 0 \in S
  BY DEF StepAlike
<1>2. ASSUME NEW n \in Nat, n \in S PROVE n + 1 \in S
  <2>1. n + 1 <= L => n + 1 \in 1..L /\ (n + 1) - 1 = n /\ n <= L
    OBVIOUS
  <2> QED
    BY <1>2, <2>1 DEF StepAlike
<1>3. Nat \subseteq S
  <2> HIDE DEF S
  <2> QED
    BY <1>1, <1>2, Induction
<1> QED
  BY <1>3

\* Induction over sequences, from the empty one on.
ClosedUnderAppend(S, T) ==
    <<>> \in S /\ \A s \in Seq(T), e \in T : s \in S => Append(s, e) \in S

\* A set that is closed under Append has every sequence.
LEMMA SeqInduction ==
    ASSUME NEW T, NEW S, ClosedUnderAppend(S, T)
    PROVE  Seq(T) \subseteq S
<1> DEFINE N == {n \in Nat : \A s \in Seq(T) : Len(s) = n => s \in S}
<1>1. 0 \in N
  BY EmptySeq DEF ClosedUnderAppend
<1>2. ASSUME NEW n \in Nat, n \in N PROVE n + 1 \in N
  <2> SUFFICES ASSUME NEW s \in Seq(T), Len(s) = n + 1 PROVE s \in S
    OBVIOUS
  <2>1. s # <<>>
    BY EmptySeq
  <2>2. PICK t \in Seq(T), e \in T : s = Append(t, e)
    BY <2>1, SequenceEmptyOrAppend
  <2>3. Len(t) = n
    BY <2>2, AppendProperties, LenProperties
  <2>4. t \in S
    BY <1>2, <2>3
  <2> QED
    BY <2>2, <2>4 DEF ClosedUnderAppend
<1>3. Nat \subseteq N
  <2> HIDE DEF N
  <2> QED
    BY <1>1, <1>2, Induction
<1> QED
  BY <1>3, LenProperties

-----------------------------------------------------------------------------
\* The content of what was sent is made one marked byte after the other.
LEMMA DataSteps ==
    ASSUME NEW sent \in Seq(MarkedByte)
    PROVE  \E upTo \in [0..Len(sent) -> Seq(Byte)] :
            /\ upTo[0] = <<>>
            /\ \A n \in 1..Len(sent) :
                upTo[n] = IF sent[n].data
                          THEN Append(upTo[n - 1], sent[n].byte)
                          ELSE upTo[n - 1]
            /\ Data(sent) = upTo[Len(sent)]
<1> DEFINE L == Len(sent)
           V == Seq(Byte)
           Next(n, before) ==
               IF sent[n].data THEN Append(before, sent[n].byte) ELSE before
           step == [n \in 1..L |-> [before \in V |-> Next(n, before)]]
<1>1. L \in Nat /\ \A n \in 1..L : sent[n].byte \in Byte
  <2>1. \A n \in 1..L : sent[n] \in MarkedByte
    BY ElementOfSeq
  <2> QED
    BY <2>1, LenProperties DEF MarkedByte
<1>2. \A n \in 1..L, before \in V : Next(n, before) \in V
  BY <1>1, AppendProperties
<1>3. step \in [1..L -> [V -> V]]
  BY <1>2
<1>4. \A n \in 1..L, before \in V : step[n][before] = Next(n, before)
  OBVIOUS
<1>5. PICK f \in [0..L -> V] :
        f[0] = <<>> /\ \A n \in 1..L : f[n] = step[n][f[n - 1]]
  <2>1. <<>> \in V
    BY EmptySeq
  <2> DEFINE base == <<>>
  <2> HIDE DEF step, V, L, base
  <2>2. L \in Nat /\ base \in V
    BY <1>1, <2>1 DEF base
  <2>3. step \in Steps(V, L)
    BY <1>3 DEF Steps
  <2>4. Made(V, L, base, step) # {}
    BY <2>2, <2>3, Recursion
  <2> QED
    BY <2>4 DEF base, Made
<1>6. \A n \in 1..L : f[n] = Next(n, f[n - 1])
  <2> SUFFICES ASSUME NEW n \in 1..L PROVE f[n] = Next(n, f[n - 1])
    OBVIOUS
  <2>1. n - 1 \in 0..L
    BY <1>1
  <2>2. f[n - 1] \in V
    BY <2>1, <1>5
  <2> QED
    BY <1>4, <1>5, <2>2
<1> DEFINE Body(g, n) == IF n = 0 THEN <<>> ELSE Next(n, g[n - 1])
           chosen == CHOOSE g : g = [n \in 0..L |-> Body(g, n)]
<1>7. chosen = [n \in 0..L |-> Body(chosen, n)]
  <2>1. \A n \in 0..L : f[n] = Body(f, n)
    <3> HIDE DEF L, Next
    <3>1. \A n \in 0..L : n = 0 \/ n \in 1..L
      BY <1>1
    <3> QED
      BY <1>5, <1>6, <3>1
  <2>2. f = [n \in 0..L |-> Body(f, n)]
    <3> HIDE DEF Body
    <3> QED
      BY <2>1
  <2> HIDE DEF Body
  <2> QED
    BY <2>2
<1>8. Data(sent) = chosen[L]
  BY DEF Data
<1> HIDE DEF chosen
<1>9. \A n \in 0..L : chosen[n] = f[n]
  <2>1. \A n \in 0..L : chosen[n] = Body(chosen, n)
    <3> HIDE DEF Body
    <3> QED
      BY <1>7
  <2>2. chosen[0] = <<>> /\ \A n \in 1..L : chosen[n] = Next(n, chosen[n - 1])
    BY <1>1, <2>1
  <2> HIDE DEF Next, Body, L
  <2>3. \A n \in 1..L : chosen[n - 1] = f[n - 1] => chosen[n] = f[n]
    BY <1>6, <2>2
  <2>4. chosen[0] = f[0] /\ L \in Nat
    BY <1>1, <1>5, <2>2
  <2>5. StepAlike(chosen, f, L)
    BY <2>3, <2>4 DEF StepAlike
  <2> QED
    BY <2>4, <2>5, SameSteps
<1> QED
  BY <1>1, <1>5, <1>6, <1>8, <1>9

\* An element behind the second is one behind both.
LEMMA AppendToConcat ==
    ASSUME NEW T, NEW s \in Seq(T), NEW t \in Seq(T), NEW e \in T
    PROVE  s \o Append(t, e) = Append(s \o t, e)
<1>1. s \o t \in Seq(T) /\ <<e>> \in Seq(T)
  BY ConcatProperties
<1>2. Append(s \o t, e) = (s \o t) \o <<e>> /\ Append(t, e) = t \o <<e>>
  BY <1>1, AppendIsConcat
<1> QED
  BY <1>1, <1>2, ConcatAssociative

\* The content is a sequence of bytes.
LEMMA DataType ==
    ASSUME NEW s \in Seq(MarkedByte)
    PROVE  Data(s) \in Seq(Byte)
<1>1. PICK f \in [0..Len(s) -> Seq(Byte)] : Data(s) = f[Len(s)]
  BY DataSteps
<1> QED
  BY <1>1, LenProperties

\* There is no content in nothing.
LEMMA DataOfEmpty == Data(<<>>) = <<>>
<1>1. <<>> \in Seq(MarkedByte) /\ Len(<<>>) = 0
  BY EmptySeq
<1> QED
  BY <1>1, DataSteps

\* One byte more adds itself to the content if it is marked.
LEMMA DataOfAppend ==
    ASSUME NEW s \in Seq(MarkedByte), NEW b \in MarkedByte
    PROVE  Data(Append(s, b)) =
             IF b.data THEN Append(Data(s), b.byte) ELSE Data(s)
<1> DEFINE m == Len(s)
           t == Append(s, b)
<1>1. /\ t \in Seq(MarkedByte) /\ m \in Nat /\ Len(t) = m + 1 /\ t[m + 1] = b
      /\ \A n \in 1..m : t[n] = s[n]
  BY AppendProperties, LenProperties
<1>2. PICK f \in [0..m -> Seq(Byte)] :
        /\ f[0] = <<>>
        /\ \A n \in 1..m : f[n] = IF s[n].data
                                  THEN Append(f[n - 1], s[n].byte)
                                  ELSE f[n - 1]
        /\ Data(s) = f[m]
  BY DataSteps
<1> HIDE DEF t
<1>3. PICK h \in [0..Len(t) -> Seq(Byte)] :
        /\ h[0] = <<>>
        /\ \A n \in 1..Len(t) : h[n] = IF t[n].data
                                       THEN Append(h[n - 1], t[n].byte)
                                       ELSE h[n - 1]
        /\ Data(t) = h[Len(t)]
  BY <1>1, DataSteps
<1> HIDE DEF m
<1>4. StepAlike(h, f, m)
  <2>1. ASSUME NEW n \in 1..m, h[n - 1] = f[n - 1] PROVE h[n] = f[n]
    <3>1. n \in 1..(m + 1) /\ t[n] = s[n]
      BY <1>1
    <3>2. h[n] = IF t[n].data THEN Append(h[n - 1], t[n].byte) ELSE h[n - 1]
      BY <1>1, <1>3, <3>1
    <3> QED
      BY <1>2, <2>1, <3>1, <3>2
  <2> QED
    BY <1>2, <1>3, <2>1 DEF StepAlike
<1>5. h[m] = f[m]
  BY <1>1, <1>4, SameSteps
<1>6. m + 1 \in 1..Len(t) /\ (m + 1) - 1 = m
  BY <1>1
<1>7. h[m + 1] = IF b.data THEN Append(h[m], b.byte) ELSE h[m]
  BY <1>1, <1>3, <1>6
<1>8. Data(t) = IF b.data THEN Append(Data(s), b.byte) ELSE Data(s)
  BY <1>1, <1>2, <1>3, <1>5, <1>7
<1> QED
  BY <1>8 DEF t

\* The content of two parts is that of the one and that of the other.
LEMMA DataOfConcat ==
    ASSUME NEW s \in Seq(MarkedByte), NEW t \in Seq(MarkedByte)
    PROVE  Data(s \o t) = Data(s) \o Data(t)
<1> DEFINE S == {u \in Seq(MarkedByte) : Data(s \o u) = Data(s) \o Data(u)}
<1>1. <<>> \in S
  BY EmptySeq, ConcatEmptySeq, DataOfEmpty, DataType
<1>2. ASSUME NEW u \in Seq(MarkedByte), NEW b \in MarkedByte, u \in S
      PROVE  Append(u, b) \in S
  <2>1. s \o u \in Seq(MarkedByte) /\ Append(u, b) \in Seq(MarkedByte)
    BY ConcatProperties, AppendProperties
  <2>2. s \o Append(u, b) = Append(s \o u, b)
    BY AppendToConcat
  <2>3. Data(s \o u) = Data(s) \o Data(u)
    BY <1>2
  <2>4. CASE b.data
    <3>1. Data(Append(s \o u, b)) = Append(Data(s) \o Data(u), b.byte)
      BY <2>1, <2>3, <2>4, DataOfAppend
    <3>2. Data(Append(u, b)) = Append(Data(u), b.byte)
      BY <2>4, DataOfAppend
    <3>3. /\ Data(s) \in Seq(Byte) /\ Data(u) \in Seq(Byte)
          /\ b.byte \in Byte
      BY DataType DEF MarkedByte
    <3>4. Data(s) \o Append(Data(u), b.byte) = Append(Data(s) \o Data(u), b.byte)
      BY <3>3, AppendToConcat
    <3> QED
      BY <2>1, <2>2, <3>1, <3>2, <3>4
  <2>5. CASE ~b.data
    BY <2>1, <2>2, <2>3, <2>5, DataOfAppend
  <2> QED
    BY <2>4, <2>5
<1> HIDE DEF S
<1>3. ClosedUnderAppend(S, MarkedByte)
  BY <1>1, <1>2 DEF ClosedUnderAppend
<1>4. t \in S
  BY <1>3, SeqInduction
<1> QED
  BY <1>4 DEF S

\* Size lines and line ends have no content.
LEMMA DataOfUnmarked ==
    ASSUME NEW s \in Seq(MarkedByte), \A i \in 1..Len(s) : ~s[i].data
    PROVE  Data(s) = <<>>
<1> DEFINE Unmarked(u) == \A i \in 1..Len(u) : ~u[i].data
           S == {u \in Seq(MarkedByte) : Unmarked(u) => Data(u) = <<>>}
<1>1. <<>> \in S
  BY EmptySeq, DataOfEmpty
<1>2. ASSUME NEW u \in Seq(MarkedByte), NEW b \in MarkedByte, u \in S,
             Unmarked(Append(u, b))
      PROVE  Data(Append(u, b)) = <<>>
  <2>1. /\ Len(u) \in Nat /\ Len(Append(u, b)) = Len(u) + 1
        /\ Append(u, b)[Len(u) + 1] = b
        /\ \A i \in 1..Len(u) : Append(u, b)[i] = u[i]
    BY AppendProperties, LenProperties
  <2>2. Unmarked(u)
    <3> SUFFICES ASSUME NEW i \in 1..Len(u) PROVE ~u[i].data
      OBVIOUS
    <3>1. i \in 1..Len(Append(u, b)) /\ Append(u, b)[i] = u[i]
      BY <2>1
    <3> QED
      BY <1>2, <3>1
  <2>3. ~b.data
    BY <1>2, <2>1
  <2> QED
    BY <1>2, <2>2, <2>3, DataOfAppend
<1> HIDE DEF Unmarked
<1>3. \A u \in Seq(MarkedByte), b \in MarkedByte :
        u \in S => Append(u, b) \in S
  BY <1>2, AppendProperties
<1> HIDE DEF S
<1>4. ClosedUnderAppend(S, MarkedByte)
  BY <1>1, <1>3 DEF ClosedUnderAppend
<1>5. s \in S
  BY <1>4, SeqInduction
<1> QED
  BY <1>5 DEF S, Unmarked

\* What the decoder sees of a sequence: as many bytes, one by one.
LEMMA BytesType ==
    ASSUME NEW s \in Seq(MarkedByte)
    PROVE  /\ Bytes(s) \in Seq(Byte) /\ Len(Bytes(s)) = Len(s)
           /\ \A i \in 1..Len(s) : Bytes(s)[i] = s[i].byte
<1>1. /\ Len(s) \in Nat /\ DOMAIN s = 1..Len(s)
      /\ \A i \in 1..Len(s) : s[i].byte \in Byte
  <2>1. \A i \in 1..Len(s) : s[i] \in MarkedByte
    BY ElementOfSeq
  <2> QED
    BY <2>1, LenProperties DEF MarkedByte
<1> QED
  BY <1>1 DEF Bytes

\* The same for one byte more.
LEMMA BytesOfAppend ==
    ASSUME NEW s \in Seq(MarkedByte), NEW b \in MarkedByte
    PROVE  Bytes(Append(s, b)) = Append(Bytes(s), b.byte)
<1> DEFINE l == Bytes(Append(s, b))
           r == Append(Bytes(s), b.byte)
<1>1. /\ Append(s, b) \in Seq(MarkedByte) /\ Len(Append(s, b)) = Len(s) + 1
      /\ \A i \in 1..Len(s) : Append(s, b)[i] = s[i]
      /\ Append(s, b)[Len(s) + 1] = b /\ Len(s) \in Nat
  BY AppendProperties, LenProperties
<1>2. b.byte \in Byte
  BY DEF MarkedByte
<1>3. /\ r \in Seq(Byte) /\ Len(r) = Len(s) + 1
      /\ \A i \in 1..Len(s) : r[i] = s[i].byte
      /\ r[Len(s) + 1] = b.byte
  BY <1>2, BytesType, AppendProperties
<1>4. /\ l \in Seq(Byte) /\ Len(l) = Len(s) + 1
      /\ \A i \in 1..(Len(s) + 1) : l[i] = Append(s, b)[i].byte
  BY <1>1, BytesType
<1> HIDE DEF l, r
<1>5. \A i \in 1..(Len(s) + 1) : l[i] = r[i]
  BY <1>1, <1>3, <1>4
<1>6. l = r
  BY <1>3, <1>4, <1>5, SeqEqual
<1> QED
  BY <1>6 DEF l, r

\* What is marked throughout is content throughout.
LEMMA DataOfMarked ==
    ASSUME NEW s \in Seq(MarkedByte), \A i \in 1..Len(s) : s[i].data
    PROVE  Data(s) = Bytes(s)
<1> DEFINE IsMarked(u) == \A i \in 1..Len(u) : u[i].data
           S == {u \in Seq(MarkedByte) : IsMarked(u) => Data(u) = Bytes(u)}
<1>1. <<>> \in S
  <2>1. Bytes(<<>>) = <<>>
    BY DEF Bytes
  <2> QED
    BY <2>1, EmptySeq, DataOfEmpty
<1>2. ASSUME NEW u \in Seq(MarkedByte), NEW b \in MarkedByte, u \in S,
             IsMarked(Append(u, b))
      PROVE  Data(Append(u, b)) = Bytes(Append(u, b))
  <2>1. /\ Len(u) \in Nat /\ Len(Append(u, b)) = Len(u) + 1
        /\ Append(u, b)[Len(u) + 1] = b
        /\ \A i \in 1..Len(u) : Append(u, b)[i] = u[i]
    BY AppendProperties, LenProperties
  <2>2. IsMarked(u)
    <3> SUFFICES ASSUME NEW i \in 1..Len(u) PROVE u[i].data
      OBVIOUS
    <3>1. i \in 1..Len(Append(u, b)) /\ Append(u, b)[i] = u[i]
      BY <2>1
    <3> QED
      BY <1>2, <3>1
  <2>3. b.data
    BY <1>2, <2>1
  <2>4. Data(u) = Bytes(u)
    BY <1>2, <2>2
  <2>5. Data(Append(u, b)) = Append(Data(u), b.byte)
    BY <2>3, DataOfAppend
  <2> QED
    BY <2>4, <2>5, BytesOfAppend
<1> HIDE DEF IsMarked
<1>3. \A u \in Seq(MarkedByte), b \in MarkedByte :
        u \in S => Append(u, b) \in S
  BY <1>2, AppendProperties
<1> HIDE DEF S
<1>4. ClosedUnderAppend(S, MarkedByte)
  BY <1>1, <1>3 DEF ClosedUnderAppend
<1>5. s \in S
  BY <1>4, SeqInduction
<1> QED
  BY <1>5 DEF S, IsMarked

\* A part of what was sent.
LEMMA PartType ==
    ASSUME NEW T, NEW s \in Seq(T), NEW m \in Nat \ {0}, NEW n \in 0..Len(s)
    PROVE  /\ SubSeq(s, m, n) \in Seq(T)
           /\ Len(SubSeq(s, m, n)) = IF m <= n THEN n - m + 1 ELSE 0
           /\ \A i \in 1..(n - m + 1) : SubSeq(s, m, n)[i] = s[m + i - 1]
<1>1. Len(s) \in Nat /\ m \in Int /\ n \in Int
  BY LenProperties
<1>2. \A i \in m..n : s[i] \in T
  BY <1>1, ElementOfSeq
<1> QED
  BY <1>1, <1>2, SubSeqProperties

\* The data of a part is the data of its first and of its second half.
LEMMA DataOfParts ==
    ASSUME NEW s \in Seq(MarkedByte), NEW m \in 1..(Len(s) + 1),
           NEW k \in (m - 1)..Len(s), NEW n \in k..Len(s)
    PROVE  Data(SubSeq(s, m, n)) =
             Data(SubSeq(s, m, k)) \o Data(SubSeq(s, k + 1, n))
<1>1. Len(s) \in Nat
  BY LenProperties
<1>2. k \in 0..Len(s) /\ n \in 0..Len(s) /\ m \in Nat \ {0} /\ k + 1 \in Nat \ {0}
  BY <1>1
<1>3. SubSeq(s, m, k) \in Seq(MarkedByte) /\ SubSeq(s, k + 1, n) \in Seq(MarkedByte)
  BY <1>2, PartType
<1>4. SubSeq(s, m, k) \o SubSeq(s, k + 1, n) = SubSeq(s, m, n)
  BY ConcatAdjacentSubSeq
<1> QED
  BY <1>3, <1>4, DataOfConcat

\* A part without marked bytes has no content.
LEMMA DataOfUnmarkedPart ==
    ASSUME NEW s \in Seq(MarkedByte), NEW m \in Nat \ {0}, NEW n \in 0..Len(s),
           \A i \in m..n : ~s[i].data
    PROVE  Data(SubSeq(s, m, n)) = <<>>
<1>1. /\ SubSeq(s, m, n) \in Seq(MarkedByte)
      /\ Len(SubSeq(s, m, n)) = IF m <= n THEN n - m + 1 ELSE 0
      /\ \A i \in 1..(n - m + 1) : SubSeq(s, m, n)[i] = s[m + i - 1]
      /\ Len(s) \in Nat
  BY PartType, LenProperties
<1>2. ASSUME NEW i \in 1..Len(SubSeq(s, m, n)) PROVE ~SubSeq(s, m, n)[i].data
  <2>1. i \in 1..(n - m + 1) /\ m + i - 1 \in m..n
    BY <1>1
  <2> QED
    BY <1>1, <2>1
<1> QED
  BY <1>1, <1>2, DataOfUnmarked

\* The bytes of a part are the part of the bytes.
LEMMA BytesOfPart ==
    ASSUME NEW s \in Seq(MarkedByte), NEW m \in Nat \ {0}, NEW n \in 0..Len(s)
    PROVE  Bytes(SubSeq(s, m, n)) = SubSeq(Bytes(s), m, n)
<1> DEFINE p == SubSeq(s, m, n)
           k == IF m <= n THEN n - m + 1 ELSE 0
           l == Bytes(p)
           r == SubSeq(Bytes(s), m, n)
<1>1. /\ p \in Seq(MarkedByte) /\ Len(p) = k
      /\ \A i \in 1..(n - m + 1) : p[i] = s[m + i - 1]
      /\ Len(s) \in Nat
  BY PartType, LenProperties
<1>2. /\ r \in Seq(Byte) /\ Len(r) = k
      /\ \A i \in 1..(n - m + 1) : r[i] = Bytes(s)[m + i - 1]
  <2>1. Bytes(s) \in Seq(Byte) /\ n \in 0..Len(Bytes(s))
    BY BytesType
  <2> QED
    BY <2>1, PartType
<1> HIDE DEF p
<1>3. /\ l \in Seq(Byte) /\ Len(l) = k
      /\ \A i \in 1..k : l[i] = p[i].byte
  BY <1>1, BytesType
<1>4. ASSUME NEW i \in 1..k PROVE l[i] = r[i]
  <2>1. i \in 1..(n - m + 1) /\ m + i - 1 \in 1..Len(s)
    BY <1>1
  <2>2. Bytes(s)[m + i - 1] = s[m + i - 1].byte
    BY <2>1, BytesType
  <2> QED
    BY <1>1, <1>2, <1>3, <2>1, <2>2
<1> HIDE DEF l, r, k
<1>5. l = r
  BY <1>2, <1>3, <1>4, SeqEqual
<1> QED
  BY <1>5 DEF l, r, p

-----------------------------------------------------------------------------
\* Sets of positions.
LEMMA MinOf ==
    ASSUME NEW S \in SUBSET Nat, S # {}
    PROVE  Min(S) \in S /\ \A y \in S : Min(S) <= y
<1> DEFINE Less == OpToRel(<, Nat)
<1>1. \E x \in S : \A y \in S : ~(<<y, x>> \in Less)
  <2>1. IsWellFoundedOn(Less, Nat)
    BY NatLessThanWellFounded
  <2> HIDE DEF Less
  <2> QED
    BY <2>1, WFMin
<1>2. \A x, y \in Nat : y < x => <<y, x>> \in Less
  BY DEF OpToRel
<1>3. PICK x \in S : \A y \in S : ~(y < x)
  BY <1>1, <1>2
<1>4. \A y \in S : x <= y
  BY <1>3
<1> QED
  BY <1>4 DEF Min

\* A set of numbers up to n that is not empty has a greatest one.
LEMMA MaxOf ==
    ASSUME NEW n \in Nat, NEW S \in SUBSET (1..n), S # {}
    PROVE  Max(S) \in S /\ \A y \in S : y <= Max(S)
<1> DEFINE T == {n - x : x \in S}
<1>1. T \in SUBSET Nat /\ T # {}
  <2>1. \A x \in S : x \in 1..n /\ n - x \in Nat
    OBVIOUS
  <2> QED
    BY <2>1
<1>2. PICK x \in S : Min(T) = n - x
  <2> HIDE DEF T
  <2>1. Min(T) \in T
    BY <1>1, MinOf
  <2> QED
    BY <2>1 DEF T
<1>3. \A y \in S : n - x <= n - y
  <2>1. \A t \in T : Min(T) <= t
    <3> HIDE DEF T
    <3> QED
      BY <1>1, MinOf
  <2> QED
    BY <1>2, <2>1
<1>4. \A y \in S : x >= y
  BY <1>3
<1> QED
  BY <1>4 DEF Max

\* A digit has a value from 0 to 15.
LEMMA HexValueType ==
    ASSUME NEW digit \in HexDigits
    PROVE  HexValue(digit) \in 0..15
<1>1. PICK i \in 1..16 : digit \in {LowerHex[i], UpperHex[i]}
  BY DEF HexDigits
<1>2. i - 1 \in 0..15 /\ (i - 1) + 1 = i
  OBVIOUS
<1>3. \E value \in 0..15 : digit \in {LowerHex[value + 1], UpperHex[value + 1]}
  BY <1>1, <1>2
<1> QED
  BY <1>3 DEF HexValue

\* What Trim takes away are no digits.
LEMMA NotDigits == {" ", "CR", "LF"} \cap HexDigits = {}
<1>1. /\ LowerHex[1] = "0" /\ LowerHex[2] = "1" /\ LowerHex[3] = "2" /\ LowerHex[4] = "3"
      /\ LowerHex[5] = "4" /\ LowerHex[6] = "5" /\ LowerHex[7] = "6" /\ LowerHex[8] = "7"
      /\ LowerHex[9] = "8" /\ LowerHex[10] = "9" /\ LowerHex[11] = "a" /\ LowerHex[12] = "b"
      /\ LowerHex[13] = "c" /\ LowerHex[14] = "d" /\ LowerHex[15] = "e" /\ LowerHex[16] = "f"
  BY DEF LowerHex
<1>2. /\ UpperHex[1] = "0" /\ UpperHex[2] = "1" /\ UpperHex[3] = "2" /\ UpperHex[4] = "3"
      /\ UpperHex[5] = "4" /\ UpperHex[6] = "5" /\ UpperHex[7] = "6" /\ UpperHex[8] = "7"
      /\ UpperHex[9] = "8" /\ UpperHex[10] = "9" /\ UpperHex[11] = "A" /\ UpperHex[12] = "B"
      /\ UpperHex[13] = "C" /\ UpperHex[14] = "D" /\ UpperHex[15] = "E" /\ UpperHex[16] = "F"
  BY DEF UpperHex
<1>3. ASSUME NEW i \in 1..16
      PROVE  /\ LowerHex[i] \notin {" ", "CR", "LF"}
             /\ UpperHex[i] \notin {" ", "CR", "LF"}
  <2>1. \/ i = 1 \/ i = 2 \/ i = 3 \/ i = 4 \/ i = 5 \/ i = 6 \/ i = 7 \/ i = 8
        \/ i = 9 \/ i = 10 \/ i = 11 \/ i = 12 \/ i = 13 \/ i = 14 \/ i = 15
        \/ i = 16
    OBVIOUS
  <2> QED
    BY <1>1, <1>2, <2>1
<1> QED
  BY <1>3 DEF HexDigits

\* A number of digits is a number.
LEMMA HexNumberType ==
    ASSUME NEW digits \in Seq(HexDigits)
    PROVE  HexNumber(digits) \in Nat
<1> DEFINE L == Len(digits)
           Next(n, before) == 16 * before + HexValue(digits[n])
           step == [n \in 1..L |-> [before \in Nat |-> Next(n, before)]]
<1>1. L \in Nat /\ \A n \in 1..L : HexValue(digits[n]) \in Nat
  <2>1. \A n \in 1..L : digits[n] \in HexDigits
    BY ElementOfSeq
  <2>2. \A n \in 1..L : HexValue(digits[n]) \in 0..15
    BY <2>1, HexValueType
  <2> QED
    BY <2>2, LenProperties
<1>2. \A n \in 1..L, before \in Nat : Next(n, before) \in Nat
  BY <1>1
<1>3. \A n \in 1..L, before \in Nat : step[n][before] = Next(n, before)
  OBVIOUS
<1>4. PICK f \in [0..L -> Nat] :
        f[0] = 0 /\ \A n \in 1..L : f[n] = step[n][f[n - 1]]
  <2>1. step \in Steps(Nat, L)
    BY <1>2 DEF Steps
  <2> HIDE DEF step, L
  <2>2. Made(Nat, L, 0, step) # {}
    BY <1>1, <2>1, Recursion
  <2> QED
    BY <2>2 DEF Made
<1>5. \A n \in 1..L : f[n] = Next(n, f[n - 1])
  <2> SUFFICES ASSUME NEW n \in 1..L PROVE f[n] = Next(n, f[n - 1])
    OBVIOUS
  <2>1. f[n - 1] \in Nat
    BY <1>1
  <2> QED
    BY <1>3, <1>4, <2>1
<1> DEFINE Body(g, n) == IF n = 0 THEN 0 ELSE Next(n, g[n - 1])
           chosen == CHOOSE g : g = [n \in 0..L |-> Body(g, n)]
<1> HIDE DEF Next, L
<1>6. chosen = [n \in 0..L |-> Body(chosen, n)]
  <2>1. \A n \in 0..L : n = 0 \/ n \in 1..L
    BY <1>1
  <2>2. \A n \in 0..L : f[n] = Body(f, n)
    BY <1>4, <1>5, <2>1
  <2>3. f = [n \in 0..L |-> Body(f, n)]
    <3> HIDE DEF Body
    <3> QED
      BY <2>2
  <2> HIDE DEF Body
  <2> QED
    BY <2>3
<1>7. HexNumber(digits) = chosen[L]
  BY DEF HexNumber, L, Next
<1> HIDE DEF chosen
<1>8. \A n \in 0..L : chosen[n] = f[n]
  <2>1. \A n \in 0..L : chosen[n] = Body(chosen, n)
    <3> HIDE DEF Body
    <3> QED
      BY <1>6
  <2>2. chosen[0] = 0 /\ \A n \in 1..L : chosen[n] = Next(n, chosen[n - 1])
    BY <1>1, <2>1
  <2>3. StepAlike(chosen, f, L)
    BY <1>4, <1>5, <2>2 DEF StepAlike
  <2> QED
    BY <1>1, <2>3, SameSteps
<1> QED
  BY <1>1, <1>7, <1>8

\* The digits that a line starts with.
LEMMA FirstDigits ==
    ASSUME NEW line \in Seq(Byte)
    PROVE  \E m \in 0..Len(line) :
            /\ \A i \in 1..m : line[i] \in HexDigits
            /\ m < Len(line) => line[m + 1] \notin HexDigits
            /\ ChunkSize(line) = HexNumber(SubSeq(line, 1, m))
<1> DEFINE others == {i \in DOMAIN line : line[i] \notin HexDigits}
<1>1. Len(line) \in Nat /\ DOMAIN line = 1..Len(line)
  BY LenProperties
<1>2. CASE others = {}
  <2> DEFINE m == Len(line)
  <2>1. SubSeq(line, 1, m) = line
    BY SubSeqFull
  <2>2. ChunkSize(line) = HexNumber(SubSeq(line, 1, m))
    BY <1>2, <2>1 DEF ChunkSize
  <2>3. \A i \in 1..m : line[i] \in HexDigits
    BY <1>1, <1>2
  <2>4. m \in 0..Len(line) /\ ~(m < Len(line))
    BY <1>1
  <2> HIDE DEF m
  <2> QED
    BY <2>2, <2>3, <2>4
<1>3. CASE others # {}
  <2>1. others \in SUBSET Nat
    BY <1>1
  <2>2. Min(others) \in others /\ \A y \in others : Min(others) <= y
    <3> HIDE DEF others
    <3> QED
      BY <1>3, <2>1, MinOf
  <2> DEFINE m == Min(others) - 1
  <2>3. m \in 0..Len(line) /\ m + 1 = Min(others)
    BY <1>1, <2>2
  <2>4. ASSUME NEW i \in 1..m PROVE line[i] \in HexDigits
    <3>1. i \in DOMAIN line /\ ~(Min(others) <= i)
      BY <1>1, <2>3
    <3>2. i \notin others
      <4> HIDE DEF others
      <4> QED
        BY <2>2, <3>1
    <3> QED
      BY <3>1, <3>2
  <2>5. ChunkSize(line) = HexNumber(SubSeq(line, 1, m))
    BY <1>3 DEF ChunkSize
  <2> QED
    BY <2>2, <2>3, <2>4, <2>5
<1> QED
  BY <1>2, <1>3

\* The size of a chunk is a number, whatever the line looks like.
LEMMA ChunkSizeType ==
    ASSUME NEW line \in Seq(Byte)
    PROVE  ChunkSize(line) \in Nat
<1>1. PICK m \in 0..Len(line) :
        /\ \A i \in 1..m : line[i] \in HexDigits
        /\ ChunkSize(line) = HexNumber(SubSeq(line, 1, m))
  BY FirstDigits
<1>2. SubSeq(line, 1, m) \in Seq(HexDigits)
  BY <1>1, SubSeqProperties
<1> QED
  BY <1>1, <1>2, HexNumberType

\* A trimmed line is a sequence of bytes.
LEMMA TrimType ==
    ASSUME NEW line \in Seq(Byte)
    PROVE  Trim(line) \in Seq(Byte)
<1> DEFINE kept == {i \in DOMAIN line : line[i] \notin {" ", "CR", "LF"}}
<1>1. Len(line) \in Nat /\ DOMAIN line = 1..Len(line)
  BY LenProperties
<1>2. CASE kept = {}
  BY <1>2, EmptySeq DEF Trim
<1>3. CASE kept # {}
  <2>1. kept \in SUBSET (1..Len(line)) /\ kept \in SUBSET Nat
    <3>1. \A i \in kept : i \in DOMAIN line
      OBVIOUS
    <3> HIDE DEF kept
    <3>2. \A i \in kept : i \in 1..Len(line) /\ i \in Nat
      BY <1>1, <3>1
    <3> QED
      BY <3>2
  <2>2. Min(kept) \in kept /\ Max(kept) \in kept
    <3> HIDE DEF kept
    <3> QED
      BY <1>1, <1>3, <2>1, MinOf, MaxOf
  <2>3. Min(kept) \in Nat \ {0} /\ Max(kept) \in 0..Len(line)
    <3>1. \A i \in 1..Len(line) : i \in Nat \ {0} /\ i \in 0..Len(line)
      BY <1>1
    <3> HIDE DEF kept
    <3> QED
      BY <2>1, <2>2, <3>1
  <2>4. Trim(line) = SubSeq(line, Min(kept), Max(kept))
    BY <1>3 DEF Trim
  <2> HIDE DEF kept
  <2> QED
    BY <2>3, <2>4, PartType
<1> QED
  BY <1>2, <1>3

-----------------------------------------------------------------------------
Positions == Nat \ {0}

Results == [end : BOOLEAN, content : Seq(Byte)]

\* A line end that is found is at pos or behind it.
LEMMA NextLineEndIsBehind ==
    ASSUME NEW all_chunk \in Seq(Byte), NEW pos \in Positions
    PROVE  \/ NextLineEnd(all_chunk, pos) = 0
           \/ NextLineEnd(all_chunk, pos) \in pos..(Len(all_chunk) - 1)
BY DEF NextLineEnd

\* A part is what is there of it.
LEMMA PartIs ==
    ASSUME NEW all_chunk \in Seq(Byte), NEW pos \in Positions, NEW size \in Nat
    PROVE  \E last \in 0..Len(all_chunk) :
            /\ last <= pos + size - 1
            /\ last = pos + size - 1 \/ last = Len(all_chunk)
            /\ Part(all_chunk, pos, size) = SubSeq(all_chunk, pos, last)
<1> DEFINE S == {pos + size - 1, Len(all_chunk)}
<1>1. Len(all_chunk) \in Nat /\ pos + size - 1 \in Nat
  BY LenProperties DEF Positions
<1>2. Min(S) \in S /\ \A y \in S : Min(S) <= y
  <2>1. S \in SUBSET Nat /\ S # {}
    BY <1>1
  <2> HIDE DEF S
  <2> QED
    BY <2>1, MinOf
<1> DEFINE last == Min(S)
<1>3. Part(all_chunk, pos, size) = SubSeq(all_chunk, pos, last)
  BY DEF Part
<1>4. /\ last = pos + size - 1 \/ last = Len(all_chunk)
      /\ last <= pos + size - 1 /\ last <= Len(all_chunk)
  BY <1>2
<1> HIDE DEF last
<1>5. last \in 0..Len(all_chunk)
  BY <1>1, <1>4
<1> QED
  BY <1>3, <1>4, <1>5

\* A turn gives a result, and looks only at what is found further on.
LEMMA TurnLooksForward ==
    ASSUME NEW all_chunk \in Seq(Byte), NEW pos \in Positions,
           NEW f \in [Positions -> Results], NEW g \in [Positions -> Results],
           \A q \in Positions : q > pos => f[q] = g[q]
    PROVE  /\ Turn(all_chunk, f, pos) \in Results
           /\ Turn(all_chunk, f, pos) = Turn(all_chunk, g, pos)
<1> DEFINE next_pos == NextLineEnd(all_chunk, pos)
           line == Trim(SubSeq(all_chunk, pos, next_pos - 1))
           size == ChunkSize(line)
           part == Part(all_chunk, next_pos + 2, size)
<1>1. CASE next_pos = 0
  <2>1. /\ Turn(all_chunk, f, pos) = [end |-> FALSE, content |-> <<>>]
        /\ Turn(all_chunk, g, pos) = [end |-> FALSE, content |-> <<>>]
    BY <1>1 DEF Turn
  <2>2. <<>> \in Seq(Byte)
    BY EmptySeq
  <2> QED
    BY <2>1, <2>2 DEF Results
<1>2. CASE next_pos # 0
  <2>1. next_pos \in pos..(Len(all_chunk) - 1) /\ Len(all_chunk) \in Nat
    BY <1>2, NextLineEndIsBehind, LenProperties
  <2>2. next_pos - 1 \in 0..Len(all_chunk) /\ pos \in Nat \ {0}
    BY <2>1 DEF Positions
  <2>3. line \in Seq(Byte)
    <3>1. SubSeq(all_chunk, pos, next_pos - 1) \in Seq(Byte)
      BY <2>2, PartType
    <3> QED
      BY <3>1, TrimType
  <2> HIDE DEF line
  <2>4. size \in Nat
    BY <2>3, ChunkSizeType
  <2>5. /\ next_pos + 2 \in Positions /\ next_pos + 2 > pos
        /\ next_pos + 2 + size + 2 \in Positions
        /\ next_pos + 2 + size + 2 > pos
    <3> HIDE DEF size, next_pos
    <3> QED
      BY <2>1, <2>2, <2>4 DEF Positions
  <2>6. part \in Seq(Byte)
    <3> HIDE DEF size
    <3>1. next_pos + 2 \in Nat \ {0}
      BY <2>5 DEF Positions
    <3>2. PICK last \in 0..Len(all_chunk) :
            part = SubSeq(all_chunk, next_pos + 2, last)
      BY <2>4, <2>5, PartIs
    <3> QED
      BY <3>1, <3>2, PartType, ZenonT(30)
  <2> DEFINE there == next_pos + 2 + size + 2
  <2>7. f[there] \in Results /\ f[there] = g[there]
    BY <2>5
  <2>8. f[next_pos + 2] \in Results /\ f[next_pos + 2] = g[next_pos + 2]
    BY <2>5
  <2>9. \A rest : Turn(all_chunk, rest, pos) =
          IF line = <<>> THEN rest[next_pos + 2]
          ELSE IF size = 0 THEN [end |-> TRUE, content |-> <<>>]
          ELSE [end |-> rest[there].end, content |-> part \o rest[there].content]
    BY <1>2 DEF Turn, line
  <2> HIDE DEF part, size, there, next_pos
  <2>10. CASE line = <<>>
    BY <2>8, <2>9, <2>10
  <2>11. CASE line # <<>> /\ size = 0
    <3>1. [end |-> TRUE, content |-> <<>>] \in Results
      <4>1. <<>> \in Seq(Byte)
        BY EmptySeq
      <4> QED
        BY <4>1 DEF Results
    <3>2. /\ Turn(all_chunk, f, pos) = [end |-> TRUE, content |-> <<>>]
          /\ Turn(all_chunk, g, pos) = [end |-> TRUE, content |-> <<>>]
      BY <2>9, <2>11
    <3> QED
      BY <3>1, <3>2
  <2>12. CASE line # <<>> /\ size # 0
    <3>1. f[there].content \in Seq(Byte)
      BY <2>7 DEF Results
    <3>2. part \o f[there].content \in Seq(Byte)
      BY <2>6, <3>1, ConcatProperties
    <3>3. [end |-> f[there].end, content |-> part \o f[there].content] \in Results
      BY <2>7, <3>2 DEF Results
    <3> QED
      BY <2>7, <2>9, <2>12, <3>3
  <2> QED
    BY <2>10, <2>11, <2>12
<1> QED
  BY <1>1, <1>2

\* The loop comes to an end: there is what it finds from every position on.
LEMMA Turns ==
    ASSUME NEW all_chunk \in Seq(Byte)
    PROVE  \E from :
            /\ \A pos \in Positions : from[pos] = Turn(all_chunk, from, pos)
            /\ ReachChunkEnd(all_chunk) = from[1]
<1> DEFINE L == Len(all_chunk)
           Works(k) ==
               \E f \in [Positions -> Results] :
                \A pos \in Positions :
                    pos + k > L => f[pos] = Turn(all_chunk, f, pos)
           S == {k \in Nat : Works(k)}
<1>0. L \in Nat
  BY LenProperties
<1> HIDE DEF L
<1>1. Works(0)
  <2> DEFINE nothing == [end |-> FALSE, content |-> <<>>]
             f == [pos \in Positions |-> nothing]
  <2>1. nothing \in Results
    <3>1. <<>> \in Seq(Byte)
      BY EmptySeq
    <3> QED
      BY <3>1 DEF Results
  <2>2. ASSUME NEW pos \in Positions, pos > L
        PROVE  Turn(all_chunk, f, pos) = nothing
    <3>1. NextLineEnd(all_chunk, pos) = 0
      BY <1>0, <2>2, NextLineEndIsBehind DEF L, Positions
    <3> QED
      BY <3>1 DEF Turn
  <2>3. f \in [Positions -> Results] /\ \A pos \in Positions : f[pos] = nothing
    BY <2>1
  <2> HIDE DEF f, nothing
  <2>4. \A pos \in Positions : pos + 0 > L => pos > L
    BY <1>0 DEF Positions
  <2> QED
    BY <2>2, <2>3, <2>4
<1>2. ASSUME NEW k \in Nat, Works(k) PROVE Works(k + 1)
  <2>1. PICK f \in [Positions -> Results] :
          \A pos \in Positions : pos + k > L => f[pos] = Turn(all_chunk, f, pos)
    BY <1>2
  <2>2. CASE k >= L
    <3>1. \A pos \in Positions : pos + k > L
      BY <1>0, <2>2 DEF Positions
    <3> QED
      BY <2>1, <3>1
  <2>3. CASE ~(k >= L)
    <3> DEFINE p == L - k
               g == [f EXCEPT ![p] = Turn(all_chunk, f, p)]
    <3>1. p \in Positions
      BY <1>0, <2>3 DEF Positions
    <3>2. Turn(all_chunk, f, p) \in Results
      BY <3>1, TurnLooksForward
    <3>3. g \in [Positions -> Results]
      BY <3>1, <3>2
    <3>4. g[p] = Turn(all_chunk, f, p)
      BY <3>1
    <3>5. \A q \in Positions : q # p => g[q] = f[q]
      BY <3>1
    <3> HIDE DEF g
    <3>6. ASSUME NEW pos \in Positions, pos + (k + 1) > L
          PROVE  g[pos] = Turn(all_chunk, g, pos)
      <4>1. pos = p \/ (pos > p /\ pos + k > L)
        BY <1>0, <3>6 DEF Positions
      <4>2. \A q \in Positions : q > pos => f[q] = g[q]
        <5>1. \A q \in Positions : q > pos => q # p
          BY <1>0, <4>1 DEF Positions
        <5> QED
          BY <3>5, <5>1
      <4>3. Turn(all_chunk, f, pos) = Turn(all_chunk, g, pos)
        BY <3>3, <4>2, TurnLooksForward
      <4>4. CASE pos = p
        BY <3>4, <4>3, <4>4
      <4>5. CASE pos > p /\ pos + k > L
        <5>1. pos # p
          BY <1>0, <4>5 DEF Positions
        <5> QED
          BY <2>1, <3>5, <4>3, <4>5, <5>1
      <4> QED
        BY <4>1, <4>4, <4>5
    <3> QED
      BY <3>3, <3>6
  <2> QED
    BY <2>2, <2>3
<1>3. Works(L)
  <2> HIDE DEF Works
  <2>1. 0 \in S /\ \A k \in Nat : k \in S => k + 1 \in S
    BY <1>1, <1>2
  <2>2. Nat \subseteq S
    <3> HIDE DEF S
    <3> QED
      BY <2>1, Induction
  <2> QED
    BY <1>0, <2>2
<1>4. PICK f \in [Positions -> Results] :
        \A pos \in Positions : pos + L > L => f[pos] = Turn(all_chunk, f, pos)
  BY <1>3
<1>5. f = [pos \in Positions |-> Turn(all_chunk, f, pos)]
  <2>1. \A pos \in Positions : pos + L > L
    BY <1>0 DEF Positions
  <2>2. \A pos \in Positions : f[pos] = Turn(all_chunk, f, pos)
    BY <1>4, <2>1
  <2> QED
    BY <2>2
<1> DEFINE chosen ==
               CHOOSE g : g = [pos \in Positions |-> Turn(all_chunk, g, pos)]
<1>6. chosen = [pos \in Positions |-> Turn(all_chunk, chosen, pos)]
  BY <1>5
<1>7. ReachChunkEnd(all_chunk) = chosen[1]
  BY DEF ReachChunkEnd, Positions
<1> HIDE DEF chosen
<1>8. \A pos \in Positions : chosen[pos] = Turn(all_chunk, chosen, pos)
  BY <1>6
<1> QED
  BY <1>7, <1>8

-----------------------------------------------------------------------------
\* What the decoder trims off a size line is not of the size.
LEMMA TrimKeepsSize ==
    ASSUME NEW line \in Seq(Byte), line # <<>>, line[1] \in HexDigits
    PROVE  Trim(line) # <<>> /\ ChunkSize(Trim(line)) = ChunkSize(line)
<1> DEFINE L == Len(line)
           kept == {i \in DOMAIN line : line[i] \notin {" ", "CR", "LF"}}
           x == Max(kept)
<1>1. L \in Nat /\ L >= 1 /\ DOMAIN line = 1..L
  BY EmptySeq, LenProperties
<1>2. \A i \in 1..L : line[i] \in HexDigits => i \in kept
  <2>1. \A i \in DOMAIN line : line[i] \in HexDigits => i \in kept
    BY NotDigits
  <2> QED
    BY <1>1, <2>1
<1>3. kept \in SUBSET (1..L) /\ kept \in SUBSET Nat /\ 1 \in kept
  <2>1. \A i \in kept : i \in DOMAIN line
    OBVIOUS
  <2> HIDE DEF kept
  <2>2. \A i \in kept : i \in 1..L /\ i \in Nat
    BY <1>1, <2>1
  <2> QED
    BY <1>1, <1>2, <2>2
<1>4. Trim(line) = SubSeq(line, Min(kept), x)
  <2>1. kept # {}
    BY <1>3
  <2> QED
    BY <2>1 DEF Trim
<1> HIDE DEF kept
<1>5. Min(kept) = 1 /\ x \in 1..L /\ \A y \in kept : y <= x
  <2>1. Min(kept) \in kept /\ \A y \in kept : Min(kept) <= y
    BY <1>3, MinOf
  <2>2. x \in kept /\ \A y \in kept : y <= x
    BY <1>1, <1>3, MaxOf
  <2>3. Min(kept) \in 1..L /\ Min(kept) <= 1
    BY <1>3, <2>1
  <2>4. Min(kept) = 1
    BY <1>1, <2>3
  <2>5. x \in 1..L
    BY <1>3, <2>2
  <2> QED
    BY <2>2, <2>4, <2>5
<1> HIDE DEF x
<1> DEFINE t == SubSeq(line, 1, x)
<1>6. t \in Seq(Byte) /\ Len(t) = x /\ \A i \in 1..x : t[i] = line[i]
  <2>1. 1 \in Nat \ {0} /\ x \in 0..Len(line)
    BY <1>1, <1>5
  <2>2. /\ t \in Seq(Byte) /\ Len(t) = (IF 1 <= x THEN x - 1 + 1 ELSE 0)
        /\ \A i \in 1..(x - 1 + 1) : t[i] = line[1 + i - 1]
    BY <2>1, PartType
  <2>3. x - 1 + 1 = x /\ \A i \in 1..x : 1 + i - 1 = i
    BY <1>5
  <2> QED
    BY <1>5, <2>2, <2>3
<1> HIDE DEF t
<1>7. PICK m \in 0..L :
        /\ \A i \in 1..m : line[i] \in HexDigits
        /\ m < L => line[m + 1] \notin HexDigits
        /\ ChunkSize(line) = HexNumber(SubSeq(line, 1, m))
  BY FirstDigits
<1>8. PICK k \in 0..x :
        /\ \A i \in 1..k : t[i] \in HexDigits
        /\ k < x => t[k + 1] \notin HexDigits
        /\ ChunkSize(t) = HexNumber(SubSeq(t, 1, k))
  BY <1>6, FirstDigits
<1>9. m \in 1..L
  BY <1>1, <1>7
<1>10. m <= x
  BY <1>2, <1>5, <1>7, <1>9
<1>11. ~(k < m)
  <2> SUFFICES ASSUME k < m PROVE FALSE
    OBVIOUS
  <2>1. k + 1 \in 1..m /\ k + 1 \in 1..x /\ k < x
    BY <1>5, <1>9, <1>10
  <2> QED
    BY <1>6, <1>7, <1>8, <2>1
<1>12. ~(m < k)
  <2> SUFFICES ASSUME m < k PROVE FALSE
    OBVIOUS
  <2>1. m + 1 \in 1..k /\ m + 1 \in 1..x /\ m < L
    BY <1>1, <1>5, <1>9
  <2> QED
    BY <1>6, <1>7, <1>8, <2>1
<1>13. k = m
  BY <1>5, <1>9, <1>11, <1>12
<1>14. SubSeq(t, 1, m) = SubSeq(line, 1, m)
  <2>1. /\ 1 \in 1..Len(line) /\ x \in 1..Len(line)
        /\ 1 \in 1..(x - 1 + 1) /\ m \in 1..(x - 1 + 1)
        /\ 1 + 1 - 1 = 1 /\ 1 + m - 1 = m
    BY <1>1, <1>5, <1>9, <1>10
  <2>2. SubSeq(SubSeq(line, 1, x), 1, m) = SubSeq(line, 1 + 1 - 1, 1 + m - 1)
    BY <2>1, SubSeqOfSubSeq
  <2> QED
    BY <2>1, <2>2 DEF t
<1>15. t # <<>>
  BY <1>5, <1>6, EmptySeq
<1>16. Trim(line) = t
  BY <1>4, <1>5 DEF t
<1> QED
  BY <1>7, <1>8, <1>13, <1>14, <1>15, <1>16

\* What was received of what was sent.
LEMMA Prefix ==
    ASSUME NEW sent \in Seq(MarkedByte), NEW n \in 0..Len(sent)
    PROVE  LET all_chunk == Bytes(SubSeq(sent, 1, n))
           IN /\ all_chunk \in Seq(Byte) /\ Len(all_chunk) = n
              /\ all_chunk = SubSeq(Bytes(sent), 1, n)
              /\ \A i \in 1..n : all_chunk[i] = sent[i].byte
<1> DEFINE p == SubSeq(sent, 1, n)
<1>1. n \in Nat /\ 1 \in Nat \ {0} /\ n - 1 + 1 = n
  BY LenProperties
<1>2. /\ p \in Seq(MarkedByte) /\ Len(p) = (IF 1 <= n THEN n - 1 + 1 ELSE 0)
      /\ \A i \in 1..(n - 1 + 1) : p[i] = sent[1 + i - 1]
  BY <1>1, PartType
<1>3. Len(p) = n /\ \A i \in 1..n : p[i] = sent[i]
  <2>1. \A i \in 1..n : 1 + i - 1 = i
    BY <1>1
  <2> QED
    BY <1>1, <1>2, <2>1
<1>4. Bytes(p) = SubSeq(Bytes(sent), 1, n)
  BY <1>1, BytesOfPart
<1> HIDE DEF p
<1>5. /\ Bytes(p) \in Seq(Byte) /\ Len(Bytes(p)) = n
      /\ \A i \in 1..n : Bytes(p)[i] = p[i].byte
  BY <1>2, <1>3, BytesType
<1>6. Bytes(p) \in Seq(Byte) /\ Len(Bytes(p)) = n
      /\ Bytes(p) = SubSeq(Bytes(sent), 1, n)
      /\ \A i \in 1..n : Bytes(p)[i] = sent[i].byte
  BY <1>3, <1>4, <1>5
<1> QED
  BY <1>6 DEF p

\* The decoder sees the line of a chunk as soon as its end is there.
LEMMA ChunkLineIsFound ==
    ASSUME NEW sent \in Seq(MarkedByte), NEW start \in Positions,
           NEW end \in Nat, IsChunk(sent, start, end),
           NEW n \in 0..Len(sent)
    PROVE  NextLineEnd(Bytes(SubSeq(sent, 1, n)), start) =
             IF n < end + 1 THEN 0 ELSE end
<1> DEFINE all_chunk == Bytes(SubSeq(sent, 1, n))
           At(i) == all_chunk[i] = "CR" /\ all_chunk[i + 1] = "LF"
           last == Len(all_chunk) - 1
           found == {i \in start..last :
                       At(i) /\ \A j \in start..(i - 1) : ~At(j)}
<1>1. n \in Nat /\ start \in Nat /\ start >= 1 /\ Len(sent) \in Nat
  BY LenProperties DEF Positions
<1>2. /\ Len(all_chunk) = n
      /\ \A i \in 1..n : all_chunk[i] = sent[i].byte
  BY Prefix
<1>3. /\ start < end
      /\ \A i \in start..(end - 1) : sent[i].byte # "CR"
      /\ sent[end].byte = "CR" /\ sent[end + 1].byte = "LF"
  BY DEF IsChunk, IsLineEnd
<1>4. NextLineEnd(all_chunk, start) =
        IF found = {} THEN 0 ELSE CHOOSE i \in found : TRUE
  BY DEF NextLineEnd
<1>5. last = n - 1
  BY <1>2
<1> HIDE DEF all_chunk, last
<1>6. \A i \in start..last : i < end => ~At(i)
  <2> SUFFICES ASSUME NEW i \in start..last, i < end PROVE ~At(i)
    OBVIOUS
  <2>1. i \in 1..n /\ i \in start..(end - 1)
    BY <1>1, <1>5
  <2> QED
    BY <1>2, <1>3, <2>1
<1>7. CASE n < end + 1
  <2>1. \A i \in start..last : i < end
    BY <1>1, <1>5, <1>7
  <2>2. found = {}
    BY <1>6, <2>1
  <2> QED
    BY <1>4, <1>7, <2>2 DEF all_chunk
<1>8. CASE ~(n < end + 1)
  <2>1. /\ end \in 1..n /\ end + 1 \in 1..n /\ end \in start..last
    BY <1>1, <1>3, <1>5, <1>8
  <2>2. At(end)
    BY <1>2, <1>3, <2>1
  <2>3. end \in found
    <3>1. \A j \in start..(end - 1) : j \in start..last /\ j < end
      BY <1>1, <1>5, <2>1
    <3> HIDE DEF At
    <3> QED
      BY <1>6, <2>1, <2>2, <3>1
  <2>4. ASSUME NEW i \in found PROVE i = end
    <3>1. i \in start..last /\ At(i) /\ \A j \in start..(i - 1) : ~At(j)
      OBVIOUS
    <3> HIDE DEF At, found
    <3>2. ~(i < end)
      BY <1>6, <3>1
    <3>3. ~(end < i)
      <4>1. end < i => end \in start..(i - 1)
        BY <1>1, <1>3, <1>5, <3>1
      <4> QED
        BY <2>2, <3>1, <4>1
    <3> QED
      BY <1>1, <1>5, <3>1, <3>2, <3>3
  <2> HIDE DEF found
  <2>5. found # {} /\ (CHOOSE i \in found : TRUE) = end
    BY <2>3, <2>4
  <2>6. NextLineEnd(all_chunk, start) = end
    BY <1>4, <2>5
  <2> QED
    BY <1>8, <2>6 DEF all_chunk
<1> QED
  BY <1>7, <1>8

\* A chunk of a body, its size, and what of it is data.
LEMMA ChunkParts ==
    ASSUME NEW sent, NEW ends, IsChunked(sent, ends), NEW start \in DOMAIN ends
    PROVE  LET end == ends[start]
               size == ChunkSize(SubSeq(Bytes(sent), start, end - 1))
               after == end + 2 + size
           IN /\ sent \in Seq(MarkedByte) /\ Len(sent) \in Nat
              /\ start \in Positions /\ end \in Positions /\ size \in Nat
              /\ IsChunk(sent, start, end)
              /\ start < end /\ after < Len(sent)
              /\ \A i \in start..(end + 1) : ~sent[i].data
              /\ \A i \in (end + 2)..(after - 1) : sent[i].data
              /\ \A i \in after..(after + 1) : ~sent[i].data
              /\ IF size = 0 THEN Len(sent) = end + 3
                 ELSE after + 2 \in DOMAIN ends
<1> DEFINE end == ends[start]
           line == SubSeq(Bytes(sent), start, end - 1)
           size == ChunkSize(line)
           after == end + 2 + size
<1>1. /\ sent \in Seq(MarkedByte) /\ Len(sent) \in Nat
      /\ start \in 1..Len(sent) /\ end \in 1..Len(sent)
      /\ IsChunk(sent, start, end)
      /\ IF size = 0 THEN Len(sent) = end + 3
         ELSE end + 2 + size + 2 \in DOMAIN ends
  <2>1. sent \in Seq(MarkedByte)
    BY DEF IsChunked
  <2>2. Len(sent) \in Nat
    BY <2>1, LenProperties
  <2> QED
    BY <2>1, <2>2 DEF IsChunked
<1> HIDE DEF end
<1>2. /\ start < end /\ after < Len(sent)
      /\ \A i \in start..(end - 1) : ~sent[i].data
      /\ \A i \in (end + 2)..(after - 1) : sent[i].data
      /\ IsLineEnd(sent, end) /\ IsLineEnd(sent, after)
  BY <1>1 DEF IsChunk
<1>3. /\ ~sent[end].data /\ ~sent[end + 1].data
      /\ ~sent[after].data /\ ~sent[after + 1].data
  BY <1>2 DEF IsLineEnd
<1>4. start \in Positions /\ end \in Positions
  BY <1>1, <1>2 DEF Positions
<1>5. size \in Nat
  <2>1. Bytes(sent) \in Seq(Byte) /\ Len(Bytes(sent)) = Len(sent)
    BY <1>1, BytesType
  <2>2. start \in Nat \ {0} /\ end - 1 \in 0..Len(Bytes(sent))
    BY <1>1, <2>1
  <2>3. line \in Seq(Byte)
    BY <2>1, <2>2, PartType
  <2> HIDE DEF line
  <2> QED
    BY <2>3, ChunkSizeType
<1> HIDE DEF size
<1>6. after \in Nat /\ end + 2 + size + 2 = after + 2
  BY <1>1, <1>5
<1> HIDE DEF after
<1>7. \A i \in start..(end + 1) : ~sent[i].data
  <2>1. \A i \in start..(end + 1) :
          i \in start..(end - 1) \/ i = end \/ i = end + 1
    BY <1>1
  <2> QED
    BY <1>2, <1>3, <2>1
<1>8. \A i \in after..(after + 1) : ~sent[i].data
  <2>1. \A i \in after..(after + 1) : i = after \/ i = after + 1
    BY <1>6
  <2> QED
    BY <1>3, <2>1
<1>9. /\ sent \in Seq(MarkedByte) /\ Len(sent) \in Nat
      /\ start \in Positions /\ end \in Positions /\ size \in Nat
      /\ IsChunk(sent, start, end)
      /\ start < end /\ after < Len(sent)
      /\ \A i \in start..(end + 1) : ~sent[i].data
      /\ \A i \in (end + 2)..(after - 1) : sent[i].data
      /\ \A i \in after..(after + 1) : ~sent[i].data
      /\ IF size = 0 THEN Len(sent) = end + 3
         ELSE after + 2 \in DOMAIN ends
  BY <1>1, <1>2, <1>4, <1>5, <1>6, <1>7, <1>8
<1> QED
  BY <1>9 DEF end, size, after

\* The last two bytes of a chunked body are not data.
LEMMA LastLineEnd ==
    ASSUME NEW sent, NEW ends, IsChunked(sent, ends)
    PROVE  Len(sent) - 1 \in Positions /\ ~sent[Len(sent) - 1].data /\ ~sent[Len(sent)].data
<1> DEFINE L == Len(sent)
           Right == L - 1 \in Positions /\ ~sent[L - 1].data /\ ~sent[L].data
           S == {k \in Nat : \A start \in DOMAIN ends : start + k > L => Right}
<1>1. 1 \in DOMAIN ends /\ L \in Nat /\ \A start \in DOMAIN ends : start \in 1..L
  BY LenProperties DEF IsChunked
<1>2. 0 \in S
  <2> HIDE DEF L, Right
  <2>1. \A start \in DOMAIN ends : ~(start + 0 > L)
    BY <1>1
  <2> QED
    BY <2>1
<1>3. ASSUME NEW k \in Nat, k \in S PROVE k + 1 \in S
  <2> SUFFICES ASSUME NEW start \in DOMAIN ends, start + (k + 1) > L
               PROVE  Right
    OBVIOUS
  <2> DEFINE end == ends[start]
             size == ChunkSize(SubSeq(Bytes(sent), start, end - 1))
             after == end + 2 + size
  <2>1. /\ start \in Positions /\ end \in Positions /\ size \in Nat
        /\ start < end
        /\ \A i \in after..(after + 1) : ~sent[i].data
        /\ IF size = 0 THEN L = end + 3 ELSE after + 2 \in DOMAIN ends
    BY ChunkParts
  <2> HIDE DEF end, size
  <2>2. CASE size = 0
    <3>1. after = L - 1 /\ after \in Positions /\ after + 1 = L
      BY <1>1, <2>1, <2>2 DEF Positions
    <3> HIDE DEF after
    <3>2. after \in after..(after + 1) /\ after + 1 \in after..(after + 1)
      BY <3>1 DEF Positions
    <3> QED
      BY <2>1, <3>1, <3>2
  <2>3. CASE size # 0
    <3>1. after + 2 \in DOMAIN ends /\ after + 2 + k > L
      BY <1>1, <2>1, <2>3 DEF Positions
    <3> HIDE DEF after, Right
    <3> QED
      BY <1>3, <3>1
  <2> QED
    BY <2>2, <2>3
<1>4. Nat \subseteq S
  <2> HIDE DEF S
  <2> QED
    BY <1>2, <1>3, Induction
<1>5. Right
  <2>1. L \in S /\ 1 + L > L
    BY <1>1, <1>4
  <2> HIDE DEF Right
  <2> QED
    BY <1>1, <2>1
<1> QED
  BY <1>5

\* The decoder on the first n bytes of a chunked body, from a chunk on.
DecodedFrom(sent, n, start) ==
    [end |-> n + 2 >= Len(sent), content |-> Data(SubSeq(sent, start, n))]

\* One turn of the loop at the start of a chunk is right if those at the chunks
\* behind it are.
LEMMA DecodesChunk ==
    ASSUME NEW sent, NEW ends, IsChunked(sent, ends), NEW n \in 0..Len(sent),
           NEW start \in DOMAIN ends, NEW from,
           from[start] = Turn(Bytes(SubSeq(sent, 1, n)), from, start),
           \A next \in DOMAIN ends :
            next > start => from[next] = DecodedFrom(sent, n, next)
    PROVE  from[start] = DecodedFrom(sent, n, start)
<1> DEFINE all_chunk == Bytes(SubSeq(sent, 1, n))
           end == ends[start]
           sizeLine == SubSeq(Bytes(sent), start, end - 1)
           size == ChunkSize(sizeLine)
           after == end + 2 + size
<1>1. /\ sent \in Seq(MarkedByte) /\ Len(sent) \in Nat
      /\ start \in Positions /\ end \in Positions /\ size \in Nat
      /\ IsChunk(sent, start, end)
      /\ start < end /\ after < Len(sent)
      /\ \A i \in start..(end + 1) : ~sent[i].data
      /\ \A i \in (end + 2)..(after - 1) : sent[i].data
      /\ \A i \in after..(after + 1) : ~sent[i].data
      /\ IF size = 0 THEN Len(sent) = end + 3
         ELSE after + 2 \in DOMAIN ends
  BY ChunkParts
<1>2. /\ all_chunk \in Seq(Byte) /\ Len(all_chunk) = n /\ n \in Nat
      /\ all_chunk = SubSeq(Bytes(sent), 1, n)
  BY <1>1, Prefix
<1> HIDE DEF end
<1>3. NextLineEnd(all_chunk, start) = IF n < end + 1 THEN 0 ELSE end
  <2>1. end \in Nat
    BY <1>1 DEF Positions
  <2> QED
    BY <1>1, <2>1, ChunkLineIsFound
<1> HIDE DEF all_chunk
\* The line is not there yet.
<1>4. CASE n < end + 1
  <2>1. Turn(all_chunk, from, start) = [end |-> FALSE, content |-> <<>>]
    BY <1>3, <1>4 DEF Turn
  <2>2. ~(n + 2 >= Len(sent))
    <3> HIDE DEF size
    <3> QED
      BY <1>1, <1>2, <1>4 DEF Positions
  <2>3. Data(SubSeq(sent, start, n)) = <<>>
    <3>1. \A i \in start..n : ~sent[i].data
      BY <1>1, <1>2, <1>4 DEF Positions
    <3>2. start \in Nat \ {0}
      BY <1>1 DEF Positions
    <3> QED
      BY <1>1, <3>1, <3>2, DataOfUnmarkedPart
  <2>4. DecodedFrom(sent, n, start) = [end |-> FALSE, content |-> <<>>]
    <3> DEFINE e == n + 2 >= Len(sent)
    <3>1. DecodedFrom(sent, n, start) = [end |-> e, content |-> <<>>]
      BY <2>3 DEF DecodedFrom
    <3>2. e = FALSE
      BY <2>2
    <3> HIDE DEF e
    <3> QED
      BY <3>1, <3>2
  <2> QED
    BY <2>1, <2>4 DEF all_chunk
\* It is there: the decoder reads the size that it says.
<1>5. ASSUME ~(n < end + 1)
      PROVE  LET line == Trim(SubSeq(all_chunk, start, end - 1))
             IN line # <<>> /\ ChunkSize(line) = size
  <2>1. SubSeq(all_chunk, start, end - 1) = sizeLine
    <3> DEFINE b == Bytes(sent)
    <3>1. b \in Seq(Byte) /\ Len(b) = Len(sent)
      BY <1>1, BytesType
    <3> HIDE DEF b
    <3>2. n \in 1..Len(b) /\ 1 \in 1..Len(b)
      BY <1>1, <1>2, <1>5, <3>1 DEF Positions
    <3>3. start \in 1..(n - 1 + 1) /\ end - 1 \in 1..(n - 1 + 1)
      BY <1>1, <1>2, <1>5 DEF Positions
    <3>4. SubSeq(SubSeq(b, 1, n), start, end - 1)
            = SubSeq(b, 1 + start - 1, 1 + (end - 1) - 1)
      BY <3>1, <3>2, <3>3, SubSeqOfSubSeq, SMTT(30)
    <3>5. 1 + start - 1 = start /\ 1 + (end - 1) - 1 = end - 1
      BY <1>1 DEF Positions
    <3> QED
      BY <1>2, <3>4, <3>5 DEF b
  <2>2. sizeLine \in Seq(Byte) /\ sizeLine # <<>>
    <3>1. Bytes(sent) \in Seq(Byte) /\ Len(Bytes(sent)) = Len(sent)
      BY <1>1, BytesType
    <3>2. start \in Nat \ {0} /\ end - 1 \in 0..Len(Bytes(sent)) /\ start <= end - 1
      <4> HIDE DEF size
      <4> QED
        BY <1>1, <3>1 DEF Positions
    <3>3. sizeLine \in Seq(Byte) /\ Len(sizeLine) = (end - 1) - start + 1
      BY <3>1, <3>2, PartType
    <3>4. (end - 1) - start + 1 # 0
      BY <1>1 DEF Positions
    <3> HIDE DEF sizeLine
    <3> QED
      BY <3>3, <3>4, EmptySeq
  <2>3. sizeLine[1] \in HexDigits
    BY <1>1 DEF IsChunk, IsSizeLine
  <2> HIDE DEF sizeLine
  <2>4. Trim(sizeLine) # <<>> /\ ChunkSize(Trim(sizeLine)) = ChunkSize(sizeLine)
    BY <2>2, <2>3, TrimKeepsSize
  <2> QED
    BY <2>1, <2>4
<1> HIDE DEF size
\* The empty chunk is the end.
<1>6. CASE ~(n < end + 1) /\ size = 0
  <2>1. NextLineEnd(all_chunk, start) = end /\ end # 0
    BY <1>1, <1>3, <1>6 DEF Positions
  <2>2. Turn(all_chunk, from, start) = [end |-> TRUE, content |-> <<>>]
    BY <1>5, <1>6, <2>1 DEF Turn
  <2>3. n + 2 >= Len(sent)
    BY <1>1, <1>2, <1>6 DEF Positions
  <2>4. Data(SubSeq(sent, start, n)) = <<>>
    <3>1. \A i \in start..n : ~sent[i].data
      <4>1. after = end + 2
        BY <1>1, <1>6 DEF Positions
      <4>2. \A i \in start..n : i \in start..(end + 1) \/ i \in after..(after + 1)
        BY <1>1, <1>2, <1>6, <4>1 DEF Positions
      <4> QED
        BY <1>1, <4>2
    <3>2. start \in Nat \ {0}
      BY <1>1 DEF Positions
    <3> QED
      BY <1>1, <3>1, <3>2, DataOfUnmarkedPart
  <2>5. DecodedFrom(sent, n, start) = [end |-> TRUE, content |-> <<>>]
    BY <2>3, <2>4 DEF DecodedFrom
  <2> QED
    BY <2>2, <2>5 DEF all_chunk
\* The data of a chunk, as far as it is there, and what follows.
<1>7. CASE ~(n < end + 1) /\ size # 0
  <2> DEFINE next == after + 2
  <2>1. NextLineEnd(all_chunk, start) = end /\ end # 0
    BY <1>1, <1>3, <1>7 DEF Positions
  <2>2. next \in DOMAIN ends /\ next > start
    BY <1>1, <1>7 DEF Positions
  <2>3. from[next] = DecodedFrom(sent, n, next)
    <3> HIDE DEF next
    <3> QED
      BY <2>2
  <2>4. end + 2 + size + 2 = next
    BY <1>1 DEF Positions
  <2> HIDE DEF next
  <2>5. Turn(all_chunk, from, start) =
          [end |-> from[next].end,
           content |-> Part(all_chunk, end + 2, size) \o from[next].content]
    BY <1>5, <1>7, <2>1, <2>4 DEF Turn
  <2>6. Part(all_chunk, end + 2, size) \o Data(SubSeq(sent, next, n))
          = Data(SubSeq(sent, start, n))
    <3>1. end + 2 \in Positions
      BY <1>1 DEF Positions
    <3>2. PICK last \in 0..n :
            /\ last <= (end + 2) + size - 1
            /\ last = (end + 2) + size - 1 \/ last = n
            /\ Part(all_chunk, end + 2, size) = SubSeq(all_chunk, end + 2, last)
      BY <1>1, <1>2, <3>1, PartIs, ZenonT(30)
    <3>3. /\ start \in 1..(Len(sent) + 1) /\ start \in Nat \ {0}
          /\ end + 1 \in (start - 1)..Len(sent) /\ end + 1 \in 0..Len(sent)
          /\ n \in (end + 1)..Len(sent) /\ end + 2 \in 1..(Len(sent) + 1)
          /\ end + 2 \in Nat \ {0}
          /\ last \in ((end + 2) - 1)..Len(sent) /\ last \in 0..Len(sent)
          /\ n \in last..Len(sent) /\ n \in 0..Len(sent)
          /\ last + 1 \in Nat \ {0} /\ last + 1 \in 1..(Len(sent) + 1)
          /\ (end + 1) + 1 = end + 2
      BY <1>1, <1>2, <1>7, <3>2 DEF Positions
    <3>4. Data(SubSeq(sent, start, n)) =
            Data(SubSeq(sent, start, end + 1)) \o Data(SubSeq(sent, end + 2, n))
      <4>1. Data(SubSeq(sent, start, n)) =
              Data(SubSeq(sent, start, end + 1))
                \o Data(SubSeq(sent, (end + 1) + 1, n))
        BY <1>1, <3>3, DataOfParts, ZenonT(30)
      <4> QED
        BY <3>3, <4>1
    <3>5. Data(SubSeq(sent, start, end + 1)) = <<>>
      BY <1>1, <3>3, DataOfUnmarkedPart
    <3>6. Data(SubSeq(sent, end + 2, n)) =
            Data(SubSeq(sent, end + 2, last)) \o Data(SubSeq(sent, last + 1, n))
      BY <1>1, <3>3, DataOfParts, ZenonT(30)
    <3>7. Data(SubSeq(sent, end + 2, last)) = Part(all_chunk, end + 2, size)
      <4> DEFINE p == SubSeq(sent, end + 2, last)
      <4>1. /\ p \in Seq(MarkedByte)
            /\ Len(p) = IF end + 2 <= last THEN last - (end + 2) + 1 ELSE 0
            /\ \A i \in 1..(last - (end + 2) + 1) : p[i] = sent[(end + 2) + i - 1]
        <5> DEFINE first == end + 2
        <5>1. first \in Nat \ {0}
          BY <3>3
        <5> HIDE DEF first
        <5>2. /\ SubSeq(sent, first, last) \in Seq(MarkedByte)
              /\ Len(SubSeq(sent, first, last)) =
                    IF first <= last THEN last - first + 1 ELSE 0
              /\ \A i \in 1..(last - first + 1) :
                    SubSeq(sent, first, last)[i] = sent[first + i - 1]
          BY <1>1, <3>3, <5>1, PartType
        <5> QED
          BY <5>2 DEF first
      <4>2. ASSUME NEW i \in 1..Len(p) PROVE p[i].data
        <5> HIDE DEF p
        <5>1. /\ i \in 1..(last - (end + 2) + 1)
              /\ (end + 2) + i - 1 \in (end + 2)..(after - 1)
          BY <1>1, <3>2, <3>3, <4>1 DEF Positions
        <5> QED
          BY <1>1, <4>1, <5>1
      <4>3. Data(p) = Bytes(p)
        <5> HIDE DEF p
        <5> QED
          BY <4>1, <4>2, DataOfMarked
      <4>4. Bytes(p) = SubSeq(Bytes(sent), end + 2, last)
        BY <1>1, <3>3, BytesOfPart
      <4>5. SubSeq(all_chunk, end + 2, last) = SubSeq(Bytes(sent), end + 2, last)
        <5> DEFINE b == Bytes(sent)
        <5>1. b \in Seq(Byte) /\ Len(b) = Len(sent)
          BY <1>1, BytesType
        <5> HIDE DEF b
        <5>2. CASE last < end + 2
          BY <3>3, <5>2, SubSeqEmpty DEF b
        <5>3. CASE ~(last < end + 2)
          <6>1. /\ n \in 1..Len(b) /\ 1 \in 1..Len(b)
                /\ end + 2 \in 1..(n - 1 + 1) /\ last \in 1..(n - 1 + 1)
                /\ 1 + (end + 2) - 1 = end + 2 /\ 1 + last - 1 = last
            BY <1>1, <1>2, <3>2, <3>3, <5>1, <5>3 DEF Positions
          <6>2. SubSeq(SubSeq(b, 1, n), end + 2, last)
                  = SubSeq(b, 1 + (end + 2) - 1, 1 + last - 1)
            BY <5>1, <6>1, SubSeqOfSubSeq, SMTT(30)
          <6> QED
            BY <1>2, <6>1, <6>2 DEF b
        <5> QED
          BY <5>2, <5>3
      <4> QED
        BY <3>2, <4>3, <4>4, <4>5
    <3>8. Data(SubSeq(sent, last + 1, n)) = Data(SubSeq(sent, next, n))
      <4>1. next \in Nat \ {0} /\ next = after + 2 /\ after \in Nat \ {0}
        BY <1>1 DEF Positions, next
      <4>2. last <= after - 1 /\ (last = after - 1 \/ last = n)
        BY <1>1, <3>2 DEF Positions
      <4> HIDE DEF after
      <4>3. CASE n < next
        <5>1. \A i \in (last + 1)..n : ~sent[i].data
          <6>1. \A i \in (last + 1)..n : i \in after..(after + 1)
            BY <3>3, <4>1, <4>2, <4>3
          <6> QED
            BY <1>1, <6>1
        <5>2. Data(SubSeq(sent, last + 1, n)) = <<>>
          BY <1>1, <3>3, <5>1, DataOfUnmarkedPart
        <5>3. \A i \in next..n : ~sent[i].data
          BY <3>3, <4>1, <4>3
        <5>4. Data(SubSeq(sent, next, n)) = <<>>
          BY <1>1, <3>3, <4>1, <5>3, DataOfUnmarkedPart
        <5> QED
          BY <5>2, <5>4
      <4>4. CASE ~(n < next)
        <5>1. /\ last + 1 = after /\ after \in 1..(Len(sent) + 1)
              /\ after + 1 \in (after - 1)..Len(sent) /\ after + 1 \in 0..Len(sent)
              /\ n \in (after + 1)..Len(sent) /\ (after + 1) + 1 = next
          BY <1>1, <3>3, <4>1, <4>2, <4>4
        <5>2. Data(SubSeq(sent, after, n)) =
                Data(SubSeq(sent, after, after + 1))
                  \o Data(SubSeq(sent, (after + 1) + 1, n))
          <6> DEFINE mid == after + 1
          <6>1. mid \in (after - 1)..Len(sent) /\ n \in mid..Len(sent)
            BY <5>1
          <6> HIDE DEF mid
          <6>2. Data(SubSeq(sent, after, n)) =
                  Data(SubSeq(sent, after, mid)) \o Data(SubSeq(sent, mid + 1, n))
            BY <1>1, <5>1, <6>1, DataOfParts
          <6> QED
            BY <6>2 DEF mid
        <5>3. Data(SubSeq(sent, after, after + 1)) = <<>>
          BY <1>1, <4>1, <5>1, DataOfUnmarkedPart
        <5>4. Data(SubSeq(sent, next, n)) \in Seq(Byte)
          BY <1>1, <3>3, <4>1, PartType, DataType
        <5> QED
          BY <5>1, <5>2, <5>3, <5>4, ConcatEmptySeq
      <4> QED
        BY <4>3, <4>4
    <3>9. Data(SubSeq(sent, end + 2, n)) \in Seq(Byte)
      BY <1>1, <3>3, PartType, DataType
    <3>10. <<>> \o Data(SubSeq(sent, end + 2, n)) = Data(SubSeq(sent, end + 2, n))
      BY <3>9, ConcatEmptySeq
    <3> QED
      BY <3>4, <3>5, <3>6, <3>7, <3>8, <3>10
  <2>7. /\ from[next].end = (n + 2 >= Len(sent))
        /\ from[next].content = Data(SubSeq(sent, next, n))
    BY <2>3 DEF DecodedFrom
  <2> QED
    BY <2>5, <2>6, <2>7 DEF DecodedFrom, all_chunk
<1> QED
  BY <1>4, <1>6, <1>7

\* The decoder is right about every chunked body, at every byte: it sees the
\* end when the line of the last chunk is there, neither before nor later, and
\* makes of what was received the data that is in it.
THEOREM DecodesEveryPrefix ==
    ASSUME NEW sent, NEW ends, IsChunked(sent, ends), NEW n \in 0..Len(sent)
    PROVE  ReachChunkEnd(Bytes(SubSeq(sent, 1, n)))
             = [end |-> n + 2 >= Len(sent), content |-> Data(SubSeq(sent, 1, n))]
<1> DEFINE all_chunk == Bytes(SubSeq(sent, 1, n))
           L == Len(sent)
<1>1. /\ sent \in Seq(MarkedByte) /\ L \in Nat /\ 1 \in DOMAIN ends
      /\ \A start \in DOMAIN ends : start \in 1..L /\ start \in Positions
  <2>1. sent \in Seq(MarkedByte)
    BY DEF IsChunked
  <2> QED
    BY <2>1, LenProperties DEF IsChunked, Positions
<1>2. all_chunk \in Seq(Byte)
  BY <1>1, Prefix
<1>3. PICK from :
        /\ \A pos \in Positions : from[pos] = Turn(all_chunk, from, pos)
        /\ ReachChunkEnd(all_chunk) = from[1]
  BY <1>2, Turns
<1> DEFINE Right(start) == from[start] = DecodedFrom(sent, n, start)
           S == {k \in Nat : \A start \in DOMAIN ends : start + k > L => Right(start)}
<1> HIDE DEF L
<1>4. 0 \in S
  <2>1. \A start \in DOMAIN ends : ~(start + 0 > L)
    BY <1>1
  <2> HIDE DEF Right
  <2> QED
    BY <2>1
<1>5. ASSUME NEW k \in Nat, k \in S PROVE k + 1 \in S
  <2> SUFFICES ASSUME NEW start \in DOMAIN ends, start + (k + 1) > L
               PROVE  Right(start)
    OBVIOUS
  <2>1. from[start] = Turn(all_chunk, from, start)
    BY <1>1, <1>3
  <2>2. ASSUME NEW next \in DOMAIN ends, next > start PROVE Right(next)
    <3>1. next + k > L
      BY <1>1, <2>2
    <3> HIDE DEF Right
    <3> QED
      BY <1>5, <3>1
  <2> QED
    BY <2>1, <2>2, DecodesChunk
<1>6. Nat \subseteq S
  <2> HIDE DEF S
  <2> QED
    BY <1>4, <1>5, Induction
<1>7. Right(1)
  <2>1. L \in S /\ 1 + L > L
    BY <1>1, <1>6
  <2> HIDE DEF Right
  <2> QED
    BY <1>1, <2>1
<1> QED
  BY <1>3, <1>7 DEF DecodedFrom

\* All the data is there when the line of the last chunk is.
LEMMA DataAtEnd ==
    ASSUME NEW sent, NEW ends, IsChunked(sent, ends), NEW n \in 0..Len(sent),
           n + 2 >= Len(sent)
    PROVE  Data(SubSeq(sent, 1, n)) = Data(sent)
<1>1. sent \in Seq(MarkedByte) /\ Len(sent) \in Nat
  BY LenProperties DEF IsChunked
<1>2. \A i \in (n + 1)..Len(sent) : ~sent[i].data
  <2>1. \A i \in (n + 1)..Len(sent) : i = Len(sent) - 1 \/ i = Len(sent)
    BY <1>1
  <2> QED
    BY <2>1, LastLineEnd
<1>3. Data(SubSeq(sent, n + 1, Len(sent))) = <<>>
  <2>1. n + 1 \in Nat \ {0} /\ Len(sent) \in 0..Len(sent)
    BY <1>1
  <2> QED
    BY <1>1, <1>2, <2>1, DataOfUnmarkedPart
<1>4. Data(SubSeq(sent, 1, Len(sent))) =
        Data(SubSeq(sent, 1, n)) \o Data(SubSeq(sent, n + 1, Len(sent)))
  <2>1. /\ 1 \in 1..(Len(sent) + 1) /\ n \in (1 - 1)..Len(sent)
        /\ Len(sent) \in n..Len(sent)
    BY <1>1
  <2> QED
    BY <1>1, <2>1, DataOfParts
<1>5. Data(SubSeq(sent, 1, n)) \in Seq(Byte)
  <2>1. 1 \in Nat \ {0}
    OBVIOUS
  <2> QED
    BY <1>1, <2>1, PartType, DataType
<1> QED
  BY <1>1, <1>3, <1>4, <1>5, ConcatEmptySeq, SubSeqFull
===============================================================================
