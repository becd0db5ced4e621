-------------------------- MODULE MediaInput_proofs --------------------------
(***************************************************************************)
(* Proofs about the sources of the media, for every size of a frame and of *)
(* a header, every file and every recording.                               *)
(***************************************************************************)
EXTENDS MediaInput, SequenceTheorems, TLAPS

LOCAL INSTANCE FiniteSetsExt

\* The file stands at the start of a frame, behind the one delivered last,
\* unless two reads were mixed.
BehindLast ==
    HoldsFrame =>
        /\ pos \in Nat /\ pos <= length
        /\ ~MixesReads =>
            /\ \E k \in 0..length : pos = k * FrameSize
            /\ frame # <<>> =>
                FrameSize <= pos /\ frame = Segment(pos - FrameSize, FrameSize)

FramesInv ==
    /\ length \in Nat
    /\ BehindLast

-----------------------------------------------------------------------------
\* Of two multiples the smaller one is smaller by the factor at least.
LEMMA NextMultiple ==
    ASSUME NEW F \in Nat \ {0}, NEW k \in Nat, NEW m \in Nat, k * F < m * F
    PROVE  (k + 1) * F <= m * F
<1>1. CASE k + 1 <= m
  <2>1. PICK d \in Nat : m = k + 1 + d
    <3>1. m - (k + 1) \in Nat /\ m = k + 1 + (m - (k + 1))
      BY <1>1
    <3> QED
      BY <3>1
  <2>2. m * F = (k + 1) * F + d * F /\ d * F \in Nat /\ (k + 1) * F \in Nat
    BY <2>1
  <2> QED
    BY <2>2
<1>2. CASE m <= k
  <2>1. PICK d \in Nat : k = m + d
    <3>1. k - m \in Nat /\ k = m + (k - m)
      BY <1>2
    <3> QED
      BY <3>1
  <2>2. k * F = m * F + d * F /\ d * F \in Nat /\ m * F \in Nat
    BY <2>1
  <2> QED
    BY <2>2
<1> QED
  BY <1>1, <1>2

\* What is not more than a number fits into it as often as the quotient says.
LEMMA FitsInto ==
    ASSUME NEW F \in Nat \ {0}, NEW k \in Nat, NEW n \in Nat, k * F <= n
    PROVE  k \in 0..(n \div F)
<1>1. n \div F \in Nat
  OBVIOUS
<1>2. n < ((n \div F) + 1) * F
  <2>1. n < F * (n \div F) + F
    OBVIOUS
  <2>2. F * (n \div F) + F = ((n \div F) + 1) * F
    BY <1>1
  <2> QED
    BY <2>1, <2>2
<1>3. k * F < ((n \div F) + 1) * F
  BY <1>1, <1>2
<1>4. CASE k > n \div F
  <2>1. PICK d \in Nat : k = (n \div F) + 1 + d
    <3>1. k - ((n \div F) + 1) \in Nat
      BY <1>1, <1>4
    <3> QED
      BY <1>1, <3>1
  <2>2. k * F = ((n \div F) + 1) * F + d * F /\ d * F \in Nat
    BY <1>1, <2>1
  <2> QED
    BY <1>1, <1>3, <2>2
<1> QED
  BY <1>1, <1>4

\* A buffer whose last read was complete holds what that read.
LEMMA WholeBuffer ==
    ASSUME NEW n \in Nat, NEW ps, 1 \in DOMAIN ps,
           DOMAIN ps \subseteq Nat \ {0}, Got(ps[1], n) = n
    PROVE  Buffer(n, ps) = Segment(ps[1], n)
<1>1. SUFFICES ASSUME NEW i \in 1..n
               PROVE  LET there == {j \in DOMAIN ps : i <= Got(ps[j], n)}
                      IN  1 \in there /\ Min(there) = 1
  BY DEF Buffer, Segment
<1>2. 1 \in {j \in DOMAIN ps : i <= Got(ps[j], n)}
  BY <1>1
<1> QED
  BY <1>2 DEF Min

\* A number without a remainder is a multiple.
LEMMA NoRemainder ==
    ASSUME NEW F \in Nat \ {0}, NEW n \in Nat, n % F = 0
    PROVE  \E m \in Nat : n = m * F
<1>1. n \div F \in Nat
  OBVIOUS
<1>2. n = F * (n \div F)
  BY SMTT(30)
<1>3. n = (n \div F) * F
  BY <1>1, <1>2
<1> QED
  BY <1>1, <1>3

\* When the last read got nothing, the buffer holds what the read before got.
LEMMA SecondRead ==
    ASSUME NEW n \in Nat, NEW p \in Nat, NEW q \in Nat,
           Got(p, n) = 0, Got(q, n) = n
    PROVE  Buffer(n, <<p, q>>) = Segment(q, n)
<1> DEFINE ps == <<p, q>>
<1>1. SUFFICES ASSUME NEW i \in 1..n
               PROVE  LET there == {j \in DOMAIN ps : i <= Got(ps[j], n)}
                      IN  2 \in there /\ Min(there) = 2
  BY DEF Buffer, Segment
<1>2. {j \in DOMAIN ps : i <= Got(ps[j], n)} = {2}
  <2>1. DOMAIN ps = {1, 2} /\ ps[1] = p /\ ps[2] = q
    OBVIOUS
  <2>2. i <= Got(ps[2], n) /\ ~(i <= Got(ps[1], n))
    BY <1>1, <2>1
  <2> HIDE DEF ps
  <2> QED
    BY <2>1, <2>2
<1> QED
  BY <1>2 DEF Min

-----------------------------------------------------------------------------
\* A whole frame from one of the starts is delivered and left behind.
LEMMA DeliversFrame ==
    ASSUME FramesInv, NEW k \in Nat, (k + 1) * FrameSize <= length,
           Delivers(Segment(k * FrameSize, FrameSize),
                    k * FrameSize + FrameSize)
    PROVE  FramesInv'
<1>1. /\ FrameSize \in Nat \ {0} /\ k * FrameSize \in Nat
      /\ (k + 1) * FrameSize = k * FrameSize + FrameSize
  BY SizesAssumption
<1>2. pos' = (k + 1) * FrameSize /\ k + 1 \in Nat
  BY <1>1 DEF Delivers
<1>3. k + 1 <= length
  <2>1. FrameSize - 1 \in Nat /\ (k + 1) * (FrameSize - 1) \in Nat
    BY <1>1
  <2>2. (k + 1) * FrameSize = (k + 1) + (k + 1) * (FrameSize - 1)
    BY <1>1
  <2> QED
    BY <1>2, <2>1, <2>2 DEF FramesInv
<1>4. /\ pos' \in Nat /\ pos' <= length' /\ FrameSize <= pos'
      /\ pos' - FrameSize = k * FrameSize
  <2>1. length' = length /\ pos' = k * FrameSize + FrameSize
    BY DEF Delivers
  <2>2. k * FrameSize \in Nat
    BY <1>1
  <2> QED
    BY <1>1, <1>2, <2>1, <2>2
<1>5. \E j \in 0..length' : pos' = j * FrameSize
  BY <1>1, <1>2, <1>3 DEF Delivers, FramesInv
<1>6. frame' = Segment(pos' - FrameSize, FrameSize)
  BY <1>4 DEF Delivers
<1> QED
  BY <1>4, <1>5, <1>6 DEF FramesInv, BehindLast, Delivers

\* Where the file stands, either a whole frame is left or none begins.
LEMMA WhereItStands ==
    ASSUME FramesInv, HoldsFrame
    PROVE  /\ FrameSize \in Nat \ {0} /\ length \in Nat /\ FrameSize <= length
           /\ pos \in Nat /\ pos <= length
           /\ ~MixesReads => \E k \in Nat : pos = k * FrameSize
           /\ Got(pos, FrameSize) = FrameSize <=> pos + FrameSize <= length
           /\ Got(0, FrameSize) = FrameSize
<1>1. ASSUME ~MixesReads PROVE \E k \in Nat : pos = k * FrameSize
  <2>1. \E k \in 0..length : pos = k * FrameSize
    BY <1>1 DEF FramesInv, BehindLast
  <2>2. 0..length \subseteq Nat
    BY DEF FramesInv
  <2> QED
    BY <2>1, <2>2
<1>2. /\ FrameSize \in Nat \ {0} /\ pos \in Nat
      /\ length \in Nat /\ FrameSize <= length /\ pos <= length
  BY SizesAssumption DEF FramesInv, BehindLast, HoldsFrame
<1> QED
  BY <1>1, <1>2 DEF Got, MinOf

\* The reader of pictures delivers the frame it stands before, or the first.
LEMMA NextPicture ==
    ASSUME FramesInv, HoldsFrame, reader = "yuv", GenerateNextFrame
    PROVE  LET start == IF pos + FrameSize <= length THEN pos ELSE 0 IN
           Delivers(Segment(start, FrameSize), start + FrameSize)
<1>1. /\ FrameSize \in Nat \ {0} /\ pos \in Nat
      /\ Got(pos, FrameSize) = FrameSize <=> pos + FrameSize <= length
      /\ Got(0, FrameSize) = FrameSize
  BY WhereItStands
<1>2. CASE pos + FrameSize <= length
  <2>1. Buffer(FrameSize, <<pos>>) = Segment(pos, FrameSize)
    BY <1>1, <1>2, WholeBuffer
  <2> QED
    BY <1>1, <1>2, <2>1 DEF GenerateNextFrame
<1>3. CASE ~(pos + FrameSize <= length)
  <2>1. Buffer(FrameSize, <<0, pos>>) = Segment(0, FrameSize)
    BY <1>1, WholeBuffer
  <2> QED
    BY <1>1, <1>3, <2>1 DEF GenerateNextFrame
<1> QED
  BY <1>2, <1>3

\* The reader of samples delivers the frame behind it as well, if there is
\* one; where the file ends inside that one, two reads are mixed.
LEMMA NextSamples ==
    ASSUME FramesInv, HoldsFrame, reader = "audio", GenerateFramesForNext10Ms
    PROVE  FramesInv'
<1>1. /\ FrameSize \in Nat \ {0} /\ length \in Nat /\ FrameSize <= length
      /\ pos \in Nat /\ pos <= length
      /\ Got(pos, FrameSize) = FrameSize <=> pos + FrameSize <= length
      /\ Got(0, FrameSize) = FrameSize
  BY WhereItStands
<1>2. CASE pos + FrameSize > length
  <2>1. Buffer(FrameSize, <<0, pos>>) = Segment(0, FrameSize)
    BY <1>1, WholeBuffer
  <2>2. Delivers(Segment(0, FrameSize), 0 + FrameSize)
    BY <1>1, <1>2, <2>1 DEF GenerateFramesForNext10Ms
  <2>3. 0 * FrameSize = 0 /\ (0 + 1) * FrameSize <= length
    BY <1>1
  <2> QED
    BY <2>2, <2>3, DeliversFrame
<1>3. ASSUME pos + FrameSize <= length
      PROVE  \E k \in Nat : pos = k * FrameSize
  BY <1>1, <1>3, WhereItStands DEF MixesReads
<1>4. CASE pos + FrameSize + FrameSize <= length
  <2>1. PICK k \in Nat : pos = k * FrameSize
    BY <1>1, <1>3, <1>4
  <2>2. /\ (k + 1) * FrameSize = pos + FrameSize
        /\ ((k + 1) + 1) * FrameSize = pos + FrameSize + FrameSize
    BY <1>1, <2>1
  <2>3. Got(pos + FrameSize, FrameSize) = FrameSize
    BY <1>1, <1>4 DEF Got, MinOf
  <2>4. Buffer(FrameSize, <<pos + FrameSize, pos>>)
            = Segment(pos + FrameSize, FrameSize)
    BY <1>1, <2>3, WholeBuffer
  <2>5. Delivers(Segment(pos + FrameSize, FrameSize),
                 pos + FrameSize + FrameSize)
    BY <1>1, <1>4, <2>3, <2>4 DEF GenerateFramesForNext10Ms
  <2>6. /\ k + 1 \in Nat /\ ((k + 1) + 1) * FrameSize <= length
        /\ Delivers(Segment((k + 1) * FrameSize, FrameSize),
                    (k + 1) * FrameSize + FrameSize)
    BY <1>4, <2>2, <2>5
  <2> QED
    BY <2>6, DeliversFrame
<1>5. CASE pos + FrameSize = length
  <2>1. PICK k \in Nat : pos = k * FrameSize
    BY <1>1, <1>3, <1>5
  <2>2. Got(length, FrameSize) = 0
    BY <1>1 DEF Got, MinOf
  <2>3. Buffer(FrameSize, <<length, pos>>) = Segment(pos, FrameSize)
    BY <1>1, <1>5, <2>2, SecondRead
  <2>4. Delivers(Segment(pos, FrameSize), pos + FrameSize)
    BY <1>1, <1>5, <2>2, <2>3 DEF GenerateFramesForNext10Ms
  <2>5. (k + 1) * FrameSize <= length
    BY <1>1, <1>5, <2>1
  <2> QED
    BY <2>1, <2>4, <2>5, DeliversFrame
<1>6. CASE pos + FrameSize < length /\ length < pos + FrameSize + FrameSize
  <2>1. PICK k \in Nat : pos = k * FrameSize
    BY <1>1, <1>3, <1>6
  <2>2. length % FrameSize # 0
    <3>1. SUFFICES ASSUME length % FrameSize = 0 PROVE FALSE
      OBVIOUS
    <3>2. PICK m \in Nat : length = m * FrameSize
      BY <1>1, <3>1, NoRemainder
    <3>3. /\ (k + 1) * FrameSize = pos + FrameSize
          /\ ((k + 1) + 1) * FrameSize = pos + FrameSize + FrameSize
      BY <1>1, <2>1
    <3>4. ((k + 1) + 1) * FrameSize <= m * FrameSize
      BY <1>1, <1>6, <3>2, <3>3, NextMultiple
    <3> QED
      BY <1>1, <1>6, <3>2, <3>3, <3>4
  <2>3. Got(pos + FrameSize, FrameSize) = length - (pos + FrameSize)
    BY <1>1, <1>6 DEF Got, MinOf
  <2>4. pos' = length /\ UNCHANGED <<reader, length>>
    BY <1>1, <1>6, <2>3 DEF GenerateFramesForNext10Ms, Delivers
  <2>5. MixesReads'
    BY <2>2, <2>4 DEF MixesReads
  <2> QED
    BY <1>1, <2>4, <2>5 DEF FramesInv, BehindLast
<1> QED
  BY <1>1, <1>2, <1>4, <1>5, <1>6

\* Every step of a source of frames leaves the file at the start of a frame.
LEMMA NextFramesInv == FramesInv /\ [Next]_vars => FramesInv'
<1> SUFFICES ASSUME FramesInv, [Next]_vars PROVE FramesInv'
  OBVIOUS
<1>1. UNCHANGED <<reader, length>>
  BY DEF Next, ReadsNull, GenerateNextFrame, GenerateFramesForNext10Ms,
         InitEncoderContext, EncodeOneFrame, EncodeFrameAt, Delivers, Crashes,
         Destroy, Terminated, vars
<1>2. CASE ~HoldsFrame
  BY <1>1, <1>2 DEF FramesInv, BehindLast, HoldsFrame
<1>3. CASE HoldsFrame /\ GenerateNextFrame
  <2>1. reader = "yuv"
    BY <1>3 DEF GenerateNextFrame
  <2>2. PICK k \in Nat : pos = k * FrameSize
    BY <1>3, <2>1, WhereItStands DEF MixesReads
  <2>3. /\ FrameSize \in Nat \ {0} /\ length \in Nat /\ FrameSize <= length
        /\ (k + 1) * FrameSize = pos + FrameSize
        /\ 0 * FrameSize = 0 /\ (0 + 1) * FrameSize = FrameSize
    BY <1>3, <2>2, WhereItStands
  <2>4. CASE pos + FrameSize <= length
    <3>1. Delivers(Segment(pos, FrameSize), pos + FrameSize)
      BY <1>3, <2>1, <2>4, NextPicture
    <3> QED
      BY <2>2, <2>3, <2>4, <3>1, DeliversFrame
  <2>5. CASE ~(pos + FrameSize <= length)
    <3>1. Delivers(Segment(0, FrameSize), 0 + FrameSize)
      BY <1>3, <2>1, <2>5, NextPicture
    <3> QED
      BY <2>3, <3>1, DeliversFrame
  <2> QED
    BY <2>4, <2>5
<1>4. CASE HoldsFrame /\ GenerateFramesForNext10Ms
  BY <1>4, NextSamples DEF GenerateFramesForNext10Ms
<1>5. CASE /\ HoldsFrame
           /\ ReadsNull \/ Destroy \/ Terminated \/ UNCHANGED vars
  <2>1. UNCHANGED <<reader, length, pos, frame>>
    BY <1>5 DEF ReadsNull, Crashes, Destroy, Terminated, vars
  <2> QED
    BY <2>1 DEF FramesInv, BehindLast, HoldsFrame, MixesReads, Segment
<1>6. ~(HoldsFrame /\ (InitEncoderContext \/ EncodeOneFrame))
  BY DEF HoldsFrame, InitEncoderContext, EncodeOneFrame
<1> QED
  BY <1>2, <1>3, <1>4, <1>5, <1>6 DEF Next

\* The invariant holds when the file has been opened.
LEMMA InitFramesInv == Init => FramesInv
<1> SUFFICES ASSUME Init PROVE FramesInv
  OBVIOUS
<1>1. length \in Nat
  BY SizesAssumption, RecordingsAssumption DEF Init
<1>2. pos = 0 /\ frame = <<>> /\ 0 = 0 * FrameSize
  BY SizesAssumption DEF Init
<1> QED
  BY <1>1, <1>2 DEF FramesInv, BehindLast

\* Of a file with a frame, pictures and samples are delivered as they are in
\* the file, for every size of one and every length, unless two reads are mixed.
THEOREM WholeFramesOnly == Spec => []FramesAreWhole
<1>1. ASSUME FramesInv PROVE FramesAreWhole
  <2>1. SUFFICES ASSUME HoldsFrame, ~MixesReads, frame # <<>>
                 PROVE  \E k \in 0..(length \div FrameSize) :
                            frame = Segment(k * FrameSize, FrameSize)
    BY DEF FramesAreWhole
  <2>2. PICK j \in Nat : pos = j * FrameSize
    BY <1>1, <2>1, WhereItStands
  <2>3. /\ FrameSize \in Nat \ {0} /\ length \in Nat
        /\ pos <= length /\ FrameSize <= pos
        /\ frame = Segment(pos - FrameSize, FrameSize)
    BY <1>1, <2>1, WhereItStands DEF FramesInv, BehindLast
  <2>4. j # 0
    BY <2>2, <2>3
  <2>5. j - 1 \in Nat /\ (j - 1) * FrameSize = pos - FrameSize
    BY <2>2, <2>3, <2>4
  <2>6. (j - 1) * FrameSize <= length
    BY <2>2, <2>3, <2>5
  <2>7. j - 1 \in 0..(length \div FrameSize)
    BY <2>3, <2>5, <2>6, FitsInto
  <2> QED
    BY <2>3, <2>5, <2>7
<1> QED
  BY <1>1, InitFramesInv, NextFramesInv, PTL DEF Spec

\* The pictures come in the order of the file, which is repeated.
THEOREM PicturesInOrder == Spec => VideoIsContinuous
<1> DEFINE InOrder ==
        reader = "yuv" /\ FrameSize <= length /\ frame # <<>> /\ frame' # frame
            => Follows(frame, frame')
<1>1. ASSUME FramesInv, [Next]_vars PROVE [InOrder]_vars
  <2>1. SUFFICES ASSUME reader = "yuv", FrameSize <= length, frame # <<>>,
                        frame' # frame
                 PROVE  Follows(frame, frame')
    OBVIOUS
  <2>2. HoldsFrame /\ ~MixesReads
    BY <2>1 DEF HoldsFrame, MixesReads
  <2>3. /\ FrameSize \in Nat \ {0} /\ length \in Nat /\ pos \in Nat
        /\ FrameSize <= pos /\ frame = Segment(pos - FrameSize, FrameSize)
    BY <1>1, <2>1, <2>2, WhereItStands DEF FramesInv, BehindLast
  <2>4. GenerateNextFrame
    BY <1>1, <2>1
    DEF Next, ReadsNull, GenerateFramesForNext10Ms, InitEncoderContext,
        EncodeOneFrame, Crashes, Destroy, Terminated, vars
  <2>5. frame' = Segment(IF pos + FrameSize <= length THEN pos ELSE 0,
                         FrameSize)
    BY <1>1, <2>1, <2>2, <2>4, NextPicture DEF Delivers
  <2>6. /\ frame[FrameSize] = pos
        /\ frame'[1] = (IF pos + FrameSize <= length THEN pos ELSE 0) + 1
    BY <2>3, <2>5 DEF Segment
  <2> QED
    BY <2>3, <2>6 DEF Follows
<1>2. Spec => [][InOrder]_vars
  BY <1>1, InitFramesInv, NextFramesInv, PTL DEF Spec
<1> QED
  BY <1>2 DEF VideoIsContinuous

-----------------------------------------------------------------------------
\* What the encoder delivers for the header h.
IsFrameOf(f, h) ==
    LET there == Got(h + HeaderSize, sizes[h]) IN
    f = Segment(h + HeaderSize, there)
            \o [i \in 1..(sizes[h] - there) |-> 0]

\* Of a recording, however it is cut off: a header lies at the start and behind
\* every frame that is there.
Chained ==
    /\ length \in Nat
    /\ DOMAIN sizes \subseteq Nat /\ sizes \in [DOMAIN sizes -> Nat]
    /\ HeaderSize <= length => 0 \in DOMAIN sizes
    /\ \A h \in DOMAIN sizes :
        \/ h + HeaderSize + sizes[h] \in DOMAIN sizes
        \/ length <= h + HeaderSize + sizes[h]

\* The file stands before a header or at its end.
BeforeHeader ==
    HeaderSize <= length =>
        /\ pos \in DOMAIN sizes \cup {length}
        /\ pos <= length
        /\ frame # <<>> => \E h \in DOMAIN sizes : IsFrameOf(frame, h)

EncoderInv == reader = "encoded" => Chained /\ BeforeHeader

\* One read that is cut off leaves the rest of the buffer as it was.
LEMMA CutBuffer ==
    ASSUME NEW n \in Nat, NEW p \in Nat, NEW there \in 0..n, Got(p, n) = there
    PROVE  Buffer(n, <<p>>) = Segment(p, there) \o [i \in 1..(n - there) |-> 0]
<1> DEFINE rest == [i \in 1..(n - there) |-> 0]
           cut == Segment(p, there)
<1>1. /\ there \in Nat /\ n - there \in Nat
      /\ rest \in Seq(Nat) /\ Len(rest) = n - there
      /\ cut \in Seq(Nat) /\ Len(cut) = there
  BY DEF Segment
<1>2. /\ cut \o rest \in Seq(Nat) /\ Len(cut \o rest) = n
      /\ \A i \in 1..n : (cut \o rest)[i]
                          = IF i <= there THEN cut[i] ELSE rest[i - there]
  <2> HIDE DEF cut, rest
  <2> QED
    BY <1>1, SMTT(30)
<1>3. \A i \in 1..n : (cut \o rest)[i] = IF i <= there THEN p + i ELSE 0
  BY <1>1, <1>2 DEF Segment
<1>4. ASSUME NEW i \in 1..n
      PROVE  Buffer(n, <<p>>)[i] = IF i <= there THEN p + i ELSE 0
  <2> DEFINE ps == <<p>>
             reads == {j \in DOMAIN ps : i <= Got(ps[j], n)}
  <2>1. DOMAIN ps = {1} /\ ps[1] = p
    OBVIOUS
  <2>2. Buffer(n, ps)[i] = IF reads = {} THEN 0 ELSE ps[Min(reads)] + i
    BY DEF Buffer
  <2>3. CASE i <= there
    <3>1. reads = {1}
      <4> HIDE DEF ps
      <4> QED
        BY <2>1, <2>3
    <3>2. Min(reads) = 1
      BY <3>1 DEF Min
    <3> QED
      BY <2>1, <2>2, <2>3, <3>1, <3>2
  <2>4. CASE ~(i <= there)
    <3>1. reads = {}
      <4> HIDE DEF ps
      <4> QED
        BY <2>1, <2>4
    <3> QED
      BY <2>2, <2>4, <3>1
  <2> QED
    BY <2>3, <2>4
<1>5. Buffer(n, <<p>>) = [i \in 1..n |-> Buffer(n, <<p>>)[i]]
  BY DEF Buffer
<1>6. cut \o rest = [i \in 1..n |-> (cut \o rest)[i]]
  <2>1. cut \o rest \in [1..n -> Nat]
    BY <1>2, LenProperties
  <2> HIDE DEF cut, rest
  <2> QED
    BY <2>1
<1>7. \A i \in 1..n : Buffer(n, <<p>>)[i] = (cut \o rest)[i]
  BY <1>3, <1>4
<1>8. Buffer(n, <<p>>) = cut \o rest
  <2> HIDE DEF cut, rest
  <2> QED
    BY <1>5, <1>6, <1>7
<1> QED
  BY <1>8

\* Behind a header the encoder delivers its frame and stands before the next.
LEMMA EncodesFrame ==
    ASSUME Chained, HeaderSize <= length, NEW h \in DOMAIN sizes,
           h + HeaderSize <= length, EncodeFrameAt(h)
    PROVE  BeforeHeader'
<1> DEFINE data == h + HeaderSize
           there == Got(data, sizes[h])
<1>1. /\ HeaderSize \in Nat /\ length \in Nat /\ h \in Nat
      /\ sizes[h] \in Nat /\ data \in Nat /\ data <= length
      /\ data + sizes[h] \in DOMAIN sizes \/ length <= data + sizes[h]
  BY SizesAssumption DEF Chained
<1>2. /\ there \in 0..sizes[h]
      /\ data + there = IF data + sizes[h] <= length THEN data + sizes[h]
                        ELSE length
  <2> HIDE DEF data
  <2> QED
    BY <1>1 DEF Got, MinOf
<1>3. /\ pos' = data + there /\ frame' = Buffer(sizes[h], <<data>>)
      /\ UNCHANGED <<length, sizes>>
  BY DEF EncodeFrameAt, Delivers
<1>4. pos' \in DOMAIN sizes \cup {length} /\ pos' <= length
  <2> HIDE DEF data, there
  <2> QED
    BY <1>1, <1>2, <1>3
<1>5. IsFrameOf(frame', h)
  BY <1>1, <1>2, <1>3, CutBuffer DEF IsFrameOf
<1>6. IsFrameOf(frame, h)'
  BY <1>3, <1>5 DEF IsFrameOf, Got, Segment
<1> QED
  BY <1>3, <1>4, <1>6 DEF BeforeHeader

\* The encoder opens a recording that is cut off anywhere.
LEMMA InitEncoderInv == Init => EncoderInv
<1> SUFFICES ASSUME Init, reader = "encoded" PROVE Chained /\ BeforeHeader
  BY DEF EncoderInv
<1>1. PICK r \in Recordings : sizes = r.sizes /\ length \in 0..r.end
  BY DEF Init
<1>2. /\ DOMAIN sizes \subseteq Nat /\ sizes \in [DOMAIN sizes -> Nat]
      /\ r.end \in Nat
      /\ 0 \in DOMAIN sizes \cup {r.end}
      /\ \A h \in DOMAIN sizes :
            h + HeaderSize + sizes[h] \in DOMAIN sizes \cup {r.end}
  BY <1>1, RecordingsAssumption
<1>3. Chained
  BY <1>1, <1>2, SizesAssumption DEF Chained
<1>4. BeforeHeader
  BY <1>3, SizesAssumption DEF Init, Chained, BeforeHeader
<1> QED
  BY <1>3, <1>4

\* Every call leaves the encoder before a header or at the end of the file: a
\* file that holds a header gives no size from the stack.
LEMMA NextEncoderInv == EncoderInv /\ [Next]_vars => EncoderInv'
<1> SUFFICES ASSUME EncoderInv, [Next]_vars, reader = "encoded"
             PROVE  Chained' /\ BeforeHeader'
  <2>1. ASSUME [Next]_vars PROVE UNCHANGED reader
    BY <2>1
    DEF Next, ReadsNull, GenerateNextFrame, GenerateFramesForNext10Ms,
        InitEncoderContext, EncodeOneFrame, EncodeFrameAt, Delivers, Crashes,
        Destroy, Terminated, vars
  <2> QED
    BY <2>1 DEF EncoderInv
<1>1. Chained /\ BeforeHeader
  BY DEF EncoderInv
<1>2. Chained'
  <2>1. UNCHANGED <<length, sizes>>
    BY DEF Next, ReadsNull, GenerateNextFrame, GenerateFramesForNext10Ms,
           InitEncoderContext, EncodeOneFrame, EncodeFrameAt, Delivers,
           Crashes, Destroy, Terminated, vars
  <2> QED
    BY <1>1, <2>1 DEF Chained
<1>3. CASE UNCHANGED <<pos, frame, length, sizes>>
  <2>1. \A h \in DOMAIN sizes : IsFrameOf(frame, h)' <=> IsFrameOf(frame, h)
    BY <1>3 DEF IsFrameOf, Got, Segment
  <2> QED
    BY <1>1, <1>2, <1>3, <2>1 DEF BeforeHeader
<1>4. CASE InitEncoderContext
  <2>1. pos' = 0 /\ UNCHANGED <<frame, length, sizes>>
    BY <1>4 DEF InitEncoderContext
  <2>2. 0 <= length
    BY <1>1 DEF Chained
  <2>3. \A h \in DOMAIN sizes : IsFrameOf(frame, h)' <=> IsFrameOf(frame, h)
    BY <2>1 DEF IsFrameOf, Got, Segment
  <2> QED
    BY <1>1, <2>1, <2>2, <2>3 DEF Chained, BeforeHeader
<1>5. CASE EncodeOneFrame
  <2>1. SUFFICES ASSUME HeaderSize <= length PROVE BeforeHeader'
    <3>1. UNCHANGED length
      BY <1>5 DEF EncodeOneFrame, EncodeFrameAt, Delivers, Crashes
    <3> QED
      BY <1>2, <2>1, <3>1 DEF BeforeHeader
  <2>2. /\ HeaderSize \in Nat \ {0} /\ length \in Nat /\ pos \in Nat
        /\ 0 \in DOMAIN sizes /\ pos \in DOMAIN sizes \cup {length}
    BY <1>1, <2>1, SizesAssumption DEF Chained, BeforeHeader
  <2>3. /\ Got(pos, HeaderSize) = HeaderSize <=> pos + HeaderSize <= length
        /\ Got(0, HeaderSize) = HeaderSize
    BY <2>1, <2>2 DEF Got, MinOf
  <2>4. CASE pos + HeaderSize <= length
    <3>1. pos \in DOMAIN sizes
      BY <2>2, <2>4
    <3>2. EncodeFrameAt(pos)
      BY <1>5, <2>3, <2>4 DEF EncodeOneFrame
    <3> QED
      BY <1>1, <2>1, <2>4, <3>1, <3>2, EncodesFrame
  <2>5. CASE ~(pos + HeaderSize <= length)
    <3>1. EncodeFrameAt(0)
      BY <1>5, <2>3, <2>5 DEF EncodeOneFrame
    <3>2. 0 + HeaderSize <= length
      BY <2>1, <2>2
    <3> QED
      BY <1>1, <2>1, <2>2, <3>1, <3>2, EncodesFrame
  <2> QED
    BY <2>4, <2>5
<1>6. ASSUME ~InitEncoderContext, ~EncodeOneFrame
      PROVE  UNCHANGED <<pos, frame, length, sizes>>
  BY <1>6
  DEF Next, ReadsNull, GenerateNextFrame, GenerateFramesForNext10Ms, Crashes,
      Destroy, Terminated, vars
<1> QED
  BY <1>2, <1>3, <1>4, <1>5, <1>6

\* The encoder takes no data for a header, wherever the recording is cut off
\* and however often it is opened: it delivers the data of one frame.
THEOREM EncoderInStep == Spec => []EncodedInStep
<1>1. EncoderInv => EncodedInStep
  BY DEF EncoderInv, BeforeHeader, EncodedInStep, IsFrameOf
<1> QED
  BY <1>1, InitEncoderInv, NextEncoderInv, PTL DEF Spec
==============================================================================
