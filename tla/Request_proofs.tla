---------------------------- MODULE Request_proofs ----------------------------
(***************************************************************************)
(* Proofs about requests, for all urls and parameters: what url_encode     *)
(* makes of a text url_decode makes the text of; parse takes a url apart   *)
(* into the parts its text was put together from; and RequestInv, which    *)
(* relates the parser and the parameters to what was set, is an invariant  *)
(* of the calls, from which each property of Request follows.              *)
(*                                                                         *)
(* The texts have any length.  What a loop of httputil.h does is Fold, and *)
(* FoldIs has what one byte more makes of it; a lemma about every text is  *)
(* then one about the set of the lengths it holds for                      *)
(* (ChunkedBody_proofs, Induction).                                        *)
(***************************************************************************)
EXTENDS Request, Integers, SequenceTheorems, FiniteSetTheorems, TLAPS

Seqs == INSTANCE ChunkedBody_proofs

\* The bytes that divide a url or its query.
Separators == {Space, Ampersand, Slash, Colon, Equals, Question}

\* What url_decode makes of the three bytes of an escape.
Unescaped(e) == (fromhex(e[2]) * 16 + fromhex(e[3])) % 256

\* A hexadecimal digit is a digit or an upper case letter and stands for the
\* number it was made from.
LEMMA HexDigit ==
    ASSUME NEW x \in 0..15
    PROVE  /\ tohex(x) \in Digits \cup UpperCase
           /\ fromhex(tohex(x)) = x
<1>1. CASE x > 9
  <2>1. tohex(x) = x - 10 + 65 /\ tohex(x) \in UpperCase
    BY <1>1 DEF tohex, UpperCase
  <2>2. fromhex(tohex(x)) = tohex(x) - 65 + 10
    BY <2>1 DEF fromhex, UpperCase, LowerCase, Digits
  <2> QED
    BY <2>1, <2>2
<1>2. CASE ~(x > 9)
  <2>1. tohex(x) = x + 48 /\ tohex(x) \in Digits
    BY <1>2 DEF tohex, Digits
  <2>2. fromhex(tohex(x)) = tohex(x) - 48
    BY <2>1 DEF fromhex, UpperCase, LowerCase, Digits
  <2> QED
    BY <2>1, <2>2
<1> QED
  BY <1>1, <1>2

\* A byte has two hexadecimal digits.
LEMMA Halves ==
    ASSUME NEW b \in Byte
    PROVE  /\ b \div 16 \in 0..15 /\ b % 16 \in 0..15
           /\ ((b \div 16) * 16 + (b % 16)) % 256 = b
<1>1. b \in Nat /\ b <= 255
  BY DEF Byte
<1>2. /\ b \div 16 \in Nat /\ b % 16 \in 0..15
      /\ (b \div 16) * 16 + (b % 16) = b
  BY <1>1
<1>3. b \div 16 \in 0..15
  BY <1>1, <1>2
<1>4. b % 256 = b
  BY <1>1
<1>5. ((b \div 16) * 16 + (b % 16)) % 256 = b
  BY <1>2, <1>4, Zenon
<1> QED
  BY <1>2, <1>3, <1>5, Zenon

\* A byte is sent as it is, as a plus, or as an escape.
LEMMA EncodeCases ==
    ASSUME NEW b \in Byte
    PROVE  \/ b \in Unreserved /\ EncodeByte(b) = <<b>>
           \/ b = Space /\ EncodeByte(b) = <<Plus>>
           \/ /\ b \notin Unreserved \cup {Space}
              /\ EncodeByte(b) = <<Percent, tohex(b \div 16), tohex(b % 16)>>
  BY DEF EncodeByte, Unreserved, Space, Digits, UpperCase, LowerCase

\* An escape is read back as the byte that was escaped, a plus as a space, and
\* no byte that is sent as it is looks like either.
THEOREM EscapeRoundTrip ==
    ASSUME NEW b \in Byte
    PROVE  LET e == EncodeByte(b) IN
           \/ e = <<b>> /\ b \notin {Plus, Percent}
           \/ e = <<Plus>> /\ b = Space
           \/ Len(e) = 3 /\ e[1] = Percent /\ Unescaped(e) = b
<1>1. CASE b \in Unreserved /\ EncodeByte(b) = <<b>>
  BY <1>1 DEF Unreserved, Digits, UpperCase, LowerCase, Plus, Percent
<1>2. CASE b = Space /\ EncodeByte(b) = <<Plus>>
  BY <1>2
<1>3. CASE EncodeByte(b) = <<Percent, tohex(b \div 16), tohex(b % 16)>>
  <2>1. /\ fromhex(tohex(b \div 16)) = b \div 16
        /\ fromhex(tohex(b % 16)) = b % 16
        /\ ((b \div 16) * 16 + (b % 16)) % 256 = b
    BY Halves, HexDigit
  <2>2. /\ EncodeByte(b)[2] = tohex(b \div 16)
        /\ EncodeByte(b)[3] = tohex(b % 16)
    BY <1>3
  <2>3. Len(EncodeByte(b)) = 3 /\ EncodeByte(b)[1] = Percent
    BY <1>3
  <2>4. Unescaped(EncodeByte(b)) = b
    BY <2>1, <2>2 DEF Unescaped
  <2> QED
    BY <2>3, <2>4
<1> QED
  BY <1>1, <1>2, <1>3, EncodeCases

\* No byte of an encoded text divides a url or its query, so that keys and
\* values may hold any byte.
THEOREM NoSeparatorEncoded ==
    ASSUME NEW b \in Byte, NEW i \in DOMAIN EncodeByte(b)
    PROVE  EncodeByte(b)[i] \in Byte \ Separators
<1> DEFINE safe == Unreserved \cup {Plus, Percent}
<1>1. safe \subseteq Byte \ Separators
  BY DEF Unreserved, Digits, UpperCase, LowerCase, Plus, Percent, Separators,
         Byte, Space, Ampersand, Slash, Colon, Equals, Question
<1>2. CASE b \in Unreserved /\ EncodeByte(b) = <<b>>
  <2>1. i = 1 /\ EncodeByte(b)[i] = b
    BY <1>2
  <2> QED
    BY <1>1, <1>2, <2>1
<1>3. CASE EncodeByte(b) = <<Plus>>
  <2>1. i = 1 /\ EncodeByte(b)[i] = Plus
    BY <1>3
  <2> QED
    BY <1>1, <2>1
<1>4. CASE EncodeByte(b) = <<Percent, tohex(b \div 16), tohex(b % 16)>>
  <2>1. tohex(b \div 16) \in safe /\ tohex(b % 16) \in safe
    BY Halves, HexDigit DEF Unreserved
  <2>2. EncodeByte(b)[i] \in {Percent, tohex(b \div 16), tohex(b % 16)}
    BY <1>4
  <2> QED
    BY <1>1, <2>1, <2>2
<1> QED
  BY <1>2, <1>3, <1>4, EncodeCases

\* Two bytes that are encoded alike are the same byte, on which SetQueryParam
\* relies when it takes encoded keys for keys.
THEOREM EncodeByteInjective ==
    ASSUME NEW b \in Byte, NEW c \in Byte, EncodeByte(b) = EncodeByte(c)
    PROVE  b = c
<1> DEFINE e == EncodeByte(b)
<1>1. \/ e = <<b>> /\ b \notin {Plus, Percent}
      \/ e = <<Plus>> /\ b = Space
      \/ Len(e) = 3 /\ e[1] = Percent /\ Unescaped(e) = b
  BY EscapeRoundTrip
<1>2. \/ e = <<c>> /\ c \notin {Plus, Percent}
      \/ e = <<Plus>> /\ c = Space
      \/ Len(e) = 3 /\ e[1] = Percent /\ Unescaped(e) = c
  BY EscapeRoundTrip
<1> HIDE DEF e
<1> QED
  BY <1>1, <1>2

-----------------------------------------------------------------------------
\* What makes one value of another and an element.
IsStep(step, V, T) == step \in [V -> [T -> V]]

\* The functions that make something of the first n elements, for every n.
Folds(V, step, base, s) ==
    {upTo \in [0..Len(s) -> V] :
        /\ upTo[0] = base
        /\ \A n \in 1..Len(s) : upTo[n] = step[upTo[n - 1]][s[n]]}

\* Fold starts with base, and an element more is a step more.
LEMMA FoldSteps ==
    ASSUME NEW V, NEW T, NEW step, IsStep(step, V, T),
           NEW base \in V, NEW s \in Seq(T)
    PROVE  \E upTo \in Folds(V, step, base, s) :
            Fold(step, base, s) = upTo[Len(s)]
<1> DEFINE L == Len(s)
           Then(n, before) == step[before][s[n]]
           steps == [n \in 1..L |-> [before \in V |-> Then(n, before)]]
<1>1. L \in Nat /\ \A n \in 1..L : s[n] \in T
  BY ElementOfSeq, LenProperties
<1>2. \A n \in 1..L, before \in V : Then(n, before) \in V
  BY <1>1 DEF IsStep
<1>3. steps \in [1..L -> [V -> V]]
  <2> HIDE DEF Then, L
  <2> QED
    BY <1>2
<1>4. \A n \in 1..L, before \in V : steps[n][before] = Then(n, before)
  OBVIOUS
<1>5. PICK f \in [0..L -> V] :
        f[0] = base /\ \A n \in 1..L : f[n] = steps[n][f[n - 1]]
  <2> HIDE DEF steps, L
  <2>1. steps \in Seqs!Steps(V, L)
    BY <1>3 DEF Seqs!Steps
  <2>2. Seqs!Made(V, L, base, steps) # {}
    BY <1>1, <2>1, Seqs!Recursion
  <2> QED
    BY <2>2 DEF Seqs!Made
<1>6. \A n \in 1..L : f[n] = Then(n, f[n - 1])
  <2> SUFFICES ASSUME NEW n \in 1..L PROVE f[n] = Then(n, f[n - 1])
    OBVIOUS
  <2>1. n - 1 \in 0..L
    BY <1>1
  <2>2. f[n - 1] \in V
    BY <2>1, <1>5
  <2> QED
    BY <1>4, <1>5, <2>2
<1> DEFINE Body(g, n) == IF n = 0 THEN base ELSE Then(n, g[n - 1])
           chosen == CHOOSE g : g = [n \in 0..L |-> Body(g, n)]
<1>7. chosen = [n \in 0..L |-> Body(chosen, n)]
  <2>1. \A n \in 0..L : f[n] = Body(f, n)
    <3> HIDE DEF L, Then
    <3>1. \A n \in 0..L : n = 0 \/ n \in 1..L
      BY <1>1
    <3> QED
      BY <1>5, <1>6, <3>1
  <2>2. f = [n \in 0..L |-> Body(f, n)]
    <3> HIDE DEF Body
    <3> QED
      BY <2>1
  <2> HIDE DEF Body
  <2> QED
    BY <2>2
<1>8. Fold(step, base, s) = chosen[L]
  BY DEF Fold
<1> HIDE DEF chosen
<1>9. \A n \in 0..L : chosen[n] = f[n]
  <2>1. \A n \in 0..L : chosen[n] = Body(chosen, n)
    <3> HIDE DEF Body
    <3> QED
      BY <1>7
  <2>2. chosen[0] = base /\ \A n \in 1..L : chosen[n] = Then(n, chosen[n - 1])
    BY <1>1, <2>1
  <2> HIDE DEF Then, Body, L
  <2>3. \A n \in 1..L : chosen[n - 1] = f[n - 1] => chosen[n] = f[n]
    BY <1>6, <2>2
  <2>4. chosen[0] = f[0] /\ L \in Nat
    BY <1>1, <1>5, <2>2
  <2>5. Seqs!StepAlike(chosen, f, L)
    BY <2>3, <2>4 DEF Seqs!StepAlike
  <2> QED
    BY <2>4, <2>5, Seqs!SameSteps
<1>10. f \in Folds(V, step, base, s)
  BY <1>5, <1>6 DEF Folds
<1>11. Fold(step, base, s) = f[L]
  BY <1>1, <1>8, <1>9
<1> QED
  BY <1>10, <1>11

\* What is made of an empty sequence, and of an element more.
LEMMA FoldIs ==
    ASSUME NEW V, NEW T, NEW step, IsStep(step, V, T),
           NEW base \in V, NEW s \in Seq(T)
    PROVE  /\ Fold(step, base, <<>>) = base
           /\ Fold(step, base, s) \in V
           /\ \A e \in T :
                Fold(step, base, Append(s, e)) = step[Fold(step, base, s)][e]
<1>1. Fold(step, base, <<>>) = base
  <2>1. <<>> \in Seq(T) /\ Len(<<>>) = 0
    BY EmptySeq
  <2> QED
    <3> DEFINE empty == <<>>
    <3> HIDE DEF empty
    <3>1. empty \in Seq(T) /\ Len(empty) = 0
      BY <2>1 DEF empty
    <3>2. \E f \in Folds(V, step, base, empty) : Fold(step, base, empty) = f[0]
      BY <3>1, FoldSteps
    <3>3. Fold(step, base, empty) = base
      BY <3>2 DEF Folds
    <3> QED
      BY <3>3 DEF empty
<1> DEFINE m == Len(s)
<1>2. m \in Nat
  BY LenProperties
<1>3. PICK f \in [0..m -> V] :
        /\ f[0] = base
        /\ \A n \in 1..m : f[n] = step[f[n - 1]][s[n]]
        /\ Fold(step, base, s) = f[m]
  <2>1. \E f \in Folds(V, step, base, s) : Fold(step, base, s) = f[m]
    BY FoldSteps
  <2> QED
    BY <2>1 DEF Folds
<1>4. Fold(step, base, s) \in V
  BY <1>2, <1>3
<1>5. ASSUME NEW e \in T
      PROVE  Fold(step, base, Append(s, e)) = step[Fold(step, base, s)][e]
  <2> DEFINE t == Append(s, e)
  <2>1. /\ t \in Seq(T) /\ Len(t) = m + 1 /\ t[m + 1] = e
        /\ \A n \in 1..m : t[n] = s[n]
    BY AppendProperties, LenProperties
  <2> HIDE DEF t
  <2>2. PICK h \in [0..Len(t) -> V] :
          /\ h[0] = base
          /\ \A n \in 1..Len(t) : h[n] = step[h[n - 1]][t[n]]
          /\ Fold(step, base, t) = h[Len(t)]
    <3>1. t \in Seq(T)
      BY <2>1
    <3>2. \E h \in Folds(V, step, base, t) : Fold(step, base, t) = h[Len(t)]
      BY <3>1, FoldSteps
    <3> QED
      BY <3>2 DEF Folds
  <2> HIDE DEF m
  <2>3. Seqs!StepAlike(h, f, m)
    <3>1. ASSUME NEW n \in 1..m, h[n - 1] = f[n - 1] PROVE h[n] = f[n]
      <4>1. n \in 1..(m + 1) /\ t[n] = s[n]
        BY <1>2, <2>1
      <4>2. h[n] = step[h[n - 1]][t[n]]
        BY <2>1, <2>2, <4>1
      <4> QED
        BY <1>3, <3>1, <4>1, <4>2
    <3> QED
      BY <1>3, <2>2, <3>1 DEF Seqs!StepAlike
  <2>4. h[m] = f[m]
    BY <1>2, <2>3, Seqs!SameSteps
  <2>5. m + 1 \in 1..Len(t) /\ (m + 1) - 1 = m
    BY <1>2, <2>1
  <2>6. h[m + 1] = step[h[m]][e]
    BY <2>1, <2>2, <2>5
  <2>7. Fold(step, base, t) = step[Fold(step, base, s)][e]
    BY <1>3, <2>1, <2>2, <2>4, <2>6
  <2> QED
    BY <2>7 DEF t
<1> QED
  BY <1>1, <1>4, <1>5
-----------------------------------------------------------------------------
\* A byte is encoded by bytes.
LEMMA EncodeByteType ==
    ASSUME NEW b \in Byte
    PROVE  EncodeByte(b) \in Seq(Byte)
<1>1. \A i \in DOMAIN EncodeByte(b) : EncodeByte(b)[i] \in Byte
  BY NoSeparatorEncoded
<1>2. \E n \in Nat : DOMAIN EncodeByte(b) = 1..n
  <2>1. DOMAIN EncodeByte(b) = 1..1 \/ DOMAIN EncodeByte(b) = 1..3
    BY EncodeCases
  <2> QED
    BY <2>1
<1>3. EncodeByte(b) = [i \in DOMAIN EncodeByte(b) |-> EncodeByte(b)[i]]
  BY EncodeCases
<1> DEFINE e == EncodeByte(b)
<1>4. PICK n \in Nat : DOMAIN e = 1..n
  BY <1>2
<1> HIDE DEF e
<1>5. e \in [1..n -> Byte]
  BY <1>1, <1>3, <1>4 DEF e
<1> QED
  BY <1>5, IsASeq DEF e

\* A text is encoded one byte after the other.
LEMMA EncodeIs ==
    ASSUME NEW s \in Seq(Byte)
    PROVE  /\ url_encode(<<>>) = <<>> /\ url_encode(s) \in Seq(Byte)
           /\ \A b \in Byte :
                url_encode(Append(s, b)) = url_encode(s) \o EncodeByte(b)
<1> DEFINE V == Seq(Byte)
           Then(t, b) == t \o EncodeByte(b)
           base == <<>>
<1>1. \A t \in V, b \in Byte : Then(t, b) \in V
  BY EncodeByteType, ConcatProperties
<1>2. EncodeStep = [t \in V |-> [b \in Byte |-> Then(t, b)]]
  BY DEF EncodeStep
<1>3. base \in V
  BY EmptySeq
<1> HIDE DEF V, Then
<1>4. IsStep(EncodeStep, V, Byte)
  BY <1>1, <1>2 DEF IsStep
<1>5. \A t \in V, b \in Byte : EncodeStep[t][b] = Then(t, b)
  BY <1>2
<1> HIDE DEF base
<1>6. /\ Fold(EncodeStep, base, <<>>) = base
      /\ Fold(EncodeStep, base, s) \in V
      /\ \A b \in Byte : Fold(EncodeStep, base, Append(s, b))
                            = EncodeStep[Fold(EncodeStep, base, s)][b]
  BY <1>3, <1>4, FoldIs
<1> QED
  BY <1>5, <1>6 DEF url_encode, base, V, Then

\* What has been decoded, when nothing of an escape is open.
Plain(text) == [text |-> text, escape |-> <<>>]

\* A byte that is read is a step of the decoding.
LEMMA DecodeByteType ==
    ASSUME NEW r \in Decoding, NEW b \in Byte, NEW plus \in Byte
    PROVE  DecodeByte(r, b, plus) \in Decoding
<1>1. r.text \in Seq(Byte) /\ r.escape \in Seq(Byte)
  BY DEF Decoding
<1>2. \A x \in Byte : Append(r.text, x) \in Seq(Byte)
  BY <1>1, AppendProperties
<1>3. Append(r.escape, b) \in Seq(Byte) /\ <<b>> \in Seq(Byte) /\ <<>> \in Seq(Byte)
  BY <1>1, AppendProperties, EmptySeq
<1>4. CASE Len(r.escape) = 2
  <2>1. r.escape[2] \in Byte
    BY <1>1, <1>4, ElementOfSeq
  <2>2. \A x \in Byte : fromhex(x) \in Nat
    BY DEF fromhex, Byte, UpperCase, LowerCase, Digits
  <2> DEFINE x == (fromhex(r.escape[2]) * 16 + fromhex(b)) % 256
  <2>3. x \in Byte
    <3>1. fromhex(r.escape[2]) \in Nat /\ fromhex(b) \in Nat
      BY <2>1, <2>2
    <3> QED
      BY <3>1 DEF Byte
  <2>4. DecodeByte(r, b, plus) = [text |-> Append(r.text, x), escape |-> <<>>]
    BY <1>4 DEF DecodeByte
  <2> HIDE DEF x
  <2> QED
    BY <1>2, <1>3, <2>3, <2>4 DEF Decoding
<1>5. CASE Len(r.escape) = 1
  <2>1. DecodeByte(r, b, plus) = [text |-> r.text, escape |-> Append(r.escape, b)]
    BY <1>5 DEF DecodeByte
  <2> QED
    BY <1>1, <1>3, <2>1 DEF Decoding
<1>6. CASE Len(r.escape) \notin {1, 2}
  <2> DEFINE opened == [text |-> r.text, escape |-> <<b>>]
             space == [text |-> Append(r.text, plus), escape |-> <<>>]
             read == [text |-> Append(r.text, b), escape |-> <<>>]
  <2>1. DecodeByte(r, b, plus) \in {opened, space, read}
    BY <1>6 DEF DecodeByte
  <2>2. opened \in Decoding
    BY <1>1, <1>3 DEF Decoding
  <2>3. space \in Decoding /\ read \in Decoding
    BY <1>2, <1>3 DEF Decoding
  <2> HIDE DEF opened, space, read
  <2> QED
    BY <2>1, <2>2, <2>3
<1> QED
  BY <1>4, <1>5, <1>6

\* A text is decoded one byte after the other.
LEMMA DecodeIs ==
    ASSUME NEW s \in Seq(Byte), NEW plus \in Byte
    PROVE  /\ Decoded(<<>>, plus) = Plain(<<>>)
           /\ Decoded(s, plus) \in Decoding
           /\ \A b \in Byte : Decoded(Append(s, b), plus)
                                = DecodeByte(Decoded(s, plus), b, plus)
<1> DEFINE base == [text |-> <<>>, escape |-> <<>>]
<1>1. DecodeStep(plus) =
        [r \in Decoding |-> [b \in Byte |-> DecodeByte(r, b, plus)]]
  BY DEF DecodeStep
<1>2. base \in Decoding
  BY EmptySeq DEF Decoding
<1>3. IsStep(DecodeStep(plus), Decoding, Byte)
  BY <1>1, DecodeByteType DEF IsStep
<1>4. \A r \in Decoding, b \in Byte : DecodeStep(plus)[r][b] = DecodeByte(r, b, plus)
  BY <1>1
<1> HIDE DEF base
<1>5. /\ Fold(DecodeStep(plus), base, <<>>) = base
      /\ Fold(DecodeStep(plus), base, s) \in Decoding
      /\ \A b \in Byte : Fold(DecodeStep(plus), base, Append(s, b))
                            = DecodeStep(plus)[Fold(DecodeStep(plus), base, s)][b]
  BY <1>2, <1>3, FoldIs
<1> QED
  BY <1>4, <1>5 DEF Decoded, base, Plain

\* The byte of two hexadecimal digits.
FromHexDigits(x, y) == (fromhex(x) * 16 + fromhex(y)) % 256

\* What is read when no escape is open.
LEMMA DecodePlain ==
    ASSUME NEW text, NEW b, NEW plus
    PROVE  DecodeByte(Plain(text), b, plus) =
             IF b = Percent THEN [text |-> text, escape |-> <<b>>]
             ELSE IF b = Plus THEN Plain(Append(text, plus))
             ELSE Plain(Append(text, b))
<1>1. /\ Plain(text).text = text /\ Plain(text).escape = <<>>
      /\ Len(<<>>) # 2 /\ Len(<<>>) # 1 /\ Percent # Plus
  BY DEF Plain, Percent, Plus
<1> QED
  BY <1>1 DEF DecodeByte, Plain

\* The two bytes behind a percent sign are one byte.
LEMMA DecodeEscape ==
    ASSUME NEW text, NEW escape, NEW b, NEW plus
    PROVE  /\ Len(escape) = 1 =>
                DecodeByte([text |-> text, escape |-> escape], b, plus)
                  = [text |-> text, escape |-> Append(escape, b)]
           /\ Len(escape) = 2 =>
                DecodeByte([text |-> text, escape |-> escape], b, plus)
                  = Plain(Append(text, FromHexDigits(escape[2], b)))
  BY DEF DecodeByte, Plain, FromHexDigits

\* Three elements behind a sequence.
LEMMA ThreeBehind ==
    ASSUME NEW T, NEW s \in Seq(T), NEW x \in T, NEW y \in T, NEW z \in T
    PROVE  s \o <<x, y, z>> = Append(Append(Append(s, x), y), z)
<1> DEFINE l == s \o <<x, y, z>>
           r == Append(Append(Append(s, x), y), z)
           m == Len(s)
<1>1. m \in Nat
  BY LenProperties
<1>2. /\ l \in Seq(T) /\ Len(l) = m + 3
      /\ \A i \in 1..(m + 3) : l[i] = IF i <= m THEN s[i] ELSE <<x, y, z>>[i - m]
  <2>1. <<x, y, z>> \in Seq(T) /\ Len(<<x, y, z>>) = 3
    OBVIOUS
  <2> QED
    BY <2>1, ConcatProperties
<1>3. /\ r \in Seq(T) /\ Len(r) = m + 3
      /\ \A i \in 1..(m + 3) :
            r[i] = IF i <= m THEN s[i] ELSE IF i = m + 1 THEN x
                   ELSE IF i = m + 2 THEN y ELSE z
  <2> DEFINE r1 == Append(s, x)
             r2 == Append(r1, y)
  <2>1. /\ r1 \in Seq(T) /\ Len(r1) = m + 1 /\ r1[m + 1] = x
        /\ \A i \in 1..m : r1[i] = s[i]
    BY AppendProperties, <1>1
  <2> HIDE DEF r1, m
  <2>2. /\ r2 \in Seq(T) /\ Len(r2) = m + 2 /\ r2[m + 2] = y
        /\ \A i \in 1..(m + 1) : r2[i] = r1[i]
    BY AppendProperties, <1>1, <2>1
  <2> HIDE DEF r2
  <2>3. /\ Append(r2, z) \in Seq(T) /\ Len(Append(r2, z)) = m + 3
        /\ Append(r2, z)[m + 3] = z
        /\ \A i \in 1..(m + 2) : Append(r2, z)[i] = r2[i]
    BY AppendProperties, <1>1, <2>2
  <2>4. \A i \in 1..(m + 3) :
            \/ i \in 1..m /\ i \in 1..(m + 1) /\ i \in 1..(m + 2)
            \/ i = m + 1 /\ i \in 1..(m + 1) /\ i \in 1..(m + 2)
            \/ i = m + 2 /\ i \in 1..(m + 2)
            \/ i = m + 3
    BY <1>1
  <2>5. ASSUME NEW i \in 1..(m + 3)
        PROVE  Append(r2, z)[i] =
                IF i <= m THEN s[i] ELSE IF i = m + 1 THEN x
                ELSE IF i = m + 2 THEN y ELSE z
    BY <1>1, <2>1, <2>2, <2>3, <2>4
  <2> QED
    BY <2>3, <2>5 DEF r1, r2
<1> HIDE DEF l, r, m
<1>4. ASSUME NEW i \in 1..(m + 3) PROVE l[i] = r[i]
  <2>1. CASE i <= m
    BY <1>2, <1>3, <2>1
  <2>2. CASE i = m + 1
    <3>1. ~(i <= m) /\ i - m = 1
      BY <1>1, <2>2
    <3>2. l[i] = x
      BY <1>2, <3>1
    <3>3. r[i] = x
      BY <1>3, <2>2, <3>1
    <3> QED
      BY <3>2, <3>3
  <2>3. CASE i = m + 2
    <3>1. ~(i <= m) /\ i # m + 1 /\ i - m = 2
      BY <1>1, <2>3
    <3>2. l[i] = y
      BY <1>2, <3>1
    <3>3. r[i] = y
      BY <1>3, <2>3, <3>1
    <3> QED
      BY <3>2, <3>3
  <2>4. CASE i = m + 3
    BY <1>1, <1>2, <1>3, <2>4
  <2> QED
    BY <1>1, <2>1, <2>2, <2>3, <2>4
<1>5. l = r
  BY <1>2, <1>3, <1>4, SeqEqual
<1> QED
  BY <1>5 DEF l, r

\* What is decoded for a byte that was encoded, where a plus stands for plus.
Sent(b, plus) == IF b = Space THEN plus ELSE b

\* What a byte was encoded to is decoded to the byte, but for a space, which is
\* what a plus stands for.
LEMMA DecodesByte ==
    ASSUME NEW s \in Seq(Byte), NEW text \in Seq(Byte), NEW b \in Byte,
           NEW plus \in Byte, Decoded(s, plus) = Plain(text)
    PROVE  Decoded(s \o EncodeByte(b), plus) = Plain(Append(text, Sent(b, plus)))
<1>1. CASE b \in Unreserved /\ EncodeByte(b) = <<b>>
  <2>1. s \o EncodeByte(b) = Append(s, b)
    BY <1>1, AppendIsConcat
  <2>2. b # Percent /\ b # Plus /\ Sent(b, plus) = b
    BY <1>1 DEF Unreserved, Digits, UpperCase, LowerCase, Plus, Percent, Space,
                Sent
  <2>3. Decoded(Append(s, b), plus) = DecodeByte(Plain(text), b, plus)
    BY DecodeIs
  <2> QED
    BY <2>1, <2>2, <2>3, DecodePlain
<1>2. CASE b = Space /\ EncodeByte(b) = <<Plus>>
  <2>1. Plus \in Byte /\ Plus # Percent
    BY DEF Plus, Percent, Byte
  <2>2. s \o EncodeByte(b) = Append(s, Plus)
    BY <1>2, <2>1, AppendIsConcat
  <2>3. Decoded(Append(s, Plus), plus) = DecodeByte(Plain(text), Plus, plus)
    BY <2>1, DecodeIs
  <2> QED
    BY <1>2, <2>1, <2>2, <2>3, DecodePlain DEF Sent
<1>3. ASSUME EncodeByte(b) = <<Percent, tohex(b \div 16), tohex(b % 16)>>,
             b # Space
      PROVE  Decoded(s \o EncodeByte(b), plus) = Plain(Append(text, b))
  <2> DEFINE x == tohex(b \div 16)
             y == tohex(b % 16)
  <2>1. x \in Byte /\ y \in Byte /\ (fromhex(x) * 16 + fromhex(y)) % 256 = b
    <3>1. /\ x \in Digits \cup UpperCase /\ y \in Digits \cup UpperCase
          /\ fromhex(x) = b \div 16 /\ fromhex(y) = b % 16
      BY Halves, HexDigit, SMTT(30)
    <3>2. Digits \cup UpperCase \subseteq Byte
      BY DEF Byte, Digits, UpperCase
    <3> HIDE DEF x, y
    <3> QED
      BY <3>1, <3>2, Halves
  <2>2. EncodeByte(b) = <<Percent, x, y>>
    BY <1>3
  <2>3. Percent \in Byte
    BY DEF Percent, Byte
  <2> HIDE DEF x, y
  <2> DEFINE s1 == Append(s, Percent)
             s2 == Append(s1, x)
             s3 == Append(s2, y)
  <2>4. s1 \in Seq(Byte) /\ s2 \in Seq(Byte) /\ s3 \in Seq(Byte)
    BY <2>1, <2>3, AppendProperties
  <2>5. s \o EncodeByte(b) = s3
    BY <2>1, <2>2, <2>3, ThreeBehind
  <2>6. /\ Decoded(s1, plus) = DecodeByte(Plain(text), Percent, plus)
        /\ Decoded(s2, plus) = DecodeByte(Decoded(s1, plus), x, plus)
        /\ Decoded(s3, plus) = DecodeByte(Decoded(s2, plus), y, plus)
    <3>1. \A t \in Seq(Byte), c \in Byte :
            Decoded(Append(t, c), plus) = DecodeByte(Decoded(t, plus), c, plus)
      BY DecodeIs
    <3> HIDE DEF s2, s3
    <3>2. Decoded(s1, plus) = DecodeByte(Plain(text), Percent, plus)
      BY <2>3, <3>1
    <3> HIDE DEF s1
    <3>3. Decoded(s2, plus) = DecodeByte(Decoded(s1, plus), x, plus)
      BY <2>1, <2>4, <3>1 DEF s2
    <3>4. Decoded(s3, plus) = DecodeByte(Decoded(s2, plus), y, plus)
      BY <2>1, <2>4, <3>1 DEF s3
    <3> QED
      BY <3>2, <3>3, <3>4
  <2> HIDE DEF s1, s2, s3
  <2> DEFINE e1 == <<Percent>>
             e2 == Append(e1, x)
  <2>7. Len(e1) = 1 /\ Len(e2) = 2 /\ e2[2] = x
    BY <2>1, <2>3
  <2> HIDE DEF e2
  <2>8. Decoded(s1, plus) = [text |-> text, escape |-> e1]
    BY <2>6, DecodePlain
  <2> HIDE DEF e1
  <2>9. Decoded(s2, plus) = [text |-> text, escape |-> e2]
    <3>1. DecodeByte([text |-> text, escape |-> e1], x, plus)
            = [text |-> text, escape |-> Append(e1, x)]
      BY <2>7, DecodeEscape
    <3> QED
      BY <2>6, <2>8, <3>1 DEF e2
  <2>10. Decoded(s3, plus) = Plain(Append(text, FromHexDigits(e2[2], y)))
    <3>1. DecodeByte([text |-> text, escape |-> e2], y, plus)
            = Plain(Append(text, FromHexDigits(e2[2], y)))
      BY <2>7, DecodeEscape
    <3> QED
      BY <2>6, <2>9, <3>1
  <2>11. Decoded(s3, plus) = Plain(Append(text, b))
    BY <2>1, <2>7, <2>10 DEF FromHexDigits
  <2> QED
    BY <2>5, <2>11
<1>4. b # Space => Sent(b, plus) = b
  BY DEF Sent
<1> QED
  BY <1>1, <1>2, <1>3, <1>4, EncodeCases

\* A text as it is decoded when it was encoded.
Respaced(s, plus) == [i \in DOMAIN s |-> Sent(s[i], plus)]

LEMMA RespacedIs ==
    ASSUME NEW s \in Seq(Byte), NEW plus \in Byte
    PROVE  /\ Respaced(<<>>, plus) = <<>>
           /\ Respaced(s, plus) \in Seq(Byte)
           /\ \A b \in Byte : Respaced(Append(s, b), plus)
                                = Append(Respaced(s, plus), Sent(b, plus))
<1>1. \A b \in Byte : Sent(b, plus) \in Byte
  BY DEF Sent
<1>2. ASSUME NEW t \in Seq(Byte)
      PROVE  /\ Respaced(t, plus) \in Seq(Byte)
             /\ Len(Respaced(t, plus)) = Len(t)
             /\ \A i \in 1..Len(t) : Respaced(t, plus)[i] = Sent(t[i], plus)
  <2>1. /\ Len(t) \in Nat /\ DOMAIN t = 1..Len(t)
        /\ \A i \in 1..Len(t) : t[i] \in Byte
    BY LenProperties, ElementOfSeq
  <2> DEFINE n == Len(t)
             r == [i \in 1..n |-> Sent(t[i], plus)]
  <2>2. r \in [1..n -> Byte] /\ n \in Nat
    BY <1>1, <2>1
  <2>3. Respaced(t, plus) = r
    BY <2>1 DEF Respaced
  <2>4. \A i \in 1..n : r[i] = Sent(t[i], plus)
    OBVIOUS
  <2> HIDE DEF r, n
  <2>5. r \in Seq(Byte) /\ Len(r) = n
    BY <2>2
  <2> QED
    BY <2>3, <2>4, <2>5 DEF n
<1>3. Respaced(<<>>, plus) = <<>>
  <2>1. DOMAIN <<>> = {}
    OBVIOUS
  <2> QED
    BY <2>1 DEF Respaced
<1>4. ASSUME NEW b \in Byte
      PROVE  Respaced(Append(s, b), plus)
                = Append(Respaced(s, plus), Sent(b, plus))
  <2> DEFINE n == Len(s)
             t == Append(s, b)
             r == Respaced(s, plus)
             l == Respaced(t, plus)
             a == Append(r, Sent(b, plus))
  <2>1. /\ n \in Nat /\ t \in Seq(Byte) /\ Len(t) = n + 1 /\ t[n + 1] = b
        /\ \A i \in 1..n : t[i] = s[i]
    BY LenProperties, AppendProperties
  <2>2. /\ r \in Seq(Byte) /\ Len(r) = n
        /\ \A i \in 1..n : r[i] = Sent(s[i], plus)
    BY <1>2
  <2> HIDE DEF n, t
  <2>3. /\ l \in Seq(Byte) /\ Len(l) = n + 1
        /\ \A i \in 1..(n + 1) : l[i] = Sent(t[i], plus)
    BY <1>2, <2>1
  <2> HIDE DEF r, l
  <2>4. /\ a \in Seq(Byte) /\ Len(a) = n + 1 /\ a[n + 1] = Sent(b, plus)
        /\ \A i \in 1..n : a[i] = r[i]
    BY <1>1, <2>2, AppendProperties
  <2> HIDE DEF a
  <2>5. \A i \in 1..(n + 1) : i \in 1..n \/ i = n + 1
    BY <2>1
  <2>6. \A i \in 1..(n + 1) : l[i] = a[i]
    BY <2>1, <2>2, <2>3, <2>4, <2>5
  <2>7. l = a
    BY <2>3, <2>4, <2>6, SeqEqual
  <2> QED
    BY <2>7 DEF l, a, r, t
<1> QED
  BY <1>2, <1>3, <1>4

\* What was encoded is decoded to the text with what a plus stands for in place
\* of its spaces.
LEMMA DecodesText ==
    ASSUME NEW s \in Seq(Byte), NEW plus \in Byte
    PROVE  Decoded(url_encode(s), plus) = Plain(Respaced(s, plus))
<1> DEFINE S == {t \in Seq(Byte) :
                    Decoded(url_encode(t), plus) = Plain(Respaced(t, plus))}
<1>1. <<>> \in S
  <2>1. <<>> \in Seq(Byte)
    BY EmptySeq
  <2> QED
    BY <2>1, EncodeIs, DecodeIs, RespacedIs
<1>2. ASSUME NEW t \in Seq(Byte), NEW b \in Byte, t \in S
      PROVE  Append(t, b) \in S
  <2>1. url_encode(Append(t, b)) = url_encode(t) \o EncodeByte(b)
    BY EncodeIs
  <2>2. url_encode(t) \in Seq(Byte) /\ Append(t, b) \in Seq(Byte)
    BY EncodeIs, AppendProperties
  <2>3. Respaced(t, plus) \in Seq(Byte)
    BY RespacedIs
  <2>4. Decoded(url_encode(t) \o EncodeByte(b), plus)
            = Plain(Append(Respaced(t, plus), Sent(b, plus)))
    BY <1>2, <2>2, <2>3, DecodesByte
  <2>5. Respaced(Append(t, b), plus) = Append(Respaced(t, plus), Sent(b, plus))
    BY RespacedIs
  <2> QED
    BY <2>1, <2>2, <2>4, <2>5
<1> HIDE DEF S
<1>3. Seqs!ClosedUnderAppend(S, Byte)
  BY <1>1, <1>2 DEF Seqs!ClosedUnderAppend
<1>4. s \in S
  BY <1>3, Seqs!SeqInduction
<1> QED
  BY <1>4 DEF S

\* What url_encode makes of a text, url_decode makes the text of, whatever
\* bytes it has; a server that knows only escapes makes it of it with a plus in
\* place of every space.
THEOREM TextRoundTrip ==
    ASSUME NEW s \in Seq(Byte)
    PROVE  /\ url_decode(url_encode(s)) = s
           /\ PercentDecoded(url_encode(s)) = SpaceAsPlus(s)
<1>1. Space \in Byte /\ Plus \in Byte
  BY DEF Space, Plus, Byte
<1>2. Respaced(s, Space) = s
  <2>1. s = [i \in DOMAIN s |-> s[i]]
    BY LenProperties
  <2>2. \A x : Sent(x, Space) = x
    BY DEF Sent
  <2> QED
    BY <2>1, <2>2 DEF Respaced
<1>3. Respaced(s, Plus) = SpaceAsPlus(s)
  BY DEF Respaced, Sent, SpaceAsPlus
<1>4. \A text : Plain(text).text = text
  BY DEF Plain
<1>5. /\ Decoded(url_encode(s), Space) = Plain(Respaced(s, Space))
      /\ Decoded(url_encode(s), Plus) = Plain(Respaced(s, Plus))
  BY <1>1, DecodesText
<1> QED
  BY <1>2, <1>3, <1>4, <1>5 DEF url_decode, PercentDecoded
-----------------------------------------------------------------------------
\* What is in two sequences is in one of them.
LEMMA WithoutConcat ==
    ASSUME NEW T, NEW s \in Seq(T), NEW t \in Seq(T), NEW B
    PROVE  Without(s \o t, B) <=> Without(s, B) /\ Without(t, B)
<1> DEFINE m == Len(s)
           n == Len(t)
           st == s \o t
<1>1. /\ m \in Nat /\ n \in Nat /\ st \in Seq(T) /\ Len(st) = m + n
      /\ \A i \in 1..(m + n) : st[i] = IF i <= m THEN s[i] ELSE t[i - m]
      /\ DOMAIN st = 1..(m + n) /\ DOMAIN s = 1..m /\ DOMAIN t = 1..n
  BY ConcatProperties, LenProperties
<1> HIDE DEF m, n, st
<1>2. ASSUME Without(st, B) PROVE Without(s, B) /\ Without(t, B)
  <2>1. ASSUME NEW i \in 1..m PROVE s[i] \notin B
    <3>1. i \in 1..(m + n) /\ i <= m
      BY <1>1
    <3> QED
      BY <1>1, <1>2, <3>1 DEF Without
  <2>2. ASSUME NEW i \in 1..n PROVE t[i] \notin B
    <3>1. i + m \in 1..(m + n) /\ ~(i + m <= m) /\ (i + m) - m = i
      BY <1>1
    <3> QED
      BY <1>1, <1>2, <3>1 DEF Without
  <2> QED
    BY <1>1, <2>1, <2>2 DEF Without
<1>3. ASSUME Without(s, B), Without(t, B) PROVE Without(st, B)
  <2>1. ASSUME NEW i \in 1..(m + n) PROVE st[i] \notin B
    <3>1. CASE i <= m
      <4>1. i \in 1..m
        BY <1>1, <3>1
      <4> QED
        BY <1>1, <1>3, <3>1, <4>1 DEF Without
    <3>2. CASE ~(i <= m)
      <4>1. i - m \in 1..n
        BY <1>1, <3>2
      <4> QED
        BY <1>1, <1>3, <3>2, <4>1 DEF Without
    <3> QED
      BY <3>1, <3>2
  <2> QED
    BY <1>1, <2>1 DEF Without
<1> QED
  BY <1>2, <1>3 DEF st

\* One element is not in a sequence that it is not.
LEMMA WithoutOne ==
    ASSUME NEW e, NEW B
    PROVE  /\ Without(<<>>, B)
           /\ Without(<<e>>, B) <=> e \notin B
<1>1. DOMAIN <<>> = {} /\ DOMAIN <<e>> = {1} /\ <<e>>[1] = e
  OBVIOUS
<1> QED
  BY <1>1 DEF Without

\* An element more.
LEMMA WithoutAppend ==
    ASSUME NEW T, NEW s \in Seq(T), NEW e \in T, NEW B
    PROVE  Without(Append(s, e), B) <=> Without(s, B) /\ e \notin B
<1>1. Append(s, e) = s \o <<e>> /\ <<e>> \in Seq(T)
  BY AppendIsConcat
<1>2. Without(s \o <<e>>, B) <=> Without(s, B) /\ Without(<<e>>, B)
  BY <1>1, WithoutConcat
<1> QED
  BY <1>1, <1>2, WithoutOne

\* Less is not there either.
LEMMA WithoutFewer ==
    ASSUME NEW s, NEW B, NEW C, Without(s, B), C \subseteq B
    PROVE  Without(s, C)
  BY DEF Without

\* An encoded text has nothing that divides a url or its query.
LEMMA EncodedWithout ==
    ASSUME NEW s \in Seq(Byte)
    PROVE  Without(url_encode(s), Separators)
<1> DEFINE S == {t \in Seq(Byte) : Without(url_encode(t), Separators)}
<1>1. <<>> \in S
  <2> DEFINE empty == <<>>
  <2>1. empty \in Seq(Byte) /\ url_encode(empty) = empty
    BY EmptySeq, EncodeIs
  <2>2. Without(empty, Separators)
    BY WithoutOne
  <2> HIDE DEF empty
  <2>3. empty \in S
    BY <2>1, <2>2
  <2> QED
    BY <2>3 DEF empty
<1>2. ASSUME NEW t \in Seq(Byte), NEW b \in Byte, t \in S
      PROVE  Append(t, b) \in S
  <2>1. url_encode(Append(t, b)) = url_encode(t) \o EncodeByte(b)
    BY EncodeIs
  <2>2. /\ url_encode(t) \in Seq(Byte) /\ EncodeByte(b) \in Seq(Byte)
        /\ Append(t, b) \in Seq(Byte)
    BY EncodeIs, EncodeByteType, AppendProperties
  <2>3. Without(EncodeByte(b), Separators)
    BY NoSeparatorEncoded DEF Without
  <2>4. Without(url_encode(t) \o EncodeByte(b), Separators)
    BY <1>2, <2>2, <2>3, WithoutConcat
  <2> QED
    BY <2>1, <2>2, <2>4
<1> HIDE DEF S
<1>3. Seqs!ClosedUnderAppend(S, Byte)
  BY <1>1, <1>2 DEF Seqs!ClosedUnderAppend
<1>4. s \in S
  BY <1>3, Seqs!SeqInduction
<1> QED
  BY <1>4 DEF S

-----------------------------------------------------------------------------
\* A text that has been split, and what of it is behind the last separator.
Parts(parts, last) == [parts |-> parts, last |-> last]

\* A text is split one byte after the other.
LEMMA SplitIs ==
    ASSUME NEW s \in Seq(Byte), NEW separator
    PROVE  /\ SplitUp(<<>>, separator) = Parts(<<>>, <<>>)
           /\ SplitUp(s, separator) \in Splitting
           /\ \A b \in Byte : SplitUp(Append(s, b), separator)
                                = SplitByte(SplitUp(s, separator), b, separator)
<1> DEFINE base == [parts |-> <<>>, last |-> <<>>]
           step == SplitStep(separator)
<1>1. step = [r \in Splitting |-> [b \in Byte |-> SplitByte(r, b, separator)]]
  BY DEF SplitStep
<1>2. base \in Splitting
  BY EmptySeq DEF Splitting
<1>3. ASSUME NEW r \in Splitting, NEW b \in Byte
      PROVE  SplitByte(r, b, separator) \in Splitting
  <2>1. r.parts \in Seq(Seq(Byte)) /\ r.last \in Seq(Byte)
    BY DEF Splitting
  <2>2. /\ Append(r.parts, r.last) \in Seq(Seq(Byte))
        /\ Append(r.last, b) \in Seq(Byte) /\ <<>> \in Seq(Byte)
    BY <2>1, AppendProperties, EmptySeq
  <2>3. CASE b = separator
    <3>1. SplitByte(r, b, separator)
            = [parts |-> Append(r.parts, r.last), last |-> <<>>]
      BY <2>3 DEF SplitByte
    <3> QED
      BY <2>2, <3>1 DEF Splitting
  <2>4. CASE b # separator
    <3>1. SplitByte(r, b, separator)
            = [parts |-> r.parts, last |-> Append(r.last, b)]
      BY <2>4 DEF SplitByte
    <3> QED
      BY <2>1, <2>2, <3>1 DEF Splitting
  <2> QED
    BY <2>3, <2>4
<1>4. IsStep(step, Splitting, Byte)
  <2> HIDE DEF step
  <2> QED
    BY <1>1, <1>3 DEF IsStep
<1>5. \A r \in Splitting, b \in Byte : step[r][b] = SplitByte(r, b, separator)
  <2> HIDE DEF step
  <2> QED
    BY <1>1
<1> HIDE DEF base, step
<1>6. /\ Fold(step, base, <<>>) = base
      /\ Fold(step, base, s) \in Splitting
      /\ \A b \in Byte : Fold(step, base, Append(s, b))
                            = step[Fold(step, base, s)][b]
  BY <1>2, <1>4, FoldIs
<1> QED
  BY <1>5, <1>6 DEF SplitUp, base, step, Parts

\* What is split so far has parts and a rest.
LEMMA SplitUpType ==
    ASSUME NEW s \in Seq(Byte), NEW separator
    PROVE  \E parts \in Seq(Seq(Byte)), last \in Seq(Byte) :
            SplitUp(s, separator) = Parts(parts, last)
<1>1. SplitUp(s, separator) \in Splitting
  BY SplitIs
<1> QED
  BY <1>1 DEF Splitting, Parts

\* Text without the separator extends the rest.
LEMMA SplitPlain ==
    ASSUME NEW z \in Seq(Byte), NEW t \in Seq(Byte), NEW separator,
           NEW parts \in Seq(Seq(Byte)), NEW last \in Seq(Byte),
           SplitUp(z, separator) = Parts(parts, last),
           Without(t, {separator})
    PROVE  SplitUp(z \o t, separator) = Parts(parts, last \o t)
<1> DEFINE Holds(u) == Without(u, {separator})
                        => SplitUp(z \o u, separator) = Parts(parts, last \o u)
           S == {u \in Seq(Byte) : Holds(u)}
<1>1. <<>> \in S
  <2>1. z \o <<>> = z /\ last \o <<>> = last
    BY ConcatEmptySeq
  <2> QED
    BY <2>1, EmptySeq
<1>2. ASSUME NEW u \in Seq(Byte), NEW b \in Byte, u \in S,
             Without(Append(u, b), {separator})
      PROVE  SplitUp(z \o Append(u, b), separator)
                = Parts(parts, last \o Append(u, b))
  <2>1. Without(u, {separator}) /\ b # separator
    BY <1>2, WithoutAppend
  <2>2. SplitUp(z \o u, separator) = Parts(parts, last \o u)
    BY <1>2, <2>1
  <2>3. z \o u \in Seq(Byte)
    BY ConcatProperties
  <2>4. /\ z \o Append(u, b) = Append(z \o u, b)
        /\ last \o Append(u, b) = Append(last \o u, b)
    BY Seqs!AppendToConcat
  <2> DEFINE zu == z \o u
             lu == last \o u
  <2> HIDE DEF zu, lu
  <2>5. SplitUp(Append(zu, b), separator)
          = SplitByte(SplitUp(zu, separator), b, separator)
    BY <2>3, SplitIs DEF zu
  <2>6. SplitByte(Parts(parts, lu), b, separator) = Parts(parts, Append(lu, b))
    BY <2>1 DEF SplitByte, Parts
  <2> QED
    BY <2>2, <2>4, <2>5, <2>6 DEF zu, lu
<1>3. \A u \in Seq(Byte), b \in Byte : u \in S => Append(u, b) \in S
  BY <1>2, AppendProperties
<1> HIDE DEF S
<1>4. Seqs!ClosedUnderAppend(S, Byte)
  BY <1>1, <1>3 DEF Seqs!ClosedUnderAppend
<1>5. t \in S
  BY <1>4, Seqs!SeqInduction
<1> QED
  BY <1>5 DEF S

\* The separator ends a part.
LEMMA SplitAt ==
    ASSUME NEW z \in Seq(Byte), NEW separator \in Byte,
           NEW parts, NEW last, SplitUp(z, separator) = Parts(parts, last)
    PROVE  SplitUp(Append(z, separator), separator)
             = Parts(Append(parts, last), <<>>)
<1>1. SplitUp(Append(z, separator), separator)
        = SplitByte(Parts(parts, last), separator, separator)
  BY SplitIs
<1> QED
  BY <1>1 DEF SplitByte, Parts

\* Texts are terminated one after the other.
LEMMA TerminatedIs ==
    ASSUME NEW ps \in Seq(Seq(Byte)), NEW separator \in Byte
    PROVE  /\ Terminated(<<>>, separator) = <<>>
           /\ Terminated(ps, separator) \in Seq(Byte)
           /\ \A p \in Seq(Byte) : Terminated(Append(ps, p), separator)
                = Terminated(ps, separator) \o Append(p, separator)
<1> DEFINE V == Seq(Byte)
           Then(t, p) == t \o Append(p, separator)
           base == <<>>
           step == TerminateStep(separator)
<1>1. \A t \in V, p \in V : Then(t, p) \in V
  BY ConcatProperties, AppendProperties
<1>2. step = [t \in V |-> [p \in V |-> Then(t, p)]]
  BY DEF TerminateStep
<1>3. base \in V
  BY EmptySeq
<1> HIDE DEF V, Then, step
<1>4. IsStep(step, V, V)
  BY <1>1, <1>2 DEF IsStep
<1>5. \A t \in V, p \in V : step[t][p] = Then(t, p)
  BY <1>2
<1> HIDE DEF base
<1>6. ps \in Seq(V)
  BY DEF V
<1>7. /\ Fold(step, base, <<>>) = base
      /\ Fold(step, base, ps) \in V
      /\ \A p \in V : Fold(step, base, Append(ps, p))
                            = step[Fold(step, base, ps)][p]
  BY <1>3, <1>4, <1>6, FoldIs
<1>8. /\ Terminated(<<>>, separator) = base
      /\ Terminated(ps, separator) \in V
      /\ \A p \in V : Terminated(Append(ps, p), separator)
                        = Then(Terminated(ps, separator), p)
  BY <1>5, <1>7 DEF Terminated, base, step
<1> QED
  BY <1>8 DEF base, V, Then

\* None of the texts has one of the bytes.
AllWithout(ps, B) == \A i \in 1..Len(ps) : Without(ps[i], B)

\* One text more.
LEMMA AllWithoutAppend ==
    ASSUME NEW T, NEW ps \in Seq(T), NEW p \in T, NEW B
    PROVE  AllWithout(Append(ps, p), B) <=> AllWithout(ps, B) /\ Without(p, B)
<1> DEFINE m == Len(ps)
           q == Append(ps, p)
<1>1. /\ m \in Nat /\ Len(q) = m + 1 /\ q[m + 1] = p
      /\ \A i \in 1..m : q[i] = ps[i]
  BY AppendProperties, LenProperties
<1> HIDE DEF m, q
<1>2. \A i \in 1..(m + 1) : i \in 1..m \/ i = m + 1
  BY <1>1
<1>3. m + 1 \in 1..(m + 1) /\ \A i \in 1..m : i \in 1..(m + 1)
  BY <1>1
<1> QED
  BY <1>1, <1>2, <1>3 DEF AllWithout, q, m

\* Of texts that are terminated each is a part.
LEMMA SplitTerminated ==
    ASSUME NEW z \in Seq(Byte), NEW separator \in Byte,
           NEW parts \in Seq(Seq(Byte)), NEW ps \in Seq(Seq(Byte)),
           SplitUp(z, separator) = Parts(parts, <<>>),
           AllWithout(ps, {separator})
    PROVE  SplitUp(z \o Terminated(ps, separator), separator)
             = Parts(parts \o ps, <<>>)
<1> DEFINE Holds(qs) ==
               AllWithout(qs, {separator}) =>
                    SplitUp(z \o Terminated(qs, separator), separator)
                        = Parts(parts \o qs, <<>>)
           S == {qs \in Seq(Seq(Byte)) : Holds(qs)}
<1>1. <<>> \in S
  <2> DEFINE empty == <<>>
  <2>1. /\ z \o empty = z /\ parts \o empty = parts
        /\ Terminated(empty, separator) = empty
        /\ empty \in Seq(Seq(Byte))
    BY ConcatEmptySeq, EmptySeq, TerminatedIs
  <2>2. SplitUp(z, separator) = Parts(parts, empty)
    OBVIOUS
  <2> HIDE DEF empty
  <2>3. SplitUp(z \o Terminated(empty, separator), separator)
          = Parts(parts \o empty, empty)
    BY <2>1, <2>2
  <2> QED
    BY <2>1, <2>3 DEF empty
<1>2. ASSUME NEW qs \in Seq(Seq(Byte)), NEW q \in Seq(Byte), Holds(qs),
             AllWithout(Append(qs, q), {separator})
      PROVE  SplitUp(z \o Terminated(Append(qs, q), separator), separator)
                = Parts(parts \o Append(qs, q), <<>>)
  <2> DEFINE t == Terminated(qs, separator)
             done == parts \o qs
             zt == z \o t
             ztq == zt \o q
  <2>1. AllWithout(qs, {separator}) /\ Without(q, {separator})
    BY <1>2, AllWithoutAppend
  <2>2. /\ t \in Seq(Byte) /\ zt \in Seq(Byte) /\ ztq \in Seq(Byte)
        /\ done \in Seq(Seq(Byte)) /\ <<>> \in Seq(Byte) /\ <<>> \o q = q
    BY TerminatedIs, ConcatProperties, EmptySeq, ConcatEmptySeq
  <2>3. Terminated(Append(qs, q), separator) = t \o Append(q, separator)
    BY TerminatedIs
  <2>4. SplitUp(zt, separator) = Parts(done, <<>>)
    BY <1>2, <2>1
  <2>5. parts \o Append(qs, q) = Append(done, q)
    BY Seqs!AppendToConcat
  <2>6. z \o (t \o Append(q, separator)) = Append(ztq, separator)
    <3> HIDE DEF t
    <3> DEFINE last == Append(q, separator)
    <3>1. last \in Seq(Byte)
      BY AppendProperties
    <3> HIDE DEF last
    <3>2. z \o (t \o last) = zt \o last
      <4>1. z \in Seq(Byte) /\ t \in Seq(Byte) /\ last \in Seq(Byte)
        BY <2>2, <3>1
      <4>2. (z \o t) \o last = z \o (t \o last)
        BY <4>1, ConcatAssociative, SMTT(30)
      <4> QED
        BY <4>2
    <3> HIDE DEF zt
    <3>3. zt \o Append(q, separator) = Append(zt \o q, separator)
      <4>1. zt \in Seq(Byte) /\ q \in Seq(Byte) /\ separator \in Byte
        BY <2>2
      <4> QED
        BY <4>1, Seqs!AppendToConcat
    <3> QED
      BY <3>2, <3>3 DEF last
  <2> HIDE DEF t, done, zt
  <2>7. SplitUp(zt \o q, separator) = Parts(done, <<>> \o q)
    <3> DEFINE empty == <<>>
    <3>1. empty \in Seq(Byte) /\ SplitUp(zt, separator) = Parts(done, empty)
      BY <2>2, <2>4
    <3> HIDE DEF empty
    <3>2. SplitUp(zt \o q, separator) = Parts(done, empty \o q)
      BY <2>1, <2>2, <3>1, SplitPlain
    <3> QED
      BY <3>2 DEF empty
  <2>8. SplitUp(ztq, separator) = Parts(done, q)
    BY <2>2, <2>7
  <2> HIDE DEF ztq
  <2>9. SplitUp(Append(ztq, separator), separator) = Parts(Append(done, q), <<>>)
    BY <2>2, <2>8, SplitAt
  <2> QED
    BY <2>3, <2>5, <2>6, <2>9
<1> HIDE DEF Holds
<1>3. \A qs \in Seq(Seq(Byte)), q \in Seq(Byte) :
        qs \in S => Append(qs, q) \in S
  BY <1>2, AppendProperties DEF Holds
<1> HIDE DEF S
<1>4. Seqs!ClosedUnderAppend(S, Seq(Byte))
  BY <1>1, <1>3 DEF Seqs!ClosedUnderAppend
<1>5. ps \in S
  BY <1>4, Seqs!SeqInduction
<1> QED
  BY <1>5 DEF S, Holds

-----------------------------------------------------------------------------
\* Each of the texts, encoded.
EncodedEach(ps) == [i \in DOMAIN ps |-> url_encode(ps[i])]

\* Encoding each keeps how many they are.
LEMMA EncodedEachType ==
    ASSUME NEW ps \in Seq(Seq(Byte))
    PROVE  /\ EncodedEach(ps) \in Seq(Seq(Byte))
           /\ Len(EncodedEach(ps)) = Len(ps)
           /\ \A i \in 1..Len(ps) : EncodedEach(ps)[i] = url_encode(ps[i])
           /\ AllWithout(EncodedEach(ps), Separators)
<1>1. /\ Len(ps) \in Nat /\ DOMAIN ps = 1..Len(ps)
      /\ \A i \in 1..Len(ps) : ps[i] \in Seq(Byte)
  BY LenProperties, ElementOfSeq
<1>2. \A i \in 1..Len(ps) : /\ url_encode(ps[i]) \in Seq(Byte)
                            /\ Without(url_encode(ps[i]), Separators)
  BY <1>1, EncodeIs, EncodedWithout
<1> DEFINE l == EncodedEach(ps)
<1>3. l \in [1..Len(ps) -> Seq(Byte)]
  BY <1>1, <1>2 DEF EncodedEach
<1>4. \A i \in 1..Len(ps) : l[i] = url_encode(ps[i])
  BY <1>1 DEF EncodedEach
<1> HIDE DEF l
<1>5. l \in Seq(Seq(Byte)) /\ Len(l) = Len(ps)
  BY <1>1, <1>3
<1> QED
  BY <1>2, <1>4, <1>5 DEF AllWithout, l

\* One text more.
LEMMA EncodedEachAppend ==
    ASSUME NEW ps \in Seq(Seq(Byte)), NEW p \in Seq(Byte)
    PROVE  EncodedEach(Append(ps, p)) = Append(EncodedEach(ps), url_encode(p))
<1> DEFINE q == Append(ps, p)
           l == EncodedEach(q)
           e == EncodedEach(ps)
           r == Append(e, url_encode(p))
           m == Len(ps)
<1>1. /\ m \in Nat /\ q \in Seq(Seq(Byte)) /\ Len(q) = m + 1 /\ q[m + 1] = p
      /\ \A i \in 1..m : q[i] = ps[i]
  BY AppendProperties, LenProperties
<1> HIDE DEF q
<1>2. /\ l \in Seq(Seq(Byte)) /\ Len(l) = m + 1
      /\ \A i \in 1..(m + 1) : l[i] = url_encode(q[i])
  BY <1>1, EncodedEachType
<1>3. /\ e \in Seq(Seq(Byte)) /\ Len(e) = m
      /\ \A i \in 1..m : e[i] = url_encode(ps[i])
      /\ url_encode(p) \in Seq(Byte)
  BY EncodedEachType, EncodeIs
<1> HIDE DEF l, e, m
<1>4. /\ r \in Seq(Seq(Byte)) /\ Len(r) = m + 1 /\ r[m + 1] = url_encode(p)
      /\ \A i \in 1..m : r[i] = e[i]
  BY <1>3, AppendProperties
<1> HIDE DEF r
<1>5. ASSUME NEW i \in 1..(m + 1) PROVE l[i] = r[i]
  <2>1. CASE i \in 1..m
    BY <1>1, <1>2, <1>3, <1>4, <2>1
  <2>2. CASE i = m + 1
    BY <1>1, <1>2, <1>4, <2>2
  <2> QED
    BY <1>1, <2>1, <2>2
<1>6. l = r
  BY <1>2, <1>4, <1>5, SeqEqual
<1> QED
  BY <1>6 DEF l, r, e, q

\* Decoding each, as a server does in a path, gives the texts back, with a plus
\* for every space.
LEMMA DecodedEach ==
    ASSUME NEW ps \in Seq(Seq(Byte))
    PROVE  [i \in DOMAIN EncodedEach(ps) |-> PercentDecoded(EncodedEach(ps)[i])]
            = [i \in DOMAIN ps |-> SpaceAsPlus(ps[i])]
<1> DEFINE e == EncodedEach(ps)
           l == [i \in DOMAIN e |-> PercentDecoded(e[i])]
<1>1. /\ DOMAIN ps = 1..Len(ps)
      /\ \A i \in 1..Len(ps) : ps[i] \in Seq(Byte)
  BY LenProperties, ElementOfSeq
<1>2. /\ \A i \in 1..Len(ps) : e[i] = url_encode(ps[i])
      /\ DOMAIN e = 1..Len(ps)
  BY EncodedEachType, LenProperties
<1> HIDE DEF e
<1>3. \A i \in 1..Len(ps) : PercentDecoded(e[i]) = SpaceAsPlus(ps[i])
  BY <1>1, <1>2, TextRoundTrip
<1>4. l = [i \in DOMAIN ps |-> SpaceAsPlus(ps[i])]
  BY <1>1, <1>2, <1>3
<1> QED
  BY <1>4 DEF e
-----------------------------------------------------------------------------
\* A path with its segments encoded: what encoded_path has before the slashes
\* at its ends are trimmed.
PathEncoded(s) ==
    Terminated(EncodedEach(SplitUp(s, Slash).parts), Slash)
        \o url_encode(SplitUp(s, Slash).last)

\* In particular, for what is split so far.
LEMMA PathEncodedOf ==
    ASSUME NEW s \in Seq(Byte), NEW parts \in Seq(Seq(Byte)),
           NEW last \in Seq(Byte), SplitUp(s, Slash) = Parts(parts, last)
    PROVE  /\ PathEncoded(s)
                = Terminated(EncodedEach(parts), Slash) \o url_encode(last)
           /\ PathEncoded(s) \in Seq(Byte)
           /\ Terminated(EncodedEach(parts), Slash) \in Seq(Byte)
           /\ url_encode(last) \in Seq(Byte)
<1>1. Slash \in Byte
  BY DEF Slash, Byte
<1>2. /\ Terminated(EncodedEach(parts), Slash) \in Seq(Byte)
      /\ url_encode(last) \in Seq(Byte)
  BY <1>1, EncodedEachType, TerminatedIs, EncodeIs
<1>3. PathEncoded(s) = Terminated(EncodedEach(parts), Slash) \o url_encode(last)
  BY DEF PathEncoded, Parts
<1> QED
  BY <1>2, <1>3, ConcatProperties

\* It is made byte by byte: slashes stay, the others are encoded.
LEMMA PathEncodedIs ==
    ASSUME NEW s \in Seq(Byte)
    PROVE  /\ PathEncoded(<<>>) = <<>> /\ PathEncoded(s) \in Seq(Byte)
           /\ \A b \in Byte : PathEncoded(Append(s, b)) =
                PathEncoded(s) \o (IF b = Slash THEN <<Slash>> ELSE EncodeByte(b))
<1>1. Slash \in Byte
  BY DEF Slash, Byte
<1>2. PathEncoded(<<>>) = <<>>
  <2> DEFINE none == <<>>
  <2>1. /\ none \in Seq(Byte) /\ none \in Seq(Seq(Byte))
        /\ SplitUp(none, Slash) = Parts(none, none)
        /\ url_encode(none) = none
        /\ Terminated(none, Slash) = none
    BY <1>1, EmptySeq, SplitIs, EncodeIs, TerminatedIs
  <2>2. EncodedEach(none) = none
    <3>1. EncodedEach(none) \in Seq(Seq(Byte)) /\ Len(EncodedEach(none)) = 0
      BY EncodedEachType, EmptySeq
    <3> QED
      BY <3>1, EmptySeq
  <2>3. none \o none = none
    BY <2>1, ConcatEmptySeq
  <2> HIDE DEF none
  <2>4. PathEncoded(none) = none
    BY <2>1, <2>2, <2>3, PathEncodedOf
  <2> QED
    BY <2>4 DEF none
<1>3. PICK parts \in Seq(Seq(Byte)), last \in Seq(Byte) :
        SplitUp(s, Slash) = Parts(parts, last)
  BY SplitUpType
<1> DEFINE done == Terminated(EncodedEach(parts), Slash)
           rest == url_encode(last)
<1>4. /\ PathEncoded(s) = done \o rest /\ PathEncoded(s) \in Seq(Byte)
      /\ done \in Seq(Byte) /\ rest \in Seq(Byte)
  BY <1>3, PathEncodedOf
<1>5. PathEncoded(Append(s, Slash)) = PathEncoded(s) \o <<Slash>>
  <2> DEFINE next == Append(s, Slash)
             empty == <<>>
             more == Append(parts, last)
  <2>1. /\ next \in Seq(Byte) /\ more \in Seq(Seq(Byte)) /\ empty \in Seq(Byte)
        /\ url_encode(empty) = empty
    BY <1>1, AppendProperties, EmptySeq, EncodeIs
  <2>2. SplitUp(next, Slash) = Parts(more, empty)
    BY <1>1, <1>3, SplitAt
  <2>3. EncodedEach(more) = Append(EncodedEach(parts), rest)
    BY EncodedEachAppend
  <2>4. Terminated(Append(EncodedEach(parts), rest), Slash)
          = done \o Append(rest, Slash)
    BY <1>1, <1>4, EncodedEachType, TerminatedIs
  <2> HIDE DEF next, more, done, rest
  <2>5. PathEncoded(next) = Terminated(EncodedEach(more), Slash) \o empty
    <3> HIDE DEF empty
    <3>1. PathEncoded(next)
            = Terminated(EncodedEach(more), Slash) \o url_encode(empty)
      BY <2>1, <2>2, PathEncodedOf
    <3> QED
      BY <2>1, <3>1
  <2>6. done \o Append(rest, Slash) = Append(done \o rest, Slash)
    BY <1>1, <1>4, Seqs!AppendToConcat
  <2>7. /\ Append(done \o rest, Slash) = (done \o rest) \o <<Slash>>
        /\ Append(done \o rest, Slash) \o empty = Append(done \o rest, Slash)
    <3> DEFINE all == done \o rest
    <3>1. all \in Seq(Byte)
      BY <1>4
    <3> HIDE DEF all, empty
    <3>2. Append(all, Slash) = all \o <<Slash>>
      BY <1>1, <3>1, AppendIsConcat
    <3>3. Append(all, Slash) \o empty = Append(all, Slash)
      BY <1>1, <3>1, AppendProperties, ConcatEmptySeq DEF empty
    <3> QED
      BY <3>2, <3>3 DEF all
  <2> HIDE DEF empty
  <2>8. PathEncoded(next) = (done \o rest) \o <<Slash>>
    BY <2>3, <2>4, <2>5, <2>6, <2>7
  <2> QED
    BY <1>4, <2>8 DEF next
<1>6. ASSUME NEW b \in Byte, b # Slash
      PROVE  PathEncoded(Append(s, b)) = PathEncoded(s) \o EncodeByte(b)
  <2> DEFINE next == Append(s, b)
             more == Append(last, b)
  <2>1. next \in Seq(Byte) /\ more \in Seq(Byte) /\ EncodeByte(b) \in Seq(Byte)
    BY AppendProperties, EncodeByteType
  <2>2. SplitUp(next, Slash) = Parts(parts, more)
    <3>1. SplitUp(next, Slash) = SplitByte(Parts(parts, last), b, Slash)
      BY <1>3, SplitIs
    <3> QED
      BY <1>6, <3>1 DEF SplitByte, Parts
  <2>3. url_encode(more) = rest \o EncodeByte(b)
    BY EncodeIs
  <2> HIDE DEF next, more
  <2> DEFINE e == EncodeByte(b)
  <2>4. PathEncoded(next) = done \o (rest \o e)
    <3>1. PathEncoded(next) = done \o url_encode(more)
      BY <2>1, <2>2, PathEncodedOf
    <3> QED
      BY <2>3, <3>1
  <2>5. e \in Seq(Byte) /\ done \in Seq(Byte) /\ rest \in Seq(Byte)
    BY <1>4, <2>1
  <2> HIDE DEF done, rest, e
  <2>6. done \o (rest \o e) = (done \o rest) \o e
    BY <2>5, ConcatAssociative, SMTT(30)
  <2> QED
    BY <1>4, <2>4, <2>6 DEF next, e
<1> QED
  BY <1>2, <1>4, <1>5, <1>6

\* What one path after the other is encoded to.
LEMMA PathEncodedConcat ==
    ASSUME NEW s \in Seq(Byte), NEW t \in Seq(Byte)
    PROVE  PathEncoded(s \o t) = PathEncoded(s) \o PathEncoded(t)
<1> DEFINE Holds(u) == PathEncoded(s \o u) = PathEncoded(s) \o PathEncoded(u)
           S == {u \in Seq(Byte) : Holds(u)}
<1>1. <<>> \in S
  <2> DEFINE empty == <<>>
  <2>1. /\ empty \in Seq(Byte) /\ PathEncoded(empty) = empty
        /\ s \o empty = s /\ PathEncoded(s) \o empty = PathEncoded(s)
    BY EmptySeq, ConcatEmptySeq, PathEncodedIs
  <2> HIDE DEF empty
  <2>2. Holds(empty)
    BY <2>1
  <2> QED
    BY <2>1, <2>2 DEF empty
<1>2. ASSUME NEW u \in Seq(Byte), NEW b \in Byte, Holds(u)
      PROVE  Holds(Append(u, b))
  <2> DEFINE e == IF b = Slash THEN <<Slash>> ELSE EncodeByte(b)
             su == s \o u
             ps == PathEncoded(s)
             pu == PathEncoded(u)
  <2>1. e \in Seq(Byte)
    <3>1. EncodeByte(b) \in Seq(Byte) /\ <<b>> \in Seq(Byte)
      BY EncodeByteType
    <3> QED
      BY <3>1
  <2>2. su \in Seq(Byte) /\ s \o Append(u, b) = Append(su, b)
    BY ConcatProperties, Seqs!AppendToConcat
  <2>3. ps \in Seq(Byte) /\ pu \in Seq(Byte) /\ PathEncoded(su) = ps \o pu
    BY <1>2, PathEncodedIs
  <2>4. PathEncoded(Append(u, b)) = pu \o e
    BY PathEncodedIs
  <2> HIDE DEF su
  <2>5. PathEncoded(Append(su, b)) = PathEncoded(su) \o e
    BY <2>2, PathEncodedIs
  <2> HIDE DEF e, ps, pu
  <2>6. (ps \o pu) \o e = ps \o (pu \o e)
    BY <2>1, <2>3, ConcatAssociative, SMTT(30)
  <2>7. PathEncoded(s \o Append(u, b)) = ps \o PathEncoded(Append(u, b))
    BY <2>2, <2>3, <2>4, <2>5, <2>6
  <2> QED
    BY <2>7 DEF ps
<1> HIDE DEF Holds
<1>3. \A u \in Seq(Byte), b \in Byte : u \in S => Append(u, b) \in S
  BY <1>2, AppendProperties
<1> HIDE DEF S
<1>4. Seqs!ClosedUnderAppend(S, Byte)
  BY <1>1, <1>3 DEF Seqs!ClosedUnderAppend
<1>5. t \in S
  BY <1>4, Seqs!SeqInduction
<1> QED
  BY <1>5 DEF S, Holds

\* A least element of such numbers is one of them.
LEMMA MinIs ==
    ASSUME NEW n \in Nat, NEW S, S \subseteq 1..n, S # {}
    PROVE  Min(S) \in S /\ \A i \in S : Min(S) <= i
  BY Seqs!MinOf DEF Min, Seqs!Min

\* And so is a greatest one.
LEMMA MaxIs ==
    ASSUME NEW n \in Nat, NEW S, S \subseteq 1..n, S # {}
    PROVE  Max(S) \in S /\ \A i \in S : Max(S) >= i
  BY Seqs!MaxOf DEF Max, Seqs!Max
-----------------------------------------------------------------------------
\* What is in three sequences, one behind the other.
LEMMA ThreeParts ==
    ASSUME NEW T, NEW a \in Seq(T), NEW m \in Seq(T), NEW c \in Seq(T)
    PROVE  LET s == (a \o m) \o c IN
           /\ s \in Seq(T) /\ Len(s) = Len(a) + Len(m) + Len(c)
           /\ Len(a) \in Nat /\ Len(m) \in Nat /\ Len(c) \in Nat
           /\ \A i \in 1..Len(a) : s[i] = a[i]
           /\ \A i \in 1..Len(m) : s[Len(a) + i] = m[i]
           /\ \A i \in 1..Len(c) : s[Len(a) + Len(m) + i] = c[i]
<1> DEFINE am == a \o m
           s == am \o c
           x == Len(a)
           y == Len(m)
           z == Len(c)
<1>1. x \in Nat /\ y \in Nat /\ z \in Nat
  BY LenProperties
<1>2. /\ am \in Seq(T) /\ Len(am) = x + y
      /\ \A i \in 1..(x + y) : am[i] = IF i <= x THEN a[i] ELSE m[i - x]
  BY ConcatProperties
<1> HIDE DEF am, x, y
<1>3. /\ s \in Seq(T) /\ Len(s) = x + y + z
      /\ \A i \in 1..(x + y + z) :
            s[i] = IF i <= x + y THEN am[i] ELSE c[i - (x + y)]
  <2>1. am \in Seq(T)
    BY <1>2
  <2>2. /\ s \in Seq(T) /\ Len(s) = Len(am) + z
        /\ \A i \in 1..(Len(am) + z) :
            s[i] = IF i <= Len(am) THEN am[i] ELSE c[i - Len(am)]
    BY <2>1, ConcatProperties
  <2> HIDE DEF s, z
  <2> QED
    BY <1>2, <2>2
<1> HIDE DEF s, z
<1>4. ASSUME NEW i \in 1..x PROVE s[i] = a[i]
  <2>1. i \in 1..(x + y) /\ i \in 1..(x + y + z) /\ i <= x + y /\ i <= x
    BY <1>1
  <2> QED
    BY <1>2, <1>3, <2>1
<1>5. ASSUME NEW i \in 1..y PROVE s[x + i] = m[i]
  <2>1. /\ x + i \in 1..(x + y) /\ x + i \in 1..(x + y + z) /\ x + i <= x + y
        /\ ~(x + i <= x) /\ (x + i) - x = i
    BY <1>1
  <2> QED
    BY <1>2, <1>3, <2>1
<1>6. ASSUME NEW i \in 1..z PROVE s[x + y + i] = c[i]
  <2>1. /\ x + y + i \in 1..(x + y + z) /\ ~(x + y + i <= x + y)
        /\ (x + y + i) - (x + y) = i
    BY <1>1
  <2> QED
    BY <1>3, <2>1
<1> QED
  BY <1>1, <1>3, <1>4, <1>5, <1>6 DEF s, x, y, z, am

\* A text that trimming leaves nothing of.
OnlySlashes(s) == \A i \in 1..Len(s) : s[i] = Slash

\* A text that trimming leaves as it is.
Trimmed(s) == s # <<>> => s[1] # Slash /\ s[Len(s)] # Slash

\* What trimming keeps is what is between the slashes at the ends.
LEMMA TrimMiddle ==
    ASSUME NEW a \in Seq(Byte), NEW m \in Seq(Byte), NEW c \in Seq(Byte),
           OnlySlashes(a), OnlySlashes(c), Trimmed(m)
    PROVE  TrimSlashes((a \o m) \o c) = m
<1> DEFINE s == (a \o m) \o c
           x == Len(a)
           y == Len(m)
           z == Len(c)
           kept == {i \in 1..Len(s) : s[i] # Slash}
<1>1. /\ s \in Seq(Byte) /\ Len(s) = x + y + z
      /\ x \in Nat /\ y \in Nat /\ z \in Nat
      /\ \A i \in 1..x : s[i] = a[i]
      /\ \A i \in 1..y : s[x + i] = m[i]
      /\ \A i \in 1..z : s[x + y + i] = c[i]
  BY ThreeParts
<1>2. DOMAIN s = 1..Len(s)
  BY <1>1
<1>3. TrimSlashes(s) = IF kept = {} THEN <<>> ELSE SubSeq(s, Min(kept), Max(kept))
  <2> HIDE DEF s
  <2> QED
    BY <1>2 DEF TrimSlashes
<1> HIDE DEF s, x, y, z
<1>4. \A i \in kept : i \in (x + 1)..(x + y)
  <2> SUFFICES ASSUME NEW i \in kept PROVE i \in (x + 1)..(x + y)
    OBVIOUS
  <2>1. i \in 1..(x + y + z) /\ s[i] # Slash
    BY <1>1
  <2>2. ~(i \in 1..x)
    BY <1>1, <2>1 DEF OnlySlashes, x
  <2>3. ~(i > x + y)
    <3>1. SUFFICES ASSUME i > x + y PROVE FALSE
      OBVIOUS
    <3>2. i - (x + y) \in 1..z /\ x + y + (i - (x + y)) = i
      BY <1>1, <2>1, <3>1
    <3>3. s[i] = c[i - (x + y)] /\ c[i - (x + y)] = Slash
      BY <1>1, <3>2 DEF OnlySlashes, z
    <3> QED
      BY <2>1, <3>3
  <2> QED
    BY <1>1, <2>1, <2>2, <2>3
<1>5. CASE m = <<>>
  <2>1. y = 0
    BY <1>5, EmptySeq DEF y
  <2>2. kept = {}
    BY <1>1, <1>4, <2>1
  <2> QED
    BY <1>3, <1>5, <2>2 DEF s
<1>6. CASE m # <<>>
  <2>1. y # 0
    BY <1>6, EmptySeq DEF y
  <2>2. x + 1 \in kept /\ x + y \in kept
    <3>1. 1 \in 1..y /\ y \in 1..y /\ x + 1 \in 1..Len(s) /\ x + y \in 1..Len(s)
      BY <1>1, <2>1
    <3>2. m[1] # Slash /\ m[y] # Slash
      BY <1>6 DEF Trimmed, y
    <3> QED
      BY <1>1, <3>1, <3>2
  <2> HIDE DEF kept
  <2>3. /\ Min(kept) \in kept /\ \A i \in kept : Min(kept) <= i
        /\ Max(kept) \in kept /\ \A i \in kept : Max(kept) >= i
    <3> DEFINE all == Len(s)
    <3>1. kept \subseteq 1..all
      BY DEF kept
    <3>2. kept # {}
      BY <2>2
    <3>3. all \in Nat
      BY <1>1
    <3> HIDE DEF all
    <3> QED
      BY <3>1, <3>2, <3>3, MinIs, MaxIs
  <2>4. Min(kept) = x + 1 /\ Max(kept) = x + y
    <3> DEFINE lo == Min(kept)
               hi == Max(kept)
    <3>1. lo \in (x + 1)..(x + y) /\ hi \in (x + 1)..(x + y)
      BY <1>4, <2>3
    <3>2. lo <= x + 1 /\ hi >= x + y
      BY <2>2, <2>3
    <3>3. x \in Nat /\ y \in Nat
      BY <1>1
    <3> HIDE DEF lo, hi
    <3>4. lo = x + 1 /\ hi = x + y
      BY <3>1, <3>2, <3>3
    <3> QED
      BY <3>4 DEF lo, hi
  <2> DEFINE p == SubSeq(s, x + 1, x + y)
             first == x + 1
             last == x + y
  <2>5. p = m
    <3>1. first \in Nat \ {0} /\ last \in 0..Len(s) /\ first <= last
          /\ last - first + 1 = y
      BY <1>1, <2>1
    <3> HIDE DEF first, last
    <3>2. /\ SubSeq(s, first, last) \in Seq(Byte)
          /\ Len(SubSeq(s, first, last)) = last - first + 1
          /\ \A i \in 1..(last - first + 1) :
                SubSeq(s, first, last)[i] = s[first + i - 1]
      BY <1>1, <3>1, Seqs!PartType
    <3>3. p \in Seq(Byte) /\ Len(p) = y /\ \A i \in 1..y : p[i] = s[first + i - 1]
      BY <3>1, <3>2 DEF first, last
    <3>4. \A i \in 1..y : first + i - 1 = x + i
      BY <1>1 DEF first
    <3> HIDE DEF p
    <3>5. \A i \in 1..y : p[i] = m[i]
      BY <1>1, <3>3, <3>4
    <3> QED
      BY <3>3, <3>5, SeqEqual DEF y
  <2>6. kept # {}
    BY <2>2
  <2> QED
    BY <1>3, <2>4, <2>5, <2>6 DEF s
<1> QED
  BY <1>5, <1>6

\* A text is what trimming keeps, with slashes before and behind.
LEMMA TrimSplits ==
    ASSUME NEW s \in Seq(Byte)
    PROVE  /\ TrimSlashes(s) \in Seq(Byte) /\ Trimmed(TrimSlashes(s))
           /\ \E a, c \in Seq(Byte) :
                /\ OnlySlashes(a) /\ OnlySlashes(c)
                /\ s = (a \o TrimSlashes(s)) \o c
<1> DEFINE kept == {i \in 1..Len(s) : s[i] # Slash}
           L == Len(s)
<1>1. L \in Nat /\ DOMAIN s = 1..L
  BY LenProperties
<1>2. TrimSlashes(s) = IF kept = {} THEN <<>> ELSE SubSeq(s, Min(kept), Max(kept))
  BY <1>1 DEF TrimSlashes
<1>3. CASE kept = {}
  <2>1. TrimSlashes(s) = <<>> /\ <<>> \in Seq(Byte) /\ Len(<<>>) = 0
    BY <1>2, <1>3, EmptySeq
  <2>2. OnlySlashes(s) /\ OnlySlashes(<<>>)
    BY <1>3, <2>1 DEF OnlySlashes
  <2>3. s = (s \o <<>>) \o <<>>
    BY ConcatEmptySeq
  <2> QED
    BY <2>1, <2>2, <2>3 DEF Trimmed
<1>4. CASE kept # {}
  <2> DEFINE lo == Min(kept)
             hi == Max(kept)
             m == SubSeq(s, lo, hi)
             a == SubSeq(s, 1, lo - 1)
             c == SubSeq(s, hi + 1, L)
  <2>1. /\ lo \in kept /\ hi \in kept
        /\ \A i \in kept : lo <= i /\ hi >= i
    <3>1. kept \subseteq 1..L
      OBVIOUS
    <3> HIDE DEF kept, L
    <3> QED
      BY <1>1, <1>4, <3>1, MinIs, MaxIs
  <2>2. TrimSlashes(s) = m
    BY <1>2, <1>4
  <2> HIDE DEF lo, hi
  <2>3. /\ lo \in 1..L /\ hi \in 1..L /\ lo <= hi
        /\ s[lo] # Slash /\ s[hi] # Slash
        /\ \A i \in 1..L : i < lo \/ i > hi => s[i] = Slash
    BY <1>1, <2>1
  <2> HIDE DEF kept, L
  <2>4. /\ lo \in Nat \ {0} /\ hi \in 0..L /\ lo - 1 \in 0..L /\ 1 \in Nat \ {0}
        /\ hi + 1 \in Nat \ {0} /\ L \in 0..L
    BY <1>1, <2>3
  <2>5. /\ m \in Seq(Byte) /\ Len(m) = hi - lo + 1
        /\ \A i \in 1..(hi - lo + 1) : m[i] = s[lo + i - 1]
    BY <2>3, <2>4, Seqs!PartType DEF L
  <2>6. Trimmed(m)
    <3> HIDE DEF m
    <3>1. /\ 1 \in 1..(hi - lo + 1) /\ hi - lo + 1 \in 1..(hi - lo + 1)
          /\ lo + 1 - 1 = lo /\ lo + (hi - lo + 1) - 1 = hi
      BY <2>3
    <3>2. m[1] = s[lo] /\ m[hi - lo + 1] = s[hi]
      BY <2>5, <3>1
    <3> QED
      BY <2>3, <2>5, <3>2 DEF Trimmed
  <2>7. a \in Seq(Byte) /\ OnlySlashes(a)
    <3> DEFINE end == lo - 1
    <3>1. end \in 0..L
      BY <2>4
    <3> HIDE DEF end
    <3>2. /\ SubSeq(s, 1, end) \in Seq(Byte)
          /\ Len(SubSeq(s, 1, end)) = IF 1 <= end THEN end - 1 + 1 ELSE 0
          /\ \A i \in 1..(end - 1 + 1) : SubSeq(s, 1, end)[i] = s[1 + i - 1]
      BY <2>4, <3>1, Seqs!PartType DEF L
    <3>3. /\ a \in Seq(Byte) /\ Len(a) = lo - 1
          /\ \A i \in 1..(lo - 1) : a[i] = s[i]
      <4>1. \A i \in 1..end : i \in 1..(end - 1 + 1) /\ 1 + i - 1 = i
        BY <3>1, <1>1
      <4>2. Len(SubSeq(s, 1, end)) = end
        BY <3>1, <3>2, <1>1
      <4> QED
        BY <3>2, <4>1, <4>2 DEF end
    <3> HIDE DEF a
    <3>4. \A i \in 1..(lo - 1) : i \in 1..L /\ i < lo
      BY <2>3, <1>1
    <3> QED
      BY <2>3, <3>3, <3>4 DEF OnlySlashes
  <2>8. c \in Seq(Byte) /\ OnlySlashes(c)
    <3> DEFINE start == hi + 1
    <3>1. start \in Nat \ {0}
      BY <2>4
    <3> HIDE DEF start
    <3>2. /\ SubSeq(s, start, L) \in Seq(Byte)
          /\ Len(SubSeq(s, start, L)) = IF start <= L THEN L - start + 1 ELSE 0
          /\ \A i \in 1..(L - start + 1) : SubSeq(s, start, L)[i] = s[start + i - 1]
      BY <2>4, <3>1, Seqs!PartType DEF L
    <3>3. /\ c \in Seq(Byte) /\ Len(c) = L - hi
          /\ \A i \in 1..(L - hi) : c[i] = s[hi + i]
      <4>1. \A i \in 1..(L - hi) : i \in 1..(L - start + 1) /\ start + i - 1 = hi + i
        BY <1>1, <2>3 DEF start
      <4>2. Len(SubSeq(s, start, L)) = L - hi
        BY <1>1, <2>3, <3>2 DEF start
      <4> QED
        BY <3>2, <4>1, <4>2 DEF start
    <3> HIDE DEF c
    <3>4. \A i \in 1..(L - hi) : hi + i \in 1..L /\ hi + i > hi
      BY <2>3, <1>1
    <3> QED
      BY <2>3, <3>3, <3>4 DEF OnlySlashes
  <2>9. s = (a \o m) \o c
    <3>1. SubSeq(s, 1, lo - 1) \o SubSeq(s, lo, hi) = SubSeq(s, 1, hi)
      <4> DEFINE end == lo - 1
      <4>1. /\ 1 \in 1..(Len(s) + 1) /\ end \in (1 - 1)..Len(s)
            /\ hi \in end..Len(s) /\ end + 1 = lo
        BY <1>1, <2>3 DEF L
      <4> HIDE DEF end
      <4>2. SubSeq(s, 1, end) \o SubSeq(s, end + 1, hi) = SubSeq(s, 1, hi)
        BY <4>1, ConcatAdjacentSubSeq
      <4> QED
        BY <4>1, <4>2 DEF end
    <3>2. SubSeq(s, 1, hi) \o SubSeq(s, hi + 1, L) = SubSeq(s, 1, L)
      <4>1. /\ 1 \in 1..(Len(s) + 1) /\ hi \in (1 - 1)..Len(s)
            /\ Len(s) \in hi..Len(s)
        BY <1>1, <2>3 DEF L
      <4> QED
        BY <4>1, ConcatAdjacentSubSeq DEF L
    <3> QED
      BY <3>1, <3>2, SubSeqFull DEF L
  <2> HIDE DEF a, c, m
  <2> QED
    BY <2>2, <2>5, <2>6, <2>7, <2>8, <2>9
<1> QED
  BY <1>3, <1>4

\* Of texts that are terminated, and one more behind them, each is a part.
LEMMA SplitJoined ==
    ASSUME NEW z \in Seq(Byte), NEW separator \in Byte,
           NEW parts \in Seq(Seq(Byte)), NEW ps \in Seq(Seq(Byte)),
           NEW l \in Seq(Byte),
           SplitUp(z, separator) = Parts(parts, <<>>),
           AllWithout(ps, {separator}), Without(l, {separator})
    PROVE  SplitUp((z \o Terminated(ps, separator)) \o l, separator)
             = Parts(parts \o ps, l)
<1> DEFINE empty == <<>>
           t == Terminated(ps, separator)
           zt == z \o t
           all == parts \o ps
<1>1. SplitUp(zt, separator) = Parts(all, empty)
  BY SplitTerminated
<1>2. /\ t \in Seq(Byte) /\ all \in Seq(Seq(Byte)) /\ empty \in Seq(Byte)
      /\ empty \o l = l
  BY TerminatedIs, ConcatProperties, EmptySeq, ConcatEmptySeq
<1> HIDE DEF t, all, empty
<1>3. zt \in Seq(Byte)
  BY <1>2, ConcatProperties
<1> HIDE DEF zt
<1>4. all \in Seq(Seq(Byte)) /\ empty \in Seq(Byte) /\ Without(l, {separator})
  BY <1>2
<1>5. SplitUp(zt \o l, separator) = Parts(all, empty \o l)
  BY <1>1, <1>3, <1>4, SplitPlain, Z3
<1> QED
  BY <1>2, <1>5 DEF zt, t, all

-----------------------------------------------------------------------------
\* Splitting an encoded path gives its segments, each encoded.
LEMMA SplitPathEncoded ==
    ASSUME NEW s \in Seq(Byte)
    PROVE  /\ Split(s, Slash) \in Seq(Seq(Byte))
           /\ Split(PathEncoded(s), Slash) = EncodedEach(Split(s, Slash))
           /\ Terminated(EncodedEach(Split(s, Slash)), Slash)
                = PathEncoded(s) \o <<Slash>>
<1>1. PICK parts \in Seq(Seq(Byte)), last \in Seq(Byte) :
        SplitUp(s, Slash) = Parts(parts, last)
  BY SplitUpType
<1> DEFINE e == EncodedEach(parts)
           l == url_encode(last)
           t == Terminated(e, Slash)
<1>2. Split(s, Slash) = Append(parts, last)
  BY <1>1 DEF Split, Parts
<1>3. EncodedEach(Split(s, Slash)) = Append(e, l)
  BY <1>2, EncodedEachAppend
<1>4. /\ PathEncoded(s) = t \o l /\ t \in Seq(Byte) /\ l \in Seq(Byte)
  BY <1>1, PathEncodedOf
<1>5. e \in Seq(Seq(Byte)) /\ AllWithout(e, {Slash}) /\ Without(l, {Slash})
  <2>1. {Slash} \subseteq Separators
    BY DEF Separators
  <2>2. AllWithout(e, Separators) /\ Without(l, Separators)
    BY EncodedEachType, EncodedWithout
  <2> QED
    BY <2>1, <2>2, EncodedEachType, WithoutFewer DEF AllWithout
<1>6. Slash \in Byte
  BY DEF Slash, Byte
<1> HIDE DEF e, l
<1>7. SplitUp(t \o l, Slash) = Parts(e, l)
  <2> DEFINE empty == <<>>
  <2>1. /\ empty \in Seq(Byte) /\ empty \in Seq(Seq(Byte))
        /\ SplitUp(empty, Slash) = Parts(empty, empty)
        /\ empty \o t = t /\ empty \o e = e
    BY <1>4, <1>5, EmptySeq, SplitIs, ConcatEmptySeq
  <2>2. SplitUp(empty, Slash) = Parts(empty, <<>>)
    BY <2>1
  <2>3. /\ l \in Seq(Byte) /\ e \in Seq(Seq(Byte)) /\ AllWithout(e, {Slash})
        /\ Without(l, {Slash}) /\ empty \in Seq(Byte) /\ empty \in Seq(Seq(Byte))
    BY <1>4, <1>5, <2>1
  <2> HIDE DEF empty
  <2>4. SplitUp((empty \o Terminated(e, Slash)) \o l, Slash) = Parts(empty \o e, l)
    BY <1>6, <2>2, <2>3, SplitJoined
  <2> QED
    BY <2>1, <2>4
<1> HIDE DEF t
<1>8. Split(PathEncoded(s), Slash) = Append(e, l)
  <2>1. SplitUp(PathEncoded(s), Slash) = Parts(e, l)
    BY <1>4, <1>7
  <2> QED
    BY <2>1 DEF Split, Parts
<1>9. Terminated(Append(e, l), Slash) = PathEncoded(s) \o <<Slash>>
  <2>1. Terminated(Append(e, l), Slash) = t \o Append(l, Slash)
    BY <1>4, <1>5, <1>6, TerminatedIs DEF t
  <2>2. t \o Append(l, Slash) = Append(t \o l, Slash)
    BY <1>4, <1>6, Seqs!AppendToConcat
  <2> DEFINE tl == t \o l
  <2>3. tl \in Seq(Byte)
    BY <1>4, ConcatProperties
  <2> HIDE DEF tl
  <2>4. Append(tl, Slash) = tl \o <<Slash>>
    BY <1>6, <2>3, AppendIsConcat
  <2> QED
    BY <1>4, <2>1, <2>2, <2>4 DEF tl
<1>10. Append(parts, last) \in Seq(Seq(Byte))
  BY AppendProperties
<1> QED
  BY <1>2, <1>3, <1>8, <1>9, <1>10

\* Slashes stay as they are.
LEMMA PathEncodedSlashes ==
    ASSUME NEW a \in Seq(Byte), OnlySlashes(a)
    PROVE  PathEncoded(a) = a
<1> DEFINE Holds(u) == OnlySlashes(u) => PathEncoded(u) = u
           S == {u \in Seq(Byte) : Holds(u)}
<1>1. <<>> \in S
  BY EmptySeq, PathEncodedIs
<1>2. ASSUME NEW u \in Seq(Byte), NEW b \in Byte, Holds(u),
             OnlySlashes(Append(u, b))
      PROVE  PathEncoded(Append(u, b)) = Append(u, b)
  <2> DEFINE m == Len(u)
             v == Append(u, b)
  <2>1. /\ m \in Nat /\ Len(v) = m + 1 /\ v[m + 1] = b
        /\ \A i \in 1..m : v[i] = u[i]
    BY AppendProperties, LenProperties
  <2>2. OnlySlashes(u) /\ b = Slash
    <3> HIDE DEF v, m
    <3>1. m + 1 \in 1..(m + 1) /\ \A i \in 1..m : i \in 1..(m + 1)
      BY <2>1
    <3>2. \A i \in 1..(m + 1) : v[i] = Slash
      BY <1>2, <2>1 DEF OnlySlashes, v
    <3> QED
      BY <2>1, <3>1, <3>2 DEF OnlySlashes, m
  <2>3. PathEncoded(v) = PathEncoded(u) \o <<Slash>>
    BY <2>2, PathEncodedIs
  <2>4. Append(u, Slash) = u \o <<Slash>>
    BY <2>2, AppendIsConcat
  <2> QED
    BY <1>2, <2>2, <2>3, <2>4
<1>3. \A u \in Seq(Byte), b \in Byte : u \in S => Append(u, b) \in S
  BY <1>2, AppendProperties
<1> HIDE DEF S
<1>4. Seqs!ClosedUnderAppend(S, Byte)
  BY <1>1, <1>3 DEF Seqs!ClosedUnderAppend
<1>5. a \in S
  BY <1>4, Seqs!SeqInduction
<1> QED
  BY <1>5 DEF S

\* A byte that is not a slash is encoded to something that neither starts nor
\* ends with one.
LEMMA EncodedByteTrimmed ==
    ASSUME NEW b \in Byte
    PROVE  /\ EncodeByte(b) \in Seq(Byte) /\ Len(EncodeByte(b)) \in Nat \ {0}
           /\ EncodeByte(b)[1] # Slash
           /\ EncodeByte(b)[Len(EncodeByte(b))] # Slash
<1> DEFINE e == EncodeByte(b)
<1>1. e \in Seq(Byte)
  BY EncodeByteType
<1>2. \A i \in DOMAIN e : e[i] # Slash
  BY NoSeparatorEncoded DEF Separators
<1>3. Len(e) \in Nat \ {0} /\ DOMAIN e = 1..Len(e)
  <2>1. Len(e) = 1 \/ Len(e) = 3
    BY EncodeCases
  <2> HIDE DEF e
  <2>2. Len(e) \in Nat \ {0}
    BY <2>1
  <2>3. DOMAIN e = 1..Len(e)
    BY <1>1, LenProperties
  <2> QED
    BY <2>2, <2>3
<1> HIDE DEF e
<1>4. 1 \in 1..Len(e) /\ Len(e) \in 1..Len(e)
  BY <1>3
<1> QED
  BY <1>1, <1>2, <1>3, <1>4 DEF e

\* The ends of two sequences, one behind the other.
LEMMA EndsOfConcat ==
    ASSUME NEW T, NEW s \in Seq(T), NEW t \in Seq(T)
    PROVE  /\ Len(s) # 0 => (s \o t)[1] = s[1]
           /\ Len(t) # 0 => (s \o t)[Len(s \o t)] = t[Len(t)]
           /\ Len(s \o t) = Len(s) + Len(t) /\ Len(s) \in Nat /\ Len(t) \in Nat
<1> DEFINE st == s \o t
           m == Len(s)
           n == Len(t)
<1>1. /\ m \in Nat /\ n \in Nat /\ Len(st) = m + n
      /\ \A i \in 1..(m + n) : st[i] = IF i <= m THEN s[i] ELSE t[i - m]
  BY ConcatProperties, LenProperties
<1> HIDE DEF st, m, n
<1>2. m # 0 => st[1] = s[1]
  <2>1. m # 0 => 1 \in 1..(m + n) /\ 1 <= m
    BY <1>1
  <2> QED
    BY <1>1, <2>1
<1>3. n # 0 => st[m + n] = t[n]
  <2>1. n # 0 => m + n \in 1..(m + n) /\ ~(m + n <= m) /\ (m + n) - m = n
    BY <1>1
  <2> QED
    BY <1>1, <2>1
<1> QED
  BY <1>1, <1>2, <1>3 DEF st, m, n

\* A path without slashes at its ends has none when it is encoded.
LEMMA PathEncodedTrimmed ==
    ASSUME NEW m \in Seq(Byte), Trimmed(m)
    PROVE  Trimmed(PathEncoded(m))
<1>1. CASE m = <<>>
  BY <1>1, PathEncodedIs DEF Trimmed
<1>2. CASE m # <<>>
  <2>1. PICK f \in Seq(Byte), b \in Byte : m = Append(f, b)
    BY <1>2, SequenceEmptyOrAppend
  <2>2. b # Slash
    <3>1. m[Len(m)] = b
      BY <2>1, AppendProperties
    <3> QED
      BY <1>2, <3>1 DEF Trimmed
  <2>3. PathEncoded(m) = PathEncoded(f) \o EncodeByte(b)
    BY <2>1, <2>2, PathEncodedIs
  <2> DEFINE e == EncodeByte(b)
             p == PathEncoded(m)
  <2>4. /\ p[Len(p)] # Slash
    <3> DEFINE pf == PathEncoded(f)
    <3>1. pf \in Seq(Byte) /\ e \in Seq(Byte) /\ Len(e) # 0 /\ e[Len(e)] # Slash
      BY PathEncodedIs, EncodedByteTrimmed
    <3>2. p = pf \o e
      BY <2>3
    <3> HIDE DEF pf, e, p
    <3> QED
      BY <3>1, <3>2, EndsOfConcat
  <2>5. p[1] # Slash
    <3> DEFINE x == m[1]
               first == <<x>>
               rest == SubSeq(m, 2, Len(m))
               k == Len(m)
    <3>1. k \in Nat \ {0} /\ 1 \in 1..k
      BY <1>2, EmptySeq
    <3>2. x \in Byte /\ first \in Seq(Byte) /\ x # Slash
      BY <1>2, <3>1, ElementOfSeq DEF Trimmed
    <3>3. rest \in Seq(Byte)
      BY <3>1, Seqs!PartType
    <3>4. m = first \o rest
      <4>1. SubSeq(m, 1, k) = <<m[1]>> \o SubSeq(m, 1 + 1, k)
        <5>1. k \in 1..Len(m)
          BY <3>1
        <5> QED
          BY <3>1, <5>1, SubSeqRecursiveFirst
      <4> QED
        BY <4>1, SubSeqFull
    <3>5. PathEncoded(first) = EncodeByte(x)
      <4>1. PathEncoded(Append(<<>>, x)) = PathEncoded(<<>>) \o EncodeByte(x)
        BY <3>2, EmptySeq, PathEncodedIs
      <4>2. PathEncoded(<<>>) \o EncodeByte(x) = EncodeByte(x)
        <5> DEFINE e1 == EncodeByte(x)
        <5>1. e1 \in Seq(Byte) /\ PathEncoded(<<>>) = <<>>
          BY <3>2, EncodeByteType, PathEncodedIs
        <5> HIDE DEF e1
        <5>2. <<>> \o e1 = e1
          BY <5>1, ConcatEmptySeq
        <5> QED
          BY <5>1, <5>2 DEF e1
      <4>3. Append(<<>>, x) = first
        OBVIOUS
      <4> QED
        BY <4>1, <4>2, <4>3
    <3> DEFINE ex == EncodeByte(x)
               pr == PathEncoded(rest)
    <3> HIDE DEF rest
    <3>6. p = ex \o pr
      <4> HIDE DEF first
      <4>1. PathEncoded(first \o rest) = PathEncoded(first) \o PathEncoded(rest)
        BY <3>2, <3>3, PathEncodedConcat
      <4> QED
        BY <3>4, <3>5, <4>1
    <3>7. /\ ex \in Seq(Byte) /\ Len(ex) # 0 /\ ex[1] # Slash
          /\ pr \in Seq(Byte)
      BY <3>2, <3>3, EncodedByteTrimmed, PathEncodedIs
    <3> HIDE DEF ex, pr, p
    <3> QED
      BY <3>6, <3>7, EndsOfConcat
  <2> QED
    BY <2>4, <2>5 DEF Trimmed
<1> QED
  BY <1>1, <1>2

\* No question mark is in an encoded path.
LEMMA PathEncodedWithout ==
    ASSUME NEW s \in Seq(Byte)
    PROVE  Without(PathEncoded(s), {Question})
<1> DEFINE Holds(u) == Without(PathEncoded(u), {Question})
           S == {u \in Seq(Byte) : Holds(u)}
<1>1. <<>> \in S
  <2> DEFINE empty == <<>>
  <2>1. /\ empty \in Seq(Byte) /\ PathEncoded(empty) = empty
        /\ Without(empty, {Question})
    BY EmptySeq, PathEncodedIs, WithoutOne
  <2> HIDE DEF empty
  <2>2. Holds(empty)
    BY <2>1
  <2> QED
    BY <2>1, <2>2 DEF empty
<1>2. ASSUME NEW u \in Seq(Byte), NEW b \in Byte, Holds(u)
      PROVE  Holds(Append(u, b))
  <2> DEFINE e == IF b = Slash THEN <<Slash>> ELSE EncodeByte(b)
             p == PathEncoded(u)
  <2>1. PathEncoded(Append(u, b)) = p \o e /\ p \in Seq(Byte)
    BY PathEncodedIs
  <2>2. e \in Seq(Byte) /\ Without(e, {Question})
    <3>1. CASE b = Slash
      <4>1. e = <<b>> /\ b \in Byte /\ Question # Slash
        BY <3>1 DEF Question, Slash
      <4>2. <<b>> \in Seq(Byte)
        OBVIOUS
      <4> QED
        BY <3>1, <4>1, <4>2, WithoutOne
    <3>2. CASE b # Slash
      <4>1. EncodeByte(b) \in Seq(Byte)
        BY EncodeByteType
      <4>2. Without(EncodeByte(b), Separators) /\ {Question} \subseteq Separators
        BY NoSeparatorEncoded DEF Without, Separators
      <4> QED
        BY <3>2, <4>1, <4>2, WithoutFewer
    <3> QED
      BY <3>1, <3>2
  <2> HIDE DEF e, p
  <2>3. Without(p, {Question})
    BY <1>2 DEF p
  <2>4. Without(p \o e, {Question})
    BY <2>1, <2>2, <2>3, WithoutConcat
  <2> QED
    BY <2>1, <2>4
<1> HIDE DEF Holds
<1>3. \A u \in Seq(Byte), b \in Byte : u \in S => Append(u, b) \in S
  BY <1>2, AppendProperties
<1> HIDE DEF S
<1>4. Seqs!ClosedUnderAppend(S, Byte)
  BY <1>1, <1>3 DEF Seqs!ClosedUnderAppend
<1>5. s \in S
  BY <1>4, Seqs!SeqInduction
<1> QED
  BY <1>5 DEF S, Holds

\* Trimming the encoded path is encoding the trimmed path.
LEMMA TrimPathEncoded ==
    ASSUME NEW s \in Seq(Byte)
    PROVE  /\ TrimSlashes(PathEncoded(s) \o <<Slash>>) = PathEncoded(TrimSlashes(s))
           /\ TrimSlashes(<<Slash>> \o PathEncoded(TrimSlashes(s)))
                = PathEncoded(TrimSlashes(s))
<1> DEFINE m == TrimSlashes(s)
           one == <<Slash>>
           e == PathEncoded(m)
<1>1. m \in Seq(Byte) /\ Trimmed(m)
  BY TrimSplits
<1>2. PICK a \in Seq(Byte), c \in Seq(Byte) :
        OnlySlashes(a) /\ OnlySlashes(c) /\ s = (a \o m) \o c
  BY TrimSplits
<1>3. one \in Seq(Byte) /\ OnlySlashes(one)
  <2>1. Slash \in Byte
    BY DEF Slash, Byte
  <2> QED
    BY <2>1 DEF OnlySlashes
<1> HIDE DEF m, one
<1>4. e \in Seq(Byte) /\ Trimmed(e)
  BY <1>1, PathEncodedIs, PathEncodedTrimmed
<1>5. PathEncoded(s) = (a \o e) \o c
  <2> DEFINE am == a \o m
  <2>1. am \in Seq(Byte)
    BY <1>1, ConcatProperties
  <2>2. PathEncoded(a \o m) = PathEncoded(a) \o PathEncoded(m)
    BY <1>1, PathEncodedConcat
  <2>3. PathEncoded(a) = a /\ PathEncoded(c) = c
    BY <1>2, PathEncodedSlashes
  <2> HIDE DEF am
  <2>4. PathEncoded(am \o c) = PathEncoded(am) \o PathEncoded(c)
    BY <2>1, PathEncodedConcat
  <2>5. PathEncoded(am \o c) = PathEncoded(am) \o c
    BY <2>3, <2>4
  <2>6. PathEncoded(a \o m) = a \o e
    BY <2>2, <2>3
  <2> QED
    BY <1>2, <2>5, <2>6 DEF am
<1> HIDE DEF e
<1>6. TrimSlashes(((a \o e) \o c) \o one) = e
  <2> DEFINE ae == a \o e
             co == c \o one
  <2>1. ae \in Seq(Byte)
    BY <1>4, ConcatProperties
  <2>2. co \in Seq(Byte) /\ OnlySlashes(co)
    <3>1. co \in Seq(Byte) /\ Len(co) = Len(c) + 1
      BY <1>3, ConcatProperties DEF one
    <3>2. ASSUME NEW i \in 1..(Len(c) + 1) PROVE co[i] = Slash
      <4>1. Len(c) \in Nat
        BY LenProperties
      <4>2. Len(one) = 1 /\ one[1] = Slash
        BY DEF one
      <4>3. co[i] = IF i <= Len(c) THEN c[i] ELSE one[i - Len(c)]
        BY <1>3, <4>2, ConcatProperties, SMTT(30)
      <4>4. i \in 1..Len(c) \/ (i - Len(c) = 1 /\ ~(i <= Len(c)))
        BY <4>1
      <4> HIDE DEF co
      <4> QED
        BY <1>2, <4>2, <4>3, <4>4 DEF OnlySlashes
    <3> HIDE DEF co
    <3> QED
      BY <3>1, <3>2 DEF OnlySlashes
  <2> HIDE DEF ae
  <2>3. (ae \o c) \o one = ae \o co
    BY <1>3, <2>1, ConcatAssociative
  <2> HIDE DEF co
  <2>4. TrimSlashes((a \o e) \o co) = e
    BY <1>2, <1>4, <2>2, TrimMiddle
  <2> QED
    BY <2>3, <2>4 DEF ae
<1>7. TrimSlashes(one \o e) = e
  <2> DEFINE empty == <<>>
             oe == one \o e
  <2>1. empty \in Seq(Byte) /\ OnlySlashes(empty)
    BY EmptySeq DEF OnlySlashes
  <2>2. oe \in Seq(Byte)
    BY <1>3, <1>4, ConcatProperties
  <2> HIDE DEF empty
  <2>3. TrimSlashes((one \o e) \o empty) = e
    BY <1>3, <1>4, <2>1, TrimMiddle
  <2> HIDE DEF oe
  <2>4. oe \o empty = oe
    BY <2>2, ConcatEmptySeq DEF empty
  <2> QED
    BY <2>3, <2>4 DEF oe
<1> QED
  BY <1>5, <1>6, <1>7 DEF e, m, one

\* The segments of a path with a plus for every space.
Respelled(path) == [i \in DOMAIN Segments(path) |-> SpaceAsPlus(Segments(path)[i])]

\* What encoded_path makes of a path has no question mark, and its segments,
\* decoded, are those of the path with a plus for every space.
LEMMA EncodedPathArrives ==
    ASSUME NEW s \in Seq(Byte)
    PROVE  LET x == <<Slash>> \o
                    TrimSlashes(Terminated(EncodedEach(Split(s, Slash)), Slash))
           IN /\ x \in Seq(Byte) /\ Without(x, {Question})
              /\ DecodedSegments(x) = Respelled(s)
<1> DEFINE t == TrimSlashes(Terminated(EncodedEach(Split(s, Slash)), Slash))
           m == TrimSlashes(s)
           p == PathEncoded(m)
           x == <<Slash>> \o t
<1>1. t = p
  <2>1. Terminated(EncodedEach(Split(s, Slash)), Slash) = PathEncoded(s) \o <<Slash>>
    BY SplitPathEncoded
  <2> QED
    BY <2>1, TrimPathEncoded
<1>2. m \in Seq(Byte)
  BY TrimSplits
<1>3. p \in Seq(Byte) /\ Without(p, {Question})
  BY <1>2, PathEncodedIs, PathEncodedWithout
<1>4. <<Slash>> \in Seq(Byte) /\ Without(<<Slash>>, {Question})
  <2>1. Slash \in Byte /\ Slash \notin {Question}
    BY DEF Slash, Question, Byte
  <2> QED
    BY <2>1, WithoutOne
<1>5. TrimSlashes(x) = p
  BY <1>1, TrimPathEncoded
<1>6. Split(p, Slash) = EncodedEach(Split(m, Slash)) /\ Split(m, Slash) \in Seq(Seq(Byte))
  BY <1>2, SplitPathEncoded
<1>7. DecodedSegments(x) = Respelled(s)
  <2>1. Segments(x) = EncodedEach(Split(m, Slash)) /\ Segments(s) = Split(m, Slash)
    BY <1>5, <1>6 DEF Segments
  <2>2. [i \in DOMAIN EncodedEach(Split(m, Slash)) |->
            PercentDecoded(EncodedEach(Split(m, Slash))[i])]
            = [i \in DOMAIN Split(m, Slash) |-> SpaceAsPlus(Split(m, Slash)[i])]
    BY <1>6, DecodedEach
  <2> HIDE DEF x, m
  <2> QED
    BY <2>1, <2>2 DEF DecodedSegments, Respelled
<1>8. x \in Seq(Byte) /\ Without(x, {Question})
  <2> DEFINE one == <<Slash>>
  <2>1. one \in Seq(Byte) /\ Without(one, {Question})
    BY <1>4
  <2> HIDE DEF one, p
  <2>2. one \o p \in Seq(Byte) /\ Without(one \o p, {Question})
    BY <1>3, <2>1, ConcatProperties, WithoutConcat
  <2> QED
    BY <1>1, <2>2 DEF one
<1> QED
  BY <1>7, <1>8
-----------------------------------------------------------------------------
\* Nothing found.
LEMMA FirstOfNone ==
    ASSUME NEW s, NEW B, Without(s, B)
    PROVE  FindFirstOf(s, B) = 0
  BY DEF FindFirstOf, Without

\* The first of the bytes is where the second text begins.
LEMMA FirstOfConcat ==
    ASSUME NEW T, NEW s \in Seq(T), NEW r \in Seq(T), NEW B,
           Without(s, B), r # <<>>, r[1] \in B
    PROVE  FindFirstOf(s \o r, B) = Len(s) + 1
<1> DEFINE sr == s \o r
           m == Len(s)
           n == Len(r)
           found == {i \in DOMAIN sr :
                        sr[i] \in B /\ \A j \in 1..(i - 1) : sr[j] \notin B}
<1>1. /\ m \in Nat /\ n \in Nat /\ n # 0 /\ DOMAIN sr = 1..(m + n)
      /\ \A i \in 1..(m + n) : sr[i] = IF i <= m THEN s[i] ELSE r[i - m]
  BY ConcatProperties, LenProperties, EmptySeq
<1>2. \A i \in 1..m : s[i] \notin B
  BY LenProperties DEF Without
<1> HIDE DEF sr, m, n
<1>3. ASSUME NEW i \in found PROVE i = m + 1
  <2>1. i \in 1..(m + n) /\ sr[i] \in B /\ \A j \in 1..(i - 1) : sr[j] \notin B
    BY <1>1
  <2>2. m + 1 \in 1..(m + n) /\ ~(m + 1 <= m) /\ (m + 1) - m = 1
    BY <1>1
  <2>3. sr[m + 1] \in B
    BY <1>1, <2>2
  <2>4. ~(i <= m)
    BY <1>1, <1>2, <2>1
  <2>5. ~(m + 1 < i)
    <3>1. m + 1 < i => m + 1 \in 1..(i - 1)
      BY <1>1, <2>1
    <3> QED
      BY <2>1, <2>3, <3>1
  <2> QED
    BY <1>1, <2>1, <2>4, <2>5
<1>4. m + 1 \in found
  <2>1. m + 1 \in 1..(m + n) /\ ~(m + 1 <= m) /\ (m + 1) - m = 1
    BY <1>1
  <2>2. sr[m + 1] \in B
    BY <1>1, <2>1
  <2>3. ASSUME NEW j \in 1..((m + 1) - 1) PROVE sr[j] \notin B
    <3>1. j \in 1..m /\ j \in 1..(m + n) /\ j <= m
      BY <1>1
    <3> QED
      BY <1>1, <1>2, <3>1
  <2> QED
    BY <1>1, <2>1, <2>2, <2>3
<1>5. FindFirstOf(sr, B) = IF found = {} THEN 0 ELSE CHOOSE i \in found : TRUE
  BY DEF FindFirstOf
<1> HIDE DEF found
<1> QED
  BY <1>3, <1>4, <1>5 DEF sr, m

\* The two parts of two texts, and what is behind the first byte of the second.
LEMMA PartsOfConcat ==
    ASSUME NEW T, NEW s \in Seq(T), NEW r \in Seq(T)
    PROVE  /\ SubSeq(s \o r, 1, Len(s)) = s
           /\ From(s \o r, Len(s) + 1) = r
<1> DEFINE sr == s \o r
           m == Len(s)
           n == Len(r)
<1>1. /\ m \in Nat /\ n \in Nat /\ sr \in Seq(T) /\ Len(sr) = m + n
      /\ \A i \in 1..(m + n) : sr[i] = IF i <= m THEN s[i] ELSE r[i - m]
  BY ConcatProperties, LenProperties
<1> HIDE DEF sr, m, n
<1>2. SubSeq(sr, 1, m) = s
  <2>1. 1 \in Nat \ {0} /\ m \in 0..Len(sr)
    BY <1>1
  <2>2. /\ SubSeq(sr, 1, m) \in Seq(T)
        /\ Len(SubSeq(sr, 1, m)) = IF 1 <= m THEN m - 1 + 1 ELSE 0
        /\ \A i \in 1..(m - 1 + 1) : SubSeq(sr, 1, m)[i] = sr[1 + i - 1]
    BY <1>1, <2>1, Seqs!PartType
  <2> DEFINE p == SubSeq(sr, 1, m)
  <2>3. /\ p \in Seq(T) /\ Len(p) = m /\ \A i \in 1..m : p[i] = sr[i]
    <3>1. Len(p) = m
      BY <1>1, <2>2
    <3>2. \A i \in 1..m : i \in 1..(m - 1 + 1) /\ 1 + i - 1 = i
      BY <1>1
    <3> QED
      BY <2>2, <3>1, <3>2
  <2> HIDE DEF p
  <2>4. \A i \in 1..m : i \in 1..(m + n) /\ i <= m
    BY <1>1
  <2>5. \A i \in 1..m : p[i] = s[i]
    BY <1>1, <2>3, <2>4
  <2>6. p = s
    BY <2>3, <2>5, SeqEqual DEF m
  <2> QED
    BY <2>6 DEF p
<1>3. SubSeq(sr, m + 1, Len(sr)) = r
  <2> DEFINE first == m + 1
             last == m + n
  <2>1. first \in Nat \ {0} /\ last \in 0..Len(sr)
    BY <1>1
  <2> HIDE DEF first, last
  <2>2. /\ SubSeq(sr, first, last) \in Seq(T)
        /\ Len(SubSeq(sr, first, last)) = IF first <= last THEN last - first + 1 ELSE 0
        /\ \A i \in 1..(last - first + 1) : SubSeq(sr, first, last)[i] = sr[first + i - 1]
    BY <1>1, <2>1, Seqs!PartType
  <2> DEFINE p == SubSeq(sr, first, last)
  <2>3. /\ p \in Seq(T) /\ Len(p) = n /\ \A i \in 1..n : p[i] = sr[m + i]
    <3>1. Len(p) = n
      BY <1>1, <2>2 DEF first, last
    <3>2. \A i \in 1..n : i \in 1..(last - first + 1) /\ first + i - 1 = m + i
      BY <1>1 DEF first, last
    <3> QED
      BY <2>2, <3>1, <3>2
  <2> HIDE DEF p
  <2>4. \A i \in 1..n : m + i \in 1..(m + n) /\ ~(m + i <= m) /\ (m + i) - m = i
    BY <1>1
  <2>5. \A i \in 1..n : p[i] = r[i]
    BY <1>1, <2>3, <2>4
  <2>6. p = r
    BY <2>3, <2>5, SeqEqual DEF n
  <2> QED
    BY <1>1, <2>6 DEF p, first, last
<1> QED
  BY <1>2, <1>3 DEF From, sr, m

\* The first "://" is behind a protocol without a colon.
LEMMA FindSeparator ==
    ASSUME NEW s \in Seq(Byte), NEW r \in Seq(Byte), Without(s, {Colon})
    PROVE  /\ Find((s \o Separator) \o r, Separator) = Len(s) + 1
           /\ From((s \o Separator) \o r, Len(s) + 1 + 3) = r
           /\ SubSeq((s \o Separator) \o r, 1, Len(s)) = s
<1> DEFINE t == (s \o Separator) \o r
           m == Len(s)
           n == Len(r)
<1>1. /\ Separator \in Seq(Byte) /\ Len(Separator) = 3
      /\ Separator[1] = Colon /\ Separator[2] = Slash /\ Separator[3] = Slash
  <2>1. Slash \in Byte /\ Colon \in Byte
    BY DEF Slash, Colon, Byte
  <2> QED
    BY <2>1 DEF Separator
<1>2. /\ t \in Seq(Byte) /\ Len(t) = m + 3 + n /\ m \in Nat /\ n \in Nat
      /\ \A i \in 1..m : t[i] = s[i]
      /\ \A i \in 1..3 : t[m + i] = Separator[i]
  <2> DEFINE k == Len(Separator)
  <2>1. /\ t \in Seq(Byte) /\ Len(t) = m + k + n /\ m \in Nat /\ n \in Nat
        /\ \A i \in 1..m : t[i] = s[i]
        /\ \A i \in 1..k : t[m + i] = Separator[i]
    <3>1. Separator \in Seq(Byte)
      BY <1>1
    <3> QED
      BY <3>1, ThreeParts
  <2>2. k = 3
    BY <1>1
  <2> HIDE DEF t, m, n, k
  <2> QED
    BY <2>1, <2>2
<1>3. \A i \in 1..m : s[i] # Colon
  BY LenProperties DEF Without
<1>4. From(t, m + 4) = r /\ SubSeq(t, 1, m) = s
  <2> DEFINE ss == s \o Separator
             sr == Separator \o r
  <2>1. ss \in Seq(Byte) /\ Len(ss) = m + 3 /\ sr \in Seq(Byte)
    <3>1. /\ ss \in Seq(Byte) /\ Len(ss) = Len(s) + Len(Separator)
          /\ sr \in Seq(Byte)
      BY <1>1, ConcatProperties
    <3> HIDE DEF ss, sr
    <3> QED
      BY <1>1, <3>1
  <2>2. t = s \o sr
    BY <1>1, ConcatAssociative
  <2>3. SubSeq(t, 1, m) = s
    <3> HIDE DEF sr, t
    <3> QED
      BY <2>1, <2>2, PartsOfConcat
  <2> HIDE DEF ss
  <2>4. From(ss \o r, Len(ss) + 1) = r
    BY <2>1, PartsOfConcat
  <2>5. Len(ss) + 1 = m + 4
    BY <1>2, <2>1
  <2> QED
    BY <2>3, <2>4, <2>5 DEF ss
<1> HIDE DEF t, m, n
<1> DEFINE At(i) == SubSeq(t, i, i + Len(Separator) - 1) = Separator
           found == {i \in 1..(Len(t) - Len(Separator) + 1) :
                        At(i) /\ \A j \in 1..(i - 1) : ~At(j)}
<1>5. \A i \in 1..(m + n + 1) :
        /\ SubSeq(t, i, i + 2) \in Seq(Byte) /\ Len(SubSeq(t, i, i + 2)) = 3
        /\ \A k \in 1..3 : SubSeq(t, i, i + 2)[k] = t[i + k - 1]
  <2> SUFFICES ASSUME NEW i \in 1..(m + n + 1)
               PROVE  /\ SubSeq(t, i, i + 2) \in Seq(Byte)
                      /\ Len(SubSeq(t, i, i + 2)) = 3
                      /\ \A k \in 1..3 : SubSeq(t, i, i + 2)[k] = t[i + k - 1]
    OBVIOUS
  <2> DEFINE last == i + 2
  <2>1. i \in Nat \ {0} /\ last \in 0..Len(t) /\ i <= last /\ last - i + 1 = 3
    BY <1>2
  <2> HIDE DEF last
  <2>2. /\ SubSeq(t, i, last) \in Seq(Byte)
        /\ Len(SubSeq(t, i, last)) = IF i <= last THEN last - i + 1 ELSE 0
        /\ \A k \in 1..(last - i + 1) : SubSeq(t, i, last)[k] = t[i + k - 1]
    BY <1>2, <2>1, Seqs!PartType
  <2>3. /\ SubSeq(t, i, last) \in Seq(Byte) /\ Len(SubSeq(t, i, last)) = 3
        /\ \A k \in 1..3 : SubSeq(t, i, last)[k] = t[i + k - 1]
    BY <2>1, <2>2
  <2> QED
    BY <2>3 DEF last
<1>6. \A i \in 1..m : ~At(i)
  <2> SUFFICES ASSUME NEW i \in 1..m, At(i) PROVE FALSE
    OBVIOUS
  <2>1. i + Len(Separator) - 1 = i + 2 /\ i \in 1..(m + n + 1) /\ i + 1 - 1 = i
    BY <1>1, <1>2
  <2>2. SubSeq(t, i, i + 2) = Separator
    BY <2>1
  <2>3. SubSeq(t, i, i + 2)[1] = t[i + 1 - 1]
    BY <1>5, <2>1
  <2>4. t[i] = Colon
    BY <1>1, <2>1, <2>2, <2>3
  <2> QED
    BY <1>2, <1>3, <2>4
<1>7. At(m + 1)
  <2> DEFINE i == m + 1
             p == SubSeq(t, i, i + 2)
  <2>1. i + Len(Separator) - 1 = i + 2 /\ i \in 1..(m + n + 1)
    BY <1>1, <1>2
  <2>2. p \in Seq(Byte) /\ Len(p) = 3 /\ \A k \in 1..3 : p[k] = t[i + k - 1]
    <3> HIDE DEF i
    <3> QED
      BY <1>5, <2>1
  <2>3. \A k \in 1..3 : i + k - 1 = m + k
    BY <1>2
  <2> HIDE DEF p, i
  <2>4. \A k \in 1..3 : p[k] = Separator[k]
    BY <1>2, <2>2, <2>3
  <2>5. p = Separator
    BY <1>1, <2>2, <2>4, SeqEqual
  <2> QED
    BY <2>1, <2>5 DEF p, i
<1>8. Len(t) - Len(Separator) + 1 = m + n + 1
  BY <1>1, <1>2
<1> HIDE DEF At
<1>9. m + 1 \in found
  <2>1. m + 1 \in 1..(m + n + 1) /\ \A j \in 1..((m + 1) - 1) : j \in 1..m
    BY <1>2
  <2> QED
    BY <1>6, <1>7, <1>8, <2>1
<1>10. ASSUME NEW i \in found PROVE i = m + 1
  <2>1. i \in 1..(m + n + 1) /\ At(i) /\ \A j \in 1..(i - 1) : ~At(j)
    BY <1>8
  <2>2. ~(i \in 1..m)
    BY <1>6, <2>1
  <2>3. ~(m + 1 \in 1..(i - 1))
    BY <1>7, <2>1
  <2> QED
    BY <1>2, <2>1, <2>2, <2>3
<1>11. Find(t, Separator) = IF found = {} THEN 0 ELSE CHOOSE i \in found : TRUE
  BY DEF Find, At
<1> HIDE DEF found
<1>12. Find(t, Separator) = m + 1
  BY <1>9, <1>10, <1>11
<1>13. m + 1 + 3 = m + 4
  BY <1>2
<1> QED
  BY <1>4, <1>12, <1>13 DEF t, m

\* What the byte that divides two texts is found by, and the two texts.
LEMMA Divided ==
    ASSUME NEW T, NEW s \in Seq(T), NEW x \in Seq(T), NEW b \in T, NEW B,
           Without(s, B), b \in B
    PROVE  LET t == s \o (<<b>> \o x) IN
           /\ t \in Seq(T)
           /\ FindFirstOf(t, B) = Len(s) + 1
           /\ SubSeq(t, 1, (Len(s) + 1) - 1) = s
           /\ From(t, (Len(s) + 1) + 1) = x
<1> DEFINE one == <<b>>
           r == one \o x
           sb == s \o one
           t == s \o r
<1>1. one \in Seq(T) /\ Len(one) = 1 /\ one[1] = b
  OBVIOUS
<1>2. Len(s) \in Nat
  BY LenProperties
<1> HIDE DEF one
<1>3. r \in Seq(T) /\ sb \in Seq(T) /\ Len(sb) = Len(s) + 1
  <2>1. r \in Seq(T) /\ sb \in Seq(T) /\ Len(sb) = Len(s) + Len(one)
    BY <1>1, ConcatProperties
  <2> HIDE DEF r, sb
  <2> QED
    BY <1>1, <2>1
<1>4. r # <<>> /\ r[1] \in B
  <2>1. r[1] = one[1] /\ Len(r) = 1 + Len(x) /\ Len(x) \in Nat
    <3>1. /\ Len(one) # 0 => (one \o x)[1] = one[1]
          /\ Len(one \o x) = Len(one) + Len(x) /\ Len(x) \in Nat
      BY <1>1, EndsOfConcat
    <3> HIDE DEF r
    <3> QED
      BY <1>1, <3>1 DEF r
  <2> HIDE DEF r
  <2>2. Len(r) # 0
    BY <2>1
  <2> QED
    BY <1>1, <1>3, <2>1, <2>2, EmptySeq
<1> HIDE DEF r
<1>5. t \in Seq(T) /\ FindFirstOf(t, B) = Len(s) + 1
  BY <1>3, <1>4, ConcatProperties, FirstOfConcat
<1>6. SubSeq(t, 1, Len(s)) = s
  BY <1>3, PartsOfConcat
<1>7. From(t, (Len(s) + 1) + 1) = x
  <2>1. t = sb \o x
    BY <1>1, ConcatAssociative DEF r
  <2> HIDE DEF sb, t
  <2>2. From(sb \o x, Len(sb) + 1) = x
    BY <1>3, PartsOfConcat
  <2> QED
    BY <1>3, <2>1, <2>2
<1> HIDE DEF t
<1>8. (Len(s) + 1) - 1 = Len(s)
  BY <1>2
<1> QED
  BY <1>5, <1>6, <1>7, <1>8 DEF t, r, one

\* The parts of a url as text: the protocol with what follows it.
Before(u) == IF u.proto = <<>> THEN <<>> ELSE u.proto[1] \o Separator

\* The host with its port.
WithPort(u) ==
    u.host \o (IF u.port = <<>> THEN <<>> ELSE <<Colon>> \o u.port[1])

\* The query with the question mark before it.
Behind(u) == IF u.query = <<>> THEN <<>> ELSE <<Question>> \o u.query[1]

\* Each is a text.
LEMMA UrlParts ==
    ASSUME NEW u, IsUrl(u)
    PROVE  /\ u.proto # <<>> => u.proto[1] \in Seq(Byte)
           /\ u.port # <<>> => u.port[1] \in Seq(Byte)
           /\ u.query # <<>> => u.query[1] \in Seq(Byte)
           /\ u.host \in Seq(Byte) /\ u.path \in Seq(Byte)
           /\ Before(u) \in Seq(Byte) /\ WithPort(u) \in Seq(Byte)
           /\ Behind(u) \in Seq(Byte)
           /\ Separator \in Seq(Byte) /\ <<Colon>> \in Seq(Byte)
           /\ <<Question>> \in Seq(Byte) /\ <<Slash>> \in Seq(Byte)
<1>1. ASSUME NEW x \in Seq(Seq(Byte)), x = <<>> \/ Len(x) = 1
      PROVE  x # <<>> => x[1] \in Seq(Byte)
  BY <1>1, ElementOfSeq
<1>2. /\ u.proto # <<>> => u.proto[1] \in Seq(Byte)
      /\ u.port # <<>> => u.port[1] \in Seq(Byte)
      /\ u.query # <<>> => u.query[1] \in Seq(Byte)
  <2>1. /\ u.proto \in Seq(Seq(Byte)) /\ (u.proto = <<>> \/ Len(u.proto) = 1)
        /\ u.port \in Seq(Seq(Byte)) /\ (u.port = <<>> \/ Len(u.port) = 1)
        /\ u.query \in Seq(Seq(Byte)) /\ (u.query = <<>> \/ Len(u.query) = 1)
    BY DEF IsUrl
  <2> QED
    BY <1>1, <2>1
<1>3. /\ Separator \in Seq(Byte) /\ <<Colon>> \in Seq(Byte)
      /\ <<Question>> \in Seq(Byte) /\ <<Slash>> \in Seq(Byte)
  <2>1. Colon \in Byte /\ Slash \in Byte /\ Question \in Byte
    BY DEF Colon, Slash, Question, Byte
  <2> QED
    BY <2>1 DEF Separator
<1>4. u.host \in Seq(Byte) /\ u.path \in Seq(Byte)
  BY DEF IsUrl
<1>5. Before(u) \in Seq(Byte)
  <2>1. CASE u.proto = <<>>
    BY <2>1, EmptySeq DEF Before
  <2>2. CASE u.proto # <<>>
    <3>1. u.proto[1] \o Separator \in Seq(Byte)
      BY <1>2, <1>3, <2>2, ConcatProperties
    <3> QED
      BY <2>2, <3>1 DEF Before
  <2> QED
    BY <2>1, <2>2
<1>6. Behind(u) \in Seq(Byte)
  <2>1. CASE u.query = <<>>
    BY <2>1, EmptySeq DEF Behind
  <2>2. CASE u.query # <<>>
    <3>1. <<Question>> \o u.query[1] \in Seq(Byte)
      BY <1>2, <1>3, <2>2, ConcatProperties
    <3> QED
      BY <2>2, <3>1 DEF Behind
  <2> QED
    BY <2>1, <2>2
<1>7. WithPort(u) \in Seq(Byte)
  <2>1. CASE u.port = <<>>
    BY <1>4, <2>1, ConcatEmptySeq DEF WithPort
  <2>2. CASE u.port # <<>>
    <3>1. <<Colon>> \o u.port[1] \in Seq(Byte)
      BY <1>2, <1>3, <2>2, ConcatProperties
    <3>2. u.host \o (<<Colon>> \o u.port[1]) \in Seq(Byte)
      BY <1>4, <3>1, ConcatProperties
    <3> QED
      BY <2>2, <3>2 DEF WithPort
  <2> QED
    BY <2>1, <2>2
<1> QED
  BY <1>2, <1>3, <1>4, <1>5, <1>6, <1>7

\* The text of a url is its parts.
LEMMA TextIs ==
    ASSUME NEW u, IsUrl(u)
    PROVE  Text(u) = Before(u) \o (WithPort(u) \o (u.path \o Behind(u)))
<1> DEFINE port == IF u.port = <<>> THEN <<>> ELSE <<Colon>> \o u.port[1]
           a == Before(u)
           h == u.host
           q == Behind(u)
           p == u.path
<1>1. /\ a \in Seq(Byte) /\ h \in Seq(Byte) /\ p \in Seq(Byte)
      /\ q \in Seq(Byte)
  BY UrlParts
<1>2. port \in Seq(Byte)
  <2>1. CASE u.port = <<>>
    BY <2>1, EmptySeq
  <2>2. CASE u.port # <<>>
    BY <2>2, UrlParts, ConcatProperties
  <2> QED
    BY <2>1, <2>2
<1>3. Part(<<>>, u.proto, Separator) = a
  <2>1. CASE u.proto = <<>>
    BY <2>1 DEF Part, Before
  <2>2. CASE u.proto # <<>>
    <3>1. <<>> \o u.proto[1] = u.proto[1]
      BY <2>2, UrlParts, ConcatEmptySeq
    <3> QED
      BY <2>2, <3>1 DEF Part, Before
  <2> QED
    BY <2>1, <2>2
<1>4. Part(<<Colon>>, u.port, <<>>) = port
  <2>1. CASE u.port = <<>>
    BY <2>1 DEF Part
  <2>2. CASE u.port # <<>>
    <3> DEFINE cp == <<Colon>> \o u.port[1]
    <3>1. cp \in Seq(Byte)
      BY <2>2, UrlParts, ConcatProperties
    <3>2. cp \o <<>> = cp
      <4> HIDE DEF cp
      <4> QED
        BY <3>1, ConcatEmptySeq
    <3> QED
      BY <2>2, <3>2 DEF Part
  <2> QED
    BY <2>1, <2>2
<1>5. Part(<<Question>>, u.query, <<>>) = q
  <2>1. CASE u.query = <<>>
    BY <2>1 DEF Part, Behind
  <2>2. CASE u.query # <<>>
    <3> DEFINE cp == <<Question>> \o u.query[1]
    <3>1. cp \in Seq(Byte)
      BY <2>2, UrlParts, ConcatProperties
    <3>2. cp \o <<>> = cp
      <4> HIDE DEF cp
      <4> QED
        BY <3>1, ConcatEmptySeq
    <3> QED
      BY <2>2, <3>2 DEF Part, Behind
  <2> QED
    BY <2>1, <2>2
<1>6. Text(u) = (((a \o h) \o port) \o p) \o q
  BY <1>3, <1>4, <1>5 DEF Text
<1>7. WithPort(u) = h \o port
  BY DEF WithPort
<1> HIDE DEF a, h, port, p, q
<1>8. (((a \o h) \o port) \o p) \o q = a \o ((h \o port) \o (p \o q))
  <2> DEFINE hp == h \o port
             ah == a \o h
             pq == p \o q
             ahp == a \o hp
  <2>1. hp \in Seq(Byte) /\ ah \in Seq(Byte) /\ pq \in Seq(Byte)
    BY <1>1, <1>2, ConcatProperties
  <2>2. ah \o port = ahp
    BY <1>1, <1>2, ConcatAssociative, SMTT(30)
  <2> HIDE DEF hp, ah
  <2>3. ahp \in Seq(Byte)
    BY <1>1, <2>1, ConcatProperties
  <2>4. ahp \o pq = a \o (hp \o pq)
    <3> HIDE DEF pq
    <3>1. a \in Seq(Byte) /\ hp \in Seq(Byte) /\ pq \in Seq(Byte)
      BY <1>1, <2>1
    <3> QED
      BY <3>1, ConcatAssociative
  <2> HIDE DEF ahp
  <2>5. (ahp \o p) \o q = ahp \o pq
    BY <1>1, <2>3, ConcatAssociative
  <2> QED
    BY <2>2, <2>4, <2>5 DEF ah, hp, pq
<1> QED
  BY <1>6, <1>7, <1>8 DEF a, p, q

\* What parse makes of the text of a url: its parts, and for those that it
\* does not have what the parser had before.
ParsedUrl(p, u) ==
    [proto |-> IF u.proto = <<>> THEN p.proto ELSE to_lower(u.proto[1]),
     host_all |-> WithPort(u),
     host_part |-> u.host,
     port |-> IF u.port = <<>> THEN p.port ELSE PortNumber(u.port[1]),
     path |-> IF u.path = <<>> THEN <<Slash>> ELSE u.path,
     query_param |-> IF u.query = <<>> THEN p.query_param ELSE u.query[1]]

\* For every url, unless it has no protocol and "://" elsewhere.
LEMMA ParseIs ==
    ASSUME NEW u, IsUrl(u), NEW p,
           u.proto # <<>> \/ Find(Text(u), Separator) = 0
    PROVE  parse(p, Text(u)) = ParsedUrl(p, u)
<1> DEFINE url == Text(u)
           proto_pos == Find(url, <<Colon, Slash, Slash>>)
           proto == IF proto_pos = 0 THEN p.proto
                    ELSE to_lower(SubSeq(url, 1, proto_pos - 1))
           rest == IF proto_pos = 0 THEN url ELSE From(url, proto_pos + 3)
           host_pos == FindFirstOf(rest, HostEnds)
           host == IF host_pos = 0 THEN rest ELSE SubSeq(rest, 1, host_pos - 1)
           tail == IF host_pos = 0 THEN <<Slash>> ELSE From(rest, host_pos)
           param_pos == FindFirstOf(tail, {Question})
           path == IF param_pos = 0 THEN tail ELSE SubSeq(tail, 1, param_pos - 1)
           port_pos == FindFirstOf(host, {Colon})
           full_path == IF path = <<>> THEN <<Slash>> ELSE path
           query == IF param_pos = 0 THEN p.query_param
                    ELSE From(tail, param_pos + 1)
           host_part == IF port_pos = 0 THEN host ELSE SubSeq(host, 1, port_pos - 1)
           port == IF port_pos = 0 THEN p.port
                   ELSE PortNumber(From(host, port_pos + 1))
           h == WithPort(u)
           q == Behind(u)
           r == u.path \o q
           hr == h \o r
<1>1. parse(p, url) =
        [proto |-> proto, host_all |-> host, host_part |-> host_part,
         port |-> port, path |-> full_path, query_param |-> query]
  BY DEF parse
<1>2. /\ h \in Seq(Byte) /\ q \in Seq(Byte) /\ u.path \in Seq(Byte)
      /\ u.host \in Seq(Byte) /\ <<Slash>> \in Seq(Byte)
  BY UrlParts
<1>3. r \in Seq(Byte)
  BY <1>2, ConcatProperties
<1>4. hr \in Seq(Byte)
  <2> HIDE DEF r, h
  <2> QED
    BY <1>2, <1>3, ConcatProperties
<1>5. /\ proto = IF u.proto = <<>> THEN p.proto ELSE to_lower(u.proto[1])
      /\ rest = hr
  <2>1. url = Before(u) \o hr
    BY TextIs
  <2>2. proto_pos = Find(url, Separator)
    BY DEF Separator
  <2>3. CASE u.proto = <<>>
    <3>1. url = hr
      <4>1. Before(u) = <<>>
        BY <2>3 DEF Before
      <4> HIDE DEF hr, url
      <4>2. <<>> \o hr = hr
        BY <1>4, ConcatEmptySeq
      <4> QED
        BY <2>1, <4>1, <4>2
    <3>2. proto_pos = 0
      BY <2>2, <2>3
    <3> HIDE DEF url, proto_pos, hr
    <3> QED
      BY <2>3, <3>1, <3>2
  <2>4. CASE u.proto # <<>>
    <3> DEFINE s == u.proto[1]
    <3>1. s \in Seq(Byte) /\ Without(s, {Colon})
      <4>1. Without(s, {Colon, Slash, Question})
        BY <2>4 DEF IsUrl
      <4> QED
        BY <2>4, <4>1, UrlParts, WithoutFewer
    <3>2. url = (s \o Separator) \o hr
      BY <2>1, <2>4 DEF Before
    <3> HIDE DEF s, hr
    <3>3. /\ Find((s \o Separator) \o hr, Separator) = Len(s) + 1
          /\ From((s \o Separator) \o hr, Len(s) + 1 + 3) = hr
          /\ SubSeq((s \o Separator) \o hr, 1, Len(s)) = s
      BY <1>4, <3>1, FindSeparator
    <3> HIDE DEF url
    <3>4. Len(s) \in Nat /\ (Len(s) + 1) - 1 = Len(s) /\ Len(s) + 1 # 0
      BY <3>1, LenProperties
    <3>5. proto_pos = Len(s) + 1
      BY <2>2, <3>2, <3>3
    <3> HIDE DEF proto_pos
    <3>6. rest = hr
      BY <3>2, <3>3, <3>4, <3>5
    <3>7. proto = to_lower(s)
      BY <3>2, <3>3, <3>4, <3>5
    <3> QED
      BY <2>4, <3>6, <3>7 DEF s
  <2> QED
    BY <2>3, <2>4
<1> HIDE DEF rest, proto, url
<1>6. /\ host = h
      /\ full_path = IF u.path = <<>> THEN <<Slash>> ELSE u.path
      /\ query = IF u.query = <<>> THEN p.query_param ELSE u.query[1]
  <2>1. Without(h, HostEnds)
    <3>1. Without(u.host, HostEnds) /\ (u.port # <<>> => Without(u.port[1], HostEnds))
      BY WithoutFewer DEF IsUrl, HostEnds
    <3>2. CASE u.port = <<>>
      <4>1. h = u.host
        BY <1>2, <3>2, ConcatEmptySeq DEF WithPort
      <4> QED
        BY <3>1, <4>1
    <3>3. CASE u.port # <<>>
      <4> DEFINE c == <<Colon>>
                 x == u.port[1]
                 cx == c \o x
      <4>1. x \in Seq(Byte) /\ c \in Seq(Byte)
        BY <3>3, UrlParts
      <4>2. Without(c, HostEnds)
        BY WithoutOne DEF HostEnds, Colon, Slash, Question
      <4>3. h = u.host \o cx
        BY <3>3 DEF WithPort
      <4>4. Without(x, HostEnds)
        BY <3>1, <3>3
      <4> HIDE DEF c, x
      <4>5. cx \in Seq(Byte) /\ Without(cx, HostEnds)
        BY <4>1, <4>2, <4>4, ConcatProperties, WithoutConcat
      <4> HIDE DEF cx, h
      <4>6. Without(u.host \o cx, HostEnds)
        BY <1>2, <3>1, <4>5, WithoutConcat
      <4> QED
        BY <4>3, <4>6
    <3> QED
      BY <3>2, <3>3
  <2>2. /\ u.path # <<>> => u.path[1] = Slash /\ Without(u.path, {Question})
        /\ u.query # <<>> => u.query[1] \in Seq(Byte)
        /\ u.query # <<>> => q = <<Question>> \o u.query[1]
        /\ u.query = <<>> => q = <<>>
    BY UrlParts DEF IsUrl, Behind
  <2>3. Without(u.path, {Question})
    BY <2>2, WithoutOne
  <2>4. Question \in Byte /\ Question \in {Question}
    BY DEF Question, Byte
  <2> HIDE DEF q, h
  \* Nothing behind the host.
  <2>5. CASE u.path = <<>> /\ u.query = <<>>
    <3> DEFINE one == <<Slash>>
    <3>1. hr = h
      <4>1. r = <<>>
        BY <1>2, <2>2, <2>5, ConcatEmptySeq
      <4>2. h \o <<>> = h
        BY <1>2, ConcatEmptySeq
      <4> HIDE DEF r
      <4> QED
        BY <4>1, <4>2
    <3>2. host_pos = 0
      BY <1>5, <2>1, <3>1, FirstOfNone
    <3>3. host = h /\ tail = one
      <4> HIDE DEF host_pos, hr
      <4> QED
        BY <1>5, <3>1, <3>2
    <3>4. Without(one, {Question}) /\ one # <<>>
      BY WithoutOne DEF Slash, Question
    <3> HIDE DEF tail, host, one
    <3>5. param_pos = 0
      BY <3>3, <3>4, FirstOfNone
    <3> HIDE DEF param_pos
    <3> QED
      BY <2>5, <3>3, <3>4, <3>5 DEF one
  \* A path, a query or both.
  <2>6. CASE u.path # <<>> \/ u.query # <<>>
    <3>1. r # <<>> /\ r[1] \in HostEnds
      <4>1. CASE u.path # <<>>
        <5> DEFINE a == u.path
        <5>1. a \in Seq(Byte) /\ a # <<>> /\ a[1] = Slash
          BY <1>2, <2>2, <4>1
        <5>2. Len(a) # 0
          BY <5>1, EmptySeq
        <5> HIDE DEF a
        <5>3. (a \o q)[1] = a[1] /\ Len(a \o q) = Len(a) + Len(q)
              /\ Len(a) \in Nat /\ Len(q) \in Nat
          BY <1>2, <5>1, <5>2, EndsOfConcat
        <5>4. Len(a \o q) # 0
          BY <5>2, <5>3
        <5>5. a \o q \in Seq(Byte)
          BY <1>2, <5>1, ConcatProperties
        <5> DEFINE aq == a \o q
        <5> HIDE DEF aq
        <5>6. aq # <<>>
          BY <5>4, <5>5, EmptySeq DEF aq
        <5> QED
          BY <5>1, <5>3, <5>6 DEF aq, a, HostEnds
      <4>2. CASE u.path = <<>>
        <5>1. r = q /\ q = <<Question>> \o u.query[1]
          BY <1>2, <2>2, <2>6, <4>2, ConcatEmptySeq
        <5> DEFINE one == <<Question>>
                   x == u.query[1]
        <5>2. one \in Seq(Byte) /\ Len(one) = 1 /\ one[1] = Question /\ x \in Seq(Byte)
          BY <2>2, <2>4, <2>6, <4>2
        <5> HIDE DEF one, x
        <5>3. /\ (one \o x)[1] = one[1] /\ Len(one \o x) = Len(one) + Len(x)
              /\ Len(x) \in Nat /\ one \o x \in Seq(Byte)
          BY <5>2, EndsOfConcat, ConcatProperties
        <5> DEFINE ox == one \o x
        <5>4. ox[1] = Question /\ Len(ox) # 0
          BY <5>2, <5>3
        <5> HIDE DEF ox
        <5>5. ox # <<>>
          BY <5>4, EmptySeq
        <5>6. r = ox
          BY <5>1 DEF ox, one, x
        <5> QED
          BY <5>4, <5>5, <5>6 DEF HostEnds
      <4> QED
        BY <4>1, <4>2
    <3> HIDE DEF r
    <3>2. host_pos = Len(h) + 1
      <4>1. FindFirstOf(h \o r, HostEnds) = Len(h) + 1
        BY <1>2, <1>3, <2>1, <3>1, FirstOfConcat
      <4> QED
        BY <1>5, <4>1
    <3>3. SubSeq(hr, 1, Len(h)) = h /\ From(hr, Len(h) + 1) = r
      BY <1>2, <1>3, PartsOfConcat
    <3>4. Len(h) \in Nat /\ (Len(h) + 1) - 1 = Len(h) /\ Len(h) + 1 # 0
      BY <1>2, LenProperties
    <3> HIDE DEF hr, host_pos
    <3>5. host = h /\ tail = r
      BY <1>5, <3>2, <3>3, <3>4
    <3> HIDE DEF tail, host
    <3>6. CASE u.query = <<>>
      <4>1. r = u.path /\ u.path # <<>>
        BY <1>2, <2>2, <2>6, <3>6, ConcatEmptySeq DEF r
      <4>2. param_pos = 0
        BY <2>3, <3>5, <4>1, FirstOfNone
      <4> HIDE DEF param_pos
      <4> QED
        BY <3>5, <3>6, <4>1, <4>2
    <3>7. CASE u.query # <<>>
      <4> DEFINE x == u.query[1]
                 a == u.path
      <4>1. x \in Seq(Byte) /\ a \in Seq(Byte) /\ r = a \o (<<Question>> \o x)
        BY <1>2, <2>2, <3>7 DEF r
      <4>2. Without(a, {Question})
        BY <2>3
      <4> HIDE DEF a, x
      <4>3. /\ FindFirstOf(r, {Question}) = Len(a) + 1
            /\ SubSeq(r, 1, (Len(a) + 1) - 1) = a
            /\ From(r, (Len(a) + 1) + 1) = x
        BY <2>4, <4>1, <4>2, Divided
      <4>4. param_pos = Len(a) + 1 /\ Len(a) + 1 # 0
        BY <3>5, <4>1, <4>3, LenProperties
      <4> HIDE DEF param_pos
      <4>5. path = a /\ query = x
        BY <3>5, <4>3, <4>4
      <4> HIDE DEF path, query
      <4> QED
        BY <3>5, <3>7, <4>5 DEF a, x
    <3> QED
      BY <3>6, <3>7
  <2> QED
    BY <2>5, <2>6
<1> HIDE DEF host, full_path, query
<1>7. /\ host_part = u.host
      /\ port = IF u.port = <<>> THEN p.port ELSE PortNumber(u.port[1])
  <2>1. Without(u.host, {Colon})
    BY WithoutFewer DEF IsUrl
  <2>2. CASE u.port = <<>>
    <3>1. h = u.host
      BY <1>2, <2>2, ConcatEmptySeq DEF WithPort
    <3> HIDE DEF h
    <3>2. port_pos = 0
      BY <1>6, <2>1, <3>1, FirstOfNone
    <3> HIDE DEF port_pos
    <3> QED
      BY <1>6, <2>2, <3>1, <3>2
  <2>3. CASE u.port # <<>>
    <3> DEFINE x == u.port[1]
               a == u.host
    <3>1. x \in Seq(Byte) /\ a \in Seq(Byte) /\ h = a \o (<<Colon>> \o x)
      BY <1>2, <2>3, UrlParts DEF WithPort
    <3>2. Without(a, {Colon}) /\ Colon \in Byte /\ Colon \in {Colon}
      BY <2>1 DEF Colon, Byte
    <3> HIDE DEF a, x, h
    <3>3. /\ FindFirstOf(h, {Colon}) = Len(a) + 1
          /\ SubSeq(h, 1, (Len(a) + 1) - 1) = a
          /\ From(h, (Len(a) + 1) + 1) = x
      BY <3>1, <3>2, Divided
    <3>4. port_pos = Len(a) + 1 /\ Len(a) + 1 # 0
      BY <1>6, <3>1, <3>3, LenProperties
    <3> HIDE DEF port_pos
    <3>5. host_part = a /\ port = PortNumber(x)
      BY <1>6, <3>3, <3>4
    <3> HIDE DEF host_part, port
    <3> QED
      BY <2>3, <3>5 DEF a, x
  <2> QED
    BY <2>2, <2>3
<1> HIDE DEF host_part, port
<1>8. parse(p, url) =
        [proto |-> IF u.proto = <<>> THEN p.proto ELSE to_lower(u.proto[1]),
         host_all |-> WithPort(u), host_part |-> u.host,
         port |-> IF u.port = <<>> THEN p.port ELSE PortNumber(u.port[1]),
         path |-> IF u.path = <<>> THEN <<Slash>> ELSE u.path,
         query_param |-> IF u.query = <<>> THEN p.query_param ELSE u.query[1]]
  BY <1>1, <1>5, <1>6, <1>7
<1> QED
  BY <1>8 DEF url, ParsedUrl
-----------------------------------------------------------------------------
\* Finitely many keys can be put in an order that has each of them.
LEMMA InOrderIs ==
    ASSUME NEW S, IsFiniteSet(S)
    PROVE  /\ Cardinality(S) \in Nat
           /\ InOrder(S) \in [1..Cardinality(S) -> S]
           /\ \A key \in S : \E i \in DOMAIN InOrder(S) : InOrder(S)[i] = key
<1> DEFINE n == Cardinality(S)
           IsOrder(order) ==
                /\ order \in [1..n -> S]
                /\ \A key \in S : \E i \in DOMAIN order : order[i] = key
<1>1. n \in Nat /\ ExistsBijection(1..n, S)
  BY FS_CardinalityType
<1> HIDE DEF n
<1>2. PICK f : f \in Bijection(1..n, S)
  BY <1>1 DEF ExistsBijection
<1>3. f \in Surjection(1..n, S)
  BY <1>2 DEF Bijection
<1>4. IsOrder(f)
  BY <1>3 DEF Surjection
<1>5. InOrder(S) = CHOOSE order \in [1..n -> S] :
                     \A key \in S : \E i \in DOMAIN order : order[i] = key
  BY DEF InOrder, n
<1>6. IsOrder(CHOOSE order \in [1..n -> S] :
                \A key \in S : \E i \in DOMAIN order : order[i] = key)
  BY <1>4
<1> QED
  BY <1>1, <1>5, <1>6 DEF n

\* The pairs of a map, in the order of its keys.
Pairs(kv) ==
    [i \in DOMAIN InOrder(DOMAIN kv) |->
        Append(InOrder(DOMAIN kv)[i], Equals) \o kv[InOrder(DOMAIN kv)[i]]]

\* They are texts, and the pair of each key is among them.
LEMMA PairsType ==
    ASSUME NEW kv, IsParams(kv)
    PROVE  /\ Pairs(kv) \in Seq(Seq(Byte))
           /\ \A i \in 1..Len(Pairs(kv)) : \E key \in DOMAIN kv :
                Pairs(kv)[i] = Append(key, Equals) \o kv[key]
           /\ \A key \in DOMAIN kv : \E i \in 1..Len(Pairs(kv)) :
                Pairs(kv)[i] = Append(key, Equals) \o kv[key]
<1> DEFINE S == DOMAIN kv
           n == Cardinality(S)
           o == InOrder(S)
           Pair(key) == Append(key, Equals) \o kv[key]
<1>1. /\ n \in Nat /\ o \in [1..n -> S]
      /\ \A key \in S : \E i \in DOMAIN o : o[i] = key
  BY InOrderIs DEF IsParams
<1>2. \A key \in S : Pair(key) \in Seq(Byte)
  <2>1. \A key \in S : key \in Seq(Byte) /\ kv[key] \in Seq(Byte)
    BY DEF IsParams
  <2>2. Equals \in Byte
    BY DEF Equals, Byte
  <2>3. ASSUME NEW k \in Seq(Byte), NEW v \in Seq(Byte)
        PROVE  Append(k, Equals) \o v \in Seq(Byte)
    BY <2>2, AppendProperties, ConcatProperties
  <2> QED
    BY <2>1, <2>3
<1>3. Pairs(kv) = [i \in 1..n |-> Pair(o[i])]
  BY <1>1 DEF Pairs
<1> HIDE DEF Pair, o, n, S
<1>4. Pairs(kv) \in [1..n -> Seq(Byte)]
  BY <1>1, <1>2, <1>3
<1>5. Pairs(kv) \in Seq(Seq(Byte)) /\ Len(Pairs(kv)) = n
  BY <1>1, <1>4, SeqDef, LenProperties
<1>6. \A i \in 1..n : \E key \in S : Pairs(kv)[i] = Pair(key)
  BY <1>1, <1>3
<1>7. \A key \in S : \E i \in 1..n : Pairs(kv)[i] = Pair(key)
  BY <1>1, <1>3
<1> QED
  BY <1>5, <1>6, <1>7 DEF S, Pair

\* A sequence that is not empty has a last element.
LEMMA LastApart ==
    ASSUME NEW T, NEW s \in Seq(T), s # <<>>
    PROVE  \E front \in Seq(T), last \in T : s = Append(front, last)
<1> DEFINE n == Len(s)
           front == SubSeq(s, 1, n - 1)
<1>1. n \in Nat /\ n # 0
  BY EmptySeq
<1>2. front \in Seq(T) /\ s[n] \in T
  <2>1. \A i \in 1..n : s[i] \in T
    BY ElementOfSeq
  <2>2. \A i \in 1..(n - 1) : s[i] \in T
    BY <1>1, <2>1
  <2>3. 1 \in Int /\ n - 1 \in Int
    BY <1>1
  <2> HIDE DEF n
  <2> QED
    BY <1>1, <2>1, <2>2, <2>3, SubSeqProperties
<1>3. s = front \o <<s[n]>>
  <2>1. 1 \in 1..n /\ n \in 1..n
    BY <1>1
  <2>2. SubSeq(s, 1, n) = front \o <<s[n]>>
    BY <2>1, SubSeqRecursiveSecond
  <2>3. SubSeq(s, 1, n) = s
    BY SubSeqFull
  <2> QED
    BY <2>2, <2>3
<1>4. Append(front, s[n]) = front \o <<s[n]>>
  <2> HIDE DEF front, n
  <2> QED
    BY <1>2, AppendIsConcat
<1> QED
  BY <1>2, <1>3, <1>4

\* A query: the last separator is erased.
LEMMA BuildIs ==
    ASSUME NEW kv, IsParams(kv)
    PROVE  LET s == Terminated(Pairs(kv), Ampersand) IN
           /\ build_kv_string(kv) = SubSeq(s, 1, Len(s) - 1)
           /\ build_kv_string(kv) \in Seq(Byte)
<1> DEFINE s == Terminated(Pairs(kv), Ampersand)
<1>1. build_kv_string(kv) = SubSeq(s, 1, Len(s) - 1)
  BY DEF build_kv_string, Pairs
<1>2. s \in Seq(Byte)
  <2>1. Ampersand \in Byte
    BY DEF Ampersand, Byte
  <2>2. Pairs(kv) \in Seq(Seq(Byte))
    BY PairsType
  <2> QED
    BY <2>1, <2>2, TerminatedIs
<1> HIDE DEF s
<1>3. SubSeq(s, 1, Len(s) - 1) \in Seq(Byte)
  <2>1. Len(s) \in Nat
    BY <1>2, LenProperties
  <2>2. CASE Len(s) = 0
    <3>1. SubSeq(s, 1, Len(s) - 1) = <<>>
      BY <2>2, SubSeqEmpty
    <3> QED
      BY <3>1, EmptySeq
  <2>3. CASE Len(s) # 0
    <3>1. \A i \in 1..(Len(s) - 1) : s[i] \in Byte
      BY <1>2, <2>1, <2>3, ElementOfSeq
    <3> QED
      BY <1>2, <2>1, <2>3, SubSeqProperties
  <2> QED
    BY <2>2, <2>3
<1> QED
  BY <1>1, <1>3 DEF s

\* The query of a map is empty or, behind its pairs but the last one, each
\* with the separator behind it, it has the last pair.
LEMMA BuildSplits ==
    ASSUME NEW kv, IsParams(kv), DOMAIN kv # {}
    PROVE  \E front \in Seq(Seq(Byte)), last \in Seq(Byte) :
            /\ Pairs(kv) = Append(front, last)
            /\ build_kv_string(kv) = Terminated(front, Ampersand) \o last
<1> DEFINE ps == Pairs(kv)
           s == Terminated(ps, Ampersand)
<1>1. ps \in Seq(Seq(Byte)) /\ ps # <<>>
  <2>1. ps \in Seq(Seq(Byte))
    BY PairsType
  <2>2. PICK key : key \in DOMAIN kv
    OBVIOUS
  <2>3. PICK i : i \in 1..Len(ps)
    BY <2>2, PairsType
  <2> QED
    BY <2>1, <2>3, EmptySeq
<1>2. PICK front \in Seq(Seq(Byte)), last \in Seq(Byte) : ps = Append(front, last)
  <2> HIDE DEF ps
  <2> QED
    BY <1>1, LastApart
<1> DEFINE t == Terminated(front, Ampersand)
           e == Append(last, Ampersand)
<1>3. t \in Seq(Byte) /\ s = t \o e
  <2>1. Ampersand \in Byte
    BY DEF Ampersand, Byte
  <2>2. /\ t \in Seq(Byte)
        /\ Terminated(Append(front, last), Ampersand)
             = Terminated(front, Ampersand) \o Append(last, Ampersand)
    <3>1. front \in Seq(Seq(Byte)) /\ last \in Seq(Byte)
      BY <1>2
    <3> QED
      BY <2>1, <3>1, TerminatedIs
  <2>3. s = Terminated(Append(front, last), Ampersand)
    BY <1>2
  <2> HIDE DEF s
  <2> QED
    BY <2>2, <2>3
<1>4. build_kv_string(kv) = SubSeq(s, 1, Len(s) - 1)
  BY BuildIs
<1>5. SubSeq(t \o e, 1, Len(t \o e) - 1) = t \o last
  <2> DEFINE tl == t \o last
             one == <<Ampersand>>
  <2> HIDE DEF t
  <2>1. one \in Seq(Byte) /\ Len(one) = 1
    BY DEF Ampersand, Byte
  <2>2. e = last \o one
    BY <1>2, AppendIsConcat DEF Ampersand, Byte
  <2> HIDE DEF one
  <2>3. tl \in Seq(Byte) /\ t \o e = tl \o one
    <3>1. t \in Seq(Byte) /\ last \in Seq(Byte)
      BY <1>2, <1>3
    <3>2. (t \o last) \o one = t \o (last \o one)
      <4>1. one \in Seq(Byte)
        BY <2>1
      <4> QED
        BY <3>1, <4>1, ConcatAssociative
    <3>3. tl \in Seq(Byte)
      BY <3>1, ConcatProperties
    <3> QED
      BY <2>2, <3>2, <3>3
  <2> HIDE DEF tl, e
  <2>4. Len(tl \o one) = Len(tl) + 1 /\ Len(tl) \in Nat
    <3>1. Len(tl \o one) = Len(tl) + Len(one) /\ Len(tl) \in Nat
      <4>1. tl \in Seq(Byte)
        BY <2>3
      <4> QED
        BY <2>1, <4>1, EndsOfConcat
    <3> QED
      BY <2>1, <3>1
  <2>5. SubSeq(tl \o one, 1, Len(tl)) = tl
    BY <2>1, <2>3, PartsOfConcat
  <2>6. (Len(tl) + 1) - 1 = Len(tl)
    BY <2>4
  <2> QED
    BY <2>3, <2>4, <2>5, <2>6 DEF tl
<1> QED
  BY <1>2, <1>3, <1>4, <1>5

\* Different texts are encoded differently.
LEMMA EncodeInjective ==
    ASSUME NEW s \in Seq(Byte), NEW t \in Seq(Byte),
           url_encode(s) = url_encode(t)
    PROVE  s = t
  BY TextRoundTrip

\* The encoded parameters are parameters too, have a pair for each of the
\* parameters, and nothing that divides a query in any text.
LEMMA EncodedIs ==
    ASSUME NEW ps, IsParams(ps)
    PROVE  /\ IsParams(Encoded(ps))
           /\ \A key \in DOMAIN ps :
                /\ url_encode(key) \in DOMAIN Encoded(ps)
                /\ Encoded(ps)[url_encode(key)] = url_encode(ps[key])
           /\ \A k \in DOMAIN Encoded(ps) :
                Without(k, Separators) /\ Without(Encoded(ps)[k], Separators)
<1> DEFINE S == DOMAIN ps
           E == {url_encode(key) : key \in S}
           Of(k) == CHOOSE key \in S : url_encode(key) = k
<1>1. IsFiniteSet(S) /\ S \subseteq Seq(Byte) /\ ps \in [S -> Seq(Byte)]
  BY DEF IsParams
<1>2. \A s \in Seq(Byte) : /\ url_encode(s) \in Seq(Byte)
                           /\ Without(url_encode(s), Separators)
  BY EncodeIs, EncodedWithout
<1>3. Encoded(ps) = [k \in E |-> url_encode(ps[Of(k)])]
  BY DEF Encoded
<1>4. \A k \in E : Of(k) \in S /\ url_encode(Of(k)) = k
  OBVIOUS
<1> HIDE DEF Of
<1>5. \A key \in S : url_encode(key) \in E /\ Of(url_encode(key)) = key
  <2>1. \A key \in S : url_encode(key) \in E
    OBVIOUS
  <2>2. \A s \in Seq(Byte), t \in Seq(Byte) :
            url_encode(s) = url_encode(t) => s = t
    BY EncodeInjective
  <2> HIDE DEF E, S
  <2> QED
    BY <1>1, <1>4, <2>1, <2>2
<1>6. IsFiniteSet(E)
  <2> DEFINE f == [key \in S |-> url_encode(key)]
  <2>1. f \in Surjection(S, E)
    BY DEF Surjection
  <2> HIDE DEF f, E, S
  <2> QED
    BY <1>1, <2>1, FS_Surjection
<1>7. E \subseteq Seq(Byte) /\ \A k \in E : Without(k, Separators)
  BY <1>1, <1>2
<1> HIDE DEF E, S
<1>8. \A k \in E : ps[Of(k)] \in Seq(Byte)
  BY <1>1, <1>4
<1>9. \A k \in E : /\ Encoded(ps)[k] \in Seq(Byte)
                   /\ Without(Encoded(ps)[k], Separators)
  BY <1>2, <1>3, <1>8
<1>10. DOMAIN Encoded(ps) = E /\ Encoded(ps) \in [E -> Seq(Byte)]
  BY <1>2, <1>3, <1>8
<1>11. IsParams(Encoded(ps))
  BY <1>6, <1>7, <1>10 DEF IsParams
<1>12. \A key \in S : Encoded(ps)[url_encode(key)] = url_encode(ps[key])
  BY <1>3, <1>5
<1> QED
  BY <1>5, <1>7, <1>9, <1>10, <1>11, <1>12 DEF S

-----------------------------------------------------------------------------
\* The lower case of a text is a text, and empty only if the text is.
LEMMA LowerIs ==
    ASSUME NEW s \in Seq(Byte)
    PROVE  to_lower(s) \in Seq(Byte) /\ (to_lower(s) = <<>> <=> s = <<>>)
<1>1. Len(s) \in Nat /\ DOMAIN s = 1..Len(s) /\ \A i \in 1..Len(s) : s[i] \in Byte
  BY LenProperties
<1>2. \A b \in Byte : (IF b \in UpperCase THEN b + 32 ELSE b) \in Byte
  BY DEF Byte, UpperCase
<1>3. to_lower(s) \in [1..Len(s) -> Byte]
  <2> HIDE DEF Byte
  <2> QED
    BY <1>1, <1>2 DEF to_lower
<1>4. to_lower(s) \in Seq(Byte) /\ Len(to_lower(s)) = Len(s)
  BY <1>1, <1>3, SeqDef, LenProperties
<1> HIDE DEF to_lower
<1> QED
  BY <1>4, EmptySeq

\* The host and the port of a url have no question mark.
LEMMA WithPortPlain ==
    ASSUME NEW u, IsUrl(u)
    PROVE  WithPort(u) \in Seq(Byte) /\ Without(WithPort(u), {Question})
<1> DEFINE B == {Question}
<1>1. WithPort(u) \in Seq(Byte) /\ u.host \in Seq(Byte)
  BY UrlParts
<1>2. Without(u.host, B) /\ (u.port # <<>> => Without(u.port[1], B))
  BY WithoutFewer DEF IsUrl
<1>3. CASE u.port = <<>>
  <2>1. WithPort(u) = u.host
    BY <1>1, <1>3, ConcatEmptySeq DEF WithPort
  <2> QED
    BY <1>1, <1>2, <2>1
<1>4. CASE u.port # <<>>
  <2> DEFINE c == <<Colon>>
             x == u.port[1]
             cx == c \o x
  <2>1. x \in Seq(Byte) /\ c \in Seq(Byte)
    BY <1>4, UrlParts
  <2>2. Without(c, B)
    BY WithoutOne DEF Colon, Question
  <2>3. WithPort(u) = u.host \o cx
    BY <1>4 DEF WithPort
  <2>4. Without(x, B)
    BY <1>2, <1>4
  <2> HIDE DEF c, x, B
  <2>5. cx \in Seq(Byte) /\ Without(cx, B)
    BY <2>1, <2>2, <2>4, ConcatProperties, WithoutConcat
  <2> HIDE DEF cx
  <2>6. Without(u.host \o cx, B)
    BY <1>1, <1>2, <2>5, WithoutConcat
  <2> QED
    BY <1>1, <2>3, <2>6 DEF B
<1> QED
  BY <1>3, <1>4

\* The lower case of a text has a question mark only if the text has one.
LEMMA LowerWithout ==
    ASSUME NEW s \in Seq(Byte), Without(s, {Question})
    PROVE  Without(to_lower(s), {Question})
<1>1. DOMAIN to_lower(s) = DOMAIN s
  BY DEF to_lower
<1>2. ASSUME NEW i \in DOMAIN s
      PROVE  to_lower(s)[i] # Question
  <2>1. s[i] # Question
    BY DEF Without
  <2>2. \A c \in UpperCase : c + 32 # Question
    BY DEF UpperCase, Question
  <2> QED
    BY <2>1, <2>2 DEF to_lower
<1> QED
  BY <1>1, <1>2 DEF Without

-----------------------------------------------------------------------------
\* The number of bytes at the start is one of the lengths up to the text's.
LEMMA LeadingIs ==
    ASSUME NEW s \in Seq(Byte), NEW bytes
    PROVE  /\ Leading(s, bytes) \in 0..Len(s)
           /\ (\A i \in DOMAIN s : s[i] \in bytes) => Leading(s, bytes) = Len(s)
           /\ (s # <<>> /\ s[1] \notin bytes) => Leading(s, bytes) = 0
<1> DEFINE others == {i \in DOMAIN s : s[i] \notin bytes}
<1>1. /\ Leading(s, bytes) = IF others = {} THEN Len(s) ELSE Min(others) - 1
      /\ Len(s) \in Nat /\ others \subseteq 1..Len(s)
      /\ (\A i \in DOMAIN s : s[i] \in bytes) => others = {}
      /\ (s # <<>> /\ s[1] \notin bytes) => 1 \in others
  BY LenProperties, EmptySeq DEF Leading
<1> HIDE DEF others
<1>2. CASE others = {}
  BY <1>1, <1>2
<1>3. CASE others # {}
  <2> DEFINE m == Min(others)
  <2>1. /\ m \in others /\ \A i \in others : m <= i
    <3>1. \A n \in Nat : others \subseteq 1..n =>
                            /\ Min(others) \in others
                            /\ \A i \in others : Min(others) <= i
      BY <1>3, MinIs
    <3> QED
      BY <1>1, <3>1
  <2> HIDE DEF m
  <2>2. Leading(s, bytes) = m - 1
    BY <1>1, <1>3 DEF m
  <2>3. m \in 1..Len(s) /\ Len(s) \in Nat /\ (1 \in others => m <= 1)
    BY <1>1, <2>1
  <2>4. Leading(s, bytes) \in 0..Len(s)
    BY <2>2, <2>3
  <2>5. 1 \in others => Leading(s, bytes) = 0
    BY <2>2, <2>3
  <2> QED
    BY <1>1, <1>3, <2>4, <2>5
<1> QED
  BY <1>2, <1>3

\* A remainder is below what divides, and a number below it is its own.
LEMMA Remainder ==
    ASSUME NEW M \in Nat, M > 0, NEW x \in Int
    PROVE  /\ x % M \in 0..(M - 1)
           /\ x \in 0..(M - 1) => x % M = x
  BY SMT

LEMMA ShortMax == USHRT_MAX \in Nat /\ USHRT_MAX >= 9999
  BY DEF USHRT_MAX

\* A digit more, exactly while the number has room in an unsigned short.
LEMMA DigitMore ==
    ASSUME NEW v \in UShort, NEW b \in Digits
    PROVE  /\ DigitStep[v][b] \in UShort
           /\ 10 * v + (b - 48) <= USHRT_MAX
                => DigitStep[v][b] = 10 * v + (b - 48)
<1> DEFINE M == USHRT_MAX + 1
           x == 10 * v + (b - 48)
<1>1. M \in Nat /\ M > 0 /\ M - 1 = USHRT_MAX
  BY ShortMax
<1>2. x \in Int /\ x >= 0
  BY ShortMax DEF UShort, Digits
<1>3. DigitStep[v][b] = x % M
  BY DEF DigitStep
<1> HIDE DEF x, M
<1>4. x % M \in 0..(M - 1) /\ (x \in 0..(M - 1) => x % M = x)
  BY <1>1, <1>2, Remainder
<1>5. x <= USHRT_MAX => x \in 0..(M - 1)
  BY <1>1, <1>2, ShortMax
<1> QED
  BY <1>1, <1>3, <1>4, <1>5 DEF x, UShort

LEMMA DigitStepIs == IsStep(DigitStep, UShort, Digits) /\ 0 \in UShort
<1>1. \A v \in UShort, b \in Digits : DigitStep[v][b] \in UShort
  BY DigitMore
<1>2. 0 \in UShort
  BY ShortMax DEF UShort
<1>3. DigitStep = [v \in UShort |-> [b \in Digits |-> DigitStep[v][b]]]
  BY DEF DigitStep
<1>4. DigitStep \in [UShort -> [Digits -> UShort]]
  BY <1>1, <1>3
<1> QED
  BY <1>2, <1>4 DEF IsStep

\* The digits of a port are read as its number.
LEMMA DigitsRead ==
    ASSUME NEW text \in Seq(Digits), IsPort(text)
    PROVE  Fold(DigitStep, 0, text) = PortGiven(text)
<1> DEFINE m == Len(text)
           d(i) == text[i] - 48
<1>1. IsStep(DigitStep, UShort, Digits) /\ 0 \in UShort
  BY DigitStepIs
<1>2. PICK f \in Folds(UShort, DigitStep, 0, text) :
        Fold(DigitStep, 0, text) = f[m]
  BY <1>1, FoldSteps
<1>3. /\ f[0] = 0 /\ \A i \in 0..m : f[i] \in UShort
      /\ \A i \in 1..m : f[i] = DigitStep[f[i - 1]][text[i]]
  BY <1>2 DEF Folds
<1>4. m \in 1..5 /\ PortGiven(text) \in 1..USHRT_MAX
  BY DEF IsPort
<1>5. \A i \in 1..m : text[i] \in Digits
  BY ElementOfSeq
<1>6. \A i \in 1..m : d(i) \in 0..9
  BY <1>5 DEF Digits
<1>7. ASSUME NEW i \in 1..m, 10 * f[i - 1] + d(i) <= USHRT_MAX
      PROVE  f[i] = 10 * f[i - 1] + d(i)
  <2>1. i - 1 \in 0..m
    BY <1>4
  <2> QED
    BY <1>3, <1>5, <1>7, <2>1, DigitMore
<1>8. PortGiven(text) =
        (IF 1 <= m THEN d(m) ELSE 0) + 10 * (IF 2 <= m THEN d(m - 1) ELSE 0)
          + 100 * (IF 3 <= m THEN d(m - 2) ELSE 0)
          + 1000 * (IF 4 <= m THEN d(m - 3) ELSE 0)
          + 10000 * (IF 5 <= m THEN d(m - 4) ELSE 0)
  BY <1>4 DEF PortGiven, Digit
<1>9. USHRT_MAX \in Nat /\ USHRT_MAX >= 9999
  BY ShortMax
<1>10. Fold(DigitStep, 0, text) = f[m]
  BY <1>2
<1> HIDE DEF m, d
<1>11. f[1] = d(1)
  <2>1. 1 \in 1..m /\ 1 - 1 = 0 /\ d(1) \in 0..9
    BY <1>4, <1>6
  <2>2. 10 * f[1 - 1] + d(1) = d(1) /\ d(1) <= USHRT_MAX
    BY <1>3, <1>9, <2>1
  <2> QED
    BY <1>7, <2>1, <2>2
<1>12. m >= 2 => f[2] = 10 * d(1) + d(2)
  <2> SUFFICES ASSUME m >= 2 PROVE f[2] = 10 * d(1) + d(2)
    OBVIOUS
  <2>1. 2 \in 1..m /\ 2 - 1 = 1 /\ d(1) \in 0..9 /\ d(2) \in 0..9
    BY <1>4, <1>6
  <2>2. /\ 10 * f[2 - 1] + d(2) = 10 * d(1) + d(2)
        /\ 10 * d(1) + d(2) <= USHRT_MAX
    BY <1>11, <1>9, <2>1
  <2> QED
    BY <1>7, <2>1, <2>2
<1>13. m >= 3 => f[3] = 100 * d(1) + 10 * d(2) + d(3)
  <2> SUFFICES ASSUME m >= 3 PROVE f[3] = 100 * d(1) + 10 * d(2) + d(3)
    OBVIOUS
  <2>1. /\ 3 \in 1..m /\ 3 - 1 = 2
        /\ d(1) \in 0..9 /\ d(2) \in 0..9 /\ d(3) \in 0..9
    BY <1>4, <1>6
  <2>2. f[3 - 1] = 10 * d(1) + d(2)
    BY <1>4, <1>12, <2>1
  <2>3. /\ 10 * (10 * d(1) + d(2)) + d(3) = 100 * d(1) + 10 * d(2) + d(3)
        /\ 100 * d(1) + 10 * d(2) + d(3) <= USHRT_MAX
    <3> DEFINE a == d(1)
               b == d(2)
               c == d(3)
    <3>1. a \in 0..9 /\ b \in 0..9 /\ c \in 0..9
      BY <2>1
    <3> HIDE DEF a, b, c
    <3>2. /\ 10 * (10 * a + b) + c = 100 * a + 10 * b + c
        /\ 100 * a + 10 * b + c <= USHRT_MAX
      BY <1>9, <3>1
    <3> QED
      BY <3>2 DEF a, b, c
  <2> QED
    BY <1>7, <2>1, <2>2, <2>3
<1>14. m >= 4 => f[4] = 1000 * d(1) + 100 * d(2) + 10 * d(3) + d(4)
  <2> SUFFICES ASSUME m >= 4
               PROVE  f[4] = 1000 * d(1) + 100 * d(2) + 10 * d(3) + d(4)
    OBVIOUS
  <2>1. /\ 4 \in 1..m /\ 4 - 1 = 3
        /\ d(1) \in 0..9 /\ d(2) \in 0..9 /\ d(3) \in 0..9 /\ d(4) \in 0..9
    BY <1>4, <1>6
  <2>2. f[4 - 1] = 100 * d(1) + 10 * d(2) + d(3)
    BY <1>4, <1>13, <2>1
  <2>3. /\ 10 * (100 * d(1) + 10 * d(2) + d(3)) + d(4)
            = 1000 * d(1) + 100 * d(2) + 10 * d(3) + d(4)
        /\ 1000 * d(1) + 100 * d(2) + 10 * d(3) + d(4) <= USHRT_MAX
    <3> DEFINE a == d(1)
               b == d(2)
               c == d(3)
               e == d(4)
    <3>1. a \in 0..9 /\ b \in 0..9 /\ c \in 0..9 /\ e \in 0..9
      BY <2>1
    <3> HIDE DEF a, b, c, e
    <3>2. /\ 10 * (100 * a + 10 * b + c) + e
            = 1000 * a + 100 * b + 10 * c + e
        /\ 1000 * a + 100 * b + 10 * c + e <= USHRT_MAX
      BY <1>9, <3>1
    <3> QED
      BY <3>2 DEF a, b, c, e
  <2> QED
    BY <1>7, <2>1, <2>2, <2>3
<1>15. CASE m = 1
  <2>1. d(1) \in 0..9
    BY <1>6, <1>15
  <2> QED
    BY <1>8, <1>11, <1>15, <1>10, <2>1
<1>16. CASE m = 2
  <2>1. d(1) \in 0..9 /\ d(2) \in 0..9 /\ d(m - 1) = d(1)
    BY <1>6, <1>16
  <2> QED
    BY <1>8, <1>12, <1>16, <1>10, <2>1
<1>17. CASE m = 3
  <2>1. /\ d(1) \in 0..9 /\ d(2) \in 0..9 /\ d(3) \in 0..9
        /\ d(m - 1) = d(2) /\ d(m - 2) = d(1)
    BY <1>6, <1>17
  <2>2. PortGiven(text) = d(3) + 10 * d(2) + 100 * d(1) + 1000 * 0 + 10000 * 0
    BY <1>8, <1>17, <2>1
  <2>3. d(3) + 10 * d(2) + 100 * d(1) + 1000 * 0 + 10000 * 0
            = 100 * d(1) + 10 * d(2) + d(3)
    <3> DEFINE a == d(1)
               b == d(2)
               c == d(3)
    <3>1. a \in 0..9 /\ b \in 0..9 /\ c \in 0..9
      BY <2>1
    <3> HIDE DEF a, b, c
    <3>2. /\ c + 10 * b + 100 * a + 1000 * 0 + 10000 * 0 = 100 * a + 10 * b + c
      BY <3>1
    <3> QED
      BY <3>2 DEF a, b, c
  <2> QED
    BY <1>13, <1>17, <1>10, <2>2, <2>3
<1>18. CASE m = 4
  <2>1. /\ d(1) \in 0..9 /\ d(2) \in 0..9 /\ d(3) \in 0..9 /\ d(4) \in 0..9
        /\ d(m - 1) = d(3) /\ d(m - 2) = d(2) /\ d(m - 3) = d(1)
    BY <1>6, <1>18
  <2>2. PortGiven(text) = d(4) + 10 * d(3) + 100 * d(2) + 1000 * d(1) + 10000 * 0
    BY <1>8, <1>18, <2>1
  <2>3. d(4) + 10 * d(3) + 100 * d(2) + 1000 * d(1) + 10000 * 0
            = 1000 * d(1) + 100 * d(2) + 10 * d(3) + d(4)
    <3> DEFINE a == d(1)
               b == d(2)
               c == d(3)
               e == d(4)
    <3>1. a \in 0..9 /\ b \in 0..9 /\ c \in 0..9 /\ e \in 0..9
      BY <2>1
    <3> HIDE DEF a, b, c, e
    <3>2. /\ e + 10 * c + 100 * b + 1000 * a + 10000 * 0
            = 1000 * a + 100 * b + 10 * c + e
      BY <3>1
    <3> QED
      BY <3>2 DEF a, b, c, e
  <2> QED
    BY <1>14, <1>18, <1>10, <2>2, <2>3
<1>19. CASE m = 5
  <2>1. /\ d(m - 1) = d(4) /\ d(m - 2) = d(3) /\ d(m - 3) = d(2)
        /\ d(m - 4) = d(1)
    BY <1>19
  <2>2. /\ d(1) \in 0..9 /\ d(2) \in 0..9 /\ d(3) \in 0..9 /\ d(4) \in 0..9
        /\ d(5) \in 0..9
    BY <1>6, <1>19
  <2>3. PortGiven(text) = 10 * f[4] + d(5)
    <3>1. PortGiven(text)
            = d(5) + 10 * d(4) + 100 * d(3) + 1000 * d(2) + 10000 * d(1)
      BY <1>8, <1>19, <2>1
    <3>2. d(5) + 10 * d(4) + 100 * d(3) + 1000 * d(2) + 10000 * d(1)
            = 10 * (1000 * d(1) + 100 * d(2) + 10 * d(3) + d(4)) + d(5)
      <4> DEFINE a == d(1)
                 b == d(2)
                 c == d(3)
                 e == d(4)
                 g == d(5)
      <4>1. a \in 0..9 /\ b \in 0..9 /\ c \in 0..9 /\ e \in 0..9 /\ g \in 0..9
        BY <2>2
      <4> HIDE DEF a, b, c, e, g
      <4>2. /\ g + 10 * e + 100 * c + 1000 * b + 10000 * a
              = 10 * (1000 * a + 100 * b + 10 * c + e) + g
        BY <4>1
      <4> QED
        BY <4>2 DEF a, b, c, e, g
    <3>3. f[4] = 1000 * d(1) + 100 * d(2) + 10 * d(3) + d(4)
      BY <1>14, <1>19
    <3> QED
      BY <3>1, <3>2, <3>3
  <2>4. f[5] = 10 * f[4] + d(5)
    <3>1. 5 \in 1..m /\ 5 - 1 = 4
      BY <1>19
    <3>2. 10 * f[5 - 1] + d(5) <= USHRT_MAX
      BY <1>4, <1>9, <2>3, <3>1
    <3> QED
      BY <1>7, <3>1, <3>2
  <2> QED
    BY <1>19, <1>10, <2>3, <2>4
<1> QED
  BY <1>4, <1>15, <1>16, <1>17, <1>18, <1>19

\* A text of at most five digits is its own number, and none that is too large.
LEMMA ShortText ==
    ASSUME NEW text \in Seq(Digits), Len(text) <= 5
    PROVE  /\ text \in Seq(Byte) /\ ~TooLarge(text)
           /\ PortNumber(text) = Fold(DigitStep, 0, text)
<1> DEFINE m == Len(text)
<1>1. /\ m \in Nat /\ DOMAIN text = 1..m /\ m <= 5
      /\ \A i \in 1..m : text[i] \in Digits
      /\ m = 0 => text = <<>>
  BY LenProperties, ElementOfSeq, EmptySeq
<1>2. text \in Seq(Byte)
  <2>1. Digits \subseteq Byte
    BY DEF Digits, Byte
  <2> QED
    BY <2>1
<1>3. SubSeq(text, 1, m) = text
  BY SubSeqProperties, <1>1
<1>4. From(text, 1) = text
  BY <1>3 DEF From
<1>5. Leading(text, White) = 0
  <2>1. CASE text = <<>>
    <3>1. Leading(text, White) \in 0..Len(text) /\ Len(text) = 0
      BY <1>2, <2>1, LeadingIs, EmptySeq
    <3> QED
      BY <3>1
  <2>2. CASE text # <<>>
    <3>1. 1 \in 1..m
      BY <1>1, <2>2
    <3>2. text[1] \notin White
      BY <1>1, <3>1 DEF White, Space, Digits
    <3> QED
      BY <1>2, <2>2, <3>2, LeadingIs
  <2> QED
    BY <2>1, <2>2
<1>6. Leading(text, Digits) = m
  BY <1>1, <1>2, LeadingIs
<1>7. ~(text # <<>> /\ text[1] \in {Plus, Minus})
  <2>1. text # <<>> => 1 \in 1..m
    BY <1>1
  <2> QED
    BY <1>1, <2>1 DEF Plus, Minus, Digits
<1>8. ~TooLarge(text)
  <2> DEFINE k == Leading(text, {48})
             n == From(text, k + 1)
  <2>1. k \in 0..m
    BY <1>2, LeadingIs
  <2>2. Len(n) <= 5 /\ Len(n) \in Nat
    <3> HIDE DEF k
    <3>1. Len(SubSeq(text, k + 1, m)) = m - k
      <4>1. \A i \in (k + 1)..m : text[i] \in Digits
        BY <1>1, <2>1
      <4>2. k + 1 \in Int /\ m \in Int
        BY <1>1, <2>1
      <4> DEFINE size == IF k + 1 <= m THEN m - (k + 1) + 1 ELSE 0
      <4>3. Len(SubSeq(text, k + 1, m)) = size
        BY <4>1, <4>2, SubSeqProperties
      <4>4. m - k = size
        <5> HIDE DEF m
        <5> QED
          BY <1>1, <2>1
      <4> HIDE DEF size
      <4> QED
        BY <4>3, <4>4
    <3>2. Len(n) = m - k
      BY <3>1 DEF From
    <3>3. m - k \in Nat /\ m - k <= 5
      <4> HIDE DEF m
      <4> QED
        BY <1>1, <2>1
    <3> HIDE DEF n, m
    <3> QED
      BY <3>2, <3>3
  <2>3. Len(ULONG_MAX) = 20
    BY DEF ULONG_MAX
  <2> HIDE DEF n
  <2>4. ~(Len(n) > Len(ULONG_MAX)) /\ Len(n) # Len(ULONG_MAX)
    <3> DEFINE size == Len(n)
    <3> HIDE DEF size
    <3>1. size \in Nat /\ size <= 5
      BY <2>2 DEF size
    <3>2. ~(size > 20) /\ size # 20
      BY <3>1
    <3> QED
      BY <2>3, <3>2 DEF size
  <2> QED
    BY <2>4 DEF TooLarge, n
<1>9. PortNumber(text) = Fold(DigitStep, 0, text)
  <2>1. From(text, Leading(text, White) + 1) = text
    BY <1>4, <1>5
  <2>2. SubSeq(text, 1, Leading(text, Digits)) = text
    BY <1>3, <1>6
  <2> HIDE DEF m
  <2> QED
    BY <1>7, <1>8, <2>1, <2>2, Zenon DEF PortNumber
<1> QED
  BY <1>2, <1>8, <1>9

\* A port is read as its number, and nothing as no port.
LEMMA PortIs ==
    ASSUME NEW text \in Seq(Byte)
    PROVE  /\ IsPort(text) => /\ PortNumber(text) = PortGiven(text)
                              /\ PortGiven(text) \in 1..USHRT_MAX
           /\ PortNumber(<<>>) = 0
<1>1. ASSUME IsPort(text)
      PROVE  PortNumber(text) = PortGiven(text)
  <2>1. /\ \A i \in DOMAIN text : text[i] \in Digits
        /\ Len(text) \in 1..5
    BY <1>1 DEF IsPort
  <2>2. text \in Seq(Digits)
    <3>1. Len(text) \in Nat /\ text \in [1..Len(text) -> Byte]
      BY LenProperties
    <3>2. text \in [1..Len(text) -> Digits]
      BY <2>1, <3>1
    <3> QED
      BY <3>1, <3>2, IsASeq
  <2> QED
    <3>1. Len(text) <= 5
      BY <2>1
    <3>2. PortNumber(text) = Fold(DigitStep, 0, text)
      BY <2>2, <3>1, ShortText
    <3>3. Fold(DigitStep, 0, text) = PortGiven(text)
      BY <1>1, <2>2, DigitsRead
    <3> QED
      BY <3>2, <3>3
<1>2. PortNumber(<<>>) = 0
  <2> DEFINE empty == <<>>
  <2>1. empty \in Seq(Digits) /\ Len(empty) <= 5
    <3>1. empty \in Seq(Digits) /\ Len(empty) = 0
      BY EmptySeq
    <3> HIDE DEF empty
    <3> QED
      BY <3>1
  <2>2. Fold(DigitStep, 0, empty) = 0
    <3>1. \A s \in Seq(Digits) : Fold(DigitStep, 0, <<>>) = 0
      BY DigitStepIs, FoldIs
    <3> QED
      BY <2>1, <3>1
  <2> HIDE DEF empty
  <2>3. PortNumber(empty) = Fold(DigitStep, 0, empty)
    BY <2>1, ShortText
  <2> QED
    BY <2>2, <2>3 DEF empty
<1> QED
  BY <1>1, <1>2 DEF IsPort
-----------------------------------------------------------------------------
\* The url that was set last is one.
GivenIsUrl == IsUrl(given)

\* The parser has the parts of that url; of a protocol or a port that it does
\* not name, it has none if it carries on none.
ParserHasGiven ==
    ~misread =>
        /\ m_urlparser.host_part = given.host
        /\ given.host # <<>> =>
            m_urlparser.path = IF given.path = <<>> THEN <<Slash>> ELSE given.path
        /\ given.proto # <<>> => m_urlparser.proto = to_lower(given.proto[1])
        /\ given.proto = <<>> /\ "proto" \notin carried
            => m_urlparser.proto = <<>>
        /\ given.port # <<>> => m_urlparser.port = PortNumber(given.port[1])
        /\ given.port = <<>> /\ "port" \notin carried => m_urlparser.port = 0

\* Whatever url the protocol and the query are from, they are texts, and the
\* protocol has no question mark either.
ProtoIsPlain ==
    ~misread => /\ m_urlparser.proto \in Seq(Byte)
                /\ Without(m_urlparser.proto, {Question})
                /\ m_urlparser.query_param \in Seq(Byte)

\* The host with its port has no question mark, so that the query begins where
\* the server looks for it.
HostIsPlain ==
    ~misread => /\ m_urlparser.host_all \in Seq(Byte)
                /\ Without(m_urlparser.host_all, {Question})

\* The parameters are texts, and so is what was built from them.
ParamsTyped == IsParams(params) /\ m_query_param \in Seq(Byte)

\* The query is the one that was built from the parameters.
RequestHasParams ==
    DOMAIN params # {} => m_query_param = build_kv_string(Encoded(params))

\* The inductive invariant.
RequestInv ==
    /\ GivenIsUrl
    /\ ParserHasGiven
    /\ ProtoIsPlain
    /\ HostIsPlain
    /\ ParamsTyped
    /\ RequestHasParams

\* The parser keeps to the urls that were set, and the query to the parameters.
THEOREM RequestInvariance == Spec => []RequestInv
<1>1. Init => RequestInv
  <2> SUFFICES ASSUME Init
               PROVE  RequestInv
    OBVIOUS
  <2>1. /\ DOMAIN given = {"proto", "host", "port", "path", "query"}
        /\ given.proto = <<>> /\ given.host = <<>> /\ given.port = <<>>
        /\ given.path = <<>> /\ given.query = <<>>
    BY DEF Init
  <2>2. /\ <<>> \in Seq(Byte) /\ <<>> \in Seq(Seq(Byte))
        /\ Without(<<>>, {Colon, Slash, Question}) /\ Without(<<>>, {Question})
    BY EmptySeq, WithoutOne
  <2>3. GivenIsUrl
    BY <2>1, <2>2 DEF GivenIsUrl, IsUrl
  <2>4. /\ m_urlparser.proto = <<>> /\ m_urlparser.host_part = <<>>
        /\ m_urlparser.port = 0 /\ m_urlparser.query_param = <<>>
        /\ m_urlparser.host_all = <<>>
    BY DEF Init, NewParser
  <2>5. ParserHasGiven
    BY <2>1, <2>4 DEF ParserHasGiven
  <2>6. HostIsPlain /\ ProtoIsPlain
    BY <2>2, <2>4 DEF HostIsPlain, ProtoIsPlain
  <2>7. m_query_param = <<>> /\ params = <<>> /\ DOMAIN params = {}
    <3>1. m_query_param = <<>> /\ params = <<>>
      BY DEF Init
    <3> QED
      BY <3>1
  <2>8. ParamsTyped
    <3>1. IsFiniteSet(DOMAIN params)
      BY <2>7, FS_EmptySet
    <3>2. params \in [DOMAIN params -> Seq(Byte)]
      BY <2>7
    <3>3. DOMAIN params \subseteq Seq(Byte)
      BY <2>7
    <3> QED
      BY <2>2, <2>7, <3>1, <3>2, <3>3 DEF ParamsTyped, IsParams
  <2>9. RequestHasParams
    BY <2>7 DEF RequestHasParams
  <2> QED
    BY <2>3, <2>5, <2>6, <2>8, <2>9 DEF RequestInv
<1>2. RequestInv /\ [Next]_vars => RequestInv'
  <2> SUFFICES ASSUME RequestInv, [Next]_vars
               PROVE  RequestInv'
    OBVIOUS
  <2>1. ASSUME NEW u \in Urls, SetUrl(u)
        PROVE  RequestInv'
    <3>1. IsUrl(u)
      BY UrlsAssumption
    <3>2. given' = [proto |-> u.proto, host |-> u.host, port |-> u.port,
                    path |-> u.path, query |-> u.query]
      BY <2>1 DEF SetUrl
    <3>3. /\ given'.proto = u.proto /\ given'.host = u.host
          /\ given'.port = u.port /\ given'.path = u.path
          /\ given'.query = u.query
          /\ DOMAIN given' = {"proto", "host", "port", "path", "query"}
      BY <3>2
    <3>4. GivenIsUrl'
      <4>1. IsUrl(given')
        BY <3>1, <3>3 DEF IsUrl
      <4> QED
        BY <4>1 DEF GivenIsUrl
    <3>5. ~misread' => /\ ~misread
                       /\ m_urlparser' = ParsedUrl(m_urlparser, u)
      <4>1. /\ m_urlparser' = parse(m_urlparser, Text(u))
            /\ misread' = (misread \/ (u.proto = <<>> /\ Find(Text(u), Separator) # 0))
        BY <2>1 DEF SetUrl
      <4> SUFFICES ASSUME ~misread'
                   PROVE  ~misread /\ m_urlparser' = ParsedUrl(m_urlparser, u)
        OBVIOUS
      <4>2. ~misread /\ ~(u.proto = <<>> /\ Find(Text(u), Separator) # 0)
        BY <4>1
      <4> QED
        BY <3>1, <4>1, <4>2, ParseIs
    <3>6. ~misread' =>
            /\ ~misread
            /\ m_urlparser'.proto = IF u.proto = <<>> THEN m_urlparser.proto
                                    ELSE to_lower(u.proto[1])
            /\ m_urlparser'.host_all = WithPort(u)
            /\ m_urlparser'.host_part = u.host
            /\ m_urlparser'.port = IF u.port = <<>> THEN m_urlparser.port
                                   ELSE PortNumber(u.port[1])
            /\ m_urlparser'.path = IF u.path = <<>> THEN <<Slash>> ELSE u.path
            /\ m_urlparser'.query_param = IF u.query = <<>> THEN m_urlparser.query_param
                                          ELSE u.query[1]
      BY <3>5 DEF ParsedUrl
    <3>7. ParserHasGiven'
      <4>1. CASE misread'
        BY <4>1 DEF ParserHasGiven
      <4>2. CASE ~misread'
        <5>1. carried' = {part \in {"proto", "port"} :
                u[part] = <<>> /\ (given[part] # <<>> \/ part \in carried)}
          BY <2>1 DEF SetUrl
        <5>2. /\ u.proto = <<>> /\ "proto" \notin carried'
                    => given.proto = <<>> /\ "proto" \notin carried
              /\ u.port = <<>> /\ "port" \notin carried'
                    => given.port = <<>> /\ "port" \notin carried
          BY <5>1
        <5>3. /\ given.proto = <<>> /\ "proto" \notin carried
                    => m_urlparser.proto = <<>>
              /\ given.port = <<>> /\ "port" \notin carried
                    => m_urlparser.port = 0
          BY <3>6, <4>2 DEF RequestInv, ParserHasGiven
        <5>4. /\ u.proto # <<>> => m_urlparser'.proto = to_lower(u.proto[1])
              /\ u.proto = <<>> /\ "proto" \notin carried'
                    => m_urlparser'.proto = <<>>
          BY <3>6, <4>2, <5>2, <5>3
        <5>5. /\ u.port # <<>> => m_urlparser'.port = PortNumber(u.port[1])
              /\ u.port = <<>> /\ "port" \notin carried' => m_urlparser'.port = 0
          BY <3>6, <4>2, <5>2, <5>3
        <5>6. /\ m_urlparser'.host_part = u.host
              /\ m_urlparser'.path = IF u.path = <<>> THEN <<Slash>> ELSE u.path
          BY <3>6, <4>2
        <5> QED
          BY <3>3, <5>4, <5>5, <5>6 DEF ParserHasGiven
      <4> QED
        BY <4>1, <4>2
    <3>8. ProtoIsPlain'
      <4>1. CASE misread'
        BY <4>1 DEF ProtoIsPlain
      <4>2. CASE ~misread'
        <5>1. /\ m_urlparser.proto \in Seq(Byte)
              /\ Without(m_urlparser.proto, {Question})
              /\ m_urlparser.query_param \in Seq(Byte)
          BY <3>6, <4>2 DEF RequestInv, ProtoIsPlain
        <5>2. ASSUME u.proto # <<>>
              PROVE  /\ to_lower(u.proto[1]) \in Seq(Byte)
                     /\ Without(to_lower(u.proto[1]), {Question})
          <6>1. u.proto[1] \in Seq(Byte)
            BY <3>1, <5>2, UrlParts
          <6>2. Without(u.proto[1], {Colon, Slash, Question})
            BY <3>1, <5>2 DEF IsUrl
          <6>3. Without(u.proto[1], {Question})
            BY <6>2, WithoutFewer
          <6> QED
            BY <6>1, <6>3, LowerIs, LowerWithout
        <5>3. u.query # <<>> => u.query[1] \in Seq(Byte)
          BY <3>1, UrlParts
        <5>4. /\ m_urlparser'.proto \in Seq(Byte)
              /\ Without(m_urlparser'.proto, {Question})
          BY <3>6, <4>2, <5>1, <5>2
        <5>5. m_urlparser'.query_param \in Seq(Byte)
          BY <3>6, <4>2, <5>1, <5>3
        <5> QED
          BY <5>4, <5>5 DEF ProtoIsPlain
      <4> QED
        BY <4>1, <4>2
    <3>9. HostIsPlain'
      <4>1. CASE misread'
        BY <4>1 DEF HostIsPlain
      <4>2. CASE ~misread'
        <5>1. m_urlparser'.host_all = WithPort(u)
          BY <3>6, <4>2
        <5>2. WithPort(u) \in Seq(Byte) /\ Without(WithPort(u), {Question})
          BY <3>1, WithPortPlain
        <5> QED
          BY <5>1, <5>2 DEF HostIsPlain
      <4> QED
        BY <4>1, <4>2
    <3>10. UNCHANGED <<m_query_param, params>>
      BY <2>1 DEF SetUrl
    <3>11. ParamsTyped' /\ RequestHasParams'
      BY <3>10 DEF RequestInv, ParamsTyped, RequestHasParams
    <3> QED
      BY <3>4, <3>7, <3>8, <3>9, <3>11 DEF RequestInv
  <2>2. ASSUME NEW ps \in Params, SetQueryParam(ps)
        PROVE  RequestInv'
    <3>1. /\ m_query_param' = build_kv_string(Encoded(ps)) /\ params' = ps
          /\ UNCHANGED <<m_urlparser, given, carried, misread>>
      BY <2>2 DEF SetQueryParam
    <3>2. IsParams(ps)
      BY ParamsAssumption
    <3>3. build_kv_string(Encoded(ps)) \in Seq(Byte)
      BY <3>2, EncodedIs, BuildIs
    <3>4. ParamsTyped' /\ RequestHasParams'
      BY <3>1, <3>2, <3>3 DEF ParamsTyped, RequestHasParams
    <3>5. GivenIsUrl' /\ ParserHasGiven' /\ HostIsPlain' /\ ProtoIsPlain'
      BY <3>1 DEF RequestInv, GivenIsUrl, ParserHasGiven, HostIsPlain,
                  ProtoIsPlain
    <3> QED
      BY <3>4, <3>5 DEF RequestInv
  <2>3. ASSUME NEW enabled \in BOOLEAN, EnablePathEncode(enabled)
        PROVE  RequestInv'
    BY <2>3 DEF EnablePathEncode, RequestInv, GivenIsUrl, ParserHasGiven,
                HostIsPlain, ProtoIsPlain, ParamsTyped, RequestHasParams
  <2>4. CASE UNCHANGED vars
    BY <2>4 DEF vars, RequestInv, GivenIsUrl, ParserHasGiven, HostIsPlain,
                ProtoIsPlain, ParamsTyped, RequestHasParams
  <2> QED
    BY <2>1, <2>2, <2>3, <2>4 DEF Next
<1> QED
  BY <1>1, <1>2, PTL DEF Spec

\* For every sequence of urls: a request connects to the host of the last one,
\* and to the port that it names or, carried on no other, its protocol has.
THEOREM Connects == Spec => []ConnectsAsGiven
<1>1. RequestInv => ConnectsAsGiven
  <2> SUFFICES ASSUME RequestInv, given.host # <<>>, ~misread
               PROVE  ConnectsAsGiven
    BY DEF ConnectsAsGiven
  <2>1. /\ m_urlparser.host_part = given.host
        /\ given.proto # <<>> => m_urlparser.proto = to_lower(given.proto[1])
        /\ given.proto = <<>> /\ "proto" \notin carried
            => m_urlparser.proto = <<>>
        /\ given.port # <<>> => m_urlparser.port = PortNumber(given.port[1])
        /\ given.port = <<>> /\ "port" \notin carried => m_urlparser.port = 0
    BY DEF RequestInv, ParserHasGiven
  <2>2. IsUrl(given)
    BY DEF RequestInv, GivenIsUrl
  <2>3. given.proto # <<>> => to_lower(given.proto[1]) # <<>>
    <3> SUFFICES ASSUME given.proto # <<>>
                 PROVE  to_lower(given.proto[1]) # <<>>
      OBVIOUS
    <3>1. given.proto[1] \in Seq(Byte) /\ given.proto[1] # <<>>
      <4>1. given.proto[1] # <<>>
        BY <2>2 DEF IsUrl
      <4> QED
        BY <2>2, <4>1, UrlParts
    <3> QED
      BY <3>1, LowerIs
  <2>4. ASSUME given.port # <<>>, IsPort(given.port[1])
        PROVE  getservicename = [port |-> PortGiven(given.port[1])]
    <3>1. given.port[1] \in Seq(Byte)
      BY <2>2, <2>4, UrlParts
    <3>2. /\ m_urlparser.port = PortGiven(given.port[1])
          /\ m_urlparser.port # 0
      BY <2>1, <2>4, <3>1, PortIs
    <3> QED
      BY <3>2 DEF getservicename
  <2>5. ASSUME given.port \in {<<>>, <<<<>>>>}, carried = {}
        PROVE  getservicename = [name |-> IF given.proto = <<>> THEN http
                                          ELSE to_lower(given.proto[1])]
    <3>1. m_urlparser.port = 0
      <4>1. CASE given.port = <<>>
        BY <2>1, <2>5, <4>1
      <4>2. CASE given.port = <<<<>>>>
        <5>1. given.port # <<>> /\ given.port[1] = <<>>
          BY <4>2
        <5>2. PortNumber(<<>>) = 0
          BY EmptySeq, PortIs
        <5> QED
          BY <2>1, <5>1, <5>2
      <4> QED
        BY <2>5, <4>1, <4>2
    <3>2. m_urlparser.proto = IF given.proto = <<>> THEN <<>>
                              ELSE to_lower(given.proto[1])
      BY <2>1, <2>5
    <3> QED
      BY <2>3, <3>1, <3>2 DEF getservicename
  <2> QED
    BY <2>1, <2>4, <2>5 DEF ConnectsAsGiven
<1> QED
  BY <1>1, RequestInvariance, PTL

-----------------------------------------------------------------------------
\* The middle of three texts.
LEMMA MiddlePart ==
    ASSUME NEW T, NEW a \in Seq(T), NEW m \in Seq(T), NEW c \in Seq(T)
    PROVE  SubSeq((a \o m) \o c, Len(a) + 1, Len(a \o m)) = m
<1> DEFINE am == a \o m
           s == am \o c
           x == Len(a)
           y == Len(m)
           p == SubSeq(s, x + 1, x + y)
<1>1. /\ s \in Seq(T) /\ Len(s) = x + y + Len(c)
      /\ x \in Nat /\ y \in Nat /\ Len(c) \in Nat
      /\ \A i \in 1..y : s[x + i] = m[i]
  BY ThreeParts
<1>2. Len(am) = x + y
  BY ConcatProperties
<1> HIDE DEF s, x, am
<1>3. \A i \in (x + 1)..(x + y) : s[i] \in T
  <2>1. \A i \in 1..Len(s) : s[i] \in T
    BY <1>1, ElementOfSeq
  <2> HIDE DEF y
  <2>2. \A i \in (x + 1)..(x + y) : i \in 1..Len(s)
    BY <1>1
  <2> QED
    BY <2>1, <2>2
<1>4. /\ p \in Seq(T) /\ Len(p) = y
      /\ \A i \in 1..y : p[i] = s[x + i]
  <2> DEFINE first == x + 1
             last == x + y
  <2> HIDE DEF y
  <2>1. first \in Int /\ last \in Int /\ last - first + 1 = y
    BY <1>1
  <2>2. \A i \in first..last : s[i] \in T
    BY <1>3
  <2>3. (IF first <= last THEN last - first + 1 ELSE 0) = y
    BY <1>1
  <2>4. \A i \in 1..y : first + i - 1 = x + i
    BY <1>1
  <2> HIDE DEF first, last
  <2>5. /\ SubSeq(s, first, last) \in Seq(T)
        /\ Len(SubSeq(s, first, last)) = (IF first <= last THEN last - first + 1 ELSE 0)
        /\ \A i \in 1..(last - first + 1) : SubSeq(s, first, last)[i] = s[first + i - 1]
    BY <2>1, <2>2, SubSeqProperties
  <2>6. p = SubSeq(s, first, last)
    BY DEF first, last
  <2> HIDE DEF p
  <2> QED
    BY <2>1, <2>3, <2>4, <2>5, <2>6
<1> HIDE DEF p
<1>5. \A i \in 1..y : p[i] = m[i]
  BY <1>1, <1>4
<1>6. p = m
  BY <1>4, <1>5, SeqEqual DEF y
<1> QED
  BY <1>2, <1>6 DEF p, s, am, x

\* The server finds the path and the query in the target, whatever the query
\* is, if there is no question mark in what is before the path and in the path.
LEMMA FoundAtServer ==
    ASSUME NEW a \in Seq(Byte), NEW p \in Seq(Byte), NEW x \in Seq(Byte),
           Without(a, {Question}), Without(p, {Question})
    PROVE  LET t == (a \o p) \o (IF x = <<>> THEN <<>> ELSE <<Question>> \o x)
               start == FindFirstOf(t, {Question})
           IN /\ SubSeq(t, Len(a) + 1, IF start = 0 THEN Len(t) ELSE start - 1) = p
              /\ (IF start = 0 THEN <<>> ELSE From(t, start + 1)) = x
<1> DEFINE ap == a \o p
           q == IF x = <<>> THEN <<>> ELSE <<Question>> \o x
           t == ap \o q
           start == FindFirstOf(t, {Question})
<1>1. ap \in Seq(Byte) /\ Without(ap, {Question})
  BY ConcatProperties, WithoutConcat
<1>2. q \in Seq(Byte)
  <2>1. Question \in Byte
    BY DEF Question, Byte
  <2>2. <<Question>> \in Seq(Byte)
    BY <2>1
  <2>3. <<Question>> \o x \in Seq(Byte)
    BY <2>2, ConcatProperties
  <2> QED
    BY <2>3, EmptySeq
<1>3. SubSeq(t, Len(a) + 1, Len(ap)) = p
  <2> HIDE DEF q
  <2> QED
    BY <1>2, MiddlePart
<1>4. Len(ap) \in Nat
  BY <1>1, LenProperties
<1>5. CASE x = <<>>
  <2>1. t = ap
    <3>1. ap \o <<>> = ap
      <4> HIDE DEF ap
      <4> QED
        BY <1>1, ConcatEmptySeq
    <3> QED
      BY <1>5, <3>1
  <2> HIDE DEF ap, t
  <2>2. start = 0
    BY <1>1, <2>1, FirstOfNone
  <2> HIDE DEF start
  <2> QED
    BY <1>3, <1>5, <2>1, <2>2 DEF start, t, ap
<1>6. CASE x # <<>>
  <2>1. Question \in Byte /\ Question \in {Question}
    BY DEF Question, Byte
  <2>2. t = ap \o (<<Question>> \o x)
    BY <1>6
  <2> HIDE DEF ap, t
  <2>3. /\ FindFirstOf(ap \o (<<Question>> \o x), {Question}) = Len(ap) + 1
        /\ From(ap \o (<<Question>> \o x), (Len(ap) + 1) + 1) = x
    BY <1>1, <2>1, Divided
  <2>4. start = Len(ap) + 1 /\ From(t, start + 1) = x
    BY <2>2, <2>3
  <2>5. start # 0 /\ start - 1 = Len(ap)
    BY <1>4, <2>4
  <2> HIDE DEF start
  <2> QED
    BY <1>3, <2>4, <2>5 DEF start, t, ap
<1> QED
  BY <1>5, <1>6

\* The path is encoded or it is not.
LEMMA EncodeSwitch == Spec => [](m_should_encode_path \in BOOLEAN)
<1>1. Init => m_should_encode_path \in BOOLEAN
  BY DEF Init
<1>2. m_should_encode_path \in BOOLEAN /\ [Next]_vars
        => (m_should_encode_path \in BOOLEAN)'
  BY DEF Next, vars, SetUrl, SetQueryParam, EnablePathEncode
<1> QED
  BY <1>1, <1>2, PTL DEF Spec

\* What is before the path in the target, and the query behind it.
LEMMA TargetParts ==
    ASSUME RequestInv, ~misread
    PROVE  /\ Authority \in Seq(Byte) /\ Without(Authority, {Question})
           /\ query_param_all \in Seq(Byte)
           /\ m_urlparser.query_param \in Seq(Byte)
           /\ m_query_param \in Seq(Byte)
<1> DEFINE B == {Question}
           proto == m_urlparser.proto
           h == m_urlparser.host_all
           head == IF proto = <<>> THEN <<>> ELSE proto \o Separator
<1>1. IsUrl(given)
  BY DEF RequestInv, GivenIsUrl
<1>2. h \in Seq(Byte) /\ Without(h, B)
  BY DEF RequestInv, HostIsPlain
<1>3. proto \in Seq(Byte) /\ Without(proto, B)
  BY DEF RequestInv, ProtoIsPlain
<1>4. Separator \in Seq(Byte) /\ Without(Separator, B)
  <2>1. Separator \in Seq(Byte)
    BY <1>1, UrlParts
  <2>2. Without(Separator, B)
    BY DEF Separator, Without, Colon, Slash, Question
  <2> QED
    BY <2>1, <2>2
<1> HIDE DEF proto, h, B
<1>5. head \in Seq(Byte) /\ Without(head, B)
  <2>1. CASE proto = <<>>
    BY <2>1, EmptySeq, WithoutOne
  <2>2. CASE proto # <<>>
    <3>1. proto \o Separator \in Seq(Byte) /\ Without(proto \o Separator, B)
      BY <1>3, <1>4, ConcatProperties, WithoutConcat
    <3> QED
      BY <2>2, <3>1
  <2> QED
    BY <2>1, <2>2
<1>6. Authority = head \o h
  BY DEF Authority, proto, h
<1>7. Authority \in Seq(Byte) /\ Without(Authority, B)
  <2> HIDE DEF head
  <2>1. head \o h \in Seq(Byte) /\ Without(head \o h, B)
    BY <1>2, <1>5, ConcatProperties, WithoutConcat
  <2> QED
    BY <1>6, <2>1
<1>8. m_urlparser.query_param \in Seq(Byte) /\ m_query_param \in Seq(Byte)
  BY DEF RequestInv, ProtoIsPlain, ParamsTyped
<1>9. query_param_all \in Seq(Byte)
  <2> DEFINE a == m_urlparser.query_param
             b == m_query_param
             one == <<Ampersand>>
  <2>1. one \in Seq(Byte)
    <3>1. Ampersand \in Byte
      BY DEF Ampersand, Byte
    <3> QED
      BY <3>1
  <2>2. a \in Seq(Byte) /\ b \in Seq(Byte)
    BY <1>8
  <2> HIDE DEF a, b, one
  <2>3. a \o one \in Seq(Byte) /\ a \o b \in Seq(Byte)
    BY <2>1, <2>2, ConcatProperties
  <2>4. (a \o one) \o b \in Seq(Byte)
    BY <2>2, <2>3, ConcatProperties
  <2>5. query_param_all = IF a # <<>> /\ b # <<>> THEN (a \o one) \o b ELSE a \o b
    BY DEF query_param_all, a, b, one
  <2> QED
    BY <2>3, <2>4, <2>5
<1> QED
  BY <1>7, <1>8, <1>9 DEF B

\* What the request writes for the path is a text without a question mark; the
\* server finds it, and the query behind it.
LEMMA ServerFinds ==
    ASSUME RequestInv, ~misread, given.host # <<>>, m_should_encode_path \in BOOLEAN
    PROVE  /\ QueryAtServer = query_param_all
           /\ ~m_should_encode_path => PathAtServer = m_urlparser.path
           /\ m_should_encode_path =>
                DecodedSegments(PathAtServer) = Respelled(m_urlparser.path)
<1> DEFINE p == IF m_should_encode_path THEN encoded_path ELSE m_urlparser.path
           a == Authority
           x == query_param_all
<1>1. IsUrl(given)
  BY DEF RequestInv, GivenIsUrl
<1>2. m_urlparser.path = IF given.path = <<>> THEN <<Slash>> ELSE given.path
  BY DEF RequestInv, ParserHasGiven
<1>3. m_urlparser.path \in Seq(Byte) /\ Without(m_urlparser.path, {Question})
  <2>1. CASE given.path = <<>>
    <3>1. <<Slash>> \in Seq(Byte)
      BY <1>1, UrlParts
    <3>2. Without(<<Slash>>, {Question})
      BY WithoutOne DEF Slash, Question
    <3> QED
      BY <1>2, <2>1, <3>1, <3>2
  <2>2. CASE given.path # <<>>
    <3>1. given.path \in Seq(Byte)
      BY <1>1, UrlParts
    <3>2. Without(given.path, {Question})
      BY <1>1, <2>2 DEF IsUrl
    <3> QED
      BY <1>2, <2>2, <3>1, <3>2
  <2> QED
    BY <2>1, <2>2
<1>4. /\ encoded_path \in Seq(Byte) /\ Without(encoded_path, {Question})
      /\ DecodedSegments(encoded_path) = Respelled(m_urlparser.path)
  <2>1. encoded_path = <<Slash>> \o
            TrimSlashes(Terminated(EncodedEach(Split(m_urlparser.path, Slash)), Slash))
    BY DEF encoded_path, EncodedEach
  <2> QED
    BY <1>3, <2>1, EncodedPathArrives
<1>5. p \in Seq(Byte) /\ Without(p, {Question})
  BY <1>3, <1>4
<1>6. a \in Seq(Byte) /\ Without(a, {Question}) /\ x \in Seq(Byte)
  BY TargetParts
<1>7. Target = (a \o p) \o (IF x = <<>> THEN <<>> ELSE <<Question>> \o x)
  BY DEF Target
<1> HIDE DEF a, p, x
<1>8. PathAtServer = p /\ QueryAtServer = x
  <2>1. LET t == (a \o p) \o (IF x = <<>> THEN <<>> ELSE <<Question>> \o x)
            start == FindFirstOf(t, {Question})
        IN /\ SubSeq(t, Len(a) + 1, IF start = 0 THEN Len(t) ELSE start - 1) = p
           /\ (IF start = 0 THEN <<>> ELSE From(t, start + 1)) = x
    BY <1>5, <1>6, FoundAtServer
  <2>2. /\ SubSeq(Target, Len(a) + 1,
                  IF QueryStart = 0 THEN Len(Target) ELSE QueryStart - 1) = p
        /\ (IF QueryStart = 0 THEN <<>> ELSE From(Target, QueryStart + 1)) = x
    BY <1>7, <2>1 DEF QueryStart
  <2> QED
    BY <2>2 DEF PathAtServer, QueryAtServer, a
<1>9. CASE m_should_encode_path
  BY <1>4, <1>8, <1>9 DEF p, x
<1>10. CASE ~m_should_encode_path
  BY <1>8, <1>10 DEF p, x
<1> QED
  BY <1>9, <1>10

\* For every path: the server gets the segments that the caller gave, a plus for
\* every space, or, not encoded, the path.
THEOREM PathReaches == Spec => []PathArrives
<1>1. RequestInv /\ m_should_encode_path \in BOOLEAN => PathArrives
  <2> SUFFICES ASSUME RequestInv, m_should_encode_path \in BOOLEAN,
                      given.host # <<>>, ~misread
               PROVE  IF m_should_encode_path
                      THEN DecodedSegments(PathAtServer) = Respelled(given.path)
                      ELSE PathAtServer =
                            IF given.path = <<>> THEN <<Slash>> ELSE given.path
    BY DEF PathArrives, Respelled
  <2>1. /\ ~m_should_encode_path => PathAtServer = m_urlparser.path
        /\ m_should_encode_path =>
                DecodedSegments(PathAtServer) = Respelled(m_urlparser.path)
    BY ServerFinds
  <2>2. m_urlparser.path = IF given.path = <<>> THEN <<Slash>> ELSE given.path
    BY DEF RequestInv, ParserHasGiven
  <2>3. TrimSlashes(<<Slash>>) = TrimSlashes(<<>>)
    <3> DEFINE e == <<>>
               one == <<Slash>>
    <3>1. e \in Seq(Byte) /\ OnlySlashes(e) /\ Trimmed(e)
      BY EmptySeq DEF OnlySlashes, Trimmed
    <3>2. one \in Seq(Byte) /\ OnlySlashes(one)
      <4>1. Slash \in Byte
        BY DEF Slash, Byte
      <4> QED
        BY <4>1 DEF OnlySlashes
    <3> HIDE DEF e, one
    <3>3. /\ TrimSlashes((one \o e) \o e) = e /\ TrimSlashes((e \o e) \o e) = e
      BY <3>1, <3>2, TrimMiddle
    <3>4. one \o e = one /\ e \o e = e
      BY <3>1, <3>2, ConcatEmptySeq DEF e
    <3>5. TrimSlashes(one) = e /\ TrimSlashes(e) = e
      BY <3>3, <3>4
    <3> QED
      BY <3>5 DEF e, one
  <2>4. Respelled(m_urlparser.path) = Respelled(given.path)
    BY <2>2, <2>3 DEF Segments, Respelled
  <2>5. CASE m_should_encode_path
    BY <2>1, <2>4, <2>5
  <2>6. CASE ~m_should_encode_path
    BY <2>1, <2>2, <2>6
  <2> QED
    BY <2>5, <2>6
<1> QED
  BY <1>1, RequestInvariance, EncodeSwitch, PTL

-----------------------------------------------------------------------------
\* A key and a value that have no "=" are what splits their pair.
LEMMA PairSplits ==
    ASSUME NEW k \in Seq(Byte), NEW v \in Seq(Byte),
           Without(k, {Equals}), Without(v, {Equals})
    PROVE  Split(Append(k, Equals) \o v, Equals) = <<k, v>>
<1> DEFINE e == <<>>
           none == <<>>
           ke == Append(k, Equals)
           one == <<k>>
<1>1. Equals \in Byte
  BY DEF Equals, Byte
<1>2. e \in Seq(Byte) /\ none \in Seq(Seq(Byte)) /\ SplitUp(e, Equals) = Parts(none, e)
  <2>1. SplitUp(<<>>, Equals) = Parts(<<>>, <<>>)
    BY EmptySeq, SplitIs
  <2> QED
    BY <2>1, EmptySeq
<1>3. one \in Seq(Seq(Byte)) /\ Append(none, k) = one
  OBVIOUS
<1>4. \A s \in Seq(Byte) : e \o s = s
  BY ConcatEmptySeq
<1> HIDE DEF e, none, one
<1>5. SplitUp(k, Equals) = Parts(none, k)
  <2>1. SplitUp(e \o k, Equals) = Parts(none, e \o k)
    BY <1>2, SplitPlain
  <2> QED
    BY <1>4, <2>1
<1>6. SplitUp(ke, Equals) = Parts(one, e)
  <2>1. SplitUp(Append(k, Equals), Equals) = Parts(Append(none, k), <<>>)
    BY <1>1, <1>5, SplitAt
  <2> QED
    BY <1>3, <2>1 DEF e
<1>7. ke \in Seq(Byte)
  BY <1>1, AppendProperties
<1> HIDE DEF ke
<1>8. SplitUp(ke \o v, Equals) = Parts(one, v)
  <2>1. SplitUp(ke \o v, Equals) = Parts(one, e \o v)
    <3>1. e \in Seq(Byte) /\ one \in Seq(Seq(Byte))
      BY <1>2, <1>3
    <3> QED
      BY <1>6, <1>7, <3>1, SplitPlain
  <2> QED
    BY <1>4, <2>1
<1>9. Split(ke \o v, Equals) = Append(one, v)
  BY <1>8 DEF Split, Parts
<1>10. Append(<<k>>, v) = <<k, v>>
  <2> DEFINE T == Seq(Byte)
  <2>1. k \in T /\ v \in T
    OBVIOUS
  <2> HIDE DEF T
  <2>2. <<k>> \in Seq(T) /\ Len(<<k>>) = 1 /\ <<k>>[1] = k
    BY <2>1
  <2>3. /\ <<k, v>> \in Seq(T) /\ Len(<<k, v>>) = 2
        /\ <<k, v>>[1] = k /\ <<k, v>>[2] = v
    BY <2>1
  <2> DEFINE l == <<k>>
             r == <<k, v>>
             w == Append(l, v)
  <2> HIDE DEF l, r
  <2>4. w \in Seq(T) /\ Len(w) = 2 /\ w[1] = k /\ w[2] = v
    BY <2>1, <2>2, AppendProperties DEF l
  <2> HIDE DEF w
  <2>5. \A i \in 1..2 : w[i] = r[i]
    BY <2>3, <2>4 DEF r
  <2>6. w = r
    BY <2>3, <2>4, <2>5, SeqEqual DEF r
  <2> QED
    BY <2>6 DEF w, l, r
<1> QED
  BY <1>9, <1>10 DEF one, ke

\* Texts that have no "=" and no "&".
PlainParams(kv) ==
    /\ IsParams(kv)
    /\ \A k \in DOMAIN kv : /\ Without(k, {Ampersand, Equals})
                            /\ Without(kv[k], {Ampersand, Equals})

\* The pairs of such a map have no "&".
LEMMA PairsPlain ==
    ASSUME NEW kv, PlainParams(kv)
    PROVE  AllWithout(Pairs(kv), {Ampersand})
<1>1. ASSUME NEW k \in Seq(Byte), NEW v \in Seq(Byte),
             Without(k, {Ampersand, Equals}), Without(v, {Ampersand, Equals})
      PROVE  Without(Append(k, Equals) \o v, {Ampersand})
  <2> DEFINE ke == Append(k, Equals)
  <2>1. Without(k, {Ampersand}) /\ Without(v, {Ampersand})
    BY <1>1, WithoutFewer
  <2>2. Equals \in Byte /\ Equals \notin {Ampersand}
    BY DEF Equals, Ampersand, Byte
  <2>3. ke \in Seq(Byte) /\ Without(ke, {Ampersand})
    BY <2>1, <2>2, AppendProperties, WithoutAppend
  <2> HIDE DEF ke
  <2>4. Without(ke \o v, {Ampersand})
    BY <2>1, <2>3, WithoutConcat
  <2> QED
    BY <2>4 DEF ke
<1>2. \A key \in DOMAIN kv : Without(Append(key, Equals) \o kv[key], {Ampersand})
  <2>1. \A key \in DOMAIN kv : key \in Seq(Byte) /\ kv[key] \in Seq(Byte)
    BY DEF PlainParams, IsParams
  <2> QED
    BY <1>1, <2>1 DEF PlainParams
<1>3. \A i \in 1..Len(Pairs(kv)) : \E key \in DOMAIN kv :
        Pairs(kv)[i] = Append(key, Equals) \o kv[key]
  BY PairsType DEF PlainParams
<1> QED
  BY <1>2, <1>3 DEF AllWithout

\* The query of a url and the parameters behind it.
Joined(q, b) ==
    IF q # <<>> /\ b # <<>> THEN q \o <<Ampersand>> \o b ELSE q \o b

\* Whatever the query of the url is: split up, the pairs are behind its parts.
LEMMA QuerySplits ==
    ASSUME NEW kv, PlainParams(kv), DOMAIN kv # {}, NEW q \in Seq(Byte)
    PROVE  \E parts \in Seq(Seq(Byte)) :
            Split(Joined(q, build_kv_string(kv)), Ampersand)
              = parts \o Pairs(kv)
<1> DEFINE b == build_kv_string(kv)
           ps == Pairs(kv)
           A == Ampersand
           one == <<A>>
           x == Joined(q, b)
<1>1. PICK front \in Seq(Seq(Byte)), last \in Seq(Byte) :
        ps = Append(front, last) /\ b = Terminated(front, Ampersand) \o last
  BY BuildSplits DEF PlainParams
<1> DEFINE t == Terminated(front, A)
<1>2. A \in Byte
  BY DEF Ampersand, Byte
<1>3. b = t \o last /\ b \in Seq(Byte)
  BY <1>1, BuildIs DEF PlainParams
<1>4. one \in Seq(Byte)
  BY <1>2
<1> HIDE DEF A
<1>5. t \in Seq(Byte)
  BY <1>1, <1>2, TerminatedIs
<1>6. AllWithout(front, {A}) /\ Without(last, {A})
  <2>1. AllWithout(ps, {A})
    BY PairsPlain DEF A
  <2>2. front \in Seq(Seq(Byte)) /\ last \in Seq(Byte)
    BY <1>1
  <2>3. ps = Append(front, last)
    BY <1>1
  <2> HIDE DEF ps
  <2> QED
    BY <2>1, <2>2, <2>3, AllWithoutAppend
\* What is before the pairs.
<1>7. \E z \in Seq(Byte), parts \in Seq(Seq(Byte)) :
        SplitUp(z, A) = Parts(parts, <<>>) /\ x = z \o b
  <2>1. CASE q # <<>> /\ b # <<>>
    <3> DEFINE z == Append(q, A)
    <3>1. z \in Seq(Byte) /\ z = q \o one
      BY <1>2, AppendProperties, AppendIsConcat
    <3>2. x = (q \o one) \o b
      BY <2>1 DEF Joined, A
    <3>3. PICK parts \in Seq(Seq(Byte)), l \in Seq(Byte) :
            SplitUp(q, A) = Parts(parts, l)
      BY SplitUpType
    <3>4. SplitUp(z, A) = Parts(Append(parts, l), <<>>)
      BY <1>2, <3>3, SplitAt
    <3>5. Append(parts, l) \in Seq(Seq(Byte))
      <4>1. parts \in Seq(Seq(Byte)) /\ l \in Seq(Byte)
        BY <3>3
      <4> QED
        BY <4>1, AppendProperties
    <3> HIDE DEF z, x, b, one
    <3>6. x = z \o b
      BY <3>1, <3>2
    <3> QED
      BY <3>1, <3>4, <3>5, <3>6
  <2>2. CASE ~(q # <<>> /\ b # <<>>)
    <3> DEFINE z == <<>>
    <3>1. z \in Seq(Byte) /\ z \in Seq(Seq(Byte)) /\ SplitUp(z, A) = Parts(z, z)
      BY EmptySeq, SplitIs
    <3>2. x = q \o b
      BY <2>2 DEF Joined
    <3>3. b # <<>>
      <4>1. PICK key \in DOMAIN kv : last = Append(key, Equals) \o kv[key]
        <5>1. ps \in Seq(Seq(Byte)) /\ Len(ps) # 0 /\ Len(ps) \in Nat
              /\ ps[Len(ps)] = last
          <6>1. front \in Seq(Seq(Byte)) /\ last \in Seq(Byte)
            BY <1>1
          <6>2. /\ Append(front, last) \in Seq(Seq(Byte))
                /\ Len(Append(front, last)) = Len(front) + 1
                /\ Append(front, last)[Len(front) + 1] = last
                /\ Len(front) \in Nat
            BY <6>1, AppendProperties, LenProperties
          <6> HIDE DEF ps
          <6> QED
            BY <1>1, <6>2
        <5>2. Len(ps) \in 1..Len(ps)
          BY <5>1
        <5>3. \E key \in DOMAIN kv : ps[Len(ps)] = Append(key, Equals) \o kv[key]
          BY <5>2, PairsType DEF PlainParams
        <5> QED
          BY <5>1, <5>3
      <4> DEFINE ke == Append(key, Equals)
                 v == kv[key]
      <4>2. key \in Seq(Byte) /\ v \in Seq(Byte) /\ Equals \in Byte
        BY DEF PlainParams, IsParams, Equals, Byte
      <4>3. ke \in Seq(Byte) /\ ke # <<>>
        BY <4>2, AppendProperties
      <4>4. last = ke \o v
        BY <4>1
      <4> HIDE DEF ke, v
      <4>5. ke \o v # <<>>
        BY <4>2, <4>3, ConcatEqualIffEmpty
      <4>6. last # <<>>
        BY <4>4, <4>5
      <4>7. t \o last # <<>>
        <5> HIDE DEF t
        <5> QED
          BY <1>1, <1>5, <4>6, ConcatEqualIffEmpty
      <4> QED
        BY <1>3, <4>7
    <3>4. q = z
      BY <2>2, <3>3
    <3> HIDE DEF x, b
    <3>5. x = z \o b
      BY <3>2, <3>4
    <3> QED
      BY <3>1, <3>5 DEF z
  <2> QED
    BY <2>1, <2>2
<1>8. PICK z \in Seq(Byte), parts \in Seq(Seq(Byte)) :
        SplitUp(z, A) = Parts(parts, <<>>) /\ x = z \o b
  BY <1>7
<1>9. x = (z \o t) \o last
  <2>1. z \in Seq(Byte) /\ last \in Seq(Byte)
    BY <1>1, <1>8
  <2> HIDE DEF t, x, b
  <2>2. (z \o t) \o last = z \o (t \o last)
    BY <1>5, <2>1, ConcatAssociative
  <2> QED
    BY <1>3, <1>8, <2>2
<1>10. SplitUp(x, A) = Parts(parts \o front, last)
  <2>1. /\ z \in Seq(Byte) /\ last \in Seq(Byte) /\ front \in Seq(Seq(Byte))
        /\ parts \in Seq(Seq(Byte)) /\ SplitUp(z, A) = Parts(parts, <<>>)
    BY <1>1, <1>8
  <2>2. SplitUp((z \o Terminated(front, A)) \o last, A) = Parts(parts \o front, last)
    BY <1>2, <1>6, <2>1, SplitJoined
  <2> HIDE DEF x
  <2> QED
    BY <1>9, <2>2
<1>11. Split(x, A) = Append(parts \o front, last)
  BY <1>10 DEF Split, Parts
<1>12. Append(parts \o front, last) = parts \o Append(front, last)
  <2>1. last \in Seq(Byte) /\ front \in Seq(Seq(Byte)) /\ parts \in Seq(Seq(Byte))
    BY <1>1, <1>8
  <2>2. parts \o Append(front, last) = Append(parts \o front, last)
    BY <2>1, Seqs!AppendToConcat
  <2> QED
    BY <2>2
<1> HIDE DEF x, ps
<1>13. Split(x, A) = parts \o ps
  BY <1>1, <1>11, <1>12
<1> QED
  BY <1>13 DEF x, ps, A

\* Of a query whose last parts are the pairs of a map, the server gets each
\* key with its value, whatever the parts before them are.
LEMMA PairsParsed ==
    ASSUME NEW kv, PlainParams(kv), NEW x, NEW parts \in Seq(Seq(Byte)),
           Split(x, Ampersand) = parts \o Pairs(kv), NEW k \in DOMAIN kv
    PROVE  k \in DOMAIN parse_kv_string(x) /\ parse_kv_string(x)[k] = kv[k]
<1> DEFINE all == Split(x, Ampersand)
           ps == Pairs(kv)
           pairs == {i \in DOMAIN all : Len(Split(all[i], Equals)) = 2}
           Key(i) == Split(all[i], Equals)[1]
           of == {i \in pairs : Key(i) = k}
           last == Max(of)
           n == Len(parts)
           m == Len(ps)
<1>1. /\ all \in Seq(Seq(Byte)) /\ Len(all) = n + m /\ DOMAIN all = 1..(n + m)
      /\ n \in Nat /\ m \in Nat
      /\ \A i \in 1..m : all[n + i] = ps[i]
  <2> DEFINE T == Seq(Byte)
             pp == parts \o ps
  <2>1. ps \in Seq(T) /\ parts \in Seq(T)
    BY PairsType DEF PlainParams
  <2> HIDE DEF T, ps
  <2>2. /\ pp \in Seq(T) /\ Len(pp) = Len(parts) + Len(ps)
        /\ \A i \in 1..(Len(parts) + Len(ps)) :
            pp[i] = IF i <= Len(parts) THEN parts[i] ELSE ps[i - Len(parts)]
    BY <2>1, ConcatProperties
  <2>3. Len(parts) \in Nat /\ Len(ps) \in Nat
    BY <2>1, LenProperties
  <2>4. DOMAIN pp = 1..Len(pp)
    <3> HIDE DEF pp
    <3> QED
      BY <2>2, LenProperties
  <2>5. \A i \in 1..m : pp[n + i] = ps[i]
    <3> HIDE DEF pp
    <3> SUFFICES ASSUME NEW i \in 1..m PROVE pp[n + i] = ps[i]
      OBVIOUS
    <3>1. n + i \in 1..(n + m) /\ ~(n + i <= n) /\ (n + i) - n = i
      BY <2>3
    <3> QED
      BY <2>2, <3>1
  <2>6. all = pp
    BY DEF ps
  <2> HIDE DEF all, pp
  <2> QED
    BY <2>2, <2>3, <2>4, <2>5, <2>6 DEF T
<1>2. /\ \A i \in 1..m : \E key \in DOMAIN kv :
            ps[i] = Append(key, Equals) \o kv[key]
      /\ \E i \in 1..m : ps[i] = Append(k, Equals) \o kv[k]
  BY PairsType DEF PlainParams
<1>3. \A key \in DOMAIN kv :
        Split(Append(key, Equals) \o kv[key], Equals) = <<key, kv[key]>>
  <2> TAKE key \in DOMAIN kv
  <2> DEFINE v == kv[key]
  <2>1. key \in Seq(Byte) /\ v \in Seq(Byte)
    BY DEF PlainParams, IsParams
  <2>2. Without(key, {Ampersand, Equals}) /\ Without(v, {Ampersand, Equals})
    BY DEF PlainParams
  <2> HIDE DEF v
  <2>3. Without(key, {Equals}) /\ Without(v, {Equals})
    BY <2>2, WithoutFewer
  <2>4. Split(Append(key, Equals) \o v, Equals) = <<key, v>>
    BY <2>1, <2>3, PairSplits
  <2> QED
    BY <2>4 DEF v
<1>4. parse_kv_string(x) =
        [key \in {Key(i) : i \in pairs} |->
            Split(all[Max({i \in pairs : Key(i) = key})], Equals)[2]]
  BY DEF parse_kv_string
<1> HIDE DEF all, ps
<1>5. \A i \in 1..m : \E key \in DOMAIN kv :
        Split(all[n + i], Equals) = <<key, kv[key]>>
  <2> SUFFICES ASSUME NEW i \in 1..m
               PROVE  \E key \in DOMAIN kv :
                        Split(all[n + i], Equals) = <<key, kv[key]>>
    OBVIOUS
  <2>1. PICK key \in DOMAIN kv : ps[i] = Append(key, Equals) \o kv[key]
    BY <1>2
  <2>2. all[n + i] = Append(key, Equals) \o kv[key]
    BY <1>1, <2>1
  <2>3. Split(Append(key, Equals) \o kv[key], Equals) = <<key, kv[key]>>
    BY <1>3
  <2>4. Split(all[n + i], Equals) = <<key, kv[key]>>
    BY <2>2, <2>3
  <2> QED
    BY <2>4
<1>6. \A i \in 1..m : n + i \in pairs
  <2> SUFFICES ASSUME NEW i \in 1..m PROVE n + i \in pairs
    OBVIOUS
  <2>1. n + i \in 1..(n + m)
    BY <1>1
  <2>2. PICK key \in DOMAIN kv : Split(all[n + i], Equals) = <<key, kv[key]>>
    BY <1>5
  <2>3. Len(Split(all[n + i], Equals)) = 2
    BY <2>2
  <2> QED
    BY <1>1, <2>1, <2>3
<1>7. PICK j \in 1..m : ps[j] = Append(k, Equals) \o kv[k]
  BY <1>2
<1>8. Split(all[n + j], Equals) = <<k, kv[k]>>
  BY <1>1, <1>3, <1>7
<1>9. n + j \in of
  BY <1>6, <1>8
<1>10. of \subseteq 1..(n + m)
  BY <1>1
<1>11. last \in of /\ last >= n + j
  <2> DEFINE size == n + m
  <2>1. size \in Nat /\ of \subseteq 1..size /\ of # {}
    <3>1. n \in Nat /\ m \in Nat
      BY <1>1
    <3> HIDE DEF of, n, m
    <3>2. size \in Nat
      BY <3>1
    <3> QED
      BY <1>9, <1>10, <3>2
  <2> HIDE DEF of, size
  <2>2. Max(of) \in of /\ \A i \in of : Max(of) >= i
    BY <2>1, MaxIs
  <2> QED
    BY <1>9, <2>2
<1>12. last - n \in 1..m /\ n + (last - n) = last
  <2> HIDE DEF last
  <2>1. last \in 1..(n + m)
    BY <1>10, <1>11
  <2> HIDE DEF n, m
  <2> QED
    BY <1>1, <1>11, <2>1
<1>13. PICK key \in DOMAIN kv : Split(all[last], Equals) = <<key, kv[key]>>
  <2> DEFINE i == last - n
  <2>1. i \in 1..m /\ n + i = last
    BY <1>12
  <2> HIDE DEF i, last
  <2> QED
    BY <1>5, <2>1
<1>14. Key(last) = k
  BY <1>11
<1>15. key = k
  BY <1>13, <1>14
<1>16. Split(all[last], Equals)[2] = kv[k]
  BY <1>13, <1>15
<1>17. k \in {Key(i) : i \in pairs}
  BY <1>9
<1> HIDE DEF Key, pairs
<1> QED
  BY <1>4, <1>16, <1>17

\* For all parameters: the server gets every key with its value.
THEOREM ParamsReach == Spec => []ParamsArrive
<1>1. RequestInv /\ m_should_encode_path \in BOOLEAN => ParamsArrive
  <2> SUFFICES ASSUME RequestInv, m_should_encode_path \in BOOLEAN,
                      given.host # <<>>, ~misread, NEW key \in DOMAIN params
               PROVE  LET arrived == parse_kv_string(QueryAtServer) IN
                      /\ url_encode(key) \in DOMAIN arrived
                      /\ url_decode(arrived[url_encode(key)]) = params[key]
    BY DEF ParamsArrive
  <2> DEFINE kv == Encoded(params)
             q == m_urlparser.query_param
             b == build_kv_string(kv)
             k == url_encode(key)
             x == QueryAtServer
  <2>1. IsParams(params)
    BY DEF RequestInv, ParamsTyped
  <2>2. /\ IsParams(kv) /\ k \in DOMAIN kv /\ kv[k] = url_encode(params[key])
        /\ \A e \in DOMAIN kv :
            Without(e, Separators) /\ Without(kv[e], Separators)
    BY <2>1, EncodedIs
  <2>3. key \in Seq(Byte) /\ params[key] \in Seq(Byte)
    BY <2>1 DEF IsParams
  <2>4. m_query_param = b
    BY DEF RequestInv, RequestHasParams
  <2>5. x = query_param_all /\ q \in Seq(Byte)
    BY ServerFinds, TargetParts
  <2>6. x = Joined(q, b)
    BY <2>4, <2>5 DEF query_param_all, Joined
  <2> HIDE DEF kv, q, b, k, x
  <2>7. PlainParams(kv)
    <3>1. {Ampersand, Equals} \subseteq Separators
      BY DEF Separators
    <3>2. \A e \in DOMAIN kv : /\ Without(e, {Ampersand, Equals})
                               /\ Without(kv[e], {Ampersand, Equals})
      BY <2>2, <3>1, WithoutFewer
    <3> QED
      BY <2>2, <3>2 DEF PlainParams
  <2>8. \E parts \in Seq(Seq(Byte)) : Split(x, Ampersand) = parts \o Pairs(kv)
    <3>1. DOMAIN kv # {}
      BY <2>2
    <3>2. \E parts \in Seq(Seq(Byte)) :
            Split(Joined(q, build_kv_string(kv)), Ampersand) = parts \o Pairs(kv)
      BY <2>5, <2>7, <3>1, QuerySplits
    <3> QED
      BY <2>6, <3>2 DEF b
  <2>9. k \in DOMAIN parse_kv_string(x) /\ parse_kv_string(x)[k] = kv[k]
    BY <2>2, <2>7, <2>8, PairsParsed
  <2>10. url_decode(kv[k]) = params[key]
    BY <2>2, <2>3, TextRoundTrip
  <2> QED
    BY <2>9, <2>10 DEF k, x
<1> QED
  BY <1>1, RequestInvariance, EncodeSwitch, PTL
=============================================================================
