------------------------------- MODULE UrlText -------------------------------
(***************************************************************************)
(* The functions on text that a request is made with: url_encode,          *)
(* url_decode, build_kv_string and parse_kv_string of                      *)
(* httpclient/httputil.h and UrlParser::parse of httpclient/urlparser.h.   *)
(*                                                                         *)
(* A text is a sequence of bytes, 0..255.                                  *)
(***************************************************************************)
EXTENDS Naturals, FiniteSetsExt, Sequences

Byte == 0..255

Space == 32
Percent == 37
Ampersand == 38
Plus == 43
Minus == 45
Slash == 47
Colon == 58
Equals == 61
Question == 63

Digits == 48..57
UpperCase == 65..90
LowerCase == 97..122

\* "-", ".", "_", "~"
Unreserved == Digits \cup UpperCase \cup LowerCase \cup {45, 46, 95, 126}

-----------------------------------------------------------------------------
tohex(x) == IF x > 9 THEN x - 10 + 65 ELSE x + 48

fromhex(x) ==
    CASE x \in UpperCase -> x - 65 + 10
      [] x \in LowerCase -> x - 97 + 10
      [] x \in Digits -> x - 48
      [] OTHER -> 0

\* Mutant: an escape is not escaped.
KeepsPercent(b) ==
    CASE b \in Unreserved \cup {Percent} -> <<b>>
      [] b = Space -> <<Plus>>
      [] OTHER -> <<Percent, tohex(b \div 16), tohex(b % 16)>>

EncodeByte(b) ==
    CASE b \in Unreserved -> <<b>>
      [] b = Space -> <<Plus>>
      [] OTHER -> <<Percent, tohex(b \div 16), tohex(b % 16)>>

\* What step makes of base and the elements of s, from the first one on.
Fold(step, base, s) ==
    LET upTo[n \in 0..Len(s)] ==
            IF n = 0 THEN base ELSE step[upTo[n - 1]][s[n]]
    IN upTo[Len(s)]

EncodeStep == [t \in Seq(Byte) |-> [b \in Byte |-> t \o EncodeByte(b)]]

url_encode(s) == Fold(EncodeStep, <<>>, s)

\* url_decode's loop: the text so far, and what was read of an escape.  A plus
\* that is not escaped stands for the byte plus.
DecodeByte(r, b, plus) ==
    CASE Len(r.escape) = 2 ->
            [text |-> Append(r.text,
                             (fromhex(r.escape[2]) * 16 + fromhex(b)) % 256),
             escape |-> <<>>]
      [] Len(r.escape) = 1 -> [text |-> r.text, escape |-> Append(r.escape, b)]
      [] r.escape = <<>> /\ b = Percent -> [text |-> r.text, escape |-> <<b>>]
      [] r.escape = <<>> /\ b = Plus ->
            [text |-> Append(r.text, plus), escape |-> <<>>]
      [] OTHER -> [text |-> Append(r.text, b), escape |-> <<>>]

Decoding == [text : Seq(Byte), escape : Seq(Byte)]

DecodeStep(plus) ==
    [r \in Decoding |-> [b \in Byte |-> DecodeByte(r, b, plus)]]

Decoded(s, plus) ==
    Fold(DecodeStep(plus), [text |-> <<>>, escape |-> <<>>], s)

\* An escape that the text cuts off ends it.
url_decode(s) == Decoded(s, Space).text

\* What a server makes of a path: escapes only, a plus is a plus there.
PercentDecoded(s) == Decoded(s, Plus).text

\* boost::algorithm::split at one byte: there is always a first part.
SplitByte(r, b, separator) ==
    IF b = separator THEN [parts |-> Append(r.parts, r.last), last |-> <<>>]
    ELSE [parts |-> r.parts, last |-> Append(r.last, b)]

Splitting == [parts : Seq(Seq(Byte)), last : Seq(Byte)]

SplitStep(separator) ==
    [r \in Splitting |-> [b \in Byte |-> SplitByte(r, b, separator)]]

SplitUp(s, separator) ==
    Fold(SplitStep(separator), [parts |-> <<>>, last |-> <<>>], s)

Split(s, separator) ==
    Append(SplitUp(s, separator).parts, SplitUp(s, separator).last)

\* The parts one behind the other, each with the separator behind it.
TerminateStep(separator) ==
    [t \in Seq(Byte) |-> [part \in Seq(Byte) |-> t \o Append(part, separator)]]

Terminated(parts, separator) == Fold(TerminateStep(separator), <<>>, parts)

\* A map's keys in some order.
InOrder(keys) ==
    CHOOSE order \in [1..Cardinality(keys) -> keys] :
        \A key \in keys : \E i \in DOMAIN order : order[i] = key

\* The pairs in any order; the last separator is erased again.
build_kv_string(kv_param) ==
    LET keys == InOrder(DOMAIN kv_param)
        pairs == [i \in DOMAIN keys |->
                    Append(keys[i], Equals) \o kv_param[keys[i]]]
        s == Terminated(pairs, Ampersand)
    IN SubSeq(s, 1, Len(s) - 1)

\* A pair that does not split in two is left out; of two with one key the
\* later one counts.
parse_kv_string(s) ==
    LET all == Split(s, Ampersand)
        pairs == {i \in DOMAIN all : Len(Split(all[i], Equals)) = 2}
        Key(i) == Split(all[i], Equals)[1]
        Last_(key) == Max({i \in pairs : Key(i) = key})
    IN [key \in {Key(i) : i \in pairs} |-> Split(all[Last_(key)], Equals)[2]]

-----------------------------------------------------------------------------
\* std::string::find and find_first_of: positions count from 1, 0 is npos.
Find(s, word) ==
    LET At(i) == SubSeq(s, i, i + Len(word) - 1) = word
        found == {i \in 1..(Len(s) - Len(word) + 1) :
                    At(i) /\ \A j \in 1..(i - 1) : ~At(j)}
    IN IF found = {} THEN 0 ELSE CHOOSE i \in found : TRUE

FindFirstOf(s, bytes) ==
    LET found == {i \in DOMAIN s :
                    s[i] \in bytes /\ \A j \in 1..(i - 1) : s[j] \notin bytes}
    IN IF found = {} THEN 0 ELSE CHOOSE i \in found : TRUE

From(s, pos) == SubSeq(s, pos, Len(s))

to_lower(s) == [i \in DOMAIN s |-> IF s[i] \in UpperCase THEN s[i] + 32
                                   ELSE s[i]]

\* The number of bytes at the start of s that are all in bytes.
Leading(s, bytes) ==
    LET others == {i \in DOMAIN s : s[i] \notin bytes}
    IN IF others = {} THEN Len(s) ELSE Min(others) - 1

\* What isspace takes.
White == 9..13 \cup {Space}

\* 2^64 - 1
ULONG_MAX == <<49, 56, 52, 52, 54, 55, 52, 52, 48, 55, 51, 55, 48, 57, 53, 53,
               49, 54, 49, 53>>

\* Whether the number that the digits are is above ULONG_MAX.
TooLarge(digits) ==
    LET n == From(digits, Leading(digits, {48}) + 1) IN
    \/ Len(n) > Len(ULONG_MAX)
    \/ /\ Len(n) = Len(ULONG_MAX)
       /\ \E i \in DOMAIN n : /\ n[i] > ULONG_MAX[i]
                              /\ \A j \in 1..(i - 1) : n[j] = ULONG_MAX[j]

\* The numbers of an unsigned short.
USHRT_MAX == 65535
UShort == 0..USHRT_MAX

DigitStep ==
    [v \in UShort |-> [b \in Digits |-> (10 * v + (b - 48)) % (USHRT_MAX + 1)]]

\* strtoul in base 10 and the cast to unsigned short: whitespace and a sign may
\* come first, the digits end at the first byte that is none, and what is too
\* large is ULONG_MAX whatever its sign.
PortNumber(s) ==
    LET number == From(s, Leading(s, White) + 1)
        signed == number # <<>> /\ number[1] \in {Plus, Minus}
        text == IF signed THEN Tail(number) ELSE number
        digits == SubSeq(text, 1, Leading(text, Digits))
        value == Fold(DigitStep, 0, digits)
    IN IF TooLarge(digits) THEN USHRT_MAX
       ELSE IF signed /\ number[1] = Minus
            THEN (USHRT_MAX + 1 - value) % (USHRT_MAX + 1)
       ELSE value

\* Mutant: only a path ends the host.
SlashEnds == {Slash}

\* The host ends at the path or, if there is none, at the query.
HostEnds == {Slash, Question}

NewParser ==
    [proto |-> <<>>, host_all |-> <<>>, host_part |-> <<>>, port |-> 0,
     path |-> <<>>, query_param |-> <<>>]

\* UrlParser::parse on a parser in the state p: what the url does not name
\* keeps the value it had.
parse(p, url) ==
    LET proto_pos == Find(url, <<Colon, Slash, Slash>>)
        rest == IF proto_pos = 0 THEN url ELSE From(url, proto_pos + 3)
        host_pos == FindFirstOf(rest, HostEnds)
        host == IF host_pos = 0 THEN rest ELSE SubSeq(rest, 1, host_pos - 1)
        tail == IF host_pos = 0 THEN <<Slash>> ELSE From(rest, host_pos)
        param_pos == FindFirstOf(tail, {Question})
        path == IF param_pos = 0 THEN tail ELSE SubSeq(tail, 1, param_pos - 1)
        port_pos == FindFirstOf(host, {Colon})
    IN [proto |-> IF proto_pos = 0 THEN p.proto
                  ELSE to_lower(SubSeq(url, 1, proto_pos - 1)),
        host_all |-> host,
        host_part |-> IF port_pos = 0 THEN host
                      ELSE SubSeq(host, 1, port_pos - 1),
        port |-> IF port_pos = 0 THEN p.port
                 ELSE PortNumber(From(host, port_pos + 1)),
        path |-> IF path = <<>> THEN <<Slash>> ELSE path,
        query_param |-> IF param_pos = 0 THEN p.query_param
                        ELSE From(tail, param_pos + 1)]
=============================================================================
