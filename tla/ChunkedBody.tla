----------------------------- MODULE ChunkedBody -----------------------------
(***************************************************************************)
(* The decoding of a chunked body (reach_chunk_end of                      *)
(* httpclient/asynchttpclient.h), which is run from the start on all that  *)
(* was received whenever more of it comes, and, as the reference, the      *)
(* encoding of the server.                                                 *)
(*                                                                         *)
(* A byte is "CR", "LF", " ", a hexadecimal digit or anything else.  What  *)
(* is sent is a sequence of records that mark the bytes of the content;    *)
(* the decoder sees the bytes only.                                        *)
(***************************************************************************)
EXTENDS Naturals, Sequences, FiniteSetsExt

Byte == STRING

Bytes(sent) == [i \in DOMAIN sent |-> sent[i].byte]

-----------------------------------------------------------------------------
\* Where the next CR LF starts, from pos on; 0 if there is none.
NextLineEnd(all_chunk, pos) ==
    LET At(i) == all_chunk[i] = "CR" /\ all_chunk[i + 1] = "LF"
        found == {i \in pos..(Len(all_chunk) - 1) :
                    At(i) /\ \A j \in pos..(i - 1) : ~At(j)}
    IN IF found = {} THEN 0 ELSE CHOOSE i \in found : TRUE

\* boost::algorithm::trim
Trim(line) ==
    LET kept == {i \in DOMAIN line : line[i] \notin {" ", "CR", "LF"}}
    IN IF kept = {} THEN <<>> ELSE SubSeq(line, Min(kept), Max(kept))

LowerHex == <<"0", "1", "2", "3", "4", "5", "6", "7", "8", "9",
              "a", "b", "c", "d", "e", "f">>

UpperHex == <<"0", "1", "2", "3", "4", "5", "6", "7", "8", "9",
              "A", "B", "C", "D", "E", "F">>

HexDigits == {LowerHex[i] : i \in 1..16} \cup {UpperHex[i] : i \in 1..16}

HexValue(digit) ==
    CHOOSE value \in 0..15 :
        digit \in {LowerHex[value + 1], UpperHex[value + 1]}

HexNumber(digits) ==
    LET upTo[n \in 0..Len(digits)] ==
            IF n = 0 THEN 0 ELSE 16 * upTo[n - 1] + HexValue(digits[n])
    IN upTo[Len(digits)]

\* strtoul of a line in base 16: the digits it starts with, or 0.
ChunkSize(line) ==
    LET others == {i \in DOMAIN line : line[i] \notin HexDigits}
    IN HexNumber(IF others = {} THEN line ELSE SubSeq(line, 1, Min(others) - 1))

\* all_chunk.substr(pos, size): what is there of it.
Part(all_chunk, pos, size) ==
    SubSeq(all_chunk, pos, Min({pos + size - 1, Len(all_chunk)}))

\* Mutant: the data of a chunk is searched for the next size.
SearchesData(all_chunk, rest, pos) ==
    LET next_pos == NextLineEnd(all_chunk, pos)
        line == Trim(SubSeq(all_chunk, pos, next_pos - 1))
        size == ChunkSize(line)
    IN IF next_pos = 0 THEN [end |-> FALSE, content |-> <<>>]
       ELSE IF line = <<>> THEN rest[next_pos + 2]
       ELSE IF size = 0 THEN [end |-> TRUE, content |-> <<>>]
       ELSE [end |-> rest[next_pos + 2].end,
             content |-> Part(all_chunk, next_pos + 2, size)
                           \o rest[next_pos + 2].content]

\* What the loop finds from pos on; rest has what it finds from further on.
Turn(all_chunk, rest, pos) ==
    LET next_pos == NextLineEnd(all_chunk, pos)
        line == Trim(SubSeq(all_chunk, pos, next_pos - 1))
        size == ChunkSize(line)
    IN IF next_pos = 0 THEN [end |-> FALSE, content |-> <<>>]
       ELSE IF line = <<>> THEN rest[next_pos + 2]
       ELSE IF size = 0 THEN [end |-> TRUE, content |-> <<>>]
       ELSE [end |-> rest[next_pos + 2 + size + 2].end,
             content |-> Part(all_chunk, next_pos + 2, size)
                           \o rest[next_pos + 2 + size + 2].content]

\* reach_chunk_end: whether the last chunk's line is there, and the content,
\* which takes of the last chunk received what is there of it.
ReachChunkEnd(all_chunk) ==
    LET from[pos \in Nat \ {0}] == Turn(all_chunk, from, pos)
    IN from[1]

-----------------------------------------------------------------------------
\* The content that is in what was sent so far.
Data(sent) ==
    LET upTo[n \in 0..Len(sent)] ==
            IF n = 0 THEN <<>>
            ELSE IF sent[n].data THEN Append(upTo[n - 1], sent[n].byte)
            ELSE upTo[n - 1]
    IN upTo[Len(sent)]

MarkedByte == [byte : Byte, data : BOOLEAN]

IsLineEnd(sent, i) ==
    /\ sent[i].byte = "CR" /\ sent[i + 1].byte = "LF"
    /\ ~sent[i].data /\ ~sent[i + 1].data

\* The line begins with the size of the data, perhaps with zeros before it; an
\* extension or spaces may follow.
IsSizeLine(line) ==
    /\ line[1] \in HexDigits
    /\ \A i \in 2..Len(line) :
        \/ \E j \in 2..(i - 1) : line[j] \notin HexDigits
        \/ line[i] \in HexDigits \cup {";", " "}

\* What the server sends from start on is a chunk: its line, the data and the
\* end of a line.
IsChunk(sent, start, end) ==
    LET line == SubSeq(Bytes(sent), start, end - 1)
        after == end + 2 + ChunkSize(line)
    IN /\ start < end /\ after < Len(sent)
       /\ IsSizeLine(line)
       /\ \A i \in start..(end - 1) :
            sent[i].byte # "CR" /\ ~sent[i].data
       /\ \A i \in (end + 2)..(after - 1) : sent[i].data
       /\ IsLineEnd(sent, end) /\ IsLineEnd(sent, after)

\* A chunked body: one chunk behind the other, and the empty one at the end.
\* ends has the end of the line for every start of a chunk.
IsChunked(sent, ends) ==
    /\ sent \in Seq(MarkedByte)
    /\ ends \in [DOMAIN ends -> 1..Len(sent)]
    /\ 1 \in DOMAIN ends /\ DOMAIN ends \subseteq 1..Len(sent)
    /\ \A start \in DOMAIN ends :
        LET end == ends[start]
            size == ChunkSize(SubSeq(Bytes(sent), start, end - 1))
        IN /\ IsChunk(sent, start, end)
           /\ IF size = 0 THEN Len(sent) = end + 3
              ELSE end + 2 + size + 2 \in DOMAIN ends

\* A body that is sent as it is.
Plain(content) == [i \in DOMAIN content |-> [byte |-> content[i], data |-> TRUE]]
=============================================================================
