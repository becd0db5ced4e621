------------------------------ MODULE Download ------------------------------
(***************************************************************************)
(* The body of HttpClient's request: what the server sends of it, what the *)
(* client decodes (ChunkedBody), and what the content callback makes of    *)
(* it.  The callback is the caller's own, or one of the two downloads'     *)
(* (httpclient/asyncdownload.h and syncdownload.h), which write the        *)
(* content to a file and empty it.                                         *)
(*                                                                         *)
(* Every step is a step of HttpClient with the data that goes with it.     *)
(***************************************************************************)
EXTENDS HttpClient, ChunkedBody

CONSTANT Bodies     \* the bodies as a server sends them in chunks, and where
                    \* each chunk has its line

ASSUME BodiesAssumption == \A b \in Bodies : IsChunked(b.sent, b.ends)

VARIABLES
    client,     \* "own", "async" or "sync"
    sent,       \* the body as the server sends it
    arrived,    \* how much of it the client has read
    response_buf,   \* the part a read in flight has so far
    content,    \* m_response.content
    file,       \* what m_file has taken
    opened,     \* m_file is open
    lost,       \* m_file is bad: it takes nothing any more
    lateCalls,  \* history: content callbacks after the response callback
    dropped     \* history: what a read that broke off had in response_buf

data == <<sent, arrived, content, file, opened, lost, lateCalls>>

unread == <<response_buf, dropped>>

dvars == <<vars, client, data, unread>>

\* What the server may send, by how the body is delimited.
Sent ==
    [delimited \in Reading |->
        IF delimited = "chunked" THEN {b.sent : b \in Bodies}
        ELSE {Plain(Data(b.sent)) : b \in Bodies}]

Received == SubSeq(sent, 1, arrived)

\* HttpClient's, and that its flag content is about the content, that the
\* file has the beginning of the body, if a write failed as well, and that
\* only a read of a body with a length waits with bytes in its hands.
DTypeOK ==
    /\ TypeOK
    /\ client \in {"own", "async", "sync"}
    /\ IF mode \in Reading THEN sent \in Sent[mode] ELSE sent = <<>>
    /\ arrived \in 0..Len(sent)
    /\ response.content <=> content # <<>>
    /\ \E n \in 0..Len(Data(sent)) : file = SubSeq(Data(sent), 1, n)
    /\ opened \in BOOLEAN
    /\ lost => opened
    /\ lateCalls \in 0..(Len(sent) + 1)
    /\ response_buf # <<>> => stage = "length"
    /\ dropped # <<>> => stage = "done"

\* CSyncHttpDownload opens the file before it makes the request.
DInit ==
    /\ Init
    /\ client \in {"own", "async", "sync"}
    /\ sent = <<>>
    /\ arrived = 0
    /\ content = <<>>
    /\ file = <<>>
    /\ opened = (client = "sync")
    /\ lost = FALSE
    /\ lateCalls = 0
    /\ response_buf = <<>>
    /\ dropped = <<>>

-----------------------------------------------------------------------------
\* What the callback returns in HttpClient's step.
Returns(ok, error) ==
    /\ stopped' = ~ok
    /\ ~cb_called => response'.error = error

\* The caller's callback returns what it likes and may take the content.
OwnCallback(c) ==
    /\ client = "own"
    /\ content' \in {c, <<>>}
    /\ UNCHANGED <<file, opened, lost>>

\* prepare_file fails, which stops the request.
CannotOpen(c) ==
    /\ client = "async"
    /\ ~opened
    /\ Returns(FALSE, TRUE)
    /\ content' = c
    /\ UNCHANGED <<file, opened, lost>>

\* Mutant: the content is written and kept.
WritesAndKeeps(c) ==
    /\ client # "own"
    /\ Returns(TRUE, FALSE)
    /\ opened' = TRUE
    /\ content' = c
    /\ \/ /\ ~lost
          /\ file' = file \o c
          /\ UNCHANGED lost
       \/ /\ c # <<>>
          /\ lost' = TRUE
          /\ UNCHANGED file

\* m_file << content.  A stream that cannot write sets its bad bit and throws
\* nothing, so that the callback clears the content and returns true.
Writes(c) ==
    /\ client # "own"
    /\ Returns(TRUE, FALSE)
    /\ opened' = TRUE
    /\ content' = <<>>
    /\ \/ /\ ~lost
          /\ file' = file \o c
          /\ UNCHANGED lost
       \/ /\ c # <<>>
          /\ lost' = TRUE
          /\ UNCHANGED file

\* do_content_callback with m_response.content = c.
ContentCallback(c) ==
    /\ lateCalls' = IF cb_called THEN lateCalls + 1 ELSE lateCalls
    /\ OwnCallback(c) \/ CannotOpen(c) \/ Writes(c)

\* Mutant: the callback comes after every read, although each decodes the
\* body from its beginning.
DecodesAndHandsOver ==
    \E decoded \in {ReachChunkEnd(Bytes(Received'))} :
        /\ body' = IF decoded.end THEN "whole" ELSE "partial"
        /\ ContentCallback(decoded.content)

\* reach_chunk_end on all that was received; the callback comes at the end.
Decodes ==
    \E decoded \in {ReachChunkEnd(Bytes(Received'))} :
        /\ body' = IF decoded.end THEN "whole" ELSE "partial"
        /\ \/ /\ decoded.end
              /\ ContentCallback(decoded.content)
           \/ /\ ~decoded.end
              /\ content' = decoded.content
              /\ UNCHANGED <<file, opened, lost, lateCalls>>

\* The first n bytes of a body are there, and none waits in response_buf.
ArrivesUpTo(n) ==
    /\ arrived' = n
    /\ response'.content = (content' # <<>>)
    /\ response_buf' = <<>>
    /\ UNCHANGED <<client, dropped>>

\* The steps without data.
DOther(A) == A /\ UNCHANGED <<client, data, unread>>

\* A read breaks off: what it had in response_buf is gone with it.
BreaksOff(A) ==
    /\ A
    /\ dropped' = response_buf
    /\ response_buf' = <<>>
    /\ UNCHANGED <<client, data>>

-----------------------------------------------------------------------------
\* The server sends nothing after the body.
DOpCompletes(r) ==
    /\ OpCompletes(r)
    /\ r = "ok" /\ stage \in Reading => arrived < Len(sent)
    /\ UNCHANGED <<client, data, unread>>

\* async_read has a part of a body with a length and goes on for the rest.
\* The reads of the other bodies end with the first byte.
DBytesArrive ==
    /\ stage = "length"
    /\ op = "inflight"
    /\ \E n \in (arrived + 1)..(Len(sent) - 1) :
        /\ arrived' = n
        /\ response_buf' =
            response_buf \o Data(SubSeq(sent, arrived + 1, n))
    /\ UNCHANGED <<vars, client, sent, content, file, opened, lost, lateCalls,
                   dropped>>

\* The headers callback of the downloads accepts everything.
DHeadersRefused ==
    /\ HeadersRefused
    /\ client # "own" => ~stopped'
    /\ UNCHANGED <<client, data, unread>>

DHeadersOfChunked ==
    /\ HeadersOfChunked
    /\ sent' \in Sent["chunked"]
    /\ \E n \in 0..Len(sent') :
        arrived' = n /\ Decodes /\ ArrivesUpTo(n)

DHeadersOfLength ==
    /\ HeadersOfLength
    /\ sent' \in Sent["length"]
    /\ \E n \in 0..Len(sent') :
        /\ body' = "whole" => n = Len(sent')
        /\ stage' = "length" => n < Len(sent')
        /\ arrived' = n
        /\ ContentCallback(content \o Data(Received'))
        /\ ArrivesUpTo(n)

DHeadersUntilClose ==
    /\ HeadersUntilClose
    /\ sent' \in Sent["close"]
    /\ \E n \in 0..Len(sent') :
        /\ arrived' = n
        /\ ContentCallback(content \o Data(Received'))
        /\ ArrivesUpTo(n)

DChunkRead ==
    /\ ChunkRead
    /\ UNCHANGED sent
    /\ \E n \in (arrived + 1)..Len(sent) :
        arrived' = n /\ Decodes /\ ArrivesUpTo(n)

DLengthRead ==
    /\ LengthRead
    /\ UNCHANGED sent
    /\ ContentCallback(content \o response_buf
                        \o Data(SubSeq(sent, arrived + 1, Len(sent))))
    /\ ArrivesUpTo(Len(sent))

DCloseRead ==
    /\ CloseRead
    /\ UNCHANGED sent
    /\ \E n \in (arrived + 1)..Len(sent) :
        /\ ContentCallback(content \o Data(SubSeq(sent, arrived + 1, n)))
        /\ ArrivesUpTo(n)

DEndOfStream == BreaksOff(EndOfStream)

DBodyFails == BreaksOff(BodyFails)

DResumes ==
    \/ DOther(FailsBeforeBody)
    \/ DOther(Resolved)
    \/ DOther(Connected)
    \/ DOther(Written)
    \/ DHeadersRefused
    \/ DOther(HeadersWithoutBody)
    \/ DHeadersOfChunked
    \/ DHeadersOfLength
    \/ DHeadersUntilClose
    \/ DChunkRead
    \/ DLengthRead
    \/ DCloseRead
    \/ DEndOfStream
    \/ DBodyFails

DNext ==
    \/ /\ stage # "threw"
       /\ \/ DOther(CoroutineStarts)
          \/ \E r \in {"ok", "eof", "error"} : DOpCompletes(r)
          \/ DBytesArrive
          \/ DOther(TimerExpires)
          \/ DOther(RunTimeout)
          \/ DOther(RunAborted)
          \/ DResumes
    \/ DOther(Terminated)

DSpec == DInit /\ [][DNext]_dvars

\* HttpClient's fairness: its handlers run, the deadline passes.  The data
\* forbids none of them.
DFairSpec == DSpec /\ Fairness

-----------------------------------------------------------------------------
\* A download neither loses nor doubles a byte, however the body is cut into
\* chunks and reads and whenever the callback empties the content under the
\* reader's hands: file and content together are what has arrived, but for
\* the bytes a read of a body with a length has not handed on (it is under
\* way, or it broke off and they are dropped).  When bytes are dropped the
\* caller is told of a timeout or an error.
NothingLostOrDoubled ==
    /\ client # "own" /\ ~lost =>
        file \o content \o response_buf \o dropped = Data(Received)
    /\ dropped # <<>> => cb_called /\ ~Clean(given)

\* A caller that is told neither of a timeout nor of an error has the body in
\* the file, unless a write failed.  Of a chunked body it has all or, if the
\* server closed the connection too soon, nothing.
CleanIsInFile ==
    client # "own" /\ cb_called /\ Clean(given) /\ ~lost =>
        CASE mode = "length" -> file = Data(sent)
          [] mode = "close" -> file = Data(Received)
          [] mode = "chunked" /\ body = "whole" -> file = Data(sent)
          [] OTHER -> file = <<>>

\* The decoder sees the end of a chunked body when its last size line is
\* there, neither before, whatever the content looks like and wherever the
\* received part ends, nor later.
EndOfChunks ==
    mode = "chunked" => (body = "whole" <=> arrived + 2 >= Len(sent))

\* The content callback writes to the file once at most after the caller was
\* answered, because of a read that had completed then, unless the deadline
\* passed before the name was resolved.
OneLateCall == lateCalls <= 1 \/ calledAt \in {"start", "resolve"}
=============================================================================
