# Specifications of owt_bench

owt_bench is a load generator for an OWT (WebRTC) conference server. It asks the
server's REST interface for a token, joins a conference and, in the role `pub`,
publishes a number of audio and video streams or, in the role `sub`, subscribes
to as many; it logs statistics every five seconds and stops everything when the
duration of the test is over or on a SIGINT. These modules model its control:
the event loop, the life of the session, publications and subscriptions, and the
HTTP client it is built on, with the requests it sends, the bodies it decodes and
the files it writes, and the sources of the published media. TLC checks small
instances; TLAPS proves every invariant of the runs that pass: those of publisher
and subscriber for any number of items, those of the HTTP client, of the
synchronous client and of downloads for any behaviour of the network and any
chunked body, those of requests for any urls and parameters, and those of the
media sources for any file.

## The system

| component | source | state | operations |
|---|---|---|---|
| event loop | `src/dispatcher.*` | queue of tasks, timers, signal, run/stopped | `PostTask`, `PostTask(.., dur)`, `AddSignalHandler`, `Run`, `SyncStop` |
| session | `src/main.cpp`, `src/processor.*` | `room_`, `info_` | `Start`, `GetToken`, `Run`, `Ticker`, `Stop` |
| publisher | `src/processor.*` | `publish_infos_`, `local_streams_`, `pub_count` | `StartPublish`, `PublishOne`, `Mix`, `RemovePublish`, `PubObserver` |
| subscriber | `src/processor.*` | `subscribe_infos_`, `sub_rooms_`, `sub_conference_infos_`, `sub_count` | `StartSubscribe`, `SubscribeOne`, `Join`, `RemoveSubscribe`, `SubObserver` |
| asynchronous HTTP client | `include/httpclient/asynchttpclient.h`, `responseinfo.h`, `scopedcounter.h` | socket, deadline timer, `m_cb_called`, `m_response`, the coroutine | `make_request`, `yield_func`, `timeout_cb`, `do_response_callback` |
| synchronous HTTP client | `synchttpclient.h` | thread, condition variable, `m_response` | `make_request`, `cb`, `wait`, destructor |
| chunked decoding | `asynchttpclient.h` | none | `reach_chunk_end`, from the start on all that was received so far |
| downloads | `asyncdownload.h`, `syncdownload.h` | file | `download`, `content_cb`, `prepare_file` |
| URL and request text | `urlparser.h`, `httputil.h`, `requestinfo.h` | `m_urlparser`, `m_query_param`, `m_should_encode_path` | `set_url`, `set_query_param`, `enbale_path_encode`, `build_as_string`; `url_encode`, `url_decode`, `build_kv_string`, `parse_kv_string` |
| media inputs | `audioframegenerator.*`, `EncodedVideoInput.*`, `YuvVideoInput.*` | position in a file | one frame per call |
| SDK | `include/owt`, `libs` | external | callbacks `Join`, `Publish`, `Subscribe`; events `OnEnded`, `OnError` |

**Threads.** The main thread runs the dispatcher's tasks, one at a time, first in
first out. Each conference client of the SDK calls its results and events on a
thread of its own. The publisher has one such client. In the role `sub` every
subscription has one more, and its callbacks, which do real work, run
concurrently with each other and with the main thread. The HTTP client's
handlers run on the dispatcher.

**What is hard.** Results of the SDK become tasks behind whatever is queued
already: removals, the request to stop, the stop. Observers and renderers are
registered by reference and owned by the entries of two maps. An item may end
before its observer is registered, report errors many times, or be removed twice.
A stop may come before there is a conference. In the HTTP client the deadline and
the coroutine race to answer, and each may already be queued when the other one
wins. The body comes in pieces that have nothing to do with its chunks, and its
content callback takes the content away while it is read. The synchronous client waits on a condition variable without a predicate
and destroys its parts in an order of its own.

**What makes each component correct.** Event loop: a task runs once, in order.
Session: no task that uses the conference runs without one; the tick neither
stops nor doubles. Publisher and subscriber: map, observers, renderers and server
agree, whatever is reported and when; nothing is tracked twice, released twice or
left behind. HTTP client: one answer, with a reason, and no body taken for whole
that is not. Synchronous client: the caller gets the answer, and the client can
be destroyed. Downloads: the file has each byte once, and the caller is told of
those that are dropped. Requests: whatever was set before, they go to the host and
port of the last url, and the server gets the path (but for its spaces) and the
parameters the caller gave. Media inputs: whole frames, in the order of the file.

## The modules

| module | models |
|---|---|
| `Dispatcher` | the queue (`queue`), the one-shot waits (`waits`) and the thread in `run()` (`ios`). `Takes`, `Finishes`, `FinishesPosting` are the parts of a task's step, `PostTask` a post by another thread, `WaitCompletes` a timer or the signal |
| `Session` | extends `Dispatcher`: token, join, `Run`, the tick, the request to stop. `startup = "entered"` is the time between `info_ = info` and `Run()`, on the client's thread |
| `Registry` | the abstract promise about `publish_infos_` and `subscribe_infos_`: absent, tracked, released. The loop ends in order with nothing tracked (`Close`), or the process dies (`Die`): with everything still tracked, or at the end of `Stop`, with everything released |
| `Publisher` | extends `Session` with the role `pub`; an item is one call of `PublishOne` |
| `Subscriber` | extends `Session` with the role `sub`; a slot is one call of `SubscribeOne` with its own client |
| `HttpClient` | one request: the coroutine's `stage` and the operation it awaits (`op`), the timer, the socket, the response |
| `ChunkedBody` | `reach_chunk_end` on bytes, and the encoding a server uses |
| `Download` | extends `HttpClient` and `ChunkedBody`: the same steps with the bytes of the body, the client's content and the file of `CAsyncHttpDownload` and `CSyncHttpDownload` |
| `UrlText` | encoding, decoding, splitting and `UrlParser::parse`, on bytes |
| `Request` | `RequestInfo`: the setters in any order, the service that is looked up, the target in the first line, and what the server reads of it |
| `MediaInput` | the three sources as readers that loop over a file cut off anywhere |
| `SyncHttpClient` | the caller's thread, the client's thread, and as much of the asynchronous client as the two see |
| `MCPublisher`, `MCSubscriber`, `MCDownload`, `MCRequest`, `MCMediaInput`, `MCSyncHttpClient` | the instances TLC checks |
| `Dispatcher_proofs` | lemmas about FIFO queues of tasks |
| `ChunkedBody_proofs` | induction and recursion, sequences, and what the decoder makes of any part of a chunked body |
| `Publisher_proofs`, `Subscriber_proofs`, `SyncHttpClient_proofs`, `MediaInput_proofs` | the theorems about the module of that name |
| `Download_proofs` | those about `HttpClient` and about `Download` |
| `Request_proofs` | those about `UrlText` and about `Request` |

One action is one handler or one task, with everything it does to the state:
`RunPublished` is the whole task of the success callback, `RunRemove` that of
`RemovePublish`, `RunStop` that of `Stop` including the handler that stops the
loop. A task is a record of the function and the object it captured. Actions
named `Run...` take the oldest task; the others are what another thread, the
server, the clock or the network does. Definitions whose comment starts with
"Mutant:" are not part of the specification: each is a variant of the definition
after it with a plausible bug, kept to show which property notices it.

`Download` composes by conjunction: `DChunkRead` is `HttpClient`'s `ChunkRead` and
what happens to the data, and the outcome that `HttpClient` leaves open (the last
chunk is there or not, content is left or not) is the one that `ReachChunkEnd`
and the callback have. A read of a body with a length asks for the rest of it and
may get it in parts: `DBytesArrive` is such a part, which waits in `response_buf`
and is a stutter of `HttpClient`, and a read that `BreaksOff` drops what it had.
So a behaviour of `Download` is one of `HttpClient`, and the run `http` checks the
properties of both.

A file's bytes are numbered by their offsets in `MediaInput`, so that a frame
shows where it was read. A recording of the encoder is a parameter: which size is
written at which offset, and where the last frame ends, with the assumption that
one frame lies behind the other; `MCMediaInput` builds such recordings from the
sizes of their frames. A byte of a chunked body carries whether the server
meant it as data, which the decoder does not look at. The loops over texts in
`httputil.h` are folds with the step of the loop as a function (`Fold`), the loop
of `reach_chunk_end` is a function of the position it has reached.

What is abstracted: ids are the items themselves; a response is three facts (it
timed out, it carries an error, it has a body); a stream is its kind (`mixed`,
`forward`, `audio`); logging, statistics and stream parameters are left out.
`unseen`, `errored`, `calls`, `given`, `calledAt`, `stopped` (of `HttpClient`),
`lateCalls`, `dropped` and `Request`'s `given`, `carried`, `params` and `misread` are
history variables the code does not have. The build is `-O0`, so the functions that lack a return statement return.

The numbers of audio and of video items are independent in `Publisher` and
`Subscriber`; in the program both are `num`, or one is 0. The instances of TLC
are of that form, the theorems hold for all.

**Events of the SDK** are external. Modelled from how `processor.cpp` uses them:
a publication reports to the observers it has at that time; `OnError` may come
any number of times and need not end it; once stopped it reports no end.
`RemoteStreams()` changes at any time.

**Undefined behaviour.** Two threads in `emplace_back` of one vector
(`processor.cpp:66-67`) are a nondeterministic crash (`EmplaceRace`); the other
outcome, a lost element, leaves every modelled variable as it is. The erase
in `Stop`'s loop moves the iterator before its key is logged (`processor.cpp:132`);
at the last entry it is `end()`, and `RunStop` of `Subscriber` ends in order or in
a crash. `fread` on a file that could not be opened, and `fclose` on it, crash
(`MediaInput`); a frame the file cuts off has zeros for the bytes that were never
written. `info_` is
written by the client's thread and read by the main thread without a lock; a
reader finds the pointer null or set, which is what `Session` has.

## The runs

| run | instance | states | shows |
|---|---|---|---|
| `publisher` | one audio and one video publication, `MaxQueue = 3` | 475,798 | all of `Publisher`'s invariants, `IInv`, `TracksAndReleases` (it implements `Registry`), `TestEnds` |
| `subscriber` | one mixed and one forwarded subscription, a mix and a camera that come and go, `MaxQueue = 2` | 2,269,504 | observers, handlers, counts, `SubInv`, and that it implements `Registry` |
| `subscriber_pair` | two forwarded subscriptions (symmetric) that share streams | 1,274,824 | `RenderersAreOwned` |
| `http` | one request; five bodies, four styles of chunk | 40,585 | one answer with a reason; a body with a length is whole; no traffic after the answer but for one case; the answer comes; no byte of a body is lost or doubled but for those a read of a body with a length drops when it breaks off, of which the caller is told; a clean answer means a complete file but for two cases; the decoder sees the end of a body where it is |
| `sync` | one request, no bound needed | 196 | a caller that waits in time is woken, with the answer, if the process lives; nothing is destroyed under a running handler; the destructor ends when the coroutine has; `SyncInv` |
| `media` | files of 0 to 14 bytes for frames of 3, recordings of up to three frames | 820 | frames are whole, but for samples of which two reads are mixed, and in order; the encoder never takes data for a header |
| `request` | 120 urls, 3 sets of parameters, any sequence of calls | 34,614 | the request goes to the host and the valid port of the last url; its path arrives with a plus for every space; the parameters arrive |
| `stop_before_join` | as `publisher`, `MaxQueue = 2` | | *violation*: `Stop` dereferences `info_` while it is null |
| `token_unchecked` | as `publisher`, `MaxQueue = 2` | | *violation*: a join with the body of a failed response |
| `search_spins` | one forwarded subscription, a mix and a participant without video | | *violation*: the search for a forward stream never ends |
| `sync_lost_wakeup` | one request | | *violation*: the callback is not waited for any more, the caller waits for ever |
| `audio_skips` | as `media` | | *violation*: the audio source gives every second 10 ms of its file |

**Bounds.** `MaxQueue` bounds the queue's length at which a publication or a
subscription may report one more error; everything else may lengthen the queue
further. With 3 there are two removals of one item and a request to stop in every
order. Two items are enough for the invariants: each relates one item to the
queue, and for the renderers, which relate two subscriptions of one stream, there
is `subscriber_pair`. `Bodies` has an empty body, one byte, and those that could
mislead the decoder: a chunk that looks like the last one, the same cut in two,
and a line end across two chunks; each is cut into reads in every way. With
`FrameSize = 3`, `MaxLength = 14` has every remainder of a file of no, one and
several frames; `Recordings` has an empty frame and one shorter than a header.
`Urls` has every combination of present and absent parts and the bytes that mean
something in a url; its ports are empty, 8080, 65535, the largest, and 65616, which
is none; `Params` has empty keys and values and the separators in
both. All other variables are bounded by the code.

**Deadlock** is checked wherever the system must go on; `Terminated` is the
program's end. `SyncHttpClient` may stop: the caller can destroy the client, and
the violation is such an end.

**Fairness.** `Publisher`: the main thread keeps taking tasks, and the timer of
the duration fires; nothing is assumed of server, network or user. `HttpClient`:
one thread runs the handlers of the io_service in turn and the deadline passes;
the operations on the network need never complete. `Download`: the same formula;
the data forbids none of these steps, so the fairness asks for nothing more. `SyncHttpClient`: the
operating system schedules both threads, the handlers are taken in turn, the
clock runs.

**What `TestEnds` means.** The loop is left: in order, by the crash of
`stop_before_join`, or by a second SIGINT (`SecondSignal`: the signal's wait is
one-shot and its `signal_set` dies with the handler), or by a content-length that
is no number, whose exception leaves the HTTP client, `ios_.run()` and `main()`
(`asynchttpclient.h:308`; `TokenThrows` for the token, `MixThrows` for the request
to mix, `SubTokenThrows` in `Subscriber`). The property is about the wait for the
server, not the crash.

**What the violations mean.** Each is a short behaviour of the code that a doc or
a comment contradicts; `PROJECT.json` quotes the line.

**Exceptions.** What the code does and a property excepts is named in it:

- `LateTrafficOnlyFromResolve`, `OneLateCall`: when the deadline passes while the
  name is resolved, `async_connect` opens the closed socket again and the request
  is sent and answered after the caller was told of the timeout
  (`asynchttpclient.h:172`);
- `AnswerComes`: a content-length that is no number throws out of the coroutine
  and of `run()` (`asynchttpclient.h:308`);
- `NothingLostOrDoubled`: what a read of a body with a length had when it ended in
  an error, the end of the stream or the deadline is dropped with `response_buf`
  (`asynchttpclient.h:311-319`: `dropped`); the property says that the caller is then
  told of a timeout or an error;
- `CleanIsInFile`: a write that fails is not noticed (`asyncdownload.h:61`:
  `lost`), and a chunked body the server cuts off is a clean answer without a
  byte in the file (`asynchttpclient.h:277`);
- `WaiterIsWoken`, `DestructorEndsAfterCoroutine`: the caller has to wait before
  the callback comes, and the coroutine has to be through when the destructor
  stops the io_service, or the destructor waits for it for ever
  (`synchttpclient.h:18`);
- `WaiterIsWoken`, `RequestReturns`: the content-length that is no number throws out
  of `run()` on the client's own thread, which ends the process (`terminated`) with
  the caller still waiting;
- `ConnectsAsGiven`, `PathArrives`, `ParamsArrive`: `://` in the query of a url
  without a protocol is taken for the end of one (`misread`);
- `ConnectsAsGiven`: a text behind the colon that is no number from 1 to 65535 is
  what `strtoul` and the cast to 16 bits make of it (65616 is port 80,
  `urlparser.h:71`); where no port is named, nothing is said of the service if the
  protocol or the port of an earlier url was carried on (`carried`): that is not
  called right, it is left out;
- `PathArrives`: `url_encode` writes a space as a plus (`httputil.h:114-117`), which
  is a space in a query and a plus in a path. The property says that a server gets
  the path with a plus for every space;
- `FramesAreWhole`: the block of samples for which the audio source's second read
  ended with the file, inside a frame, so that it lies over the first one
  (`MixesReads`). Every other frame is covered, those after that block too.

**Met while modelling, without a property.** `asyncdownload.h:38` says that the
content of the response is empty: after a chunked body that was cut off it is
not. `m_response.timeout` may be set after the answer by a deadline that was
queued (`asynchttpclient.h:482`); the callback has its copy by then. An interim
response (100) is taken for the answer (`asynchttpclient.h:244`). A url without a
port keeps the port of the url that was parsed before it (`urlparser.h:77`), where
`urlparser.h:21` says of the port "0 if not specified": after two calls of `set_url`,
the first with a port, the request goes to the second host at the first one's port.

## The proofs

`Publisher_proofs` proves for any finite sets of audio and video publications,
any `MaxQueue` and any behaviour of the server:

- `Invariance`: `Spec => []IInv`, and from it `TypeCorrect`, `ObserversTracked`,
  `ForgottenEnded`, `EndHeard` and `InfoThere`;
- `Refinement`: `Publisher` implements `Registry`;
- `Counting`: `pub_count` is minus the number of removals until the stop;
- `TickerLives`: exactly one tick is on its way.

**The inductive invariant.** None of the properties is inductive. That a
publication is tracked only once needs that its success task is queued only once,
and only while it is not tracked (`PublishedOnce`), which needs that the server
answers a request once, hence that the start task is queued once and before any
request (`StartFirst`), hence that the token's task is (`TokenFirst`), since the
join follows it. `ForgottenHasEnded` needs that what is tracked was live once
(`TrackedWasPublished`), `EndIsHeard` that what ended before it was tracked is in
`unseen` (`EndedUntrackedIsUnseen`), and `TasksNeedInfo` that no tick is armed
before the join (`InfoOnceJoined`). `IInv` is their conjunction, and the run
`publisher` checks it too.

**The queue.** The proof never reasons about positions. `Dispatcher_proofs` shows
what appending to and taking from a sequence do to the set of its elements and to
"t is in it at most once" (`AppendFacts`, `AppendOnce`, `TailFacts`, `TailOnce`);
`Posted`, `Taken` and `TakenPosting` state this for the dispatcher's steps, and
the invariant is written in these two terms.

`Download_proofs` proves of `HttpClient`, for any sequence of results of the
network, with the deadline at any time: `RequestInvariance` (`Spec => []HInv`) and from it
`RequestTypes`, `OneAnswer`, `TimeoutExcludesError`, `WholeLength` and
`LateTraffic`. That the answer never has a timeout and an error needs that the
response still has neither before it (`NoReasonYet`); that a body with a length
is whole needs that the coroutine reads it the way the headers said
(`ModeIsStage`) and that nothing happens to the body after a clean answer
(`CleanIsLast`); late traffic needs that nobody is answered between the
resolver's result and its use (`CalledBeforeConnect`). Three lemmas say what one
answer of the coroutine, one more operation and the deadline do to `HInv`
(`FinishesKeeps`, `AwaitsKeeps`, `RunTimeoutKeeps`); each action of the coroutine
is one of them with its own response.

`Subscriber_proofs` proves for any finite sets of mixed and forwarded
subscriptions, any streams and any interleaving of the clients' threads with the
main thread: `Invariance` (`Spec => []SubInv`), from it `TypeCorrect`,
`ObserversTracked`, `RenderersOwned`, `EndHeard`, `OnlyErrors` and `ToldOnce`, and
`Refinement` (`Subscriber` implements `Registry`) and `Counting`. The invariant
follows a slot: its success task is queued once, only after the server has
answered and before anything is tracked (`TasksOfSlot`); what was handled cannot
succeed again (`HandledIsOver`); a removal is queued only for what ended or
reported an error (`RemovalHasReason`), without which `OnlyErrorsAbandon` is not
inductive; and nothing is tracked once the loop is left
(`NothingTrackedOutside`). `RenderersAreOwned` is inductive because it says of a
slot whose renderer a stream has that it chose that stream: its removal detaches
it, and that of another slot may. `EntrySteps` says of every step that it adds one
entry, takes one away, takes all away or leaves them; `Refinement` and `Counting`
both follow from it.

`SyncHttpClient_proofs` proves `SyncInvariance` and from it `SyncTypes`,
`WokenWithAnswer` and `NothingInUseDestroyed`: a handler runs only inside
`run()` (`HandlersRunInside`), the thread exists only after the request
(`ThreadComesWithRequest`, on which the destructor's test for a thread relies),
and a handler past the assignment in `cb` has stored the answer
(`StoredBeforeNotified`).

`ChunkedBody_proofs` proves `DecodesEveryPrefix`: for a chunked body with chunks
of any number, sizes and bytes, and any part of it that has come,
`reach_chunk_end` finds exactly the content in that part, and the end as soon as
the line of the last chunk is there. The decoder looks for line ends from where
it stands, so a chunk is found if its line has none (`ChunkLineIsFound`); its data
may have any, since the decoder steps over as many bytes as the line says
(`TrimKeepsSize`: trimming does not change the size), and the line end behind the
data is not read as a line (`DecodesChunk`). The theorem then goes by induction
from the last chunk to the first.

`Download_proofs` proves `DownloadIsRequest`: `Download`'s specification implies
`HttpClient`'s, so that each theorem about the request holds of downloads; and
`OneCallAfterAnswer`: after the answer no operation is in flight, and a result
that was there already is used once (`OneReadLeft`). `DownloadInvariance` is
about the bytes (`Spec => []DataInv`), from which follow `DownloadTypes`,
`DownloadKeepsData`, `DecoderSeesEnd` and `CleanDownload`. That nothing is lost
or doubled is not inductive alone: each read of a chunked body replaces the
content by what is decoded from the start, which doubles nothing only because
such a body is handed over at its end and at no other time (`ChunksAtOnce`), and
what is decoded is what has arrived only because the server delimits the body as
the headers said (`SentAsDelimited`) and the decoder is right about every part of
it (`DecodesEveryPrefix`). `UnreadTyped` says that only a read of a body with a
length holds bytes back, and that the coroutine is over once it has dropped some;
the steps with such bytes are `BytesArriveKeep` and
`BreakingOffKeeps`. A clean answer means a complete file because a body
with a length is read to its end (`LengthArrives`), because a download empties
the content in each callback that does not stop the request (`Emptied`), and
because one that stops it is the last and says why (`StopIsLast`,
`StopHasReason`).

`MediaInput_proofs` proves for every size of a frame and of a header, every
length of a file and every recording:

- `WholeFramesOnly` and `PicturesInOrder`, from `FramesInv`: the file stands at a
  multiple of the frame's size, behind the frame delivered last. The lemmas are
  about reads (`WholeBuffer`, `SecondRead`, `CutBuffer`: what `Buffer` holds after
  a read that was whole, that got nothing, or that was cut off) and about
  multiples (`NextMultiple`, `FitsInto`, `NoRemainder`). The audio source, which
  reads twice per call, stands behind the frame it delivered as well, if the second
  read got a whole one or nothing; where the file ends inside that one, the two are
  mixed, the source stands at the end of the file and the next call starts over
  (`NextSamples`);
- `EncoderInStep`, from `EncoderInv`: the file stands before a header or at its
  end, since behind each header that is there with its data lies another one or
  the end.

`Request_proofs` proves about text, for texts of any length: `TextRoundTrip`
(`url_decode` has back what `url_encode` was given, and a decoder that knows only
escapes has it with a plus for every space), from what holds of a byte
(`EscapeRoundTrip`, `NoSeparatorEncoded`, `EncodeByteInjective`); and `ParseIs`:
`UrlParser::parse` takes the text of a url apart into the parts it was put
together from. About `Request`, for any urls, any parameters and the setters in
any order: `RequestInvariance` (`Spec => []RequestInv`) and from it

- `Connects`: the parser has the parts of the last url and, of a protocol or a port
  this one does not name, nothing unless it is carried on (`ParserHasGiven`).
  `PortNumber` is `strtoul` with whitespace, sign and saturation; the property reads
  the digits from the last one on, and the two agree on every port from 1 to 65535
  (`DigitsRead`, `PortIs`);
- `PathReaches`: the path and the host have no question mark (`HostIsPlain`), so
  the server finds where the query begins (`FoundAtServer`); the loop of
  `build_as_string` encodes a path as if byte by byte, its slashes left as they
  are (`PathEncoded`, `SplitPathEncoded`), trimming before it is the same as
  trimming after it (`TrimPathEncoded`), and no segment gets a slash; what a server
  that knows only escapes makes of a segment is the segment with a plus for every
  space (`Respelled`);
- `ParamsReach`: no encoded text has a separator (`EncodedWithout`), so the query
  is split up into whatever the url's own query has and then the pairs
  (`QuerySplits`), and since of two pairs with one key the later one counts, the
  url cannot take the place of a parameter (`PairsParsed`).

**Induction.** The library's induction theorems have a predicate as a parameter,
which none of the provers can instantiate. `ChunkedBody_proofs` states induction
about a set instead, of numbers (`Induction`) or of sequences (`SeqInduction`),
and proves it from the well-founded order of the naturals; `Recursion` gives a
function that is defined by recursion over the first elements, and `SameSteps`
that there is one such function only. What a loop computes for every text is
therefore proved and not only checked: `DataSteps`, `FoldIs`, `Turns`.

**Assumptions.** `PubsAssumption`, `SlotsAssumption` (finite, disjoint sets),
`StreamsAssumption` (finitely many streams, each of a kind) and
`MaxQueueAssumption`; finiteness is used by `Counting` only.
`SizesAssumption` (a frame and a header have at least one byte) and
`RecordingsAssumption` (see above), which say what the encoder's files are.
`BodiesAssumption`: a server sends valid chunked bodies, with lines that may have
zeros before the size and spaces or an extension behind it, and no trailers.
`UrlsAssumption`: the parts of a url are those its text is divided into, so that a
protocol has no colon, a host neither colon, slash nor question mark, a path
begins with a slash and has no question mark; a query is any text.
`ParamsAssumption`: finitely many keys, which are texts as their values are;
finiteness is that of a `std::map`, and the order of the keys is left open. The
first two are about the other side and say what the program is made for: of a
body that is no valid encoding, or a url in brackets, nothing is claimed. TLC
evaluates the assumptions on the instances.

**Checked too.** The inductive invariants `IInv`, `SubInv` and `SyncInv`, which
contain the type invariants, are invariants of the runs `publisher`, `subscriber`
and `sync`. `LateInv` (with `HInv` in it), `DataInv`, `FramesInv`, `EncoderInv` and
`RequestInv` hold in every state of the runs `http`, `media` and `request`: their MC
modules extend the modules with the proofs, so that the names can be added to
the cfgs.

**Only model-checked.** The liveness properties (`TestEnds`, `AnswerComes`,
`WaiterIsWoken`, `DestructorEndsAfterCoroutine`), which are beyond the prover. The
invariants and the refinements of the runs that pass are all proved.

## Not modelled

- Third-party code, which is most of `src/`: spdlog with its bundled fmt, cxxopts
  and the headers of the SDK are some 25,000 of its 28,000 lines. Nothing about
  this program would be learnt from modelling them.
- `parse_response_headers` is reduced to its outcomes: refused, or one of the
  ways to delimit a body that the tests after it choose from.
- Of the text of a request, method, version, header lines and body: they are
  copied, and nothing in the client depends on them.
- An error of the deadline timer other than its cancellation, which would call the
  callback (`asynchttpclient.h:468-473`): a wait of Boost's
  timer ends by expiry or cancellation only.
- Callbacks of the HTTP client that throw with `throw_in_cb`, and the proxy:
  nothing sets them. The wait in `~CAsyncHttpClient` as the dispatcher's requests
  use it (each client is kept alive by its own handlers); as the synchronous
  client uses it, it is in `SyncHttpClient`.
- `CSyncHttpDownload::download` when the file cannot be opened before the request
  is made; names of files and directories.
- A buffer of the SDK too small for a frame: the sources return at once.
- `RemoveNotAliveStream`, `rest_api.h`, `main copy.cpp` are dead; the loggers only
  write.

## Plan

Done: all modules above, the proofs of every invariant that a run checks, and
both refinements of `Registry` and that of `HttpClient`. What is left:

1. `parse_response_headers` and the text of the header lines, as functions on
   text like those of `UrlText`, from which `HttpClient`'s ways to delimit a body
   would follow instead of being its inputs.
2. `Session`: the lemmas that publisher and subscriber prove about the startup in
   one place, parametrised as those about the queue are.
3. `DecodesEveryPrefix` for bodies with trailers, which the decoder leaves unread.
