------------------------------- MODULE Request -------------------------------
(***************************************************************************)
(* RequestInfo (httpclient/requestinfo.h): the calls that set up a request *)
(* in any order, the service that is looked up and the target in the first *)
(* line of what is sent.  The caller builds query parameters with          *)
(* url_encode and build_kv_string.                                         *)
(***************************************************************************)
EXTENDS UrlText

CONSTANTS
    Urls,       \* the urls as their parts; an absent part is empty
    Params      \* functions from keys to values, as texts

\* None of the bytes is in the text.
Without(s, bytes) == \A i \in DOMAIN s : s[i] \notin bytes

\* The parts of a url, divided as they are in its text.
IsUrl(u) ==
    /\ DOMAIN u = {"proto", "host", "port", "path", "query"}
    /\ {u.proto, u.port, u.query} \subseteq Seq(Seq(Byte))
    /\ {u.host, u.path} \subseteq Seq(Byte)
    /\ u.proto = <<>>
            \/ (Len(u.proto) = 1 /\ u.proto[1] # <<>>
                    /\ Without(u.proto[1], {Colon, Slash, Question}))
    /\ Without(u.host, {Colon, Slash, Question})
    /\ u.port = <<>>
            \/ (Len(u.port) = 1 /\ Without(u.port[1], {Slash, Question}))
    /\ u.path = <<>> \/ (u.path[1] = Slash /\ Without(u.path, {Question}))
    /\ u.query = <<>> \/ Len(u.query) = 1

ASSUME UrlsAssumption == \A u \in Urls : IsUrl(u)

\* Finitely many keys, and a text for each.
IsParams(ps) ==
    /\ IsFiniteSet(DOMAIN ps) /\ DOMAIN ps \subseteq Seq(Byte)
    /\ ps \in [DOMAIN ps -> Seq(Byte)]

ASSUME ParamsAssumption == \A ps \in Params : IsParams(ps)

VARIABLES
    m_urlparser,
    m_query_param,
    m_should_encode_path,
    given,      \* history: the parts of the last url that was set
    carried,    \* history: what an earlier url named and the later ones did not
    params,     \* history: the query parameters that were set
    misread     \* history: a url without a protocol had "://" elsewhere

vars == <<m_urlparser, m_query_param, m_should_encode_path, given, carried,
          params, misread>>

\* A url as text.  A part that may be absent is <<>> or <<text>>.
Part(before, part, after) ==
    IF part = <<>> THEN <<>> ELSE before \o part[1] \o after

Separator == <<Colon, Slash, Slash>>

Text(u) ==
    Part(<<>>, u.proto, Separator) \o u.host \o Part(<<Colon>>, u.port, <<>>)
        \o u.path \o Part(<<Question>>, u.query, <<>>)

Init ==
    /\ m_urlparser = NewParser
    /\ m_query_param = <<>>
    /\ m_should_encode_path = TRUE
    /\ given = [proto |-> <<>>, host |-> <<>>, port |-> <<>>, path |-> <<>>,
                query |-> <<>>]
    /\ carried = {}
    /\ params = <<>>
    /\ misread = FALSE

-----------------------------------------------------------------------------
SetUrl(u) ==
    /\ m_urlparser' = parse(m_urlparser, Text(u))
    /\ given' = [proto |-> u.proto, host |-> u.host, port |-> u.port,
                 path |-> u.path, query |-> u.query]
    /\ carried' = {part \in {"proto", "port"} :
                    u[part] = <<>> /\ (given[part] # <<>> \/ part \in carried)}
    /\ misread' = (misread \/ (u.proto = <<>> /\ Find(Text(u), Separator) # 0))
    /\ UNCHANGED <<m_query_param, m_should_encode_path, params>>

Encoded(ps) ==
    [k \in {url_encode(key) : key \in DOMAIN ps} |->
        url_encode(ps[CHOOSE key \in DOMAIN ps : url_encode(key) = k])]

SetQueryParam(ps) ==
    /\ m_query_param' = build_kv_string(Encoded(ps))
    /\ params' = ps
    /\ UNCHANGED <<m_urlparser, m_should_encode_path, given, carried, misread>>

EnablePathEncode(enabled) ==
    /\ m_should_encode_path' = enabled
    /\ UNCHANGED <<m_urlparser, m_query_param, given, carried, params, misread>>

Next ==
    \/ \E u \in Urls : SetUrl(u)
    \/ \E ps \in Params : SetQueryParam(ps)
    \/ \E enabled \in BOOLEAN : EnablePathEncode(enabled)

Spec == Init /\ [][Next]_vars

-----------------------------------------------------------------------------
http == <<104, 116, 116, 112>>

\* A port, or the name of a service.
getservicename ==
    CASE m_urlparser.port # 0 -> [port |-> m_urlparser.port]
      [] m_urlparser.port = 0 /\ m_urlparser.proto # <<>> ->
            [name |-> m_urlparser.proto]
      [] OTHER -> [name |-> http]

\* boost::algorithm::trim_if at slashes.
TrimSlashes(s) ==
    LET kept == {i \in DOMAIN s : s[i] # Slash}
    IN IF kept = {} THEN <<>> ELSE SubSeq(s, Min(kept), Max(kept))

\* Mutant: the parameters follow the query without a separator.
query_param_joined == m_urlparser.query_param \o m_query_param

query_param_all ==
    IF m_urlparser.query_param # <<>> /\ m_query_param # <<>>
    THEN m_urlparser.query_param \o <<Ampersand>> \o m_query_param
    ELSE m_urlparser.query_param \o m_query_param

encoded_path ==
    LET paths == Split(m_urlparser.path, Slash)
        encoded == [i \in DOMAIN paths |-> url_encode(paths[i])]
    IN <<Slash>> \o TrimSlashes(Terminated(encoded, Slash))

\* What build_as_string has between the method and the version.
Authority ==
    (IF m_urlparser.proto = <<>> THEN <<>> ELSE m_urlparser.proto \o Separator)
        \o m_urlparser.host_all

Target ==
    Authority
        \o (IF m_should_encode_path THEN encoded_path ELSE m_urlparser.path)
        \o (IF query_param_all = <<>> THEN <<>>
            ELSE <<Question>> \o query_param_all)

-----------------------------------------------------------------------------
\* The server: the path ends and the query begins at the first question mark.
QueryStart == FindFirstOf(Target, {Question})

PathAtServer ==
    SubSeq(Target, Len(Authority) + 1,
           IF QueryStart = 0 THEN Len(Target) ELSE QueryStart - 1)

QueryAtServer ==
    IF QueryStart = 0 THEN <<>> ELSE From(Target, QueryStart + 1)

Segments(path) == Split(TrimSlashes(path), Slash)

DecodedSegments(path) ==
    [i \in DOMAIN Segments(path) |-> PercentDecoded(Segments(path)[i])]

SpaceAsPlus(s) == [i \in DOMAIN s |-> IF s[i] = Space THEN Plus ELSE s[i]]

\* A decimal number from 1 to 65535, its digits read from the last one on.
Digit(text, i) == IF i <= Len(text) THEN text[Len(text) + 1 - i] - 48 ELSE 0

PortGiven(text) ==
    Digit(text, 1) + 10 * Digit(text, 2) + 100 * Digit(text, 3)
        + 1000 * Digit(text, 4) + 10000 * Digit(text, 5)

IsPort(text) ==
    /\ Len(text) \in 1..5
    /\ \A i \in DOMAIN text : text[i] \in Digits
    /\ PortGiven(text) \in 1..USHRT_MAX

\* Whatever urls a request got before, it connects to the host that the last
\* one names and, if this one names a port from 1 to 65535, to that port.  If
\* it names no port, and no protocol or port of an earlier url was carried on,
\* it is the port of the service that the protocol names, or of http.  (What is
\* carried on contradicts urlparser.h:21: "port number. 0 if not specified".)
\* Excepted are the texts after a colon that are no such port, and urls in
\* which "://" was taken for the end of a protocol elsewhere.
ConnectsAsGiven ==
    given.host # <<>> /\ ~misread =>
        /\ m_urlparser.host_part = given.host
        /\ given.port # <<>> =>
              (IsPort(given.port[1]) =>
                    getservicename = [port |-> PortGiven(given.port[1])])
        /\ given.port \in {<<>>, <<<<>>>>} /\ carried = {} =>
              getservicename = [name |-> IF given.proto = <<>> THEN http
                                         ELSE to_lower(given.proto[1])]

\* The path arrives as it was given, whatever is in its segments, but for the
\* slashes at its ends and for a space, which url_encode makes a plus of
\* (httputil.h:114-117) and a server leaves a plus in a path.  Without the
\* encoding the path arrives as it is.
PathArrives ==
    given.host # <<>> /\ ~misread =>
        IF m_should_encode_path
        THEN DecodedSegments(PathAtServer) =
                [i \in DOMAIN Segments(given.path) |->
                    SpaceAsPlus(Segments(given.path)[i])]
        ELSE PathAtServer =
                IF given.path = <<>> THEN <<Slash>> ELSE given.path

\* Every query parameter arrives with its value, whatever bytes it has,
\* whatever query the url had, and whatever url was set first or afterwards.
ParamsArrive ==
    LET arrived == parse_kv_string(QueryAtServer) IN
    given.host # <<>> /\ ~misread =>
        \A key \in DOMAIN params :
            /\ url_encode(key) \in DOMAIN arrived
            /\ url_decode(arrived[url_encode(key)]) = params[key]
=============================================================================
