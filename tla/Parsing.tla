------------------------------ MODULE Parsing -------------------------------
(***************************************************************************)
(* The two parsers in their read loops: HttpSession::run and readRequest   *)
(* (src/http/http_server.cpp) with the requests of one client, and         *)
(* ProxySession::readResponse (src/http/reverse_proxy.cpp) with the answer *)
(* of one upstream.  A behaviour is about one of the two (side).           *)
(*                                                                         *)
(* What the peer sends is a sequence of messages; the reference below says *)
(* from the messages alone, without bytes or buffers, what must come of    *)
(* them.                                                                   *)
(***************************************************************************)
EXTENDS HttpParser, HttpResponseParser, SequencesExt

CONSTANTS RequestStreams,    \* the sequences of requests a client may send
          ResponseStreams,   \* the sequences of responses an upstream may send
          HeadStreams,       \* ... and those it may send when the request was a HEAD
          SessionSettings,   \* [request_line, header_line, header_bytes, header_count, body,
                             \*  read_chunk]: configurations of the server
          ProxySettings      \* [status_line, header_bytes, header_count, body, read_chunk,
                             \*  max_buffer]: configurations of the proxy

\* What the constructors of HttpSession and ProxySession accept.
ServerLimits == [request_line : Nat, header_line : Nat, header_bytes : Nat, header_count : Nat,
                 body : Nat, read_chunk : Nat \ {0}, max_buffer : Nat]
ClientLimits == [status_line : Nat, header_bytes : Nat, header_count : Nat, body : Nat,
                 read_chunk : Nat \ {0}, max_buffer : Nat]
ASSUME SettingsAccepted ==
    /\ \A c \in SessionSettings : c \in ServerLimits
    /\ \A c \in ProxySettings : /\ c \in ClientLimits
                                /\ c.read_chunk <= c.max_buffer /\ c.max_buffer < SizeMod

VARIABLES
    side,        \* "request" or "response"
    messages,    \* what the peer sends
    handed,      \* the requests given to the router
    served,      \* served_request_
    deadline,    \* the deadline that watches the read: "none", "header", "body", "idle"
    outcome      \* the error answered to the client, or the proxy's result

loopVars == <<side, messages, handed, served, deadline, outcome>>
vars == <<readerVars, parser, responseParser, loopVars>>

-----------------------------------------------------------------------------
(* What the peers send *)

\* A message: its first line and its headers without the CR LF that ends a line,
\* its body, and the parts of a chunked body (a chunk's size is a line, too).
Messages == [line : Seq(STRING), headers : Seq(Seq(STRING)), body : Seq(STRING),
             chunks : Seq([size : Seq(STRING), data : Seq(STRING), end : Seq(STRING)]),
             trailers : Seq(Seq(STRING))]
Terminated(lines) == FlattenSeq([i \in DOMAIN lines |-> lines[i] \o CRLF])
Lines(m) == <<m.line>> \o m.headers \o <<<<>>>>
Encoded(m) == Terminated(Lines(m)) \o m.body
Sent(ms) == FlattenSeq([i \in DOMAIN ms |-> Encoded(ms[i])])
ChunkBytes(c) == c.size \o CRLF \o c.data \o c.end
ChunkedBody(chunks, trailers) ==
    FlattenSeq([k \in DOMAIN chunks |-> ChunkBytes(chunks[k])])
        \o <<"n0">> \o CRLF \o Terminated(trailers \o <<<<>>>>)

\* How many headers of m are among `names'.
Count(m, names) == Cardinality({i \in DOMAIN m.headers : Meaning(m.headers[i]) \in names})
Length(m) == LET i == CHOOSE i \in DOMAIN m.headers : Meaning(m.headers[i]) \in LengthNames
             IN  Meaning(m.headers[i])

\* Which bytes are a message: a line ends at its first CR LF, a head at its first
\* empty line, and a body where the head says.  Nothing else is asked of a peer:
\* lines may be too long or mean nothing, headers may contradict each other.
IsLine(line) == \A i \in 1 .. Len(line) - 1 : ~(line[i] = "CR" /\ line[i + 1] = "LF")
AreLines(lines) == \A i \in DOMAIN lines : IsLine(lines[i]) /\ lines[i] # <<>>
IsHead(m) == IsLine(m.line) /\ AreLines(m.headers)
AsLongAsItSays(m) ==
    Count(m, LengthNames) = 1 /\ Length(m) # "badlength" => Len(m.body) = Number[Length(m)]
IsChunk(c) ==
    /\ IsLine(c.size)
    /\ Meaning(c.size) \in DOMAIN Number =>
          Number[Meaning(c.size)] > 0 /\ Len(c.data) = Number[Meaning(c.size)] /\ Len(c.end) = 2
InChunks(m) ==
    /\ m.body = ChunkedBody(m.chunks, m.trailers)
    /\ \A k \in DOMAIN m.chunks : IsChunk(m.chunks[k])
    /\ AreLines(m.trailers)
IsRequest(m) ==
    /\ IsHead(m)
    /\ Count(m, {"te"}) = 0 =>
          (Count(m, LengthNames) = 0 => m.body = <<>>) /\ AsLongAsItSays(m)
IsHeadResponse(m) == IsHead(m) /\ (Meaning(m.line) = "s100" => m.body = <<>>)
IsResponse(m) ==
    /\ IsHeadResponse(m)
    /\ Meaning(m.line) = "s200" =>
          IF Count(m, Codings) = 0 THEN AsLongAsItSays(m)
          ELSE Count(m, {"gzip"}) = 0 /\ Count(m, Codings) = 1 /\ Count(m, LengthNames) = 0
                  => InChunks(m)
ASSUME StreamsOfMessages ==
    /\ \A ms \in RequestStreams :
          ms \in Seq(Messages) /\ \A i \in DOMAIN ms : IsRequest(ms[i])
    /\ \A ms \in ResponseStreams :
          ms \in Seq(Messages) /\ ms # <<>> /\ \A i \in DOMAIN ms : IsResponse(ms[i])
    /\ \A ms \in HeadStreams :
          ms \in Seq(Messages) /\ ms # <<>> /\ \A i \in DOMAIN ms : IsHeadResponse(ms[i])
ASSUME StreamsOfBytes ==
    \A ms \in RequestStreams \cup ResponseStreams \cup HeadStreams : Sent(ms) \in Seq(STRING)

\* sessionLimitsFromConfig sizes the buffer for one head and one body.
SessionLimitsFromConfig(c) ==
    [c EXCEPT !.max_buffer = Max({c.body + c.header_bytes, c.read_chunk})]

Init ==
    /\ \/ /\ side = "request"
          /\ messages \in RequestStreams
          /\ \E c \in SessionSettings : limits = SessionLimitsFromConfig(c)
          /\ responseParser = NewResponseParser(FALSE)
       \/ /\ side = "response"
          /\ \E head \in BOOLEAN :
                /\ messages \in IF head THEN HeadStreams ELSE ResponseStreams
                /\ responseParser = NewResponseParser(head)
          /\ limits \in ProxySettings
    /\ wire = Sent(messages) /\ sent = 0
    /\ input = EmptyBuffer(limits.read_chunk)
    /\ pc = "parse" /\ result = "Running"
    /\ parser = NewParser
    /\ handed = <<>> /\ served = FALSE /\ deadline = "none" /\ outcome = "none"

-----------------------------------------------------------------------------
(* HttpSession *)

\* Faulty variant: a connection that has served once is idle whatever is buffered.
armReadDeadline_Served ==
    deadline' = IF parser.state = "Body" THEN "body" ELSE IF served THEN "idle" ELSE "header"
armReadDeadline ==
    deadline' = IF parser.state = "Body" THEN "body"
                ELSE IF served /\ parser.state = "RequestLine" /\ readableBytes(input) = 0
                THEN "idle" ELSE "header"

ReadRequest ==
    /\ side = "request"
    /\ StartRead
    /\ IF pc' = "read" THEN armReadDeadline ELSE UNCHANGED deadline
    /\ UNCHANGED <<parser, responseParser, side, messages, handed, served, outcome>>
ReceiveRequest(count) ==
    /\ side = "request"
    /\ Receive(count)
    /\ deadline' = "none"
    /\ UNCHANGED <<parser, responseParser, side, messages, handed, served, outcome>>

\* The client closes, the deadline passes, or the server closes the session.
ReadEnds ==
    /\ side = "request" /\ pc = "read"
    /\ pc' = "closed" /\ deadline' = "none"
    /\ UNCHANGED <<limits, wire, sent, input, result, parser, responseParser, side, messages, handed,
                   served, outcome>>

\* Faulty variant: the buffer is emptied between two requests.
HandleRequest_Clears ==
    /\ side = "request" /\ pc = "parse" /\ result = "Complete"
    /\ handed' = Append(handed, [version |-> parser.version, headers |-> parser.headers, body |-> parser.body])
    /\ served' = TRUE
    /\ pc' = IF keepAlive(parser) THEN "parse" ELSE "closed"
    /\ result' = "Running" /\ parser' = NewParser /\ input' = EmptyBuffer(input.size)
    /\ UNCHANGED <<limits, wire, sent, responseParser, side, messages, deadline, outcome>>
\* takeRequest, the router, the response; then close or reset() for the next one.
HandleRequest ==
    /\ side = "request" /\ pc = "parse" /\ result = "Complete"
    /\ handed' = Append(handed, [version |-> parser.version, headers |-> parser.headers,
                                 body |-> parser.body])
    /\ served' = TRUE
    /\ IF keepAlive(parser) THEN pc' = "parse" /\ result' = "Running" /\ parser' = NewParser
       ELSE pc' = "closed" /\ UNCHANGED <<result, parser>>
    /\ UNCHANGED <<limits, wire, sent, input, responseParser, side, messages, deadline, outcome>>

\* writeParserError, and the connection is closed.
RefuseRequest ==
    /\ side = "request" /\ pc = "parse" /\ result \in ParseErrors
    /\ outcome' = result
    /\ pc' = "closed"
    /\ UNCHANGED <<limits, wire, sent, input, result, parser, responseParser, side, messages, handed,
                   served, deadline>>

-----------------------------------------------------------------------------
(* ProxySession *)

ReadResponse ==
    /\ side = "response"
    /\ StartRead
    /\ UNCHANGED <<parser, responseParser, loopVars>>
ReceiveResponse(count) ==
    /\ side = "response"
    /\ Receive(count)
    /\ UNCHANGED <<parser, responseParser, loopVars>>
\* The upstream closes, at the end of its bytes or before.
UpstreamCloses ==
    /\ side = "response" /\ pc = "read"
    /\ finishOnEof
    /\ pc' = "closed"
    /\ outcome' = result'
    /\ UNCHANGED <<limits, wire, sent, input, parser, side, messages, handed, served, deadline>>
\* parse() has decided: a response, with a connection that may be used again if
\* nothing is left in the buffer, or an error.
EndResponse ==
    /\ side = "response" /\ pc = "parse" /\ result \in {"Complete"} \cup ResponseErrors
    /\ outcome' = IF result = "Complete" /\ reusable(responseParser) /\ readableBytes(input) = 0
                  THEN "Reusable" ELSE result
    /\ pc' = "closed"
    /\ UNCHANGED <<limits, wire, sent, input, result, parser, responseParser, side, messages, handed,
                   served, deadline>>

-----------------------------------------------------------------------------
SessionNext ==
    \/ side = "request" /\ ParseStep /\ UNCHANGED <<responseParser, loopVars>>
    \/ ReadRequest \/ ReadEnds \/ HandleRequest \/ RefuseRequest
    \/ \E count \in 1 .. input.prepared : ReceiveRequest(count)
ProxyNext ==
    \/ side = "response" /\ ParseResponseStep /\ UNCHANGED <<parser, loopVars>>
    \/ ReadResponse \/ UpstreamCloses \/ EndResponse
    \/ \E count \in 1 .. input.prepared : ReceiveResponse(count)

Next == SessionNext \/ ProxyNext
Spec == Init /\ [][Next]_vars

-----------------------------------------------------------------------------
(* The reference: what must come of the messages *)

\* The bytes of the line and the first i headers; the empty line is header n + 1.
HeadUpTo(m, i) == Terminated(SubSeq(Lines(m), 1, i + 1))
HeadBytes(m) == Len(HeadUpTo(m, Len(m.headers) + 1))
Meanings(m) == [i \in DOMAIN m.headers |-> Meaning(m.headers[i])]

\* What the lines themselves are refused for: `first' bounds the first line,
\* `others' the headers; a valid first line is in `firsts', a header in `names'.
LineFault(m, i, first, others, firsts, names) ==
    IF \/ i = 0 /\ Len(m.line) > first
       \/ i > 0 /\ Len(HeadUpTo(m, i)) > limits.header_bytes
       \/ i \in DOMAIN m.headers /\ (Len(m.headers[i]) > others \/ i > limits.header_count)
    THEN "HeaderTooLarge"
    ELSE IF \/ i = 0 /\ Meaning(m.line) \notin firsts
            \/ i \in DOMAIN m.headers /\ Meaning(m.headers[i]) \notin names
    THEN "malformed" ELSE "none"
HeadFault(m, first, others, firsts, names) ==
    LET Fault(i) == LineFault(m, i, first, others, firsts, names)
        faulty == {i \in 0 .. Len(m.headers) + 1 : Fault(i) # "none"}
    IN  IF faulty = {} THEN "none" ELSE Fault(Min(faulty))

\* A request line counts among the bytes of its head at once, a status line only
\* when the next line has come.
RequestLineLimit == Min({limits.request_line, limits.header_bytes - 2})
RequestOf(m) == [version |-> Meaning(m.line), headers |-> Meanings(m), body |-> m.body]
RequestFault(m) ==
    LET fault == HeadFault(m, RequestLineLimit, limits.header_line, Versions, HeaderNames)
    IN  CASE fault = "HeaderTooLarge" -> fault
          [] fault = "malformed" -> "BadRequest"
          [] OTHER ->
             IF Meaning(m.line) = "v11" /\ Count(m, {"host"}) = 0 THEN "BadRequest"
             ELSE IF Count(m, {"te"}) > 0 THEN "UnsupportedTransferEncoding"
             ELSE IF Count(m, LengthNames) = 0 THEN "none"
             ELSE IF Count(m, LengthNames) > 1 \/ Length(m) = "badlength" THEN "BadRequest"
             ELSE IF Number[Length(m)] > limits.body THEN "BodyTooLarge" ELSE "none"

\* The session stops at the first request that is refused or asks it to close.
Served ==
    LET stops == {i \in DOMAIN messages : \/ RequestFault(messages[i]) # "none"
                                          \/ ~keepAlive(RequestOf(messages[i]))}
    IN  IF stops = {} THEN Len(messages)
        ELSE Min(stops) - (IF RequestFault(messages[Min(stops)]) = "none" THEN 0 ELSE 1)

ResponseFault(m) ==
    LET fault == HeadFault(m, limits.status_line, limits.header_bytes, Statuses, ResponseHeaderNames)
        coded == Count(m, Codings)
        plain == responseParser.head_request \/ Meaning(m.line) \in {"s100", "s204"}
    IN  CASE fault = "HeaderTooLarge" -> fault
          [] fault = "malformed" -> "BadResponse"
          [] OTHER ->
             IF coded > 0 /\ Count(m, LengthNames) > 0 THEN "BadResponse"
             ELSE IF coded > 1 \/ Count(m, {"gzip"}) > 0 \/ Meaning(m.line) = "s101"
             THEN "UnsupportedTransferEncoding"
             ELSE IF plain \/ Count(m, LengthNames) = 0 THEN "none"
             ELSE IF Count(m, LengthNames) > 1 \/ Length(m) = "badlength" THEN "BadResponse"
             ELSE IF Number[Length(m)] > limits.body THEN "BodyTooLarge" ELSE "none"

\* The response that counts: the first that is not informational, or is at fault.
Final == Min({i \in DOMAIN messages : \/ ResponseFault(messages[i]) # "none"
                                      \/ Meaning(messages[i].line) # "s100"} \cup {Len(messages)})
FinalStart == Len(Sent(SubSeq(messages, 1, Final - 1)))
Framing(m) == IF Meaning(m.line) = "s100" THEN "informational"
              ELSE IF responseParser.head_request \/ Meaning(m.line) = "s204" THEN "none"
              ELSE IF Count(m, {"chunked"}) > 0 THEN "chunked"
              ELSE IF Count(m, LengthNames) > 0 THEN "fixed" ELSE "eof"
BodyStart == FinalStart + HeadBytes(messages[Final])

\* A chunked body is refused for its first bad chunk, or for its trailers.
DataUpTo(m, k) == FlattenSeq([i \in 1 .. k |-> m.chunks[i].data])
ChunkFaultAt(m, k) ==
    IF Meaning(m.chunks[k].size) \notin DOMAIN Number \/ m.chunks[k].end # CRLF THEN "BadResponse"
    ELSE IF Len(DataUpTo(m, k)) > limits.body THEN "BodyTooLarge" ELSE "none"
\* The empty line behind the trailers is trailer n + 1.
TrailersUpTo(m, k) == Terminated(SubSeq(m.trailers \o <<<<>>>>, 1, k))
TrailerFaultAt(m, k) ==
    IF HeadBytes(m) + Len(TrailersUpTo(m, k)) > limits.header_bytes THEN "HeaderTooLarge"
    ELSE IF k \in DOMAIN m.trailers /\ Meaning(m.trailers[k]) \in InvalidNames THEN "BadResponse"
    ELSE "none"
ChunkFault(m) ==
    LET badChunks == {k \in DOMAIN m.chunks : ChunkFaultAt(m, k) # "none"}
        badTrailers == {k \in 1 .. Len(m.trailers) + 1 : TrailerFaultAt(m, k) # "none"}
    IN  IF badChunks # {} THEN ChunkFaultAt(m, Min(badChunks))
        ELSE IF badTrailers # {} THEN TrailerFaultAt(m, Min(badTrailers)) ELSE "none"

\* What the final response is refused for, and otherwise its body, as far as the
\* upstream has got.
FinalFault ==
    LET m == messages[Final]
    IN  IF ResponseFault(m) # "none" THEN ResponseFault(m)
        ELSE IF Framing(m) = "chunked" THEN ChunkFault(m)
        ELSE IF Framing(m) = "eof" /\ sent - BodyStart > limits.body THEN "BodyTooLarge"
        ELSE "none"
FinalBody ==
    LET m == messages[Final]
    IN  CASE Framing(m) = "chunked" -> DataUpTo(m, Len(m.chunks))
          [] Framing(m) = "fixed" -> m.body
          [] Framing(m) = "eof" -> SubSeq(wire, BodyStart + 1, sent)
          [] OTHER -> <<>>
\* Where the final response ends, if it says so itself.
FinalEnd == IF Framing(messages[Final]) = "none" THEN BodyStart
            ELSE FinalStart + Len(Encoded(messages[Final]))
EndsItself == Framing(messages[Final]) \in {"none", "fixed", "chunked"}

-----------------------------------------------------------------------------
(* Properties *)

\* The indices of the buffer stay inside its storage, the storage inside its limit.
TypeOK ==
    /\ pc \in {"parse", "read", "closed", "failed"}
    /\ result \in {"Running", "NeedMore", "Complete"} \cup ParseErrors \cup ResponseErrors
    /\ sent \in 0 .. Len(wire)
    /\ BufferSound(input, limits.max_buffer)

\* However the network cuts the bytes, and with several requests in one piece,
\* the router gets the requests the client sent, in order, none twice and none
\* made of another's bytes; a session that waits has served all that has arrived;
\* and a refused request is refused for its own fault.  One exception: a request
\* line of exactly the allowed length is refused when a read ends between its CR
\* and LF (parse counts the CR as part of the line).
RequestsAsSent ==
    side = "request" =>
        /\ Len(handed) <= Served
        /\ \A i \in DOMAIN handed : handed[i] = RequestOf(messages[i])
        /\ pc = "read" /\ sent = Len(wire) => Served = Len(messages) /\ Len(handed) = Served
        /\ outcome # "none" =>
              \/ Len(handed) = Served /\ outcome = RequestFault(messages[Served + 1])
              \/ /\ outcome = "HeaderTooLarge"
                 /\ Len(messages[Len(handed) + 1].line) = limits.request_line

\* A session between two requests is watched by the idle timeout, one inside a
\* head by the header timeout, and one inside a body by the body timeout.
DeadlineFitsPhase ==
    side = "request" /\ pc = "read" =>
        LET start == Len(Sent(SubSeq(messages, 1, Len(handed))))
            next == messages[Len(handed) + 1]
        IN  deadline = IF sent = start THEN (IF handed = <<>> THEN "header" ELSE "idle")
                       ELSE IF sent < start + HeadBytes(next) THEN "header" ELSE "body"

\* A response that is complete is the upstream's answer, and not one cut short or
\* mixed with what follows; the connection is used again only when nothing but that
\* answer has been read.
CompleteAsSent ==
    outcome \in {"Complete", "Reusable"} =>
        /\ FinalFault = "none" /\ responseParser.body = FinalBody
        /\ Framing(messages[Final]) # "informational"
        /\ EndsItself => sent >= FinalEnd
        /\ outcome = "Reusable" => EndsItself /\ sent = FinalEnd
\* ... and every other result is in error for the answer's own fault, or the answer
\* has not ended by its framing yet.  The exception for a line of exactly the allowed
\* length is as for requests.
AnswerAsSent ==
    /\ CompleteAsSent
    /\ outcome = "PrematureEof" /\ FinalFault = "none" /\ EndsItself => sent < FinalEnd
    /\ outcome \in ResponseErrors \ {"PrematureEof"} =>
          \/ outcome = FinalFault
          \/ /\ outcome = "HeaderTooLarge"
             /\ \E i \in 1 .. Final : Len(messages[i].line) = limits.status_line
    /\ pc = "read" => /\ EndsItself /\ FinalFault = "none" => sent < FinalEnd
                      /\ FinalFault # "none" => sent < Len(wire)

\* No chunk says of itself that it is so long that its size and 2 overflow a size_t.
Overflows(line) == Meaning(line) \in DOMAIN Number /\ Number[Meaning(line)] + 2 >= SizeMod
SizesFit == \A i \in DOMAIN messages : \A k \in DOMAIN messages[i].chunks :
                ~Overflows(messages[i].chunks[k].size)

\* The answer comes out of the proxy as it was sent, however the network cuts it,
\* unless the upstream announces a chunk of 2^64 - 2 or 2^64 - 1 bytes: there
\* chunk_bytes_ + 2 wraps in parse(), and a response can be complete whose body is
\* what lies buffered behind the size line, to be read again as the next chunk.
ResponseAsSent == side = "response" /\ SizesFit => AnswerAsSent

\* The room for a read is always there if the buffer holds a read beside whatever
\* the parser may be waiting for: a first line, the rest of a head whose first line
\* took 3 bytes or more, a body.  sessionLimitsFromConfig gives that much only when
\* max_body_bytes and max_header_bytes are not smaller than a read.  A response has
\* two exceptions: a chunk-size line has no limit, and a chunk is buffered whole
\* before it is measured against the body limit.
RoomFor(bytes) == limits.max_buffer - limits.read_chunk >= bytes
AmpleForRequest == /\ RoomFor(limits.request_line) /\ RoomFor(limits.header_bytes - 3)
                   /\ RoomFor(limits.body - 1)
AmpleForResponse == /\ RoomFor(limits.status_line) /\ RoomFor(limits.header_bytes - 3)
                    /\ RoomFor(limits.body + 1)
RoomToRead ==
    pc = "failed" =>
        IF side = "request" THEN ~AmpleForRequest
        ELSE \/ ~AmpleForResponse
             \/ responseParser.state = "ChunkSize"
             \/ responseParser.state = "ChunkBody" /\ responseParser.chunk_bytes > limits.body
=============================================================================
