----------------------------- MODULE HttpParser -----------------------------
(***************************************************************************)
(* The incremental parser of requests (src/http/http_parser.cpp).  Each    *)
(* action is one turn of the loop in HttpParser::parse.                    *)
(***************************************************************************)
EXTENDS Reader

VARIABLE parser

\* A parser after its constructor or reset(); header_count_ is Len(headers).
NewParser == [state |-> "RequestLine", version |-> "none", headers |-> <<>>, body |-> <<>>,
              expected_body_bytes |-> 0, header_bytes |-> 0]

Versions == {"v11", "v10"}
HeaderNames == {"host", "close", "keep-alive", "te", "other"} \cup LengthNames
ParseErrors == {"BadRequest", "HeaderTooLarge", "BodyTooLarge", "UnsupportedTransferEncoding"}

Names(p) == {p.headers[i] : i \in DOMAIN p.headers}
ContentLengths(p) == Values(p.headers, LengthNames)
ContentLength(p) == FirstValue(p.headers, LengthNames)

fail(error) == /\ parser' = [parser EXCEPT !.state = "Error"]
               /\ result' = error
\* The loop goes on with the parser p, or returns.
Goes(p, r) == parser' = p /\ result' = r
ParserFrame == UNCHANGED <<limits, wire, sent, pc>>

ParseBody ==
    /\ Running /\ parser.state = "Body"
    /\ IF readableBytes(input) < parser.expected_body_bytes
       THEN Goes(parser, "NeedMore") /\ UNCHANGED input
       ELSE /\ Goes([parser EXCEPT !.state = "Complete",
                                   !.body = SubSeq(input.bytes, 1, parser.expected_body_bytes)],
                    "Complete")
            /\ input' = consume(input, parser.expected_body_bytes)
    /\ ParserFrame

\* Faulty variant: the limits are left to the complete line.
ParseNoLine_Unlimited ==
    /\ Running /\ parser.state \in {"RequestLine", "Headers"} /\ ~HasLine
    /\ Goes(parser, "NeedMore")
    /\ UNCHANGED input /\ ParserFrame
\* No CR LF is buffered: too much without one, or wait.  (A CR may be the last byte.)
ParseNoLine ==
    /\ Running /\ parser.state \in {"RequestLine", "Headers"} /\ ~HasLine
    /\ IF \/ parser.state = "RequestLine" /\ readableBytes(input) > limits.request_line
          \/ /\ parser.state = "Headers"
             /\ parser.header_bytes + readableBytes(input) > limits.header_bytes
       THEN fail("HeaderTooLarge")
       ELSE Goes(parser, "NeedMore")
    /\ UNCHANGED input /\ ParserFrame

LineTooLarge ==
    \/ line_bytes + 2 > limits.header_bytes
    \/ parser.state = "RequestLine" /\ line_bytes > limits.request_line
    \/ /\ parser.state = "Headers"
       /\ \/ line_bytes > limits.header_line
          \/ parser.header_bytes > limits.header_bytes - (line_bytes + 2)
\* The line stays in the buffer.
ParseLongLine ==
    /\ Running /\ parser.state \in {"RequestLine", "Headers"} /\ HasLine /\ LineTooLarge
    /\ fail("HeaderTooLarge")
    /\ UNCHANGED input /\ ParserFrame

TakeLine == /\ Running /\ HasLine /\ ~LineTooLarge
            /\ input' = consume(input, line_bytes + 2)
            /\ ParserFrame

ParseRequestLine ==
    /\ parser.state = "RequestLine" /\ TakeLine
    /\ IF Meaning(Line) \in Versions
       THEN Goes([parser EXCEPT !.state = "Headers", !.version = Meaning(Line),
                                !.header_bytes = line_bytes + 2], "Running")
       ELSE fail("BadRequest")

ParseHeader ==
    /\ parser.state = "Headers" /\ Line # <<>> /\ TakeLine
    /\ IF Len(parser.headers) + 1 > limits.header_count THEN fail("HeaderTooLarge")
       ELSE IF Meaning(Line) \notin HeaderNames THEN fail("BadRequest")
       ELSE Goes([parser EXCEPT !.headers = Append(@, Meaning(Line)),
                                !.header_bytes = @ + line_bytes + 2], "Running")

\* What finishHeaders makes of the headers.
HeadersResult(p) ==
    IF p.version = "v11" /\ "host" \notin Names(p) THEN "BadRequest"
    ELSE IF "te" \in Names(p) THEN "UnsupportedTransferEncoding"
    ELSE IF ContentLengths(p) = {} THEN "Complete"
    ELSE IF Cardinality(ContentLengths(p)) # 1 \/ ContentLength(p) = "badlength" THEN "BadRequest"
    ELSE IF Number[ContentLength(p)] > limits.body THEN "BodyTooLarge"
    ELSE "Complete"

FinishHeaders ==
    /\ parser.state = "Headers" /\ HasLine /\ Line = <<>> /\ TakeLine
    /\ IF HeadersResult(parser) # "Complete" THEN fail(HeadersResult(parser))
       ELSE LET expected == IF ContentLengths(parser) = {} THEN 0 ELSE Number[ContentLength(parser)]
            IN  Goes([parser EXCEPT !.state = IF expected = 0 THEN "Complete" ELSE "Body",
                                    !.expected_body_bytes = expected,
                                    !.header_bytes = @ + 2],
                     IF expected = 0 THEN "Complete" ELSE "Running")

ParseStep == \/ ParseBody \/ ParseNoLine \/ ParseLongLine
             \/ ParseRequestLine \/ ParseHeader \/ FinishHeaders

\* HttpRequest::keepAlive.
keepAlive(p) ==
    /\ "close" \notin Names(p)
    /\ p.version = "v10" => "keep-alive" \in Names(p)
=============================================================================
