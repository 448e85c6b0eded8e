------------------------- MODULE HttpResponseParser -------------------------
(***************************************************************************)
(* The incremental parser of upstream responses                            *)
(* (src/http/http_response_parser.cpp).  Each action is one turn of the    *)
(* loop in HttpResponseParser::parse, or finishOnEof.                      *)
(***************************************************************************)
EXTENDS Reader

VARIABLE responseParser

\* A parser after reset(head_request); header_count_ is Len(headers).
NewResponseParser(head) ==
    [state |-> "StatusLine", head_request |-> head, status |-> "none", headers |-> <<>>,
     body |-> <<>>, expected_body_bytes |-> 0, chunk_bytes |-> 0, header_bytes |-> 0,
     eof_delimited |-> FALSE]

Statuses == {"s100", "s101", "s200", "s204"}
ResponseHeaderNames == {"chunked", "gzip", "other"} \cup LengthNames
\* Of a trailer only the name is looked at, and a colon is not asked for.
InvalidNames == {"badname", "CR", "LF"}
ResponseErrors == {"BadResponse", "HeaderTooLarge", "BodyTooLarge", "UnsupportedTransferEncoding",
                   "PrematureEof"}

Codings == {"chunked", "gzip"}
Transfers(q) == Values(q.headers, Codings)
Lengths(q) == Values(q.headers, LengthNames)
BodyLength(q) == FirstValue(q.headers, LengthNames)

ResponseFails(error) == /\ responseParser' = [responseParser EXCEPT !.state = "Error"]
                        /\ result' = error
Becomes(q, r) == responseParser' = q /\ result' = r
ResponseFrame == UNCHANGED <<limits, wire, sent, pc>>

\* appendBody refuses what would make the body too large.
BodyFits(count) == count <= limits.body - Len(responseParser.body)
AppendBody(count) == [responseParser EXCEPT !.body = @ \o SubSeq(input.bytes, 1, count)]

ParseFixedBody ==
    /\ Running /\ responseParser.state = "FixedBody"
    /\ LET count == Min({responseParser.expected_body_bytes - Len(responseParser.body),
                         readableBytes(input)})
           filled == AppendBody(count)
       IN  IF ~BodyFits(count) THEN ResponseFails("BodyTooLarge") /\ UNCHANGED input
           ELSE /\ input' = consume(input, count)
                /\ IF Len(filled.body) = filled.expected_body_bytes
                   THEN Becomes([filled EXCEPT !.state = "Complete"], "Complete")
                   ELSE Becomes(filled, "NeedMore")
    /\ ResponseFrame

\* A chunk and its CR LF, in size_t: with a size at the very end of the range this
\* is 0 or 1, the chunk counts as buffered at once, and bytes[chunk_bytes_] is a byte
\* in front of the view.
WithCrlf(count) == SizeSum(count, 2)
\* substr(0, chunk_bytes_) gives what there is.
ChunkTaken(count) == Min({count, readableBytes(input)})

\* Faulty variant: the CR LF behind the chunk is taken for granted.
EndMarks_Unchecked(count) == {TRUE}
\* Whether CR and LF are found behind a chunk of that size.  Behind a size of
\* SizeMod - 2 they are the two bytes in front of the view, which are the CR LF of the
\* size line if that was not the last of the buffer; for SizeMod - 1 the CR would be
\* its LF.  When the buffer starts again at the front of the storage, the bytes in
\* front of the view are not the buffer's and can be anything.
EndMarks(count) ==
    IF WithCrlf(count) = count + 2 THEN {SubSeq(input.bytes, count + 1, count + 2) = CRLF}
    ELSE IF input.read_index # 0 THEN {count = SizeMod - 2}
    ELSE IF count = SizeMod - 2 \/ Head(input.bytes) = "LF" THEN BOOLEAN
    ELSE {FALSE}

\* A chunk is taken once it and its CR LF are buffered, and only then measured
\* against the body limit.
ParseChunkBody ==
    /\ Running /\ responseParser.state = "ChunkBody"
    /\ LET count == responseParser.chunk_bytes
           taken == ChunkTaken(count)
       IN  IF readableBytes(input) < WithCrlf(count)
           THEN Becomes(responseParser, "NeedMore") /\ UNCHANGED input
           ELSE \E ended \in EndMarks(count) :
                IF ~ended THEN ResponseFails("BadResponse") /\ UNCHANGED input
                ELSE IF ~BodyFits(taken) THEN ResponseFails("BodyTooLarge") /\ UNCHANGED input
                ELSE /\ input' = consume(input, WithCrlf(count))
                     /\ Becomes([AppendBody(taken) EXCEPT !.state = "ChunkSize"], "Running")
    /\ ResponseFrame

\* Without a length the body is everything until the upstream closes.
ParseEofBody ==
    /\ Running /\ responseParser.state = "EofBody"
    /\ IF ~BodyFits(readableBytes(input)) THEN ResponseFails("BodyTooLarge") /\ UNCHANGED input
       ELSE /\ Becomes(AppendBody(readableBytes(input)), "NeedMore")
            /\ input' = consume(input, readableBytes(input))
    /\ ResponseFrame

InLines == responseParser.state \in {"StatusLine", "Headers", "ChunkSize", "Trailers"}
\* No CR LF yet.  A chunk-size line has no limit of its own.
ParseNoStatusLine ==
    /\ Running /\ InLines /\ ~HasLine
    /\ IF \/ responseParser.state = "StatusLine" /\ readableBytes(input) > limits.status_line
          \/ /\ responseParser.state \in {"Headers", "Trailers"}
             /\ responseParser.header_bytes + readableBytes(input) > limits.header_bytes
       THEN ResponseFails("HeaderTooLarge")
       ELSE Becomes(responseParser, "NeedMore")
    /\ UNCHANGED input /\ ResponseFrame

\* The line is consumed before it is looked at.
TakeResponseLine == /\ Running /\ InLines /\ HasLine
                    /\ input' = consume(input, line_bytes + 2)
                    /\ ResponseFrame

ParseStatusLine ==
    /\ responseParser.state = "StatusLine" /\ TakeResponseLine
    /\ IF line_bytes > limits.status_line THEN ResponseFails("HeaderTooLarge")
       ELSE IF Meaning(Line) \notin Statuses THEN ResponseFails("BadResponse")
       ELSE Becomes([responseParser EXCEPT !.state = "Headers", !.status = Meaning(Line),
                                           !.header_bytes = line_bytes + 2], "Running")

ParseChunkSize ==
    /\ responseParser.state = "ChunkSize" /\ TakeResponseLine
    /\ IF Meaning(Line) \notin DOMAIN Number THEN ResponseFails("BadResponse")
       ELSE LET size == Number[Meaning(Line)]
            IN  Becomes([responseParser EXCEPT !.chunk_bytes = size,
                             !.state = IF size = 0 THEN "Trailers" ELSE "ChunkBody"], "Running")

header_bytes_with_line == responseParser.header_bytes + line_bytes + 2
ParseTrailer ==
    /\ responseParser.state = "Trailers" /\ TakeResponseLine
    /\ LET counted == [responseParser EXCEPT !.header_bytes = header_bytes_with_line]
       IN  IF header_bytes_with_line > limits.header_bytes THEN ResponseFails("HeaderTooLarge")
           ELSE IF Line = <<>> THEN Becomes([counted EXCEPT !.state = "Complete"], "Complete")
           ELSE IF Meaning(Line) \in InvalidNames THEN ResponseFails("BadResponse")
           ELSE Becomes(counted, "Running")

ParseResponseHeader ==
    /\ responseParser.state = "Headers" /\ HasLine /\ Line # <<>> /\ TakeResponseLine
    /\ IF \/ header_bytes_with_line > limits.header_bytes
          \/ Len(responseParser.headers) + 1 > limits.header_count
       THEN ResponseFails("HeaderTooLarge")
       ELSE IF Meaning(Line) \notin ResponseHeaderNames THEN ResponseFails("BadResponse")
       ELSE Becomes([responseParser EXCEPT !.headers = Append(@, Meaning(Line)),
                                           !.header_bytes = header_bytes_with_line], "Running")

\* finishHeaders: an informational response is thrown away and the parser starts
\* again; otherwise the framing of the body is chosen.
FramingError(q) ==
    IF Transfers(q) # {} /\ Lengths(q) # {} THEN "BadResponse"
    ELSE IF \/ Cardinality(Transfers(q)) > 1
            \/ Transfers(q) # {} /\ FirstValue(q.headers, Codings) # "chunked"
            \/ q.status = "s101" THEN "UnsupportedTransferEncoding"
    ELSE IF q.status = "s100" \/ q.head_request \/ q.status = "s204" \/ Transfers(q) # {} \/ Lengths(q) = {}
    THEN "none"
    ELSE IF Cardinality(Lengths(q)) # 1 \/ BodyLength(q) = "badlength" THEN "BadResponse"
    ELSE IF Number[BodyLength(q)] > limits.body THEN "BodyTooLarge"
    ELSE "none"
Framed(q) ==
    IF q.status = "s100" THEN NewResponseParser(q.head_request)
    ELSE IF q.head_request \/ q.status = "s204" THEN [q EXCEPT !.state = "Complete"]
    ELSE IF Transfers(q) # {} THEN [q EXCEPT !.state = "ChunkSize"]
    ELSE IF Lengths(q) = {} THEN [q EXCEPT !.state = "EofBody", !.eof_delimited = TRUE]
    ELSE [q EXCEPT !.expected_body_bytes = Number[BodyLength(q)],
                   !.state = IF Number[BodyLength(q)] = 0 THEN "Complete" ELSE "FixedBody"]
FinishResponseHeaders ==
    /\ responseParser.state = "Headers" /\ HasLine /\ Line = <<>> /\ TakeResponseLine
    /\ LET counted == [responseParser EXCEPT !.header_bytes = header_bytes_with_line]
       IN  IF header_bytes_with_line > limits.header_bytes THEN ResponseFails("HeaderTooLarge")
           ELSE IF FramingError(counted) # "none" THEN ResponseFails(FramingError(counted))
           ELSE Becomes(Framed(counted),
                        IF Framed(counted).state = "Complete" THEN "Complete" ELSE "Running")

\* The upstream closes: only a body without a length ends that way.
finishOnEof ==
    IF responseParser.state = "EofBody"
    THEN Becomes([responseParser EXCEPT !.state = "Complete"], "Complete")
    ELSE ResponseFails("PrematureEof")

ParseResponseStep ==
    \/ ParseFixedBody \/ ParseChunkBody \/ ParseEofBody \/ ParseNoStatusLine
    \/ ParseStatusLine \/ ParseChunkSize \/ ParseTrailer
    \/ ParseResponseHeader \/ FinishResponseHeaders

\* close_connection is set with eof_delimited_ only: an upstream's Connection header
\* is not looked at.
reusable(q) == q.state = "Complete" /\ ~q.eof_delimited
=============================================================================
