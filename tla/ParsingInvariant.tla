--------------------------- MODULE ParsingInvariant --------------------------
(***************************************************************************)
(* The inductive invariants of Parsing: IInv, about the buffer and what    *)
(* the parsers wait for; SessionInv and ProxyInv, about where each parser  *)
(* stands among the messages of its peer.                                  *)
(***************************************************************************)
EXTENDS Parsing

-----------------------------------------------------------------------------
(* The buffer and the parsers *)

Buffers == [size : Nat, read_index : Nat, bytes : Seq(STRING), prepared : Nat]

Parsers == [state : {"RequestLine", "Headers", "Body", "Complete", "Error"},
            version : Versions \cup {"none"}, headers : Seq(HeaderNames), body : Seq(STRING),
            expected_body_bytes : Nat, header_bytes : Nat]
ResponseParsers == [state : {"StatusLine", "Headers", "FixedBody", "ChunkSize", "ChunkBody", "EofBody",
                             "Trailers", "Complete", "Error"},
                    head_request : BOOLEAN, status : Statuses \cup {"none"},
                    headers : Seq(ResponseHeaderNames), body : Seq(STRING), expected_body_bytes : Nat,
                    chunk_bytes : Nat, header_bytes : Nat, eof_delimited : BOOLEAN]

LoopTyped ==
    /\ side \in {"request", "response"}
    /\ limits \in IF side = "request" THEN ServerLimits ELSE ClientLimits
    /\ limits.read_chunk <= limits.max_buffer
    /\ wire \in Seq(STRING) /\ sent \in 0 .. Len(wire)
    /\ pc \in {"parse", "read", "closed", "failed"}
    /\ result \in {"Running", "NeedMore", "Complete"} \cup ParseErrors \cup ResponseErrors

\* A region is prepared only while a read is under way or has been abandoned.
BufferInv ==
    /\ input \in Buffers /\ BufferSound(input, limits.max_buffer)
    /\ pc \in {"parse", "failed"} => input.prepared = 0

\* A request line has at least a byte before its CR LF.
RequestInv ==
    side = "request" =>
        /\ parser \in Parsers
        /\ parser.state = "Headers" => parser.header_bytes >= 3
        /\ parser.state = "Body" => parser.expected_body_bytes <= limits.body
ResponseInv ==
    side = "response" =>
        /\ responseParser \in ResponseParsers
        /\ responseParser.state \in {"Headers", "ChunkSize", "ChunkBody", "Trailers"}
              => responseParser.header_bytes >= 3
        /\ responseParser.state \in {"StatusLine", "Headers"} => responseParser.body = <<>>
        /\ responseParser.state = "FixedBody"
              => Len(responseParser.body) <= responseParser.expected_body_bytes

\* What is buffered when a parser asks for more.
RequestWaits ==
    side = "request" /\ result = "NeedMore" =>
        \/ parser.state = "RequestLine" /\ Len(input.bytes) <= limits.request_line
        \/ /\ parser.state = "Headers"
           /\ parser.header_bytes + Len(input.bytes) <= limits.header_bytes
        \/ parser.state = "Body" /\ Len(input.bytes) < parser.expected_body_bytes
ResponseWaits ==
    side = "response" /\ result = "NeedMore" =>
        \/ responseParser.state = "StatusLine" /\ Len(input.bytes) <= limits.status_line
        \/ /\ responseParser.state \in {"Headers", "Trailers"}
           /\ responseParser.header_bytes + Len(input.bytes) <= limits.header_bytes
        \/ responseParser.state = "ChunkSize"
        \/ responseParser.state = "ChunkBody" /\ Len(input.bytes) < responseParser.chunk_bytes + 2
        \/ responseParser.state \in {"FixedBody", "EofBody"} /\ Len(input.bytes) = 0

\* A coroutine that failed was waiting, and there was no room.
FailedInv ==
    pc = "failed" => result = "NeedMore" /\ PrepareThrows(input, limits.read_chunk, limits.max_buffer)

IInv == /\ LoopTyped /\ BufferInv /\ RequestInv /\ ResponseInv
        /\ RequestWaits /\ ResponseWaits /\ FailedInv

-----------------------------------------------------------------------------
(* Where a message lies among the bytes *)

Bytes == STRING \cup {"CR", "LF", "n0"}

\* The bytes s lie in w behind the first p.
At(w, p, s) == p + Len(s) <= Len(w) /\ \A i \in 1 .. Len(s) : w[p + i] = s[i]

\* The bytes of the first j lines of a head.
Ends(m, j) == Len(Terminated(SubSeq(Lines(m), 1, j)))

\* How many bytes the parser has taken.
Taken == sent - Len(input.bytes)
Buffered == Taken \in Nat /\ At(wire, Taken, input.bytes)

\* The stream and the messages in it, of either side.
Streaming == messages \in Seq(Messages) /\ wire = Sent(messages) /\ Buffered

-----------------------------------------------------------------------------
(* Where the request parser is among the messages *)

\* The request that is being read, and where it begins.
Coming == messages[Len(handed) + 1]
StartOf(k) == Len(Sent(SubSeq(messages, 1, k)))
Start == StartOf(Len(handed))
MoreComing == Len(handed) < Len(messages)
\* What line i of m is refused for.
Fault(m, i) == LineFault(m, i, RequestLineLimit, limits.header_line, Versions, HeaderNames)

AtStart == /\ result \in {"Running", "NeedMore"} /\ parser = NewParser /\ Taken = Start
           /\ result = "NeedMore" /\ MoreComing => sent < Start + Ends(Coming, 1)
InHead == /\ result \in {"Running", "NeedMore"} /\ parser.state = "Headers" /\ MoreComing
          /\ Len(parser.headers) <= Len(Coming.headers)
          /\ parser.version = Meaning(Coming.line) /\ parser.body = <<>>
          /\ \A i \in 1 .. Len(parser.headers) : parser.headers[i] = Meaning(Coming.headers[i])
          /\ parser.header_bytes = Ends(Coming, Len(parser.headers) + 1)
          /\ \A i \in 0 .. Len(parser.headers) : Fault(Coming, i) = "none"
          /\ Taken = Start + Ends(Coming, Len(parser.headers) + 1)
          /\ result = "NeedMore" => sent < Start + Ends(Coming, Len(parser.headers) + 2)
HeadTaken == /\ MoreComing /\ RequestFault(Coming) = "none"
             /\ parser.version = Meaning(Coming.line) /\ parser.headers = Meanings(Coming)
InBody == /\ result \in {"Running", "NeedMore"} /\ parser.state = "Body" /\ HeadTaken
          /\ parser.expected_body_bytes = Len(Coming.body)
          /\ Taken = Start + HeadBytes(Coming)
          /\ result = "NeedMore" => sent < Start + Len(Encoded(Coming))
AtEnd == /\ result = "Complete" /\ HeadTaken /\ parser.body = Coming.body
         /\ Taken = Start + Len(Encoded(Coming))
\* The error is the request's own, or the exception for a line of the allowed length.
OwnFault(error) ==
    /\ MoreComing
    /\ \/ error = RequestFault(Coming) /\ error # "none"
       \/ error = "HeaderTooLarge" /\ Len(Coming.line) = limits.request_line
AtFault == result \in ParseErrors /\ OwnFault(result)

Place == pc # "closed" => AtStart \/ InHead \/ InBody \/ AtEnd \/ AtFault
StreamInv ==
    /\ messages \in Seq(Messages) /\ \A i \in DOMAIN messages : IsRequest(messages[i])
    /\ wire = Sent(messages)
HandedInv ==
    /\ handed \in Seq({RequestOf(m) : m \in Messages})
    /\ Len(handed) <= Len(messages) /\ (served <=> Len(handed) # 0)
    /\ \A i \in 1 .. Len(handed) :
          /\ handed[i] = RequestOf(messages[i]) /\ RequestFault(messages[i]) = "none"
          /\ i < Len(handed) \/ pc # "closed" \/ outcome # "none" => keepAlive(RequestOf(messages[i]))
DeadlineInv ==
    pc = "read" =>
        /\ result = "NeedMore"
        /\ deadline = IF parser.state = "Body" THEN "body"
                      ELSE IF served /\ parser.state = "RequestLine" /\ Len(input.bytes) = 0
                      THEN "idle" ELSE "header"
OutcomeInv == outcome # "none" => pc = "closed" /\ OwnFault(outcome)

SessionInv ==
    side = "request" => StreamInv /\ Buffered /\ HandedInv /\ Place /\ DeadlineInv /\ OutcomeInv

-----------------------------------------------------------------------------
(* Where the response parser is among the messages *)

\* What line i of m is refused for.
StatusFault(m, i) ==
    LineFault(m, i, limits.status_line, limits.header_bytes, Statuses, ResponseHeaderNames)

\* The bytes of the first j chunks, and of the first t lines behind the last one.
ChunksOf(m) == [k \in DOMAIN m.chunks |-> ChunkBytes(m.chunks[k])]
ChunkEnds(m, j) == Len(FlattenSeq(SubSeq(ChunksOf(m), 1, j)))
TrailerEnds(m, t) == Len(TrailersUpTo(m, t))
SizeLine(m, j) == IF j < Len(m.chunks) THEN m.chunks[j + 1].size ELSE <<"n0">>

\* After k informational responses: the next one, and where its body begins.
Skipped(k) ==
    \A i \in 1 .. k : Meaning(messages[i].line) = "s100" /\ ResponseFault(messages[i]) = "none"
Answer(k) == messages[k + 1]
BodyAt(k) == StartOf(k) + HeadBytes(Answer(k))
Undecided == result \in {"Running", "NeedMore"}
\* The parser has asked for more only if what it needs reaches behind what has come.
Until(end) == Undecided /\ (result = "NeedMore" => sent < end)

BeforeStatus(k) ==
    /\ Undecided /\ responseParser = NewResponseParser(responseParser.head_request)
    /\ Taken = StartOf(k)
    /\ k < Len(messages) => Until(StartOf(k) + Ends(Answer(k), 1))
LinesTaken(q, m) ==
    /\ Len(q.headers) <= Len(m.headers) /\ q.status = Meaning(m.line) /\ q.body = <<>>
    /\ \A i \in 1 .. Len(q.headers) : q.headers[i] = Meaning(m.headers[i])
    /\ q.header_bytes = Ends(m, Len(q.headers) + 1)
    /\ \A i \in 0 .. Len(q.headers) : StatusFault(m, i) = "none"
InResponseHead(k) ==
    /\ responseParser.state = "Headers" /\ k < Len(messages) /\ ~responseParser.eof_delimited
    /\ LinesTaken(responseParser, Answer(k))
    /\ Taken = StartOf(k) + Ends(Answer(k), Len(responseParser.headers) + 1)
    /\ Until(StartOf(k) + Ends(Answer(k), Len(responseParser.headers) + 2))
\* The head has been accepted, with this framing for the body.
HasFraming(k, framing) ==
    /\ k < Len(messages) /\ Meaning(Answer(k).line) # "s100" /\ ResponseFault(Answer(k)) = "none"
    /\ Framing(Answer(k)) = framing /\ responseParser.eof_delimited = (framing = "eof")
InFixedBody(k) ==
    /\ Undecided /\ responseParser.state = "FixedBody" /\ HasFraming(k, "fixed")
    /\ responseParser.expected_body_bytes = Len(Answer(k).body)
    /\ Len(responseParser.body) < Len(Answer(k).body) /\ Len(Answer(k).body) <= limits.body
    /\ responseParser.body = SubSeq(Answer(k).body, 1, Len(responseParser.body))
    /\ Taken = BodyAt(k) + Len(responseParser.body)
InEofBody(k) ==
    /\ Undecided /\ responseParser.state = "EofBody" /\ HasFraming(k, "eof")
    /\ Taken = BodyAt(k) + Len(responseParser.body) /\ Len(responseParser.body) <= limits.body
    /\ responseParser.body = SubSeq(wire, BodyAt(k) + 1, Taken)
ChunksTaken(k, j) ==
    /\ HasFraming(k, "chunked")
    /\ j <= Len(Answer(k).chunks) /\ \A i \in 1 .. j : ChunkFaultAt(Answer(k), i) = "none"
    /\ responseParser.body = DataUpTo(Answer(k), j)
BeforeSize(k, j) ==
    /\ responseParser.state = "ChunkSize" /\ ChunksTaken(k, j)
    /\ responseParser.header_bytes = HeadBytes(Answer(k))
    /\ Taken = BodyAt(k) + ChunkEnds(Answer(k), j)
    /\ Until(Taken + Len(SizeLine(Answer(k), j)) + 2)
InChunk(k, j) ==
    /\ responseParser.state = "ChunkBody" /\ ChunksTaken(k, j) /\ j < Len(Answer(k).chunks)
    /\ responseParser.header_bytes = HeadBytes(Answer(k))
    /\ Meaning(SizeLine(Answer(k), j)) \in DOMAIN Number
    /\ responseParser.chunk_bytes = Number[Meaning(SizeLine(Answer(k), j))]
    /\ Taken = BodyAt(k) + ChunkEnds(Answer(k), j) + Len(SizeLine(Answer(k), j)) + 2
    /\ Until(BodyAt(k) + ChunkEnds(Answer(k), j + 1))
InTrailers(k, t) ==
    /\ responseParser.state = "Trailers" /\ ChunksTaken(k, Len(Answer(k).chunks))
    /\ t <= Len(Answer(k).trailers) /\ \A i \in 1 .. t : TrailerFaultAt(Answer(k), i) = "none"
    /\ responseParser.header_bytes = HeadBytes(Answer(k)) + TrailerEnds(Answer(k), t)
    /\ Taken = BodyAt(k) + ChunkEnds(Answer(k), Len(Answer(k).chunks)) + 3 + TrailerEnds(Answer(k), t)
    /\ Until(BodyAt(k) + ChunkEnds(Answer(k), Len(Answer(k).chunks)) + 3 + TrailerEnds(Answer(k), t + 1))
InAnswer(k) ==
    \/ BeforeStatus(k) \/ InResponseHead(k) \/ InFixedBody(k) \/ InEofBody(k)
    \/ \E j \in 0 .. Len(Answer(k).chunks) : BeforeSize(k, j) \/ InChunk(k, j)
    \/ \E t \in 0 .. Len(Answer(k).trailers) : InTrailers(k, t)
AtAnswerEnd ==
    /\ result = "Complete" /\ responseParser.state = "Complete" /\ ~responseParser.eof_delimited
    /\ FinalFault = "none" /\ EndsItself /\ responseParser.body = FinalBody /\ Taken = FinalEnd
FinalOwnFault(error) ==
    \/ error = FinalFault
    \/ error = "HeaderTooLarge" /\ \E i \in 1 .. Final : Len(messages[i].line) = limits.status_line
AtAnswerFault == result \in ResponseErrors \ {"PrematureEof"} /\ FinalOwnFault(result)

AnswerPlace ==
    pc # "closed" => \/ AtAnswerEnd \/ AtAnswerFault
                     \/ \E k \in 0 .. Len(messages) : Skipped(k) /\ InAnswer(k)
AnswersInv ==
    /\ messages \in Seq(Messages) /\ messages # <<>> /\ wire = Sent(messages)
    /\ \A i \in DOMAIN messages : /\ IsHeadResponse(messages[i])
                                  /\ responseParser.head_request \/ IsResponse(messages[i])
AnswerOutcome ==
    /\ outcome # "none" => pc = "closed"
    /\ outcome \in {"Complete", "Reusable"} =>
          /\ FinalFault = "none" /\ responseParser.body = FinalBody
          /\ Framing(messages[Final]) # "informational"
          /\ EndsItself => sent >= FinalEnd
          /\ outcome = "Reusable" => EndsItself /\ sent = FinalEnd
    /\ outcome = "PrematureEof" /\ FinalFault = "none" /\ EndsItself => sent < FinalEnd
    /\ outcome \in ResponseErrors \ {"PrematureEof"} => FinalOwnFault(outcome)
ProxyInv ==
    side = "response" =>
        AnswersInv /\ Buffered /\ AnswerPlace /\ AnswerOutcome /\ (pc = "read" => result = "NeedMore")
=============================================================================
