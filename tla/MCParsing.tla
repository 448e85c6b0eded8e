----------------------------- MODULE MCParsing ------------------------------
(* Instances of Parsing for TLC. *)
EXTENDS Parsing

Request(line, headers, body) ==
    [line |-> line, headers |-> headers, body |-> body, chunks |-> <<>>, trailers |-> <<>>]

\* Requests that leave the connection open: with a body that looks like the end
\* of a line, with a request line of the greatest length, of both versions.
Continuing == {Request(<<"v11">>, <<<<"host">>>>, <<>>),
         Request(<<"v11", "x", "x">>, <<<<"n2">>, <<"host">>>>, <<"CR", "LF">>),
         Request(<<"v10">>, <<<<"keep-alive", "x">>, <<"n1">>>>, <<"v11">>)}
\* ... and requests that end it, by themselves or by a fault.
Ending == {Request(<<"v11">>, <<<<"host">>, <<"close">>>>, <<>>),
         Request(<<"v10">>, <<<<"n2">>>>, <<"b", "c">>),
         Request(<<"b">>, <<<<"host">>>>, <<>>),
         Request(<<"v11", "x", "x", "x">>, <<<<"host">>>>, <<>>),
         Request(<<"v11">>, <<<<"other">>>>, <<>>),
         Request(<<"v11">>, <<<<"host">>, <<"b">>>>, <<>>),
         Request(<<"v11">>, <<<<"host", "x", "x">>>>, <<>>),
         Request(<<"v11">>, <<<<"host">>, <<"te">>>>, <<>>),
         Request(<<"v11">>, <<<<"host">>, <<"n3">>>>, <<"b", "b", "b">>),
         Request(<<"v11">>, <<<<"host">>, <<"badlength">>>>, <<>>),
         Request(<<"v10">>, <<<<"n1">>, <<"n1">>>>, <<"b">>),
         Request(<<"v11">>, <<<<"host">>, <<"other">>, <<"other">>>>, <<>>),
         Request(<<"v11", "x", "x">>, <<<<"host", "x">>, <<"other", "x">>>>, <<>>)}
\* A request line that is longer than the whole buffer.
Endless == Request(<<"v11">> \o [i \in 1 .. 17 |-> "x"], <<<<"host">>>>, <<>>)
RequestStreams_ == {<<m>> : m \in Continuing \cup Ending \cup {Endless}}
                   \cup {<<m, n>> : m \in Continuing, n \in Continuing \cup Ending}

Response(line, headers, body) == Request(line, headers, body)
Chunk(size, data) == [size |-> <<size>>, data |-> data, end |-> CRLF]
Chunked(chunks, trailers) ==
    [line |-> <<"s200">>, headers |-> <<<<"chunked">>>>, chunks |-> chunks, trailers |-> trailers,
     body |-> ChunkedBody(chunks, trailers)]
\* A chunk-size line that is longer than the smaller buffer.
LongSize == [Chunk("n1", <<"b">>) EXCEPT !.size = @ \o [i \in 1 .. 11 |-> "x"]]
BadChunk == [Chunk("n1", <<"b">>) EXCEPT !.end = <<"b", "CR">>]

Informational == Response(<<"s100">>, <<<<"other">>>>, <<>>)
Answers == {Response(<<"s200">>, <<<<"n2">>>>, <<"b", "c">>),
            Response(<<"s200", "x", "x">>, <<<<"n0">>>>, <<>>),
            Response(<<"s204">>, <<>>, <<>>),
            Response(<<"s200">>, <<>>, <<"b", "CR", "LF">>),
            Response(<<"s200">>, <<<<"other">>>>, <<"c">>),
            Response(<<"s101">>, <<>>, <<>>),
            Response(<<"b">>, <<>>, <<>>),
            Response(<<"s200", "x", "x", "x">>, <<<<"n0">>>>, <<>>),
            Response(<<"s200">>, <<<<"n1">>, <<"n1">>>>, <<"b">>),
            Response(<<"s200">>, <<<<"n3">>>>, <<"b", "b", "b">>),
            Response(<<"s200">>, <<<<"n1">>, <<"chunked">>>>, <<"b">>),
            Response(<<"s200">>, <<<<"gzip">>>>, <<>>),
            Response(<<"s200">>, <<<<"b">>>>, <<>>),
            Response(<<"s200">>, <<<<"other">>, <<"other">>, <<"n0">>>>, <<>>),
            Chunked(<<Chunk("n1", <<"b">>), Chunk("n1", <<"c">>)>>, <<>>),
            Chunked(<<Chunk("n2", CRLF)>>, <<<<"other">>>>),
            Chunked(<<Chunk("n2", <<"b", "c">>), Chunk("n1", <<"b">>)>>, <<>>),
            Chunked(<<Chunk("n3", <<"b", "c", "b">>)>>, <<>>),
            Chunked(<<Chunk("n9", <<"b", "b", "b", "b", "b", "b", "b", "b", "b">>)>>, <<>>),
            Chunked(<<BadChunk>>, <<>>),
            Chunked(<<LongSize>>, <<>>),
            Chunked(<<Chunk("b", <<"b">>)>>, <<>>),
            Chunked(<<>>, <<<<"badname">>>>),
            Chunked(<<>>, <<<<"other", "x", "x", "x">>>>)}
\* Chunks whose size and 2 overflow, and which begin like the end of a chunked body
\* and like the LF of a CR LF.
Overflowing ==
    LET Padded(start, length) == start \o [i \in 1 .. length - Len(start) |-> "b"]
    IN  {Chunked(<<Chunk("nfe", Padded(<<"n0", "CR", "LF", "CR", "LF">>, SizeMod - 2))>>, <<>>),
         Chunked(<<Chunk("nff", Padded(<<"LF">>, SizeMod - 1))>>, <<>>)}

ResponseStreams_ ==
    {<<m>> : m \in Answers \cup Overflowing} \cup {<<Informational, m>> : m \in Answers}
        \cup {<<Informational>>, <<Response(<<"s200">>, <<<<"n1">>>>, <<"b">>), Informational>>}
\* The same to a HEAD request, and an answer that has, as it must, no body.
HeadStreams_ == ResponseStreams_ \cup {<<Response(<<"s200">>, <<<<"n2">>>>, <<>>)>>}

\* A server whose buffer always has room for a read, and one whose limits are
\* smaller than its reads.
SessionSettings_ ==
    LET parser_limits == [request_line |-> 3, header_line |-> 2, header_bytes |-> 14,
                          header_count |-> 2, body |-> 2, read_chunk |-> 2, max_buffer |-> 0]
    IN  {parser_limits, [parser_limits EXCEPT !.read_chunk = 14]}
\* Proxies whose buffer does and does not hold the largest chunk, and one that allows
\* a longer status line than it allows a head.
ProxySettings_ ==
    LET proxy_limits == [status_line |-> 3, header_bytes |-> 12, header_count |-> 2, body |-> 2,
                         read_chunk |-> 2, max_buffer |-> 20]
    IN  {proxy_limits, [proxy_limits EXCEPT !.max_buffer = 11],
         [proxy_limits EXCEPT !.header_bytes = 2]}
=============================================================================
