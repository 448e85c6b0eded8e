------------------------------- MODULE Reader -------------------------------
(***************************************************************************)
(* The loop around a parser that HttpSession::readRequest and              *)
(* ProxySession::readResponse share: parse what is buffered, and when that *)
(* is not enough prepare the buffer, wait for async_read_some and commit.  *)
(* The peer's bytes are known from the start (wire); the network cuts them *)
(* into pieces as it likes, and the peer may close at any point.           *)
(*                                                                         *)
(* A byte is "CR", "LF" or a letter.  The first letter of a line says what *)
(* the text of the line means (a request line of version 1.1, a header of  *)
(* that name and value, a chunk size), the others only make it longer.     *)
(***************************************************************************)
EXTENDS Buffer

CONSTANT SizeMod   \* a size_t counts modulo this: 2^64 in the code, scaled down for TLC
ASSUME SizeModAssumption == SizeMod \in Nat /\ SizeMod > 11

VARIABLES
    limits,   \* SessionLimits or ProxyLimits, with the parser's limits
    wire,     \* all the bytes the peer will send
    sent,     \* how many of them have been read
    input,    \* the Buffer
    result,   \* what parse() returned; "Running" inside its loop
    pc        \* where the coroutine is: "parse", "read", or how it ended

readerVars == <<limits, wire, sent, input, result, pc>>

CRLF == <<"CR", "LF">>
\* What the text of a line means.
Meaning(line) == IF line = <<>> THEN "empty" ELSE Head(line)
\* The numbers that Content-Length and chunk-size texts stand for: std::from_chars
\* gives every size_t, up to fe and ff at the very end, to which 2 cannot be added.
Number == [n0 |-> 0, n1 |-> 1, n2 |-> 2, n3 |-> 3, n9 |-> 9, nfe |-> SizeMod - 2, nff |-> SizeMod - 1]
\* a + b in size_t.
SizeSum(a, b) == IF a + b < SizeMod THEN a + b ELSE a + b - SizeMod
LengthNames == DOMAIN Number \cup {"badlength"}
\* Headers::values: where the headers of some name are, and the value of the first.
Values(headers, names) == {i \in DOMAIN headers : headers[i] \in names}
FirstValue(headers, names) == headers[Min(Values(headers, names))]

\* The loop of parse() is running, and looks at the first buffered line, if any.
Running == pc = "parse" /\ result = "Running"
line_bytes == findCrlf(input)
HasLine == line_bytes # NoCrlf
Line == SubSeq(input.bytes, 1, line_bytes)

\* NeedMore: prepare throws, and the exception ends the coroutine, or a read starts.
StartRead ==
    /\ pc = "parse" /\ result = "NeedMore"
    /\ IF PrepareThrows(input, limits.read_chunk, limits.max_buffer)
       THEN pc' = "failed" /\ UNCHANGED input
       ELSE pc' = "read" /\ input' = prepare(input, limits.read_chunk, limits.max_buffer)
    /\ UNCHANGED <<limits, wire, sent, result>>

\* The read returns some of the bytes that are still to come.
Receive(count) ==
    /\ pc = "read"
    /\ count \in 1 .. Min({input.prepared, Len(wire) - sent})
    /\ input' = commit(input, SubSeq(wire, sent + 1, sent + count))
    /\ sent' = sent + count
    /\ pc' = "parse" /\ result' = "Running"
    /\ UNCHANGED <<limits, wire>>
=============================================================================
