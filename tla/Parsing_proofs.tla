--------------------------- MODULE Parsing_proofs ---------------------------
(***************************************************************************)
(* Proofs about Parsing. First that the buffer keeps its indices inside    *)
(* its storage and its storage inside its limit, and that there is room    *)
(* for the next read beside whatever a parser waits for: the buffer and    *)
(* the lines in it, the parsers, the two read loops.                       *)
(*                                                                         *)
(* Then that the parsers find the peer's messages again, however the       *)
(* network cuts the bytes: where the parts of a message lie among the      *)
(* bytes sent, where the request parser stands (SessionInv) and what comes *)
(* of the requests; where the response parser stands (ProxyInv) and what   *)
(* comes of the answer.                                                    *)
(***************************************************************************)
EXTENDS ParsingInvariant, FiniteSetTheorems, SequenceTheorems, WellFoundedInduction, TLAPS

-----------------------------------------------------------------------------
(* Numbers *)

LEMMA SmallestOf ==
  ASSUME NEW T, T \subseteq Nat, T # {}
  PROVE  Min(T) \in T /\ \A n \in T : Min(T) <= n
<1> DEFINE R == OpToRel(<, Nat)
<1>1. \A x, y \in Nat : x < y => <<x, y>> \in R
  BY DEF OpToRel
<1>2. IsWellFoundedOn(R, Nat)
  BY NatLessThanWellFounded
<1> HIDE DEF R
<1>5. PICK m \in T : \A y \in T : ~(<<y, m>> \in R)
  BY <1>2, WFMin
<1>3. \A y \in T : m \in Nat /\ y \in Nat /\ ~(y < m)
  BY <1>1, <1>5
<1>4. \A y \in T : m <= y
  BY <1>3
<1> QED BY <1>4 DEF Min

LEMMA Extremes ==
  ASSUME NEW a \in Int, NEW b \in Int
  PROVE  /\ Max({a, b}) \in {a, b} /\ Max({a, b}) >= a /\ Max({a, b}) >= b
         /\ Min({a, b}) \in {a, b} /\ Min({a, b}) <= a /\ Min({a, b}) <= b
<1>1. \E x \in {a, b} : \A y \in {a, b} : x >= y
  OBVIOUS
<1>2. \E x \in {a, b} : \A y \in {a, b} : x <= y
  OBVIOUS
<1> QED BY <1>1, <1>2 DEF Max, Min

-----------------------------------------------------------------------------
(* The buffer *)

\* A record with the fields of a buffer is one.
LEMMA BufferOf ==
  ASSUME NEW s \in Nat, NEW i \in Nat, NEW bs \in Seq(STRING), NEW p \in Nat, NEW max \in Nat,
         i + Len(bs) + p <= s, s <= max, NEW b,
         b = [size |-> s, read_index |-> i, bytes |-> bs, prepared |-> p]
  PROVE  b \in Buffers /\ BufferSound(b, max)
BY DEF Buffers, BufferSound, write_index

LEMMA FieldsOf ==
  ASSUME NEW b \in Buffers, NEW max \in Nat, BufferSound(b, max)
  PROVE  /\ b = [size |-> b.size, read_index |-> b.read_index, bytes |-> b.bytes, prepared |-> b.prepared]
         /\ b.size \in Nat /\ b.read_index \in Nat /\ b.bytes \in Seq(STRING) /\ b.prepared \in Nat
         /\ Len(b.bytes) \in Nat /\ b.size <= max
         /\ b.read_index + Len(b.bytes) + b.prepared <= b.size
BY DEF Buffers, BufferSound, write_index

LEMMA NewBuffer ==
  ASSUME NEW n \in Nat, NEW max \in Nat, n <= max
  PROVE  /\ EmptyBuffer(n) \in Buffers /\ BufferSound(EmptyBuffer(n), max)
         /\ EmptyBuffer(n).prepared = 0 /\ EmptyBuffer(n).bytes = <<>>
<1>1. <<>> \in Seq(STRING) /\ Len(<<>>) = 0
  OBVIOUS
<1> QED BY <1>1 DEF EmptyBuffer, Buffers, BufferSound, write_index

\* prepare moves or grows the storage within its limit, and leaves the bytes.
LEMMA PrepareKeeps ==
  ASSUME NEW b \in Buffers, NEW minimum \in Nat \ {0}, NEW max \in Nat, minimum <= max,
         BufferSound(b, max), ~PrepareThrows(b, minimum, max)
  PROVE  /\ prepare(b, minimum, max) \in Buffers
         /\ BufferSound(prepare(b, minimum, max), max)
         /\ prepare(b, minimum, max).bytes = b.bytes
<1> DEFINE g == compactOrGrow(b, minimum, max)
           readable == Len(b.bytes)
           doubled == IF b.size > max \div 2 THEN max ELSE b.size * 2
           wanted == NewSize(b, minimum, max)
<1>1. /\ b = [size |-> b.size, read_index |-> b.read_index, bytes |-> b.bytes, prepared |-> b.prepared]
      /\ b.size \in Nat /\ b.read_index \in Nat /\ b.bytes \in Seq(STRING)
      /\ readable \in Nat /\ b.size <= max /\ b.prepared = 0
      /\ b.read_index + readable <= b.size
  BY FieldsOf DEF PrepareThrows
<1>2. \E s \in Nat, i \in Nat :
         /\ g = [size |-> s, read_index |-> i, bytes |-> b.bytes, prepared |-> 0]
         /\ i + readable <= s /\ s <= max
  <2>1. CASE b.size - write_index(b) >= minimum
    BY <1>1, <2>1 DEF compactOrGrow
  <2>2. CASE ~(b.size - write_index(b) >= minimum) /\ b.size - readable >= minimum
    <3>1. g = [b EXCEPT !.read_index = 0]
      BY <2>2 DEF compactOrGrow, readableBytes
    <3>2. g = [size |-> b.size, read_index |-> 0, bytes |-> b.bytes, prepared |-> 0]
      BY <1>1, <3>1
    <3>3. b.size \in Nat /\ 0 \in Nat /\ 0 + readable <= b.size /\ b.size <= max
      BY <1>1
    <3> QED BY <3>2, <3>3
  <2>3. CASE ~(b.size - write_index(b) >= minimum) /\ ~(b.size - readable >= minimum)
    <3>1. g = [b EXCEPT !.size = wanted, !.read_index = 0]
      BY <2>3 DEF compactOrGrow, readableBytes
    <3>2. readable + minimum <= max
      BY <1>1, <2>3 DEF PrepareThrows, readableBytes
    <3>3. doubled \in Nat /\ doubled <= max
      <4>1. CASE b.size > max \div 2
        BY <4>1
      <4>2. CASE ~(b.size > max \div 2)
        <5>1. max \div 2 \in Nat /\ 2 * (max \div 2) <= max
          OBVIOUS
        <5> QED BY <1>1, <4>2, <5>1
      <4> QED BY <4>1, <4>2
    <3>4. wanted = Max({readable + minimum, doubled})
      BY DEF NewSize, readableBytes
    <3> HIDE DEF doubled, wanted
    <3>5. wanted \in Nat /\ wanted <= max /\ wanted >= readable
      <4>1. readable + minimum \in Int /\ doubled \in Int
        BY <1>1, <3>3
      <4>2. wanted \in {readable + minimum, doubled} /\ wanted >= readable + minimum
        BY <3>4, <4>1, Extremes
      <4> QED BY <1>1, <3>2, <3>3, <4>2
    <3>6. g = [size |-> wanted, read_index |-> 0, bytes |-> b.bytes, prepared |-> 0]
      BY <1>1, <3>1
    <3>7. wanted \in Nat /\ 0 \in Nat /\ 0 + readable <= wanted
      BY <1>1, <3>5
    <3> QED BY <3>5, <3>6, <3>7
  <2> QED BY <2>1, <2>2, <2>3
<1>3. prepare(b, minimum, max) = [g EXCEPT !.prepared = g.size - write_index(g)]
  BY DEF prepare
<1> HIDE DEF g
<1>4. PICK s \in Nat, i \in Nat :
         /\ g = [size |-> s, read_index |-> i, bytes |-> b.bytes, prepared |-> 0]
         /\ i + readable <= s /\ s <= max
  BY <1>2
<1> DEFINE room == s - (i + readable)
<1>5. prepare(b, minimum, max)
        = [size |-> s, read_index |-> i, bytes |-> b.bytes, prepared |-> room]
  BY <1>3, <1>4 DEF write_index
<1>6. room \in Nat /\ i + readable + room <= s
  BY <1>1, <1>4
<1> HIDE DEF room
<1> QED BY <1>1, <1>4, <1>5, <1>6, BufferOf

\* What was received fits into the prepared region.
LEMMA CommitKeeps ==
  ASSUME NEW b \in Buffers, NEW max \in Nat, BufferSound(b, max),
         NEW received \in Seq(STRING), Len(received) <= b.prepared
  PROVE  commit(b, received) \in Buffers /\ BufferSound(commit(b, received), max)
         /\ commit(b, received).prepared = 0
<1> DEFINE all == b.bytes \o received
<1>1. /\ b = [size |-> b.size, read_index |-> b.read_index, bytes |-> b.bytes, prepared |-> b.prepared]
      /\ b.size \in Nat /\ b.read_index \in Nat /\ b.bytes \in Seq(STRING) /\ b.prepared \in Nat
      /\ Len(b.bytes) \in Nat /\ b.size <= max
      /\ b.read_index + Len(b.bytes) + b.prepared <= b.size
  BY FieldsOf
<1>2. all \in Seq(STRING) /\ Len(all) = Len(b.bytes) + Len(received) /\ Len(received) \in Nat
  BY <1>1
<1>3. commit(b, received) = [b EXCEPT !.bytes = all, !.prepared = 0]
  BY DEF commit
<1> HIDE DEF all
<1>4. commit(b, received) = [size |-> b.size, read_index |-> b.read_index, bytes |-> all, prepared |-> 0]
  BY <1>1, <1>3
<1> DEFINE none == 0
<1>5. none \in Nat /\ b.read_index + Len(all) + none <= b.size
  BY <1>1, <1>2
<1>6. commit(b, received) = [size |-> b.size, read_index |-> b.read_index, bytes |-> all, prepared |-> none]
  BY <1>4
<1> HIDE DEF none
<1>7. commit(b, received) \in Buffers /\ BufferSound(commit(b, received), max)
  BY <1>1, <1>2, <1>5, <1>6, BufferOf
<1> QED BY <1>4, <1>7

\* consume takes bytes from the front.
LEMMA ConsumeKeeps ==
  ASSUME NEW b \in Buffers, NEW max \in Nat, BufferSound(b, max), NEW count \in 0 .. Len(b.bytes)
  PROVE  /\ consume(b, count) \in Buffers /\ BufferSound(consume(b, count), max)
         /\ consume(b, count).prepared = b.prepared
         /\ Len(consume(b, count).bytes) = Len(b.bytes) - count
<1> DEFINE rest == SubSeq(b.bytes, count + 1, Len(b.bytes))
           at == IF rest = <<>> THEN 0 ELSE b.read_index + count
<1>1. /\ b = [size |-> b.size, read_index |-> b.read_index, bytes |-> b.bytes, prepared |-> b.prepared]
      /\ b.size \in Nat /\ b.read_index \in Nat /\ b.bytes \in Seq(STRING) /\ b.prepared \in Nat
      /\ Len(b.bytes) \in Nat /\ b.size <= max
      /\ b.read_index + Len(b.bytes) + b.prepared <= b.size
  BY FieldsOf
<1>2. rest \in Seq(STRING) /\ Len(rest) = Len(b.bytes) - count /\ Len(rest) \in Nat
  <2> DEFINE s == b.bytes
  <2>1. s \in Seq(STRING) /\ Len(s) \in Nat /\ count \in 0 .. Len(s)
    BY <1>1
  <2> HIDE DEF s
  <2>2. SubSeq(s, count + 1, Len(s)) \in Seq(STRING) /\ Len(SubSeq(s, count + 1, Len(s))) = Len(s) - count
    BY <2>1
  <2> QED BY <2>1, <2>2 DEF s
<1>3. rest = <<>> => Len(rest) = 0
  <2>1. Len(<<>>) = 0
    OBVIOUS
  <2> QED BY <2>1
<1>4. consume(b, count) = [b EXCEPT !.bytes = rest, !.read_index = at]
  BY DEF consume
<1> HIDE DEF rest
<1>5. at \in Nat /\ at + Len(rest) + b.prepared <= b.size
  <2> DEFINE n == Len(b.bytes)
             r == Len(rest)
             o == b.read_index
             z == b.prepared
             size == b.size
  <2>1. n \in Nat /\ r = n - count /\ r \in Nat /\ o \in Nat /\ z \in Nat /\ size \in Nat /\ o + n + z <= size
    BY <1>1, <1>2
  <2>2. at = (IF rest = <<>> THEN 0 ELSE o + count) /\ (rest = <<>> => r = 0)
    BY <1>3
  <2> HIDE DEF n, r, o, z, size, at
  <2>3. at \in Nat /\ at + r + z <= size
    BY <2>1, <2>2
  <2> QED BY <2>3 DEF r, z, size
<1> HIDE DEF at
<1>6. consume(b, count) = [size |-> b.size, read_index |-> at, bytes |-> rest, prepared |-> b.prepared]
  BY <1>1, <1>4
<1> QED BY <1>1, <1>2, <1>5, <1>6, BufferOf, SMTT(30)

\* A line that findCrlf reports lies in the buffer with its CR LF.
LEMMA LineInside ==
  ASSUME NEW b \in Buffers, findCrlf(b) # NoCrlf
  PROVE  findCrlf(b) \in Nat /\ findCrlf(b) + 2 <= Len(b.bytes)
<1> DEFINE ends == {i \in 1 .. Len(b.bytes) - 1 : b.bytes[i] = "CR" /\ b.bytes[i + 1] = "LF"}
<1>1. Len(b.bytes) \in Nat
  BY DEF Buffers
<1>2. ends # {} /\ findCrlf(b) = Min(ends) - 1
  BY DEF findCrlf
<1>3. ends \subseteq 1 .. Len(b.bytes) - 1 /\ ends \subseteq Nat
  BY <1>1
<1> HIDE DEF ends
<1>4. Min(ends) \in ends
  BY <1>2, <1>3, SmallestOf
<1>5. Min(ends) \in 1 .. Len(b.bytes) - 1
  BY <1>3, <1>4
<1> QED BY <1>1, <1>2, <1>5

-----------------------------------------------------------------------------
(* Lines and headers *)

LEMMA NumbersAreNat == ASSUME NEW x \in DOMAIN Number PROVE Number[x] \in Nat
BY SizeModAssumption DEF Number

\* chunk_bytes_ + 2 is never more than the sum, and the sum itself unless it wraps.
LEMMA ChunkSums ==
  ASSUME NEW a \in Nat
  PROVE  /\ WithCrlf(a) \in Nat /\ WithCrlf(a) <= a + 2
         /\ a + 2 < SizeMod => WithCrlf(a) = a + 2
BY SizeModAssumption DEF WithCrlf, SizeSum

\* The value of the first header of some names is one of them.
LEMMA FirstIsOne ==
  ASSUME NEW S, NEW headers \in Seq(S), NEW names, Values(headers, names) # {}
  PROVE  FirstValue(headers, names) \in names
<1> DEFINE v == Values(headers, names)
<1>1. v \subseteq Nat
  BY DEF Values
<1>2. \A i \in v : headers[i] \in names
  BY DEF Values
<1>3. FirstValue(headers, names) = headers[Min(v)]
  BY DEF FirstValue
<1> HIDE DEF v
<1>4. v # {}
  BY DEF v
<1>5. Min(v) \in v
  BY <1>1, <1>4, SmallestOf
<1> QED BY <1>2, <1>3, <1>5

\* A line that means something has at least a byte.
LEMMA LineMeans ==
  ASSUME input \in Buffers, HasLine
  PROVE  /\ line_bytes \in Nat /\ line_bytes + 2 \in 0 .. Len(input.bytes)
         /\ (Meaning(Line) # "empty" => line_bytes >= 1)
<1>1. line_bytes \in Nat /\ line_bytes + 2 <= Len(input.bytes) /\ Len(input.bytes) \in Nat
  BY LineInside DEF HasLine, line_bytes, Buffers
<1>2. input.bytes \in Seq(STRING)
  BY DEF Buffers
<1>3. Line \in Seq(STRING) /\ Len(Line) = line_bytes
  BY <1>1, <1>2 DEF Line
<1>4. Line = <<>> => Meaning(Line) = "empty"
  BY DEF Meaning
<1>5. Line # <<>> => Line[1] \in STRING /\ Meaning(Line) = Line[1] /\ Len(Line) >= 1
  BY <1>3 DEF Meaning
<1> HIDE DEF line_bytes
<1>6. line_bytes + 2 \in 0 .. Len(input.bytes)
  BY <1>1
<1>7. Meaning(Line) # "empty" => line_bytes >= 1
  BY <1>3, <1>4, <1>5
<1> QED BY <1>1, <1>6, <1>7

-----------------------------------------------------------------------------
(* The buffer, the parsers and what they wait for *)

\* What the limits are, whichever side they are of.
LEMMA LimitsTyped ==
  ASSUME LoopTyped
  PROVE  /\ limits.read_chunk \in Nat \ {0} /\ limits.max_buffer \in Nat
         /\ limits.header_bytes \in Nat /\ limits.body \in Nat
         /\ limits.read_chunk <= limits.max_buffer
         /\ (side = "request" => limits.request_line \in Nat)
         /\ (side = "response" => limits.status_line \in Nat)
<1>1. CASE side = "request"
  BY <1>1 DEF LoopTyped, ServerLimits
<1>2. CASE side = "response"
  BY <1>2 DEF LoopTyped, ClientLimits
<1> QED BY <1>1, <1>2 DEF LoopTyped

-----------------------------------------------------------------------------
(* A turn of a parser's loop *)

Results == {"Running", "NeedMore", "Complete"} \cup ParseErrors \cup ResponseErrors

\* A turn leaves the buffer alone or takes bytes from its front.
Takes == input' = input \/ \E k \in 0 .. Len(input.bytes) : input' = consume(input, k)

LEMMA TakesKeeps ==
  ASSUME LoopTyped, BufferInv, Takes, UNCHANGED <<limits, pc>>
  PROVE  BufferInv'
<1>1. limits.max_buffer \in Nat
  BY LimitsTyped
<1>2. CASE input' = input
  BY <1>2 DEF BufferInv
<1>3. CASE \E k \in 0 .. Len(input.bytes) : input' = consume(input, k)
  <2>1. PICK k \in 0 .. Len(input.bytes) : input' = consume(input, k)
    BY <1>3
  <2>2. input \in Buffers /\ BufferSound(input, limits.max_buffer)
    BY DEF BufferInv
  <2>3. /\ input' \in Buffers /\ BufferSound(input', limits.max_buffer)
        /\ input'.prepared = input.prepared
    BY <1>1, <2>1, <2>2, ConsumeKeeps
  <2> QED BY <2>3 DEF BufferInv
<1> QED BY <1>2, <1>3 DEF Takes

\* What a turn of the request parser has to show.
LEMMA RequestTurn ==
  ASSUME IInv, side = "request", Running, Takes, ParserFrame, UNCHANGED <<responseParser, loopVars>>,
         result' \in Results, RequestInv', RequestWaits'
  PROVE  IInv'
<1>1. BufferInv'
  BY TakesKeeps DEF IInv, ParserFrame
<1>2. LoopTyped'
  BY DEF IInv, LoopTyped, ParserFrame, loopVars, Results
<1>3. ResponseInv' /\ ResponseWaits' /\ FailedInv'
  BY DEF ResponseInv, ResponseWaits, FailedInv, loopVars, ParserFrame, Running
<1> QED BY <1>1, <1>2, <1>3 DEF IInv

LEMMA ResponseTurn ==
  ASSUME IInv, side = "response", Running, Takes, ResponseFrame, UNCHANGED <<parser, loopVars>>,
         result' \in Results, ResponseInv', ResponseWaits'
  PROVE  IInv'
<1>1. BufferInv'
  BY TakesKeeps DEF IInv, ResponseFrame
<1>2. LoopTyped'
  BY DEF IInv, LoopTyped, ResponseFrame, loopVars, Results
<1>3. RequestInv' /\ RequestWaits' /\ FailedInv'
  BY DEF RequestInv, RequestWaits, FailedInv, loopVars, ResponseFrame, Running
<1> QED BY <1>1, <1>2, <1>3 DEF IInv

-----------------------------------------------------------------------------
(* The request parser *)

\* A refused request leaves a parser that waits for nothing.
LEMMA RequestRefused ==
  ASSUME RequestInv, UNCHANGED <<limits, loopVars>>, side = "request", NEW e \in ParseErrors, fail(e)
  PROVE  RequestInv' /\ RequestWaits' /\ result' \in Results
<1>1. parser \in Parsers /\ parser' = [parser EXCEPT !.state = "Error"] /\ result' = e
  BY DEF RequestInv, fail
<1>2. parser' \in Parsers /\ parser'.state = "Error"
  BY <1>1 DEF Parsers
<1>3. e # "NeedMore" /\ e \in Results
  BY DEF ParseErrors, Results
<1> QED BY <1>1, <1>2, <1>3 DEF RequestInv, RequestWaits

LEMMA BodyKeeps ==
  ASSUME IInv, side = "request", ParseBody, UNCHANGED <<responseParser, loopVars>>
  PROVE  IInv'
<1>1. parser \in Parsers /\ input \in Buffers /\ Running /\ parser.state = "Body" /\ ParserFrame
      /\ parser.expected_body_bytes <= limits.body
  BY DEF IInv, RequestInv, BufferInv, ParseBody
<1>2. input.bytes \in Seq(STRING) /\ Len(input.bytes) \in Nat /\ parser.expected_body_bytes \in Nat
  BY <1>1 DEF Buffers, Parsers
<1>3. UNCHANGED <<limits, side>>
  BY <1>1 DEF ParserFrame, loopVars
<1>4. CASE readableBytes(input) < parser.expected_body_bytes
  <2>1. UNCHANGED <<parser, input>> /\ result' = "NeedMore"
    BY <1>4 DEF ParseBody, Goes
  <2>2. RequestInv'
    BY <1>3, <2>1 DEF IInv, RequestInv
  <2>3. RequestWaits'
    BY <1>1, <1>4, <2>1 DEF RequestWaits, readableBytes
  <2>4. Takes /\ result' \in Results
    BY <2>1 DEF Takes, Results
  <2> QED BY <1>1, <2>2, <2>3, <2>4, RequestTurn
<1>5. CASE ~(readableBytes(input) < parser.expected_body_bytes)
  <2> DEFINE body == SubSeq(input.bytes, 1, parser.expected_body_bytes)
  <2>1. /\ parser' = [parser EXCEPT !.state = "Complete", !.body = body] /\ result' = "Complete"
        /\ input' = consume(input, parser.expected_body_bytes)
    BY <1>5 DEF ParseBody, Goes
  <2>2. parser.expected_body_bytes \in 0 .. Len(input.bytes)
    BY <1>2, <1>5 DEF readableBytes
  <2>3. body \in Seq(STRING)
    BY <1>2, <2>2
  <2> HIDE DEF body
  <2>4. parser' \in Parsers /\ parser'.state = "Complete"
    BY <1>1, <2>1, <2>3 DEF Parsers
  <2>5. RequestInv' /\ RequestWaits'
    BY <2>1, <2>4 DEF RequestInv, RequestWaits
  <2>6. Takes /\ result' \in Results
    BY <2>1, <2>2 DEF Takes, Results
  <2> QED BY <1>1, <2>5, <2>6, RequestTurn
<1> QED BY <1>4, <1>5

LEMMA NoLineKeeps ==
  ASSUME IInv, side = "request", ParseNoLine, UNCHANGED <<responseParser, loopVars>>
  PROVE  IInv'
<1> DEFINE tooMuch == \/ parser.state = "RequestLine" /\ readableBytes(input) > limits.request_line
                      \/ /\ parser.state = "Headers"
                         /\ parser.header_bytes + readableBytes(input) > limits.header_bytes
<1>1. /\ parser \in Parsers /\ input \in Buffers /\ Running /\ ParserFrame /\ input' = input
      /\ parser.state \in {"RequestLine", "Headers"} /\ LoopTyped /\ RequestInv
  BY DEF IInv, RequestInv, BufferInv, ParseNoLine
<1>2. Len(input.bytes) \in Nat /\ parser.header_bytes \in Nat
  BY <1>1 DEF Buffers, Parsers
<1>3. UNCHANGED <<limits, side>> /\ Takes
  BY <1>1 DEF ParserFrame, loopVars, Takes
<1>4. CASE tooMuch
  BY <1>4, <1>1, <1>3, RequestRefused, RequestTurn DEF ParseNoLine, ParseErrors
<1>5. CASE ~tooMuch
  <2>1. parser' = parser /\ result' = "NeedMore"
    BY <1>5 DEF ParseNoLine, Goes
  <2>2. RequestInv'
    BY <1>1, <1>3, <2>1 DEF RequestInv
  <2>3. limits.request_line \in Nat /\ limits.header_bytes \in Nat
    BY <1>1, LimitsTyped
  <2>4. \/ parser.state = "RequestLine" /\ Len(input.bytes) <= limits.request_line
        \/ /\ parser.state = "Headers"
           /\ parser.header_bytes + Len(input.bytes) <= limits.header_bytes
    BY <1>1, <1>2, <1>5, <2>3 DEF readableBytes
  <2>5. RequestWaits'
    BY <1>1, <1>3, <2>1, <2>4 DEF RequestWaits
  <2>6. result' \in Results
    BY <2>1 DEF Results
  <2> QED BY <1>1, <1>3, <2>2, <2>5, <2>6, RequestTurn
<1> QED BY <1>4, <1>5

LEMMA LongLineKeeps ==
  ASSUME IInv, side = "request", ParseLongLine, UNCHANGED <<responseParser, loopVars>>
  PROVE  IInv'
<1>1. Running /\ ParserFrame /\ input' = input /\ fail("HeaderTooLarge") /\ RequestInv
  BY DEF IInv, ParseLongLine
<1>2. UNCHANGED <<limits, loopVars>> /\ Takes /\ "HeaderTooLarge" \in ParseErrors
  BY <1>1 DEF ParserFrame, Takes, ParseErrors
<1>3. RequestInv' /\ RequestWaits' /\ result' \in Results
  BY <1>1, <1>2, RequestRefused
<1> QED BY <1>1, <1>2, <1>3, RequestTurn

\* A turn that takes a line.
LEMMA LineTaken ==
  ASSUME IInv, side = "request", TakeLine, UNCHANGED <<responseParser, loopVars>>
  PROVE  /\ Running /\ Takes /\ ParserFrame /\ UNCHANGED <<limits, side>>
         /\ parser \in Parsers /\ line_bytes \in Nat
         /\ (Meaning(Line) # "empty" => line_bytes >= 1)
<1>1. Running /\ HasLine /\ input' = consume(input, line_bytes + 2) /\ ParserFrame
  BY DEF TakeLine
<1>2. input \in Buffers /\ parser \in Parsers
  BY DEF IInv, BufferInv, RequestInv
<1>3. /\ line_bytes \in Nat /\ line_bytes + 2 \in 0 .. Len(input.bytes)
      /\ (Meaning(Line) # "empty" => line_bytes >= 1)
  BY <1>1, <1>2, LineMeans
<1>4. Takes
  BY <1>1, <1>3 DEF Takes
<1> QED BY <1>1, <1>2, <1>3, <1>4 DEF ParserFrame, loopVars

LEMMA RequestLineKeeps ==
  ASSUME IInv, side = "request", ParseRequestLine, UNCHANGED <<responseParser, loopVars>>
  PROVE  IInv'
<1>1. TakeLine /\ parser.state = "RequestLine" /\ RequestInv
  BY DEF ParseRequestLine, IInv
<1>2. /\ Running /\ Takes /\ ParserFrame /\ UNCHANGED <<limits, side>>
      /\ parser \in Parsers /\ line_bytes \in Nat
      /\ (Meaning(Line) # "empty" => line_bytes >= 1)
  BY <1>1, LineTaken
<1>3. CASE Meaning(Line) \in Versions
  <2>1. /\ parser' = [parser EXCEPT !.state = "Headers", !.version = Meaning(Line),
                                    !.header_bytes = line_bytes + 2]
        /\ result' = "Running"
    BY <1>3 DEF ParseRequestLine, Goes
  <2>2. line_bytes + 2 \in Nat /\ line_bytes + 2 >= 3
    <3>1. Meaning(Line) # "empty"
      BY <1>3 DEF Versions
    <3> HIDE DEF line_bytes
    <3> QED BY <1>2, <3>1
  <2>3. parser' \in Parsers /\ parser'.state = "Headers" /\ parser'.header_bytes >= 3
    BY <1>2, <1>3, <2>1, <2>2 DEF Parsers
  <2>4. RequestInv' /\ RequestWaits' /\ result' \in Results
    BY <2>1, <2>3 DEF RequestInv, RequestWaits, Results
  <2> QED BY <1>2, <2>4, RequestTurn
<1>4. CASE Meaning(Line) \notin Versions
  BY <1>4, <1>1, <1>2, RequestRefused, RequestTurn DEF ParseRequestLine, ParseErrors
<1> QED BY <1>3, <1>4

LEMMA HeaderKeeps ==
  ASSUME IInv, side = "request", ParseHeader, UNCHANGED <<responseParser, loopVars>>
  PROVE  IInv'
<1>1. TakeLine /\ parser.state = "Headers" /\ RequestInv
  BY DEF ParseHeader, IInv
<1>2. /\ Running /\ Takes /\ ParserFrame /\ UNCHANGED <<limits, side>>
      /\ parser \in Parsers /\ line_bytes \in Nat
  BY <1>1, LineTaken
<1>3. CASE fail("HeaderTooLarge") \/ fail("BadRequest")
  BY <1>1, <1>2, <1>3, RequestRefused, RequestTurn DEF ParseErrors
<1>4. CASE ~(fail("HeaderTooLarge") \/ fail("BadRequest"))
  <2>1. /\ parser' = [parser EXCEPT !.headers = Append(parser.headers, Meaning(Line)),
                                    !.header_bytes = parser.header_bytes + line_bytes + 2]
        /\ result' = "Running" /\ Meaning(Line) \in HeaderNames
    BY <1>4 DEF ParseHeader, Goes
  <2>2. parser.headers \in Seq(HeaderNames) /\ parser.header_bytes \in Nat /\ parser.header_bytes >= 3
    BY <1>1, <1>2 DEF Parsers, RequestInv
  <2> DEFINE headers == Append(parser.headers, Meaning(Line))
             bytes == parser.header_bytes + line_bytes + 2
  <2>3. headers \in Seq(HeaderNames)
    BY <2>1, <2>2
  <2>4. bytes \in Nat /\ bytes >= 3
    <3> HIDE DEF line_bytes
    <3> QED BY <1>2, <2>2
  <2>5. parser' = [parser EXCEPT !.headers = headers, !.header_bytes = bytes]
    BY <2>1
  <2> HIDE DEF headers, bytes
  <2>6. parser' \in Parsers /\ parser'.state = "Headers" /\ parser'.header_bytes >= 3
    BY <1>1, <1>2, <2>3, <2>4, <2>5 DEF Parsers
  <2>7. RequestInv' /\ RequestWaits' /\ result' \in Results
    BY <2>1, <2>6 DEF RequestInv, RequestWaits, Results
  <2> QED BY <1>2, <2>7, RequestTurn
<1> QED BY <1>3, <1>4

\* The length that finishHeaders accepts is a number within the limit.
LEMMA AcceptedLength ==
  ASSUME NEW p \in Parsers, HeadersResult(p) = "Complete", ContentLengths(p) # {},
         limits.body \in Nat
  PROVE  Number[ContentLength(p)] \in Nat /\ Number[ContentLength(p)] <= limits.body
<1>1. /\ ContentLength(p) # "badlength"
      /\ ~(Number[ContentLength(p)] > limits.body)
  BY DEF HeadersResult
<1>2. p.headers \in Seq(HeaderNames)
  BY DEF Parsers
<1>3. ContentLength(p) \in LengthNames
  BY <1>2, FirstIsOne DEF ContentLength, ContentLengths
<1>4. ContentLength(p) \in DOMAIN Number
  BY <1>1, <1>3 DEF LengthNames
<1>5. Number[ContentLength(p)] \in Nat
  BY <1>4, NumbersAreNat
<1> HIDE DEF Number, ContentLength
<1> QED BY <1>1, <1>5

LEMMA FinishHeadersKeeps ==
  ASSUME IInv, side = "request", FinishHeaders, UNCHANGED <<responseParser, loopVars>>
  PROVE  IInv'
<1>1. TakeLine /\ parser.state = "Headers" /\ RequestInv /\ LoopTyped
  BY DEF FinishHeaders, IInv
<1>2. /\ Running /\ Takes /\ ParserFrame /\ UNCHANGED <<limits, side>>
      /\ parser \in Parsers /\ limits.body \in Nat
  BY <1>1, LineTaken, LimitsTyped
<1>3. CASE HeadersResult(parser) # "Complete"
  BY <1>3, <1>1, <1>2, RequestRefused, RequestTurn DEF FinishHeaders, HeadersResult, ParseErrors
<1>4. CASE HeadersResult(parser) = "Complete"
  <2> DEFINE expected == IF ContentLengths(parser) = {} THEN 0 ELSE Number[ContentLength(parser)]
             state == IF expected = 0 THEN "Complete" ELSE "Body"
             bytes == parser.header_bytes + 2
  <2>1. /\ parser' = [parser EXCEPT !.state = state, !.expected_body_bytes = expected,
                                    !.header_bytes = bytes]
        /\ result' = IF expected = 0 THEN "Complete" ELSE "Running"
    BY <1>4 DEF FinishHeaders, Goes
  <2>2. expected \in Nat /\ expected <= limits.body
    BY <1>2, <1>4, AcceptedLength
  <2>3. bytes \in Nat
    BY <1>2 DEF Parsers
  <2> HIDE DEF expected, bytes
  <2>4. parser' \in Parsers /\ parser'.state = state /\ parser'.expected_body_bytes = expected
    BY <1>2, <2>1, <2>2, <2>3 DEF Parsers
  <2>5. state # "Headers" /\ result' # "NeedMore" /\ result' \in Results
    BY <2>1 DEF Results
  <2> HIDE DEF state
  <2>6. RequestInv' /\ RequestWaits'
    BY <1>2, <2>2, <2>4, <2>5 DEF RequestInv, RequestWaits
  <2> QED BY <1>2, <2>5, <2>6, RequestTurn
<1> QED BY <1>3, <1>4

LEMMA ParseStepKeeps ==
  ASSUME IInv, side = "request", ParseStep, UNCHANGED <<responseParser, loopVars>>
  PROVE  IInv'
BY BodyKeeps, NoLineKeeps, LongLineKeeps, RequestLineKeeps, HeaderKeeps, FinishHeadersKeeps DEF ParseStep

-----------------------------------------------------------------------------
(* The response parser *)

LEMMA ResponseRefused ==
  ASSUME ResponseInv, UNCHANGED loopVars, side = "response", NEW e \in ResponseErrors, ResponseFails(e)
  PROVE  ResponseInv' /\ ResponseWaits' /\ result' \in Results
<1>1. /\ responseParser \in ResponseParsers /\ result' = e
      /\ responseParser' = [responseParser EXCEPT !.state = "Error"]
  BY DEF ResponseInv, ResponseFails
<1>2. responseParser' \in ResponseParsers /\ responseParser'.state = "Error"
  BY <1>1 DEF ResponseParsers
<1>3. e # "NeedMore" /\ e \in Results
  BY DEF ResponseErrors, Results
<1> QED BY <1>1, <1>2, <1>3 DEF ResponseInv, ResponseWaits

\* What every turn starts from.
LEMMA ResponseTyped ==
  ASSUME IInv, side = "response"
  PROVE  /\ responseParser \in ResponseParsers /\ input \in Buffers
         /\ input.bytes \in Seq(STRING) /\ Len(input.bytes) \in Nat
         /\ responseParser.body \in Seq(STRING) /\ Len(responseParser.body) \in Nat
         /\ responseParser.expected_body_bytes \in Nat /\ responseParser.chunk_bytes \in Nat
         /\ responseParser.header_bytes \in Nat
         /\ ResponseInv /\ LoopTyped /\ BufferSound(input, limits.max_buffer) /\ limits.max_buffer \in Nat
<1>1. /\ responseParser \in ResponseParsers /\ input \in Buffers
      /\ ResponseInv /\ LoopTyped /\ BufferSound(input, limits.max_buffer)
  BY DEF IInv, ResponseInv, BufferInv
<1>2. /\ input.bytes \in Seq(STRING) /\ responseParser.body \in Seq(STRING)
      /\ responseParser.expected_body_bytes \in Nat /\ responseParser.chunk_bytes \in Nat
      /\ responseParser.header_bytes \in Nat
  BY <1>1 DEF Buffers, ResponseParsers
<1> QED BY <1>1, <1>2, LimitsTyped

\* appendBody puts bytes from the front of the buffer behind the body.
LEMMA BodyAppended ==
  ASSUME responseParser \in ResponseParsers, input \in Buffers, NEW count \in 0 .. Len(input.bytes)
  PROVE  /\ AppendBody(count) \in ResponseParsers
         /\ AppendBody(count).state = responseParser.state
         /\ AppendBody(count).expected_body_bytes = responseParser.expected_body_bytes
         /\ AppendBody(count).header_bytes = responseParser.header_bytes
         /\ Len(AppendBody(count).body) = Len(responseParser.body) + count
<1> DEFINE taken == SubSeq(input.bytes, 1, count)
           body == responseParser.body \o taken
<1>1. input.bytes \in Seq(STRING) /\ responseParser.body \in Seq(STRING) /\ Len(input.bytes) \in Nat
  BY DEF Buffers, ResponseParsers
<1>2. taken \in Seq(STRING) /\ Len(taken) = count
  BY <1>1
<1> HIDE DEF taken
<1>3. body \in Seq(STRING) /\ Len(body) = Len(responseParser.body) + count
  BY <1>1, <1>2, SMTT(30)
<1>4. AppendBody(count) = [responseParser EXCEPT !.body = body]
  BY DEF AppendBody, taken
<1> HIDE DEF body
<1> QED BY <1>3, <1>4 DEF ResponseParsers

LEMMA FixedBodyKeeps ==
  ASSUME IInv, side = "response", ParseFixedBody, UNCHANGED <<parser, loopVars>>
  PROVE  IInv'
<1> DEFINE missing == responseParser.expected_body_bytes - Len(responseParser.body)
           count == Min({missing, Len(input.bytes)})
           filled == AppendBody(count)
<1>1. /\ responseParser \in ResponseParsers /\ input \in Buffers /\ ResponseInv
      /\ Len(input.bytes) \in Nat /\ Len(responseParser.body) \in Nat
      /\ responseParser.expected_body_bytes \in Nat
      /\ BufferSound(input, limits.max_buffer) /\ limits.max_buffer \in Nat
  BY ResponseTyped
<1>2. Running /\ ResponseFrame /\ responseParser.state = "FixedBody"
  BY DEF ParseFixedBody
<1>3. missing \in Nat
  BY <1>1, <1>2 DEF ResponseInv
<1> HIDE DEF missing
<1>4. count \in 0 .. Len(input.bytes) /\ count <= missing /\ count \in {missing, Len(input.bytes)}
  <2>1. missing \in Int /\ Len(input.bytes) \in Int
    BY <1>1, <1>3
  <2>2. count \in {missing, Len(input.bytes)} /\ count <= missing /\ count <= Len(input.bytes)
    BY <2>1, Extremes
  <2> QED BY <1>1, <1>3, <2>2
<1>5. \/ ResponseFails("BodyTooLarge") /\ UNCHANGED input
      \/ /\ input' = consume(input, count)
         /\ IF Len(filled.body) = filled.expected_body_bytes
            THEN Becomes([filled EXCEPT !.state = "Complete"], "Complete")
            ELSE Becomes(filled, "NeedMore")
  BY DEF ParseFixedBody, readableBytes, missing
<1> HIDE DEF count
<1>6. /\ filled \in ResponseParsers /\ filled.state = "FixedBody"
      /\ filled.expected_body_bytes = responseParser.expected_body_bytes
      /\ Len(filled.body) = Len(responseParser.body) + count
  BY <1>1, <1>2, <1>4, BodyAppended
<1> HIDE DEF filled
<1>7. CASE ResponseFails("BodyTooLarge") /\ UNCHANGED input
  BY <1>7, <1>1, ResponseRefused, <1>2, ResponseTurn DEF ResponseErrors, Takes
<1>8. CASE input' = consume(input, count) /\ Len(filled.body) = filled.expected_body_bytes
           /\ responseParser' = [filled EXCEPT !.state = "Complete"] /\ result' = "Complete"
  <2>1. responseParser' \in ResponseParsers /\ responseParser'.state = "Complete"
    BY <1>6, <1>8 DEF ResponseParsers
  <2>2. ResponseInv' /\ ResponseWaits' /\ result' \in Results
    BY <1>8, <2>1 DEF ResponseInv, ResponseWaits, Results
  <2>3. Takes
    BY <1>4, <1>8 DEF Takes
  <2> QED BY <1>2, <2>2, <2>3, ResponseTurn
<1>9. CASE input' = consume(input, count) /\ Len(filled.body) # filled.expected_body_bytes
           /\ responseParser' = filled /\ result' = "NeedMore"
  <2>1. Len(filled.body) <= filled.expected_body_bytes /\ count = Len(input.bytes)
    BY <1>1, <1>4, <1>6, <1>9 DEF missing
  <2>2. Len(input'.bytes) = 0
    <3>1. Len(consume(input, count).bytes) = Len(input.bytes) - count
      BY <1>1, <1>4, ConsumeKeeps
    <3> QED BY <1>1, <1>9, <2>1, <3>1
  <2>3. ResponseInv' /\ ResponseWaits' /\ result' \in Results
    BY <1>6, <1>9, <2>1, <2>2 DEF ResponseInv, ResponseWaits, Results
  <2>4. Takes
    BY <1>4, <1>9 DEF Takes
  <2> QED BY <1>2, <2>3, <2>4, ResponseTurn
<1> QED BY <1>5, <1>7, <1>8, <1>9 DEF Becomes

LEMMA ChunkBodyKeeps ==
  ASSUME IInv, side = "response", ParseChunkBody, UNCHANGED <<parser, loopVars>>
  PROVE  IInv'
<1> DEFINE count == responseParser.chunk_bytes
           taken == ChunkTaken(count)
           sum == WithCrlf(count)
           filled == AppendBody(taken)
<1>1. /\ responseParser \in ResponseParsers /\ input \in Buffers /\ ResponseInv
      /\ Len(input.bytes) \in Nat /\ count \in Nat
      /\ sum \in Nat /\ sum <= count + 2
  BY ResponseTyped, ChunkSums
<1>2. Running /\ ResponseFrame /\ responseParser.state = "ChunkBody"
  BY DEF ParseChunkBody
<1>3. responseParser.header_bytes >= 3
  BY <1>1, <1>2 DEF ResponseInv
<1>4. \/ /\ Len(input.bytes) < sum /\ responseParser' = responseParser /\ result' = "NeedMore"
         /\ UNCHANGED input
      \/ ResponseFails("BadResponse") /\ UNCHANGED input
      \/ ResponseFails("BodyTooLarge") /\ UNCHANGED input
      \/ /\ ~(Len(input.bytes) < sum) /\ input' = consume(input, sum)
         /\ responseParser' = [filled EXCEPT !.state = "ChunkSize"] /\ result' = "Running"
  BY DEF ParseChunkBody, readableBytes, Becomes
<1>0. taken \in 0 .. Len(input.bytes)
  <2> DEFINE b == Len(input.bytes)
  <2>1. taken = Min({count, b}) /\ count \in Int /\ b \in Int
    BY <1>1 DEF ChunkTaken, readableBytes
  <2> HIDE DEF taken, count, b
  <2>2. taken \in {count, b} /\ taken <= b
    BY <2>1, Extremes
  <2> QED BY <1>1, <2>2 DEF b
<1> HIDE DEF taken, sum
<1>5. CASE (ResponseFails("BadResponse") \/ ResponseFails("BodyTooLarge")) /\ UNCHANGED input
  BY <1>5, <1>1, ResponseRefused, <1>2, ResponseTurn DEF ResponseErrors, Takes
<1>6. CASE Len(input.bytes) < sum /\ responseParser' = responseParser /\ result' = "NeedMore"
           /\ UNCHANGED input
  <2>0. Len(input.bytes) < count + 2
    BY <1>1, <1>6
  <2>1. ResponseInv' /\ ResponseWaits' /\ result' \in Results /\ Takes
    BY <1>1, <1>2, <1>6, <2>0 DEF ResponseInv, ResponseWaits, Results, loopVars, Takes
  <2> QED BY <1>2, <2>1, ResponseTurn
<1>7. CASE ~(Len(input.bytes) < sum) /\ input' = consume(input, sum)
           /\ responseParser' = [filled EXCEPT !.state = "ChunkSize"] /\ result' = "Running"
  <2>1. sum \in 0 .. Len(input.bytes)
    BY <1>1, <1>7
  <2>2. filled \in ResponseParsers /\ filled.header_bytes = responseParser.header_bytes
    BY <1>0, <1>1, BodyAppended
  <2> HIDE DEF filled
  <2>3. /\ responseParser' \in ResponseParsers /\ responseParser'.state = "ChunkSize"
        /\ responseParser'.header_bytes = responseParser.header_bytes
    BY <1>7, <2>2 DEF ResponseParsers
  <2>4. ResponseInv' /\ ResponseWaits' /\ result' \in Results
    BY <1>3, <1>7, <2>3 DEF ResponseInv, ResponseWaits, Results
  <2>5. Takes
    BY <1>7, <2>1 DEF Takes
  <2> QED BY <1>2, <2>4, <2>5, ResponseTurn
<1> QED BY <1>4, <1>5, <1>6, <1>7

LEMMA EofBodyKeeps ==
  ASSUME IInv, side = "response", ParseEofBody, UNCHANGED <<parser, loopVars>>
  PROVE  IInv'
<1> DEFINE count == Len(input.bytes)
           filled == AppendBody(count)
<1>1. /\ responseParser \in ResponseParsers /\ input \in Buffers /\ ResponseInv /\ count \in Nat
      /\ BufferSound(input, limits.max_buffer) /\ limits.max_buffer \in Nat
  BY ResponseTyped
<1>2. Running /\ ResponseFrame /\ responseParser.state = "EofBody"
  BY DEF ParseEofBody
<1>3. \/ ResponseFails("BodyTooLarge") /\ UNCHANGED input
      \/ responseParser' = filled /\ result' = "NeedMore" /\ input' = consume(input, count)
  BY DEF ParseEofBody, readableBytes, Becomes
<1>4. CASE ResponseFails("BodyTooLarge") /\ UNCHANGED input
  BY <1>4, <1>1, ResponseRefused, <1>2, ResponseTurn DEF ResponseErrors, Takes
<1>5. CASE responseParser' = filled /\ result' = "NeedMore" /\ input' = consume(input, count)
  <2>1. count \in 0 .. Len(input.bytes)
    BY <1>1
  <2>2. filled \in ResponseParsers /\ filled.state = "EofBody"
    BY <1>1, <1>2, <2>1, BodyAppended
  <2>3. Len(input'.bytes) = 0
    BY <1>1, <2>1, ConsumeKeeps, <1>5
  <2> HIDE DEF filled
  <2>4. ResponseInv' /\ ResponseWaits' /\ result' \in Results
    BY <1>5, <2>2, <2>3 DEF ResponseInv, ResponseWaits, Results
  <2>5. Takes
    BY <1>5, <2>1 DEF Takes
  <2> QED BY <1>2, <2>4, <2>5, ResponseTurn
<1> QED BY <1>3, <1>4, <1>5

LEMMA NoStatusLineKeeps ==
  ASSUME IInv, side = "response", ParseNoStatusLine, UNCHANGED <<parser, loopVars>>
  PROVE  IInv'
<1> DEFINE state == responseParser.state
           tooMuch == \/ state = "StatusLine" /\ readableBytes(input) > limits.status_line
                      \/ /\ state \in {"Headers", "Trailers"}
                         /\ responseParser.header_bytes + readableBytes(input) > limits.header_bytes
<1>1. /\ responseParser \in ResponseParsers /\ input \in Buffers /\ ResponseInv /\ LoopTyped
      /\ Len(input.bytes) \in Nat /\ responseParser.header_bytes \in Nat
  BY ResponseTyped
<1>2. /\ Running /\ ResponseFrame /\ input' = input /\ Takes
      /\ state \in {"StatusLine", "Headers", "ChunkSize", "Trailers"}
  BY DEF ParseNoStatusLine, InLines, Takes
<1>3. UNCHANGED <<limits, side>>
  BY <1>2 DEF ResponseFrame, loopVars
<1>4. CASE tooMuch
  BY <1>4, <1>1, ResponseRefused, <1>2, ResponseTurn DEF ParseNoStatusLine, ResponseErrors
<1>5. CASE ~tooMuch
  <2>1. responseParser' = responseParser /\ result' = "NeedMore"
    BY <1>5 DEF ParseNoStatusLine, Becomes
  <2>2. ResponseInv' /\ result' \in Results
    BY <1>1, <1>3, <2>1 DEF ResponseInv, Results
  <2>3. limits.status_line \in Nat /\ limits.header_bytes \in Nat
    BY <1>1, LimitsTyped
  <2>4. \/ state = "StatusLine" /\ Len(input.bytes) <= limits.status_line
        \/ /\ state \in {"Headers", "Trailers"}
           /\ responseParser.header_bytes + Len(input.bytes) <= limits.header_bytes
        \/ state = "ChunkSize"
    BY <1>1, <1>2, <1>5, <2>3 DEF readableBytes
  <2>5. ResponseWaits'
    BY <1>2, <1>3, <2>1, <2>4 DEF ResponseWaits
  <2> QED BY <1>2, <2>2, <2>5, ResponseTurn
<1> QED BY <1>4, <1>5

LEMMA ResponseLineTaken ==
  ASSUME IInv, side = "response", TakeResponseLine, UNCHANGED <<parser, loopVars>>
  PROVE  /\ Running /\ Takes /\ ResponseFrame /\ line_bytes \in Nat
         /\ (Meaning(Line) # "empty" => line_bytes >= 1)
<1>1. Running /\ HasLine /\ input' = consume(input, line_bytes + 2) /\ ResponseFrame
  BY DEF TakeResponseLine
<1>2. input \in Buffers
  BY DEF IInv, BufferInv
<1>3. /\ line_bytes \in Nat /\ line_bytes + 2 \in 0 .. Len(input.bytes)
      /\ (Meaning(Line) # "empty" => line_bytes >= 1)
  BY <1>1, <1>2, LineMeans
<1>4. Takes
  BY <1>1, <1>3 DEF Takes
<1> QED BY <1>1, <1>3, <1>4

\* A line that is refused once it has been taken.
LEMMA ResponseLineRefused ==
  ASSUME IInv, side = "response", TakeResponseLine, UNCHANGED <<parser, loopVars>>,
         NEW e \in ResponseErrors, ResponseFails(e)
  PROVE  IInv'
<1>1. ResponseInv
  BY DEF IInv
<1>2. ResponseInv' /\ ResponseWaits' /\ result' \in Results
  BY <1>1, ResponseRefused
<1>3. Running /\ Takes /\ ResponseFrame
  BY ResponseLineTaken
<1> QED BY <1>2, <1>3, ResponseTurn

\* A line that is accepted: the parser q that it makes waits for nothing yet.
LEMMA ResponseLineAccepted ==
  ASSUME IInv, side = "response", TakeResponseLine, UNCHANGED <<parser, loopVars>>,
         NEW q \in ResponseParsers, responseParser' = q, result' \in {"Running", "Complete"},
         q.state \in {"Headers", "ChunkSize", "ChunkBody", "Trailers"} => q.header_bytes >= 3,
         q.state \in {"StatusLine", "Headers"} => q.body = <<>>,
         q.state = "FixedBody" => Len(q.body) <= q.expected_body_bytes
  PROVE  IInv'
<1>1. ResponseInv' /\ ResponseWaits' /\ result' \in Results
  BY DEF ResponseInv, ResponseWaits, Results
<1>2. Running /\ Takes /\ ResponseFrame
  BY ResponseLineTaken
<1> QED BY <1>1, <1>2, ResponseTurn

LEMMA StatusLineKeeps ==
  ASSUME IInv, side = "response", ParseStatusLine, UNCHANGED <<parser, loopVars>>
  PROVE  IInv'
<1>1. responseParser \in ResponseParsers /\ ResponseInv
  BY ResponseTyped
<1>2. TakeResponseLine /\ responseParser.state = "StatusLine" /\ responseParser.body = <<>>
  BY <1>1 DEF ParseStatusLine, ResponseInv
<1>3. line_bytes \in Nat /\ (Meaning(Line) # "empty" => line_bytes >= 1)
  BY <1>2, ResponseLineTaken
<1> DEFINE bytes == line_bytes + 2
           q == [responseParser EXCEPT !.state = "Headers", !.status = Meaning(Line),
                                       !.header_bytes = bytes]
<1>4. \/ ResponseFails("HeaderTooLarge") \/ ResponseFails("BadResponse")
      \/ Meaning(Line) \in Statuses /\ responseParser' = q /\ result' = "Running"
  BY DEF ParseStatusLine, Becomes
<1>5. CASE ResponseFails("HeaderTooLarge") \/ ResponseFails("BadResponse")
  BY <1>2, <1>5, ResponseLineRefused DEF ResponseErrors
<1>6. CASE Meaning(Line) \in Statuses /\ responseParser' = q /\ result' = "Running"
  <2>1. bytes \in Nat /\ bytes >= 3
    <3>1. Meaning(Line) # "empty"
      BY <1>6 DEF Statuses
    <3> HIDE DEF line_bytes
    <3> QED BY <1>3, <3>1
  <2> HIDE DEF bytes
  <2>2. /\ q \in ResponseParsers /\ q.state = "Headers" /\ q.header_bytes >= 3 /\ q.body = <<>>
    BY <1>1, <1>2, <1>6, <2>1 DEF ResponseParsers
  <2> HIDE DEF q
  <2>3. result' \in {"Running", "Complete"}
    BY <1>6
  <2> QED BY <1>2, <1>6, <2>2, <2>3, ResponseLineAccepted
<1> QED BY <1>4, <1>5, <1>6

LEMMA ChunkSizeKeeps ==
  ASSUME IInv, side = "response", ParseChunkSize, UNCHANGED <<parser, loopVars>>
  PROVE  IInv'
<1>1. responseParser \in ResponseParsers /\ ResponseInv
  BY ResponseTyped
<1>2. TakeResponseLine /\ responseParser.state = "ChunkSize" /\ responseParser.header_bytes >= 3
  BY <1>1 DEF ParseChunkSize, ResponseInv
<1> DEFINE size == Number[Meaning(Line)]
           state == IF size = 0 THEN "Trailers" ELSE "ChunkBody"
           q == [responseParser EXCEPT !.chunk_bytes = size, !.state = state]
<1>3. \/ ResponseFails("BadResponse")
      \/ Meaning(Line) \in DOMAIN Number /\ responseParser' = q /\ result' = "Running"
  BY DEF ParseChunkSize, Becomes
<1>4. CASE ResponseFails("BadResponse")
  BY <1>2, <1>4, ResponseLineRefused DEF ResponseErrors
<1>5. CASE Meaning(Line) \in DOMAIN Number /\ responseParser' = q /\ result' = "Running"
  <2>1. size \in Nat
    BY <1>5, NumbersAreNat
  <2>2. state \in {"Trailers", "ChunkBody"}
    OBVIOUS
  <2> HIDE DEF size, state
  <2>3. /\ q \in ResponseParsers /\ q.state \in {"Trailers", "ChunkBody"} /\ q.header_bytes >= 3
    BY <1>1, <1>2, <2>1, <2>2 DEF ResponseParsers
  <2> HIDE DEF q
  <2>4. result' \in {"Running", "Complete"}
    BY <1>5
  <2> QED BY <1>2, <1>5, <2>3, <2>4, ResponseLineAccepted
<1> QED BY <1>3, <1>4, <1>5

\* The parser with the bytes of one more line counted.
LEMMA Counted ==
  ASSUME responseParser \in ResponseParsers, responseParser.header_bytes >= 3, line_bytes \in Nat,
         NEW q, q = [responseParser EXCEPT !.header_bytes = header_bytes_with_line]
  PROVE  /\ q \in ResponseParsers /\ q.header_bytes >= 3 /\ q.state = responseParser.state
         /\ q.body = responseParser.body
<1>1. responseParser.header_bytes \in Nat
  BY DEF ResponseParsers
<1>2. header_bytes_with_line \in Nat /\ header_bytes_with_line >= 3
  <2> HIDE DEF line_bytes
  <2> QED BY <1>1 DEF header_bytes_with_line
<1> HIDE DEF header_bytes_with_line
<1> QED BY <1>2 DEF ResponseParsers

LEMMA TrailerKeeps ==
  ASSUME IInv, side = "response", ParseTrailer, UNCHANGED <<parser, loopVars>>
  PROVE  IInv'
<1> DEFINE counted == [responseParser EXCEPT !.header_bytes = header_bytes_with_line]
           done == [counted EXCEPT !.state = "Complete"]
<1>1. responseParser \in ResponseParsers /\ ResponseInv
  BY ResponseTyped
<1>2. TakeResponseLine /\ responseParser.state = "Trailers" /\ responseParser.header_bytes >= 3
  BY <1>1 DEF ParseTrailer, ResponseInv
<1>3. line_bytes \in Nat
  BY <1>2, ResponseLineTaken
<1>4. counted \in ResponseParsers /\ counted.header_bytes >= 3 /\ counted.state = "Trailers"
  BY <1>1, <1>2, <1>3, Counted
<1>5. \/ ResponseFails("HeaderTooLarge") \/ ResponseFails("BadResponse")
      \/ responseParser' = done /\ result' = "Complete"
      \/ responseParser' = counted /\ result' = "Running"
  BY DEF ParseTrailer, Becomes
<1> HIDE DEF counted
<1>6. CASE ResponseFails("HeaderTooLarge") \/ ResponseFails("BadResponse")
  BY <1>2, <1>6, ResponseLineRefused DEF ResponseErrors
<1>7. CASE responseParser' = done /\ result' = "Complete"
  <2>1. done \in ResponseParsers /\ done.state = "Complete"
    BY <1>4 DEF ResponseParsers
  <2> HIDE DEF done
  <2> QED BY <1>2, <1>7, <2>1, ResponseLineAccepted
<1>8. CASE responseParser' = counted /\ result' = "Running"
  BY <1>2, <1>4, <1>8, ResponseLineAccepted
<1> QED BY <1>5, <1>6, <1>7, <1>8

LEMMA ResponseHeaderKeeps ==
  ASSUME IInv, side = "response", ParseResponseHeader, UNCHANGED <<parser, loopVars>>
  PROVE  IInv'
<1> DEFINE counted == [responseParser EXCEPT !.header_bytes = header_bytes_with_line]
           headers == Append(responseParser.headers, Meaning(Line))
           q == [counted EXCEPT !.headers = headers]
<1>1. responseParser \in ResponseParsers /\ ResponseInv
  BY ResponseTyped
<1>2. /\ TakeResponseLine /\ responseParser.state = "Headers" /\ responseParser.header_bytes >= 3
      /\ responseParser.body = <<>>
  BY <1>1 DEF ParseResponseHeader, ResponseInv
<1>3. line_bytes \in Nat
  BY <1>2, ResponseLineTaken
<1>4. /\ counted \in ResponseParsers /\ counted.header_bytes >= 3 /\ counted.state = "Headers"
      /\ counted.body = <<>>
  BY <1>1, <1>2, <1>3, Counted
<1>5. \/ ResponseFails("HeaderTooLarge") \/ ResponseFails("BadResponse")
      \/ /\ Meaning(Line) \in ResponseHeaderNames /\ result' = "Running"
         /\ responseParser' = [responseParser EXCEPT !.headers = headers,
                                                     !.header_bytes = header_bytes_with_line]
  BY DEF ParseResponseHeader, Becomes
<1>6. CASE ResponseFails("HeaderTooLarge") \/ ResponseFails("BadResponse")
  <2>1. "HeaderTooLarge" \in ResponseErrors /\ "BadResponse" \in ResponseErrors
    BY DEF ResponseErrors
  <2> QED BY <1>2, <1>6, <2>1, ResponseLineRefused
<1>7. CASE /\ Meaning(Line) \in ResponseHeaderNames /\ result' = "Running"
           /\ responseParser' = [responseParser EXCEPT !.headers = headers,
                                                       !.header_bytes = header_bytes_with_line]
  <2>1. headers \in Seq(ResponseHeaderNames)
    BY <1>1, <1>7 DEF ResponseParsers
  <2> HIDE DEF headers
  <2>2. responseParser' = q
    <3> HIDE DEF header_bytes_with_line
    <3> QED BY <1>1, <1>7 DEF ResponseParsers
  <2> HIDE DEF counted
  <2>3. /\ q \in ResponseParsers /\ q.state = "Headers" /\ q.header_bytes >= 3 /\ q.body = <<>>
    BY <1>4, <2>1 DEF ResponseParsers
  <2> HIDE DEF q
  <2>4. result' \in {"Running", "Complete"}
    BY <1>7
  <2> QED BY <1>2, <2>2, <2>3, <2>4, ResponseLineAccepted
<1> QED BY <1>5, <1>6, <1>7

\* What finishHeaders makes of an accepted head.
LEMMA FramedTyped ==
  ASSUME NEW c \in ResponseParsers, c.header_bytes >= 3, c.state = "Headers", c.body = <<>>,
         FramingError(c) = "none"
  PROVE  /\ Framed(c) \in ResponseParsers
         /\ Framed(c).state \in {"Headers", "ChunkSize", "ChunkBody", "Trailers"}
               => Framed(c).header_bytes >= 3
         /\ Framed(c).body = <<>>
<1>1. CASE c.status = "s100"
  <2>1. c.head_request \in BOOLEAN
    BY DEF ResponseParsers
  <2>2. Framed(c) = NewResponseParser(c.head_request)
    BY <1>1 DEF Framed
  <2>3. <<>> \in Seq(ResponseHeaderNames) /\ <<>> \in Seq(STRING)
    OBVIOUS
  <2>4. NewResponseParser(c.head_request) \in ResponseParsers
    BY <2>1, <2>3 DEF NewResponseParser, ResponseParsers
  <2>5. /\ NewResponseParser(c.head_request).state = "StatusLine"
        /\ NewResponseParser(c.head_request).body = <<>>
    BY DEF NewResponseParser
  <2> QED BY <2>2, <2>4, <2>5
<1>2. CASE c.status # "s100" /\ (c.head_request \/ c.status = "s204")
  <2>1. Framed(c) = [c EXCEPT !.state = "Complete"]
    BY <1>2 DEF Framed
  <2> QED BY <2>1 DEF ResponseParsers
<1>3. CASE c.status # "s100" /\ ~(c.head_request \/ c.status = "s204") /\ Transfers(c) # {}
  <2>1. Framed(c) = [c EXCEPT !.state = "ChunkSize"]
    BY <1>3 DEF Framed
  <2> QED BY <2>1 DEF ResponseParsers
<1>4. CASE /\ c.status # "s100" /\ ~(c.head_request \/ c.status = "s204") /\ Transfers(c) = {}
           /\ Lengths(c) = {}
  <2>1. Framed(c) = [c EXCEPT !.state = "EofBody", !.eof_delimited = TRUE]
    BY <1>4 DEF Framed
  <2> QED BY <2>1 DEF ResponseParsers
<1>5. CASE /\ c.status # "s100" /\ ~(c.head_request \/ c.status = "s204") /\ Transfers(c) = {}
           /\ Lengths(c) # {}
  <2> DEFINE length == Number[BodyLength(c)]
             state == IF length = 0 THEN "Complete" ELSE "FixedBody"
  <2>1. Framed(c) = [c EXCEPT !.expected_body_bytes = length, !.state = state]
    BY <1>5 DEF Framed
  <2>2. BodyLength(c) # "badlength"
    BY <1>5 DEF FramingError
  <2>3. BodyLength(c) \in LengthNames
    <3>1. c.headers \in Seq(ResponseHeaderNames)
      BY DEF ResponseParsers
    <3> QED BY <1>5, <3>1, FirstIsOne DEF BodyLength, Lengths
  <2>4. length \in Nat
    BY <2>2, <2>3, NumbersAreNat DEF LengthNames
  <2>5. state \in {"Complete", "FixedBody"}
    OBVIOUS
  <2> HIDE DEF length, state
  <2> QED BY <2>1, <2>4, <2>5 DEF ResponseParsers
<1> QED BY <1>1, <1>2, <1>3, <1>4, <1>5

LEMMA FinishResponseHeadersKeeps ==
  ASSUME IInv, side = "response", FinishResponseHeaders, UNCHANGED <<parser, loopVars>>
  PROVE  IInv'
<1> DEFINE counted == [responseParser EXCEPT !.header_bytes = header_bytes_with_line]
           q == Framed(counted)
<1>1. responseParser \in ResponseParsers /\ ResponseInv
  BY ResponseTyped
<1>2. /\ TakeResponseLine /\ responseParser.state = "Headers" /\ responseParser.header_bytes >= 3
      /\ responseParser.body = <<>>
  BY <1>1 DEF FinishResponseHeaders, ResponseInv
<1>3. line_bytes \in Nat
  BY <1>2, ResponseLineTaken
<1>4. /\ counted \in ResponseParsers /\ counted.header_bytes >= 3 /\ counted.state = "Headers"
      /\ counted.body = <<>>
  BY <1>1, <1>2, <1>3, Counted
<1>5. \/ ResponseFails("HeaderTooLarge")
      \/ FramingError(counted) # "none" /\ ResponseFails(FramingError(counted))
      \/ /\ FramingError(counted) = "none" /\ responseParser' = q
         /\ result' = IF q.state = "Complete" THEN "Complete" ELSE "Running"
  BY DEF FinishResponseHeaders, Becomes
<1> HIDE DEF counted
<1>6. CASE ResponseFails("HeaderTooLarge")
  BY <1>2, <1>6, ResponseLineRefused DEF ResponseErrors
<1>7. CASE FramingError(counted) # "none" /\ ResponseFails(FramingError(counted))
  BY <1>7, <1>2, ResponseLineRefused DEF FramingError, ResponseErrors
<1>8. CASE /\ FramingError(counted) = "none" /\ responseParser' = q
           /\ result' = IF q.state = "Complete" THEN "Complete" ELSE "Running"
  <2>1. /\ q \in ResponseParsers /\ q.body = <<>>
        /\ q.state \in {"Headers", "ChunkSize", "ChunkBody", "Trailers"} => q.header_bytes >= 3
    BY <1>4, <1>8, FramedTyped
  <2>2. Len(q.body) <= q.expected_body_bytes
    BY <2>1 DEF ResponseParsers
  <2>3. result' \in {"Running", "Complete"}
    BY <1>8
  <2> HIDE DEF q
  <2> QED BY <1>2, <1>8, <2>1, <2>2, <2>3, ResponseLineAccepted
<1> QED BY <1>5, <1>6, <1>7, <1>8

LEMMA ParseResponseStepKeeps ==
  ASSUME IInv, side = "response", ParseResponseStep, UNCHANGED <<parser, loopVars>>
  PROVE  IInv'
BY FixedBodyKeeps, ChunkBodyKeeps, EofBodyKeeps, NoStatusLineKeeps, StatusLineKeeps, ChunkSizeKeeps,
   TrailerKeeps, ResponseHeaderKeeps, FinishResponseHeadersKeeps DEF ParseResponseStep

-----------------------------------------------------------------------------
(* The read loops *)

\* A read starts, or there is no room for it and the coroutine ends.
LEMMA StartReadKeeps ==
  ASSUME IInv, StartRead, UNCHANGED <<parser, responseParser, side>>
  PROVE  IInv'
<1>1. /\ pc = "parse" /\ result = "NeedMore" /\ UNCHANGED <<limits, wire, sent, result>>
      /\ LoopTyped /\ BufferInv
  BY DEF StartRead, IInv
<1>2. /\ limits.read_chunk \in Nat \ {0} /\ limits.max_buffer \in Nat
      /\ limits.read_chunk <= limits.max_buffer
  BY <1>1, LimitsTyped
<1>3. RequestInv' /\ ResponseInv'
  BY <1>1 DEF IInv, RequestInv, ResponseInv
<1>4. CASE PrepareThrows(input, limits.read_chunk, limits.max_buffer)
  <2>1. pc' = "failed" /\ input' = input
    BY <1>4 DEF StartRead
  <2>2. LoopTyped' /\ BufferInv'
    BY <1>1, <2>1 DEF LoopTyped, BufferInv
  <2>3. RequestWaits' /\ ResponseWaits'
    BY <1>1, <2>1 DEF IInv, RequestWaits, ResponseWaits
  <2>4. FailedInv'
    BY <1>1, <1>4, <2>1 DEF FailedInv
  <2> QED BY <1>3, <2>2, <2>3, <2>4 DEF IInv
<1>5. CASE ~PrepareThrows(input, limits.read_chunk, limits.max_buffer)
  <2>1. pc' = "read" /\ input' = prepare(input, limits.read_chunk, limits.max_buffer)
    BY <1>5 DEF StartRead
  <2>2. input \in Buffers /\ BufferSound(input, limits.max_buffer)
    BY <1>1 DEF BufferInv
  <2>3. input' \in Buffers /\ BufferSound(input', limits.max_buffer) /\ input'.bytes = input.bytes
    BY <1>2, <1>5, <2>1, <2>2, PrepareKeeps
  <2>4. LoopTyped' /\ BufferInv' /\ FailedInv'
    BY <1>1, <2>1, <2>3 DEF LoopTyped, BufferInv, FailedInv
  <2>5. RequestWaits' /\ ResponseWaits'
    BY <1>1, <2>3 DEF IInv, RequestWaits, ResponseWaits
  <2> QED BY <1>3, <2>4, <2>5 DEF IInv
<1> QED BY <1>4, <1>5

LEMMA ReceiveKeeps ==
  ASSUME IInv, NEW count, Receive(count), UNCHANGED <<parser, responseParser, side>>
  PROVE  IInv'
<1> DEFINE received == SubSeq(wire, sent + 1, sent + count)
<1>1. /\ pc = "read" /\ count \in 1 .. Min({input.prepared, Len(wire) - sent})
      /\ input' = commit(input, received) /\ sent' = sent + count
      /\ pc' = "parse" /\ result' = "Running" /\ UNCHANGED <<limits, wire>>
  BY DEF Receive
<1>2. /\ LoopTyped /\ input \in Buffers /\ BufferSound(input, limits.max_buffer)
      /\ wire \in Seq(STRING) /\ sent \in 0 .. Len(wire) /\ Len(wire) \in Nat
  BY DEF IInv, LoopTyped, BufferInv
<1>3. input.prepared \in Nat /\ limits.max_buffer \in Nat
  BY <1>2, LimitsTyped DEF Buffers
<1>4. count \in Nat /\ count <= input.prepared /\ count <= Len(wire) - sent
  <2> DEFINE left == Len(wire) - sent
             most == Min({input.prepared, left})
  <2>1. input.prepared \in Int /\ left \in Int
    BY <1>2, <1>3
  <2>2. count \in 1 .. most
    BY <1>1
  <2> HIDE DEF left
  <2>3. most \in {input.prepared, left} /\ most <= input.prepared /\ most <= left
    BY <2>1, Extremes
  <2> HIDE DEF most
  <2>4. count \in Nat /\ count <= most /\ most \in Int
    BY <2>1, <2>2, <2>3
  <2>5. count <= input.prepared /\ count <= left
    BY <2>1, <2>3, <2>4
  <2> QED BY <2>4, <2>5 DEF left
<1>5. received \in Seq(STRING) /\ Len(received) = count
  BY <1>2, <1>4
<1> HIDE DEF received
<1>6. input' \in Buffers /\ BufferSound(input', limits.max_buffer) /\ input'.prepared = 0
  BY <1>1, <1>2, <1>3, <1>4, <1>5, CommitKeeps
<1>7. sent + count \in 0 .. Len(wire)
  BY <1>2, <1>4
<1>8. LoopTyped'
  BY <1>1, <1>2, <1>7 DEF LoopTyped
<1>9. BufferInv' /\ RequestWaits' /\ ResponseWaits' /\ FailedInv'
  BY <1>1, <1>6 DEF BufferInv, RequestWaits, ResponseWaits, FailedInv
<1>10. RequestInv' /\ ResponseInv'
  BY <1>1 DEF IInv, RequestInv, ResponseInv
<1> QED BY <1>8, <1>9, <1>10 DEF IInv

\* The steps that end a session or a transaction.
LEMMA ClosedKeeps ==
  ASSUME IInv, pc' = "closed",
         UNCHANGED <<limits, wire, sent, input, result, parser, responseParser, side>>
  PROVE  IInv'
<1>1. LoopTyped' /\ BufferInv' /\ FailedInv'
  BY DEF IInv, LoopTyped, BufferInv, FailedInv
<1>2. RequestInv' /\ ResponseInv'
  BY DEF IInv, RequestInv, ResponseInv
<1>3. RequestWaits' /\ ResponseWaits'
  BY DEF IInv, RequestWaits, ResponseWaits
<1> QED BY <1>1, <1>2, <1>3 DEF IInv

LEMMA NewParserTyped ==
  NewParser \in Parsers /\ NewParser.state = "RequestLine"
<1>1. <<>> \in Seq(HeaderNames) /\ <<>> \in Seq(STRING)
  OBVIOUS
<1> QED BY <1>1 DEF NewParser, Parsers

LEMMA NewResponseParserTyped ==
  ASSUME NEW head \in BOOLEAN
  PROVE  /\ NewResponseParser(head) \in ResponseParsers
         /\ NewResponseParser(head).state = "StatusLine" /\ NewResponseParser(head).body = <<>>
<1>1. <<>> \in Seq(ResponseHeaderNames) /\ <<>> \in Seq(STRING)
  OBVIOUS
<1> QED BY <1>1 DEF NewResponseParser, ResponseParsers

LEMMA HandleRequestKeeps ==
  ASSUME IInv, HandleRequest
  PROVE  IInv'
<1>1. /\ side = "request" /\ pc = "parse"
      /\ UNCHANGED <<limits, wire, sent, input, responseParser, side>>
  BY DEF HandleRequest
<1>2. CASE keepAlive(parser)
  <2>1. pc' = "parse" /\ result' = "Running" /\ parser' = NewParser
    BY <1>2 DEF HandleRequest
  <2>2. LoopTyped' /\ BufferInv' /\ FailedInv'
    BY <1>1, <2>1 DEF IInv, LoopTyped, BufferInv, FailedInv
  <2>3. RequestInv' /\ RequestWaits' /\ ResponseInv' /\ ResponseWaits'
    BY <1>1, <2>1, NewParserTyped DEF RequestInv, RequestWaits, ResponseInv, ResponseWaits
  <2> QED BY <2>2, <2>3 DEF IInv
<1>3. CASE ~keepAlive(parser)
  BY <1>3, <1>1, ClosedKeeps DEF HandleRequest
<1> QED BY <1>2, <1>3

LEMMA UpstreamClosesKeeps ==
  ASSUME IInv, UpstreamCloses
  PROVE  IInv'
<1>1. /\ side = "response" /\ pc' = "closed" /\ finishOnEof
      /\ UNCHANGED <<limits, wire, sent, input, parser, side>>
      /\ responseParser \in ResponseParsers
  BY DEF UpstreamCloses, IInv, ResponseInv
<1>2. /\ result' \in {"Complete", "PrematureEof"}
      /\ \E s \in {"Complete", "Error"} : responseParser' = [responseParser EXCEPT !.state = s]
  BY <1>1 DEF finishOnEof, Becomes, ResponseFails
<1>3. responseParser' \in ResponseParsers /\ responseParser'.state \in {"Complete", "Error"}
  BY <1>1, <1>2 DEF ResponseParsers
<1>4. result' \in Results /\ result' # "NeedMore"
  BY <1>2 DEF Results, ResponseErrors
<1>5. LoopTyped' /\ BufferInv' /\ FailedInv'
  BY <1>1, <1>4 DEF IInv, LoopTyped, BufferInv, FailedInv, Results
<1>6. RequestInv' /\ RequestWaits' /\ ResponseInv' /\ ResponseWaits'
  BY <1>1, <1>3, <1>4 DEF RequestInv, RequestWaits, ResponseInv, ResponseWaits
<1> QED BY <1>5, <1>6 DEF IInv

-----------------------------------------------------------------------------
(* The theorems *)

LEMMA InitLimits ==
  ASSUME Init
  PROVE  /\ side \in {"request", "response"}
         /\ limits \in IF side = "request" THEN ServerLimits ELSE ClientLimits
         /\ limits.read_chunk <= limits.max_buffer
         /\ wire \in Seq(STRING)
<1>1. CASE side = "request"
  <2>1. messages \in RequestStreams /\ \E c \in SessionSettings : limits = SessionLimitsFromConfig(c)
    BY <1>1 DEF Init
  <2>2. PICK c \in SessionSettings : limits = SessionLimitsFromConfig(c)
    BY <2>1
  <2> DEFINE most == Max({c.body + c.header_bytes, c.read_chunk})
  <2>3. c \in ServerLimits
    BY SettingsAccepted
  <2>4. c.body + c.header_bytes \in Nat /\ c.read_chunk \in Nat /\ c.read_chunk \in Nat \ {0}
    BY <2>3 DEF ServerLimits
  <2>5. most \in Nat /\ c.read_chunk <= most
    <3> DEFINE both == c.body + c.header_bytes
    <3>1. both \in Int /\ c.read_chunk \in Int /\ both \in Nat
      BY <2>4
    <3>2. most = Max({both, c.read_chunk})
      OBVIOUS
    <3> HIDE DEF both, most
    <3>3. most \in {both, c.read_chunk} /\ most >= c.read_chunk
      BY <3>1, <3>2, Extremes
    <3> QED BY <2>4, <3>1, <3>3
  <2>6. limits = [c EXCEPT !.max_buffer = most]
    BY <2>2 DEF SessionLimitsFromConfig
  <2> HIDE DEF most
  <2>7. limits \in ServerLimits /\ limits.read_chunk <= limits.max_buffer
    BY <2>3, <2>5, <2>6 DEF ServerLimits
  <2>8. wire \in Seq(STRING)
    BY <2>1, StreamsOfBytes DEF Init
  <2> QED BY <1>1, <2>7, <2>8
<1>2. CASE side = "response"
  BY <1>2, SettingsAccepted, StreamsOfBytes DEF Init
<1> QED BY <1>1, <1>2 DEF Init

LEMMA InitHolds ==
  ASSUME Init
  PROVE  IInv
<1>1. pc = "parse" /\ result = "Running" /\ sent = 0 /\ input = EmptyBuffer(limits.read_chunk)
      /\ parser = NewParser
  BY DEF Init
<1>2. LoopTyped
  <2>1. Len(wire) \in Nat
    BY InitLimits
  <2>2. sent \in 0 .. Len(wire)
    BY <1>1, <2>1
  <2> QED BY <1>1, <2>2, InitLimits DEF LoopTyped
<1>3. limits.read_chunk \in Nat /\ limits.max_buffer \in Nat /\ limits.read_chunk <= limits.max_buffer
  BY <1>2, LimitsTyped
<1>4. BufferInv
  BY <1>1, <1>3, NewBuffer DEF BufferInv
<1>5. RequestInv /\ RequestWaits /\ ResponseWaits /\ FailedInv
  BY <1>1, NewParserTyped DEF RequestInv, RequestWaits, ResponseWaits, FailedInv
<1>6. ResponseInv
  <2>1. SUFFICES ASSUME side = "response" PROVE ResponseInv
    BY DEF ResponseInv
  <2>2. PICK head \in BOOLEAN : responseParser = NewResponseParser(head)
    BY <2>1 DEF Init
  <2> QED BY <2>2, NewResponseParserTyped DEF ResponseInv
<1> QED BY <1>2, <1>4, <1>5, <1>6 DEF IInv

LEMMA NextKeeps ==
  ASSUME IInv, [Next]_vars
  PROVE  IInv'
<1>1. CASE side = "request" /\ ParseStep /\ UNCHANGED <<responseParser, loopVars>>
  BY <1>1, ParseStepKeeps
<1>2. CASE ReadRequest
  BY <1>2, StartReadKeeps DEF ReadRequest
<1>3. CASE ReadEnds
  BY <1>3, ClosedKeeps DEF ReadEnds
<1>4. CASE HandleRequest
  BY <1>4, HandleRequestKeeps
<1>5. CASE RefuseRequest
  <2>1. pc' = "closed" /\ UNCHANGED <<limits, wire, sent, input, result, parser, responseParser, side>>
    BY <1>5 DEF RefuseRequest
  <2> QED BY <2>1, ClosedKeeps
<1>6. ASSUME NEW count \in 1 .. input.prepared, ReceiveRequest(count)
      PROVE  IInv'
  BY <1>6, ReceiveKeeps DEF ReceiveRequest
<1>7. CASE side = "response" /\ ParseResponseStep /\ UNCHANGED <<parser, loopVars>>
  BY <1>7, ParseResponseStepKeeps
<1>8. CASE ReadResponse
  BY <1>8, StartReadKeeps DEF ReadResponse, loopVars
<1>9. CASE UpstreamCloses
  BY <1>9, UpstreamClosesKeeps
<1>10. CASE EndResponse
  <2>1. pc' = "closed" /\ UNCHANGED <<limits, wire, sent, input, result, parser, responseParser, side>>
    BY <1>10 DEF EndResponse
  <2> QED BY <2>1, ClosedKeeps
<1>11. ASSUME NEW count \in 1 .. input.prepared, ReceiveResponse(count)
       PROVE  IInv'
  BY <1>11, ReceiveKeeps DEF ReceiveResponse, loopVars
<1>12. CASE UNCHANGED vars
  <2>1. UNCHANGED <<limits, wire, sent, input, result, pc, parser, responseParser, side>>
    BY <1>12 DEF vars, readerVars, loopVars
  <2>2. LoopTyped' /\ BufferInv' /\ FailedInv'
    BY <2>1 DEF IInv, LoopTyped, BufferInv, FailedInv
  <2>3. RequestInv' /\ ResponseInv'
    BY <2>1 DEF IInv, RequestInv, ResponseInv
  <2>4. RequestWaits' /\ ResponseWaits'
    BY <2>1 DEF IInv, RequestWaits, ResponseWaits
  <2> QED BY <2>2, <2>3, <2>4 DEF IInv
<1> QED BY <1>1, <1>2, <1>3, <1>4, <1>5, <1>6, <1>7, <1>8, <1>9, <1>10, <1>11, <1>12
  DEF Next, SessionNext, ProxyNext

\* Whatever the peers send and however the network cuts it, every state of the two
\* read loops satisfies the inductive invariant.
THEOREM Inductive == Spec => []IInv
BY InitHolds, NextKeeps, PTL DEF Spec

\* The buffer's indices stay inside its storage and the storage inside its limit,
\* for every configuration that the constructors accept and every stream.
THEOREM Typed == Spec => []TypeOK
<1>1. IInv => TypeOK
  BY DEF IInv, LoopTyped, BufferInv, TypeOK
<1> QED BY <1>1, Inductive, PTL

\* prepare throws only where the buffer is too small for what the parser may be
\* waiting for, or in one of the two states of a chunked response whose input has
\* no limit (the chunk-size line, and a chunk larger than the body limit).
THEOREM Room == Spec => []RoomToRead
<1>1. IInv => RoomToRead
  <2> SUFFICES ASSUME IInv, pc = "failed" PROVE RoomToRead
    BY DEF RoomToRead
  <2> DEFINE readable == Len(input.bytes)
             free == limits.max_buffer - limits.read_chunk
  <2>1. /\ LoopTyped /\ input \in Buffers /\ input.prepared = 0 /\ result = "NeedMore"
        /\ PrepareThrows(input, limits.read_chunk, limits.max_buffer)
    BY DEF IInv, BufferInv, FailedInv
  <2>2. /\ limits.read_chunk \in Nat /\ limits.max_buffer \in Nat /\ limits.header_bytes \in Nat
        /\ limits.body \in Nat /\ limits.read_chunk <= limits.max_buffer
        /\ (side = "request" => limits.request_line \in Nat)
        /\ (side = "response" => limits.status_line \in Nat)
    BY <2>1, LimitsTyped
  <2>3. readable \in Nat /\ free \in Nat /\ readable > free
    <3>1. readable \in Nat
      BY <2>1 DEF Buffers
    <3>2. readable > free
      BY <2>1, <2>2, <3>1 DEF PrepareThrows, readableBytes
    <3> QED BY <2>2, <3>1, <3>2
  <2>4. CASE side = "request"
    <3> SUFFICES ASSUME AmpleForRequest PROVE FALSE
      BY <2>4 DEF RoomToRead
    <3>1. free >= limits.request_line /\ free >= limits.header_bytes - 3 /\ free >= limits.body - 1
      BY DEF AmpleForRequest, RoomFor
    <3>2. /\ parser \in Parsers
          /\ parser.state = "Headers" => parser.header_bytes >= 3
          /\ parser.state = "Body" => parser.expected_body_bytes <= limits.body
      BY <2>4 DEF IInv, RequestInv
    <3>3. parser.header_bytes \in Nat /\ parser.expected_body_bytes \in Nat
      BY <3>2 DEF Parsers
    <3>4. \/ parser.state = "RequestLine" /\ readable <= limits.request_line
          \/ parser.state = "Headers" /\ parser.header_bytes + readable <= limits.header_bytes
          \/ parser.state = "Body" /\ readable < parser.expected_body_bytes
      BY <2>1, <2>4 DEF IInv, RequestWaits
    <3> HIDE DEF readable, free
    <3> QED BY <2>2, <2>3, <2>4, <3>1, <3>2, <3>3, <3>4
  <2>5. CASE side = "response"
    <3> SUFFICES ASSUME AmpleForResponse, responseParser.state # "ChunkSize",
                        ~(responseParser.state = "ChunkBody" /\ responseParser.chunk_bytes > limits.body)
                 PROVE  FALSE
      BY <2>5 DEF RoomToRead
    <3>1. free >= limits.status_line /\ free >= limits.header_bytes - 3 /\ free >= limits.body + 1
      BY DEF AmpleForResponse, RoomFor
    <3>2. /\ responseParser \in ResponseParsers
          /\ responseParser.state \in {"Headers", "ChunkSize", "ChunkBody", "Trailers"}
                => responseParser.header_bytes >= 3
      BY <2>5 DEF IInv, ResponseInv
    <3>3. responseParser.header_bytes \in Nat /\ responseParser.chunk_bytes \in Nat
      BY <3>2 DEF ResponseParsers
    <3>4. \/ responseParser.state = "StatusLine" /\ readable <= limits.status_line
          \/ /\ responseParser.state \in {"Headers", "Trailers"}
             /\ responseParser.header_bytes + readable <= limits.header_bytes
          \/ responseParser.state = "ChunkBody" /\ readable < responseParser.chunk_bytes + 2
          \/ responseParser.state \in {"FixedBody", "EofBody"} /\ readable = 0
      BY <2>1, <2>5 DEF IInv, ResponseWaits
    <3> HIDE DEF readable, free
    <3> QED BY <2>2, <2>3, <2>5, <3>1, <3>2, <3>3, <3>4
  <2> QED BY <2>1, <2>4, <2>5 DEF LoopTyped
<1> QED BY <1>1, Inductive, PTL

-----------------------------------------------------------------------------
(* Sequences of sequences, end to end *)

LEMMA AllNaturals ==
  ASSUME NEW T, 0 \in T, \A n \in Nat : n \in T => n + 1 \in T
  PROVE  \A n \in Nat : n \in T
<1> DEFINE Bad == {n \in Nat : n \notin T}
<1>1. ASSUME Bad # {} PROVE FALSE
  <2>1. Bad \subseteq Nat
    OBVIOUS
  <2> DEFINE m == Min(Bad)
  <2>2. m \in Bad /\ \A n \in Bad : m <= n
    BY <1>1, <2>1, SmallestOf
  <2> HIDE DEF m
  <2>3. m # 0 /\ m \in Nat
    BY <2>2
  <2>4. m - 1 \in Nat /\ ~(m <= m - 1) /\ (m - 1) + 1 = m
    BY <2>3
  <2>5. m - 1 \in T
    BY <2>2, <2>4
  <2> QED BY <2>2, <2>4, <2>5
<1> QED BY <1>1

\* f is the function that FlattenSeq recurs with.
Flattens(f, seqs) ==
    f = [i \in 1 .. Len(seqs) |-> IF i = 1 THEN seqs[i] ELSE f[i - 1] \o seqs[i]]

LEMMA FlattensExists ==
  ASSUME NEW S, NEW seqs \in Seq(Seq(S))
  PROVE  \E f \in [1 .. Len(seqs) -> Seq(S)] : Flattens(f, seqs)
<1> DEFINE l == Len(seqs)
           Up(f, n) == \A i \in 1 .. n : f[i] = IF i = 1 THEN seqs[i] ELSE f[i - 1] \o seqs[i]
           Good(n) == n <= l => \E f \in [1 .. n -> Seq(S)] : Up(f, n)
           T == {n \in Nat : Good(n)}
<1>1. l \in Nat /\ \A i \in 1 .. l : seqs[i] \in Seq(S)
  OBVIOUS
<1> HIDE DEF l
<1>2. 0 \in T
  <2>1. [i \in 1 .. 0 |-> <<>>] \in [1 .. 0 -> Seq(S)] /\ Up([i \in 1 .. 0 |-> <<>>], 0)
    OBVIOUS
  <2>2. Good(0)
    BY <2>1
  <2> QED BY <2>2
<1>3. ASSUME NEW n \in Nat, n \in T PROVE n + 1 \in T
  <2>1. SUFFICES ASSUME n + 1 <= l PROVE \E f \in [1 .. n + 1 -> Seq(S)] : Up(f, n + 1)
    <3> DEFINE goal == \E f \in [1 .. n + 1 -> Seq(S)] : Up(f, n + 1)
    <3>1. (n + 1 <= l => goal) => Good(n + 1)
      OBVIOUS
    <3> HIDE DEF Good, goal
    <3>2. (n + 1 <= l => goal) => n + 1 \in T
      BY <3>1
    <3> QED BY <3>2 DEF goal
  <2>7. Good(n)
    <3> HIDE DEF Good
    <3> QED BY <1>3
  <2>2. PICK f \in [1 .. n -> Seq(S)] : Up(f, n)
    BY <1>1, <2>1, <2>7
  <2> DEFINE last == IF n = 0 THEN seqs[n + 1] ELSE f[n] \o seqs[n + 1]
             g == [i \in 1 .. n + 1 |-> IF i = n + 1 THEN last ELSE f[i]]
  <2>3. last \in Seq(S)
    BY <1>1, <2>1
  <2>4. g \in [1 .. n + 1 -> Seq(S)]
    <3> HIDE DEF last
    <3>1. ASSUME NEW i \in 1 .. n + 1 PROVE (IF i = n + 1 THEN last ELSE f[i]) \in Seq(S)
      BY <2>3
    <3> QED BY <3>1
  <2>5. ASSUME NEW i \in 1 .. n + 1 PROVE g[i] = IF i = 1 THEN seqs[i] ELSE g[i - 1] \o seqs[i]
    <3>1. CASE i = n + 1 /\ n = 0
      BY <3>1
    <3>2. CASE i = n + 1 /\ n # 0
      <4>1. i - 1 \in 1 .. n + 1 /\ i - 1 = n /\ i # 1 /\ i - 1 # n + 1
        BY <3>2
      <4>2. g[i - 1] = f[n] /\ g[i] = f[n] \o seqs[n + 1]
        BY <3>2, <4>1
      <4> QED BY <3>2, <4>1, <4>2
    <3>3. CASE i # n + 1
      <4>1. i \in 1 .. n /\ g[i] = f[i]
        BY <3>3
      <4>2. i # 1 => i - 1 \in 1 .. n + 1 /\ i - 1 # n + 1
        BY <4>1
      <4>3. i # 1 => g[i - 1] = f[i - 1]
        BY <4>2
      <4> QED BY <2>2, <4>1, <4>3
    <3> QED BY <3>1, <3>2, <3>3
  <2> HIDE DEF g
  <2>6. Up(g, n + 1)
    BY <2>5
  <2> QED BY <2>4, <2>6
<1> HIDE DEF T
<1>4. l \in T
  BY <1>1, <1>2, <1>3, AllNaturals
<1>7. Good(l)
  <2> HIDE DEF Good
  <2> QED BY <1>4 DEF T
<1>5. PICK f \in [1 .. l -> Seq(S)] : Up(f, l)
  <2> DEFINE goal == \E f \in [1 .. l -> Seq(S)] : Up(f, l)
  <2>1. l <= l => goal
    BY <1>7
  <2> HIDE DEF goal
  <2>2. goal
    BY <1>1, <2>1
  <2> QED BY <2>2 DEF goal
<1>6. Flattens(f, seqs)
  BY <1>5 DEF Flattens, l
<1> QED BY <1>5, <1>6 DEF l

\* What two such functions agree on.
Agree(s, t, n) == \A i \in 1 .. n : s[i] = t[i]
LEMMA FlattensAgree ==
  ASSUME NEW S, NEW s \in Seq(Seq(S)), NEW t \in Seq(Seq(S)), NEW f, Flattens(f, s),
         NEW g, Flattens(g, t), NEW n \in Nat, n <= Len(s), n <= Len(t), Agree(s, t, n)
  PROVE  Agree(f, g, n)
<1> DEFINE T == {k \in Nat : \A i \in 1 .. k : i <= n => f[i] = g[i]}
<1>1. Len(s) \in Nat /\ Len(t) \in Nat
  OBVIOUS
<1>6. /\ \A i \in 1 .. Len(s) : f[i] = IF i = 1 THEN s[i] ELSE f[i - 1] \o s[i]
      /\ \A i \in 1 .. Len(t) : g[i] = IF i = 1 THEN t[i] ELSE g[i - 1] \o t[i]
  BY DEF Flattens
<1>7. \A i \in 1 .. n : i \in 1 .. Len(s) /\ i \in 1 .. Len(t)
  BY <1>1
<1>2. \A i \in 1 .. n : /\ f[i] = IF i = 1 THEN s[i] ELSE f[i - 1] \o s[i]
                        /\ g[i] = IF i = 1 THEN t[i] ELSE g[i - 1] \o t[i]
  BY <1>6, <1>7
<1>3. 0 \in T
  OBVIOUS
<1>4. ASSUME NEW k \in Nat, k \in T PROVE k + 1 \in T
  <2>1. SUFFICES ASSUME NEW i \in 1 .. k + 1, i <= n PROVE f[i] = g[i]
    OBVIOUS
  <2>2. i \in 1 .. n /\ s[i] = t[i]
    BY <2>1 DEF Agree
  <2>3. CASE i = 1
    BY <1>2, <2>2, <2>3
  <2>4. CASE i # 1
    <3>1. i - 1 \in 1 .. k /\ i - 1 <= n
      BY <2>1, <2>4
    <3>2. f[i - 1] = g[i - 1]
      BY <1>4, <3>1
    <3>3. f[i] = f[i - 1] \o s[i] /\ g[i] = g[i - 1] \o t[i]
      BY <1>2, <2>2, <2>4
    <3> QED BY <2>2, <3>2, <3>3
  <2> QED BY <2>3, <2>4
<1> HIDE DEF T
<1>5. n \in T
  BY <1>3, <1>4, AllNaturals
<1> QED BY <1>5 DEF T, Agree

LEMMA FlattenIs ==
  ASSUME NEW S, NEW s \in Seq(Seq(S)), s # <<>>
  PROVE  \E f \in [1 .. Len(s) -> Seq(S)] : Flattens(f, s) /\ FlattenSeq(s) = f[Len(s)]
<1> DEFINE P(f) == f = [i \in 1 .. Len(s) |-> IF i = 1 THEN s[i] ELSE f[i - 1] \o s[i]]
           flat == CHOOSE f : P(f)
<1>1. PICK h \in [1 .. Len(s) -> Seq(S)] : Flattens(h, s)
  BY FlattensExists
<1>2. P(h)
  BY <1>1 DEF Flattens
<1>3. P(flat)
  BY <1>2
<1>4. Len(s) # 0 /\ Len(s) \in Nat
  OBVIOUS
<1>5. FlattenSeq(s) = flat[Len(s)]
  BY <1>4, SMTT(30) DEF FlattenSeq
<1>6. Flattens(flat, s)
  BY <1>3 DEF Flattens
<1> HIDE DEF flat
<1>9. Agree(s, s, Len(s))
  BY DEF Agree
<1>7. Agree(flat, h, Len(s))
  BY <1>1, <1>4, <1>6, <1>9, FlattensAgree
<1>8. Len(s) \in 1 .. Len(s)
  BY <1>4
<1> QED BY <1>1, <1>5, <1>7, <1>8 DEF Agree

\* A further sequence is appended.
LEMMA FlattenAppend ==
  ASSUME NEW S, NEW s \in Seq(Seq(S)), NEW k \in 0 .. Len(s) - 1
  PROVE  /\ FlattenSeq(SubSeq(s, 1, k)) \in Seq(S) /\ FlattenSeq(SubSeq(s, 1, 0)) = <<>>
         /\ FlattenSeq(SubSeq(s, 1, k + 1)) = FlattenSeq(SubSeq(s, 1, k)) \o s[k + 1]
<1> DEFINE a == SubSeq(s, 1, k)
           b == SubSeq(s, 1, k + 1)
<1>1. Len(s) \in Nat /\ k \in Nat /\ k + 1 \in 1 .. Len(s) /\ s[k + 1] \in Seq(S)
  OBVIOUS
<1>2. /\ a \in Seq(Seq(S)) /\ Len(a) = k /\ \A i \in 1 .. k : a[i] = s[i]
      /\ b \in Seq(Seq(S)) /\ Len(b) = k + 1 /\ \A i \in 1 .. k + 1 : b[i] = s[i]
  OBVIOUS
<1>3. FlattenSeq(SubSeq(s, 1, 0)) = <<>>
  BY DEF FlattenSeq
<1>4. k = 0 => a = <<>>
  BY <1>1
<1> HIDE DEF a, b
<1>5. b # <<>>
  BY <1>1, <1>2
<1>6. PICK g \in [1 .. Len(b) -> Seq(S)] : Flattens(g, b) /\ FlattenSeq(b) = g[Len(b)]
  BY <1>2, <1>5, FlattenIs
<1>7. \A i \in 1 .. k + 1 : g[i] = IF i = 1 THEN b[i] ELSE g[i - 1] \o b[i]
  BY <1>2, <1>6 DEF Flattens
<1>8. CASE k = 0
  <2>1. FlattenSeq(a) = <<>>
    BY <1>3, <1>8 DEF a
  <2>2. FlattenSeq(b) = s[k + 1]
    BY <1>1, <1>7, <1>8, <1>2, <1>6
  <2>3. <<>> \o s[k + 1] = s[k + 1] /\ <<>> \in Seq(S)
    BY <1>1
  <2> QED BY <1>3, <2>1, <2>2, <2>3 DEF a, b
<1>9. CASE k # 0
  <2>1. a # <<>> /\ k \in 1 .. k /\ k + 1 \in 1 .. k + 1 /\ k + 1 # 1
    BY <1>1, <1>2, <1>9
  <2>2. PICK f \in [1 .. Len(a) -> Seq(S)] : Flattens(f, a) /\ FlattenSeq(a) = f[Len(a)]
    BY <1>2, <2>1, FlattenIs
  <2>8. k <= Len(a) /\ k <= Len(b) /\ \A i \in 1 .. k : i \in 1 .. k + 1
    BY <1>1, <1>2
  <2>3. Agree(a, b, k)
    BY <1>2, <2>8 DEF Agree
  <2>4. Agree(f, g, k)
    BY <1>1, <1>2, <1>6, <2>2, <2>3, <2>8, FlattensAgree
  <2>5. FlattenSeq(a) = g[k] /\ FlattenSeq(a) \in Seq(S)
    BY <1>2, <2>1, <2>2, <2>4 DEF Agree
  <2>7. (k + 1) - 1 = k
    BY <1>1
  <2>6. FlattenSeq(b) = g[k + 1] /\ g[k + 1] = g[(k + 1) - 1] \o b[k + 1]
    BY <1>2, <1>6, <1>7, <2>1
  <2> QED BY <1>2, <1>3, <2>1, <2>5, <2>6, <2>7 DEF a, b
<1> QED BY <1>8, <1>9

\* The first k sequences are the front of all of them.
LEMMA FlattenPrefix ==
  ASSUME NEW S, NEW s \in Seq(Seq(S)), NEW k \in 0 .. Len(s)
  PROVE  /\ FlattenSeq(SubSeq(s, 1, k)) \in Seq(S) /\ FlattenSeq(s) \in Seq(S)
         /\ Len(FlattenSeq(SubSeq(s, 1, k))) <= Len(FlattenSeq(s))
         /\ Agree(FlattenSeq(SubSeq(s, 1, k)), FlattenSeq(s), Len(FlattenSeq(SubSeq(s, 1, k))))
<1> DEFINE F(j) == FlattenSeq(SubSeq(s, 1, j))
           Good(j) == /\ F(j) \in Seq(S) /\ Len(F(k)) <= Len(F(j))
                      /\ Agree(F(k), F(j), Len(F(k)))
           T == {j \in Nat : k + j <= Len(s) => Good(k + j)}
<1>1. Len(s) \in Nat /\ k \in Nat /\ k <= Len(s)
  OBVIOUS
<1>2. \A j \in 0 .. Len(s) - 1 : F(j) \in Seq(S) /\ F(j + 1) = F(j) \o s[j + 1] /\ F(0) = <<>>
  BY FlattenAppend
<1>3. \A j \in 1 .. Len(s) : s[j] \in Seq(S)
  OBVIOUS
<1>4. SubSeq(s, 1, Len(s)) = s
  BY SubSeqFull
<1>5. Len(s) = 0 => F(0) = <<>>
  BY DEF FlattenSeq
<1>6. F(Len(s)) = FlattenSeq(s)
  BY <1>4
<1> HIDE DEF F
<1>7. F(k) \in Seq(S)
  <2>1. CASE Len(s) = 0
    <3>1. k = 0 /\ <<>> \in Seq(S)
      BY <2>1
    <3> QED BY <1>5, <2>1, <3>1
  <2>2. CASE Len(s) # 0 /\ k < Len(s)
    BY <1>1, <2>2, <1>2
  <2>3. CASE Len(s) # 0 /\ ~(k < Len(s))
    <3>1. k - 1 \in 0 .. Len(s) - 1 /\ (k - 1) + 1 = k /\ k \in 1 .. Len(s)
      BY <1>1, <2>3
    <3>2. F(k - 1) \in Seq(S) /\ F(k) = F(k - 1) \o s[k] /\ s[k] \in Seq(S)
      BY <1>2, <1>3, <3>1
    <3> QED BY <3>2
  <2> QED BY <2>1, <2>2, <2>3
<1>8. 0 \in T
  <2>1. k + 0 = k /\ Len(F(k)) <= Len(F(k)) /\ Agree(F(k), F(k), Len(F(k)))
    BY <1>1, <1>7 DEF Agree
  <2>2. Good(k + 0)
    BY <1>7, <2>1
  <2> HIDE DEF Good
  <2> QED BY <2>2
<1>9. ASSUME NEW j \in Nat, j \in T PROVE j + 1 \in T
  <2>1. SUFFICES ASSUME k + (j + 1) <= Len(s) PROVE Good(k + (j + 1))
    <3> HIDE DEF Good
    <3> QED OBVIOUS
  <2>2. Good(k + j)
    <3> HIDE DEF Good
    <3>1. k + j <= Len(s)
      BY <1>1, <2>1
    <3> QED BY <1>9, <3>1
  <2> DEFINE e == k + j
  <2>3. e \in 0 .. Len(s) - 1 /\ e + 1 \in 1 .. Len(s) /\ k + (j + 1) = e + 1
    BY <1>1, <2>1
  <2> HIDE DEF e
  <2>4. F(e) \in Seq(S) /\ F(e + 1) = F(e) \o s[e + 1] /\ s[e + 1] \in Seq(S)
    BY <1>2, <1>3, <2>3
  <2>5. Len(F(k)) <= Len(F(e)) /\ Agree(F(k), F(e), Len(F(k)))
    BY <2>2 DEF e
  <2> DEFINE a == F(e)
             b == s[e + 1]
             c == F(k)
  <2>6. a \in Seq(S) /\ b \in Seq(S) /\ c \in Seq(S)
    BY <1>7, <2>4
  <2> HIDE DEF a, b, c
  <2>7. /\ a \o b \in Seq(S) /\ Len(a \o b) = Len(a) + Len(b) /\ Len(a) \in Nat /\ Len(b) \in Nat
        /\ Len(c) \in Nat /\ \A i \in 1 .. Len(a) : (a \o b)[i] = a[i]
    BY <2>6
  <2>8. Len(c) <= Len(a) /\ Agree(c, a, Len(c))
    BY <2>5 DEF a, c
  <2>9. Len(c) <= Len(a \o b) /\ Agree(c, a \o b, Len(c))
    BY <2>7, <2>8 DEF Agree
  <2>10. F(e + 1) = a \o b
    BY <2>4 DEF a, b
  <2>11. Good(e + 1)
    BY <2>7, <2>9, <2>10 DEF c
  <2> QED BY <2>3, <2>11
<1> HIDE DEF T
<1>14. Len(s) - k \in Nat
  BY <1>1
<1>15. \A j \in Nat : j \in T
  BY <1>8, <1>9, AllNaturals
<1>10. Len(s) - k \in T /\ Len(s) - k \in Nat
  BY <1>14, <1>15
<1>11. k + (Len(s) - k) <= Len(s) => Good(k + (Len(s) - k))
  <2> HIDE DEF Good
  <2> QED BY <1>10 DEF T
<1>12. k + (Len(s) - k) = Len(s)
  BY <1>1
<1>13. Good(Len(s))
  <2> HIDE DEF Good
  <2> QED BY <1>1, <1>11, <1>12
<1> QED BY <1>6, <1>7, <1>13 DEF F

\* Where the next sequence lies.
LEMMA FlattenAt ==
  ASSUME NEW S, NEW s \in Seq(Seq(S)), NEW k \in 0 .. Len(s) - 1
  PROVE  /\ Len(FlattenSeq(SubSeq(s, 1, k))) \in Nat /\ Len(s[k + 1]) \in Nat
         /\ Len(FlattenSeq(SubSeq(s, 1, k + 1))) = Len(FlattenSeq(SubSeq(s, 1, k))) + Len(s[k + 1])
         /\ Len(FlattenSeq(SubSeq(s, 1, k + 1))) <= Len(FlattenSeq(s))
         /\ \A i \in 1 .. Len(s[k + 1]) :
               FlattenSeq(s)[Len(FlattenSeq(SubSeq(s, 1, k))) + i] = s[k + 1][i]
<1> DEFINE F(j) == FlattenSeq(SubSeq(s, 1, j))
           a == F(k)
           b == s[k + 1]
           all == FlattenSeq(s)
<1>1. k + 1 \in 0 .. Len(s) /\ k + 1 \in 1 .. Len(s)
  OBVIOUS
<1>6. FlattenSeq(SubSeq(s, 1, k)) \in Seq(S)
      /\ FlattenSeq(SubSeq(s, 1, k + 1)) = FlattenSeq(SubSeq(s, 1, k)) \o s[k + 1]
  BY FlattenAppend
<1>7. \A j \in 1 .. Len(s) : s[j] \in Seq(S)
  OBVIOUS
<1>8. a \in Seq(S) /\ F(k + 1) = a \o b
  BY <1>6
<1>2. a \in Seq(S) /\ F(k + 1) = a \o b /\ b \in Seq(S)
  <2> HIDE DEF F, a
  <2> QED BY <1>1, <1>7, <1>8
<1>3. Len(F(k + 1)) <= Len(all) /\ Agree(F(k + 1), all, Len(F(k + 1)))
  BY <1>1, FlattenPrefix
<1> HIDE DEF F, a, b, all
<1>4. /\ Len(a) \in Nat /\ Len(b) \in Nat /\ Len(a \o b) = Len(a) + Len(b)
      /\ \A i \in 1 .. Len(b) : (a \o b)[Len(a) + i] = b[i]
  BY <1>2
<1>5. ASSUME NEW i \in 1 .. Len(b) PROVE all[Len(a) + i] = b[i]
  BY <1>4, <1>2, <1>3 DEF Agree
<1> QED BY <1>2, <1>3, <1>4, <1>5 DEF F, a, b, all

-----------------------------------------------------------------------------
(* Where a message lies among the bytes *)

LEMMA AtWithin ==
  ASSUME NEW w \in Seq(Bytes), NEW s \in Seq(Bytes), NEW t \in Seq(Bytes), NEW p \in Nat, NEW q \in Nat,
         At(w, p, s), At(s, q, t)
  PROVE  At(w, p + q, t)
<1>1. Len(w) \in Nat /\ Len(s) \in Nat /\ Len(t) \in Nat
  OBVIOUS
<1>2. p + Len(s) <= Len(w) /\ q + Len(t) <= Len(s)
  BY DEF At
<1>3. (p + q) + Len(t) <= Len(w)
  BY <1>1, <1>2
<1>4. ASSUME NEW i \in 1 .. Len(t) PROVE w[(p + q) + i] = t[i]
  BY <1>1, <1>2 DEF At
<1> QED BY <1>3, <1>4 DEF At

LEMMA AtConcat ==
  ASSUME NEW a \in Seq(Bytes), NEW b \in Seq(Bytes)
  PROVE  /\ a \o b \in Seq(Bytes) /\ Len(a \o b) = Len(a) + Len(b)
         /\ At(a \o b, 0, a) /\ At(a \o b, Len(a), b)
<1>1. /\ a \o b \in Seq(Bytes) /\ Len(a \o b) = Len(a) + Len(b) /\ Len(a) \in Nat /\ Len(b) \in Nat
      /\ \A i \in 1 .. Len(a) : (a \o b)[i] = a[i]
      /\ \A i \in 1 .. Len(b) : (a \o b)[Len(a) + i] = b[i]
  OBVIOUS
<1>2. At(a \o b, 0, a)
  BY <1>1 DEF At
<1>3. At(a \o b, Len(a), b)
  BY <1>1 DEF At
<1> QED BY <1>1, <1>2, <1>3

LEMMA FlattenedAt ==
  ASSUME NEW s \in Seq(Seq(Bytes)), NEW k \in 0 .. Len(s) - 1
  PROVE  /\ FlattenSeq(s) \in Seq(Bytes)
         /\ Len(FlattenSeq(SubSeq(s, 1, k))) \in Nat /\ Len(s[k + 1]) \in Nat
         /\ Len(FlattenSeq(SubSeq(s, 1, k + 1))) = Len(FlattenSeq(SubSeq(s, 1, k))) + Len(s[k + 1])
         /\ Len(FlattenSeq(SubSeq(s, 1, k + 1))) <= Len(FlattenSeq(s))
         /\ At(FlattenSeq(s), Len(FlattenSeq(SubSeq(s, 1, k))), s[k + 1])
<1> DEFINE a == FlattenSeq(SubSeq(s, 1, k))
           c == FlattenSeq(SubSeq(s, 1, k + 1))
           all == FlattenSeq(s)
<1>1. /\ Len(a) \in Nat /\ Len(s[k + 1]) \in Nat /\ Len(c) = Len(a) + Len(s[k + 1])
      /\ Len(c) <= Len(all) /\ \A i \in 1 .. Len(s[k + 1]) : all[Len(a) + i] = s[k + 1][i]
  BY FlattenAt
<1>2. all \in Seq(Bytes)
  <2>1. k \in 0 .. Len(s)
    OBVIOUS
  <2> QED BY <2>1, FlattenPrefix
<1> HIDE DEF a, c, all
<1>3. At(all, Len(a), s[k + 1])
  BY <1>1 DEF At
<1> QED BY <1>1, <1>2, <1>3 DEF a, c, all

LEMMA LineEnd == CRLF \in Seq(Bytes) /\ Len(CRLF) = 2 /\ CRLF[1] = "CR" /\ CRLF[2] = "LF"
<1>1. "CR" \in Bytes /\ "LF" \in Bytes
  BY DEF Bytes
<1> QED BY <1>1 DEF CRLF

LEMMA TextIsBytes == ASSUME NEW s \in Seq(STRING) PROVE s \in Seq(Bytes)
BY DEF Bytes

LEMMA WithEnd ==
  ASSUME NEW a \in Seq(Bytes)
  PROVE  a \o CRLF \in Seq(Bytes) /\ Len(a \o CRLF) = Len(a) + 2
BY LineEnd, AtConcat

\* Where each line ends.
LEMMA TerminatedAt ==
  ASSUME NEW ls \in Seq(Seq(STRING))
  PROVE  /\ Terminated(ls) \in Seq(Bytes) /\ Len(Terminated(SubSeq(ls, 1, 0))) = 0
         /\ SubSeq(ls, 1, Len(ls)) = ls
         /\ \A j \in 0 .. Len(ls) - 1 :
              /\ Len(Terminated(SubSeq(ls, 1, j))) \in Nat
              /\ Len(Terminated(SubSeq(ls, 1, j + 1)))
                   = Len(Terminated(SubSeq(ls, 1, j))) + Len(ls[j + 1]) + 2
              /\ Len(Terminated(SubSeq(ls, 1, j + 1))) <= Len(Terminated(ls))
              /\ At(Terminated(ls), Len(Terminated(SubSeq(ls, 1, j))), ls[j + 1] \o CRLF)
<1> DEFINE t == [i \in DOMAIN ls |-> ls[i] \o CRLF]
<1>1. DOMAIN ls = 1 .. Len(ls) /\ Len(ls) \in Nat /\ \A i \in 1 .. Len(ls) : ls[i] \in Seq(STRING)
  OBVIOUS
<1>2. \A i \in 1 .. Len(ls) : ls[i] \in Seq(Bytes)
  BY <1>1, TextIsBytes
<1>3. \A i \in 1 .. Len(ls) : ls[i] \o CRLF \in Seq(Bytes) /\ Len(ls[i] \o CRLF) = Len(ls[i]) + 2
  BY <1>2, WithEnd
<1>4. t \in Seq(Seq(Bytes)) /\ Len(t) = Len(ls) /\ \A i \in 1 .. Len(ls) : t[i] = ls[i] \o CRLF
  BY <1>1, <1>3
<1>5. Terminated(ls) = FlattenSeq(t)
  BY DEF Terminated
<1>6. ASSUME NEW j \in 0 .. Len(ls) PROVE Terminated(SubSeq(ls, 1, j)) = FlattenSeq(SubSeq(t, 1, j))
  <2> DEFINE a == SubSeq(ls, 1, j)
             u == [i \in DOMAIN a |-> a[i] \o CRLF]
             v == SubSeq(t, 1, j)
  <2>1. DOMAIN a = 1 .. j /\ \A i \in 1 .. j : a[i] = ls[i]
    BY <1>1
  <2>2. v = [i \in 1 .. j |-> t[i]]
    <3> HIDE DEF t
    <3> QED BY <1>1, <1>4
  <2> HIDE DEF a, v, t
  <2>6. \A i \in 1 .. j : i \in 1 .. Len(ls)
    BY <1>1
  <2>3. \A i \in 1 .. j : t[i] = a[i] \o CRLF
    BY <1>4, <2>1, <2>6
  <2>4. u = v
    BY <2>1, <2>2, <2>3
  <2>5. Terminated(a) = FlattenSeq(u)
    BY DEF Terminated
  <2> QED BY <2>4, <2>5 DEF a, v
<1> HIDE DEF t
<1>7. SubSeq(ls, 1, Len(ls)) = ls
  BY SubSeqFull
<1>8. Len(Terminated(SubSeq(ls, 1, 0))) = 0
  <2>1. SubSeq(ls, 1, 0) = <<>> /\ Len(<<>>) = 0 /\ DOMAIN <<>> = {}
    OBVIOUS
  <2> DEFINE u == [i \in DOMAIN (<<>>) |-> (<<>>)[i] \o CRLF]
  <2>2. u = <<>>
    BY <2>1
  <2>3. Terminated(<<>>) = FlattenSeq(u)
    BY DEF Terminated
  <2>4. FlattenSeq(<<>>) = <<>>
    BY <2>1 DEF FlattenSeq
  <2> HIDE DEF u
  <2> QED BY <2>1, <2>2, <2>3, <2>4
<1>9. ASSUME NEW j \in 0 .. Len(ls) - 1
      PROVE  /\ Len(Terminated(SubSeq(ls, 1, j))) \in Nat
             /\ Len(Terminated(SubSeq(ls, 1, j + 1)))
                   = Len(Terminated(SubSeq(ls, 1, j))) + Len(ls[j + 1]) + 2
             /\ Len(Terminated(SubSeq(ls, 1, j + 1))) <= Len(Terminated(ls))
             /\ At(Terminated(ls), Len(Terminated(SubSeq(ls, 1, j))), ls[j + 1] \o CRLF)
  <2>1. j \in 0 .. Len(ls) /\ j + 1 \in 0 .. Len(ls) /\ j + 1 \in 1 .. Len(ls)
    BY <1>1
  <2> DEFINE a == Terminated(SubSeq(ls, 1, j))
             c == Terminated(SubSeq(ls, 1, j + 1))
             line == ls[j + 1] \o CRLF
  <2>2. /\ a = FlattenSeq(SubSeq(t, 1, j)) /\ c = FlattenSeq(SubSeq(t, 1, j + 1))
        /\ line = t[j + 1] /\ Len(line) = Len(ls[j + 1]) + 2 /\ Len(ls[j + 1]) \in Nat
    <3>1. a = FlattenSeq(SubSeq(t, 1, j)) /\ c = FlattenSeq(SubSeq(t, 1, j + 1))
      BY <1>6, <2>1
    <3>2. line = t[j + 1]
      BY <1>4, <2>1
    <3>3. Len(line) = Len(ls[j + 1]) + 2
      BY <1>3, <2>1
    <3>4. Len(ls[j + 1]) \in Nat
      BY <1>1, <2>1
    <3> QED BY <3>1, <3>2, <3>3, <3>4
  <2>3. j \in 0 .. Len(t) - 1
    BY <1>4
  <2>4. /\ Len(FlattenSeq(SubSeq(t, 1, j))) \in Nat
        /\ Len(FlattenSeq(SubSeq(t, 1, j + 1))) = Len(FlattenSeq(SubSeq(t, 1, j))) + Len(t[j + 1])
        /\ Len(FlattenSeq(SubSeq(t, 1, j + 1))) <= Len(FlattenSeq(t))
        /\ At(FlattenSeq(t), Len(FlattenSeq(SubSeq(t, 1, j))), t[j + 1])
    BY <1>4, <2>3, FlattenedAt
  <2> HIDE DEF a, c, line
  <2>5. /\ Len(a) \in Nat /\ Len(c) = Len(a) + Len(line) /\ Len(c) <= Len(Terminated(ls))
        /\ At(Terminated(ls), Len(a), line)
    BY <1>5, <2>2, <2>4
  <2> DEFINE n == Len(ls[j + 1])
  <2>7. n \in Nat /\ Len(line) = n + 2
    BY <2>2
  <2> HIDE DEF n
  <2>8. Len(c) = Len(a) + n + 2
    BY <2>5, <2>7
  <2>6. Len(c) = Len(a) + Len(ls[j + 1]) + 2
    BY <2>8 DEF n
  <2> QED BY <2>5, <2>6 DEF a, c, line
<1>10. Terminated(ls) \in Seq(Bytes)
  BY <1>1, <1>4, <1>5, FlattenPrefix
<1> QED BY <1>7, <1>8, <1>9, <1>10

LEMMA LinesOf ==
  ASSUME NEW m \in Messages
  PROVE  /\ Lines(m) \in Seq(Seq(STRING)) /\ Len(Lines(m)) = Len(m.headers) + 2
         /\ Len(m.headers) \in Nat /\ DOMAIN m.headers = 1 .. Len(m.headers)
         /\ Lines(m)[1] = m.line /\ Lines(m)[Len(m.headers) + 2] = <<>>
         /\ \A i \in 1 .. Len(m.headers) : Lines(m)[i + 1] = m.headers[i] /\ m.headers[i] \in Seq(STRING)
         /\ m.line \in Seq(STRING) /\ m.body \in Seq(STRING) /\ m.headers \in Seq(Seq(STRING))
<1>1. m.line \in Seq(STRING) /\ m.headers \in Seq(Seq(STRING)) /\ m.body \in Seq(STRING)
  BY DEF Messages
<1> DEFINE h == m.headers
           l == m.line
<1>2. h \in Seq(Seq(STRING)) /\ l \in Seq(STRING) /\ Lines(m) = (<<l>> \o h) \o <<<<>>>>
  BY <1>1 DEF Lines
<1>3. Len(h) \in Nat /\ DOMAIN h = 1 .. Len(h) /\ \A i \in 1 .. Len(h) : h[i] \in Seq(STRING)
  BY <1>1
<1> HIDE DEF h, l
<1> DEFINE a == <<l>> \o h
           e == <<<<>>>>
<1>4. a \in Seq(Seq(STRING)) /\ Len(a) = Len(h) + 1 /\ a[1] = l /\ \A i \in 1 .. Len(h) : a[i + 1] = h[i]
  BY <1>2, <1>3
<1>5. e \in Seq(Seq(STRING)) /\ Len(e) = 1 /\ e[1] = <<>>
  OBVIOUS
<1> HIDE DEF a, e
<1>6. a \o e \in Seq(Seq(STRING)) /\ Len(a \o e) = Len(a) + Len(e)
      /\ \A k \in 1 .. Len(a) + Len(e) : (a \o e)[k] = IF k <= Len(a) THEN a[k] ELSE e[k - Len(a)]
  BY <1>4, <1>5, ConcatProperties
<1>7. (a \o e)[1] = l /\ (a \o e)[Len(h) + 2] = <<>> /\ Len(a \o e) = Len(h) + 2
  BY <1>3, <1>4, <1>5, <1>6
<1>8. ASSUME NEW i \in 1 .. Len(h) PROVE (a \o e)[i + 1] = h[i]
  BY <1>3, <1>4, <1>5, <1>6
<1>9. Lines(m) = a \o e
  BY <1>2 DEF a, e
<1> QED BY <1>1, <1>2, <1>3, <1>6, <1>7, <1>8, <1>9 DEF h, l

\* The lines of a message and its body follow each other.
LEMMA HeadAt ==
  ASSUME NEW m \in Messages
  PROVE  /\ Encoded(m) \in Seq(Bytes) /\ HeadBytes(m) \in Nat /\ HeadBytes(m) = Ends(m, Len(m.headers) + 2)
         /\ Len(Encoded(m)) = HeadBytes(m) + Len(m.body) /\ At(Encoded(m), HeadBytes(m), m.body)
         /\ Ends(m, 0) = 0
         /\ \A j \in 0 .. Len(m.headers) + 1 :
              /\ Ends(m, j) \in Nat /\ Ends(m, j + 1) \in Nat /\ Len(Lines(m)[j + 1]) \in Nat
              /\ Ends(m, j + 1) = Ends(m, j) + Len(Lines(m)[j + 1]) + 2
              /\ Ends(m, j + 1) <= HeadBytes(m)
              /\ At(Encoded(m), Ends(m, j), Lines(m)[j + 1] \o CRLF)
<1> DEFINE ls == Lines(m)
           n == Len(m.headers)
           t == Terminated(ls)
<1>1. /\ ls \in Seq(Seq(STRING)) /\ Len(ls) = n + 2 /\ n \in Nat /\ m.body \in Seq(STRING)
      /\ \A k \in 1 .. Len(ls) : ls[k] \in Seq(STRING)
  BY LinesOf
<1>2. /\ t \in Seq(Bytes) /\ Ends(m, 0) = 0 /\ SubSeq(ls, 1, n + 2) = ls
      /\ \A j \in 0 .. Len(ls) - 1 :
              /\ Ends(m, j) \in Nat /\ Ends(m, j + 1) = Ends(m, j) + Len(ls[j + 1]) + 2
              /\ Ends(m, j + 1) <= Len(t) /\ At(t, Ends(m, j), ls[j + 1] \o CRLF)
  BY <1>1, TerminatedAt DEF Ends
<1>3. HeadBytes(m) = Len(t) /\ HeadBytes(m) = Ends(m, n + 2)
  <2>1. (n + 1) + 1 = n + 2
    BY <1>1
  <2>2. HeadBytes(m) = Len(Terminated(SubSeq(ls, 1, (n + 1) + 1)))
    BY DEF HeadBytes, HeadUpTo
  <2> QED BY <1>2, <2>1, <2>2 DEF Ends
<1>4. Encoded(m) = t \o m.body
  BY DEF Encoded
<1> DEFINE body == m.body
<1>5. body \in Seq(Bytes)
  BY <1>1, TextIsBytes
<1> HIDE DEF ls, n, t, body
<1>6. /\ t \o body \in Seq(Bytes) /\ Len(t \o body) = Len(t) + Len(body)
      /\ At(t \o body, 0, t) /\ At(t \o body, Len(t), body) /\ Len(t) \in Nat
  BY <1>2, <1>5, AtConcat
<1>7. ASSUME NEW j \in 0 .. n + 1
      PROVE  /\ Ends(m, j) \in Nat /\ Ends(m, j + 1) \in Nat /\ Len(ls[j + 1]) \in Nat
             /\ Ends(m, j + 1) = Ends(m, j) + Len(ls[j + 1]) + 2
             /\ Ends(m, j + 1) <= Len(t) /\ At(t \o body, Ends(m, j), ls[j + 1] \o CRLF)
  <2>1. j \in 0 .. Len(ls) - 1 /\ j + 1 \in 1 .. Len(ls)
    BY <1>1
  <2> DEFINE line == ls[j + 1]
             at == Ends(m, j)
             end == Ends(m, j + 1)
  <2>2. at \in Nat /\ end = at + Len(line) + 2 /\ end <= Len(t) /\ At(t, at, line \o CRLF)
    BY <1>2, <2>1
  <2>3. line \in Seq(STRING)
    BY <1>1, <2>1
  <2> HIDE DEF line, at, end
  <2>4. line \in Seq(Bytes) /\ Len(line) \in Nat
    BY <2>3, TextIsBytes
  <2>5. line \o CRLF \in Seq(Bytes)
    BY <2>4, WithEnd
  <2>6. 0 \in Nat /\ 0 + at = at
    BY <2>2
  <2>7. At(t \o body, 0 + at, line \o CRLF)
    BY <1>2, <1>6, <2>2, <2>5, <2>6, AtWithin
  <2>8. end \in Nat
    BY <2>2, <2>4
  <2> QED BY <2>2, <2>4, <2>6, <2>7, <2>8 DEF line, at, end
<1> QED BY <1>2, <1>3, <1>4, <1>6, <1>7 DEF ls, n, t, body

\* The messages of a stream follow each other.
LEMMA MessageAt ==
  ASSUME NEW ms \in Seq(Messages)
  PROVE  /\ Sent(ms) \in Seq(Bytes) /\ Len(Sent(SubSeq(ms, 1, 0))) = 0 /\ SubSeq(ms, 1, Len(ms)) = ms
         /\ \A k \in 0 .. Len(ms) - 1 :
              /\ Len(Sent(SubSeq(ms, 1, k))) \in Nat
              /\ Len(Sent(SubSeq(ms, 1, k + 1))) = Len(Sent(SubSeq(ms, 1, k))) + Len(Encoded(ms[k + 1]))
              /\ Len(Sent(SubSeq(ms, 1, k + 1))) <= Len(Sent(ms))
              /\ At(Sent(ms), Len(Sent(SubSeq(ms, 1, k))), Encoded(ms[k + 1]))
<1> DEFINE t == [i \in DOMAIN ms |-> Encoded(ms[i])]
<1>1. DOMAIN ms = 1 .. Len(ms) /\ Len(ms) \in Nat /\ \A i \in 1 .. Len(ms) : ms[i] \in Messages
  OBVIOUS
<1>2. \A i \in 1 .. Len(ms) : Encoded(ms[i]) \in Seq(Bytes)
  BY <1>1, HeadAt
<1>4. t \in Seq(Seq(Bytes)) /\ Len(t) = Len(ms) /\ \A i \in 1 .. Len(ms) : t[i] = Encoded(ms[i])
  BY <1>1, <1>2
<1>5. Sent(ms) = FlattenSeq(t)
  BY DEF Sent
<1>6. ASSUME NEW j \in 0 .. Len(ms) PROVE Sent(SubSeq(ms, 1, j)) = FlattenSeq(SubSeq(t, 1, j))
  <2> DEFINE a == SubSeq(ms, 1, j)
             u == [i \in DOMAIN a |-> Encoded(a[i])]
             v == SubSeq(t, 1, j)
  <2>1. DOMAIN a = 1 .. j /\ \A i \in 1 .. j : a[i] = ms[i]
    BY <1>1
  <2>2. v = [i \in 1 .. j |-> t[i]]
    <3> HIDE DEF t
    <3> QED BY <1>1, <1>4
  <2> HIDE DEF a, v, t
  <2>6. \A i \in 1 .. j : i \in 1 .. Len(ms)
    BY <1>1
  <2>3. \A i \in 1 .. j : t[i] = Encoded(a[i])
    BY <1>4, <2>1, <2>6
  <2>4. u = v
    BY <2>1, <2>2, <2>3
  <2>5. Sent(a) = FlattenSeq(u)
    BY DEF Sent
  <2> QED BY <2>4, <2>5 DEF a, v
<1> HIDE DEF t
<1>7. SubSeq(ms, 1, Len(ms)) = ms
  BY SubSeqFull
<1>8. Len(Sent(SubSeq(ms, 1, 0))) = 0
  <2>1. SubSeq(t, 1, 0) = <<>> /\ Len(<<>>) = 0
    BY <1>4
  <2>2. FlattenSeq(<<>>) = <<>>
    BY <2>1 DEF FlattenSeq
  <2>3. 0 \in 0 .. Len(ms)
    BY <1>1
  <2> QED BY <1>6, <2>1, <2>2, <2>3
<1>9. ASSUME NEW k \in 0 .. Len(ms) - 1
      PROVE  /\ Len(Sent(SubSeq(ms, 1, k))) \in Nat
             /\ Len(Sent(SubSeq(ms, 1, k + 1))) = Len(Sent(SubSeq(ms, 1, k))) + Len(Encoded(ms[k + 1]))
             /\ Len(Sent(SubSeq(ms, 1, k + 1))) <= Len(Sent(ms))
             /\ At(Sent(ms), Len(Sent(SubSeq(ms, 1, k))), Encoded(ms[k + 1]))
  <2>1. k \in 0 .. Len(ms) /\ k + 1 \in 0 .. Len(ms) /\ k + 1 \in 1 .. Len(ms) /\ k \in 0 .. Len(t) - 1
    BY <1>1, <1>4
  <2>2. /\ Sent(SubSeq(ms, 1, k)) = FlattenSeq(SubSeq(t, 1, k))
        /\ Sent(SubSeq(ms, 1, k + 1)) = FlattenSeq(SubSeq(t, 1, k + 1))
        /\ Encoded(ms[k + 1]) = t[k + 1]
    BY <1>4, <1>6, <2>1
  <2>4. /\ Len(FlattenSeq(SubSeq(t, 1, k))) \in Nat
        /\ Len(FlattenSeq(SubSeq(t, 1, k + 1))) = Len(FlattenSeq(SubSeq(t, 1, k))) + Len(t[k + 1])
        /\ Len(FlattenSeq(SubSeq(t, 1, k + 1))) <= Len(FlattenSeq(t))
        /\ At(FlattenSeq(t), Len(FlattenSeq(SubSeq(t, 1, k))), t[k + 1])
    BY <1>4, <2>1, FlattenedAt
  <2> QED BY <1>5, <2>2, <2>4
<1>10. Sent(ms) \in Seq(Bytes)
  BY <1>1, <1>4, <1>5, FlattenPrefix
<1> QED BY <1>7, <1>8, <1>9, <1>10

-----------------------------------------------------------------------------
(* The buffer holds the bytes that have arrived and are not taken *)

LEMMA BufferTyped ==
  ASSUME IInv, Buffered
  PROVE  /\ input \in Buffers /\ input.bytes \in Seq(STRING) /\ input.bytes \in Seq(Bytes)
         /\ wire \in Seq(Bytes) /\ Len(wire) \in Nat
         /\ Len(input.bytes) \in Nat /\ sent \in Nat /\ sent <= Len(wire)
         /\ Taken \in Nat /\ Taken + Len(input.bytes) = sent
<1>1. input \in Buffers /\ wire \in Seq(STRING) /\ sent \in 0 .. Len(wire)
  BY DEF IInv, BufferInv, LoopTyped
<1>2. input.bytes \in Seq(STRING)
  BY <1>1 DEF Buffers
<1> DEFINE b == input.bytes
<1>3. b \in Seq(STRING)
  BY <1>2
<1> HIDE DEF b
<1>4. b \in Seq(Bytes) /\ wire \in Seq(Bytes)
  BY <1>1, <1>3, TextIsBytes
<1>5. Len(b) \in Nat /\ Len(wire) \in Nat
  BY <1>1, <1>3
<1>6. sent \in Nat /\ sent <= Len(wire)
  BY <1>1, <1>5
<1>7. Taken + Len(b) = sent
  BY <1>5, <1>6 DEF Taken, b
<1> QED BY <1>1, <1>2, <1>4, <1>5, <1>6, <1>7 DEF b, Buffered

\* findCrlf finds the end of the line that comes next, once it has arrived.
LEMMA FindsLine ==
  ASSUME IInv, Buffered, NEW l \in Seq(Bytes), IsLine(l), At(wire, Taken, l \o CRLF)
  PROVE  /\ HasLine <=> Len(input.bytes) >= Len(l) + 2
         /\ HasLine => line_bytes = Len(l) /\ Line = l
<1> DEFINE b == input.bytes
           c == l \o CRLF
           ends == {i \in 1 .. Len(b) - 1 : b[i] = "CR" /\ b[i + 1] = "LF"}
<1>1. b \in Seq(Bytes) /\ Len(b) \in Nat /\ Len(l) \in Nat
  BY BufferTyped
<1>2. c \in Seq(Bytes) /\ Len(c) = Len(l) + 2
  BY WithEnd
<1>3. /\ \A i \in 1 .. Len(l) : c[i] = l[i]
      /\ c[Len(l) + 1] = "CR" /\ c[Len(l) + 2] = "LF"
  <2> DEFINE e == CRLF
  <2>1. e \in Seq(Bytes) /\ Len(e) = 2 /\ e[1] = "CR" /\ e[2] = "LF"
    BY LineEnd
  <2>2. c = l \o e
    OBVIOUS
  <2> HIDE DEF e, c
  <2>3. \A k \in 1 .. Len(l) + Len(e) : (l \o e)[k] = IF k <= Len(l) THEN l[k] ELSE e[k - Len(l)]
    BY <2>1, ConcatProperties
  <2>4. \A i \in 1 .. Len(l) : i \in 1 .. Len(l) + Len(e) /\ i <= Len(l)
    BY <1>1, <2>1
  <2>5. /\ Len(l) + 1 \in 1 .. Len(l) + Len(e) /\ ~(Len(l) + 1 <= Len(l)) /\ (Len(l) + 1) - Len(l) = 1
        /\ Len(l) + 2 \in 1 .. Len(l) + Len(e) /\ ~(Len(l) + 2 <= Len(l)) /\ (Len(l) + 2) - Len(l) = 2
    BY <1>1, <2>1
  <2> QED BY <2>1, <2>2, <2>3, <2>4, <2>5
<1>4. \A i \in 1 .. Len(b) : i <= Len(l) + 2 => b[i] = c[i]
  <2>1. \A i \in 1 .. Len(b) : wire[Taken + i] = b[i]
    BY DEF Buffered, At
  <2>2. \A i \in 1 .. Len(c) : wire[Taken + i] = c[i]
    BY DEF At
  <2>3. \A i \in 1 .. Len(b) : i <= Len(l) + 2 => i \in 1 .. Len(c)
    BY <1>1, <1>2
  <2> HIDE DEF b, c
  <2> QED BY <2>1, <2>2, <2>3
<1>5. line_bytes = IF ends = {} THEN NoCrlf ELSE Min(ends) - 1
  BY DEF line_bytes, findCrlf
<1>6. ends \subseteq Nat
  BY <1>1
<1>7. \A i \in ends : i \in 1 .. Len(b) - 1 /\ b[i] = "CR" /\ b[i + 1] = "LF"
  OBVIOUS
<1>8. \A i \in 1 .. Len(b) - 1 : b[i] = "CR" /\ b[i + 1] = "LF" => i \in ends
  OBVIOUS
<1>9. Line = SubSeq(b, 1, line_bytes)
  BY DEF Line
<1> HIDE DEF b, c, ends
<1>10. ASSUME NEW i \in ends PROVE i >= Len(l) + 1
  <2>1. i \in 1 .. Len(b) - 1 /\ b[i] = "CR" /\ b[i + 1] = "LF"
    BY <1>7
  <2>2. SUFFICES ASSUME ~(i >= Len(l) + 1) PROVE FALSE
    OBVIOUS
  <2>3. i \in 1 .. Len(b) /\ i + 1 \in 1 .. Len(b) /\ i \in 1 .. Len(l) /\ i <= Len(l) + 2 /\ i + 1 <= Len(l) + 2
    BY <1>1, <2>1, <2>2
  <2>4. l[i] = "CR" /\ c[i + 1] = "LF"
    BY <1>3, <1>4, <2>1, <2>3
  <2>5. CASE i = Len(l)
    BY <1>3, <2>5, <2>4
  <2>6. CASE i # Len(l)
    BY <1>1, <2>3, <2>6, <1>3, <2>4 DEF IsLine
  <2> QED BY <2>5, <2>6
<1>11. CASE Len(b) >= Len(l) + 2
  <2> DEFINE e == Len(l) + 1
  <2>1. /\ e \in 1 .. Len(b) - 1 /\ e \in 1 .. Len(b) /\ e + 1 \in 1 .. Len(b)
        /\ e <= Len(l) + 2 /\ e + 1 = Len(l) + 2
    BY <1>1, <1>11
  <2>2. b[e] = "CR" /\ b[e + 1] = "LF"
    BY <1>4, <2>1, <1>3
  <2>3. e \in ends
    BY <1>8, <2>1, <2>2
  <2>4. Min(ends) \in ends /\ Min(ends) <= e /\ Min(ends) \in Nat
    BY <1>6, <2>3, SmallestOf
  <2>5. Min(ends) >= e
    BY <1>10, <2>4
  <2> DEFINE m == Min(ends)
  <2>6. m = Len(l) + 1
    <3> HIDE DEF m
    <3>1. m \in Nat /\ m <= Len(l) + 1 /\ m >= Len(l) + 1
      BY <2>4, <2>5 DEF m
    <3> QED BY <1>1, <3>1
  <2>7. line_bytes = Len(l)
    BY <1>1, <1>5, <2>3, <2>6
  <2>8. HasLine
    BY <1>1, <2>7 DEF HasLine, NoCrlf
  <2>9. SubSeq(b, 1, Len(l)) = l
    <3> DEFINE s == SubSeq(b, 1, Len(l))
    <3>1. s \in Seq(Bytes) /\ Len(s) = Len(l) /\ \A i \in 1 .. Len(l) : s[i] = b[i]
      BY <1>1, <1>11
    <3>2. \A i \in 1 .. Len(l) : i \in 1 .. Len(b) /\ i <= Len(l) + 2
      BY <1>1, <1>11
    <3> HIDE DEF s
    <3>3. \A i \in 1 .. Len(l) : s[i] = l[i]
      BY <1>3, <1>4, <3>1, <3>2
    <3>4. s = l
      BY <3>1, <3>3, SeqEqual
    <3> QED BY <3>4 DEF s
  <2> QED BY <1>9, <1>11, <2>7, <2>8, <2>9 DEF b
<1>12. CASE ~(Len(b) >= Len(l) + 2)
  <2>1. ends = {}
    <3>1. ASSUME NEW i \in ends PROVE FALSE
      BY <1>7, <1>10, <1>1, <1>12
    <3> QED BY <3>1
  <2>2. ~HasLine
    BY <1>5, <2>1 DEF HasLine
  <2> QED BY <1>12, <2>2 DEF b
<1> QED BY <1>11, <1>12

-----------------------------------------------------------------------------
(* Where the request parser is among the messages *)

LEMMA FaultStays ==
  ASSUME limits' = limits
  PROVE  /\ \A m, i : (Fault(m, i))' = Fault(m, i)
         /\ \A m : (RequestFault(m))' = RequestFault(m)
<1>1. ASSUME NEW m, NEW i PROVE (Fault(m, i))' = Fault(m, i)
  BY DEF Fault, LineFault, RequestLineLimit
<1>2. ASSUME NEW m PROVE (RequestFault(m))' = RequestFault(m)
  <2>1. (HeadFault(m, RequestLineLimit, limits.header_line, Versions, HeaderNames))'
          = HeadFault(m, RequestLineLimit, limits.header_line, Versions, HeaderNames)
    BY DEF HeadFault, LineFault, RequestLineLimit
  <2> QED BY <2>1 DEF RequestFault
<1> QED BY <1>1, <1>2

\* A head is refused for the first of its lines that is at fault.
LEMMA FirstFault ==
  ASSUME NEW m, Len(m.headers) \in Nat, NEW f, NEW o, NEW F, NEW N
  PROVE  /\ \A j \in 0 .. Len(m.headers) + 1 :
              /\ LineFault(m, j, f, o, F, N) # "none"
              /\ \A i \in 0 .. j - 1 : LineFault(m, i, f, o, F, N) = "none"
              => HeadFault(m, f, o, F, N) = LineFault(m, j, f, o, F, N)
         /\ (\A i \in 0 .. Len(m.headers) + 1 : LineFault(m, i, f, o, F, N) = "none")
              => HeadFault(m, f, o, F, N) = "none"
<1> DEFINE G(i) == LineFault(m, i, f, o, F, N)
           faulty == {i \in 0 .. Len(m.headers) + 1 : G(i) # "none"}
<1>1. HeadFault(m, f, o, F, N) = IF faulty = {} THEN "none" ELSE G(Min(faulty))
  BY DEF HeadFault
<1> HIDE DEF G
<1>2. ASSUME NEW j \in 0 .. Len(m.headers) + 1, G(j) # "none", \A i \in 0 .. j - 1 : G(i) = "none"
      PROVE  HeadFault(m, f, o, F, N) = G(j)
  <2>1. j \in faulty /\ faulty \subseteq Nat /\ \A i \in faulty : G(i) # "none"
    BY <1>2
  <2> HIDE DEF faulty
  <2> DEFINE least == Min(faulty)
  <2>2. least \in faulty /\ least <= j /\ least \in Nat
    BY <2>1, SmallestOf
  <2>3. HeadFault(m, f, o, F, N) = G(least)
    BY <1>1, <2>1
  <2> HIDE DEF least
  <2>4. ~(least < j)
    BY <2>2, <1>2, <2>1
  <2>5. least = j
    BY <2>2, <2>4
  <2> QED BY <2>3, <2>5
<1>3. (\A i \in 0 .. Len(m.headers) + 1 : G(i) = "none") => HeadFault(m, f, o, F, N) = "none"
  BY <1>1
<1> QED BY <1>2, <1>3 DEF G

\* Line i of a request is too large, malformed or neither.
TooLarge(m, i) ==
    \/ Ends(m, i + 1) > limits.header_bytes
    \/ i = 0 /\ Len(m.line) > limits.request_line
    \/ i \in DOMAIN m.headers /\ (Len(m.headers[i]) > limits.header_line \/ i > limits.header_count)
Malformed(m, i) == \/ i = 0 /\ Meaning(m.line) \notin Versions
                   \/ i \in DOMAIN m.headers /\ Meaning(m.headers[i]) \notin HeaderNames

LEMMA FaultIs ==
  ASSUME limits \in ServerLimits, NEW m \in Messages, NEW i \in 0 .. Len(m.headers) + 1
  PROVE  Fault(m, i) = IF TooLarge(m, i) THEN "HeaderTooLarge"
                       ELSE IF Malformed(m, i) THEN "malformed" ELSE "none"
<1> DEFINE a == limits.request_line
           b == limits.header_bytes
           l == Len(m.line)
           e == Ends(m, i + 1)
<1>1. a \in Nat /\ b \in Nat /\ Len(m.headers) \in Nat
  BY LinesOf DEF ServerLimits
<1>2. i = 0 => e = l + 2 /\ l \in Nat
  <2>1. 0 \in 0 .. Len(m.headers) + 1 /\ 0 + 1 = 1
    BY <1>1
  <2> DEFINE f == Ends(m, 1)
  <2>2. f = 0 + l + 2 /\ l \in Nat
    BY <2>1, HeadAt, LinesOf, ZenonT(30)
  <2> HIDE DEF f, l
  <2>3. f = l + 2
    BY <2>2
  <2> QED BY <2>2, <2>3 DEF f
<1>3. LET least == RequestLineLimit
      IN  least \in {a, b - 2} /\ least <= a /\ least <= b - 2
  <2> DEFINE c == b - 2
  <2>1. a \in Int /\ c \in Int
    BY <1>1
  <2>2. RequestLineLimit = Min({a, c})
    BY DEF RequestLineLimit
  <2> HIDE DEF a, c
  <2>3. LET least == RequestLineLimit IN least \in {a, c} /\ least <= a /\ least <= c
    BY <2>1, <2>2, Extremes
  <2> QED BY <2>3 DEF a, c
<1>4. i = 0 => (l > RequestLineLimit <=> e > b \/ l > a)
  <2> DEFINE least == RequestLineLimit
  <2>1. least \in {a, b - 2} /\ least <= a /\ least <= b - 2
    BY <1>3
  <2>2. SUFFICES ASSUME i = 0 PROVE l > least <=> e > b \/ l > a
    OBVIOUS
  <2> HIDE DEF least, a, b, l, e
  <2> QED BY <1>1, <1>2, <2>1, <2>2
<1>5. Len(HeadUpTo(m, i)) = e
  BY DEF Ends, HeadUpTo
<1>6. i # 0 => i > 0
  BY <1>1
<1> QED BY <1>4, <1>5, <1>6 DEF Fault, LineFault, TooLarge, Malformed

LEMMA LineRefused ==
  ASSUME limits \in ServerLimits,
         NEW m \in Messages, NEW j \in 0 .. Len(m.headers) + 1, \A i \in 0 .. j - 1 : Fault(m, i) = "none"
  PROVE  /\ TooLarge(m, j) => RequestFault(m) = "HeaderTooLarge"
         /\ ~TooLarge(m, j) /\ Malformed(m, j) => RequestFault(m) = "BadRequest"
<1> DEFINE head == HeadFault(m, RequestLineLimit, limits.header_line, Versions, HeaderNames)
<1>1. Len(m.headers) \in Nat
  BY LinesOf
<1>2. Fault(m, j) # "none" => head = Fault(m, j)
  BY <1>1, FirstFault DEF Fault
<1>3. /\ head = "HeaderTooLarge" => RequestFault(m) = "HeaderTooLarge"
      /\ head = "malformed" => RequestFault(m) = "BadRequest"
  BY DEF RequestFault
<1> HIDE DEF head
<1>4. TooLarge(m, j) => Fault(m, j) = "HeaderTooLarge"
  BY FaultIs
<1>5. ~TooLarge(m, j) /\ Malformed(m, j) => Fault(m, j) = "malformed"
  BY FaultIs
<1> QED BY <1>2, <1>3, <1>4, <1>5

\* What finishHeaders decides, from the message.
LEMMA HeadRefused ==
  ASSUME NEW m \in Messages, \A i \in 0 .. Len(m.headers) + 1 : Fault(m, i) = "none",
         NEW p, p.version = Meaning(m.line), p.headers = Meanings(m)
  PROVE  /\ RequestFault(m) = IF HeadersResult(p) = "Complete" THEN "none" ELSE HeadersResult(p)
         /\ HeadersResult(p) = "Complete" =>
              IF ContentLengths(p) = {} THEN Count(m, {"te"}) = 0 /\ Count(m, LengthNames) = 0
              ELSE /\ Count(m, {"te"}) = 0 /\ Count(m, LengthNames) = 1 /\ Length(m) # "badlength"
                   /\ ContentLength(p) = Length(m)
<1> DEFINE h == m.headers
           mean == Meanings(m)
           at(names) == {i \in DOMAIN h : Meaning(h[i]) \in names}
<1>1. Len(h) \in Nat /\ DOMAIN h = 1 .. Len(h)
  BY LinesOf
<1>2. DOMAIN mean = DOMAIN h /\ \A i \in DOMAIN h : mean[i] = Meaning(h[i])
  BY DEF Meanings
<1>3. \A names : Values(mean, names) = at(names)
  BY <1>2 DEF Values
<1>4. \A names : Count(m, names) = Cardinality(at(names))
  BY DEF Count
<1>5. \A names : IsFiniteSet(at(names)) /\ at(names) \subseteq 1 .. Len(h)
  <2>1. IsFiniteSet(1 .. Len(h))
    BY <1>1, FS_Interval
  <2> QED BY <1>1, <2>1, FS_Subset
<1>6. ("host" \in Names(p) <=> at({"host"}) # {}) /\ ("te" \in Names(p) <=> at({"te"}) # {})
  BY <1>2 DEF Names
<1>7. ContentLengths(p) = at(LengthNames) /\ ContentLength(p) = mean[Min(at(LengthNames))]
  BY <1>3 DEF ContentLengths, ContentLength, FirstValue
<1>8. Length(m) = Meaning(h[CHOOSE i \in DOMAIN h : Meaning(h[i]) \in LengthNames])
  BY DEF Length
<1>9. HeadFault(m, RequestLineLimit, limits.header_line, Versions, HeaderNames) = "none"
  BY <1>1, FirstFault DEF Fault
<1>10. RequestFault(m) =
             IF Meaning(m.line) = "v11" /\ Count(m, {"host"}) = 0 THEN "BadRequest"
             ELSE IF Count(m, {"te"}) > 0 THEN "UnsupportedTransferEncoding"
             ELSE IF Count(m, LengthNames) = 0 THEN "none"
             ELSE IF Count(m, LengthNames) > 1 \/ Length(m) = "badlength" THEN "BadRequest"
             ELSE IF Number[Length(m)] > limits.body THEN "BodyTooLarge" ELSE "none"
  BY <1>9 DEF RequestFault
<1> DEFINE c(names) == Cardinality(at(names))
<1>11. \A names : c(names) \in Nat /\ (c(names) = 0 <=> at(names) = {})
  BY <1>5, FS_CardinalityType, FS_EmptySet
<1>12. c(LengthNames) = 1 => Length(m) = ContentLength(p)
  <2>1. SUFFICES ASSUME c(LengthNames) = 1 PROVE Length(m) = ContentLength(p)
    OBVIOUS
  <2>2. PICK x : at(LengthNames) = {x}
    BY <1>5, <2>1, FS_Singleton
  <2> DEFINE ch == CHOOSE i \in DOMAIN h : Meaning(h[i]) \in LengthNames
  <2>3. x \in DOMAIN h /\ Meaning(h[x]) \in LengthNames /\ x \in Nat
    BY <1>1, <2>2, SMTT(30)
  <2>4. ch \in DOMAIN h /\ Meaning(h[ch]) \in LengthNames
    BY <2>3
  <2> HIDE DEF ch
  <2>5. ch = x
    BY <2>2, <2>4
  <2>6. Min({x}) = x
    <3>1. {x} \subseteq Nat /\ {x} # {}
      BY <2>3
    <3>2. Min({x}) \in {x}
      BY <3>1, SmallestOf
    <3> QED BY <3>2
  <2> QED BY <1>2, <1>7, <1>8, <2>2, <2>3, <2>5, <2>6 DEF ch
<1> HIDE DEF at, c, h, mean
<1>13. /\ Count(m, {"host"}) = c({"host"}) /\ Count(m, {"te"}) = c({"te"})
       /\ Count(m, LengthNames) = c(LengthNames)
  BY <1>4 DEF c
<1>14. HeadersResult(p) =
            IF Meaning(m.line) = "v11" /\ at({"host"}) = {} THEN "BadRequest"
            ELSE IF at({"te"}) # {} THEN "UnsupportedTransferEncoding"
            ELSE IF at(LengthNames) = {} THEN "Complete"
            ELSE IF c(LengthNames) # 1 \/ ContentLength(p) = "badlength" THEN "BadRequest"
            ELSE IF Number[ContentLength(p)] > limits.body THEN "BodyTooLarge"
            ELSE "Complete"
  BY <1>6, <1>7 DEF HeadersResult, c
<1>15. /\ c({"te"}) > 0 <=> at({"te"}) # {}
       /\ c(LengthNames) > 1 <=> c(LengthNames) # 1 /\ at(LengthNames) # {}
  BY <1>11
<1>16. (c({"host"}) = 0 <=> at({"host"}) = {}) /\ (c(LengthNames) = 0 <=> at(LengthNames) = {})
       /\ (c({"te"}) = 0 <=> at({"te"}) = {})
  BY <1>11
<1>17. ContentLengths(p) = at(LengthNames)
  BY <1>7
<1> QED BY <1>10, <1>12, <1>13, <1>14, <1>15, <1>16, <1>17

\* What a turn takes from the front of the buffer.
LEMMA ConsumedBuffered ==
  ASSUME IInv, Buffered, NEW count \in 0 .. Len(input.bytes), input' = consume(input, count),
         UNCHANGED <<wire, sent>>
  PROVE  Buffered' /\ Taken' = Taken + count
<1> DEFINE b == input.bytes
           rest == SubSeq(b, count + 1, Len(b))
<1>1. b \in Seq(STRING) /\ Len(b) \in Nat /\ Taken \in Nat /\ sent \in Nat
      /\ Taken + Len(b) = sent /\ Len(wire) \in Nat
  BY BufferTyped
<1>2. rest \in Seq(STRING) /\ Len(rest) = Len(b) - count /\ \A i \in 1 .. Len(rest) : rest[i] = b[count + i]
  <2> DEFINE n == Len(b)
  <2>1. n \in Nat /\ b \in Seq(STRING) /\ rest = SubSeq(b, count + 1, n) /\ count \in 0 .. n
    BY <1>1
  <2> HIDE DEF n, b, rest
  <2>2. n = Len(b)
    BY DEF n
  <2>3. rest \in Seq(STRING) /\ Len(rest) = n - count
    BY <2>1, <2>2
  <2>4. \A i \in 1 .. n - count : rest[i] = b[count + i]
    BY <2>1, <2>2
  <2> QED BY <2>2, <2>3, <2>4
<1>3. input'.bytes = rest
  BY BufferTyped DEF consume, Buffers
<1>4. Taken + Len(b) <= Len(wire) /\ \A i \in 1 .. Len(b) : wire[Taken + i] = b[i]
  BY DEF Buffered, At
<1>5. Taken' = sent' - Len(rest)
  BY <1>3 DEF Taken
<1> HIDE DEF b, rest
<1>6. count \in 0 .. Len(b)
  BY DEF b
<1>7. Taken' = Taken + count
  <2> DEFINE n == Len(b)
             r == Len(rest)
             old == Taken
             new == Taken'
  <2>1. n \in Nat /\ r = n - count /\ count \in 0 .. n /\ old + n = sent /\ new = sent - r /\ old \in Nat
    BY <1>1, <1>2, <1>5, <1>6
  <2> HIDE DEF n, r, old, new
  <2>2. new = old + count
    BY <2>1
  <2> QED BY <2>2 DEF old, new
<1>8. Taken' \in Nat /\ Taken' + Len(rest) <= Len(wire)
  BY <1>1, <1>2, <1>4, <1>6, <1>7
<1>9. ASSUME NEW i \in 1 .. Len(rest) PROVE wire[Taken' + i] = rest[i]
  <2>1. count + i \in 1 .. Len(b) /\ Taken + (count + i) = Taken' + i
    BY <1>1, <1>2, <1>6, <1>7
  <2> QED BY <1>2, <1>4, <2>1
<1>10. At(wire', Taken', input'.bytes)
  BY <1>3, <1>8, <1>9 DEF At
<1> QED BY <1>7, <1>8, <1>10 DEF Buffered

LEMMA SameBytes ==
  ASSUME Buffered, input'.bytes = input.bytes, UNCHANGED <<wire, sent>>
  PROVE  Buffered' /\ Taken' = Taken
BY DEF Buffered, Taken, At

\* The bytes that arrive are the next of the wire.
LEMMA ReceivedBuffered ==
  ASSUME IInv, Buffered, NEW count, Receive(count)
  PROVE  Buffered' /\ Taken' = Taken /\ sent' = sent + count /\ count \in Nat /\ count # 0
<1> DEFINE b == input.bytes
           new == SubSeq(wire, sent + 1, sent + count)
<1>1. b \in Seq(Bytes) /\ Len(b) \in Nat /\ Taken \in Nat /\ sent \in Nat
      /\ Taken + Len(b) = sent /\ Len(wire) \in Nat /\ wire \in Seq(Bytes) /\ input \in Buffers
  BY BufferTyped
<1>2. count \in Nat /\ count # 0 /\ sent + count <= Len(wire)
  <2> DEFINE room == Len(wire) - sent
  <2>1. input.prepared \in Int /\ room \in Int
    BY <1>1 DEF Buffers
  <2>2. count \in 1 .. Min({input.prepared, room})
    BY DEF Receive
  <2> DEFINE least == Min({input.prepared, room})
  <2>3. least <= room /\ least \in Int
    BY <2>1, Extremes
  <2> HIDE DEF least
  <2>4. count \in 1 .. least
    BY <2>2 DEF least
  <2>5. count \in Nat /\ count # 0 /\ count <= room
    BY <2>1, <2>3, <2>4
  <2> QED BY <1>1, <2>5
<1>3. new \in Seq(Bytes) /\ Len(new) = count /\ \A i \in 1 .. count : new[i] = wire[sent + i]
  BY <1>1, <1>2
<1>4. input'.bytes = b \o new /\ wire' = wire /\ sent' = sent + count
  BY <1>1 DEF Receive, commit, Buffers
<1>5. \A i \in 1 .. Len(b) : wire[Taken + i] = b[i]
  BY DEF Buffered, At
<1>11. Taken' = sent' - Len(b \o new)
  BY <1>4 DEF Taken
<1> HIDE DEF b, new
<1>6. /\ Len(b \o new) = Len(b) + count
      /\ \A k \in 1 .. Len(b) + Len(new) : (b \o new)[k] = IF k <= Len(b) THEN b[k] ELSE new[k - Len(b)]
  BY <1>1, <1>3, ConcatProperties
<1>7. Taken' = Taken
  <2> DEFINE n == Len(b)
             old == Taken
             now == Taken'
  <2>1. n \in Nat /\ old + n = sent /\ now = (sent + count) - (n + count) /\ old \in Nat
    BY <1>1, <1>4, <1>6, <1>11
  <2> HIDE DEF n, old, now
  <2>2. now = old
    BY <1>2, <2>1
  <2> QED BY <2>2 DEF old, now
<1>8. Taken + Len(b \o new) <= Len(wire)
  BY <1>1, <1>2, <1>6
<1>9. ASSUME NEW k \in 1 .. Len(b \o new) PROVE wire[Taken + k] = (b \o new)[k]
  <2>1. k \in 1 .. Len(b) + Len(new)
    BY <1>3, <1>6
  <2>2. CASE k <= Len(b)
    BY <1>1, <1>3, <2>1, <2>2, <1>5, <1>6
  <2>3. CASE ~(k <= Len(b))
    <3> DEFINE n == Len(b)
               old == Taken
    <3>3. n \in Nat /\ old \in Nat /\ old + n = sent /\ k \in 1 .. n + count /\ ~(k <= n)
      BY <1>1, <1>3, <2>1, <2>3
    <3> HIDE DEF n, old
    <3>4. k - n \in 1 .. count /\ sent + (k - n) = old + k
      BY <1>2, <3>3
    <3>1. k - Len(b) \in 1 .. count /\ sent + (k - Len(b)) = Taken + k
      BY <3>4 DEF n, old
    <3>2. (b \o new)[k] = new[k - Len(b)]
      BY <1>6, <2>1, <2>3
    <3> QED BY <1>3, <3>1, <3>2
  <2> QED BY <2>2, <2>3
<1>10. At(wire', Taken', input'.bytes)
  BY <1>4, <1>7, <1>8, <1>9 DEF At
<1> QED BY <1>1, <1>2, <1>4, <1>7, <1>10 DEF Buffered

LEMMA Starts ==
  ASSUME Streaming
  PROVE  /\ Len(messages) \in Nat /\ StartOf(0) = 0 /\ StartOf(Len(messages)) = Len(wire)
         /\ \A k \in 0 .. Len(messages) : StartOf(k) \in Nat /\ StartOf(k) <= Len(wire)
         /\ \A k \in 0 .. Len(messages) - 1 :
              /\ StartOf(k + 1) = StartOf(k) + Len(Encoded(messages[k + 1]))
              /\ messages[k + 1] \in Messages /\ At(wire, StartOf(k), Encoded(messages[k + 1]))
<1>1. Len(messages) \in Nat /\ \A k \in 1 .. Len(messages) : messages[k] \in Messages
  BY DEF Streaming
<1>2. /\ Sent(messages) \in Seq(Bytes) /\ StartOf(0) = 0 /\ SubSeq(messages, 1, Len(messages)) = messages
      /\ \A k \in 0 .. Len(messages) - 1 :
              /\ StartOf(k) \in Nat
              /\ StartOf(k + 1) = StartOf(k) + Len(Encoded(messages[k + 1]))
              /\ StartOf(k + 1) <= Len(wire)
              /\ At(wire, StartOf(k), Encoded(messages[k + 1]))
  BY MessageAt DEF Streaming, StartOf
<1>3. StartOf(Len(messages)) = Len(wire)
  BY <1>2 DEF Streaming, StartOf
<1>4. \A k \in 0 .. Len(messages) - 1 : k + 1 \in 1 .. Len(messages)
  BY <1>1
<1>5. ASSUME NEW k \in 0 .. Len(messages) PROVE StartOf(k) \in Nat /\ StartOf(k) <= Len(wire)
  <2>1. Len(wire) \in Nat
    BY <1>2 DEF Streaming
  <2>2. CASE k = Len(messages)
    BY <1>3, <2>1, <2>2
  <2>3. CASE k # Len(messages)
    <3>1. k \in 0 .. Len(messages) - 1
      BY <1>1, <2>3
    <3> DEFINE size == Len(Encoded(messages[k + 1]))
    <3>2. size \in Nat
      BY <1>1, <1>4, <3>1, HeadAt
    <3>3. StartOf(k) \in Nat /\ StartOf(k + 1) = StartOf(k) + size /\ StartOf(k + 1) <= Len(wire)
      BY <1>2, <3>1
    <3> HIDE DEF size
    <3> QED BY <2>1, <3>2, <3>3
  <2> QED BY <2>2, <2>3
<1> QED BY <1>1, <1>2, <1>3, <1>4, <1>5

\* The parser is in front of line j of message k + 1.
LEMMA NextLine ==
  ASSUME IInv, Streaming, NEW k \in 0 .. Len(messages) - 1, NEW m, m = messages[k + 1], IsHead(m),
         NEW j \in 0 .. Len(m.headers) + 1, Taken = StartOf(k) + Ends(m, j)
  PROVE  /\ HasLine <=> sent >= StartOf(k) + Ends(m, j + 1)
         /\ HasLine => line_bytes = Len(Lines(m)[j + 1]) /\ Line = Lines(m)[j + 1]
         /\ Len(Lines(m)[j + 1]) \in Nat /\ Ends(m, j) \in Nat /\ StartOf(k) \in Nat
         /\ Ends(m, j + 1) = Ends(m, j) + Len(Lines(m)[j + 1]) + 2
         /\ sent = Taken + Len(input.bytes) /\ Len(input.bytes) \in Nat /\ sent \in Nat
         /\ StartOf(k) + Ends(m, j + 1) <= Len(wire)
<1> DEFINE line == Lines(m)[j + 1]
           start == StartOf(k)
           at == Ends(m, j)
           end == Ends(m, j + 1)
           all == Encoded(m)
<1>1. Buffered /\ m \in Messages /\ start \in Nat /\ At(wire, start, all)
  BY Starts DEF Streaming
<1>2. /\ all \in Seq(Bytes) /\ at \in Nat /\ end \in Nat /\ Len(line) \in Nat /\ end = at + Len(line) + 2
      /\ At(all, at, line \o CRLF)
  BY <1>1, HeadAt
<1>3. line \in Seq(STRING) /\ IsLine(line)
  <2>1. /\ Lines(m)[1] = m.line /\ Lines(m)[Len(m.headers) + 2] = <<>> /\ Len(m.headers) \in Nat
        /\ \A i \in 1 .. Len(m.headers) : Lines(m)[i + 1] = m.headers[i] /\ m.headers[i] \in Seq(STRING)
        /\ m.line \in Seq(STRING) /\ DOMAIN m.headers = 1 .. Len(m.headers)
    BY <1>1, LinesOf
  <2>2. CASE j = 0
    BY <2>1, <2>2 DEF IsHead
  <2>3. CASE j = Len(m.headers) + 1
    <3>1. line = <<>> /\ IsLine(<<>>)
      BY <2>1, <2>3 DEF IsLine
    <3> QED BY <3>1
  <2>4. CASE j # 0 /\ j # Len(m.headers) + 1
    <3>1. j \in 1 .. Len(m.headers)
      BY <2>1, <2>4
    <3> QED BY <2>1, <3>1 DEF IsHead, AreLines
  <2> QED BY <2>2, <2>3, <2>4
<1>4. line \in Seq(Bytes)
  BY <1>3, TextIsBytes
<1>5. wire \in Seq(Bytes) /\ Len(input.bytes) \in Nat /\ sent \in Nat /\ Taken \in Nat
      /\ Taken + Len(input.bytes) = sent
  BY <1>1, BufferTyped
<1> HIDE DEF line, start, at, end, all
<1>6. line \o CRLF \in Seq(Bytes) /\ Len(line \o CRLF) = Len(line) + 2
  BY <1>4, WithEnd
<1>7. At(wire, start + at, line \o CRLF)
  BY <1>1, <1>2, <1>5, <1>6, AtWithin
<1>8. Taken = start + at
  BY DEF start, at
<1>9. /\ HasLine <=> Len(input.bytes) >= Len(line) + 2
      /\ HasLine => line_bytes = Len(line) /\ Line = line
  BY <1>1, <1>3, <1>4, <1>7, <1>8, FindsLine
<1> DEFINE size == Len(input.bytes)
<1>10. size >= Len(line) + 2 <=> sent >= start + end
  <2>1. size \in Nat /\ Taken + size = sent
    BY <1>5
  <2> DEFINE n == Len(line)
             taken == Taken
  <2>2. /\ n \in Nat /\ start \in Nat /\ at \in Nat /\ end = at + n + 2 /\ taken = start + at
        /\ taken + size = sent /\ size \in Nat
    BY <1>1, <1>2, <1>8, <2>1
  <2> HIDE DEF size, n, taken
  <2>3. size >= n + 2 <=> sent >= start + end
    BY <2>2
  <2> QED BY <2>3 DEF n
<1>11. start + end <= Len(wire)
  BY <1>7, <1>1, <1>2, <1>6 DEF At
<1> QED BY <1>1, <1>2, <1>5, <1>9, <1>10, <1>11 DEF line, start, at, end

LEMMA SessionFacts ==
  ASSUME IInv, SessionInv, side = "request"
  PROVE  /\ Streaming /\ Len(handed) \in Nat /\ Len(messages) \in Nat /\ Len(handed) <= Len(messages)
         /\ Start \in Nat /\ parser \in Parsers /\ Len(input.bytes) \in Nat /\ sent \in Nat /\ Taken \in Nat
         /\ sent = Taken + Len(input.bytes)
         /\ limits \in ServerLimits
         /\ limits.request_line \in Nat /\ limits.header_line \in Nat /\ limits.header_bytes \in Nat
         /\ limits.header_count \in Nat /\ limits.body \in Nat
         /\ MoreComing => /\ Len(handed) \in 0 .. Len(messages) - 1 /\ Coming \in Messages
                          /\ IsHead(Coming) /\ IsRequest(Coming) /\ Len(Coming.headers) \in Nat
                          /\ Ends(Coming, 0) = 0
         /\ ~MoreComing => Start = Len(wire)
<1>1. Streaming
  BY DEF SessionInv, StreamInv, Streaming
<1>2. Len(handed) \in Nat /\ Len(messages) \in Nat /\ Len(handed) <= Len(messages)
  <2>1. handed \in Seq({RequestOf(m) : m \in Messages}) /\ messages \in Seq(Messages)
        /\ Len(handed) <= Len(messages)
    BY DEF SessionInv, StreamInv, HandedInv
  <2> DEFINE S == {RequestOf(m) : m \in Messages}
  <2>2. handed \in Seq(S)
    BY <2>1
  <2> HIDE DEF S
  <2>3. Len(handed) \in Nat
    BY <2>2
  <2> QED BY <2>1, <2>3
<1> DEFINE k == Len(handed)
           n == Len(messages)
<1>3. k \in Nat /\ n \in Nat /\ k <= n
  BY <1>2
<1>4. MoreComing => k \in 0 .. n - 1 /\ k + 1 \in 1 .. n
  BY <1>3 DEF MoreComing
<1>5. Start \in Nat
  BY <1>3, <1>1, Starts DEF Start
<1>6. ~MoreComing => Start = Len(wire)
  BY <1>3, <1>1, Starts DEF MoreComing, Start
<1>7. MoreComing => Coming \in Messages /\ IsRequest(Coming) /\ IsHead(Coming)
  BY <1>4 DEF SessionInv, StreamInv, Coming, IsRequest
<1>8. MoreComing => Len(Coming.headers) \in Nat /\ Ends(Coming, 0) = 0
  BY <1>7, LinesOf, HeadAt
<1>9. parser \in Parsers
  BY DEF IInv, RequestInv
<1>10. Len(input.bytes) \in Nat /\ sent \in Nat /\ Taken \in Nat /\ sent = Taken + Len(input.bytes)
  BY <1>1, BufferTyped DEF Streaming
<1>11. limits \in ServerLimits
  BY DEF IInv, LoopTyped
<1>12. /\ limits.request_line \in Nat /\ limits.header_line \in Nat /\ limits.header_bytes \in Nat
       /\ limits.header_count \in Nat /\ limits.body \in Nat
  BY <1>11 DEF ServerLimits
<1> QED BY <1>1, <1>2, <1>4, <1>5, <1>6, <1>7, <1>8, <1>9, <1>10, <1>11, <1>12

LEMMA Steady ==
  ASSUME UNCHANGED <<limits, messages, handed>>
  PROVE  /\ Coming' = Coming /\ Start' = Start /\ (MoreComing' <=> MoreComing)
         /\ \A i : (Fault(Coming, i))' = Fault(Coming, i)
         /\ (RequestFault(Coming))' = RequestFault(Coming)
         /\ \A e : OwnFault(e)' <=> OwnFault(e)
<1>1. limits' = limits
  OBVIOUS
<1>2. Coming' = Coming /\ Start' = Start /\ (MoreComing' <=> MoreComing)
  BY DEF Coming, Start, StartOf, MoreComing
<1>3. ASSUME NEW i PROVE (Fault(Coming, i))' = Fault(Coming, i)
  BY <1>1, <1>2 DEF Fault, LineFault, RequestLineLimit
<1>5. (RequestFault(Coming))' = RequestFault(Coming)
  <2>1. (HeadFault(Coming, RequestLineLimit, limits.header_line, Versions, HeaderNames))'
          = HeadFault(Coming, RequestLineLimit, limits.header_line, Versions, HeaderNames)
    BY <1>1, <1>2 DEF HeadFault, LineFault, RequestLineLimit
  <2> QED BY <1>1, <1>2, <2>1 DEF RequestFault
<1>6. ASSUME NEW e PROVE OwnFault(e)' <=> OwnFault(e)
  BY <1>1, <1>2, <1>5 DEF OwnFault
<1> QED BY <1>2, <1>3, <1>5, <1>6

LEMMA HandedStays ==
  ASSUME HandedInv, UNCHANGED <<limits, messages, handed, served>>,
         pc' # "closed" \/ outcome' # "none" => pc # "closed" \/ outcome # "none"
  PROVE  HandedInv'
<1>1. limits' = limits /\ messages' = messages /\ handed' = handed /\ served' = served
  OBVIOUS
<1>2. /\ handed' \in Seq({RequestOf(m) : m \in Messages}) /\ Len(handed') <= Len(messages')
      /\ (served' <=> Len(handed') # 0)
  BY <1>1 DEF HandedInv
<1>3. ASSUME NEW i \in 1 .. Len(handed)
      PROVE  /\ handed'[i] = RequestOf(messages'[i]) /\ (RequestFault(messages[i]))' = "none"
             /\ i < Len(handed) \/ pc' # "closed" \/ outcome' # "none" => keepAlive(RequestOf(messages'[i]))
  <2>1. /\ handed[i] = RequestOf(messages[i]) /\ RequestFault(messages[i]) = "none"
        /\ i < Len(handed) \/ pc # "closed" \/ outcome # "none" => keepAlive(RequestOf(messages[i]))
    BY DEF HandedInv
  <2>2. (RequestFault(messages[i]))' = RequestFault(messages[i])
    <3>1. (HeadFault(messages[i], RequestLineLimit, limits.header_line, Versions, HeaderNames))'
            = HeadFault(messages[i], RequestLineLimit, limits.header_line, Versions, HeaderNames)
      BY <1>1 DEF HeadFault, LineFault, RequestLineLimit
    <3> QED BY <1>1, <3>1 DEF RequestFault
  <2> QED BY <1>1, <2>1, <2>2
<1> QED BY <1>1, <1>2, <1>3 DEF HandedInv

\* What a turn of the request parser has to show.
LEMMA SessionTurn ==
  ASSUME IInv, SessionInv, side = "request", Running, ParserFrame, UNCHANGED <<responseParser, loopVars>>,
         Buffered', (AtStart \/ InHead \/ InBody \/ AtEnd \/ AtFault)'
  PROVE  SessionInv'
<1>1. StreamInv' /\ Place'
  BY DEF SessionInv, StreamInv, Place, ParserFrame, loopVars
<1>2. limits' = limits /\ messages' = messages /\ handed' = handed /\ pc' = pc /\ pc = "parse"
      /\ served' = served /\ outcome' = outcome /\ side' = side
  BY DEF ParserFrame, loopVars, Running
<1>3. outcome = "none"
  BY <1>2 DEF SessionInv, OutcomeInv
<1>4. HandedInv'
  BY <1>2, HandedStays DEF SessionInv
<1>5. DeadlineInv' /\ OutcomeInv'
  BY <1>2, <1>3 DEF DeadlineInv, OutcomeInv
<1> QED BY <1>1, <1>4, <1>5 DEF SessionInv

LEMMA SessionRefuses ==
  ASSUME IInv, SessionInv, side = "request", Running, ParserFrame, UNCHANGED <<responseParser, loopVars>>,
         Buffered', NEW e \in ParseErrors, fail(e), OwnFault(e)
  PROVE  SessionInv'
<1>1. UNCHANGED <<limits, messages, handed>>
  BY DEF ParserFrame, loopVars
<1>2. OwnFault(e)'
  BY <1>1, Steady
<1>3. result' = e
  BY DEF fail
<1>4. AtFault'
  BY <1>2, <1>3 DEF AtFault, OwnFault
<1> QED BY <1>4, SessionTurn

\* Inside the loop of parse the parser is before a line or in a body.
LEMMA RunningPlace ==
  ASSUME SessionInv, side = "request", Running
  PROVE  AtStart \/ InHead \/ InBody
BY DEF SessionInv, Place, Running, AtEnd, AtFault, ParseErrors

\* Before a line: which one it is.
LineBefore == IF parser.state = "RequestLine" THEN 0 ELSE Len(parser.headers) + 1

\* The parser is before line LineBefore, and the lines before it have been accepted.
LEMMA BeforeLine ==
  ASSUME IInv, SessionInv, side = "request", Running, parser.state \in {"RequestLine", "Headers"}
  PROVE  /\ parser.state = "RequestLine" <=> AtStart
         /\ parser.state = "Headers" <=> InHead
         /\ Taken = Start + Ends(Coming, LineBefore) \/ ~MoreComing
         /\ MoreComing => /\ LineBefore \in 0 .. Len(Coming.headers) + 1
                          /\ \A i \in 0 .. LineBefore - 1 : Fault(Coming, i) = "none"
                          /\ parser.header_bytes = Ends(Coming, LineBefore)
         /\ ~MoreComing => ~HasLine /\ Len(input.bytes) = 0 /\ parser.state = "RequestLine"
<1>1. /\ Streaming /\ Start \in Nat /\ parser \in Parsers /\ Len(input.bytes) \in Nat /\ sent \in Nat
      /\ Taken \in Nat /\ sent = Taken + Len(input.bytes)
      /\ MoreComing => Len(Coming.headers) \in Nat /\ Ends(Coming, 0) = 0
      /\ ~MoreComing => Start = Len(wire)
  BY SessionFacts
<1>2. AtStart => parser.state = "RequestLine"
  BY DEF AtStart, NewParser
<1>3. InHead => parser.state = "Headers"
  BY DEF InHead
<1>4. InBody => parser.state = "Body"
  BY DEF InBody
<1>5. (parser.state = "RequestLine" <=> AtStart) /\ (parser.state = "Headers" <=> InHead)
  BY <1>2, <1>3, <1>4, RunningPlace
<1>6. CASE AtStart
  <2>1. parser = NewParser /\ Taken = Start /\ LineBefore = 0 /\ parser.header_bytes = 0
    BY <1>2, <1>6 DEF AtStart, LineBefore, NewParser
  <2>2. MoreComing => /\ Taken = Start + Ends(Coming, 0) /\ 0 \in 0 .. Len(Coming.headers) + 1
                      /\ parser.header_bytes = Ends(Coming, 0)
    BY <1>1, <2>1
  <2>3. ~MoreComing => ~HasLine /\ Len(input.bytes) = 0
    <3>1. SUFFICES ASSUME ~MoreComing PROVE ~HasLine /\ Len(input.bytes) = 0
      OBVIOUS
    <3>2. sent <= Len(wire)
      BY <1>1, BufferTyped DEF Streaming
    <3>3. Len(input.bytes) = 0
      <4> DEFINE size == Len(input.bytes)
                 taken == Taken
                 whole == Len(wire)
      <4>1. size \in Nat /\ sent = taken + size /\ taken = whole /\ sent <= whole /\ taken \in Nat
        BY <1>1, <2>1, <3>1, <3>2
      <4> HIDE DEF size, taken, whole
      <4>2. size = 0
        BY <4>1
      <4> QED BY <4>2 DEF size
    <3>4. 1 .. Len(input.bytes) - 1 = {}
      BY <3>3
    <3>5. line_bytes = NoCrlf
      BY <3>4 DEF line_bytes, findCrlf
    <3> QED BY <3>3, <3>5 DEF HasLine
  <2> QED BY <1>2, <1>5, <1>6, <2>1, <2>2, <2>3
<1>7. CASE InHead
  <2> DEFINE n == Len(parser.headers)
  <2>1. /\ MoreComing /\ n <= Len(Coming.headers) /\ parser.header_bytes = Ends(Coming, n + 1)
        /\ \A i \in 0 .. n : Fault(Coming, i) = "none" /\ Taken = Start + Ends(Coming, n + 1)
    BY <1>7 DEF InHead
  <2>2. n \in Nat
    BY <1>1 DEF Parsers
  <2>3. LineBefore = n + 1
    BY <1>3, <1>7 DEF LineBefore
  <2> HIDE DEF n
  <2>4. (n + 1) - 1 = n /\ n + 1 \in 0 .. Len(Coming.headers) + 1 /\ Taken = Start + Ends(Coming, n + 1)
    BY <2>2, <1>1, <2>1
  <2> QED BY <1>5, <1>7, <2>1, <2>3, <2>4
<1> QED BY <1>5, <1>6, <1>7

\* The line the parser is before, and what LineTooLarge says of it.
LEMMA TheLine ==
  ASSUME IInv, SessionInv, side = "request", Running, parser.state \in {"RequestLine", "Headers"},
         MoreComing, NEW j, j = LineBefore, NEW n, n = Len(Coming.headers), NEW l, l = Lines(Coming)[j + 1]
  PROVE  /\ HasLine <=> sent >= Start + Ends(Coming, j + 1)
         /\ HasLine => line_bytes = Len(l) /\ Line = l
         /\ n \in Nat /\ j \in 0 .. n + 1 /\ Len(l) \in Nat /\ Ends(Coming, j) \in Nat
         /\ Ends(Coming, j + 1) = Ends(Coming, j) + Len(l) + 2
         /\ (j = 0 <=> parser.state = "RequestLine")
         /\ (j = 0 => l = Coming.line) /\ (j \in 1 .. n => l = Coming.headers[j] /\ l # <<>>)
         /\ (j = n + 1 => l = <<>>) /\ DOMAIN Coming.headers = 1 .. n
         /\ Taken = Start + Ends(Coming, j) /\ parser.header_bytes = Ends(Coming, j)
         /\ HasLine => /\ LineTooLarge => TooLarge(Coming, j)
                       /\ ~LineTooLarge => (TooLarge(Coming, j) <=> j \in 1 .. n /\ j > limits.header_count)
<1>1. /\ Streaming /\ Start \in Nat /\ Coming \in Messages /\ IsHead(Coming) /\ n \in Nat
      /\ limits.request_line \in Nat /\ limits.header_line \in Nat /\ limits.header_bytes \in Nat
      /\ limits.header_count \in Nat /\ Len(handed) \in 0 .. Len(messages) - 1 /\ parser \in Parsers
  BY SessionFacts
<1>2. Taken = Start + Ends(Coming, j) /\ j \in 0 .. n + 1 /\ parser.header_bytes = Ends(Coming, j)
  BY BeforeLine
<1>3. /\ HasLine <=> sent >= Start + Ends(Coming, j + 1)
      /\ HasLine => line_bytes = Len(l) /\ Line = l
      /\ Len(l) \in Nat /\ Ends(Coming, j) \in Nat
      /\ Ends(Coming, j + 1) = Ends(Coming, j) + Len(l) + 2
  <2>1. Coming = messages[Len(handed) + 1] /\ Start = StartOf(Len(handed))
    BY DEF Coming, Start
  <2> QED BY <1>1, <1>2, <2>1, NextLine
<1>4. /\ Lines(Coming)[1] = Coming.line /\ Lines(Coming)[n + 2] = <<>> /\ DOMAIN Coming.headers = 1 .. n
      /\ \A i \in 1 .. n : Lines(Coming)[i + 1] = Coming.headers[i]
  BY <1>1, LinesOf
<1>5. \A i \in 1 .. n : Coming.headers[i] # <<>>
  BY <1>1, <1>4 DEF IsHead, AreLines
<1>6. j = 0 <=> parser.state = "RequestLine"
  BY <1>1 DEF Parsers, LineBefore
<1>7. (j = 0 => l = Coming.line) /\ (j \in 1 .. n => l = Coming.headers[j] /\ l # <<>>) /\ (j = n + 1 => l = <<>>)
  <2>1. j = 0 => j + 1 = 1
    OBVIOUS
  <2>2. j = n + 1 => j + 1 = n + 2
    BY <1>1
  <2> QED BY <1>4, <1>5, <2>1, <2>2
<1>8. ASSUME HasLine
      PROVE /\ LineTooLarge => TooLarge(Coming, j)
            /\ ~LineTooLarge => (TooLarge(Coming, j) <=> j \in 1 .. n /\ j > limits.header_count)
  <2> DEFINE size == Len(l)
             before == Ends(Coming, j)
             after == Ends(Coming, j + 1)
  <2>1. size \in Nat /\ before \in Nat /\ after = before + size + 2 /\ line_bytes = size
    BY <1>3, <1>8
  <2>2. LineTooLarge <=> \/ size + 2 > limits.header_bytes
                         \/ j = 0 /\ size > limits.request_line
                         \/ j # 0 /\ (size > limits.header_line \/ before > limits.header_bytes - (size + 2))
    BY <1>2, <1>6, <2>1 DEF LineTooLarge
  <2>3. TooLarge(Coming, j) <=> \/ after > limits.header_bytes
                                \/ j = 0 /\ size > limits.request_line
                                \/ j \in 1 .. n /\ (size > limits.header_line \/ j > limits.header_count)
    BY <1>7, <1>4 DEF TooLarge
  <2>4. j = n + 1 => size = 0
    BY <1>7
  <2>5. j = 0 => before = 0
    BY <1>1, HeadAt
  <2> HIDE DEF size, before, after
  <2>6. after > limits.header_bytes <=> before > limits.header_bytes - (size + 2)
    BY <1>1, <2>1
  <2>7. size + 2 > limits.header_bytes => after > limits.header_bytes
    BY <1>1, <2>1
  <2>8. size > limits.header_line => j # n + 1
    BY <1>1, <2>1, <2>4
  <2>9. j # 0 /\ j # n + 1 <=> j \in 1 .. n
    <3>1. n \in Nat /\ j \in 0 .. n + 1
      BY <1>1, <1>2
    <3>2. ASSUME NEW a \in Nat, NEW b \in 0 .. a + 1 PROVE b # 0 /\ b # a + 1 <=> b \in 1 .. a
      OBVIOUS
    <3> QED BY <3>1, <3>2
  <2>10. j = 0 /\ after > limits.header_bytes => size + 2 > limits.header_bytes
    BY <1>1, <2>1, <2>5
  <2> HIDE DEF LineTooLarge, TooLarge
  <2> QED BY <2>2, <2>3, <2>6, <2>7, <2>8, <2>9, <2>10
<1> QED BY <1>1, <1>2, <1>3, <1>4, <1>6, <1>7, <1>8

LEMMA LineFaulty ==
  ASSUME IInv, SessionInv, side = "request", Running, parser.state \in {"RequestLine", "Headers"}, MoreComing
  PROVE  /\ TooLarge(Coming, LineBefore) => OwnFault("HeaderTooLarge")
         /\ ~TooLarge(Coming, LineBefore) /\ Malformed(Coming, LineBefore) => OwnFault("BadRequest")
<1>1. Coming \in Messages /\ LineBefore \in 0 .. Len(Coming.headers) + 1 /\ limits \in ServerLimits
      /\ \A i \in 0 .. LineBefore - 1 : Fault(Coming, i) = "none"
  BY SessionFacts, BeforeLine
<1> QED BY <1>1, LineRefused DEF OwnFault

LEMMA NoLinePlaces ==
  ASSUME IInv, SessionInv, side = "request", ParseNoLine, UNCHANGED <<responseParser, loopVars>>
  PROVE  SessionInv'
<1> USE DEF ParseNoLine
<1>1. Running /\ ParserFrame /\ input' = input /\ ~HasLine /\ parser.state \in {"RequestLine", "Headers"}
  OBVIOUS
<1>2. Buffered' /\ Taken' = Taken
  BY <1>1, SameBytes DEF SessionInv, ParserFrame
<1>3. UNCHANGED <<limits, messages, handed>> /\ sent' = sent
  BY <1>1 DEF ParserFrame, loopVars
<1> DEFINE j == LineBefore
           l == Lines(Coming)[j + 1]
           size == Len(input.bytes)
<1>4. size \in Nat /\ sent = Taken + size /\ Start \in Nat /\ limits.request_line \in Nat /\ limits.header_bytes \in Nat
  BY SessionFacts
<1>5. MoreComing => /\ ~(sent >= Start + Ends(Coming, j + 1)) /\ Len(l) \in Nat /\ Ends(Coming, j) \in Nat
                    /\ Ends(Coming, j + 1) = Ends(Coming, j) + Len(l) + 2
                    /\ Taken = Start + Ends(Coming, j) /\ parser.header_bytes = Ends(Coming, j)
                    /\ (j = 0 <=> parser.state = "RequestLine") /\ (j = 0 => l = Coming.line)
  BY <1>1, TheLine, ZenonT(30)
<1>6. ~MoreComing => size = 0 /\ parser.state = "RequestLine"
  BY <1>1, BeforeLine
<1>7. MoreComing => size < Len(l) + 2
  <2> DEFINE a == Len(l)
             b == Ends(Coming, j)
             c == Ends(Coming, j + 1)
             t == Taken
  <2>1. MoreComing => ~(sent >= Start + c) /\ a \in Nat /\ b \in Nat /\ c = b + a + 2 /\ t = Start + b
    BY <1>5
  <2>2. sent = t + size /\ Start \in Nat /\ size \in Nat
    BY <1>4
  <2> HIDE DEF a, b, c, t, size
  <2>3. MoreComing => size < a + 2
    BY <2>1, <2>2
  <2> QED BY <2>3 DEF a
<1>8. CASE \/ parser.state = "RequestLine" /\ size > limits.request_line
           \/ parser.state = "Headers" /\ parser.header_bytes + size > limits.header_bytes
  <2>1. fail("HeaderTooLarge")
    BY <1>8 DEF readableBytes
  <2>2. MoreComing
    BY <1>4, <1>6, <1>8
  <2>3. OwnFault("HeaderTooLarge")
    <3> DEFINE a == Len(l)
               b == Ends(Coming, j)
               c == Ends(Coming, j + 1)
    <3>1. a \in Nat /\ b \in Nat /\ c = b + a + 2 /\ parser.header_bytes = b /\ size < a + 2
      BY <1>5, <1>7, <2>2
    <3>2. CASE parser.state = "RequestLine"
      <4>1. j = 0 /\ a = Len(Coming.line) /\ size > limits.request_line
        BY <1>5, <1>8, <2>2, <3>2
      <4> HIDE DEF a, size
      <4>2. a = limits.request_line \/ a > limits.request_line
        BY <1>4, <3>1, <4>1, SMTT(30)
      <4>3. a > limits.request_line => TooLarge(Coming, j)
        BY <4>1 DEF TooLarge
      <4>4. a = limits.request_line => OwnFault("HeaderTooLarge")
        BY <2>2, <4>1 DEF OwnFault
      <4> QED BY <1>1, <2>2, <4>2, <4>3, <4>4, LineFaulty
    <3>3. CASE parser.state = "Headers"
      <4>1. b + size > limits.header_bytes
        BY <1>8, <3>1, <3>3
      <4> HIDE DEF a, b, c, size
      <4>2. c > limits.header_bytes
        BY <1>4, <3>1, <4>1
      <4>3. TooLarge(Coming, j)
        BY <4>2 DEF TooLarge, c
      <4> QED BY <1>1, <2>2, <4>3, LineFaulty
    <3> QED BY <1>1, <3>2, <3>3
  <2>4. "HeaderTooLarge" \in ParseErrors
    BY DEF ParseErrors
  <2> QED BY <1>1, <1>2, <2>1, <2>3, <2>4, SessionRefuses
<1>9. CASE ~ \/ parser.state = "RequestLine" /\ size > limits.request_line
             \/ parser.state = "Headers" /\ parser.header_bytes + size > limits.header_bytes
  <2>1. parser' = parser /\ result' = "NeedMore"
    BY <1>9 DEF readableBytes, Goes
  <2>2. /\ Coming' = Coming /\ Start' = Start /\ (MoreComing' <=> MoreComing)
        /\ \A i : (Fault(Coming, i))' = Fault(Coming, i)
    BY <1>3, Steady
  <2>3. CASE parser.state = "RequestLine"
    <3>1. AtStart
      BY <1>1, <2>3, BeforeLine
    <3>2. MoreComing => sent < Start + Ends(Coming, 1)
      <4>1. MoreComing => j = 0 /\ ~(sent >= Start + Ends(Coming, 0 + 1)) /\ Ends(Coming, 0 + 1) \in Nat
        BY <1>5, <2>3
      <4>2. 0 + 1 = 1 /\ sent \in Nat
        BY SessionFacts
      <4> QED BY <1>4, <4>1, <4>2
    <3>3. AtStart'
      BY <1>2, <1>3, <2>1, <2>2, <3>1, <3>2 DEF AtStart
    <3> QED BY <1>1, <1>2, <3>3, SessionTurn
  <2>4. CASE parser.state = "Headers"
    <3>1. InHead
      BY <1>1, <2>4, BeforeLine
    <3>2. MoreComing
      BY <3>1 DEF InHead
    <3>3. sent < Start + Ends(Coming, Len(parser.headers) + 2)
      <4>1. j + 1 = Len(parser.headers) + 2
        BY SessionFacts, <2>4 DEF Parsers, LineBefore
      <4>3. Ends(Coming, j + 1) \in Nat
        BY <1>5, <3>2
      <4>2. sent \in Nat /\ Ends(Coming, j + 1) \in Nat
        BY <4>3, SessionFacts
      <4> QED BY <1>4, <1>5, <3>2, <4>1, <4>2
    <3>4. InHead'
      BY <1>2, <1>3, <2>1, <2>2, <3>1, <3>3 DEF InHead
    <3> QED BY <1>1, <1>2, <3>4, SessionTurn
  <2> QED BY <1>1, <2>3, <2>4
<1> QED BY <1>8, <1>9

LEMMA LongLinePlaces ==
  ASSUME IInv, SessionInv, side = "request", ParseLongLine, UNCHANGED <<responseParser, loopVars>>
  PROVE  SessionInv'
<1>1. /\ Running /\ ParserFrame /\ input' = input /\ HasLine /\ LineTooLarge /\ fail("HeaderTooLarge")
      /\ parser.state \in {"RequestLine", "Headers"}
  BY DEF ParseLongLine
<1>2. Buffered'
  BY <1>1, SameBytes DEF SessionInv, ParserFrame
<1>3. MoreComing
  BY <1>1, BeforeLine
<1>4. TooLarge(Coming, LineBefore)
  BY <1>1, <1>3, TheLine
<1>5. OwnFault("HeaderTooLarge")
  BY <1>1, <1>3, <1>4, LineFaulty
<1>6. "HeaderTooLarge" \in ParseErrors
  BY DEF ParseErrors
<1> QED BY <1>1, <1>2, <1>5, <1>6, SessionRefuses

\* A line has been taken: where the parser is then.
LEMMA LineTakenAt ==
  ASSUME IInv, SessionInv, side = "request", TakeLine, parser.state \in {"RequestLine", "Headers"},
         UNCHANGED <<responseParser, loopVars>>
  PROVE  /\ Running /\ ParserFrame /\ HasLine /\ MoreComing /\ Buffered' /\ ~LineTooLarge
         /\ Taken' = Start + Ends(Coming, LineBefore + 1)
         /\ Ends(Coming, LineBefore + 1) = Ends(Coming, LineBefore) + line_bytes + 2
         /\ UNCHANGED <<limits, messages, handed>>
         /\ Line = Lines(Coming)[LineBefore + 1] /\ line_bytes \in Nat /\ line_bytes = Len(Line)
<1>1. /\ Running /\ ParserFrame /\ HasLine /\ ~LineTooLarge /\ input' = consume(input, line_bytes + 2)
      /\ UNCHANGED <<wire, sent>> /\ UNCHANGED <<limits, messages, handed>>
  BY DEF TakeLine, ParserFrame, loopVars
<1>2. MoreComing
  BY <1>1, BeforeLine
<1> DEFINE j == LineBefore
<1>3. /\ line_bytes = Len(Lines(Coming)[j + 1]) /\ Line = Lines(Coming)[j + 1]
      /\ Len(Lines(Coming)[j + 1]) \in Nat
      /\ Ends(Coming, j + 1) = Ends(Coming, j) + Len(Lines(Coming)[j + 1]) + 2
      /\ Taken = Start + Ends(Coming, j) /\ Ends(Coming, j) \in Nat
  BY <1>1, <1>2, TheLine, ZenonT(30)
<1>4. line_bytes + 2 \in 0 .. Len(input.bytes)
  BY <1>1, LineMeans DEF IInv, BufferInv
<1>5. Buffered' /\ Taken' = Taken + (line_bytes + 2)
  BY <1>1, <1>4, ConsumedBuffered DEF SessionInv
<1>6. Start \in Nat
  BY SessionFacts
<1> DEFINE a == Ends(Coming, j)
           b == Ends(Coming, j + 1)
           s == line_bytes
           t == Taken
<1>7. s \in Nat /\ a \in Nat /\ b = a + s + 2 /\ t = Start + a /\ Taken' = t + (s + 2)
  BY <1>3, <1>5
<1> HIDE DEF a, b, s, t
<1>8. Taken' = Start + b
  BY <1>6, <1>7
<1> QED BY <1>1, <1>2, <1>3, <1>5, <1>7, <1>8 DEF a, b, s

LEMMA RequestLinePlaces ==
  ASSUME IInv, SessionInv, side = "request", ParseRequestLine, UNCHANGED <<responseParser, loopVars>>
  PROVE  SessionInv'
<1>1. parser.state = "RequestLine" /\ TakeLine /\ LineBefore = 0 /\ parser.state \in {"RequestLine", "Headers"}
  BY DEF ParseRequestLine, LineBefore
<1>2. /\ Running /\ ParserFrame /\ HasLine /\ MoreComing /\ Buffered' /\ ~LineTooLarge
      /\ Taken' = Start + Ends(Coming, 0 + 1)
      /\ Ends(Coming, 0 + 1) = Ends(Coming, 0) + line_bytes + 2
      /\ UNCHANGED <<limits, messages, handed>>
      /\ Line = Lines(Coming)[0 + 1] /\ line_bytes \in Nat
  BY <1>1, LineTakenAt
<1>3. 0 + 1 = 1 /\ Ends(Coming, 0) = 0 /\ Coming \in Messages /\ parser \in Parsers /\ Len(Coming.headers) \in Nat
  BY <1>2, SessionFacts
<1>4. Line = Coming.line
  BY <1>2, <1>3, LinesOf
<1>5. ~TooLarge(Coming, 0)
  <2> DEFINE n == Len(Coming.headers)
  <2>1. TooLarge(Coming, LineBefore) <=> LineBefore \in 1 .. n /\ LineBefore > limits.header_count
    BY <1>1, <1>2, TheLine
  <2>2. n \in Nat
    BY <1>3
  <2> HIDE DEF n
  <2>3. 0 \notin 1 .. n
    BY <2>2
  <2> QED BY <1>1, <2>1, <2>3
<1>6. CASE Meaning(Line) \in Versions
  <2>1. /\ parser' = [parser EXCEPT !.state = "Headers", !.version = Meaning(Line),
                                    !.header_bytes = line_bytes + 2]
        /\ result' = "Running"
    BY <1>6 DEF ParseRequestLine, Goes
  <2>2. AtStart
    BY <1>1, <1>2, BeforeLine
  <2>3. parser.headers = <<>> /\ parser.body = <<>>
    BY <2>2 DEF AtStart, NewParser
  <2>4. /\ parser'.state = "Headers" /\ parser'.version = Meaning(Coming.line) /\ parser'.headers = <<>>
        /\ parser'.body = <<>> /\ parser'.header_bytes = line_bytes + 2
    BY <1>3, <1>4, <2>1, <2>3 DEF Parsers
  <2>5. /\ Coming' = Coming /\ Start' = Start /\ (MoreComing' <=> MoreComing)
        /\ \A i : (Fault(Coming, i))' = Fault(Coming, i)
    BY <1>2, Steady
  <2>6. Fault(Coming, 0) = "none"
    <3>1. ~Malformed(Coming, 0)
      BY <1>3, LinesOf, <1>4, <1>6 DEF Malformed
    <3>3. limits \in ServerLimits
      BY <1>2, SessionFacts
    <3>4. Len(Coming.headers) \in Nat
      BY <1>3
    <3>2. 0 \in 0 .. Len(Coming.headers) + 1
      BY <3>4
    <3> QED BY <1>3, <1>5, <3>1, <3>2, <3>3, FaultIs
  <2>7. Ends(Coming, 1) = line_bytes + 2
    BY <1>2, <1>3
  <2>8. Len(<<>>) = 0 /\ 0 <= Len(Coming.headers) /\ 1 .. 0 = {} /\ 0 .. 0 = {0}
    BY <1>3
  <2>9. /\ result' # "NeedMore" /\ result' \in {"Running", "NeedMore"}
        /\ Len(parser'.headers) = 0 /\ Taken' = Start + Ends(Coming, 1)
    BY <1>2, <1>3, <2>1, <2>4, <2>8
  <2>10. InHead'
    BY <1>2, <1>3, <2>4, <2>5, <2>6, <2>7, <2>8, <2>9 DEF InHead
  <2> QED BY <1>2, <2>10, SessionTurn
<1>7. CASE Meaning(Line) \notin Versions
  BY <1>7, <1>4, <1>1, <1>2, <1>5, LineFaulty, SessionRefuses DEF ParseRequestLine, Malformed,
     ParseErrors
<1> QED BY <1>6, <1>7

LEMMA HeaderPlaces ==
  ASSUME IInv, SessionInv, side = "request", ParseHeader, UNCHANGED <<responseParser, loopVars>>
  PROVE  SessionInv'
<1> DEFINE c == Len(parser.headers)
           j == c + 1
           n == Len(Coming.headers)
<1>1. /\ parser.state = "Headers" /\ TakeLine /\ LineBefore = j /\ Line # <<>>
      /\ parser.state \in {"RequestLine", "Headers"}
  BY DEF ParseHeader, LineBefore
<1>2. /\ Running /\ ParserFrame /\ HasLine /\ MoreComing /\ Buffered' /\ ~LineTooLarge
      /\ Taken' = Start + Ends(Coming, j + 1)
      /\ Ends(Coming, j + 1) = Ends(Coming, j) + line_bytes + 2
      /\ UNCHANGED <<limits, messages, handed>>
      /\ Line = Lines(Coming)[j + 1] /\ line_bytes \in Nat
  BY <1>1, LineTakenAt
<1>3. Coming \in Messages /\ parser \in Parsers /\ n \in Nat /\ limits.header_count \in Nat /\ c \in Nat
  BY <1>2, SessionFacts DEF Parsers
<1>4. InHead
  BY <1>1, <1>2, BeforeLine
<1>5. /\ c <= n /\ parser.version = Meaning(Coming.line) /\ parser.body = <<>>
      /\ \A i \in 1 .. c : parser.headers[i] = Meaning(Coming.headers[i])
      /\ parser.header_bytes = Ends(Coming, j) /\ \A i \in 0 .. c : Fault(Coming, i) = "none"
  BY <1>4 DEF InHead
<1>6. j \in 1 .. n /\ Line = Coming.headers[j] /\ DOMAIN Coming.headers = 1 .. n
      /\ (TooLarge(Coming, j) <=> j > limits.header_count)
  <2>1. /\ j \in 0 .. n + 1 /\ (j = n + 1 => Lines(Coming)[j + 1] = <<>>) /\ DOMAIN Coming.headers = 1 .. n
        /\ (j \in 1 .. n => Lines(Coming)[j + 1] = Coming.headers[j])
        /\ (TooLarge(Coming, j) <=> j \in 1 .. n /\ j > limits.header_count)
    BY <1>1, <1>2, TheLine
  <2>2. j # n + 1
    BY <1>1, <1>2, <2>1
  <2>3. j \in 1 .. n
    <3> HIDE DEF c, n
    <3>1. c + 1 \in 0 .. n + 1 /\ c + 1 # n + 1
      BY <2>1, <2>2
    <3> QED BY <1>3, <3>1
  <2> QED BY <1>2, <2>1, <2>3
<1>7. j # 0
  BY <1>3
<1>8. CASE c + 1 > limits.header_count
  <2>1. fail("HeaderTooLarge")
    BY <1>8 DEF ParseHeader
  <2>2. OwnFault("HeaderTooLarge")
    BY <1>1, <1>2, <1>6, <1>8, LineFaulty
  <2>3. "HeaderTooLarge" \in ParseErrors
    BY DEF ParseErrors
  <2> QED BY <1>2, <2>1, <2>2, <2>3, SessionRefuses
<1>9. CASE ~(c + 1 > limits.header_count) /\ Meaning(Line) \notin HeaderNames
  BY <1>9, <1>6, <1>1, <1>2, LineFaulty, SessionRefuses DEF ParseHeader, Malformed, ParseErrors
<1>10. CASE ~(c + 1 > limits.header_count) /\ Meaning(Line) \in HeaderNames
  <2> DEFINE h == parser.headers
             x == Meaning(Line)
  <2>1. /\ parser' = [parser EXCEPT !.headers = Append(h, x), !.header_bytes = (@ + line_bytes) + 2]
        /\ result' = "Running"
    BY <1>10 DEF ParseHeader, Goes
  <2>2. h \in Seq(HeaderNames) /\ x \in HeaderNames /\ c = Len(h)
    BY <1>3, <1>10 DEF Parsers
  <2> HIDE DEF x
  <2>3. Len(Append(h, x)) = c + 1 /\ Append(h, x)[c + 1] = x /\ \A i \in 1 .. c : Append(h, x)[i] = h[i]
    BY <2>2
  <2>4. /\ parser'.state = "Headers" /\ parser'.version = Meaning(Coming.line)
        /\ parser'.headers = Append(h, x) /\ parser'.body = <<>>
        /\ parser'.header_bytes = (parser.header_bytes + line_bytes) + 2
    BY <1>1, <1>3, <1>5, <2>1 DEF Parsers
  <2>5. parser'.header_bytes = Ends(Coming, j + 1)
    BY <1>2, <1>5, <2>4
  <2>6. /\ Coming' = Coming /\ Start' = Start /\ (MoreComing' <=> MoreComing)
        /\ \A i : (Fault(Coming, i))' = Fault(Coming, i)
    BY <1>2, Steady
  <2>7. Fault(Coming, j) = "none"
    <3>1. ~Malformed(Coming, j)
      BY <1>6, <1>7, <1>10 DEF Malformed
    <3>2. limits \in ServerLimits /\ Coming \in Messages /\ j \in 0 .. Len(Coming.headers) + 1
      BY <1>1, <1>2, TheLine, SessionFacts
    <3> QED BY <1>6, <1>10, <3>1, <3>2, FaultIs
  <2>8. \A i \in 0 .. j : Fault(Coming, i) = "none"
    BY <1>3, <1>5, <2>7
  <2>9. \A i \in 1 .. j : Append(h, x)[i] = Meaning(Coming.headers[i])
    BY <1>3, <1>5, <1>6, <2>3 DEF x
  <2>10. j <= n
    BY <1>6
  <2>11. Len(parser'.headers) = j /\ result' = "Running"
    BY <2>1, <2>3, <2>4
  <2> HIDE DEF c, j, n, h
  <2>12. InHead'
    BY <1>2, <2>4, <2>5, <2>6, <2>8, <2>9, <2>10, <2>11 DEF InHead, n
  <2> QED BY <1>2, <2>12, SessionTurn
<1> QED BY <1>8, <1>9, <1>10

\* finishHeaders has the headers of the whole head before it.
LEMMA WholeHead ==
  ASSUME IInv, SessionInv, side = "request", FinishHeaders, UNCHANGED <<responseParser, loopVars>>
  PROVE  /\ Running /\ ParserFrame /\ MoreComing /\ Buffered' /\ UNCHANGED <<limits, messages, handed>>
         /\ Taken' = Start + HeadBytes(Coming)
         /\ parser.version = Meaning(Coming.line) /\ parser.headers = Meanings(Coming)
         /\ parser.body = <<>> /\ \A i \in 0 .. Len(Coming.headers) + 1 : Fault(Coming, i) = "none"
<1> DEFINE c == Len(parser.headers)
           j == c + 1
           n == Len(Coming.headers)
<1>1. /\ parser.state = "Headers" /\ TakeLine /\ LineBefore = j /\ Line = <<>>
      /\ parser.state \in {"RequestLine", "Headers"}
  BY DEF FinishHeaders, LineBefore
<1>2. /\ Running /\ ParserFrame /\ HasLine /\ MoreComing /\ Buffered' /\ ~LineTooLarge
      /\ Taken' = Start + Ends(Coming, j + 1)
      /\ UNCHANGED <<limits, messages, handed>>
      /\ Line = Lines(Coming)[j + 1]
  BY <1>1, LineTakenAt
<1>3. Coming \in Messages /\ parser \in Parsers /\ n \in Nat /\ c \in Nat
  BY <1>2, SessionFacts DEF Parsers
<1>4. InHead
  BY <1>1, <1>2, BeforeLine
<1>5. /\ parser.version = Meaning(Coming.line) /\ parser.body = <<>>
      /\ \A i \in 1 .. c : parser.headers[i] = Meaning(Coming.headers[i])
      /\ \A i \in 0 .. c : Fault(Coming, i) = "none"
  BY <1>4 DEF InHead
<1>6. /\ j \in 0 .. n + 1 /\ DOMAIN Coming.headers = 1 .. n /\ (j \in 1 .. n => Line # <<>>)
      /\ (TooLarge(Coming, j) <=> j \in 1 .. n /\ j > limits.header_count)
  BY <1>1, <1>2, TheLine
<1>7. c = n /\ j # 0 /\ j \notin 1 .. n
  <2> HIDE DEF c, n
  <2>1. c + 1 \in 0 .. n + 1 /\ c + 1 \notin 1 .. n
    BY <1>1, <1>6
  <2> QED BY <1>3, <2>1
<1>8. Fault(Coming, j) = "none"
  BY <1>6, <1>7, <1>2, SessionFacts, FaultIs DEF Malformed
<1>9. \A i \in 0 .. n + 1 : Fault(Coming, i) = "none"
  BY <1>3, <1>7, <1>5, <1>8
<1>10. parser.headers = Meanings(Coming)
  <2> DEFINE h == parser.headers
  <2>1. h \in Seq(HeaderNames) /\ c = Len(h)
    BY <1>3 DEF Parsers
  <2>2. h = [i \in 1 .. c |-> h[i]]
    BY <2>1
  <2>3. Meanings(Coming) = [i \in 1 .. n |-> Meaning(Coming.headers[i])]
    BY <1>6 DEF Meanings
  <2> HIDE DEF h, c, n
  <2>4. \A i \in 1 .. c : h[i] = Meaning(Coming.headers[i])
    BY <1>5 DEF h
  <2> QED BY <1>7, <2>2, <2>3, <2>4 DEF h
<1>11. Taken' = Start + HeadBytes(Coming)
  BY <1>3, HeadAt, <1>7, <1>2
<1> QED BY <1>2, <1>5, <1>9, <1>10, <1>11

LEMMA FinishHeadersPlaces ==
  ASSUME IInv, SessionInv, side = "request", FinishHeaders, UNCHANGED <<responseParser, loopVars>>
  PROVE  SessionInv'
<1>1. /\ Running /\ ParserFrame /\ MoreComing /\ Buffered' /\ UNCHANGED <<limits, messages, handed>>
      /\ Taken' = Start + HeadBytes(Coming)
      /\ parser.version = Meaning(Coming.line) /\ parser.headers = Meanings(Coming)
      /\ parser.body = <<>> /\ \A i \in 0 .. Len(Coming.headers) + 1 : Fault(Coming, i) = "none"
  BY WholeHead
<1>2. Coming \in Messages /\ IsRequest(Coming) /\ parser \in Parsers /\ Start \in Nat
  BY <1>1, SessionFacts
<1>3. /\ RequestFault(Coming) = IF HeadersResult(parser) = "Complete" THEN "none" ELSE HeadersResult(parser)
      /\ HeadersResult(parser) = "Complete" =>
           IF ContentLengths(parser) = {} THEN Count(Coming, {"te"}) = 0 /\ Count(Coming, LengthNames) = 0
           ELSE /\ Count(Coming, {"te"}) = 0 /\ Count(Coming, LengthNames) = 1
                /\ Length(Coming) # "badlength" /\ ContentLength(parser) = Length(Coming)
  BY <1>1, <1>2, HeadRefused
<1>4. CASE HeadersResult(parser) # "Complete"
  <2> DEFINE e == HeadersResult(parser)
  <2>1. fail(e)
    BY <1>4 DEF FinishHeaders
  <2>2. e \in ParseErrors
    BY <1>4 DEF HeadersResult, ParseErrors
  <2> HIDE DEF e
  <2>3. e # "none"
    BY <2>2 DEF ParseErrors
  <2>4. OwnFault(e)
    BY <1>1, <1>3, <1>4, <2>3 DEF OwnFault, e
  <2> QED BY <1>1, <2>1, <2>2, <2>4, SessionRefuses
<1>5. CASE HeadersResult(parser) = "Complete"
  <2> DEFINE expected == IF ContentLengths(parser) = {} THEN 0 ELSE Number[ContentLength(parser)]
             p == [parser EXCEPT !.state = IF expected = 0 THEN "Complete" ELSE "Body",
                                 !.expected_body_bytes = expected, !.header_bytes = @ + 2]
  <2>1. parser' = p /\ result' = IF expected = 0 THEN "Complete" ELSE "Running"
    BY <1>5 DEF FinishHeaders, Goes
  <2>2. Len(Coming.body) = expected
    <3>1. CASE ContentLengths(parser) = {}
      BY <1>2, <1>3, <1>5, <3>1 DEF IsRequest
    <3>2. CASE ContentLengths(parser) # {}
      BY <1>2, <1>3, <1>5, <3>2 DEF IsRequest, AsLongAsItSays
    <3> QED BY <3>1, <3>2
  <2>3. Coming.body \in Seq(STRING) /\ HeadBytes(Coming) \in Nat
        /\ Len(Encoded(Coming)) = HeadBytes(Coming) + Len(Coming.body)
    BY <1>2, LinesOf, HeadAt
  <2> HIDE DEF expected
  <2>4. /\ parser'.state = (IF expected = 0 THEN "Complete" ELSE "Body")
        /\ parser'.expected_body_bytes = expected /\ parser'.version = Meaning(Coming.line)
        /\ parser'.headers = Meanings(Coming) /\ parser'.body = <<>>
    BY <1>1, <1>2, <2>1 DEF Parsers
  <2>5. /\ Coming' = Coming /\ Start' = Start /\ (MoreComing' <=> MoreComing)
        /\ (RequestFault(Coming))' = RequestFault(Coming)
    BY <1>1, Steady
  <2>6. RequestFault(Coming) = "none"
    BY <1>3, <1>5
  <2>7. HeadTaken'
    BY <1>1, <2>4, <2>5, <2>6 DEF HeadTaken
  <2>8. CASE expected = 0
    BY <2>2, <2>3, <2>8, <1>1, <2>1, <2>4, <2>5, <2>7, SessionTurn DEF AtEnd
  <2>9. CASE expected # 0
    BY <1>1, <2>1, <2>2, <2>4, <2>5, <2>7, <2>9, SessionTurn DEF InBody
  <2> QED BY <2>8, <2>9
<1> QED BY <1>4, <1>5

LEMMA BodyPlaces ==
  ASSUME IInv, SessionInv, side = "request", ParseBody, UNCHANGED <<responseParser, loopVars>>
  PROVE  SessionInv'
<1>1. Running /\ ParserFrame /\ parser.state = "Body" /\ UNCHANGED <<wire, sent>>
      /\ UNCHANGED <<limits, messages, handed>>
  BY DEF ParseBody, ParserFrame, loopVars
<1>2. InBody
  BY <1>1, RunningPlace DEF AtStart, InHead, NewParser
<1>3. /\ HeadTaken /\ MoreComing /\ RequestFault(Coming) = "none"
      /\ parser.version = Meaning(Coming.line) /\ parser.headers = Meanings(Coming)
      /\ parser.expected_body_bytes = Len(Coming.body) /\ Taken = Start + HeadBytes(Coming)
  BY <1>2 DEF InBody, HeadTaken
<1>4. /\ Streaming /\ Coming \in Messages /\ parser \in Parsers /\ Start \in Nat /\ Taken \in Nat
      /\ Len(input.bytes) \in Nat /\ sent \in Nat /\ sent = Taken + Len(input.bytes)
      /\ Len(handed) \in 0 .. Len(messages) - 1
  BY <1>3, SessionFacts
<1> DEFINE body == Coming.body
           e == Len(body)
           bytes == input.bytes
           size == Len(bytes)
           front == SubSeq(bytes, 1, e)
<1>5. /\ body \in Seq(STRING) /\ HeadBytes(Coming) \in Nat /\ Encoded(Coming) \in Seq(Bytes)
      /\ Len(Encoded(Coming)) = HeadBytes(Coming) + e /\ At(Encoded(Coming), HeadBytes(Coming), body)
  BY <1>4, LinesOf, HeadAt
<1>6. e \in Nat /\ size \in Nat /\ bytes \in Seq(STRING) /\ body \in Seq(Bytes) /\ wire \in Seq(Bytes) /\ Buffered
  BY <1>4, <1>5, BufferTyped, TextIsBytes DEF Streaming
<1>7. /\ Coming' = Coming /\ Start' = Start /\ (MoreComing' <=> MoreComing)
      /\ (RequestFault(Coming))' = RequestFault(Coming)
  BY <1>1, Steady
<1>8. CASE size < e
  <2>1. parser' = parser /\ result' = "NeedMore" /\ input' = input
    BY <1>3, <1>8 DEF ParseBody, readableBytes, Goes
  <2>2. Buffered' /\ Taken' = Taken
    BY <1>1, <1>6, <2>1, SameBytes
  <2>3. sent < Start + Len(Encoded(Coming))
    <3> DEFINE h == HeadBytes(Coming)
               t == Taken
    <3>1. t = Start + h /\ sent = t + size /\ Len(Encoded(Coming)) = h + e /\ h \in Nat
      BY <1>3, <1>4, <1>5
    <3> HIDE DEF h, t, size, e
    <3> QED BY <1>4, <1>6, <1>8, <3>1
  <2>4. InBody'
    BY <1>1, <1>2, <1>3, <1>7, <2>1, <2>2, <2>3 DEF InBody, HeadTaken
  <2> QED BY <1>1, <2>2, <2>4, SessionTurn
<1>9. CASE ~(size < e)
  <2>1. /\ parser' = [parser EXCEPT !.state = "Complete", !.body = front]
        /\ result' = "Complete" /\ input' = consume(input, e)
    BY <1>3, <1>9 DEF ParseBody, readableBytes, Goes
  <2>2. e \in 0 .. Len(input.bytes)
    <3>1. e \in Nat /\ size \in Nat /\ ~(size < e)
      BY <1>6, <1>9
    <3> HIDE DEF e, size
    <3>2. e \in 0 .. size
      BY <3>1
    <3> QED BY <3>2 DEF size
  <2>3. Buffered' /\ Taken' = Taken + e
    BY <1>1, <1>6, <2>1, <2>2, ConsumedBuffered
  <2>4. front = body
    <3>1. At(wire, Start, Encoded(Coming))
      BY <1>4, Starts DEF Coming, Start
    <3>2. At(wire, Taken, body)
      BY <1>3, <1>4, <1>5, <1>6, <3>1, AtWithin
    <3>3. \A i \in 1 .. e : wire[Taken + i] = body[i]
      BY <3>2 DEF At
    <3>4. \A i \in 1 .. size : wire[Taken + i] = bytes[i]
      BY <1>6 DEF Buffered, At
    <3> HIDE DEF body, bytes
    <3>5. front \in Seq(STRING) /\ Len(front) = e /\ \A i \in 1 .. e : front[i] = bytes[i] /\ i \in 1 .. size
      BY <1>6, <2>2, <1>9 DEF bytes
    <3> HIDE DEF e, size, front
    <3>6. \A i \in 1 .. e : front[i] = body[i]
      BY <3>3, <3>4, <3>5
    <3>7. Len(body) = e
      BY DEF e
    <3>8. body \in Seq(STRING)
      BY <1>5
    <3> QED BY <3>5, <3>6, <3>7, <3>8, SeqEqual
  <2>5. /\ parser'.version = Meaning(Coming.line) /\ parser'.headers = Meanings(Coming)
        /\ parser'.body = Coming.body
    <3> HIDE DEF front
    <3> QED BY <1>3, <1>4, <2>1, <2>4 DEF Parsers
  <2>6. Taken' = Start + Len(Encoded(Coming))
    <3> DEFINE h == HeadBytes(Coming)
    <3>1. Taken' = (Start + h) + e /\ Len(Encoded(Coming)) = h + e /\ h \in Nat
      BY <1>3, <1>5, <2>3
    <3> HIDE DEF h, e
    <3> QED BY <1>4, <1>6, <3>1
  <2>7. AtEnd'
    BY <1>3, <1>7, <2>1, <2>5, <2>6 DEF AtEnd, HeadTaken
  <2> QED BY <1>1, <2>3, <2>7, SessionTurn
<1> QED BY <1>8, <1>9

LEMMA ParseStepPlaces ==
  ASSUME IInv, SessionInv, side = "request", ParseStep, UNCHANGED <<responseParser, loopVars>>
  PROVE  SessionInv'
BY BodyPlaces, NoLinePlaces, LongLinePlaces, RequestLinePlaces, HeaderPlaces, FinishHeadersPlaces DEF ParseStep

-----------------------------------------------------------------------------
(* The session's loop *)

\* Where the parser is does not depend on where the coroutine is.
LEMMA PlaceStays ==
  ASSUME UNCHANGED <<limits, messages, handed, parser, sent>>, Taken' = Taken,
         \/ result' = result
         \/ result = "NeedMore" /\ result' = "Running",
         AtStart \/ InHead \/ InBody \/ AtEnd \/ AtFault
  PROVE  (AtStart \/ InHead \/ InBody \/ AtEnd \/ AtFault)'
<1>1. /\ limits' = limits /\ messages' = messages /\ handed' = handed /\ parser' = parser /\ sent' = sent
  OBVIOUS
<1>2. /\ Coming' = Coming /\ Start' = Start /\ (MoreComing' <=> MoreComing)
      /\ \A i : (Fault(Coming, i))' = Fault(Coming, i)
      /\ (RequestFault(Coming))' = RequestFault(Coming)
      /\ \A e : OwnFault(e)' <=> OwnFault(e)
  BY <1>1, Steady
<1>3. CASE AtStart
  BY <1>1, <1>2, <1>3 DEF AtStart
<1>4. CASE InHead
  BY <1>1, <1>2, <1>4 DEF InHead
<1>5. CASE InBody
  BY <1>1, <1>2, <1>5 DEF InBody, HeadTaken
<1>6. CASE AtEnd
  BY <1>1, <1>2, <1>6 DEF AtEnd, HeadTaken
<1>7. CASE AtFault
  BY <1>7, <1>1, <1>2 DEF AtFault, ParseErrors, OwnFault
<1> QED BY <1>3, <1>4, <1>5, <1>6, <1>7

LEMMA ReadRequestPlaces ==
  ASSUME IInv, SessionInv, ReadRequest
  PROVE  SessionInv'
<1>1. /\ side = "request" /\ StartRead /\ pc = "parse" /\ result = "NeedMore"
      /\ UNCHANGED <<limits, wire, sent, result>>
      /\ UNCHANGED <<parser, responseParser, side, messages, handed, served, outcome>>
  BY DEF ReadRequest, StartRead
<1>2. StreamInv /\ Buffered /\ HandedInv /\ outcome = "none" /\ (AtStart \/ InHead \/ InBody \/ AtEnd \/ AtFault)
  BY <1>1 DEF SessionInv, OutcomeInv, Place
<1>3. input'.bytes = input.bytes /\ pc' \in {"failed", "read"}
  <2>1. CASE PrepareThrows(input, limits.read_chunk, limits.max_buffer)
    BY <1>1, <2>1 DEF StartRead
  <2>2. CASE ~PrepareThrows(input, limits.read_chunk, limits.max_buffer)
    BY <1>1, <2>2, LimitsTyped, PrepareKeeps DEF StartRead, IInv, BufferInv
  <2> QED BY <2>1, <2>2
<1>4. Buffered' /\ Taken' = Taken
  BY <1>1, <1>2, <1>3, SameBytes
<1>5. StreamInv' /\ OutcomeInv'
  BY <1>1, <1>2 DEF StreamInv, OutcomeInv
<1>6. HandedInv'
  BY <1>1, <1>2, HandedStays
<1>7. Place'
  BY <1>1, <1>2, <1>4, PlaceStays DEF Place
<1>8. DeadlineInv'
  <2>1. SUFFICES ASSUME pc' = "read" PROVE DeadlineInv'
    BY DEF DeadlineInv
  <2>2. deadline' = IF parser.state = "Body" THEN "body"
                    ELSE IF served /\ parser.state = "RequestLine" /\ Len(input.bytes) = 0
                    THEN "idle" ELSE "header"
    BY <2>1 DEF ReadRequest, armReadDeadline, readableBytes
  <2> QED BY <1>1, <1>3, <2>2 DEF DeadlineInv
<1> QED BY <1>4, <1>5, <1>6, <1>7, <1>8 DEF SessionInv

LEMMA ReceiveRequestPlaces ==
  ASSUME IInv, SessionInv, NEW count, ReceiveRequest(count)
  PROVE  SessionInv'
<1>1. /\ side = "request" /\ Receive(count) /\ pc = "read" /\ pc' = "parse" /\ result' = "Running"
      /\ UNCHANGED <<limits, wire>>
      /\ UNCHANGED <<parser, responseParser, side, messages, handed, served, outcome>>
  BY DEF ReceiveRequest, Receive
<1>2. /\ StreamInv /\ Buffered /\ HandedInv /\ outcome = "none" /\ result = "NeedMore"
      /\ (AtStart \/ InHead \/ InBody \/ AtEnd \/ AtFault)
  BY <1>1 DEF SessionInv, OutcomeInv, Place, DeadlineInv
<1>3. Buffered' /\ Taken' = Taken
  BY <1>1, <1>2, ReceivedBuffered
<1>4. StreamInv' /\ OutcomeInv' /\ DeadlineInv'
  BY <1>1, <1>2 DEF StreamInv, OutcomeInv, DeadlineInv
<1>5. HandedInv'
  BY <1>1, <1>2, HandedStays
<1>6. /\ Coming' = Coming /\ Start' = Start /\ (MoreComing' <=> MoreComing)
      /\ \A i : (Fault(Coming, i))' = Fault(Coming, i)
      /\ (RequestFault(Coming))' = RequestFault(Coming)
  BY <1>1, Steady
<1>7. (AtStart \/ InHead \/ InBody)'
  <2>1. CASE AtStart
    BY <1>1, <1>3, <1>6, <2>1 DEF AtStart
  <2>2. CASE InHead
    BY <1>1, <1>3, <1>6, <2>2 DEF InHead
  <2>3. CASE InBody
    BY <1>1, <1>3, <1>6, <2>3 DEF InBody, HeadTaken
  <2>4. ~AtEnd /\ ~AtFault
    BY <1>2 DEF AtEnd, AtFault, ParseErrors
  <2> QED BY <1>2, <2>1, <2>2, <2>3, <2>4
<1> QED BY <1>3, <1>4, <1>5, <1>7 DEF SessionInv, Place

LEMMA ReadEndsPlaces ==
  ASSUME SessionInv, ReadEnds
  PROVE  SessionInv'
<1>1. /\ side = "request" /\ pc = "read" /\ pc' = "closed"
      /\ UNCHANGED <<limits, wire, sent, input, messages, handed, served, outcome>>
  BY DEF ReadEnds
<1>2. StreamInv /\ Buffered /\ HandedInv /\ outcome = "none"
  BY <1>1 DEF SessionInv, OutcomeInv
<1>3. Buffered'
  BY <1>1, <1>2, SameBytes
<1>4. HandedInv'
  BY <1>1, <1>2, HandedStays
<1>5. StreamInv' /\ OutcomeInv' /\ DeadlineInv' /\ Place'
  BY <1>1, <1>2 DEF StreamInv, OutcomeInv, DeadlineInv, Place
<1> QED BY <1>3, <1>4, <1>5 DEF SessionInv

LEMMA RefuseRequestPlaces ==
  ASSUME SessionInv, RefuseRequest
  PROVE  SessionInv'
<1>1. /\ side = "request" /\ pc = "parse" /\ pc' = "closed" /\ result \in ParseErrors /\ outcome' = result
      /\ UNCHANGED <<limits, wire, sent, input, result, messages, handed, served>>
  BY DEF RefuseRequest
<1>2. StreamInv /\ Buffered /\ HandedInv /\ AtFault
  BY <1>1 DEF AtStart, InHead, InBody, AtEnd, ParseErrors, SessionInv, Place
<1>3. Buffered'
  BY <1>1, <1>2, SameBytes
<1>4. HandedInv'
  BY <1>1, <1>2, HandedStays
<1>5. OwnFault(outcome)'
  <2>1. OwnFault(result)
    BY <1>2 DEF AtFault
  <2>2. /\ Coming' = Coming /\ (MoreComing' <=> MoreComing) /\ (RequestFault(Coming))' = RequestFault(Coming)
        /\ limits' = limits
    BY <1>1, Steady
  <2> QED BY <1>1, <2>1, <2>2 DEF OwnFault
<1>6. StreamInv' /\ OutcomeInv' /\ DeadlineInv' /\ Place'
  BY <1>1, <1>2, <1>5 DEF StreamInv, OutcomeInv, DeadlineInv, Place
<1> QED BY <1>3, <1>4, <1>6 DEF SessionInv

LEMMA HandleRequestPlaces ==
  ASSUME IInv, SessionInv, HandleRequest
  PROVE  SessionInv'
<1>1. /\ side = "request" /\ pc = "parse" /\ result = "Complete" /\ served' = TRUE
      /\ handed' = Append(handed, [version |-> parser.version, headers |-> parser.headers,
                                   body |-> parser.body])
      /\ limits' = limits /\ wire' = wire /\ sent' = sent /\ input' = input /\ side' = side
      /\ messages' = messages /\ outcome' = outcome
  BY DEF HandleRequest
<1>2. StreamInv /\ Buffered /\ HandedInv /\ AtEnd /\ outcome = "none"
  BY <1>1 DEF AtStart, InHead, InBody, AtFault, ParseErrors, SessionInv, Place, OutcomeInv
<1>3. /\ MoreComing /\ RequestFault(Coming) = "none" /\ parser.version = Meaning(Coming.line)
      /\ parser.headers = Meanings(Coming) /\ parser.body = Coming.body
      /\ Taken = Start + Len(Encoded(Coming))
  BY <1>2 DEF AtEnd, HeadTaken
<1> DEFINE k == Len(handed)
           r == RequestOf(Coming)
           S == {RequestOf(m) : m \in Messages}
<1>4. /\ Streaming /\ k \in Nat /\ k \in 0 .. Len(messages) - 1 /\ Coming \in Messages /\ Len(messages) \in Nat
  BY <1>1, <1>3, SessionFacts
<1>5. handed' = Append(handed, r)
  BY <1>1, <1>3 DEF RequestOf
<1>6. handed \in Seq(S) /\ r \in S
  BY <1>2, <1>4 DEF HandedInv
<1>7. keepAlive(parser) <=> keepAlive(r)
  BY <1>3 DEF keepAlive, Names, RequestOf
<1>8. Buffered' /\ Taken' = Taken
  BY <1>1, <1>2, SameBytes
<1> HIDE DEF r, S
<1>9. /\ handed' \in Seq(S) /\ Len(handed') = k + 1 /\ handed'[k + 1] = r
      /\ \A i \in 1 .. k : handed'[i] = handed[i]
  BY <1>5, <1>6
<1>10. pc' = (IF keepAlive(r) THEN "parse" ELSE "closed")
  BY <1>1, <1>7 DEF HandleRequest
<1>11. HandedInv'
  <2>1. handed' \in Seq({RequestOf(m) : m \in Messages})
    BY <1>9 DEF S
  <2>2. Len(handed') <= Len(messages') /\ (served' <=> Len(handed') # 0)
    BY <1>1, <1>4, <1>9
  <2>3. ASSUME NEW i \in 1 .. k + 1
        PROVE  /\ handed'[i] = RequestOf(messages[i]) /\ (RequestFault(messages[i]))' = "none"
               /\ i < k + 1 \/ keepAlive(r) => keepAlive(RequestOf(messages[i]))
    <3>4. (HeadFault(messages[i], RequestLineLimit, limits.header_line, Versions, HeaderNames))'
            = HeadFault(messages[i], RequestLineLimit, limits.header_line, Versions, HeaderNames)
      BY <1>1 DEF HeadFault, LineFault, RequestLineLimit
    <3>1. (RequestFault(messages[i]))' = RequestFault(messages[i])
      BY <1>1, <3>4 DEF RequestFault
    <3>2. CASE i = k + 1
      BY <3>2, <1>3, <1>4, <1>9, <3>1 DEF Coming, r
    <3>3. CASE i # k + 1
      BY <1>4, <3>3, <1>1, <1>2, <1>9, <3>1 DEF HandedInv
    <3> QED BY <3>2, <3>3
  <2>4. pc' # "closed" \/ outcome' # "none" => keepAlive(r)
    BY <1>1, <1>2, <1>10
  <2> QED BY <1>1, <1>9, <2>1, <2>2, <2>3, <2>4 DEF HandedInv
<1>12. StreamInv' /\ OutcomeInv' /\ DeadlineInv'
  BY <1>10, <1>1, <1>2 DEF StreamInv, OutcomeInv, DeadlineInv
<1>13. Place'
  <2>1. SUFFICES ASSUME pc' # "closed" PROVE AtStart'
    BY DEF Place
  <2>2. parser' = NewParser /\ result' = "Running"
    BY <1>7, <1>10, <2>1 DEF HandleRequest
  <2>3. Start' = StartOf(k + 1)
    BY <1>1, <1>9 DEF Start, StartOf
  <2>4. StartOf(k + 1) = Start + Len(Encoded(Coming))
    BY <1>4, Starts DEF Start, Coming
  <2> QED BY <1>3, <1>8, <2>2, <2>3, <2>4 DEF AtStart
<1> QED BY <1>8, <1>11, <1>12, <1>13 DEF SessionInv

LEMMA InitPlaces ==
  ASSUME Init
  PROVE  SessionInv
<1>0. SUFFICES ASSUME side = "request" PROVE SessionInv
  BY DEF SessionInv
<1>1. /\ messages \in RequestStreams /\ wire = Sent(messages) /\ sent = 0
      /\ input = EmptyBuffer(limits.read_chunk) /\ pc = "parse" /\ result = "Running"
      /\ parser = NewParser /\ handed = <<>> /\ served = FALSE /\ outcome = "none"
  BY <1>0 DEF Init
<1>2. StreamInv
  BY <1>1, StreamsOfMessages DEF StreamInv
<1>3. input.bytes = <<>> /\ Len(input.bytes) = 0 /\ Len(handed) = 0
  BY <1>1 DEF EmptyBuffer
<1>4. Taken = 0
  <2>1. sent = 0 /\ Len(input.bytes) = 0
    BY <1>1, <1>3
  <2> QED BY <2>1 DEF Taken
<1>5. Buffered
  BY InitLimits, <1>3, <1>4 DEF Buffered, At
<1>6. HandedInv
  BY <1>2, <1>1, <1>3 DEF StreamInv, HandedInv
<1>7. Place
  BY <1>2, <1>5, <1>3, Starts, <1>1, <1>4 DEF Streaming, StreamInv, Start, AtStart, Place
<1>8. DeadlineInv /\ OutcomeInv
  BY <1>1 DEF DeadlineInv, OutcomeInv
<1> QED BY <1>2, <1>5, <1>6, <1>7, <1>8 DEF SessionInv

LEMMA NextPlaces ==
  ASSUME IInv, SessionInv, [Next]_vars
  PROVE  SessionInv'
<1>1. CASE SessionNext
  BY <1>1, ParseStepPlaces, ReadRequestPlaces, ReadEndsPlaces, HandleRequestPlaces, RefuseRequestPlaces,
     ReceiveRequestPlaces DEF SessionNext
<1>2. CASE ProxyNext
  <2>1. side' = "response"
    BY <1>2 DEF ProxyNext, ReadResponse, ReceiveResponse, UpstreamCloses, EndResponse, loopVars
  <2> QED BY <2>1 DEF SessionInv
<1>3. CASE UNCHANGED vars
  <2>1. /\ limits' = limits /\ wire' = wire /\ sent' = sent /\ input' = input /\ pc' = pc
        /\ result' = result /\ parser' = parser /\ side' = side /\ messages' = messages
        /\ handed' = handed /\ served' = served /\ deadline' = deadline /\ outcome' = outcome
    BY <1>3 DEF vars, readerVars, loopVars
  <2>2. SUFFICES ASSUME side = "request" PROVE SessionInv'
    BY <2>1 DEF SessionInv
  <2>3. StreamInv /\ Buffered /\ HandedInv /\ Place /\ DeadlineInv /\ OutcomeInv
    BY <2>2 DEF SessionInv
  <2>4. Buffered' /\ Taken' = Taken
    BY <2>1, <2>3, SameBytes
  <2>5. HandedInv'
    BY <2>1, <2>3, HandedStays
  <2>6. Place'
    BY <2>1, <2>3, <2>4, PlaceStays DEF Place
  <2>7. DeadlineInv' /\ StreamInv'
    BY <2>1, <2>3 DEF DeadlineInv, StreamInv
  <2>8. OutcomeInv'
    BY <2>1, Steady, <2>3 DEF OwnFault, OutcomeInv
  <2> QED BY <2>4, <2>5, <2>6, <2>7, <2>8 DEF SessionInv
<1> QED BY <1>1, <1>2, <1>3 DEF Next

\* Wherever the network cuts the bytes, the parser is where the bytes it has taken
\* end: at the start of a request, before a line of its head, before its body or
\* at its end, with exactly what the request says up to there.
THEOREM Placed == Spec => []SessionInv
BY InitPlaces, NextPlaces, Inductive, PTL DEF Spec

\* The session stops at its first request that is at fault or ends it.
LEMMA ServedIs ==
  ASSUME IInv, SessionInv, side = "request"
  PROVE  /\ Len(handed) <= Served
         /\ (pc # "closed" \/ outcome # "none") /\ ~MoreComing => Served = Len(messages)
         /\ (pc # "closed" \/ outcome # "none") /\ MoreComing /\ RequestFault(Coming) # "none"
              => Served = Len(handed)
<1> DEFINE k == Len(handed)
           n == Len(messages)
           Stop(i) == RequestFault(messages[i]) # "none" \/ ~keepAlive(RequestOf(messages[i]))
           stops == {i \in 1 .. n : Stop(i)}
           least == Min(stops)
<1>1. k \in Nat /\ n \in Nat /\ k <= n
  BY SessionFacts
<1>2. Served = IF stops = {} THEN n
               ELSE least - (IF RequestFault(messages[least]) = "none" THEN 0 ELSE 1)
  <2>1. DOMAIN messages = 1 .. n
    BY DEF SessionInv, StreamInv
  <2> QED BY <2>1 DEF Served
<1>3. \A i \in 1 .. k : /\ RequestFault(messages[i]) = "none"
                        /\ i < k \/ pc # "closed" \/ outcome # "none" => ~Stop(i)
  BY DEF SessionInv, HandedInv
<1>4. stops # {} => least \in 1 .. n /\ Stop(least) /\ \A i \in stops : least <= i
  <2>1. stops \subseteq Nat
    BY <1>1
  <2> QED BY <2>1, SmallestOf
<1>5. stops # {} => least >= k /\ (least = k => RequestFault(messages[least]) = "none")
  <2>1. SUFFICES ASSUME stops # {} PROVE least >= k /\ (least = k => RequestFault(messages[least]) = "none")
    OBVIOUS
  <2> HIDE DEF least, stops, Stop
  <2>2. least \in 1 .. n /\ Stop(least)
    BY <1>4, <2>1
  <2>3. least < k => least \in 1 .. k
    BY <1>1, <2>2
  <2>4. least = k => k \in 1 .. k
    BY <1>1, <2>2
  <2> QED BY <1>1, <1>3, <2>2, <2>3, <2>4
<1> HIDE DEF least, Stop
<1>6. k <= Served
  <2> HIDE DEF stops
  <2>1. CASE stops = {}
    BY <1>1, <1>2, <2>1
  <2>2. CASE stops # {}
    BY <1>1, <1>2, <1>4, <1>5, <2>2
  <2> QED BY <2>1, <2>2
<1>7. ASSUME pc # "closed" \/ outcome # "none", ~MoreComing PROVE Served = n
  BY <1>1, <1>7, <1>3, <1>2 DEF MoreComing
<1>8. ASSUME pc # "closed" \/ outcome # "none", MoreComing, RequestFault(Coming) # "none" PROVE Served = k
  <2>1. k + 1 \in 1 .. n /\ Coming = messages[k + 1]
    BY <1>1, <1>8 DEF MoreComing, Coming
  <2>2. k + 1 \in stops
    BY <1>8, <2>1 DEF Stop
  <2> HIDE DEF stops
  <2>3. least \in 1 .. n /\ Stop(least) /\ least <= k + 1
    BY <1>4, <2>2
  <2>4. least <= k => least \in 1 .. k
    BY <1>1, <2>3
  <2>5. least = k + 1
    BY <1>1, <1>3, <1>8, <2>3, <2>4
  <2> QED BY <1>1, <1>2, <1>8, <2>1, <2>2, <2>5
<1> QED BY <1>6, <1>7, <1>8

\* While the session waits for a request, that request has not all arrived.
LEMMA WaitsForMore ==
  ASSUME IInv, SessionInv, side = "request", pc = "read"
  PROVE  /\ AtStart \/ InHead \/ InBody
         /\ MoreComing => sent < Start + Len(Encoded(Coming)) /\ sent < Len(wire)
<1>1. result = "NeedMore" /\ (AtStart \/ InHead \/ InBody)
  BY DEF SessionInv, DeadlineInv, Place, AtEnd, AtFault, ParseErrors
<1>2. SUFFICES ASSUME MoreComing PROVE sent < Start + Len(Encoded(Coming)) /\ sent < Len(wire)
  BY <1>1
<1> DEFINE k == Len(handed)
           h == Len(Coming.headers)
           all == Len(Encoded(Coming))
           head == HeadBytes(Coming)
           e(j) == Ends(Coming, j)
           b == Len(Coming.body)
           w == Len(wire)
<1>3. /\ Streaming /\ k \in 0 .. Len(messages) - 1 /\ Coming \in Messages /\ Start \in Nat /\ sent \in Nat
      /\ h \in Nat /\ Len(messages) \in Nat
  BY <1>2, SessionFacts
<1>4. Start + all <= w
  BY <1>3, Starts DEF Start, Coming
<1>5. head \in Nat /\ all = head + b /\ b \in Nat
      /\ \A j \in 0 .. h + 1 : e(j + 1) \in Nat /\ e(j + 1) <= head
  BY <1>3, LinesOf, HeadAt
<1>6. w \in Nat
  BY <1>3, BufferTyped DEF Streaming
<1>10. SUFFICES sent < Start + all /\ sent < w
  OBVIOUS
<1>7. CASE AtStart
  <2>1. sent < Start + e(1)
    BY <1>1, <1>2, <1>7 DEF AtStart
  <2>2. e(1) \in Nat /\ e(1) <= head
    <3>1. 0 \in 0 .. h + 1 /\ 0 + 1 = 1
      BY <1>3
    <3> HIDE DEF e
    <3> QED BY <1>5, <3>1
  <2> HIDE DEF e, h, all, head, b, w
  <2> QED BY <1>3, <1>4, <1>5, <1>6, <2>1, <2>2
<1>8. CASE InHead
  <2> DEFINE c == Len(parser.headers)
  <2>1. sent < Start + e(c + 2) /\ c <= h
    BY <1>1, <1>8 DEF InHead
  <2>2. c \in Nat
    BY SessionFacts DEF Parsers
  <2>3. e(c + 2) \in Nat /\ e(c + 2) <= head
    <3> HIDE DEF c, h, e, head
    <3>1. c + 1 \in 0 .. h + 1 /\ (c + 1) + 1 = c + 2
      BY <1>3, <2>1, <2>2
    <3> QED BY <1>5, <3>1
  <2> HIDE DEF e, h, all, head, b, w, c
  <2> QED BY <1>3, <1>4, <1>5, <1>6, <2>1, <2>3
<1>9. CASE InBody
  <2>1. sent < Start + all
    BY <1>1, <1>9 DEF InBody
  <2> HIDE DEF all, w, head, b
  <2> QED BY <1>3, <1>4, <1>5, <1>6, <2>1
<1> QED BY <1>1, <1>7, <1>8, <1>9

LEMMA PlacedAsSent ==
  ASSUME IInv, SessionInv
  PROVE  RequestsAsSent
<1>1. SUFFICES ASSUME side = "request" PROVE RequestsAsSent
  BY DEF RequestsAsSent
<1>2. Len(handed) <= Served
  BY <1>1, ServedIs
<1>3. \A i \in DOMAIN handed : handed[i] = RequestOf(messages[i])
  BY <1>1 DEF SessionInv, HandedInv
<1>4. ASSUME pc = "read", sent = Len(wire) PROVE Served = Len(messages) /\ Len(handed) = Served
  <2>1. Len(wire) \in Nat
    BY DEF IInv, LoopTyped
  <2>2. ~MoreComing
    BY <1>1, <1>4, <2>1, WaitsForMore
  <2>3. Len(handed) = Len(messages)
    BY <1>1, <2>2, SessionFacts DEF MoreComing
  <2> QED BY <1>1, <1>4, <2>2, <2>3, ServedIs
<1>5. ASSUME outcome # "none"
      PROVE  \/ Len(handed) = Served /\ outcome = RequestFault(messages[Served + 1])
             \/ /\ outcome = "HeaderTooLarge"
                /\ Len(messages[Len(handed) + 1].line) = limits.request_line
  <2>1. OwnFault(outcome)
    BY <1>1, <1>5 DEF SessionInv, OutcomeInv
  <2>2. CASE outcome = RequestFault(Coming)
    BY <1>1, <1>5, <2>1, <2>2, ServedIs DEF OwnFault, Coming
  <2>3. CASE outcome = "HeaderTooLarge" /\ Len(Coming.line) = limits.request_line
    BY <2>3 DEF Coming
  <2> QED BY <2>1, <2>2, <2>3 DEF OwnFault
<1> QED BY <1>2, <1>3, <1>4, <1>5 DEF RequestsAsSent

LEMMA PlacedDeadline ==
  ASSUME IInv, SessionInv
  PROVE  DeadlineFitsPhase
<1>1. SUFFICES ASSUME side = "request", pc = "read" PROVE DeadlineFitsPhase
  BY DEF DeadlineFitsPhase
<1> DEFINE head == HeadBytes(Coming)
           unread == Len(input.bytes)
<1>2. SUFFICES deadline = IF sent = Start THEN (IF handed = <<>> THEN "header" ELSE "idle")
                          ELSE IF sent < Start + head THEN "header" ELSE "body"
  BY DEF DeadlineFitsPhase, Start, StartOf, Coming
<1>3. /\ Start \in Nat /\ sent \in Nat /\ Taken \in Nat /\ unread \in Nat /\ sent = Taken + unread
      /\ MoreComing => Coming \in Messages
      /\ ~MoreComing => Start = Len(wire)
  BY <1>1, SessionFacts
<1>4. /\ result = "NeedMore"
      /\ deadline = IF parser.state = "Body" THEN "body"
                    ELSE IF served /\ parser.state = "RequestLine" /\ unread = 0
                    THEN "idle" ELSE "header"
  BY <1>1 DEF SessionInv, DeadlineInv
<1>5. MoreComing => /\ head \in Nat
                    /\ \A j \in 0 .. Len(Coming.headers) + 1 :
                          Ends(Coming, j + 1) \in Nat /\ Ends(Coming, j + 1) <= head
                          /\ Ends(Coming, j + 1) >= 2
  <2>1. SUFFICES ASSUME MoreComing
                 PROVE  /\ head \in Nat
                        /\ \A j \in 0 .. Len(Coming.headers) + 1 :
                              Ends(Coming, j + 1) \in Nat /\ Ends(Coming, j + 1) <= head
                              /\ Ends(Coming, j + 1) >= 2
    OBVIOUS
  <2>2. Coming \in Messages
    BY <1>3, <2>1
  <2>3. ASSUME NEW j \in 0 .. Len(Coming.headers) + 1 PROVE Ends(Coming, j + 1) >= 2
    <3> DEFINE x == Ends(Coming, j)
               y == Len(Lines(Coming)[j + 1])
               z == Ends(Coming, j + 1)
    <3>1. x \in Nat /\ y \in Nat /\ z = x + y + 2
      BY <2>2, <2>3, HeadAt
    <3> HIDE DEF x, y, z
    <3>2. z >= 2
      BY <3>1
    <3> QED BY <3>2 DEF z
  <2> QED BY <2>2, <2>3, HeadAt
<1>6. served <=> handed # <<>>
  <2> DEFINE S == {RequestOf(m) : m \in Messages}
  <2>1. handed \in Seq(S) /\ (served <=> Len(handed) # 0)
    BY <1>1 DEF SessionInv, HandedInv
  <2> HIDE DEF S
  <2>2. Len(handed) = 0 <=> handed = <<>>
    BY <2>1
  <2> QED BY <2>1, <2>2
<1>7. CASE AtStart
  <2>1. parser.state = "RequestLine" /\ Taken = Start /\ (MoreComing => sent < Start + Ends(Coming, 1))
    BY <1>4, <1>7 DEF AtStart, NewParser
  <2>2. sent = Start <=> unread = 0
    <3> HIDE DEF unread
    <3> QED BY <1>3, <2>1
  <2>3. sent # Start => MoreComing
    <3>1. sent <= Len(wire) /\ Len(wire) \in Nat
      BY DEF IInv, LoopTyped
    <3> HIDE DEF unread
    <3> QED BY <1>3, <2>1, <3>1
  <2>4. sent # Start => sent < Start + head
    <3>1. SUFFICES ASSUME MoreComing PROVE sent < Start + head
      BY <2>3
    <3>2. 0 \in 0 .. Len(Coming.headers) + 1 /\ 0 + 1 = 1
      BY <1>3, <3>1, LinesOf
    <3> DEFINE e == Ends(Coming, 1)
    <3>3. e \in Nat /\ e <= head /\ head \in Nat
      BY <1>5, <3>1, <3>2
    <3>4. sent < Start + e
      BY <2>1, <3>1
    <3> HIDE DEF e, head
    <3> QED BY <1>3, <3>3, <3>4
  <2> QED BY <1>4, <1>6, <2>1, <2>2, <2>4
<1>8. CASE InHead
  <2> DEFINE c == Len(parser.headers)
             x == Ends(Coming, c + 1)
             y == Ends(Coming, c + 2)
  <2>1. /\ MoreComing /\ parser.state = "Headers" /\ c <= Len(Coming.headers)
        /\ Taken = Start + x /\ sent < Start + y
    BY <1>4, <1>8 DEF InHead
  <2>2. c \in Nat /\ Len(Coming.headers) \in Nat
    BY <1>1, SessionFacts, <1>3, <2>1, LinesOf DEF Parsers
  <2>3. x \in Nat /\ x >= 2 /\ y \in Nat /\ y <= head /\ head \in Nat
    <3> DEFINE h == Len(Coming.headers)
    <3>1. h \in Nat /\ c <= h
      BY <2>1, <2>2
    <3> HIDE DEF c
    <3>2. c \in 0 .. h + 1 /\ c + 1 \in 0 .. h + 1 /\ (c + 1) + 1 = c + 2
      <4> HIDE DEF h
      <4> QED BY <2>2, <3>1
    <3> QED BY <1>5, <2>1, <3>2
  <2> HIDE DEF x, y, head, unread, c
  <2>4. sent # Start /\ sent < Start + head
    BY <1>3, <2>1, <2>3
  <2> QED BY <1>4, <2>1, <2>4
<1>9. CASE InBody
  <2>1. MoreComing /\ parser.state = "Body" /\ Taken = Start + head
    BY <1>9 DEF InBody, HeadTaken
  <2>2. head \in Nat /\ head >= 2
    <3>1. 0 \in 0 .. Len(Coming.headers) + 1 /\ 0 + 1 = 1
      BY <1>3, <2>1, LinesOf
    <3> DEFINE e == Ends(Coming, 1)
    <3>2. e \in Nat /\ e <= head /\ e >= 2 /\ head \in Nat
      BY <1>5, <2>1, <3>1
    <3> HIDE DEF e, head
    <3> QED BY <3>2
  <2> HIDE DEF head, unread
  <2>3. sent # Start /\ ~(sent < Start + head)
    BY <1>3, <2>1, <2>2
  <2> QED BY <1>4, <2>1, <2>3
<1> QED BY <1>1, <1>7, <1>8, <1>9, WaitsForMore

\* For every stream of well framed requests and every configuration: the router
\* gets the requests the client sent, each once and in order, up to the first that
\* is refused or ends the session; a session that waits with all bytes arrived has
\* handed over every request; and an error is the fault of the request it answers
\* (or that of a request line of exactly the allowed length, cut before its LF).
THEOREM AsSent == Spec => []RequestsAsSent
BY PlacedAsSent, Placed, Inductive, PTL

\* While HttpSession waits for bytes, the armed deadline is the idle one exactly
\* between two requests, the header one inside a head or before the first request,
\* and the body one inside a body, wherever the reads cut the bytes.
THEOREM DeadlineFits == Spec => []DeadlineFitsPhase
BY PlacedDeadline, Placed, Inductive, PTL

-----------------------------------------------------------------------------
(* Where the parts of a chunked body lie *)

LEMMA Shift ==
  ASSUME NEW w \in Seq(Bytes), NEW s \in Seq(Bytes), NEW t \in Seq(Bytes), NEW p \in Nat, NEW q \in Nat,
         At(w, p, s), At(s, q, t), NEW r, r = p + q
  PROVE  At(w, r, t)
BY AtWithin

LEMMA ThreeParts ==
  ASSUME NEW a \in Seq(Bytes), NEW b \in Seq(Bytes), NEW c \in Seq(Bytes)
  PROVE  LET all == a \o b \o c
         IN  /\ all \in Seq(Bytes) /\ Len(all) = Len(a) + Len(b) + Len(c)
             /\ At(all, 0, a) /\ At(all, Len(a), b) /\ At(all, Len(a) + Len(b), c)
<1> DEFINE ab == a \o b
           all == ab \o c
<1>1. ab \in Seq(Bytes) /\ Len(ab) = Len(a) + Len(b) /\ At(ab, 0, a) /\ At(ab, Len(a), b)
      /\ Len(a) \in Nat /\ Len(b) \in Nat /\ Len(c) \in Nat
  BY AtConcat
<1> HIDE DEF ab
<1>2. all \in Seq(Bytes) /\ Len(all) = Len(ab) + Len(c) /\ At(all, 0, ab) /\ At(all, Len(ab), c)
  BY <1>1, AtConcat
<1> HIDE DEF all
<1>3. At(all, 0, a)
  BY <1>1, <1>2, Shift
<1>4. At(all, Len(a), b)
  <2> DEFINE x == Len(a)
  <2>1. x \in Nat /\ x = 0 + x
    BY <1>1
  <2>2. At(ab, x, b)
    BY <1>1
  <2> HIDE DEF x
  <2>3. At(all, x, b)
    BY <1>1, <1>2, <2>1, <2>2, Shift
  <2> QED BY <2>3 DEF x
<1>5. At(all, Len(a) + Len(b), c)
  BY <1>1, <1>2
<1> QED BY <1>1, <1>2, <1>3, <1>4, <1>5 DEF all, ab

LEMMA PartsOf ==
  ASSUME NEW m \in Messages
  PROVE  /\ Len(m.chunks) \in Nat /\ DOMAIN m.chunks = 1 .. Len(m.chunks)
         /\ \A k \in 1 .. Len(m.chunks) :
              /\ m.chunks[k].size \in Seq(STRING) /\ m.chunks[k].data \in Seq(STRING)
              /\ m.chunks[k].end \in Seq(STRING)
              /\ m.chunks[k].size \in Seq(Bytes) /\ m.chunks[k].data \in Seq(Bytes)
              /\ m.chunks[k].end \in Seq(Bytes)
              /\ Len(m.chunks[k].size) \in Nat /\ Len(m.chunks[k].data) \in Nat
              /\ Len(m.chunks[k].end) \in Nat
         /\ m.trailers \in Seq(Seq(STRING)) /\ m.trailers \o <<<<>>>> \in Seq(Seq(STRING))
         /\ Len(m.trailers) \in Nat /\ Len(m.trailers \o <<<<>>>>) = Len(m.trailers) + 1
         /\ DOMAIN m.trailers = 1 .. Len(m.trailers)
         /\ (m.trailers \o <<<<>>>>)[Len(m.trailers) + 1] = <<>>
         /\ \A t \in 1 .. Len(m.trailers) : (m.trailers \o <<<<>>>>)[t] = m.trailers[t]
<1> DEFINE C == [size : Seq(STRING), data : Seq(STRING), end : Seq(STRING)]
           cs == m.chunks
           ts == m.trailers
           nothing == <<>>
           one == <<nothing>>
<1>1. cs \in Seq(C) /\ ts \in Seq(Seq(STRING))
  BY DEF Messages
<1> HIDE DEF cs, ts
<1>2. Len(cs) \in Nat /\ DOMAIN cs = 1 .. Len(cs) /\ \A k \in 1 .. Len(cs) : cs[k] \in C
  <2> HIDE DEF C
  <2> QED BY <1>1
<1>3. ASSUME NEW k \in 1 .. Len(cs)
      PROVE  cs[k].size \in Seq(STRING) /\ cs[k].data \in Seq(STRING) /\ cs[k].end \in Seq(STRING)
  BY <1>2
<1>4. ASSUME NEW s \in Seq(STRING) PROVE s \in Seq(Bytes) /\ Len(s) \in Nat
  BY TextIsBytes
<1>5. nothing \in Seq(STRING) /\ one \in Seq(Seq(STRING)) /\ Len(one) = 1 /\ one[1] = nothing
  OBVIOUS
<1> HIDE DEF nothing, one
<1>6. /\ ts \o one \in Seq(Seq(STRING)) /\ Len(ts \o one) = Len(ts) + 1 /\ Len(ts) \in Nat
      /\ (ts \o one)[Len(ts) + 1] = nothing /\ DOMAIN ts = 1 .. Len(ts)
      /\ \A t \in 1 .. Len(ts) : (ts \o one)[t] = ts[t]
  <2> DEFINE S == Seq(STRING)
  <2>1. ts \in Seq(S) /\ one \in Seq(S) /\ Len(one) = 1
    BY <1>1, <1>5
  <2> HIDE DEF S
  <2>2. /\ ts \o one \in Seq(S) /\ Len(ts \o one) = Len(ts) + Len(one) /\ Len(ts) \in Nat
        /\ DOMAIN ts = 1 .. Len(ts)
        /\ \A t \in 1 .. Len(ts) + Len(one) : (ts \o one)[t] = IF t <= Len(ts) THEN ts[t] ELSE one[t - Len(ts)]
    BY <2>1, ConcatProperties, SMTT(30)
  <2>3. Len(ts) + 1 \in 1 .. Len(ts) + Len(one) /\ ~(Len(ts) + 1 <= Len(ts)) /\ (Len(ts) + 1) - Len(ts) = 1
    BY <2>1, <2>2
  <2>4. (ts \o one)[Len(ts) + 1] = one[1]
    BY <2>2, <2>3
  <2>5. \A t \in 1 .. Len(ts) : t \in 1 .. Len(ts) + Len(one) /\ t <= Len(ts)
    BY <2>1, <2>2
  <2> QED BY <1>5, <2>1, <2>2, <2>4, <2>5 DEF S
<1>7. \A k \in 1 .. Len(cs) :
         /\ cs[k].size \in Seq(STRING) /\ cs[k].data \in Seq(STRING) /\ cs[k].end \in Seq(STRING)
         /\ cs[k].size \in Seq(Bytes) /\ cs[k].data \in Seq(Bytes) /\ cs[k].end \in Seq(Bytes)
         /\ Len(cs[k].size) \in Nat /\ Len(cs[k].data) \in Nat /\ Len(cs[k].end) \in Nat
  BY <1>3, <1>4
<1> QED BY <1>1, <1>2, <1>6, <1>7 DEF cs, ts, one, nothing

\* A chunk: its size line, its data and what ends it.
LEMMA ChunkParts ==
  ASSUME NEW m \in Messages, NEW k \in 1 .. Len(m.chunks)
  PROVE  LET c == m.chunks[k]
             all == ChunkBytes(c)
         IN  /\ all \in Seq(Bytes) /\ Len(all) = Len(c.size) + 2 + Len(c.data) + Len(c.end)
             /\ At(all, 0, c.size \o CRLF) /\ At(all, Len(c.size) + 2, c.data)
             /\ At(all, Len(c.size) + 2 + Len(c.data), c.end)
<1> DEFINE c == m.chunks[k]
           all == ChunkBytes(c)
           a == c.size \o CRLF
           b == c.data
           e == c.end
           s == c.size
<1>1. s \in Seq(Bytes) /\ b \in Seq(Bytes) /\ e \in Seq(Bytes) /\ Len(s) \in Nat /\ Len(b) \in Nat /\ Len(e) \in Nat
  BY PartsOf
<1>2. all = a \o b \o e
  BY DEF ChunkBytes
<1>3. a \in Seq(Bytes) /\ Len(a) = Len(s) + 2
  BY <1>1, WithEnd
<1>4. SUFFICES /\ all \in Seq(Bytes) /\ Len(all) = Len(s) + 2 + Len(b) + Len(e)
               /\ At(all, 0, a) /\ At(all, Len(s) + 2, b) /\ At(all, Len(s) + 2 + Len(b), e)
  OBVIOUS
<1> HIDE DEF s, b, e, a, all
<1>5. /\ all \in Seq(Bytes) /\ Len(all) = Len(a) + Len(b) + Len(e)
      /\ At(all, 0, a) /\ At(all, Len(a), b) /\ At(all, Len(a) + Len(b), e)
  BY <1>1, <1>2, <1>3, ThreeParts
<1> QED BY <1>1, <1>3, <1>5

LEMMA ChunksAt ==
  ASSUME NEW m \in Messages
  PROVE  LET all == FlattenSeq(ChunksOf(m))
         IN  /\ all \in Seq(Bytes) /\ ChunkEnds(m, 0) = 0 /\ ChunkEnds(m, Len(m.chunks)) = Len(all)
             /\ \A j \in 0 .. Len(m.chunks) - 1 :
                  /\ ChunkEnds(m, j) \in Nat /\ ChunkEnds(m, j + 1) <= Len(all)
                  /\ ChunkEnds(m, j + 1) = ChunkEnds(m, j) + Len(ChunkBytes(m.chunks[j + 1]))
                  /\ At(all, ChunkEnds(m, j), ChunkBytes(m.chunks[j + 1]))
<1> DEFINE s == ChunksOf(m)
           n == Len(m.chunks)
           all == FlattenSeq(s)
<1>1. n \in Nat /\ DOMAIN m.chunks = 1 .. n
  BY PartsOf
<1>2. \A k \in 1 .. n : ChunkBytes(m.chunks[k]) \in Seq(Bytes)
  BY ChunkParts
<1>3. s \in Seq(Seq(Bytes)) /\ Len(s) = n /\ \A k \in 1 .. n : s[k] = ChunkBytes(m.chunks[k])
  BY <1>1, <1>2 DEF ChunksOf
<1> HIDE DEF s
<1>4. all \in Seq(Bytes)
  BY <1>1, <1>3, FlattenPrefix
<1>5. ChunkEnds(m, 0) = 0
  BY <1>3 DEF FlattenSeq, ChunkEnds, s
<1>6. ChunkEnds(m, n) = Len(all)
  BY <1>3, SubSeqFull DEF ChunkEnds, s
<1>7. ASSUME NEW j \in 0 .. n - 1
      PROVE  /\ ChunkEnds(m, j) \in Nat /\ ChunkEnds(m, j + 1) <= Len(all)
             /\ ChunkEnds(m, j + 1) = ChunkEnds(m, j) + Len(ChunkBytes(m.chunks[j + 1]))
             /\ At(all, ChunkEnds(m, j), ChunkBytes(m.chunks[j + 1]))
  <2>1. j \in 0 .. Len(s) - 1 /\ j + 1 \in 1 .. n
    BY <1>1, <1>3
  <2>2. s[j + 1] = ChunkBytes(m.chunks[j + 1])
    BY <1>3, <2>1
  <2>3. /\ Len(FlattenSeq(SubSeq(s, 1, j))) \in Nat
        /\ Len(FlattenSeq(SubSeq(s, 1, j + 1))) = Len(FlattenSeq(SubSeq(s, 1, j))) + Len(s[j + 1])
        /\ Len(FlattenSeq(SubSeq(s, 1, j + 1))) <= Len(FlattenSeq(s))
        /\ At(FlattenSeq(s), Len(FlattenSeq(SubSeq(s, 1, j))), s[j + 1])
    BY <1>3, <2>1, FlattenedAt
  <2> QED BY <2>2, <2>3 DEF ChunkEnds, s
<1> QED BY <1>4, <1>5, <1>6, <1>7 DEF s

\* The lines and the data of a chunked body, in order.
LEMMA ChunkedAt ==
  ASSUME NEW m \in Messages, m.body = ChunkedBody(m.chunks, m.trailers)
  PROVE  LET last == ChunkEnds(m, Len(m.chunks))
             ls == m.trailers \o <<<<>>>>
         IN  /\ ChunkEnds(m, 0) = 0 /\ TrailerEnds(m, 0) = 0 /\ last \in Nat
             /\ \A j \in 0 .. Len(m.chunks) - 1 :
                  /\ ChunkEnds(m, j) \in Nat /\ ChunkEnds(m, j + 1) \in Nat
                  /\ ChunkEnds(m, j + 1) <= last
                  /\ ChunkEnds(m, j + 1) = ChunkEnds(m, j) + Len(ChunkBytes(m.chunks[j + 1]))
                  /\ At(m.body, ChunkEnds(m, j), ChunkBytes(m.chunks[j + 1]))
             /\ At(m.body, last, <<"n0">> \o CRLF)
             /\ \A t \in 0 .. Len(m.trailers) :
                  /\ TrailerEnds(m, t) \in Nat /\ TrailerEnds(m, t + 1) \in Nat
                  /\ TrailerEnds(m, t + 1) = TrailerEnds(m, t) + Len(ls[t + 1]) + 2
                  /\ last + 3 + TrailerEnds(m, t + 1) <= Len(m.body)
                  /\ At(m.body, last + 3 + TrailerEnds(m, t), ls[t + 1] \o CRLF)
             /\ Len(m.body) = last + 3 + TrailerEnds(m, Len(m.trailers) + 1)
<1> DEFINE last == ChunkEnds(m, Len(m.chunks))
           ls == m.trailers \o <<<<>>>>
           f == FlattenSeq(ChunksOf(m))
           zero == <<"n0">>
           z == zero \o CRLF
           t == Terminated(ls)
           n == Len(m.chunks)
           T == Len(m.trailers)
           b == m.body
<1>1. zero \in Seq(Bytes) /\ Len(zero) = 1
  BY DEF Bytes
<1>2. z \in Seq(Bytes) /\ Len(z) = 3
  <2> HIDE DEF zero
  <2>1. z \in Seq(Bytes) /\ Len(z) = Len(zero) + 2
    BY <1>1, WithEnd
  <2> HIDE DEF z
  <2> QED BY <1>1, <2>1
<1>3. f \in Seq(Bytes) /\ Len(f) = last /\ ChunkEnds(m, 0) = 0
  BY ChunksAt
<1>4. ls \in Seq(Seq(STRING)) /\ Len(ls) = T + 1 /\ T \in Nat /\ n \in Nat
  BY PartsOf
<1> HIDE DEF ls
<1>5. t \in Seq(Bytes)
  BY <1>4, TerminatedAt
<1>6. b = f \o z \o t
  <2>1. b = ((f \o zero) \o CRLF) \o t
    BY DEF ChunkedBody, ChunksOf, ls
  <2> HIDE DEF f, zero, t, b
  <2>2. (f \o zero) \o CRLF = f \o z
    BY <1>1, <1>3, LineEnd, ConcatAssociative, SMTT(30)
  <2> QED BY <2>1, <2>2
<1> HIDE DEF f, z, t
<1>7. /\ b \in Seq(Bytes) /\ Len(b) = Len(f) + Len(z) + Len(t)
      /\ At(b, 0, f) /\ At(b, Len(f), z) /\ At(b, Len(f) + Len(z), t)
  <2> HIDE DEF b
  <2> QED BY <1>2, <1>3, <1>5, <1>6, ThreeParts
<1>8. last \in Nat /\ Len(t) \in Nat /\ Len(b) = last + 3 + Len(t) /\ At(b, last, z) /\ At(b, last + 3, t)
  <2> HIDE DEF last, b
  <2>1. Len(f) \in Nat /\ Len(t) \in Nat
    BY <1>3, <1>5
  <2> QED BY <1>2, <1>3, <1>7, <2>1
<1>9. TrailerEnds(m, 0) = 0 /\ TrailerEnds(m, T + 1) = Len(t)
  BY <1>4, TerminatedAt DEF TrailerEnds, TrailersUpTo, ls, t
<1>10. ASSUME NEW j \in 0 .. n - 1
       PROVE  /\ ChunkEnds(m, j) \in Nat /\ ChunkEnds(m, j + 1) \in Nat
              /\ ChunkEnds(m, j + 1) <= last
              /\ ChunkEnds(m, j + 1) = ChunkEnds(m, j) + Len(ChunkBytes(m.chunks[j + 1]))
              /\ At(b, ChunkEnds(m, j), ChunkBytes(m.chunks[j + 1]))
  <2> DEFINE x == ChunkEnds(m, j)
             y == ChunkEnds(m, j + 1)
             c == ChunkBytes(m.chunks[j + 1])
  <2>1. x \in Nat /\ y <= last /\ y = x + Len(c) /\ At(f, x, c)
    BY <1>3, ChunksAt DEF f
  <2>2. c \in Seq(Bytes)
    <3>1. j + 1 \in 1 .. n
      BY <1>4
    <3> QED BY <3>1, ChunkParts
  <2> HIDE DEF x, y, c, b, last
  <2>3. y \in Nat
    BY <2>1, <2>2
  <2>4. x = 0 + x
    BY <2>1
  <2>5. At(b, x, c)
    BY <1>3, <1>7, <2>1, <2>2, <2>4, Shift
  <2> QED BY <2>1, <2>3, <2>5 DEF x, y, c
<1>11. ASSUME NEW i \in 0 .. T
       PROVE  /\ TrailerEnds(m, i) \in Nat /\ TrailerEnds(m, i + 1) \in Nat
              /\ TrailerEnds(m, i + 1) = TrailerEnds(m, i) + Len(ls[i + 1]) + 2
              /\ last + 3 + TrailerEnds(m, i + 1) <= Len(b)
              /\ At(b, last + 3 + TrailerEnds(m, i), ls[i + 1] \o CRLF)
  <2> DEFINE x == TrailerEnds(m, i)
             y == TrailerEnds(m, i + 1)
             l == ls[i + 1]
  <2>1. i \in 0 .. Len(ls) - 1
    BY <1>4
  <2>2. x \in Nat /\ y = x + Len(l) + 2 /\ y <= Len(t) /\ At(t, x, l \o CRLF)
    BY <1>4, <2>1, TerminatedAt DEF TrailerEnds, TrailersUpTo, ls, t
  <2>3. l \in Seq(Bytes) /\ Len(l) \in Nat /\ l \o CRLF \in Seq(Bytes)
    <3>1. i + 1 \in 1 .. Len(ls)
      BY <1>4
    <3>2. l \in Seq(STRING)
      BY <1>4, <3>1
    <3> HIDE DEF l
    <3> QED BY <3>2, TextIsBytes, WithEnd
  <2> HIDE DEF x, y, l, last, b
  <2>4. y \in Nat /\ last + 3 \in Nat /\ last + 3 + y <= Len(b)
    BY <1>8, <2>2, <2>3
  <2>5. At(b, (last + 3) + x, l \o CRLF)
    <3> DEFINE p == last + 3
               v == l \o CRLF
    <3>1. p \in Nat /\ v \in Seq(Bytes) /\ At(b, p, t) /\ At(t, x, v)
      BY <1>8, <2>2, <2>3, <2>4
    <3> HIDE DEF p, v
    <3>2. At(b, p + x, v)
      BY <1>5, <1>7, <2>2, <3>1, Shift
    <3> QED BY <3>2 DEF p, v
  <2> QED BY <2>2, <2>4, <2>5 DEF x, y, l
<1>12. Len(b) = last + 3 + TrailerEnds(m, T + 1)
  BY <1>8, <1>9
<1> QED BY <1>3, <1>8, <1>9, <1>10, <1>11, <1>12 DEF ls, z

-----------------------------------------------------------------------------
(* Which response counts *)

LEMMA AnswerSteady ==
  ASSUME UNCHANGED <<limits, messages, wire>>, responseParser'.head_request = responseParser.head_request
  PROVE  /\ \A i : (ResponseFault(messages[i]))' = ResponseFault(messages[i])
         /\ \A k : /\ (Answer(k))' = Answer(k) /\ (StartOf(k))' = StartOf(k) /\ (BodyAt(k))' = BodyAt(k)
                   /\ (Skipped(k))' <=> Skipped(k)
                   /\ (ResponseFault(Answer(k)))' = ResponseFault(Answer(k))
                   /\ (Framing(Answer(k)))' = Framing(Answer(k))
                   /\ (ChunkFault(Answer(k)))' = ChunkFault(Answer(k))
         /\ \A k, i : /\ (StatusFault(Answer(k), i))' = StatusFault(Answer(k), i)
                      /\ (ChunkFaultAt(Answer(k), i))' = ChunkFaultAt(Answer(k), i)
                      /\ (TrailerFaultAt(Answer(k), i))' = TrailerFaultAt(Answer(k), i)
         /\ Final' = Final /\ FinalEnd' = FinalEnd /\ BodyStart' = BodyStart
         /\ (EndsItself)' <=> EndsItself
         /\ (Framing(messages[Final]))' = Framing(messages[Final])
<1>1. limits' = limits /\ messages' = messages /\ wire' = wire
      /\ responseParser'.head_request = responseParser.head_request
  OBVIOUS
<1>2. \A i : (ResponseFault(messages[i]))' = ResponseFault(messages[i])
  <2>1. ASSUME NEW i PROVE (ResponseFault(messages[i]))' = ResponseFault(messages[i])
    BY <1>1 DEF ResponseFault, HeadFault, LineFault
  <2> QED BY <2>1
<1>3. \A k : (Answer(k))' = Answer(k) /\ (StartOf(k))' = StartOf(k)
  BY <1>1 DEF Answer, StartOf
<1>4. \A k : (BodyAt(k))' = BodyAt(k)
  BY <1>3 DEF BodyAt
<1>5. \A k : (Skipped(k))' <=> Skipped(k)
  BY <1>1, <1>2 DEF Skipped
<1>6. \A k : (ResponseFault(Answer(k)))' = ResponseFault(Answer(k))
  BY <1>2 DEF Answer
<1>7. \A k : (Framing(Answer(k)))' = Framing(Answer(k))
  BY <1>1 DEF Framing, Answer
<1>8. \A k, i : (StatusFault(Answer(k), i))' = StatusFault(Answer(k), i)
  <2>1. ASSUME NEW k, NEW i PROVE (StatusFault(Answer(k), i))' = StatusFault(Answer(k), i)
    BY <1>1 DEF StatusFault, LineFault, Answer
  <2> QED BY <2>1
<1>9. \A k, i : (ChunkFaultAt(Answer(k), i))' = ChunkFaultAt(Answer(k), i)
  <2>1. ASSUME NEW k, NEW i PROVE (ChunkFaultAt(Answer(k), i))' = ChunkFaultAt(Answer(k), i)
    BY <1>1 DEF ChunkFaultAt, Answer
  <2> QED BY <2>1
<1>10. \A k, i : (TrailerFaultAt(Answer(k), i))' = TrailerFaultAt(Answer(k), i)
  <2>1. ASSUME NEW k, NEW i PROVE (TrailerFaultAt(Answer(k), i))' = TrailerFaultAt(Answer(k), i)
    BY <1>1 DEF TrailerFaultAt, Answer
  <2> QED BY <2>1
<1>11. \A k : (ChunkFault(Answer(k)))' = ChunkFault(Answer(k))
  <2>1. ASSUME NEW k PROVE (ChunkFault(Answer(k)))' = ChunkFault(Answer(k))
    BY <1>1 DEF ChunkFault, ChunkFaultAt, TrailerFaultAt, Answer
  <2> QED BY <2>1
<1>12. Final' = Final
  <2> DEFINE X == {i \in DOMAIN messages : \/ ResponseFault(messages[i]) # "none"
                                          \/ Meaning(messages[i].line) # "s100"}
             Y == X \cup {Len(messages)}
  <2>1. X' = X
    BY <1>1, <1>2
  <2>2. Y' = Y
    BY <1>1, <2>1
  <2>3. Final = Min(Y) /\ Final' = Min(Y')
    BY DEF Final
  <2> HIDE DEF Y
  <2> QED BY <2>2, <2>3
<1>13. (Framing(messages[Final]))' = Framing(messages[Final])
  BY <1>1, <1>12 DEF Framing
<1>14. FinalStart' = FinalStart /\ BodyStart' = BodyStart
  BY <1>1, <1>12 DEF FinalStart, BodyStart
<1>15. FinalEnd' = FinalEnd /\ ((EndsItself)' <=> EndsItself)
  BY <1>1, <1>12, <1>13, <1>14 DEF FinalEnd, EndsItself
<1> QED BY <1>2, <1>3, <1>4, <1>5, <1>6, <1>7, <1>8, <1>9, <1>10, <1>11, <1>12, <1>13, <1>14, <1>15

\* ... and the verdict on the final response, as long as nothing more is read.
LEMMA VerdictSteady ==
  ASSUME UNCHANGED <<limits, messages, wire, sent>>,
         responseParser'.head_request = responseParser.head_request
  PROVE  /\ FinalFault' = FinalFault /\ FinalBody' = FinalBody
         /\ \A e : FinalOwnFault(e)' <=> FinalOwnFault(e)
<1>1. limits' = limits /\ messages' = messages /\ wire' = wire /\ sent' = sent
      /\ responseParser'.head_request = responseParser.head_request
  OBVIOUS
<1>2. /\ Final' = Final /\ BodyStart' = BodyStart
      /\ (Framing(messages[Final]))' = Framing(messages[Final])
      /\ \A i : (ResponseFault(messages[i]))' = ResponseFault(messages[i])
  BY <1>1, AnswerSteady
<1>3. (ResponseFault(messages[Final]))' = ResponseFault(messages[Final])
  BY <1>1, <1>2 DEF ResponseFault, HeadFault, LineFault
<1>4. (ChunkFault(messages[Final]))' = ChunkFault(messages[Final])
  BY <1>1, <1>2 DEF ChunkFault, ChunkFaultAt, TrailerFaultAt
<1>5. FinalFault' = FinalFault
  BY <1>1, <1>2, <1>3, <1>4 DEF FinalFault
<1>6. FinalBody' = FinalBody
  BY <1>1, <1>2 DEF FinalBody
<1>7. \A e : FinalOwnFault(e)' <=> FinalOwnFault(e)
  BY <1>1, <1>2, <1>5 DEF FinalOwnFault
<1> QED BY <1>5, <1>6, <1>7

LEMMA ProxyFacts ==
  ASSUME IInv, ProxyInv, side = "response"
  PROVE  /\ Streaming /\ Len(messages) \in Nat /\ Len(messages) > 0 /\ limits \in ClientLimits
         /\ responseParser \in ResponseParsers /\ Len(input.bytes) \in Nat /\ sent \in Nat /\ Taken \in Nat
         /\ sent = Taken + Len(input.bytes) /\ sent <= Len(wire) /\ Len(wire) \in Nat
         /\ limits.status_line \in Nat /\ limits.header_bytes \in Nat /\ limits.header_count \in Nat
         /\ limits.body \in Nat
         /\ \A k \in 0 .. Len(messages) - 1 :
              /\ Answer(k) \in Messages /\ IsHead(Answer(k)) /\ IsHeadResponse(Answer(k))
              /\ responseParser.head_request \/ IsResponse(Answer(k))
              /\ Len(Answer(k).headers) \in Nat
<1>1. Streaming /\ messages \in Seq(Messages) /\ messages # <<>>
  BY DEF ProxyInv, AnswersInv, Streaming
<1>2. Len(messages) \in Nat /\ Len(messages) > 0 /\ DOMAIN messages = 1 .. Len(messages)
  BY <1>1
<1>3. limits \in ClientLimits /\ responseParser \in ResponseParsers
  BY DEF IInv, LoopTyped, ResponseInv
<1>4. /\ limits.status_line \in Nat /\ limits.header_bytes \in Nat /\ limits.header_count \in Nat
      /\ limits.body \in Nat
  BY <1>3 DEF ClientLimits
<1>5. /\ Len(input.bytes) \in Nat /\ sent \in Nat /\ Taken \in Nat
      /\ sent = Taken + Len(input.bytes) /\ sent <= Len(wire) /\ Len(wire) \in Nat
  BY <1>1, BufferTyped DEF Streaming
<1>6. ASSUME NEW k \in 0 .. Len(messages) - 1
      PROVE  /\ Answer(k) \in Messages /\ IsHead(Answer(k)) /\ IsHeadResponse(Answer(k))
             /\ responseParser.head_request \/ IsResponse(Answer(k))
             /\ Len(Answer(k).headers) \in Nat
  <2>1. k + 1 \in 1 .. Len(messages)
    BY <1>2
  <2>2. Answer(k) \in Messages
    BY <1>1, <2>1 DEF Answer
  <2>3. IsHeadResponse(Answer(k)) /\ (responseParser.head_request \/ IsResponse(Answer(k)))
    BY <1>2, <2>1 DEF ProxyInv, AnswersInv, Answer
  <2> QED BY <2>2, <2>3, LinesOf DEF IsHeadResponse
<1> QED BY <1>1, <1>2, <1>3, <1>4, <1>5, <1>6

LEMMA FinalIs ==
  ASSUME IInv, ProxyInv, side = "response"
  PROVE  /\ Final \in 1 .. Len(messages)
         /\ \A k \in 0 .. Len(messages) - 1 :
              Skipped(k) => /\ Final >= k + 1
                            /\ ResponseFault(Answer(k)) # "none" \/ Meaning(Answer(k).line) # "s100"
                                 => Final = k + 1
         /\ Skipped(Len(messages)) => Final = Len(messages)
<1> DEFINE n == Len(messages)
           Counts(i) == ResponseFault(messages[i]) # "none" \/ Meaning(messages[i].line) # "s100"
           X == {i \in 1 .. n : Counts(i)} \cup {n}
           least == Min(X)
<1>1. n \in Nat /\ n > 0 /\ DOMAIN messages = 1 .. n
  BY ProxyFacts DEF ProxyInv, AnswersInv
<1>2. Final = least
  BY <1>1 DEF Final
<1>5. \A k : Skipped(k) => \A i \in 1 .. k : ~Counts(i)
  BY DEF Skipped
<1> HIDE DEF Counts, n
<1>3. X \subseteq 1 .. n /\ n \in X /\ \A i \in 1 .. n : Counts(i) => i \in X
  BY <1>1
<1>4. \A i \in X : i = n \/ Counts(i)
  OBVIOUS
<1> HIDE DEF X
<1>6. least \in X /\ \A i \in X : least <= i
  <2>1. X \subseteq Nat /\ X # {}
    BY <1>1, <1>3
  <2> QED BY <2>1, SmallestOf
<1> HIDE DEF least
<1>7. least \in 1 .. n /\ least <= n
  BY <1>1, <1>3, <1>6
<1>8. ASSUME NEW k \in 0 .. n - 1, Skipped(k)
      PROVE  least >= k + 1 /\ (Counts(k + 1) => least = k + 1)
  BY <1>1, <1>7, <1>8, <1>4, <1>5, <1>6, <1>3
<1>9. ASSUME Skipped(n) PROVE least = n
  BY <1>4, <1>5, <1>6, <1>7, <1>9
<1> QED BY <1>2, <1>7, <1>8, <1>9 DEF Counts, n, Answer

LEMMA StartsGrow ==
  ASSUME Streaming, NEW a \in 0 .. Len(messages), NEW b \in 0 .. Len(messages), a <= b
  PROVE  StartOf(a) <= StartOf(b)
<1> DEFINE n == Len(messages)
           Good(d) == a + d <= n => StartOf(a) <= StartOf(a + d)
           T == {d \in Nat : Good(d)}
<1>1. n \in Nat /\ a \in Nat /\ \A k \in 0 .. n : StartOf(k) \in Nat
  BY Starts
<1>2. 0 \in T
  BY <1>1
<1>3. ASSUME NEW d \in Nat, d \in T PROVE d + 1 \in T
  <2>1. SUFFICES ASSUME a + (d + 1) <= n PROVE StartOf(a) <= StartOf(a + (d + 1))
    OBVIOUS
  <2>2. /\ a + d \in 0 .. n - 1 /\ a + d <= n /\ a + (d + 1) = (a + d) + 1 /\ a + (d + 1) \in 0 .. n
        /\ a + d \in 0 .. n
    BY <1>1, <2>1
  <2>3. StartOf(a) <= StartOf(a + d)
    BY <1>3, <2>2
  <2> DEFINE c == a + d
             l == Len(Encoded(messages[c + 1]))
             x == StartOf(a)
             y == StartOf(c)
             z == StartOf(c + 1)
  <2>4. z = y + l /\ messages[c + 1] \in Messages
    BY <2>2, Starts
  <2>5. l \in Nat
    BY <2>4, HeadAt
  <2>6. x \in Nat /\ y \in Nat /\ x <= y
    BY <1>1, <2>2, <2>3
  <2> HIDE DEF x, y, z, l
  <2>7. x <= z
    BY <2>4, <2>5, <2>6
  <2> QED BY <2>2, <2>7 DEF x, z, c
<1> HIDE DEF Good
<1>4. \A d \in Nat : d \in T
  <2> HIDE DEF T
  <2> QED BY <1>2, <1>3, AllNaturals
<1>5. b - a \in Nat /\ a + (b - a) = b /\ b <= n
  BY <1>1
<1>6. Good(b - a)
  BY <1>4, <1>5
<1> QED BY <1>5, <1>6 DEF Good

\* The verdict, once the head of the answer is known.
LEMMA Verdict ==
  ASSUME IInv, ProxyInv, side = "response", NEW k \in 0 .. Len(messages) - 1, Skipped(k)
  PROVE  /\ ResponseFault(Answer(k)) # "none" => FinalFault = ResponseFault(Answer(k))
         /\ Meaning(Answer(k).line) # "s100" /\ ResponseFault(Answer(k)) = "none" =>
              /\ messages[Final] = Answer(k) /\ BodyStart = BodyAt(k)
              /\ FinalFault = IF Framing(Answer(k)) = "chunked" THEN ChunkFault(Answer(k))
                              ELSE IF Framing(Answer(k)) = "eof" /\ sent - BodyAt(k) > limits.body
                              THEN "BodyTooLarge" ELSE "none"
              /\ EndsItself <=> Framing(Answer(k)) \in {"none", "fixed", "chunked"}
              /\ FinalEnd = IF Framing(Answer(k)) = "none" THEN BodyAt(k)
                            ELSE StartOf(k) + Len(Encoded(Answer(k)))
         /\ Len(Answer(k).line) = limits.status_line => FinalOwnFault("HeaderTooLarge")
<1>1. /\ ResponseFault(Answer(k)) # "none" \/ Meaning(Answer(k).line) # "s100" => Final = k + 1
      /\ Final >= k + 1 /\ Final \in 1 .. Len(messages) /\ Len(messages) \in Nat
  BY FinalIs, ProxyFacts
<1>2. Final = k + 1 => messages[Final] = Answer(k) /\ FinalStart = StartOf(k) /\ BodyStart = BodyAt(k)
  <2>1. SUFFICES ASSUME Final = k + 1
                 PROVE  messages[Final] = Answer(k) /\ FinalStart = StartOf(k) /\ BodyStart = BodyAt(k)
    OBVIOUS
  <2>2. messages[Final] = Answer(k)
    BY <2>1 DEF Answer
  <2>3. (k + 1) - 1 = k
    OBVIOUS
  <2>4. FinalStart = StartOf(k)
    BY <2>1, <2>3 DEF FinalStart, StartOf
  <2> QED BY <2>2, <2>4 DEF BodyStart, BodyAt
<1>3. ResponseFault(Answer(k)) # "none" => FinalFault = ResponseFault(Answer(k))
  BY <1>1, <1>2 DEF FinalFault
<1>4. ASSUME Meaning(Answer(k).line) # "s100", ResponseFault(Answer(k)) = "none"
      PROVE  /\ messages[Final] = Answer(k) /\ BodyStart = BodyAt(k)
             /\ FinalFault = IF Framing(Answer(k)) = "chunked" THEN ChunkFault(Answer(k))
                             ELSE IF Framing(Answer(k)) = "eof" /\ sent - BodyAt(k) > limits.body
                             THEN "BodyTooLarge" ELSE "none"
             /\ EndsItself <=> Framing(Answer(k)) \in {"none", "fixed", "chunked"}
             /\ FinalEnd = IF Framing(Answer(k)) = "none" THEN BodyAt(k)
                           ELSE StartOf(k) + Len(Encoded(Answer(k)))
  BY <1>1, <1>2, <1>4 DEF FinalFault, EndsItself, FinalEnd
<1>5. Len(Answer(k).line) = limits.status_line => FinalOwnFault("HeaderTooLarge")
  BY <1>1 DEF FinalOwnFault, Answer
<1> QED BY <1>3, <1>4, <1>5

\* A turn of the parser: what it must leave behind.
LEMMA AnswerTurn ==
  ASSUME IInv, ProxyInv, side = "response", Running, ResponseFrame, UNCHANGED <<parser, loopVars>>,
         responseParser'.head_request = responseParser.head_request, Buffered',
         \/ AtAnswerEnd' \/ AtAnswerFault'
         \/ \E k \in 0 .. Len(messages) : Skipped(k) /\ InAnswer(k)'
  PROVE  ProxyInv'
<1>1. /\ limits' = limits /\ wire' = wire /\ sent' = sent /\ pc' = pc /\ pc = "parse"
      /\ messages' = messages /\ outcome' = outcome
  BY DEF ResponseFrame, loopVars, Running
<1>2. \A k : (Skipped(k))' <=> Skipped(k)
  BY <1>1, AnswerSteady
<1>3. AnswersInv /\ AnswerOutcome
  BY DEF ProxyInv
<1>4. AnswersInv'
  BY <1>1, <1>3 DEF AnswersInv
<1>5. outcome = "none"
  BY <1>1, <1>3 DEF AnswerOutcome
<1>6. AnswerOutcome'
  BY <1>1, <1>5 DEF AnswerOutcome, ResponseErrors
<1>7. AnswerPlace'
  <2>1. Len(messages)' = Len(messages)
    BY <1>1
  <2>2. CASE AtAnswerEnd' \/ AtAnswerFault'
    BY <2>2 DEF AnswerPlace
  <2>3. CASE \E k \in 0 .. Len(messages) : Skipped(k) /\ InAnswer(k)'
    <3>1. PICK k \in 0 .. Len(messages) : Skipped(k) /\ InAnswer(k)'
      BY <2>3
    <3>2. (Skipped(k))' /\ k \in 0 .. Len(messages')
      BY <1>1, <1>2, <3>1
    <3> QED BY <3>1, <3>2 DEF AnswerPlace
  <2> QED BY <2>2, <2>3
<1> QED BY <1>1, <1>4, <1>6, <1>7 DEF ProxyInv

LEMMA AnswerRefused ==
  ASSUME IInv, ProxyInv, side = "response", Running, ResponseFrame, UNCHANGED <<parser, loopVars>>,
         Buffered', NEW e \in ResponseErrors \ {"PrematureEof"}, ResponseFails(e), FinalOwnFault(e)
  PROVE  ProxyInv'
<1>1. /\ UNCHANGED <<limits, messages, wire, sent>> /\ result' = e
      /\ responseParser' = [responseParser EXCEPT !.state = "Error"] /\ responseParser \in ResponseParsers
  BY ProxyFacts DEF ResponseFrame, loopVars, ResponseFails
<1>2. responseParser'.head_request = responseParser.head_request
  BY <1>1 DEF ResponseParsers
<1>3. \A x : FinalOwnFault(x)' <=> FinalOwnFault(x)
  BY <1>1, <1>2, VerdictSteady
<1>4. AtAnswerFault'
  <2>1. (FinalOwnFault(e))'
    BY <1>3
  <2> QED BY <1>1, <2>1 DEF AtAnswerFault, FinalOwnFault
<1> QED BY <1>2, <1>4, AnswerTurn

\* The line that comes next, once it has arrived.
LEMMA ComesBytes ==
  ASSUME IInv, Buffered, NEW l \in Seq(Bytes), IsLine(l), NEW p \in Nat, Taken = p, At(wire, p, l \o CRLF)
  PROVE  /\ HasLine <=> sent >= p + Len(l) + 2
         /\ HasLine => line_bytes = Len(l) /\ Line = l
         /\ ~HasLine => Len(input.bytes) <= Len(l) + 1
         /\ p + Len(l) + 2 <= Len(wire) /\ Len(l) \in Nat
<1> DEFINE size == Len(input.bytes)
           n == Len(l)
<1>1. l \in Seq(Bytes) /\ n \in Nat
  OBVIOUS
<1>2. size \in Nat /\ p + size = sent /\ sent \in Nat
  BY BufferTyped
<1>3. /\ HasLine <=> size >= n + 2
      /\ HasLine => line_bytes = n /\ Line = l
  BY <1>1, FindsLine
<1>4. p + n + 2 <= Len(wire)
  <2> DEFINE c == l \o CRLF
  <2>1. Len(c) = n + 2 /\ p + Len(c) <= Len(wire)
    BY <1>1, WithEnd DEF At
  <2> HIDE DEF n, c
  <2>2. Len(wire) \in Nat
    BY BufferTyped
  <2> QED BY <1>1, <2>1, <2>2
<1> HIDE DEF size, n
<1>5. (size >= n + 2 <=> sent >= p + n + 2) /\ (~(size >= n + 2) => size <= n + 1)
  BY <1>1, <1>2
<1> QED BY <1>1, <1>3, <1>4, <1>5 DEF size, n

LEMMA ComesLine ==
  ASSUME IInv, Buffered, NEW l \in Seq(STRING), IsLine(l), NEW p \in Nat, Taken = p, At(wire, p, l \o CRLF)
  PROVE  /\ HasLine <=> sent >= p + Len(l) + 2
         /\ HasLine => line_bytes = Len(l) /\ Line = l
         /\ ~HasLine => Len(input.bytes) <= Len(l) + 1
         /\ p + Len(l) + 2 <= Len(wire) /\ Len(l) \in Nat
BY TextIsBytes, ComesBytes

LEMMA LineConsumed ==
  ASSUME IInv, Buffered, TakeResponseLine
  PROVE  /\ Running /\ ResponseFrame /\ HasLine /\ Buffered' /\ Taken' = Taken + line_bytes + 2
         /\ line_bytes \in Nat
<1>1. /\ Running /\ ResponseFrame /\ HasLine /\ input' = consume(input, line_bytes + 2)
      /\ UNCHANGED <<wire, sent>>
  BY DEF TakeResponseLine, ResponseFrame
<1>2. line_bytes + 2 \in 0 .. Len(input.bytes) /\ line_bytes \in Nat
  BY <1>1, LineMeans DEF IInv, BufferInv
<1>3. Buffered' /\ Taken' = Taken + (line_bytes + 2)
  BY <1>1, <1>2, ConsumedBuffered
<1>4. Taken \in Nat
  BY DEF Buffered
<1> DEFINE t == Taken
<1>5. t \in Nat /\ Taken' = t + (line_bytes + 2)
  BY <1>3, <1>4
<1> HIDE DEF t
<1>6. Taken' = t + line_bytes + 2
  BY <1>2, <1>5
<1> QED BY <1>1, <1>2, <1>3, <1>6 DEF t

-----------------------------------------------------------------------------
(* The head of a response *)

\* Line i of a response is too large, malformed or neither.
StatusTooLarge(m, i) ==
    \/ i = 0 /\ Len(m.line) > limits.status_line
    \/ i > 0 /\ Ends(m, i + 1) > limits.header_bytes
    \/ i \in DOMAIN m.headers /\ i > limits.header_count
StatusMalformed(m, i) ==
    \/ i = 0 /\ Meaning(m.line) \notin Statuses
    \/ i \in DOMAIN m.headers /\ Meaning(m.headers[i]) \notin ResponseHeaderNames

LEMMA StatusFaultIs ==
  ASSUME limits \in ClientLimits, NEW m \in Messages, NEW i \in 0 .. Len(m.headers) + 1
  PROVE  StatusFault(m, i) = IF StatusTooLarge(m, i) THEN "HeaderTooLarge"
                             ELSE IF StatusMalformed(m, i) THEN "malformed" ELSE "none"
<1> DEFINE b == limits.header_bytes
           e == Ends(m, i + 1)
           l == Len(m.headers[i])
           n == Len(m.headers)
<1>1. b \in Nat /\ n \in Nat /\ DOMAIN m.headers = 1 .. n
  BY LinesOf DEF ClientLimits
<1>2. Len(HeadUpTo(m, i)) = e
  BY DEF Ends, HeadUpTo
<1>3. i \in 1 .. n => i > 0 /\ (l > b => e > b)
  <2>1. SUFFICES ASSUME i \in 1 .. n PROVE i > 0 /\ (l > b => e > b)
    OBVIOUS
  <2>2. /\ Lines(m)[i + 1] = m.headers[i] /\ e \in Nat /\ Ends(m, i) \in Nat
        /\ e = Ends(m, i) + Len(Lines(m)[i + 1]) + 2 /\ Len(Lines(m)[i + 1]) \in Nat
    BY <2>1, LinesOf, HeadAt
  <2> DEFINE x == Ends(m, i)
  <2>3. x \in Nat /\ l \in Nat /\ e = x + l + 2
    BY <2>2
  <2> HIDE DEF x, l, e, b
  <2> QED BY <1>1, <2>1, <2>3
<1> HIDE DEF b, e, l, n
<1>4. StatusFault(m, i) =
        IF \/ i = 0 /\ Len(m.line) > limits.status_line
           \/ i > 0 /\ e > b
           \/ i \in 1 .. n /\ (l > b \/ i > limits.header_count)
        THEN "HeaderTooLarge"
        ELSE IF StatusMalformed(m, i) THEN "malformed" ELSE "none"
  BY <1>1, <1>2 DEF StatusFault, LineFault, StatusMalformed, b, l
<1> QED BY <1>1, <1>3, <1>4 DEF StatusTooLarge, b, e

LEMMA StatusRefused ==
  ASSUME limits \in ClientLimits, NEW m \in Messages, NEW j \in 0 .. Len(m.headers) + 1,
         \A i \in 0 .. j - 1 : StatusFault(m, i) = "none"
  PROVE  /\ StatusTooLarge(m, j) => ResponseFault(m) = "HeaderTooLarge"
         /\ ~StatusTooLarge(m, j) /\ StatusMalformed(m, j) => ResponseFault(m) = "BadResponse"
<1> DEFINE head == HeadFault(m, limits.status_line, limits.header_bytes, Statuses, ResponseHeaderNames)
<1>1. Len(m.headers) \in Nat
  BY LinesOf
<1>2. StatusFault(m, j) # "none" => head = StatusFault(m, j)
  BY <1>1, FirstFault DEF StatusFault
<1>3. /\ head = "HeaderTooLarge" => ResponseFault(m) = "HeaderTooLarge"
      /\ head = "malformed" => ResponseFault(m) = "BadResponse"
  BY DEF ResponseFault
<1> HIDE DEF head
<1>4. StatusTooLarge(m, j) => StatusFault(m, j) = "HeaderTooLarge"
  BY StatusFaultIs
<1>5. ~StatusTooLarge(m, j) /\ StatusMalformed(m, j) => StatusFault(m, j) = "malformed"
  BY StatusFaultIs
<1> QED BY <1>2, <1>3, <1>4, <1>5

\* What finishHeaders decides, from the message.
LEMMA FramingIs ==
  ASSUME NEW m \in Messages, \A i \in 0 .. Len(m.headers) + 1 : StatusFault(m, i) = "none",
         NEW q, q.status = Meaning(m.line), q.headers = Meanings(m),
         q.head_request = responseParser.head_request
  PROVE  /\ ResponseFault(m) = FramingError(q)
         /\ FramingError(q) = "none" /\ Meaning(m.line) # "s100" =>
              /\ Meaning(m.line) # "s101"
              /\ Framing(m) = IF q.head_request \/ q.status = "s204" THEN "none"
                              ELSE IF Transfers(q) # {} THEN "chunked"
                              ELSE IF Lengths(q) = {} THEN "eof" ELSE "fixed"
              /\ Framing(m) = "chunked" =>
                   Count(m, {"gzip"}) = 0 /\ Count(m, Codings) = 1 /\ Count(m, LengthNames) = 0
              /\ Framing(m) = "fixed" =>
                   /\ Count(m, Codings) = 0 /\ Count(m, LengthNames) = 1 /\ Length(m) # "badlength"
                   /\ BodyLength(q) = Length(m) /\ ~(Number[Length(m)] > limits.body)
<1> DEFINE h == m.headers
           mean == Meanings(m)
           at(names) == {i \in DOMAIN h : Meaning(h[i]) \in names}
<1>1. Len(h) \in Nat /\ DOMAIN h = 1 .. Len(h)
  BY LinesOf
<1>2. DOMAIN mean = DOMAIN h /\ \A i \in DOMAIN h : mean[i] = Meaning(h[i])
  BY DEF Meanings
<1>3. \A names : Values(mean, names) = at(names)
  BY <1>2 DEF Values
<1>4. \A names : Count(m, names) = Cardinality(at(names))
  BY DEF Count
<1>5. \A names : IsFiniteSet(at(names)) /\ at(names) \subseteq 1 .. Len(h)
  <2>1. IsFiniteSet(1 .. Len(h))
    BY <1>1, FS_Interval
  <2> QED BY <1>1, <2>1, FS_Subset
<1>7. /\ Lengths(q) = at(LengthNames) /\ BodyLength(q) = mean[Min(at(LengthNames))]
      /\ Transfers(q) = at(Codings) /\ FirstValue(q.headers, Codings) = mean[Min(at(Codings))]
  BY <1>3 DEF Lengths, BodyLength, Transfers, FirstValue
<1>8. Length(m) = Meaning(h[CHOOSE i \in DOMAIN h : Meaning(h[i]) \in LengthNames])
  BY DEF Length
<1>9. HeadFault(m, limits.status_line, limits.header_bytes, Statuses, ResponseHeaderNames) = "none"
  BY <1>1, FirstFault DEF StatusFault
<1>10. ResponseFault(m) =
             IF Count(m, Codings) > 0 /\ Count(m, LengthNames) > 0 THEN "BadResponse"
             ELSE IF Count(m, Codings) > 1 \/ Count(m, {"gzip"}) > 0 \/ Meaning(m.line) = "s101"
             THEN "UnsupportedTransferEncoding"
             ELSE IF \/ responseParser.head_request \/ Meaning(m.line) \in {"s100", "s204"}
                     \/ Count(m, LengthNames) = 0 THEN "none"
             ELSE IF Count(m, LengthNames) > 1 \/ Length(m) = "badlength" THEN "BadResponse"
             ELSE IF Number[Length(m)] > limits.body THEN "BodyTooLarge" ELSE "none"
  BY <1>9 DEF ResponseFault
<1> DEFINE c(names) == Cardinality(at(names))
<1>11. \A names : c(names) \in Nat /\ (c(names) = 0 <=> at(names) = {})
  BY <1>5, FS_CardinalityType, FS_EmptySet
<1>20. ASSUME NEW names, c(names) = 1
       PROVE  \E x \in DOMAIN h : at(names) = {x} /\ Min(at(names)) = x /\ mean[x] = Meaning(h[x])
  <2>2. PICK x : at(names) = {x}
    BY <1>5, <1>20, FS_Singleton
  <2>3. x \in DOMAIN h /\ Meaning(h[x]) \in names /\ x \in Nat
    BY <1>1, <2>2
  <2>6. Min({x}) = x
    <3>1. {x} \subseteq Nat /\ {x} # {}
      BY <2>3
    <3>2. Min({x}) \in {x}
      BY <3>1, SmallestOf
    <3> QED BY <3>2
  <2>7. Min(at(names)) = x
    <3> HIDE DEF at
    <3> QED BY <2>2, <2>6
  <2> QED BY <1>2, <2>2, <2>3, <2>7
<1>12. c(LengthNames) = 1 => Length(m) = BodyLength(q)
  <2>1. SUFFICES ASSUME c(LengthNames) = 1 PROVE Length(m) = BodyLength(q)
    OBVIOUS
  <2>2. PICK x \in DOMAIN h : /\ at(LengthNames) = {x} /\ Min(at(LengthNames)) = x
                              /\ mean[x] = Meaning(h[x])
    BY <1>20, <2>1
  <2> DEFINE ch == CHOOSE i \in DOMAIN h : Meaning(h[i]) \in LengthNames
  <2>3. Meaning(h[x]) \in LengthNames
    BY <2>2
  <2>4. ch \in DOMAIN h /\ Meaning(h[ch]) \in LengthNames
    BY <2>3
  <2> HIDE DEF ch
  <2>5. ch = x
    BY <2>2, <2>4
  <2> QED BY <1>7, <1>8, <2>2, <2>5 DEF ch
<1>13. c(Codings) = 1 => /\ FirstValue(q.headers, Codings) # "chunked" <=> c({"gzip"}) > 0
                         /\ c({"gzip"}) = 0 => c({"chunked"}) > 0
  <2>1. SUFFICES ASSUME c(Codings) = 1
                 PROVE  /\ FirstValue(q.headers, Codings) # "chunked" <=> c({"gzip"}) > 0
                        /\ c({"gzip"}) = 0 => c({"chunked"}) > 0
    OBVIOUS
  <2>2. PICK x \in DOMAIN h : at(Codings) = {x} /\ Min(at(Codings)) = x /\ mean[x] = Meaning(h[x])
    BY <1>20, <2>1
  <2>3. Meaning(h[x]) \in {"chunked", "gzip"}
    BY <2>2 DEF Codings
  <2>4. at({"gzip"}) # {} <=> Meaning(h[x]) = "gzip"
    BY <2>2, <2>3 DEF Codings
  <2>5. Meaning(h[x]) = "chunked" => at({"chunked"}) # {}
    OBVIOUS
  <2>6. /\ c({"gzip"}) \in Nat /\ (c({"gzip"}) = 0 <=> at({"gzip"}) = {})
        /\ c({"chunked"}) \in Nat /\ (c({"chunked"}) = 0 <=> at({"chunked"}) = {})
    BY <1>11
  <2>7. FirstValue(q.headers, Codings) = Meaning(h[x])
    BY <1>7, <2>2
  <2> HIDE DEF c, at
  <2>8. (c({"gzip"}) > 0 <=> at({"gzip"}) # {}) /\ (c({"chunked"}) > 0 <=> at({"chunked"}) # {})
    BY <2>6
  <2> QED BY <2>3, <2>4, <2>5, <2>6, <2>7, <2>8
<1>14. at(Codings) = {} => at({"gzip"}) = {} /\ at({"chunked"}) = {}
  BY DEF Codings
<1>6. /\ Cardinality(Transfers(q)) = c(Codings) /\ Cardinality(Lengths(q)) = c(LengthNames)
  <2> HIDE DEF at
  <2> QED BY <1>7
<1> HIDE DEF at, c, h, mean
<1>15. \A names : Count(m, names) = c(names)
  BY <1>4 DEF c
<1> DEFINE cs == c(Codings)
           ls == c(LengthNames)
           gs == c({"gzip"})
           ks == c({"chunked"})
<1>16. /\ cs \in Nat /\ ls \in Nat /\ gs \in Nat /\ ks \in Nat
       /\ (cs = 0 <=> Transfers(q) = {}) /\ (ls = 0 <=> Lengths(q) = {})
       /\ (cs = 0 => gs = 0 /\ ks = 0)
       /\ (cs = 1 => /\ FirstValue(q.headers, Codings) # "chunked" <=> gs > 0
                     /\ gs = 0 => ks > 0)
       /\ (ls = 1 => Length(m) = BodyLength(q))
  BY <1>7, <1>11, <1>12, <1>13, <1>14
<1>17. FramingError(q) =
         IF Transfers(q) # {} /\ Lengths(q) # {} THEN "BadResponse"
         ELSE IF \/ cs > 1 \/ (Transfers(q) # {} /\ FirstValue(q.headers, Codings) # "chunked")
                 \/ q.status = "s101" THEN "UnsupportedTransferEncoding"
         ELSE IF \/ q.status = "s100" \/ q.head_request \/ q.status = "s204"
                 \/ Transfers(q) # {} \/ Lengths(q) = {}
         THEN "none"
         ELSE IF ls # 1 \/ BodyLength(q) = "badlength" THEN "BadResponse"
         ELSE IF Number[BodyLength(q)] > limits.body THEN "BodyTooLarge"
         ELSE "none"
  <2>1. Cardinality(Transfers(q)) = cs /\ Cardinality(Lengths(q)) = ls
    BY <1>6
  <2> HIDE DEF cs, ls
  <2> QED BY <2>1 DEF FramingError
<1>18. Framing(m) = IF Meaning(m.line) = "s100" THEN "informational"
                    ELSE IF responseParser.head_request \/ Meaning(m.line) = "s204" THEN "none"
                    ELSE IF ks > 0 THEN "chunked"
                    ELSE IF ls > 0 THEN "fixed" ELSE "eof"
  BY <1>15 DEF Framing
<1>19. Count(m, Codings) = cs /\ Count(m, LengthNames) = ls /\ Count(m, {"gzip"}) = gs
  BY <1>15
<1> HIDE DEF cs, ls, gs, ks
<1>21. /\ (cs > 0 <=> Transfers(q) # {}) /\ (ls > 0 <=> Lengths(q) # {})
       /\ (ls > 1 <=> ls # 1 /\ Lengths(q) # {}) /\ (~(cs > 1) /\ Transfers(q) # {} => cs = 1)
       /\ (gs > 0 <=> gs # 0) /\ (ks > 0 <=> ks # 0) /\ (cs = 1 => ~(cs > 1))
       /\ (~(ls > 1) /\ Lengths(q) # {} => ls = 1)
  BY <1>16
<1> DEFINE big == Number[Length(m)] > limits.body
<1>22. ls = 1 => (Number[BodyLength(q)] > limits.body <=> big)
  BY <1>16
<1> HIDE DEF big
<1>23. ResponseFault(m) = FramingError(q)
  <2> DEFINE lq == Lengths(q) = {}
             tq == Transfers(q) = {}
             fv == FirstValue(q.headers, Codings) = "chunked"
             bl == BodyLength(q)
             bigq == Number[BodyLength(q)] > limits.body
             s == Meaning(m.line)
             lm == Length(m)
             hr == responseParser.head_request
             c0 == cs > 0
             c1 == cs > 1
             l0 == ls > 0
             l1 == ls > 1
             g0 == gs > 0
  <2>1. /\ (c0 <=> ~tq) /\ (l0 <=> ~lq) /\ (l1 <=> ls # 1 /\ ~lq) /\ (~c1 /\ ~tq => cs = 1)
        /\ (cs = 1 => (~fv <=> g0)) /\ (tq => ~g0) /\ (ls = 1 => lm = bl /\ (bigq <=> big))
        /\ (ls = 0 <=> lq)
    BY <1>16, <1>21, <1>22
  <2>2. ResponseFault(m) =
          IF c0 /\ l0 THEN "BadResponse"
          ELSE IF c1 \/ g0 \/ s = "s101" THEN "UnsupportedTransferEncoding"
          ELSE IF hr \/ s = "s100" \/ s = "s204" \/ ls = 0 THEN "none"
          ELSE IF l1 \/ lm = "badlength" THEN "BadResponse"
          ELSE IF big THEN "BodyTooLarge" ELSE "none"
    BY <1>10, <1>19 DEF big
  <2>3. FramingError(q) =
          IF ~tq /\ ~lq THEN "BadResponse"
          ELSE IF c1 \/ (~tq /\ ~fv) \/ s = "s101" THEN "UnsupportedTransferEncoding"
          ELSE IF s = "s100" \/ hr \/ s = "s204" \/ ~tq \/ lq THEN "none"
          ELSE IF ls # 1 \/ bl = "badlength" THEN "BadResponse"
          ELSE IF bigq THEN "BodyTooLarge" ELSE "none"
    BY <1>17
  <2> HIDE DEF lq, tq, fv, bl, bigq, s, lm, hr, c0, c1, l0, l1, g0
  <2>4. c0 /\ ~l0 /\ ~c1 /\ ~g0 /\ s # "s101" => ls = 0
    BY <2>1
  <2> QED BY <2>1, <2>2, <2>3, <2>4
<1>24. ASSUME FramingError(q) = "none", Meaning(m.line) # "s100"
       PROVE  /\ Meaning(m.line) # "s101"
              /\ Framing(m) = IF q.head_request \/ q.status = "s204" THEN "none"
                              ELSE IF Transfers(q) # {} THEN "chunked"
                              ELSE IF Lengths(q) = {} THEN "eof" ELSE "fixed"
              /\ Framing(m) = "chunked" => gs = 0 /\ cs = 1 /\ ls = 0
              /\ Framing(m) = "fixed" => /\ cs = 0 /\ ls = 1 /\ Length(m) # "badlength"
                                         /\ BodyLength(q) = Length(m) /\ ~big
  <2>1. /\ ~(Transfers(q) # {} /\ Lengths(q) # {}) /\ ~(cs > 1) /\ q.status # "s101"
        /\ ~(Transfers(q) # {} /\ FirstValue(q.headers, Codings) # "chunked")
    <3> DEFINE a1 == Transfers(q) # {} /\ Lengths(q) # {}
               a2 == \/ cs > 1 \/ (Transfers(q) # {} /\ FirstValue(q.headers, Codings) # "chunked")
                     \/ q.status = "s101"
               rest == IF \/ q.status = "s100" \/ q.head_request \/ q.status = "s204"
                          \/ Transfers(q) # {} \/ Lengths(q) = {}
                       THEN "none"
                       ELSE IF ls # 1 \/ BodyLength(q) = "badlength" THEN "BadResponse"
                       ELSE IF Number[BodyLength(q)] > limits.body THEN "BodyTooLarge"
                       ELSE "none"
    <3>1. FramingError(q) = IF a1 THEN "BadResponse"
                            ELSE IF a2 THEN "UnsupportedTransferEncoding" ELSE rest
      BY <1>17
    <3> HIDE DEF a1, a2, rest
    <3>2. ~a1 /\ ~a2
      BY <3>1, <1>24
    <3> QED BY <3>2 DEF a1, a2
  <2>2. Framing(m) = IF q.head_request \/ q.status = "s204" THEN "none"
                     ELSE IF Transfers(q) # {} THEN "chunked"
                     ELSE IF Lengths(q) = {} THEN "eof" ELSE "fixed"
    BY <1>16, <1>18, <1>21, <1>24, <2>1
  <2>3. Framing(m) = "chunked" => gs = 0 /\ cs = 1 /\ ls = 0
    BY <1>16, <1>21, <2>1, <2>2
  <2>4. Framing(m) = "fixed" => /\ ~q.head_request /\ q.status # "s204" /\ Transfers(q) = {}
                                /\ Lengths(q) # {}
    BY <2>2
  <2>5. Framing(m) = "fixed" => ls = 1 /\ BodyLength(q) # "badlength" /\ ~(Number[BodyLength(q)] > limits.body)
    BY <1>17, <1>24, <2>1, <2>4
  <2> QED BY <1>16, <1>22, <2>1, <2>2, <2>3, <2>4, <2>5
<1> QED BY <1>19, <1>23, <1>24 DEF big

-----------------------------------------------------------------------------
(* The turns of the response parser *)

\* Where it is, in the loop or waiting: behind some informational responses.
LEMMA SomeAnswer ==
  ASSUME ProxyInv, side = "response", pc # "closed", Undecided
  PROVE  \E k \in 0 .. Len(messages) : Skipped(k) /\ InAnswer(k)
<1>1. ~AtAnswerEnd /\ ~AtAnswerFault
  BY DEF Undecided, AtAnswerEnd, AtAnswerFault, ResponseErrors
<1>2. AnswerPlace
  BY DEF ProxyInv
<1> QED BY <1>1, <1>2 DEF AnswerPlace

\* The state tells which place it is.
LEMMA PlaceOfState ==
  ASSUME NEW k, InAnswer(k)
  PROVE  /\ Undecided
         /\ responseParser.state \in {"StatusLine", "Headers", "FixedBody", "EofBody", "ChunkSize",
                                      "ChunkBody", "Trailers"}
         /\ responseParser.state = "StatusLine" => BeforeStatus(k)
         /\ responseParser.state # "StatusLine" => k < Len(messages)
         /\ responseParser.state = "Headers" => InResponseHead(k)
         /\ responseParser.state = "FixedBody" => InFixedBody(k)
         /\ responseParser.state = "EofBody" => InEofBody(k)
         /\ responseParser.state = "ChunkSize" => \E j \in 0 .. Len(Answer(k).chunks) : BeforeSize(k, j)
         /\ responseParser.state = "ChunkBody" => \E j \in 0 .. Len(Answer(k).chunks) : InChunk(k, j)
         /\ responseParser.state = "Trailers" => \E t \in 0 .. Len(Answer(k).trailers) : InTrailers(k, t)
<1>1. BeforeStatus(k) => responseParser.state = "StatusLine" /\ Undecided
  BY DEF BeforeStatus, NewResponseParser
<1>2. InResponseHead(k) => responseParser.state = "Headers" /\ k < Len(messages) /\ Undecided
  BY DEF InResponseHead, Until
<1>3. InFixedBody(k) => responseParser.state = "FixedBody" /\ k < Len(messages) /\ Undecided
  BY DEF InFixedBody, HasFraming
<1>4. InEofBody(k) => responseParser.state = "EofBody" /\ k < Len(messages) /\ Undecided
  BY DEF InEofBody, HasFraming
<1>5. \A j : BeforeSize(k, j) => responseParser.state = "ChunkSize" /\ k < Len(messages) /\ Undecided
  BY DEF BeforeSize, ChunksTaken, HasFraming, Until
<1>6. \A j : InChunk(k, j) => responseParser.state = "ChunkBody" /\ k < Len(messages) /\ Undecided
  BY DEF InChunk, ChunksTaken, HasFraming, Until
<1>7. \A t : InTrailers(k, t) => responseParser.state = "Trailers" /\ k < Len(messages) /\ Undecided
  BY DEF InTrailers, ChunksTaken, HasFraming, Until
<1> QED BY <1>1, <1>2, <1>3, <1>4, <1>5, <1>6, <1>7 DEF InAnswer

\* What of a place depends on the parser and the messages only.
LEMMA FramingSteady ==
  ASSUME UNCHANGED <<limits, messages, wire>>,
         responseParser'.head_request = responseParser.head_request,
         responseParser'.eof_delimited = responseParser.eof_delimited
  PROVE  /\ \A k, framing : HasFraming(k, framing)' <=> HasFraming(k, framing)
         /\ responseParser'.body = responseParser.body =>
              \A k, j : ChunksTaken(k, j)' <=> ChunksTaken(k, j)
<1>1. \A k : /\ (Answer(k))' = Answer(k)
             /\ (ResponseFault(Answer(k)))' = ResponseFault(Answer(k))
             /\ (Framing(Answer(k)))' = Framing(Answer(k))
  BY AnswerSteady
<1>2. \A k, i : (ChunkFaultAt(Answer(k), i))' = ChunkFaultAt(Answer(k), i)
  BY AnswerSteady
<1>3. \A k, framing : HasFraming(k, framing)' <=> HasFraming(k, framing)
  BY <1>1 DEF HasFraming
<1>4. \A k, j : (DataUpTo(Answer(k), j))' = DataUpTo(Answer(k), j)
  BY <1>1 DEF DataUpTo
<1>5. ASSUME responseParser'.body = responseParser.body, NEW k, NEW j
      PROVE  ChunksTaken(k, j)' <=> ChunksTaken(k, j)
  <2> DEFINE f == HasFraming(k, "chunked")
             d == DataUpTo(Answer(k), j)
             P(x) == ChunkFaultAt(Answer(k), x) = "none"
  <2>1. (f' <=> f) /\ d' = d /\ (\A i : P(i)' <=> P(i)) /\ (Answer(k))' = Answer(k)
    BY <1>1, <1>2, <1>3, <1>4
  <2>2. (\A i \in 1 .. j : P(i))' <=> \A i \in 1 .. j : P(i)
    BY <2>1
  <2>3. (responseParser.body = d)' <=> (responseParser.body = d)
    BY <1>5, <2>1
  <2>4. (j <= Len(Answer(k).chunks))' <=> (j <= Len(Answer(k).chunks))
    BY <2>1
  <2>5. ChunksTaken(k, j) <=> f /\ j <= Len(Answer(k).chunks) /\ (\A i \in 1 .. j : P(i)) /\ responseParser.body = d
    BY DEF ChunksTaken
  <2>6. ChunksTaken(k, j)' <=> /\ f' /\ (j <= Len(Answer(k).chunks))' /\ (\A i \in 1 .. j : P(i))'
                               /\ (responseParser.body = d)'
    BY DEF ChunksTaken
  <2> QED BY <2>1, <2>2, <2>3, <2>4, <2>5, <2>6
<1> QED BY <1>3, <1>5

\* The parser stays where it is, and waits only for what has not come.
LEMMA StillIn ==
  ASSUME UNCHANGED <<limits, messages, wire, responseParser>>, Taken' = Taken,
         result' \in {"Running", "NeedMore"}, NEW k
  PROVE  LET Short(end) == result' = "NeedMore" => sent' < end
         IN  /\ BeforeStatus(k) /\ (k < Len(messages) => Short(StartOf(k) + Ends(Answer(k), 1)))
                  => BeforeStatus(k)'
             /\ InResponseHead(k) /\ Short(StartOf(k) + Ends(Answer(k), Len(responseParser.headers) + 2))
                  => InResponseHead(k)'
             /\ (InFixedBody(k) => InFixedBody(k)') /\ (InEofBody(k) => InEofBody(k)')
             /\ \A j : BeforeSize(k, j) /\ Short(Taken + Len(SizeLine(Answer(k), j)) + 2) => BeforeSize(k, j)'
             /\ \A j : InChunk(k, j) /\ Short(BodyAt(k) + ChunkEnds(Answer(k), j + 1)) => InChunk(k, j)'
             /\ \A t : /\ InTrailers(k, t)
                       /\ Short(BodyAt(k) + ChunkEnds(Answer(k), Len(Answer(k).chunks)) + 3
                                  + TrailerEnds(Answer(k), t + 1))
                       => InTrailers(k, t)'
<1> DEFINE Short(end) == result' = "NeedMore" => sent' < end
<1>1. /\ limits' = limits /\ messages' = messages /\ wire' = wire /\ responseParser' = responseParser
      /\ responseParser'.head_request = responseParser.head_request
      /\ responseParser'.eof_delimited = responseParser.eof_delimited
      /\ responseParser'.body = responseParser.body
  OBVIOUS
<1>2. (Answer(k))' = Answer(k) /\ (StartOf(k))' = StartOf(k) /\ (BodyAt(k))' = BodyAt(k)
  BY <1>1, AnswerSteady
<1>3. \A i : /\ (StatusFault(Answer(k), i))' = StatusFault(Answer(k), i)
             /\ (TrailerFaultAt(Answer(k), i))' = TrailerFaultAt(Answer(k), i)
  BY <1>1, AnswerSteady
<1>4. (\A framing : HasFraming(k, framing)' <=> HasFraming(k, framing)) /\ \A j : ChunksTaken(k, j)' <=> ChunksTaken(k, j)
  BY <1>1, FramingSteady
<1>5. Undecided'
  BY DEF Undecided
<1>6. \A end : Short(end) => Undecided' /\ (result' = "NeedMore" => sent' < end)
  BY <1>5, SMTT(30)
<1>7. BeforeStatus(k) /\ (k < Len(messages) => Short(StartOf(k) + Ends(Answer(k), 1))) => BeforeStatus(k)'
  BY <1>1, <1>2, <1>5 DEF BeforeStatus, Until, NewResponseParser, Ends, Terminated, Lines
<1>8. InResponseHead(k) /\ Short(StartOf(k) + Ends(Answer(k), Len(responseParser.headers) + 2))
        => InResponseHead(k)'
  BY <1>1, <1>2, <1>3, <1>5 DEF LinesTaken, InResponseHead, Until
<1>9. (InFixedBody(k) => InFixedBody(k)') /\ (InEofBody(k) => InEofBody(k)')
  BY <1>1, <1>2, <1>4, <1>5 DEF InFixedBody, InEofBody
<1>10. \A j : BeforeSize(k, j) /\ Short(Taken + Len(SizeLine(Answer(k), j)) + 2) => BeforeSize(k, j)'
  BY <1>1, <1>2, <1>4, <1>5 DEF BeforeSize, Until, SizeLine
<1>11. \A j : InChunk(k, j) /\ Short(BodyAt(k) + ChunkEnds(Answer(k), j + 1)) => InChunk(k, j)'
  BY <1>1, <1>2, <1>4, <1>5 DEF InChunk, Until
<1>12. \A t : /\ InTrailers(k, t)
              /\ Short(BodyAt(k) + ChunkEnds(Answer(k), Len(Answer(k).chunks)) + 3 + TrailerEnds(Answer(k), t + 1))
              => InTrailers(k, t)'
  BY <1>1, <1>2, <1>3, <1>4, <1>5 DEF InTrailers, Until
<1> QED BY <1>7, <1>8, <1>9, <1>10, <1>11, <1>12

\* The line of a head that the parser is before, with all those in front of it accepted.
HeadLine == IF responseParser.state = "StatusLine" THEN 0 ELSE Len(responseParser.headers) + 1

LEMMA HeadLineComes ==
  ASSUME IInv, ProxyInv, side = "response", responseParser.state \in {"StatusLine", "Headers"},
         NEW k \in 0 .. Len(messages), InAnswer(k), NEW m, m = Answer(k), NEW j, j = HeadLine,
         NEW n, n = Len(m.headers)
  PROVE  /\ k = Len(messages) => responseParser.state = "StatusLine" /\ ~HasLine /\ Len(input.bytes) = 0
         /\ k < Len(messages) =>
              /\ k \in 0 .. Len(messages) - 1 /\ m \in Messages /\ n \in Nat /\ j \in 0 .. n + 1
              /\ HasLine <=> sent >= StartOf(k) + Ends(m, j + 1)
              /\ HasLine => line_bytes = Len(Lines(m)[j + 1]) /\ Line = Lines(m)[j + 1]
              /\ Len(Lines(m)[j + 1]) \in Nat /\ Ends(m, j) \in Nat /\ StartOf(k) \in Nat
              /\ Ends(m, j + 1) = Ends(m, j) + Len(Lines(m)[j + 1]) + 2
              /\ Taken = StartOf(k) + Ends(m, j) /\ StartOf(k) + Ends(m, j + 1) <= Len(wire)
              /\ \A i \in 0 .. j - 1 : StatusFault(m, i) = "none"
              /\ (j = 0 <=> responseParser.state = "StatusLine")
              /\ (j # 0 => responseParser.header_bytes = Ends(m, j))
              /\ DOMAIN m.headers = 1 .. n /\ (j = 0 => Lines(m)[j + 1] = m.line)
              /\ (j \in 1 .. n => Lines(m)[j + 1] = m.headers[j] /\ m.headers[j] # <<>>)
              /\ (j = n + 1 => Lines(m)[j + 1] = <<>>)
<1>1. /\ Streaming /\ Len(messages) \in Nat /\ responseParser \in ResponseParsers
      /\ sent = Taken + Len(input.bytes) /\ sent <= Len(wire) /\ Len(wire) \in Nat /\ Taken \in Nat
      /\ Len(input.bytes) \in Nat /\ input \in Buffers
  BY ProxyFacts DEF IInv, BufferInv
<1>2. ASSUME k = Len(messages)
      PROVE  responseParser.state = "StatusLine" /\ ~HasLine /\ Len(input.bytes) = 0
  <2>1. responseParser.state = "StatusLine" /\ BeforeStatus(k)
    BY <1>1, <1>2, PlaceOfState
  <2>2. Taken = Len(wire)
    BY <1>1, <1>2, <2>1, Starts DEF BeforeStatus
  <2> DEFINE s == Len(input.bytes)
             t == Taken
             w == Len(wire)
  <2>3. s \in Nat /\ t \in Nat /\ w \in Nat /\ sent = t + s /\ sent <= w /\ t = w
    BY <1>1, <2>2
  <2> HIDE DEF s, t, w
  <2>4. s = 0
    BY <2>3
  <2>5. ~HasLine
    BY <1>1, <2>4, LineMeans DEF s
  <2> QED BY <2>1, <2>4, <2>5 DEF s
<1>3. ASSUME k < Len(messages)
      PROVE  /\ k \in 0 .. Len(messages) - 1 /\ m \in Messages /\ n \in Nat /\ IsHead(m) /\ m = messages[k + 1]
             /\ DOMAIN m.headers = 1 .. n
  <2>1. k \in 0 .. Len(messages) - 1
    BY <1>1, <1>3
  <2>2. m \in Messages /\ IsHead(m) /\ m = messages[k + 1]
    BY <2>1, ProxyFacts DEF Answer
  <2> QED BY <2>1, <2>2, LinesOf
<1>4. ASSUME k < Len(messages)
      PROVE  /\ j \in 0 .. n + 1 /\ Taken = StartOf(k) + Ends(m, j)
             /\ \A i \in 0 .. j - 1 : StatusFault(m, i) = "none"
             /\ (j = 0 <=> responseParser.state = "StatusLine")
             /\ (j # 0 => responseParser.header_bytes = Ends(m, j))
  <2>1. Len(responseParser.headers) \in Nat
    BY <1>1 DEF ResponseParsers
  <2>2. CASE responseParser.state = "StatusLine"
    <3>1. BeforeStatus(k) /\ j = 0
      BY <2>2, PlaceOfState DEF HeadLine
    <3>2. Ends(m, 0) = 0 /\ StartOf(k) \in Nat
      BY <1>1, <1>3, <1>4, HeadAt, Starts
    <3>3. 0 .. 0 - 1 = {} /\ 0 \in 0 .. n + 1
      BY <1>3, <1>4
    <3>4. Taken = StartOf(k)
      BY <3>1 DEF BeforeStatus
    <3> HIDE DEF HeadLine
    <3>5. Taken = StartOf(k) + Ends(m, j)
      BY <3>1, <3>2, <3>4
    <3> QED BY <2>2, <3>1, <3>3, <3>5
  <2>3. CASE responseParser.state = "Headers"
    <3>1. InResponseHead(k) /\ j = Len(responseParser.headers) + 1
      BY <2>3, PlaceOfState DEF HeadLine
    <3>2. /\ Len(responseParser.headers) <= n /\ responseParser.header_bytes = Ends(m, j)
          /\ \A i \in 0 .. Len(responseParser.headers) : StatusFault(m, i) = "none"
          /\ Taken = StartOf(k) + Ends(m, j)
      BY <3>1 DEF InResponseHead, LinesTaken
    <3> DEFINE c == Len(responseParser.headers)
    <3>3. c \in Nat /\ c <= n /\ j = c + 1
      BY <2>1, <3>1, <3>2
    <3> HIDE DEF c
    <3>4. j \in 0 .. n + 1 /\ j - 1 = c /\ j # 0
      BY <1>3, <1>4, <3>3
    <3> QED BY <2>3, <3>2, <3>4 DEF c
  <2> QED BY <2>2, <2>3
<1>5. ASSUME k < Len(messages)
      PROVE  /\ HasLine <=> sent >= StartOf(k) + Ends(m, j + 1)
             /\ HasLine => line_bytes = Len(Lines(m)[j + 1]) /\ Line = Lines(m)[j + 1]
             /\ Len(Lines(m)[j + 1]) \in Nat /\ Ends(m, j) \in Nat /\ StartOf(k) \in Nat
             /\ Ends(m, j + 1) = Ends(m, j) + Len(Lines(m)[j + 1]) + 2
             /\ StartOf(k) + Ends(m, j + 1) <= Len(wire)
  BY <1>1, <1>3, <1>4, <1>5, NextLine
<1>6. ASSUME k < Len(messages)
      PROVE  /\ (j = 0 => Lines(m)[j + 1] = m.line)
             /\ (j \in 1 .. n => Lines(m)[j + 1] = m.headers[j] /\ m.headers[j] # <<>>)
             /\ (j = n + 1 => Lines(m)[j + 1] = <<>>)
  <2>1. /\ Lines(m)[1] = m.line /\ Lines(m)[n + 2] = <<>>
        /\ \A i \in 1 .. n : Lines(m)[i + 1] = m.headers[i]
    BY <1>3, <1>6, LinesOf
  <2>2. \A i \in 1 .. n : m.headers[i] # <<>>
    BY <1>3, <1>6 DEF IsHead, AreLines
  <2>3. (j = 0 => j + 1 = 1) /\ (j = n + 1 => j + 1 = n + 2)
    BY <1>3, <1>6
  <2> QED BY <2>1, <2>2, <2>3
<1> QED BY <1>2, <1>3, <1>4, <1>5, <1>6

\* A line that is refused is the fault of the final response.
LEMMA HeadLineRefused ==
  ASSUME IInv, ProxyInv, side = "response", responseParser.state \in {"StatusLine", "Headers"},
         NEW k \in 0 .. Len(messages) - 1, Skipped(k), InAnswer(k)
  PROVE  /\ StatusTooLarge(Answer(k), HeadLine) => FinalOwnFault("HeaderTooLarge")
         /\ ~StatusTooLarge(Answer(k), HeadLine) /\ StatusMalformed(Answer(k), HeadLine)
              => FinalOwnFault("BadResponse")
<1> DEFINE m == Answer(k)
           j == HeadLine
<1>1. /\ m \in Messages /\ j \in 0 .. Len(m.headers) + 1
      /\ \A i \in 0 .. j - 1 : StatusFault(m, i) = "none"
  <2>1. k \in 0 .. Len(messages) /\ k < Len(messages)
    <3>1. Len(messages) \in Nat
      BY ProxyFacts
    <3> QED BY <3>1
  <2> DEFINE n == Len(m.headers)
  <2>2. m = Answer(k) /\ j = HeadLine /\ n = Len(m.headers)
    OBVIOUS
  <2> HIDE DEF m, j, n
  <2>3. /\ m \in Messages /\ j \in 0 .. n + 1 /\ \A i \in 0 .. j - 1 : StatusFault(m, i) = "none"
    BY <2>1, <2>2, HeadLineComes, SMTT(30)
  <2> QED BY <2>2, <2>3
<1>2. limits \in ClientLimits
  BY ProxyFacts
<1>3. /\ StatusTooLarge(m, j) => ResponseFault(m) = "HeaderTooLarge"
      /\ ~StatusTooLarge(m, j) /\ StatusMalformed(m, j) => ResponseFault(m) = "BadResponse"
  BY <1>1, <1>2, StatusRefused
<1>4. ResponseFault(m) # "none" => FinalFault = ResponseFault(m)
  BY Verdict
<1> QED BY <1>3, <1>4 DEF FinalOwnFault

LEMMA RunningAnswer ==
  ASSUME IInv, ProxyInv, side = "response", Running
  PROVE  /\ Undecided /\ Buffered /\ Len(messages) \in Nat
         /\ \E k \in 0 .. Len(messages) : Skipped(k) /\ InAnswer(k)
<1>1. Undecided /\ pc # "closed"
  BY DEF Running, Undecided
<1>2. Buffered
  BY DEF ProxyInv
<1> QED BY <1>1, <1>2, SomeAnswer, ProxyFacts

\* The parser stays where it is.
LEMMA AnswerStays ==
  ASSUME IInv, ProxyInv, side = "response", Running, ResponseFrame, UNCHANGED <<parser, loopVars>>,
         UNCHANGED <<input, responseParser>>
  PROVE  /\ UNCHANGED <<limits, messages, wire, responseParser>> /\ Taken' = Taken /\ Buffered' /\ sent' = sent
         /\ responseParser'.head_request = responseParser.head_request
<1>1. UNCHANGED <<limits, messages, wire, responseParser>> /\ sent' = sent /\ input' = input
  BY DEF ResponseFrame, loopVars
<1>2. Buffered
  BY DEF ProxyInv
<1>3. Buffered' /\ Taken' = Taken
  BY <1>1, <1>2, SameBytes
<1> QED BY <1>1, <1>3

LEMMA NoHeadLinePlaces ==
  ASSUME IInv, ProxyInv, side = "response", ParseNoStatusLine, UNCHANGED <<parser, loopVars>>,
         responseParser.state \in {"StatusLine", "Headers"}
  PROVE  ProxyInv'
<1>1. Running /\ ResponseFrame /\ input' = input /\ ~HasLine
  BY DEF ParseNoStatusLine
<1>2. PICK k \in 0 .. Len(messages) : Skipped(k) /\ InAnswer(k)
  BY <1>1, RunningAnswer
<1> DEFINE m == Answer(k)
           j == HeadLine
           n == Len(m.headers)
           size == Len(input.bytes)
           l == Len(Lines(m)[j + 1])
           a == Ends(m, j)
           e == Ends(m, j + 1)
           s == StartOf(k)
           b == limits.header_bytes
           f == limits.status_line
           TooLong == \/ responseParser.state = "StatusLine" /\ size > f
                      \/ responseParser.state = "Headers" /\ responseParser.header_bytes + size > b
<1>3. size \in Nat /\ b \in Nat /\ f \in Nat /\ sent = Taken + size /\ Len(messages) \in Nat
  BY ProxyFacts
<1>4. k = Len(messages) => responseParser.state = "StatusLine" /\ size = 0
  BY <1>2, HeadLineComes
<1>5. k < Len(messages) =>
        /\ k \in 0 .. Len(messages) - 1 /\ m \in Messages /\ n \in Nat /\ j \in 0 .. n + 1
        /\ ~(sent >= s + e) /\ l \in Nat /\ a \in Nat /\ s \in Nat /\ e = a + l + 2 /\ Taken = s + a
        /\ (j = 0 <=> responseParser.state = "StatusLine")
        /\ (j # 0 => responseParser.header_bytes = a)
        /\ (j = 0 => Lines(m)[j + 1] = m.line)
  <2>1. m = Answer(k) /\ j = HeadLine /\ n = Len(m.headers)
    OBVIOUS
  <2> HIDE DEF m, j, n
  <2>2. ASSUME k < Len(messages)
        PROVE  /\ k \in 0 .. Len(messages) - 1 /\ m \in Messages /\ n \in Nat /\ j \in 0 .. n + 1
               /\ HasLine <=> sent >= StartOf(k) + Ends(m, j + 1)
               /\ Len(Lines(m)[j + 1]) \in Nat /\ Ends(m, j) \in Nat /\ StartOf(k) \in Nat
               /\ Ends(m, j + 1) = Ends(m, j) + Len(Lines(m)[j + 1]) + 2
               /\ Taken = StartOf(k) + Ends(m, j)
               /\ (j = 0 <=> responseParser.state = "StatusLine")
               /\ (j # 0 => responseParser.header_bytes = Ends(m, j))
               /\ (j = 0 => Lines(m)[j + 1] = m.line)
    <3>1. /\ m \in Messages /\ n \in Nat /\ j \in 0 .. n + 1 /\ k \in 0 .. Len(messages) - 1
          /\ HasLine <=> sent >= StartOf(k) + Ends(m, j + 1)
      BY <1>2, <2>1, <2>2, HeadLineComes
    <3>2. /\ Len(Lines(m)[j + 1]) \in Nat /\ Ends(m, j) \in Nat /\ StartOf(k) \in Nat
          /\ Ends(m, j + 1) = Ends(m, j) + Len(Lines(m)[j + 1]) + 2
          /\ Taken = StartOf(k) + Ends(m, j)
      BY <1>2, <2>1, <2>2, HeadLineComes
    <3>3. /\ (j = 0 <=> responseParser.state = "StatusLine")
          /\ (j # 0 => responseParser.header_bytes = Ends(m, j))
          /\ (j = 0 => Lines(m)[j + 1] = m.line)
      BY <1>2, <2>1, <2>2, HeadLineComes, SMTT(30)
    <3> QED BY <3>1, <3>2, <3>3
  <2> QED BY <1>1, <2>2
<1>6. IF TooLong THEN ResponseFails("HeaderTooLarge") ELSE Becomes(responseParser, "NeedMore")
  BY DEF ParseNoStatusLine, readableBytes
<1>7. responseParser \in ResponseParsers /\ Buffered
  BY ProxyFacts DEF ProxyInv
<1> DEFINE t == Taken
           c == k < Len(messages)
           x == Len(m.line)
<1>8. /\ size \in Nat /\ b \in Nat /\ f \in Nat /\ sent = t + size
      /\ c => l \in Nat /\ a \in Nat /\ s \in Nat /\ e = a + l + 2 /\ t = s + a /\ ~(sent >= s + e)
      /\ c /\ j = 0 => x = l
  BY <1>3, <1>5
<1>17. (0 \in DOMAIN m.headers) => ~c
  <2>1. SUFFICES ASSUME c PROVE 0 \notin DOMAIN m.headers
    OBVIOUS
  <2>2. m \in Messages
    BY <1>5, <2>1
  <2>3. DOMAIN m.headers = 1 .. Len(m.headers) /\ Len(m.headers) \in Nat
    BY <2>2, LinesOf
  <2> QED BY <2>3
<1>9. StatusTooLarge(m, j) <=> \/ j = 0 /\ x > f
                               \/ j > 0 /\ e > b
                               \/ j \in DOMAIN m.headers /\ j > limits.header_count
  BY DEF StatusTooLarge
<1>10. c => j = 0 \/ j > 0
  <2>1. SUFFICES ASSUME c PROVE j = 0 \/ j > 0
    OBVIOUS
  <2>2. j \in 0 .. n + 1 /\ n \in Nat
    BY <1>5, <2>1
  <2> HIDE DEF j, n
  <2> QED BY <2>2
<1> HIDE DEF size, l, a, e, s, b, f, t, x
<1>11. c => size <= l + 1 /\ sent < s + e
  <2>1. SUFFICES ASSUME c PROVE size <= l + 1 /\ sent < s + e
    OBVIOUS
  <2>2. /\ size \in Nat /\ sent = t + size /\ l \in Nat /\ a \in Nat /\ s \in Nat /\ e = a + l + 2
        /\ t = s + a /\ ~(sent >= s + e)
    BY <1>8, <2>1
  <2> QED BY <2>2
<1>12. CASE TooLong
  <2>1. c
    BY <1>3, <1>4, <1>12 DEF size, f
  <2>2. ResponseFails("HeaderTooLarge")
    BY <1>6, <1>12
  <2>3. StatusTooLarge(m, j) \/ (j = 0 /\ x = f)
    <3>1. CASE responseParser.state = "StatusLine"
      <4>1. j = 0 /\ size > f /\ x = l
        BY <1>5, <1>8, <1>12, <2>1, <3>1
      <4>2. x > f \/ x = f
        BY <1>8, <1>11, <2>1, <4>1, SMTT(30)
      <4> HIDE DEF j
      <4> QED BY <1>9, <4>1, <4>2
    <3>2. CASE responseParser.state = "Headers"
      <4>1. j > 0 /\ a + size > b
        BY <1>5, <1>12, <2>1, <3>2, <1>10 DEF a
      <4>2. e > b
        BY <1>8, <1>11, <2>1, <4>1, SMTT(30)
      <4> QED BY <1>9, <4>1, <4>2
    <3> QED BY <3>1, <3>2
  <2>4. k \in 0 .. Len(messages) - 1
    BY <1>5, <2>1
  <2>5. FinalOwnFault("HeaderTooLarge")
    <3>1. CASE StatusTooLarge(m, j)
      BY <1>2, <2>4, <3>1, HeadLineRefused
    <3>2. CASE x = f
      BY <1>2, <2>4, <3>2, Verdict DEF x, f
    <3> QED BY <2>3, <3>1, <3>2
  <2>6. responseParser' = [responseParser EXCEPT !.state = "Error"]
    BY <2>2 DEF ResponseFails
  <2>7. Buffered'
    BY <1>1, <1>7, SameBytes DEF ResponseFrame
  <2>8. "HeaderTooLarge" \in ResponseErrors \ {"PrematureEof"}
    BY DEF ResponseErrors
  <2> QED BY <1>1, <2>2, <2>5, <2>7, <2>8, AnswerRefused
<1>13. CASE ~TooLong
  <2>1. responseParser' = responseParser /\ result' = "NeedMore"
    BY <1>6, <1>13 DEF Becomes
  <2>2. /\ UNCHANGED <<limits, messages, wire, responseParser>> /\ Taken' = Taken /\ Buffered' /\ sent' = sent
        /\ responseParser'.head_request = responseParser.head_request
    BY <1>1, <2>1, AnswerStays
  <2>3. CASE responseParser.state = "StatusLine"
    BY <1>2, <2>3, PlaceOfState, <1>11, <2>2, <2>1, StillIn, <1>1, AnswerTurn DEF HeadLine, e, s,
       InAnswer
  <2>4. CASE responseParser.state = "Headers"
    BY <1>2, <2>4, PlaceOfState, <1>7, <1>11, <2>2, <2>1, StillIn, <1>1, AnswerTurn DEF ResponseParsers,
       HeadLine, e, s, InAnswer
  <2> QED BY <2>3, <2>4
<1> QED BY <1>12, <1>13

\* A line of a head has been taken.
HeadLineTaken(k) ==
    LET m == Answer(k)
        j == HeadLine
        n == Len(m.headers)
    IN  /\ k \in 0 .. Len(messages) - 1 /\ Skipped(k) /\ InAnswer(k) /\ m \in Messages /\ n \in Nat
        /\ j \in 0 .. n + 1 /\ DOMAIN m.headers = 1 .. n /\ line_bytes \in Nat
        /\ Taken' = StartOf(k) + Ends(m, j + 1) /\ Ends(m, j + 1) = Ends(m, j) + line_bytes + 2
        /\ Ends(m, j) \in Nat /\ StartOf(k) \in Nat
        /\ (j = 0 <=> responseParser.state = "StatusLine")
        /\ (j # 0 => responseParser.header_bytes = Ends(m, j))
        /\ (j = 0 => Line = m.line /\ line_bytes = Len(m.line) /\ Ends(m, 1) = line_bytes + 2)
        /\ (j \in 1 .. n => Line = m.headers[j] /\ Line # <<>>)
        /\ (j = n + 1 => Line = <<>>)
        /\ \A i \in 0 .. j - 1 : StatusFault(m, i) = "none"

LEMMA TakesHeadLine ==
  ASSUME IInv, ProxyInv, side = "response", TakeResponseLine,
         responseParser.state \in {"StatusLine", "Headers"}, UNCHANGED <<parser, loopVars>>
  PROVE  /\ Running /\ ResponseFrame /\ HasLine /\ Buffered' /\ UNCHANGED <<limits, messages, wire>>
         /\ \E k \in 0 .. Len(messages) - 1 : HeadLineTaken(k)
<1>1. /\ Running /\ ResponseFrame /\ HasLine /\ Buffered' /\ Taken' = Taken + line_bytes + 2
      /\ line_bytes \in Nat
  BY LineConsumed DEF ProxyInv
<1>2. PICK k \in 0 .. Len(messages) : Skipped(k) /\ InAnswer(k)
  BY <1>1, RunningAnswer
<1> DEFINE m == Answer(k)
           j == HeadLine
           n == Len(m.headers)
<1>3. m = Answer(k) /\ j = HeadLine /\ n = Len(m.headers)
  OBVIOUS
<1>4. UNCHANGED <<limits, messages, wire>>
  BY <1>1 DEF ResponseFrame, loopVars
<1> HIDE DEF m, j, n
<1>5. k < Len(messages)
  <2>1. k # Len(messages)
    BY <1>1, <1>2, <1>3, HeadLineComes
  <2>2. Len(messages) \in Nat
    BY ProxyFacts
  <2> QED BY <2>1, <2>2
<1>6. /\ m \in Messages /\ n \in Nat /\ j \in 0 .. n + 1 /\ k \in 0 .. Len(messages) - 1
      /\ DOMAIN m.headers = 1 .. n
  BY <1>2, <1>3, <1>5, HeadLineComes
<1>7. line_bytes = Len(Lines(m)[j + 1]) /\ Line = Lines(m)[j + 1]
  BY <1>1, <1>2, <1>3, <1>5, HeadLineComes, SMTT(30)
<1>8. /\ Ends(m, j) \in Nat /\ StartOf(k) \in Nat /\ Taken = StartOf(k) + Ends(m, j)
      /\ Ends(m, j + 1) = Ends(m, j) + Len(Lines(m)[j + 1]) + 2
  BY <1>2, <1>3, <1>5, HeadLineComes
<1>9. /\ (j = 0 <=> responseParser.state = "StatusLine")
      /\ (j # 0 => responseParser.header_bytes = Ends(m, j))
      /\ \A i \in 0 .. j - 1 : StatusFault(m, i) = "none"
  BY <1>2, <1>3, <1>5, HeadLineComes
<1>10. /\ (j = 0 => Lines(m)[j + 1] = m.line)
       /\ (j \in 1 .. n => Lines(m)[j + 1] = m.headers[j] /\ m.headers[j] # <<>>)
       /\ (j = n + 1 => Lines(m)[j + 1] = <<>>)
  <2>1. j = 0 => Lines(m)[j + 1] = m.line
    BY <1>2, <1>3, <1>5, HeadLineComes
  <2>2. j \in 1 .. n => Lines(m)[j + 1] = m.headers[j] /\ m.headers[j] # <<>>
    BY <1>2, <1>3, <1>5, HeadLineComes, SMTT(30)
  <2>3. j = n + 1 => Lines(m)[j + 1] = <<>>
    BY <1>2, <1>3, <1>5, HeadLineComes, SMTT(30)
  <2> QED BY <2>1, <2>2, <2>3
<1>11. Ends(m, 0) = 0
  BY <1>6, HeadAt
<1> DEFINE a == Ends(m, j)
           e == Ends(m, j + 1)
           s == StartOf(k)
           t == Taken
<1>12. a \in Nat /\ s \in Nat /\ t = s + a /\ e = a + line_bytes + 2 /\ Taken' = t + line_bytes + 2
  BY <1>1, <1>7, <1>8
<1> HIDE DEF a, e, s, t
<1>13. Taken' = s + e
  BY <1>1, <1>12
<1>14. j = 0 => e = Ends(m, 1) /\ a = 0 /\ Ends(m, 1) = line_bytes + 2
  <2>1. SUFFICES ASSUME j = 0 PROVE e = Ends(m, 1) /\ a = 0 /\ Ends(m, 1) = line_bytes + 2
    OBVIOUS
  <2>2. a = 0
    BY <1>11, <2>1 DEF a
  <2>3. e = Ends(m, 1)
    BY <2>1 DEF e
  <2> QED BY <1>1, <1>12, <2>2, <2>3
<1>15. HeadLineTaken(k)
  <2>1. Taken' = StartOf(k) + Ends(m, j + 1) /\ Ends(m, j + 1) = Ends(m, j) + line_bytes + 2
    BY <1>12, <1>13 DEF a, e, s
  <2>2. j = 0 => Line = m.line /\ line_bytes = Len(m.line) /\ Ends(m, 1) = line_bytes + 2
    BY <1>7, <1>10, <1>14
  <2>3. (j \in 1 .. n => Line = m.headers[j] /\ Line # <<>>) /\ (j = n + 1 => Line = <<>>)
    BY <1>7, <1>10
  <2> QED BY <1>1, <1>2, <1>3, <1>6, <1>8, <1>9, <2>1, <2>2, <2>3 DEF HeadLineTaken
<1> QED BY <1>1, <1>4, <1>6, <1>15

\* The answer is refused for this line.
LEMMA HeadRefusal ==
  ASSUME IInv, ProxyInv, side = "response", Running, ResponseFrame, Buffered', UNCHANGED <<parser, loopVars>>,
         responseParser.state \in {"StatusLine", "Headers"},
         NEW k \in 0 .. Len(messages) - 1, Skipped(k), InAnswer(k),
         \/ ResponseFails("HeaderTooLarge") /\ StatusTooLarge(Answer(k), HeadLine)
         \/ /\ ResponseFails("BadResponse") /\ ~StatusTooLarge(Answer(k), HeadLine)
            /\ StatusMalformed(Answer(k), HeadLine)
  PROVE  ProxyInv'
<1>1. PICK e \in {"HeaderTooLarge", "BadResponse"} : ResponseFails(e) /\ FinalOwnFault(e)
  BY HeadLineRefused
<1>2. e \in ResponseErrors \ {"PrematureEof"}
  BY DEF ResponseErrors
<1> QED BY <1>1, <1>2, AnswerRefused

LEMMA StatusLinePlaces ==
  ASSUME IInv, ProxyInv, side = "response", ParseStatusLine, UNCHANGED <<parser, loopVars>>
  PROVE  ProxyInv'
<1>1. responseParser.state = "StatusLine" /\ TakeResponseLine /\ HeadLine = 0
  BY DEF ParseStatusLine, HeadLine
<1>2. Running /\ ResponseFrame /\ HasLine /\ Buffered' /\ UNCHANGED <<limits, messages, wire>>
  BY <1>1, TakesHeadLine
<1>3. PICK k \in 0 .. Len(messages) - 1 : HeadLineTaken(k)
  BY <1>1, TakesHeadLine
<1> DEFINE m == Answer(k)
           n == Len(m.headers)
<1>4. /\ Skipped(k) /\ InAnswer(k) /\ m \in Messages /\ n \in Nat /\ line_bytes \in Nat
      /\ DOMAIN m.headers = 1 .. n /\ Taken' = StartOf(k) + Ends(m, 0 + 1)
      /\ Line = m.line /\ line_bytes = Len(m.line) /\ Ends(m, 1) = line_bytes + 2
  BY <1>1, <1>3 DEF HeadLineTaken
<1>5. limits \in ClientLimits /\ responseParser \in ResponseParsers /\ Len(messages) \in Nat
  BY ProxyFacts
<1>6. /\ StatusTooLarge(m, 0) <=> line_bytes > limits.status_line
      /\ StatusMalformed(m, 0) <=> Meaning(Line) \notin Statuses
  BY <1>4 DEF StatusTooLarge, StatusMalformed
<1>7. CASE line_bytes > limits.status_line
  BY <1>7, <1>1, <1>2, <1>4, <1>6, HeadRefusal DEF ParseStatusLine
<1>8. CASE ~(line_bytes > limits.status_line) /\ Meaning(Line) \notin Statuses
  <2>1. ResponseFails("BadResponse")
    BY <1>8 DEF ParseStatusLine
  <2> QED BY <1>1, <1>2, <1>4, <1>6, <1>8, <2>1, HeadRefusal
<1>9. CASE ~(line_bytes > limits.status_line) /\ Meaning(Line) \in Statuses
  <2>1. /\ responseParser' = [responseParser EXCEPT !.state = "Headers", !.status = Meaning(Line),
                                                    !.header_bytes = line_bytes + 2]
        /\ result' = "Running"
    BY <1>9 DEF ParseStatusLine, Becomes
  <2>2. BeforeStatus(k)
    BY <1>1, <1>4, PlaceOfState
  <2>3. responseParser.headers = <<>> /\ responseParser.body = <<>> /\ ~responseParser.eof_delimited
    BY <2>2 DEF BeforeStatus, NewResponseParser
  <2>4. /\ responseParser'.state = "Headers" /\ responseParser'.status = Meaning(m.line)
        /\ responseParser'.headers = <<>> /\ responseParser'.body = <<>>
        /\ responseParser'.header_bytes = line_bytes + 2 /\ ~responseParser'.eof_delimited
        /\ responseParser'.head_request = responseParser.head_request
    BY <1>4, <1>5, <2>1, <2>3 DEF ResponseParsers
  <2>5. /\ (Answer(k))' = Answer(k) /\ (StartOf(k))' = StartOf(k)
        /\ \A i : (StatusFault(Answer(k), i))' = StatusFault(Answer(k), i)
    BY <1>2, <2>4, AnswerSteady
  <2>6. StatusFault(m, 0) = "none"
    BY <1>4, <1>5, <1>6, <1>9, StatusFaultIs
  <2>7. Len(<<>>) = 0 /\ 0 <= n /\ 1 .. 0 = {} /\ 0 .. 0 = {0}
    BY <1>4
  <2>8. (LinesTaken(responseParser, Answer(k)))'
    <3>1. /\ Len(responseParser'.headers) = 0 /\ (m)' = m
      BY <2>4, <2>5
    <3>2. (\A i \in 0 .. Len(responseParser.headers) : StatusFault(m, i) = "none")'
      BY <2>7, <3>1, <2>5, <2>6
    <3>3. Ends(m, Len(responseParser'.headers) + 1) = line_bytes + 2
      BY <1>4, <3>1
    <3>4. (Ends(Answer(k), Len(responseParser.headers) + 1))' = line_bytes + 2
      BY <3>1, <3>3 DEF Ends, Terminated, Lines
    <3>5. (\A i \in 1 .. Len(responseParser.headers) : responseParser.headers[i] = Meaning(Answer(k).headers[i]))'
      BY <2>7, <3>1
    <3>6. (Len(responseParser.headers) <= Len(Answer(k).headers))'
      BY <1>4, <3>1
    <3> HIDE DEF m
    <3>7. (Answer(k))' = m
      BY <3>1 DEF m
    <3>8. (responseParser.status = Meaning(Answer(k).line) /\ responseParser.body = <<>>)'
      BY <2>4, <3>7
    <3>9. (responseParser.header_bytes = Ends(Answer(k), Len(responseParser.headers) + 1))'
      BY <2>4, <3>4
    <3>10. (\A i \in 0 .. Len(responseParser.headers) : StatusFault(Answer(k), i) = "none")'
      BY <3>2 DEF m
    <3> QED BY <3>5, <3>6, <3>8, <3>9, <3>10 DEF LinesTaken
  <2>9. InResponseHead(k)'
    <3>1. Len(responseParser'.headers) = 0 /\ (m)' = m /\ Len(messages') = Len(messages) /\ k < Len(messages)
      BY <1>5, <1>2, <2>4, <2>5, <2>7
    <3>2. Taken' = StartOf(k) + Ends(m, Len(responseParser'.headers) + 1)
      BY <1>4, <3>1
    <3>3. Undecided' /\ result' # "NeedMore"
      BY <2>1 DEF Undecided
    <3> QED BY <2>4, <2>5, <2>8, <3>1, <3>2, <3>3 DEF InResponseHead, Until
  <2>10. InAnswer(k)' /\ k \in 0 .. Len(messages)
    BY <1>5, <2>9 DEF InAnswer
  <2> QED BY <1>2, <1>4, <2>4, <2>10, AnswerTurn
<1> QED BY <1>7, <1>8, <1>9

LEMMA ResponseHeaderPlaces ==
  ASSUME IInv, ProxyInv, side = "response", ParseResponseHeader, UNCHANGED <<parser, loopVars>>
  PROVE  ProxyInv'
<1> DEFINE c == Len(responseParser.headers)
           j == c + 1
<1>1. responseParser.state = "Headers" /\ TakeResponseLine /\ HeadLine = j /\ Line # <<>>
  BY DEF ParseResponseHeader, HeadLine
<1>2. Running /\ ResponseFrame /\ HasLine /\ Buffered' /\ UNCHANGED <<limits, messages, wire>>
  BY <1>1, TakesHeadLine
<1>3. PICK k \in 0 .. Len(messages) - 1 : HeadLineTaken(k)
  BY <1>1, TakesHeadLine
<1> DEFINE m == Answer(k)
           n == Len(m.headers)
           b == limits.header_bytes
<1>4. limits \in ClientLimits /\ responseParser \in ResponseParsers /\ Len(messages) \in Nat
      /\ b \in Nat /\ limits.header_count \in Nat
  BY ProxyFacts
<1>5. c \in Nat
  BY <1>4 DEF ResponseParsers
<1>6. /\ Skipped(k) /\ InAnswer(k) /\ m \in Messages /\ n \in Nat /\ line_bytes \in Nat
      /\ DOMAIN m.headers = 1 .. n /\ Taken' = StartOf(k) + Ends(m, j + 1) /\ j \in 0 .. n + 1
      /\ Ends(m, j + 1) = Ends(m, j) + line_bytes + 2 /\ Ends(m, j) \in Nat
      /\ (j # 0 => responseParser.header_bytes = Ends(m, j))
      /\ (j \in 1 .. n => Line = m.headers[j]) /\ (j = n + 1 => Line = <<>>)
  BY <1>1, <1>3 DEF HeadLineTaken
<1>7. j \in 1 .. n /\ j # 0 /\ j > 0
  <2>1. j # n + 1
    BY <1>1, <1>6
  <2> HIDE DEF c, n
  <2>2. c + 1 \in 0 .. n + 1 /\ c + 1 # n + 1
    BY <1>6, <2>1
  <2> QED BY <1>5, <1>6, <2>2
<1> DEFINE counted == responseParser.header_bytes + line_bytes + 2
<1>8. counted = Ends(m, j + 1) /\ Line = m.headers[j]
  BY <1>6, <1>7
<1>9. InResponseHead(k)
  BY <1>1, <1>6, PlaceOfState
<1>10. /\ c <= n /\ responseParser.status = Meaning(m.line) /\ responseParser.body = <<>>
       /\ \A i \in 1 .. c : responseParser.headers[i] = Meaning(m.headers[i])
       /\ \A i \in 0 .. c : StatusFault(m, i) = "none"
       /\ ~responseParser.eof_delimited
  BY <1>9 DEF InResponseHead, LinesTaken
<1>11. /\ StatusTooLarge(m, j) <=> counted > b \/ c + 1 > limits.header_count
       /\ StatusMalformed(m, j) <=> Meaning(Line) \notin ResponseHeaderNames
  BY <1>6, <1>7, <1>8 DEF StatusTooLarge, StatusMalformed
<1> DEFINE big == counted > b \/ c + 1 > limits.header_count
<1>12. CASE big
  BY <1>12, <1>1, <1>2, <1>6, <1>11, HeadRefusal DEF ParseResponseHeader, header_bytes_with_line
<1>13. CASE ~big /\ Meaning(Line) \notin ResponseHeaderNames
  BY <1>13, <1>1, <1>2, <1>6, <1>11, HeadRefusal DEF ParseResponseHeader, header_bytes_with_line
<1>14. CASE ~big /\ Meaning(Line) \in ResponseHeaderNames
  <2> DEFINE h == responseParser.headers
             x == Meaning(Line)
  <2>1. /\ responseParser' = [responseParser EXCEPT !.headers = Append(h, x), !.header_bytes = counted]
        /\ result' = "Running"
    BY <1>14 DEF ParseResponseHeader, header_bytes_with_line, Becomes
  <2>2. h \in Seq(ResponseHeaderNames) /\ x \in ResponseHeaderNames /\ c = Len(h)
    BY <1>4, <1>14 DEF ResponseParsers
  <2> HIDE DEF x
  <2>3. Len(Append(h, x)) = c + 1 /\ Append(h, x)[c + 1] = x /\ \A i \in 1 .. c : Append(h, x)[i] = h[i]
    BY <2>2
  <2>4. /\ responseParser'.state = "Headers" /\ responseParser'.status = Meaning(m.line)
        /\ responseParser'.headers = Append(h, x) /\ responseParser'.body = <<>>
        /\ responseParser'.header_bytes = counted /\ ~responseParser'.eof_delimited
        /\ responseParser'.head_request = responseParser.head_request
    BY <1>1, <1>4, <1>10, <2>1 DEF ResponseParsers
  <2>5. /\ (Answer(k))' = Answer(k) /\ (StartOf(k))' = StartOf(k)
        /\ \A i : (StatusFault(Answer(k), i))' = StatusFault(Answer(k), i)
    BY <1>2, <2>4, AnswerSteady
  <2>6. StatusFault(m, j) = "none"
    BY <1>4, <1>6, <1>11, <1>14, StatusFaultIs
  <2>7. \A i \in 0 .. j : StatusFault(m, i) = "none"
    <3>1. \A i \in 0 .. j : i \in 0 .. c \/ i = j
      BY <1>5
    <3> QED BY <1>10, <2>6, <3>1
  <2>8. \A i \in 1 .. j : Append(h, x)[i] = Meaning(m.headers[i])
    <3>1. \A i \in 1 .. j : i \in 1 .. c \/ i = j
      BY <1>5
    <3> QED BY <1>8, <1>10, <2>3, <3>1 DEF x
  <2>9. Len(responseParser'.headers) = j /\ j <= n
    BY <1>7, <2>3, <2>4
  <2> HIDE DEF c, j, h
  <2>10. (LinesTaken(responseParser, Answer(k)))'
    <3>1. (Answer(k))' = m
      BY <2>5
    <3> HIDE DEF m
    <3>2. (Ends(Answer(k), Len(responseParser.headers) + 1))' = Ends(m, j + 1)
      BY <2>9, <3>1 DEF Ends, Terminated, Lines
    <3>3. (\A i \in 1 .. Len(responseParser.headers) : responseParser.headers[i] = Meaning(Answer(k).headers[i]))'
      BY <2>4, <2>8, <2>9, <3>1
    <3>4. (Len(responseParser.headers) <= Len(Answer(k).headers))'
      BY <2>9, <3>1
    <3>5. (responseParser.status = Meaning(Answer(k).line) /\ responseParser.body = <<>>)'
      BY <2>4, <3>1
    <3>6. (responseParser.header_bytes = Ends(Answer(k), Len(responseParser.headers) + 1))'
      BY <1>8, <2>4, <3>2
    <3>7. (\A i \in 0 .. Len(responseParser.headers) : StatusFault(Answer(k), i) = "none")'
      BY <2>5, <2>7, <2>9 DEF m
    <3> QED BY <3>3, <3>4, <3>5, <3>6, <3>7 DEF LinesTaken
  <2>11. InResponseHead(k)'
    <3>1. Len(messages') = Len(messages) /\ k < Len(messages)
      BY <1>2, <1>4
    <3>2. (Answer(k))' = m
      BY <2>5
    <3>3. Taken' = (StartOf(k) + Ends(Answer(k), Len(responseParser.headers) + 1))'
      <4> HIDE DEF m
      <4>1. (Ends(Answer(k), Len(responseParser.headers) + 1))' = Ends(m, j + 1)
        BY <2>9, <3>2 DEF Ends, Terminated, Lines
      <4> QED BY <1>6, <2>5, <4>1
    <3>4. Undecided' /\ result' # "NeedMore"
      BY <2>1 DEF Undecided
    <3> QED BY <2>4, <2>10, <3>1, <3>3, <3>4 DEF InResponseHead, Until
  <2>12. InAnswer(k)' /\ k \in 0 .. Len(messages)
    BY <1>4, <2>11 DEF InAnswer
  <2> QED BY <1>2, <1>6, <2>4, <2>12, AnswerTurn
<1> QED BY <1>12, <1>13, <1>14

\* The data of the first chunks.
LEMMA DataGrows ==
  ASSUME NEW m \in Messages
  PROVE  /\ DataUpTo(m, 0) = <<>>
         /\ \A j \in 0 .. Len(m.chunks) - 1 :
              /\ DataUpTo(m, j) \in Seq(STRING)
              /\ DataUpTo(m, j + 1) = DataUpTo(m, j) \o m.chunks[j + 1].data
<1> DEFINE n == Len(m.chunks)
           s == [i \in 1 .. n |-> m.chunks[i].data]
           d(j) == [i \in 1 .. j |-> m.chunks[i].data]
<1>1. n \in Nat /\ \A i \in 1 .. n : m.chunks[i].data \in Seq(STRING)
  BY PartsOf
<1>2. DataUpTo(m, 0) = <<>>
  BY DEF FlattenSeq, DataUpTo
<1>3. s \in Seq(Seq(STRING)) /\ Len(s) = n /\ \A i \in 1 .. n : s[i] = m.chunks[i].data
  BY <1>1
<1>4. ASSUME NEW j \in 0 .. n PROVE DataUpTo(m, j) = FlattenSeq(SubSeq(s, 1, j))
  <2>1. /\ SubSeq(s, 1, j) = [i \in 1 .. j |-> s[i]]
    <3> HIDE DEF s
    <3> QED BY <1>1, <1>3
  <2>2. \A i \in 1 .. j : s[i] = m.chunks[i].data
    BY <1>1, <1>3
  <2> HIDE DEF s
  <2>3. SubSeq(s, 1, j) = d(j)
    BY <2>1, <2>2
  <2> QED BY <2>3 DEF DataUpTo
<1>5. ASSUME NEW j \in 0 .. n - 1
      PROVE  /\ DataUpTo(m, j) \in Seq(STRING)
             /\ DataUpTo(m, j + 1) = DataUpTo(m, j) \o m.chunks[j + 1].data
  <2>1. j \in 0 .. n /\ j + 1 \in 0 .. n /\ j \in 0 .. Len(s) - 1 /\ j + 1 \in 1 .. n
    BY <1>1, <1>3
  <2>2. s[j + 1] = m.chunks[j + 1].data
    BY <1>3, <2>1
  <2> HIDE DEF s
  <2>3. /\ FlattenSeq(SubSeq(s, 1, j)) \in Seq(STRING)
        /\ FlattenSeq(SubSeq(s, 1, j + 1)) = FlattenSeq(SubSeq(s, 1, j)) \o s[j + 1]
    BY <1>3, <2>1, FlattenAppend
  <2>4. DataUpTo(m, j) = FlattenSeq(SubSeq(s, 1, j)) /\ DataUpTo(m, j + 1) = FlattenSeq(SubSeq(s, 1, j + 1))
    BY <1>4, <2>1
  <2> QED BY <2>2, <2>3, <2>4
<1> QED BY <1>2, <1>5

\* An answer that has come to its end.
LEMMA AnswerEnds ==
  ASSUME IInv, ProxyInv, side = "response", Running, ResponseFrame, UNCHANGED <<parser, loopVars>>, Buffered',
         responseParser'.head_request = responseParser.head_request,
         NEW k \in 0 .. Len(messages) - 1, Skipped(k), Meaning(Answer(k).line) # "s100",
         ResponseFault(Answer(k)) = "none", Framing(Answer(k)) \in {"none", "fixed", "chunked"},
         Framing(Answer(k)) = "chunked" => ChunkFault(Answer(k)) = "none",
         result' = "Complete", responseParser'.state = "Complete", ~responseParser'.eof_delimited,
         responseParser'.body = CASE Framing(Answer(k)) = "none" -> <<>>
                                  [] Framing(Answer(k)) = "fixed" -> Answer(k).body
                                  [] Framing(Answer(k)) = "chunked"
                                       -> DataUpTo(Answer(k), Len(Answer(k).chunks)),
         Taken' = IF Framing(Answer(k)) = "none" THEN BodyAt(k) ELSE StartOf(k) + Len(Encoded(Answer(k)))
  PROVE  ProxyInv'
<1>1. UNCHANGED <<limits, messages, wire, sent>>
  BY DEF ResponseFrame, loopVars
<1>2. /\ messages[Final] = Answer(k) /\ EndsItself
      /\ FinalFault = IF Framing(Answer(k)) = "chunked" THEN ChunkFault(Answer(k)) ELSE "none"
      /\ FinalEnd = IF Framing(Answer(k)) = "none" THEN BodyAt(k) ELSE StartOf(k) + Len(Encoded(Answer(k)))
  BY Verdict
<1>3. FinalFault = "none" /\ responseParser'.body = FinalBody /\ Taken' = FinalEnd
  BY <1>2 DEF FinalBody
<1>4. FinalFault' = FinalFault /\ FinalBody' = FinalBody
  BY <1>1, VerdictSteady
<1>5. FinalEnd' = FinalEnd /\ ((EndsItself)' <=> EndsItself)
  BY <1>1, AnswerSteady
<1>6. AtAnswerEnd'
  BY <1>2, <1>3, <1>4, <1>5 DEF AtAnswerEnd
<1> QED BY <1>6, AnswerTurn

\* The empty line behind the headers has been taken.
LEMMA WholeAnswerHead ==
  ASSUME IInv, ProxyInv, side = "response", FinishResponseHeaders, UNCHANGED <<parser, loopVars>>
  PROVE  /\ Running /\ ResponseFrame /\ HasLine /\ Buffered' /\ UNCHANGED <<limits, messages, wire>>
         /\ responseParser \in ResponseParsers /\ responseParser.body = <<>>
         /\ ~responseParser.eof_delimited /\ HeadLine # 0 /\ responseParser.state = "Headers"
         /\ \E k \in 0 .. Len(messages) - 1 :
              /\ Skipped(k) /\ InAnswer(k) /\ Answer(k) \in Messages /\ Taken' = BodyAt(k)
              /\ StartOf(k) \in Nat /\ BodyAt(k) \in Nat /\ HeadBytes(Answer(k)) \in Nat
              /\ BodyAt(k) = StartOf(k) + HeadBytes(Answer(k))
              /\ header_bytes_with_line = HeadBytes(Answer(k))
              /\ responseParser.status = Meaning(Answer(k).line)
              /\ responseParser.headers = Meanings(Answer(k))
              /\ (StatusTooLarge(Answer(k), HeadLine) <=> header_bytes_with_line > limits.header_bytes)
              /\ header_bytes_with_line > limits.header_bytes
                   \/ \A i \in 0 .. Len(Answer(k).headers) + 1 : StatusFault(Answer(k), i) = "none"
<1> DEFINE c == Len(responseParser.headers)
           j == c + 1
<1>1. responseParser.state = "Headers" /\ TakeResponseLine /\ HeadLine = j /\ Line = <<>>
  BY DEF FinishResponseHeaders, HeadLine
<1>2. Running /\ ResponseFrame /\ HasLine /\ Buffered' /\ UNCHANGED <<limits, messages, wire>>
  BY <1>1, TakesHeadLine
<1>3. PICK k \in 0 .. Len(messages) - 1 : HeadLineTaken(k)
  BY <1>1, TakesHeadLine
<1> DEFINE m == Answer(k)
           n == Len(m.headers)
<1>4. limits \in ClientLimits /\ responseParser \in ResponseParsers /\ Len(messages) \in Nat
  BY ProxyFacts
<1>5. c \in Nat /\ responseParser.headers = [i \in 1 .. c |-> responseParser.headers[i]]
  BY <1>4 DEF ResponseParsers
<1>6. /\ Skipped(k) /\ InAnswer(k) /\ m \in Messages /\ n \in Nat /\ line_bytes \in Nat
      /\ DOMAIN m.headers = 1 .. n /\ Taken' = StartOf(k) + Ends(m, j + 1) /\ j \in 0 .. n + 1
      /\ Ends(m, j + 1) = Ends(m, j) + line_bytes + 2 /\ Ends(m, j) \in Nat /\ StartOf(k) \in Nat
      /\ (j # 0 => responseParser.header_bytes = Ends(m, j))
      /\ (j \in 1 .. n => Line # <<>>)
  BY <1>1, <1>3 DEF HeadLineTaken
<1>7. j = n + 1 /\ c = n /\ j # 0 /\ j > 0 /\ j + 1 = n + 2
  <2>1. j \notin 1 .. n
    BY <1>1, <1>6
  <2> HIDE DEF c, n
  <2>2. c + 1 \in 0 .. n + 1 /\ c + 1 \notin 1 .. n /\ c \in Nat /\ n \in Nat
    BY <1>5, <1>6, <2>1
  <2> QED BY <2>2
<1>8. InResponseHead(k)
  BY <1>1, <1>6, PlaceOfState
<1>9. /\ responseParser.status = Meaning(m.line) /\ responseParser.body = <<>>
      /\ \A i \in 1 .. c : responseParser.headers[i] = Meaning(m.headers[i])
      /\ \A i \in 0 .. c : StatusFault(m, i) = "none"
      /\ ~responseParser.eof_delimited
  BY <1>8 DEF InResponseHead, LinesTaken
<1>10. HeadBytes(m) \in Nat /\ HeadBytes(m) = Ends(m, n + 2)
  BY <1>6, HeadAt
<1>11. header_bytes_with_line = HeadBytes(m) /\ Taken' = StartOf(k) + HeadBytes(m)
  BY <1>7, <1>10, <1>6 DEF header_bytes_with_line
<1>12. BodyAt(k) = StartOf(k) + HeadBytes(m)
  BY DEF BodyAt
<1> DEFINE h == HeadBytes(m)
           s == StartOf(k)
<1>13. s + h \in Nat
  <2>1. s \in Nat /\ h \in Nat
    BY <1>6, <1>10
  <2> HIDE DEF s, h
  <2> QED BY <2>1
<1>14. StatusTooLarge(m, j) <=> header_bytes_with_line > limits.header_bytes
  <2>1. j \notin DOMAIN m.headers
    <3>2. n \in Nat
      BY <1>6
    <3>1. n + 1 \notin 1 .. n
      <4> HIDE DEF n
      <4> QED BY <3>2
    <3> QED BY <1>6, <1>7, <3>1
  <2>2. Ends(m, j + 1) = header_bytes_with_line
    BY <1>7, <1>10, <1>11
  <2> QED BY <1>7, <2>1, <2>2 DEF StatusTooLarge
<1>15. header_bytes_with_line > limits.header_bytes \/ StatusFault(m, n + 1) = "none"
  <2>1. ~StatusMalformed(m, j)
    <3>2. n \in Nat
      BY <1>6
    <3>1. n + 1 \notin 1 .. n /\ n + 1 # 0
      <4> HIDE DEF n
      <4> QED BY <3>2
    <3> QED BY <1>6, <1>7, <3>1 DEF StatusMalformed
  <2>2. StatusFault(m, j) = IF StatusTooLarge(m, j) THEN "HeaderTooLarge"
                            ELSE IF StatusMalformed(m, j) THEN "malformed" ELSE "none"
    BY <1>4, <1>6, StatusFaultIs
  <2> QED BY <1>7, <1>14, <2>1, <2>2
<1>16. header_bytes_with_line > limits.header_bytes \/ \A i \in 0 .. n + 1 : StatusFault(m, i) = "none"
  <2>1. \A i \in 0 .. n + 1 : i \in 0 .. c \/ i = n + 1
    <3> HIDE DEF n, c
    <3> QED BY <1>6, <1>7
  <2> QED BY <1>9, <1>15, <2>1
<1>17. responseParser.headers = Meanings(m)
  <2> DEFINE f == [i \in 1 .. n |-> Meaning(m.headers[i])]
  <2>1. Meanings(m) = f
    BY <1>6 DEF Meanings
  <2>2. responseParser.headers = [i \in 1 .. n |-> responseParser.headers[i]]
    BY <1>5, <1>7
  <2>3. \A i \in 1 .. n : responseParser.headers[i] = Meaning(m.headers[i])
    BY <1>7, <1>9
  <2> QED BY <2>1, <2>2, <2>3
<1> QED BY <1>1, <1>2, <1>4, <1>6, <1>7, <1>9, <1>10, <1>11, <1>12, <1>13, <1>14, <1>16, <1>17

LEMMA FinishResponseHeadersPlaces ==
  ASSUME IInv, ProxyInv, side = "response", FinishResponseHeaders, UNCHANGED <<parser, loopVars>>
  PROVE  ProxyInv'
<1>1. /\ Running /\ ResponseFrame /\ HasLine /\ Buffered' /\ UNCHANGED <<limits, messages, wire>>
      /\ responseParser \in ResponseParsers /\ responseParser.body = <<>>
      /\ ~responseParser.eof_delimited /\ HeadLine # 0 /\ responseParser.state = "Headers"
  BY WholeAnswerHead
<1>2. PICK k \in 0 .. Len(messages) - 1 :
         /\ Skipped(k) /\ InAnswer(k) /\ Answer(k) \in Messages /\ Taken' = BodyAt(k)
         /\ StartOf(k) \in Nat /\ BodyAt(k) \in Nat /\ HeadBytes(Answer(k)) \in Nat
         /\ BodyAt(k) = StartOf(k) + HeadBytes(Answer(k))
         /\ header_bytes_with_line = HeadBytes(Answer(k))
         /\ responseParser.status = Meaning(Answer(k).line)
         /\ responseParser.headers = Meanings(Answer(k))
         /\ (StatusTooLarge(Answer(k), HeadLine) <=> header_bytes_with_line > limits.header_bytes)
         /\ header_bytes_with_line > limits.header_bytes
              \/ \A i \in 0 .. Len(Answer(k).headers) + 1 : StatusFault(Answer(k), i) = "none"
  BY WholeAnswerHead
<1> DEFINE m == Answer(k)
           q == [responseParser EXCEPT !.header_bytes = header_bytes_with_line]
           p == Framed(q)
           tooLarge == header_bytes_with_line > limits.header_bytes
           own == responseParser.head_request \/ IsResponse(m)
<1>3. /\ Len(messages) \in Nat /\ limits.body \in Nat /\ Streaming /\ IsHeadResponse(m) /\ own
  BY ProxyFacts
<1>4. /\ q.status = Meaning(m.line) /\ q.headers = Meanings(m) /\ q.head_request = responseParser.head_request
      /\ q.body = <<>> /\ q.eof_delimited = FALSE /\ q.state = "Headers" /\ q.header_bytes = HeadBytes(m)
      /\ q \in ResponseParsers
  BY <1>2, <1>1 DEF ResponseParsers
<1>5. IF tooLarge THEN ResponseFails("HeaderTooLarge")
      ELSE IF FramingError(q) # "none" THEN ResponseFails(FramingError(q))
      ELSE Becomes(p, IF p.state = "Complete" THEN "Complete" ELSE "Running")
  BY DEF FinishResponseHeaders
<1>6. CASE tooLarge
  <2>1. ResponseFails("HeaderTooLarge") /\ StatusTooLarge(m, HeadLine)
    BY <1>2, <1>5, <1>6
  <2> QED BY <1>1, <1>2, <2>1, HeadRefusal
<1> HIDE DEF own
<1>7. ASSUME ~tooLarge
      PROVE  /\ ResponseFault(m) = FramingError(q)
             /\ FramingError(q) = "none" /\ Meaning(m.line) # "s100" =>
                  /\ Meaning(m.line) # "s101"
                  /\ Framing(m) = IF q.head_request \/ q.status = "s204" THEN "none"
                                  ELSE IF Transfers(q) # {} THEN "chunked"
                                  ELSE IF Lengths(q) = {} THEN "eof" ELSE "fixed"
                  /\ Framing(m) = "fixed" =>
                       /\ Count(m, Codings) = 0 /\ Count(m, LengthNames) = 1 /\ Length(m) # "badlength"
                       /\ BodyLength(q) = Length(m) /\ ~(Number[Length(m)] > limits.body)
  <2>1. \A i \in 0 .. Len(m.headers) + 1 : StatusFault(m, i) = "none"
    BY <1>2, <1>7
  <2> HIDE DEF m, q
  <2>2. m \in Messages
    BY <1>2 DEF m
  <2> QED BY <1>4, <2>1, <2>2, FramingIs
<1>8. CASE ~tooLarge /\ FramingError(q) # "none"
  <2> DEFINE e == FramingError(q)
  <2>1. e \in ResponseErrors \ {"PrematureEof"}
    BY <1>8 DEF FramingError, ResponseErrors
  <2>2. ResponseFails(e)
    BY <1>5, <1>8
  <2>3. FinalOwnFault(e)
    <3>1. FinalFault = ResponseFault(m)
      BY <1>2, <1>7, <1>8, Verdict
    <3> QED BY <1>7, <1>8, <3>1 DEF FinalOwnFault
  <2> HIDE DEF e
  <2> QED BY <1>1, <2>1, <2>2, <2>3, AnswerRefused
<1>9. ASSUME ~tooLarge, FramingError(q) = "none"
      PROVE  /\ responseParser' = p /\ result' = IF p.state = "Complete" THEN "Complete" ELSE "Running"
             /\ ResponseFault(m) = "none" /\ k < Len(messages)
  BY <1>3, <1>5, <1>7, <1>9 DEF Becomes
<1>10. q.status \in Statuses
  <2>1. Meaning(m.line) \in Statuses
    <3>1. InResponseHead(k)
      BY <1>1, <1>2, PlaceOfState
    <3>2. StatusFault(m, 0) = "none"
      BY <1>1, <3>1 DEF ResponseParsers, InResponseHead, LinesTaken
    <3>3. 0 \in 0 .. Len(m.headers) + 1 /\ limits \in ClientLimits
      <4>1. Len(m.headers) \in Nat
        BY <1>2, LinesOf
      <4> QED BY <4>1, ProxyFacts
    <3>4. ~StatusMalformed(m, 0)
      BY <1>2, <3>2, <3>3, StatusFaultIs
    <3> QED BY <3>4 DEF StatusMalformed
  <2> QED BY <1>4, <2>1
<1> HIDE DEF tooLarge, q
<1>11. CASE ~tooLarge /\ FramingError(q) = "none" /\ Meaning(m.line) = "s100"
  <2>1. p = NewResponseParser(q.head_request)
    BY <1>4, <1>11 DEF Framed
  <2>2. /\ responseParser' = NewResponseParser(responseParser.head_request)
        /\ responseParser'.head_request = responseParser.head_request
        /\ result' = "Running"
    BY <1>4, <1>9, <1>11, <2>1 DEF NewResponseParser
  <2>3. m.body = <<>>
    BY <1>3, <1>11 DEF IsHeadResponse
  <2>4. k + 1 \in 0 .. Len(messages)
    BY <1>3
  <2>5. StartOf(k + 1) = BodyAt(k)
    <3>1. StartOf(k + 1) = StartOf(k) + Len(Encoded(m))
      BY <1>3, Starts DEF Answer
    <3>2. Len(Encoded(m)) = HeadBytes(m) + Len(m.body)
      BY <1>2, HeadAt
    <3>3. Len(<<>>) = 0
      OBVIOUS
    <3> DEFINE h == HeadBytes(m)
    <3>4. h \in Nat /\ Len(Encoded(m)) = h + 0
      BY <1>2, <2>3, <3>2, <3>3
    <3> HIDE DEF h
    <3>5. Len(Encoded(m)) = h
      BY <3>4
    <3> QED BY <1>2, <3>1, <3>5 DEF h
  <2>6. Skipped(k + 1)
    <3>1. ResponseFault(messages[k + 1]) = "none" /\ Meaning(messages[k + 1].line) = "s100"
      BY <1>9, <1>11 DEF Answer
    <3>2. \A i \in 1 .. k + 1 : i \in 1 .. k \/ i = k + 1
      OBVIOUS
    <3> QED BY <1>2, <3>1, <3>2 DEF Skipped
  <2>7. \A x : (StartOf(x))' = StartOf(x)
    BY <1>1, <2>2, AnswerSteady
  <2>8. BeforeStatus(k + 1)'
    BY <2>2, <1>2, <2>5, <2>7 DEF Undecided, BeforeStatus, Until
  <2>9. InAnswer(k + 1)'
    BY <2>8 DEF InAnswer
  <2> QED BY <1>1, <2>2, <2>4, <2>6, <2>9, AnswerTurn
<1>12. ASSUME ~tooLarge, FramingError(q) = "none", Meaning(m.line) # "s100"
       PROVE  /\ q.status # "s100" /\ q.status # "s101"
              /\ Framing(m) = IF q.head_request \/ q.status = "s204" THEN "none"
                              ELSE IF Transfers(q) # {} THEN "chunked"
                              ELSE IF Lengths(q) = {} THEN "eof" ELSE "fixed"
              /\ ~(q.head_request \/ q.status = "s204") => q.status = "s200" /\ IsResponse(m)
  <2>1. q.status = "s204" \/ q.status = "s200"
    BY <1>4, <1>7, <1>10, <1>12 DEF Statuses
  <2> QED BY <1>3, <1>4, <1>7, <1>12, <2>1 DEF own
<1>20. /\ (Answer(k))' = m
       /\ responseParser'.head_request = responseParser.head_request =>
            /\ (StartOf(k))' = StartOf(k) /\ (BodyAt(k))' = BodyAt(k)
            /\ (ResponseFault(Answer(k)))' = ResponseFault(m) /\ (Framing(Answer(k)))' = Framing(m)
  BY <1>1, AnswerSteady DEF Answer
<1>13. CASE ~tooLarge /\ FramingError(q) = "none" /\ Meaning(m.line) # "s100" /\ Framing(m) = "none"
  <2>1. q.head_request \/ q.status = "s204"
    BY <1>12, <1>13
  <2>2. p = [q EXCEPT !.state = "Complete"]
    BY <1>12, <1>13, <2>1 DEF Framed
  <2>3. /\ p.state = "Complete" /\ p.body = <<>> /\ ~p.eof_delimited
        /\ p.head_request = responseParser.head_request
    BY <1>4, <2>2 DEF ResponseParsers
  <2>4. /\ responseParser'.state = "Complete" /\ responseParser'.body = <<>> /\ ~responseParser'.eof_delimited
        /\ responseParser'.head_request = responseParser.head_request /\ result' = "Complete"
    BY <1>9, <1>13, <2>3
  <2> QED BY <1>1, <1>2, <1>9, <1>13, <2>4, AnswerEnds
<1>14. CASE ~tooLarge /\ FramingError(q) = "none" /\ Meaning(m.line) # "s100" /\ Framing(m) = "chunked"
  <2>1. ~(q.head_request \/ q.status = "s204") /\ Transfers(q) # {}
    BY <1>12, <1>14
  <2>2. p = [q EXCEPT !.state = "ChunkSize"]
    BY <1>12, <1>14, <2>1 DEF Framed
  <2>3. /\ p.state = "ChunkSize" /\ p.body = <<>> /\ p.eof_delimited = FALSE /\ p.header_bytes = HeadBytes(m)
        /\ p.head_request = responseParser.head_request
    BY <1>4, <2>2 DEF ResponseParsers
  <2>4. /\ responseParser'.state = "ChunkSize" /\ responseParser'.body = <<>> /\ responseParser'.eof_delimited = FALSE
        /\ responseParser'.header_bytes = HeadBytes(m)
        /\ responseParser'.head_request = responseParser.head_request /\ result' = "Running"
    BY <1>9, <1>14, <2>3
  <2>5. HasFraming(k, "chunked")'
    BY <1>1, <1>9, <1>14, <1>20, <2>4 DEF HasFraming
  <2>6. Len(m.chunks) \in Nat /\ DataUpTo(m, 0) = <<>> /\ ChunkEnds(m, 0) = 0
    BY <1>2, PartsOf, DataGrows, ChunksAt
  <2>7. ChunksTaken(k, 0)'
    BY <1>20, <2>6, <2>4, <2>5 DEF DataUpTo, ChunksTaken
  <2>8. BeforeSize(k, 0)'
    BY <2>4, <1>20, <2>6, <1>2, <2>7 DEF Undecided, ChunkEnds, ChunksOf, BeforeSize, Until
  <2>9. InAnswer(k)'
    BY <2>6, <1>20, <2>8 DEF InAnswer
  <2> QED BY <1>1, <1>2, <1>3, <2>4, <2>9, AnswerTurn
<1>15. CASE ~tooLarge /\ FramingError(q) = "none" /\ Meaning(m.line) # "s100" /\ Framing(m) = "eof"
  <2>1. ~(q.head_request \/ q.status = "s204") /\ Transfers(q) = {} /\ Lengths(q) = {}
    BY <1>12, <1>15
  <2>2. p = [q EXCEPT !.state = "EofBody", !.eof_delimited = TRUE]
    BY <1>12, <1>15, <2>1 DEF Framed
  <2>3. /\ p.state = "EofBody" /\ p.body = <<>> /\ p.eof_delimited
        /\ p.head_request = responseParser.head_request
    BY <1>4, <2>2 DEF ResponseParsers
  <2>4. /\ responseParser'.state = "EofBody" /\ responseParser'.body = <<>> /\ responseParser'.eof_delimited
        /\ responseParser'.head_request = responseParser.head_request /\ result' = "Running"
    BY <1>9, <1>15, <2>3
  <2>5. HasFraming(k, "eof")'
    BY <1>1, <1>9, <1>15, <1>20, <2>4 DEF HasFraming
  <2>6. Len(<<>>) = 0 /\ Taken' = BodyAt(k) + 0 /\ 0 <= limits.body
    BY <1>2, <1>3
  <2>7. SubSeq(wire', BodyAt(k) + 1, Taken') = <<>>
    <3> DEFINE b == BodyAt(k)
    <3>1. b \in Nat /\ Taken' = b
      BY <1>2
    <3> HIDE DEF b
    <3>2. b + 1 .. b = {}
      BY <3>1
    <3>3. SubSeq(wire', b + 1, b) = <<>>
      BY <3>1
    <3> QED BY <3>1, <3>3 DEF b
  <2>8. InEofBody(k)'
    BY <2>4, <1>1, <1>20, <2>5, <2>6, <2>7 DEF Undecided, InEofBody
  <2>9. InAnswer(k)'
    BY <2>8 DEF InAnswer
  <2> QED BY <1>1, <1>2, <1>3, <2>4, <2>9, AnswerTurn
<1>16. CASE ~tooLarge /\ FramingError(q) = "none" /\ Meaning(m.line) # "s100" /\ Framing(m) = "fixed"
  <2>1. ~(q.head_request \/ q.status = "s204") /\ Transfers(q) = {} /\ Lengths(q) # {}
    BY <1>12, <1>16
  <2> DEFINE size == Number[BodyLength(q)]
             st == IF size = 0 THEN "Complete" ELSE "FixedBody"
  <2>2. p = [q EXCEPT !.expected_body_bytes = size, !.state = st]
    BY <1>12, <1>16, <2>1 DEF Framed
  <2>3. /\ Len(m.body) = size /\ ~(size > limits.body) /\ m.body \in Seq(STRING)
    <3>1. AsLongAsItSays(m)
      BY <1>4, <1>7, <1>12, <1>16, <2>1 DEF IsResponse
    <3> QED BY <1>2, <1>7, <1>16, <3>1, LinesOf DEF AsLongAsItSays
  <2> HIDE DEF size
  <2>4. /\ p.state = st /\ p.body = <<>> /\ p.eof_delimited = FALSE /\ p.expected_body_bytes = size
        /\ p.head_request = responseParser.head_request
    BY <1>4, <2>2 DEF ResponseParsers
  <2>5. /\ responseParser'.state = st /\ responseParser'.body = <<>> /\ responseParser'.eof_delimited = FALSE
        /\ responseParser'.head_request = responseParser.head_request
        /\ responseParser'.expected_body_bytes = size
        /\ result' = IF st = "Complete" THEN "Complete" ELSE "Running"
    BY <1>9, <1>16, <2>4
  <2>6. CASE size = 0
    <3>1. m.body = <<>>
      BY <2>3, <2>6
    <3>2. Len(Encoded(m)) = HeadBytes(m) + Len(m.body) /\ HeadBytes(m) \in Nat
      BY <1>2, HeadAt
    <3>3. Taken' = StartOf(k) + Len(Encoded(m))
      <4> DEFINE h == HeadBytes(m)
      <4>1. Len(Encoded(m)) = h + 0 /\ h \in Nat /\ Taken' = StartOf(k) + h
        BY <1>2, <2>3, <2>6, <3>2
      <4> HIDE DEF h
      <4>2. Len(Encoded(m)) = h
        BY <4>1
      <4> QED BY <4>1, <4>2
    <3>4. responseParser'.state = "Complete" /\ result' = "Complete"
      BY <2>5, <2>6
    <3> QED BY <1>1, <1>2, <1>9, <1>16, <2>5, <3>1, <3>3, <3>4, AnswerEnds
  <2>7. CASE size # 0
    <3>1. responseParser'.state = "FixedBody" /\ result' = "Running" /\ Undecided'
      BY <2>5, <2>7 DEF Undecided
    <3>2. HasFraming(k, "fixed")'
      BY <1>1, <1>9, <1>16, <1>20, <2>5 DEF HasFraming
    <3>3. Len(<<>>) = 0 /\ Taken' = BodyAt(k) + 0 /\ SubSeq(m.body, 1, 0) = <<>>
      BY <1>2, <2>3
    <3>4. 0 < size /\ size <= limits.body
      BY <2>3, <1>3, <2>7
    <3>5. InFixedBody(k)'
      BY <1>1, <1>20, <2>3, <2>5, <3>1, <3>2, <3>3, <3>4 DEF InFixedBody
    <3>6. InAnswer(k)'
      BY <3>5 DEF InAnswer
    <3> QED BY <1>1, <1>2, <1>3, <2>5, <3>6, AnswerTurn
  <2> QED BY <2>6, <2>7
<1>17. ~tooLarge /\ FramingError(q) = "none" /\ Meaning(m.line) # "s100"
         => Framing(m) \in {"none", "chunked", "eof", "fixed"}
  BY <1>12
<1> QED BY <1>6, <1>8, <1>11, <1>13, <1>14, <1>15, <1>16, <1>17

\* x is a piece of w; what lies behind it makes it longer.
Piece(w, p, a, x) == x = SubSeq(w, p + 1, p + a)
LEMMA PieceGrows ==
  ASSUME NEW w \in Seq(Bytes), NEW p \in Nat, NEW a \in Nat, NEW x, Piece(w, p, a, x),
         NEW t \in Seq(Bytes), NEW q, q = p + a, At(w, q, t), NEW l, l = a + Len(t)
  PROVE  Piece(w, p, l, x \o t) /\ Len(x) = a /\ p + l <= Len(w)
<1> DEFINE n == Len(t)
           y == SubSeq(w, p + 1, p + a + n)
<1>7. x = SubSeq(w, p + 1, p + a) /\ At(w, p + a, t)
  BY DEF Piece
<1>9. n \in Nat /\ Len(w) \in Nat
  OBVIOUS
<1>1. n \in Nat /\ Len(w) \in Nat /\ p + a + n <= Len(w) /\ \A i \in 1 .. n : w[(p + a) + i] = t[i]
  <2>1. (p + a) + n <= Len(w) /\ \A i \in 1 .. n : w[(p + a) + i] = t[i]
    BY <1>7 DEF At
  <2> QED BY <1>9, <2>1
<1>2. x \in Seq(Bytes) /\ Len(x) = a /\ \A i \in 1 .. a : x[i] = w[p + i]
  <2>1. p + a <= Len(w)
    <3> HIDE DEF n
    <3> QED BY <1>1
  <2> HIDE DEF n, y
  <2>2. Len(w) \in Nat /\ \A i \in 1 .. Len(w) : w[i] \in Bytes
    OBVIOUS
  <2>3. p + 1 \in Int /\ p + a \in Int /\ \A i \in p + 1 .. p + a : i \in 1 .. Len(w)
    BY <2>1, <2>2
  <2>4. \A i \in p + 1 .. p + a : w[i] \in Bytes
    BY <2>2, <2>3
  <2> DEFINE from == p + 1
             to == p + a
             s == SubSeq(w, from, to)
  <2>8. from \in Int /\ to \in Int /\ \A i \in from .. to : w[i] \in Bytes
    BY <2>3, <2>4
  <2>9. x = s
    BY <1>7
  <2> HIDE DEF from, to
  <2>5. /\ s \in Seq(Bytes) /\ Len(s) = IF from <= to THEN to - from + 1 ELSE 0
        /\ \A i \in 1 .. to - from + 1 : s[i] = w[from + i - 1]
    BY <2>8, SubSeqProperties
  <2> HIDE DEF s
  <2>6. Len(s) = a
    <3>1. (IF from <= to THEN to - from + 1 ELSE 0) = a
      BY DEF from, to
    <3> QED BY <2>5, <3>1
  <2>7. \A i \in 1 .. a : s[i] = w[p + i]
    <3>1. to - from + 1 = a /\ \A i \in 1 .. a : from + i - 1 = p + i
      BY DEF from, to
    <3> QED BY <2>5, <3>1
  <2> QED BY <2>5, <2>6, <2>7, <2>9
<1>3. y \in Seq(Bytes) /\ Len(y) = a + n /\ \A i \in 1 .. a + n : y[i] = w[p + i]
  BY <1>1, SMTT(30)
<1>4. /\ x \o t \in Seq(Bytes) /\ Len(x \o t) = a + n
      /\ \A i \in 1 .. a + n : (x \o t)[i] = IF i <= a THEN x[i] ELSE t[i - a]
  BY <1>2, ConcatProperties
<1>5. \A i \in 1 .. a + n : (x \o t)[i] = y[i]
  <2>1. SUFFICES ASSUME NEW i \in 1 .. a + n PROVE (x \o t)[i] = y[i]
    OBVIOUS
  <2>2. CASE i <= a
    BY <1>1, <2>2, <1>2, <1>3, <1>4, SMTT(30)
  <2>3. CASE ~(i <= a)
    <3>1. i - a \in 1 .. n /\ (p + a) + (i - a) = p + i
      BY <1>1, <2>3
    <3>2. w[p + i] = t[i - a]
      BY <1>1, <3>1
    <3> HIDE DEF y, n
    <3> QED BY <1>3, <1>4, <2>3, <3>2
  <2> QED BY <2>2, <2>3
<1> HIDE DEF y
<1>6. x \o t = y
  <2> DEFINE z == x \o t
  <2>1. z \in Seq(Bytes) /\ Len(z) = Len(y) /\ \A i \in 1 .. Len(z) : z[i] = y[i]
    BY <1>3, <1>4, <1>5
  <2> HIDE DEF z
  <2>2. z = y
    BY <1>3, <2>1, SeqEqual
  <2> QED BY <2>2 DEF z
<1>8. p + l = p + a + n
  BY <1>1 DEF n
<1> QED BY <1>1, <1>2, <1>6, <1>8 DEF y, Piece

\* The bytes that are taken for a body, and what is left behind them.
LEMMA TakesForBody ==
  ASSUME IInv, ProxyInv, side = "response", Running, ResponseFrame, NEW count \in 0 .. Len(input.bytes),
         input' = consume(input, count)
  PROVE  /\ Buffered' /\ Taken' = Taken + count
         /\ SubSeq(input.bytes, 1, count) \in Seq(Bytes) /\ Len(SubSeq(input.bytes, 1, count)) = count
         /\ At(wire, Taken, SubSeq(input.bytes, 1, count)) /\ wire \in Seq(Bytes)
<1> DEFINE t == SubSeq(input.bytes, 1, count)
           p == Taken
<1>1. Buffered /\ UNCHANGED <<wire, sent>>
  BY DEF ProxyInv, ResponseFrame
<1>2. Buffered' /\ Taken' = Taken + count
  BY <1>1, ConsumedBuffered
<1>3. input.bytes \in Seq(Bytes) /\ wire \in Seq(Bytes) /\ p \in Nat /\ Len(input.bytes) \in Nat /\ Len(wire) \in Nat
  BY <1>1, BufferTyped
<1>4. p + Len(input.bytes) <= Len(wire) /\ \A i \in 1 .. Len(input.bytes) : wire[p + i] = input.bytes[i]
  BY <1>1 DEF Buffered, At
<1>5. t \in Seq(Bytes) /\ Len(t) = count /\ \A i \in 1 .. count : t[i] = input.bytes[i]
  BY <1>3
<1> HIDE DEF p, t
<1>6. p + Len(t) <= Len(wire) /\ \A i \in 1 .. Len(t) : wire[p + i] = t[i]
  <2> DEFINE n == Len(input.bytes)
             w == Len(wire)
  <2>1. n \in Nat /\ w \in Nat /\ p \in Nat /\ p + n <= w /\ count \in 0 .. n /\ Len(t) = count
    BY <1>3, <1>4, <1>5
  <2> HIDE DEF n, w
  <2>2. p + Len(t) <= w /\ \A i \in 1 .. Len(t) : i \in 1 .. n
    BY <2>1
  <2>3. ASSUME NEW i \in 1 .. Len(t) PROVE wire[p + i] = t[i]
    BY <1>4, <1>5, <2>1, <2>2 DEF n
  <2> QED BY <2>2, <2>3 DEF w
<1> QED BY <1>2, <1>3, <1>5, <1>6 DEF At, p, t

LEMMA BodyInWire ==
  ASSUME IInv, ProxyInv, side = "response", NEW k \in 0 .. Len(messages) - 1
  PROVE  /\ Answer(k) \in Messages /\ BodyAt(k) \in Nat /\ At(wire, BodyAt(k), Answer(k).body)
         /\ Answer(k).body \in Seq(Bytes) /\ Answer(k).body \in Seq(STRING) /\ Len(Answer(k).body) \in Nat
         /\ wire \in Seq(Bytes)
         /\ StartOf(k) + Len(Encoded(Answer(k))) = BodyAt(k) + Len(Answer(k).body)
<1> DEFINE m == Answer(k)
           e == Encoded(m)
           h == HeadBytes(m)
           s == StartOf(k)
           l == Len(m.body)
<1>1. Streaming /\ m \in Messages /\ k \in 0 .. Len(messages)
  BY ProxyFacts
<1>2. s \in Nat /\ At(wire, s, e) /\ wire \in Seq(Bytes)
  BY <1>1, Starts, BufferTyped DEF ProxyInv, Answer
<1>3. /\ e \in Seq(Bytes) /\ h \in Nat /\ Len(e) = h + l /\ At(e, h, m.body)
      /\ m.body \in Seq(STRING) /\ m.body \in Seq(Bytes) /\ l \in Nat
  BY <1>1, HeadAt, LinesOf, TextIsBytes
<1> HIDE DEF e, h, s, l, m
<1>4. At(wire, s + h, m.body)
  BY <1>2, <1>3, AtWithin
<1>5. s + Len(e) = (s + h) + l /\ s + h \in Nat
  BY <1>2, <1>3
<1> QED BY <1>1, <1>2, <1>3, <1>4, <1>5 DEF e, h, s, l, m, BodyAt

LEMMA FixedBodyPlaces ==
  ASSUME IInv, ProxyInv, side = "response", ParseFixedBody, UNCHANGED <<parser, loopVars>>
  PROVE  ProxyInv'
<1>1. Running /\ ResponseFrame /\ responseParser.state = "FixedBody" /\ UNCHANGED <<limits, messages, wire>>
  BY DEF ParseFixedBody, ResponseFrame, loopVars
<1>2. PICK k \in 0 .. Len(messages) : Skipped(k) /\ InAnswer(k)
  BY <1>1, RunningAnswer
<1> DEFINE m == Answer(k)
           n == Len(responseParser.body)
           L == Len(m.body)
           size == Len(input.bytes)
           b == BodyAt(k)
           count == Min({responseParser.expected_body_bytes - n, size})
           t == SubSeq(input.bytes, 1, count)
           filled == AppendBody(count)
<1>3. InFixedBody(k) /\ k < Len(messages)
  BY <1>1, <1>2, PlaceOfState
<1>4. /\ HasFraming(k, "fixed") /\ responseParser.expected_body_bytes = L
      /\ n < L /\ L <= limits.body /\ responseParser.body = SubSeq(m.body, 1, n) /\ Taken = b + n
  BY <1>3 DEF InFixedBody
<1>5. /\ Len(messages) \in Nat /\ limits.body \in Nat /\ responseParser \in ResponseParsers /\ size \in Nat
      /\ k \in 0 .. Len(messages) - 1
  BY ProxyFacts, <1>3
<1>6. /\ m \in Messages /\ b \in Nat /\ At(wire, b, m.body) /\ m.body \in Seq(Bytes) /\ L \in Nat
      /\ wire \in Seq(Bytes) /\ StartOf(k) + Len(Encoded(m)) = b + L /\ m.body \in Seq(STRING)
  BY <1>5, BodyInWire
<1>7. n \in Nat /\ input \in Buffers
  BY <1>5 DEF ResponseParsers, IInv, BufferInv
<1>8. count \in 0 .. size /\ count <= L - n /\ count \in Nat
  <2> DEFINE x == responseParser.expected_body_bytes - n
  <2>1. x = L - n /\ n \in Nat /\ L \in Nat /\ n < L /\ size \in Nat
    BY <1>4, <1>5, <1>6, <1>7
  <2> HIDE DEF x, n, L, size
  <2>2. x \in Int /\ x > 0 /\ size \in Int
    BY <2>1
  <2>3. /\ Min({x, size}) \in {x, size} /\ Min({x, size}) <= x /\ Min({x, size}) <= size
    BY <2>2, Extremes
  <2> DEFINE c == Min({x, size})
  <2>4. c \in {x, size} /\ c <= x /\ c <= size
    BY <2>3
  <2> HIDE DEF c
  <2>5. c \in 0 .. size /\ c <= L - n /\ c \in Nat
    BY <2>1, <2>2, <2>4
  <2> QED BY <2>5 DEF c, x
<1>9. /\ IF ~BodyFits(count) THEN ResponseFails("BodyTooLarge") /\ UNCHANGED input
         ELSE /\ input' = consume(input, count)
              /\ IF Len(filled.body) = filled.expected_body_bytes
                 THEN Becomes([filled EXCEPT !.state = "Complete"], "Complete")
                 ELSE Becomes(filled, "NeedMore")
  BY DEF ParseFixedBody, readableBytes
<1> HIDE DEF count
<1>10. /\ filled = [responseParser EXCEPT !.body = responseParser.body \o t]
  BY DEF AppendBody
<1>11. BodyFits(count)
  <2>1. count <= limits.body - n
    <3> DEFINE max == limits.body
    <3>1. count <= L - n /\ L <= max
      BY <1>4, <1>8
    <3>2. count \in Nat /\ L \in Nat /\ n \in Nat /\ max \in Nat
      BY <1>5, <1>6, <1>7, <1>8
    <3> HIDE DEF n, L, max
    <3>3. count <= max - n
      BY <3>1, <3>2
    <3> QED BY <3>3 DEF max, n
  <2> QED BY <2>1 DEF BodyFits
<1>12. /\ Buffered' /\ Taken' = Taken + count /\ t \in Seq(Bytes) /\ Len(t) = count /\ At(wire, Taken, t)
  BY <1>9, <1>11, <1>1, <1>8, TakesForBody
<1> HIDE DEF t
<1>13. At(m.body, 0 + n, t)
  <2> DEFINE body == m.body
  <2>1. At(wire, b + n, t) /\ At(wire, b, body) /\ 0 + n = n
    BY <1>4, <1>6, <1>7, <1>12
  <2>2. \A i \in 1 .. Len(t) : wire[(b + n) + i] = t[i]
    BY <2>1 DEF At
  <2>3. \A i \in 1 .. L : wire[b + i] = body[i]
    BY <2>1 DEF At
  <2> HIDE DEF n, b, body
  <2>4. n + count <= L
    BY <1>4, <1>6, <1>7, <1>8
  <2>5. \A i \in 1 .. count : n + i \in 1 .. L /\ b + (n + i) = (b + n) + i
    BY <1>6, <1>7, <1>8, <2>4
  <2>6. \A i \in 1 .. Len(t) : body[n + i] = t[i]
    BY <1>12, <2>2, <2>3, <2>5
  <2> QED BY <1>12, <2>1, <2>4, <2>6 DEF At, body
<1>14. responseParser.body \o t = SubSeq(m.body, 1, n + count) /\ Len(responseParser.body \o t) = n + count
  <2> DEFINE x == responseParser.body
             p == 0
             w == m.body
  <2>1. p \in Nat /\ p + n = n /\ p + 1 = 1 /\ p + n + count = n + count
    BY <1>7, <1>8
  <2>2. At(w, p + n, t) /\ w \in Seq(Bytes)
    BY <1>6, <1>13
  <2>6. x = SubSeq(w, 1, n)
    BY <1>4
  <2> HIDE DEF n, p, w, x
  <2>7. x = SubSeq(w, p + 1, p + n)
    BY <2>1, <2>6
  <2>8. n \in Nat /\ t \in Seq(Bytes) /\ p \in Nat
    BY <1>7, <1>12, <2>1
  <2>9. Piece(w, p, n, x)
    BY <2>7 DEF Piece
  <2> DEFINE l == n + Len(t)
             q == p + n
  <2>10. l = n + Len(t) /\ q = p + n /\ At(w, q, t)
    BY <2>2
  <2> HIDE DEF l, q
  <2>11. Piece(w, p, l, x \o t)
    BY <2>2, <2>8, <2>9, <2>10, PieceGrows
  <2>3. x \o t = SubSeq(w, p + 1, p + n + Len(t))
    <3>1. p + l = p + n + Len(t)
      BY <1>12, <2>8, <2>10
    <3> QED BY <2>11, <3>1 DEF Piece
  <2>4. Len(x) = n /\ x \in Seq(STRING)
    BY <1>5 DEF n, x, ResponseParsers
  <2>5. Len(x \o t) = n + count
    BY <2>4, TextIsBytes, <1>12, AtConcat
  <2> QED BY <1>12, <2>1, <2>3, <2>5 DEF x, w
<1> DEFINE grown == responseParser.body \o t
<1>15. /\ input' = consume(input, count)
       /\ IF n + count = L
          THEN responseParser' = [filled EXCEPT !.state = "Complete"] /\ result' = "Complete"
          ELSE responseParser' = filled /\ result' = "NeedMore"
  <2>1. filled.body = grown /\ filled.expected_body_bytes = L
    BY <1>4, <1>5, <1>10 DEF ResponseParsers
  <2>2. Len(filled.body) = n + count
    BY <1>14, <2>1
  <2> HIDE DEF filled
  <2> QED BY <1>9, <1>11, <2>1, <2>2 DEF Becomes
<1>16. Meaning(m.line) # "s100" /\ ResponseFault(m) = "none" /\ Framing(m) = "fixed"
       /\ responseParser.eof_delimited = FALSE
  BY <1>4, <1>5 DEF HasFraming, ResponseParsers
<1>17. CASE n + count = L
  <2>1. /\ responseParser'.state = "Complete" /\ result' = "Complete" /\ responseParser'.body = grown
        /\ ~responseParser'.eof_delimited /\ responseParser'.head_request = responseParser.head_request
    <3>1. responseParser' = [filled EXCEPT !.state = "Complete"] /\ result' = "Complete"
      BY <1>15, <1>17
    <3> QED BY <1>5, <1>10, <1>16, <3>1 DEF ResponseParsers
  <2>2. grown = m.body
    BY <1>6, SubSeqFull, <1>14, <1>17
  <2>3. Taken' = StartOf(k) + Len(Encoded(m))
    <3> DEFINE y == Taken
    <3>1. Taken' = y + count /\ y = b + n
      BY <1>4, <1>12
    <3> HIDE DEF y, b, n, L
    <3>2. Taken' = b + L
      BY <1>6, <1>7, <1>8, <1>17, <3>1
    <3> QED BY <1>6, <3>2
  <2> QED BY <1>1, <1>2, <1>5, <1>12, <1>16, <2>1, <2>2, <2>3, AnswerEnds
<1>18. CASE n + count # L
  <2>1. /\ responseParser'.state = "FixedBody" /\ result' = "NeedMore" /\ responseParser'.body = grown
        /\ responseParser'.expected_body_bytes = L
        /\ responseParser'.eof_delimited = responseParser.eof_delimited
        /\ responseParser'.head_request = responseParser.head_request
    BY <1>1, <1>4, <1>5, <1>10, <1>15, <1>18, ZenonT(30) DEF ResponseParsers
  <2>2. (Answer(k))' = m /\ (BodyAt(k))' = b /\ HasFraming(k, "fixed")'
    BY <1>1, <1>4, <2>1, AnswerSteady, FramingSteady
  <2>3. Len(responseParser'.body) = n + count /\ n + count < L
    <3>1. Len(grown) = n + count
      BY <1>14
    <3>2. n + count < L
      <4> HIDE DEF n, L
      <4> QED BY <1>4, <1>6, <1>7, <1>8, <1>18
    <3> QED BY <2>1, <3>1, <3>2
  <2>4. Taken' = b + (n + count)
    <3> DEFINE y == Taken
    <3>1. Taken' = y + count /\ y = b + n
      BY <1>4, <1>12
    <3> HIDE DEF y, b, n
    <3> QED BY <1>6, <1>7, <1>8, <3>1
  <2>5. InFixedBody(k)'
    <3>1. Undecided'
      BY <2>1 DEF Undecided
    <3>2. responseParser'.body = SubSeq(m.body, 1, Len(responseParser'.body))
      BY <1>14, <2>1, <2>3
    <3> HIDE DEF m, b, n, grown
    <3>3. Len(responseParser'.body) < Len(m.body) /\ Len(m.body) <= limits'.body
      BY <1>1, <1>4, <2>3 DEF m
    <3>4. responseParser'.expected_body_bytes = Len(m.body)
      BY <2>1 DEF m
    <3> QED BY <1>1, <1>4, <2>1, <2>2, <2>3, <2>4, <3>1, <3>2, <3>3, <3>4 DEF InFixedBody, m
  <2>6. InAnswer(k)'
    BY <2>5 DEF InAnswer
  <2> QED BY <1>1, <1>2, <1>12, <2>1, <2>6, AnswerTurn
<1> QED BY <1>17, <1>18

LEMMA EofBodyPlaces ==
  ASSUME IInv, ProxyInv, side = "response", ParseEofBody, UNCHANGED <<parser, loopVars>>
  PROVE  ProxyInv'
<1>1. Running /\ ResponseFrame /\ responseParser.state = "EofBody" /\ UNCHANGED <<limits, messages, wire>>
  BY DEF ParseEofBody, ResponseFrame, loopVars
<1>2. PICK k \in 0 .. Len(messages) : Skipped(k) /\ InAnswer(k)
  BY <1>1, RunningAnswer
<1> DEFINE m == Answer(k)
           x == responseParser.body
           n == Len(x)
           size == Len(input.bytes)
           b == BodyAt(k)
           t == SubSeq(input.bytes, 1, size)
           grown == x \o t
           p == Taken
           filled == AppendBody(size)
<1>3. InEofBody(k) /\ k < Len(messages)
  BY <1>1, <1>2, PlaceOfState
<1>4. /\ HasFraming(k, "eof") /\ p = b + n /\ n <= limits.body /\ x = SubSeq(wire, b + 1, p)
  BY <1>3 DEF InEofBody
<1>5. /\ Len(messages) \in Nat /\ limits.body \in Nat /\ responseParser \in ResponseParsers /\ size \in Nat
      /\ k \in 0 .. Len(messages) - 1 /\ p \in Nat /\ sent = p + size
  BY ProxyFacts, <1>3
<1>6. b \in Nat /\ wire \in Seq(Bytes)
  BY <1>5, BodyInWire
<1>7. x \in Seq(STRING) /\ n \in Nat
  BY <1>5 DEF ResponseParsers
<1>8. Meaning(m.line) # "s100" /\ ResponseFault(m) = "none" /\ Framing(m) = "eof"
  BY <1>4 DEF HasFraming
<1>9. IF ~(size <= limits.body - n) THEN ResponseFails("BodyTooLarge") /\ input' = input
      ELSE input' = consume(input, size) /\ responseParser' = filled /\ result' = "NeedMore"
  BY DEF ParseEofBody, readableBytes, BodyFits, Becomes
<1>10. filled = [responseParser EXCEPT !.body = grown]
  BY DEF AppendBody
<1>11. CASE ~(size <= limits.body - n)
  <2>1. ResponseFails("BodyTooLarge") /\ input' = input
    BY <1>9, <1>11
  <2>2. sent - b > limits.body
    <3> HIDE DEF size, n, b, p
    <3> QED BY <1>4, <1>5, <1>6, <1>7, <1>11
  <2>3. FinalOwnFault("BodyTooLarge")
    BY <1>2, <1>5, <1>8, <2>2, Verdict DEF FinalOwnFault
  <2>4. "BodyTooLarge" \in ResponseErrors \ {"PrematureEof"}
    BY DEF ResponseErrors
  <2>5. Buffered'
    BY <1>1, <2>1, SameBytes DEF ProxyInv, ResponseFrame
  <2> QED BY <1>1, <2>1, <2>3, <2>4, <2>5, AnswerRefused
<1>12. CASE size <= limits.body - n
  <2>1. input' = consume(input, size) /\ responseParser' = filled /\ result' = "NeedMore"
    BY <1>9, <1>12
  <2>2. size \in 0 .. Len(input.bytes)
    BY <1>5
  <2>3. Buffered' /\ Taken' = p + size /\ t \in Seq(Bytes) /\ Len(t) = size /\ At(wire, p, t)
    BY <1>1, <2>1, <2>2, TakesForBody
  <2>4. responseParser'.body = grown /\ responseParser'.state = "EofBody"
        /\ responseParser'.head_request = responseParser.head_request
        /\ responseParser'.eof_delimited = responseParser.eof_delimited
    BY <1>1, <1>5, <1>10, <2>1 DEF ResponseParsers
  <2> DEFINE l == n + Len(t)
  <2>5. Piece(wire, b, n, x)
    BY <1>4 DEF Piece
  <2>6. p = b + n /\ l = n + Len(t) /\ l = n + size
    BY <1>4, <2>3
  <2>7. Len(grown) = l
    <3>1. x \in Seq(Bytes)
      BY <1>7, TextIsBytes
    <3> HIDE DEF x, t
    <3> QED BY <2>3, <3>1, AtConcat DEF n
  <2> HIDE DEF l, p, b, t, n, x
  <2>8. Piece(wire, b, l, grown)
    BY <1>6, <1>7, <2>3, <2>5, <2>6, PieceGrows
  <2>9. Taken' = b + l
    <3>1. Taken' = p + size /\ p = b + n /\ l = n + size
      BY <2>3, <2>6
    <3>2. size \in Nat /\ n \in Nat /\ b \in Nat
      BY <1>5, <1>6, <1>7
    <3> HIDE DEF size
    <3> QED BY <3>1, <3>2
  <2>10. l <= limits.body
    BY <1>5, <1>7, <1>12, <2>6, SMTT(30)
  <2>11. InEofBody(k)'
    <3>1. Undecided'
      BY <2>1 DEF Undecided
    <3>2. (BodyAt(k))' = b /\ HasFraming(k, "eof")'
      BY <1>1, <1>4, <2>4, AnswerSteady, FramingSteady DEF b
    <3>3. grown = SubSeq(wire, b + 1, Taken')
      BY <2>8, <2>9 DEF Piece
    <3>4. limits' = limits /\ wire' = wire
      BY <1>1
    <3> HIDE DEF grown
    <3> QED BY <2>4, <2>7, <2>9, <2>10, <3>1, <3>2, <3>3, <3>4 DEF InEofBody
  <2>12. InAnswer(k)'
    BY <2>11 DEF InAnswer
  <2> QED BY <1>1, <1>2, <2>3, <2>4, <2>12, AnswerTurn
<1> QED BY <1>11, <1>12

-----------------------------------------------------------------------------
(* Chunked bodies *)

LEMMA LeastIs ==
  ASSUME NEW T, T \subseteq Nat, NEW x \in T, \A y \in T : x <= y
  PROVE  Min(T) = x
<1> DEFINE y == Min(T)
<1>1. y \in T /\ y <= x
  BY SmallestOf
<1> HIDE DEF y
<1>2. y \in Nat /\ x \in Nat /\ x <= y
  BY <1>1
<1>3. y = x
  BY <1>1, <1>2
<1> QED BY <1>3 DEF y

\* The first bad chunk is what a chunked body is refused for, or the first bad trailer.
LEMMA ChunkFaultIs ==
  ASSUME NEW m \in Messages
  PROVE  /\ \A j \in 0 .. Len(m.chunks) - 1 :
              ChunkFaultAt(m, j + 1) # "none" /\ (\A i \in 1 .. j : ChunkFaultAt(m, i) = "none")
                => ChunkFault(m) = ChunkFaultAt(m, j + 1)
         /\ (\A i \in 1 .. Len(m.chunks) : ChunkFaultAt(m, i) = "none") =>
              /\ \A t \in 0 .. Len(m.trailers) :
                   TrailerFaultAt(m, t + 1) # "none" /\ (\A i \in 1 .. t : TrailerFaultAt(m, i) = "none")
                     => ChunkFault(m) = TrailerFaultAt(m, t + 1)
              /\ (\A i \in 1 .. Len(m.trailers) + 1 : TrailerFaultAt(m, i) = "none")
                   => ChunkFault(m) = "none"
<1> DEFINE n == Len(m.chunks)
           T == Len(m.trailers)
           C(i) == ChunkFaultAt(m, i)
           D(i) == TrailerFaultAt(m, i)
           X == {i \in 1 .. n : C(i) # "none"}
           Y == {i \in 1 .. T + 1 : D(i) # "none"}
<1>1. n \in Nat /\ T \in Nat /\ DOMAIN m.chunks = 1 .. n
  BY PartsOf
<1>2. ChunkFault(m) = IF X # {} THEN C(Min(X)) ELSE IF Y # {} THEN D(Min(Y)) ELSE "none"
  BY <1>1 DEF ChunkFault
<1> HIDE DEF n, T, C, D
<1>3. ASSUME NEW j \in 0 .. n - 1, C(j + 1) # "none", \A i \in 1 .. j : C(i) = "none"
      PROVE  ChunkFault(m) = C(j + 1)
  <2> DEFINE x == j + 1
  <2>1. x \in X /\ X \subseteq Nat
    BY <1>1, <1>3
  <2>2. \A y \in X : x <= y
    BY <1>1, <1>3
  <2> HIDE DEF X, x
  <2>3. Min(X) = x
    BY <2>1, <2>2, LeastIs
  <2> QED BY <1>2, <2>1, <2>3 DEF x
<1>4. ASSUME \A i \in 1 .. n : C(i) = "none"
      PROVE  /\ \A t \in 0 .. T : D(t + 1) # "none" /\ (\A i \in 1 .. t : D(i) = "none")
                                    => ChunkFault(m) = D(t + 1)
             /\ (\A i \in 1 .. T + 1 : D(i) = "none") => ChunkFault(m) = "none"
  <2>1. ChunkFault(m) = IF Y # {} THEN D(Min(Y)) ELSE "none"
    <3>1. X = {}
      BY <1>4
    <3> HIDE DEF X, Y
    <3> QED BY <1>2, <3>1
  <2>2. ASSUME NEW t \in 0 .. T, D(t + 1) # "none", \A i \in 1 .. t : D(i) = "none"
        PROVE  ChunkFault(m) = D(t + 1)
    <3> DEFINE x == t + 1
    <3>1. x \in Y /\ Y \subseteq Nat
      BY <1>1, <2>2
    <3>2. \A y \in Y : x <= y
      BY <1>1, <2>2
    <3> HIDE DEF Y, x
    <3>3. Min(Y) = x
      BY <3>1, <3>2, LeastIs
    <3> QED BY <2>1, <3>1, <3>3 DEF x
  <2>3. (\A i \in 1 .. T + 1 : D(i) = "none") => ChunkFault(m) = "none"
    BY <2>1
  <2> QED BY <2>2, <2>3
<1> QED BY <1>3, <1>4 DEF n, T, C, D

\* A body that is read in chunks is made of chunks.
LEMMA ChunkedAnswer ==
  ASSUME IInv, ProxyInv, side = "response", NEW k \in 0 .. Len(messages) - 1, HasFraming(k, "chunked")
  PROVE  InChunks(Answer(k))
<1> DEFINE m == Answer(k)
           head == HeadFault(m, limits.status_line, limits.header_bytes, Statuses, ResponseHeaderNames)
           at(names) == {i \in DOMAIN m.headers : Meaning(m.headers[i]) \in names}
<1>1. /\ Meaning(m.line) # "s100" /\ ResponseFault(m) = "none" /\ Framing(m) = "chunked"
  BY DEF HasFraming
<1>2. /\ m \in Messages /\ limits \in ClientLimits /\ Len(m.headers) \in Nat
      /\ responseParser.head_request \/ IsResponse(m)
  BY ProxyFacts
<1>3. head \notin {"HeaderTooLarge", "malformed"}
  <2> HIDE DEF head
  <2> QED BY <1>1 DEF ResponseFault, head
<1>4. Meaning(m.line) \in Statuses
  <2>1. 0 \in 0 .. Len(m.headers) + 1 /\ \A i \in 0 .. 0 - 1 : FALSE
    BY <1>2
  <2>2. StatusFault(m, 0) # "none" => head = StatusFault(m, 0)
    BY <1>2, <2>1, FirstFault DEF StatusFault
  <2>3. StatusFault(m, 0) \in {"HeaderTooLarge", "malformed", "none"}
    BY <1>2, <2>1, StatusFaultIs
  <2> HIDE DEF head
  <2>4. StatusFault(m, 0) = "none"
    BY <1>3, <2>2, <2>3
  <2>5. ~StatusMalformed(m, 0)
    BY <1>2, <2>1, <2>4, StatusFaultIs
  <2> QED BY <2>5 DEF StatusMalformed
<1>5. /\ ~(Count(m, Codings) > 0 /\ Count(m, LengthNames) > 0)
      /\ ~(Count(m, Codings) > 1) /\ ~(Count(m, {"gzip"}) > 0) /\ Meaning(m.line) # "s101"
  <2> HIDE DEF head
  <2> DEFINE a == Count(m, Codings) > 0 /\ Count(m, LengthNames) > 0
             b == Count(m, Codings) > 1 \/ Count(m, {"gzip"}) > 0 \/ Meaning(m.line) = "s101"
             rest == IF \/ responseParser.head_request \/ Meaning(m.line) \in {"s100", "s204"}
                        \/ Count(m, LengthNames) = 0 THEN "none"
                     ELSE IF Count(m, LengthNames) > 1 \/ Length(m) = "badlength" THEN "BadResponse"
                     ELSE IF Number[Length(m)] > limits.body THEN "BodyTooLarge" ELSE "none"
  <2>1. ResponseFault(m) = IF a THEN "BadResponse" ELSE IF b THEN "UnsupportedTransferEncoding" ELSE rest
    BY <1>3 DEF ResponseFault, head
  <2> HIDE DEF a, b, rest
  <2>2. ~a /\ ~b
    BY <1>1, <2>1
  <2> QED BY <2>2 DEF a, b
<1>6. /\ ~responseParser.head_request /\ Meaning(m.line) # "s204" /\ Count(m, {"chunked"}) > 0
  BY <1>1 DEF Framing
<1>7. Meaning(m.line) = "s200"
  BY <1>1, <1>4, <1>5, <1>6 DEF Statuses
<1>8. \A names : Count(m, names) = Cardinality(at(names))
  BY DEF Count
<1>9. \A names : IsFiniteSet(at(names))
  <2>1. DOMAIN m.headers = 1 .. Len(m.headers)
    BY <1>2, LinesOf
  <2>2. IsFiniteSet(1 .. Len(m.headers))
    <3> DEFINE N == Len(m.headers)
    <3>1. N \in Int /\ 1 \in Int
      BY <1>2
    <3> HIDE DEF N
    <3>2. IsFiniteSet(1 .. N)
      BY <3>1, FS_Interval
    <3> QED BY <3>2 DEF N
  <2>3. \A names : at(names) \subseteq 1 .. Len(m.headers)
    BY <2>1
  <2> QED BY <2>2, <2>3, FS_Subset
<1>10. \A names : Count(m, names) \in Nat /\ (Count(m, names) = 0 <=> at(names) = {})
  <2>1. ASSUME NEW names PROVE Count(m, names) \in Nat /\ (Count(m, names) = 0 <=> at(names) = {})
    <3> DEFINE T == at(names)
    <3>1. IsFiniteSet(T) /\ Count(m, names) = Cardinality(T)
      BY <1>8, <1>9
    <3> HIDE DEF T
    <3>2. Count(m, names) \in Nat /\ (Count(m, names) = 0 <=> T = {})
      BY <3>1, FS_CardinalityType, FS_EmptySet
    <3> QED BY <3>2 DEF T
  <2> QED BY <2>1
<1>11. at(Codings) = {} => at({"chunked"}) = {}
  BY DEF Codings
<1>12. Count(m, {"chunked"}) # 0
  BY <1>10, <1>6
<1>13. Count(m, Codings) # 0
  BY <1>10, <1>11, <1>12
<1> HIDE DEF at, m
<1> DEFINE cs == Count(m, Codings)
           ls == Count(m, LengthNames)
           gs == Count(m, {"gzip"})
<1>14. cs \in Nat /\ ls \in Nat /\ gs \in Nat /\ cs # 0 /\ ~(cs > 0 /\ ls > 0) /\ ~(cs > 1) /\ ~(gs > 0)
  BY <1>5, <1>10, <1>13
<1>15. cs = 1 /\ ls = 0 /\ gs = 0
  <2> HIDE DEF cs, ls, gs
  <2> QED BY <1>14
<1>16. IsResponse(m)
  BY <1>2, <1>6
<1> QED BY <1>7, <1>15, <1>16 DEF IsResponse, m

\* Where the lines and the data of a chunked body lie in what the upstream sends.
LastEnds(k) == ChunkEnds(Answer(k), Len(Answer(k).chunks))
TrailerLine(m, t) == (m.trailers \o <<<<>>>>)[t + 1]

LEMMA ChunkedFacts ==
  ASSUME IInv, ProxyInv, side = "response", NEW k \in 0 .. Len(messages) - 1, HasFraming(k, "chunked")
  PROVE  /\ Answer(k) \in Messages /\ InChunks(Answer(k))
         /\ BodyAt(k) \in Nat /\ At(wire, BodyAt(k), Answer(k).body) /\ wire \in Seq(Bytes)
         /\ Answer(k).body \in Seq(Bytes) /\ LastEnds(k) \in Nat
         /\ Len(Answer(k).chunks) \in Nat /\ Len(Answer(k).trailers) \in Nat
         /\ StartOf(k) + Len(Encoded(Answer(k)))
              = BodyAt(k) + (LastEnds(k) + 3 + TrailerEnds(Answer(k), Len(Answer(k).trailers) + 1))
<1> DEFINE m == Answer(k)
<1>1. InChunks(m)
  BY ChunkedAnswer
<1>2. /\ m \in Messages /\ BodyAt(k) \in Nat /\ At(wire, BodyAt(k), m.body) /\ m.body \in Seq(Bytes)
      /\ wire \in Seq(Bytes) /\ StartOf(k) + Len(Encoded(m)) = BodyAt(k) + Len(m.body)
  BY BodyInWire
<1>3. m.body = ChunkedBody(m.chunks, m.trailers)
  BY <1>1 DEF InChunks
<1> HIDE DEF m
<1>4. /\ ChunkEnds(m, Len(m.chunks)) \in Nat
      /\ Len(m.body) = ChunkEnds(m, Len(m.chunks)) + 3 + TrailerEnds(m, Len(m.trailers) + 1)
  BY <1>2, <1>3, ChunkedAt
<1>5. Len(m.chunks) \in Nat /\ Len(m.trailers) \in Nat
  BY <1>2, PartsOf
<1> QED BY <1>1, <1>2, <1>4, <1>5 DEF m, LastEnds

LEMMA SizeLineAt ==
  ASSUME IInv, ProxyInv, side = "response", NEW k \in 0 .. Len(messages) - 1, HasFraming(k, "chunked"),
         NEW j \in 0 .. Len(Answer(k).chunks)
  PROVE  LET m == Answer(k)
             l == SizeLine(m, j)
         IN  /\ ChunkEnds(m, j) \in Nat /\ l \in Seq(Bytes) /\ Len(l) \in Nat /\ IsLine(l)
             /\ At(wire, BodyAt(k) + ChunkEnds(m, j), l \o CRLF)
             /\ j < Len(m.chunks) => l = m.chunks[j + 1].size
             /\ j = Len(m.chunks) => Meaning(l) = "n0" /\ Len(l) = 1
<1> DEFINE m == Answer(k)
           n == Len(m.chunks)
           l == SizeLine(m, j)
           x == ChunkEnds(m, j)
           zero == <<"n0">>
<1>1. /\ m \in Messages /\ InChunks(m) /\ BodyAt(k) \in Nat /\ At(wire, BodyAt(k), m.body)
      /\ wire \in Seq(Bytes) /\ m.body \in Seq(Bytes) /\ n \in Nat
  BY ChunkedFacts
<1>2. m.body = ChunkedBody(m.chunks, m.trailers) /\ DOMAIN m.chunks = 1 .. n
  BY <1>1, PartsOf DEF InChunks
<1>3. l \in Seq(Bytes) /\ IsLine(l) /\ x \in Nat /\ At(m.body, x, l \o CRLF)
  <2>1. CASE j < n
    <3>1. l = m.chunks[j + 1].size /\ j + 1 \in 1 .. n /\ j \in 0 .. n - 1
      BY <1>1, <2>1 DEF SizeLine
    <3>2. l \in Seq(Bytes)
      BY <1>1, <3>1, PartsOf
    <3>3. IsLine(l)
      BY <1>1, <1>2, <3>1 DEF InChunks, IsChunk
    <3> DEFINE c == ChunkBytes(m.chunks[j + 1])
    <3>4. x \in Nat /\ At(m.body, x, c)
      BY <1>1, <1>2, <3>1, ChunkedAt
    <3>5. c \in Seq(Bytes) /\ At(c, 0, l \o CRLF)
      BY <1>1, <3>1, ChunkParts
    <3>6. l \o CRLF \in Seq(Bytes)
      BY <3>2, WithEnd
    <3> HIDE DEF x, c, l, m
    <3>7. x = x + 0
      BY <3>4
    <3>8. At(m.body, x, l \o CRLF)
      BY <1>1, <3>4, <3>5, <3>6, <3>7, Shift
    <3> QED BY <3>2, <3>3, <3>4, <3>8
  <2>2. CASE ~(j < n)
    <3>1. l = zero /\ j = n
      BY <1>1, <2>2 DEF SizeLine
    <3>2. zero \in Seq(Bytes) /\ IsLine(zero)
      BY DEF Bytes, IsLine
    <3>3. ChunkEnds(m, n) \in Nat /\ At(m.body, ChunkEnds(m, n), zero \o CRLF)
      BY <1>1, <1>2, ChunkedAt
    <3> QED BY <3>1, <3>2, <3>3
  <2> QED BY <2>1, <2>2
<1>4. l \in Seq(Bytes) /\ Len(l) \in Nat /\ l \o CRLF \in Seq(Bytes)
  <2> HIDE DEF l
  <2> QED BY <1>3, WithEnd
<1>5. At(wire, BodyAt(k) + x, l \o CRLF)
  <2> DEFINE b == BodyAt(k)
             r == b + x
             v == l \o CRLF
             body == m.body
  <2>1. /\ b \in Nat /\ r = b + x /\ At(wire, b, body) /\ At(body, x, v) /\ v \in Seq(Bytes) /\ x \in Nat
        /\ body \in Seq(Bytes)
    BY <1>1, <1>3, <1>4
  <2> HIDE DEF b, r, x, v, body
  <2>2. At(wire, r, v)
    BY <1>1, <2>1, Shift
  <2> QED BY <2>2 DEF b, r, v
<1>6. (j < n => l = m.chunks[j + 1].size) /\ (j = n => Meaning(l) = "n0" /\ Len(l) = 1)
  BY <1>1, SMTT(30) DEF Meaning, SizeLine
<1> QED BY <1>3, <1>4, <1>5, <1>6

LEMMA ChunkAt ==
  ASSUME IInv, ProxyInv, side = "response", NEW k \in 0 .. Len(messages) - 1, HasFraming(k, "chunked"),
         NEW j \in 0 .. Len(Answer(k).chunks) - 1, NEW p,
         p = BodyAt(k) + ChunkEnds(Answer(k), j) + Len(SizeLine(Answer(k), j)) + 2
  PROVE  LET m == Answer(k)
             c == m.chunks[j + 1]
         IN  /\ p \in Nat /\ IsChunk(c) /\ c.data \in Seq(Bytes) /\ c.end \in Seq(Bytes)
             /\ c.data \in Seq(STRING) /\ c.end \in Seq(STRING) /\ Len(c.data) \in Nat /\ Len(c.end) \in Nat
             /\ BodyAt(k) + ChunkEnds(m, j + 1) = p + Len(c.data) + Len(c.end)
             /\ At(wire, p, c.data) /\ At(wire, p + Len(c.data), c.end)
             /\ SizeLine(m, j) = c.size
<1> DEFINE m == Answer(k)
           n == Len(m.chunks)
           c == m.chunks[j + 1]
           all == ChunkBytes(c)
           b == BodyAt(k)
           x == ChunkEnds(m, j)
           s == Len(c.size)
           d == Len(c.data)
           e == Len(c.end)
           body == m.body
<1>1. /\ m \in Messages /\ InChunks(m) /\ b \in Nat /\ At(wire, b, body)
      /\ wire \in Seq(Bytes) /\ body \in Seq(Bytes) /\ n \in Nat
  BY ChunkedFacts
<1>2. body = ChunkedBody(m.chunks, m.trailers) /\ DOMAIN m.chunks = 1 .. n /\ j + 1 \in 1 .. n
  BY <1>1, PartsOf DEF InChunks
<1>3. IsChunk(c)
  BY <1>1, <1>2 DEF InChunks
<1>4. /\ c.data \in Seq(Bytes) /\ c.end \in Seq(Bytes) /\ s \in Nat /\ d \in Nat /\ e \in Nat
      /\ c.data \in Seq(STRING) /\ c.end \in Seq(STRING)
  BY <1>1, <1>2, PartsOf
<1>5. x \in Nat /\ ChunkEnds(m, j + 1) = x + Len(all) /\ At(body, x, all)
  BY <1>1, <1>2, ChunkedAt
<1>6. all \in Seq(Bytes) /\ Len(all) = s + 2 + d + e /\ At(all, s + 2, c.data) /\ At(all, s + 2 + d, c.end)
  BY <1>1, <1>2, ChunkParts
<1>7. SizeLine(m, j) = c.size
  BY <1>1, <1>2, SMTT(30) DEF SizeLine
<1>8. p = b + x + s + 2
  BY <1>7
<1> DEFINE u == c.data
           v == c.end
           p1 == x + (s + 2)
           p2 == x + (s + 2 + d)
           q == p + d
           y == ChunkEnds(m, j + 1)
<1>9. At(all, s + 2, u) /\ At(all, s + 2 + d, v) /\ u \in Seq(Bytes) /\ v \in Seq(Bytes) /\ y = x + Len(all)
  BY <1>4, <1>5, <1>6
<1> HIDE DEF u, v, b, x, s, d, e, body, all, y
<1>10. s + 2 \in Nat /\ s + 2 + d \in Nat /\ p1 \in Nat /\ p2 \in Nat /\ p = b + p1 /\ q = b + p2
       /\ p \in Nat /\ b + y = p + d + e
  <2> DEFINE g == Len(all)
  <2>1. /\ b \in Nat /\ x \in Nat /\ s \in Nat /\ d \in Nat /\ e \in Nat
        /\ g = s + 2 + d + e /\ y = x + g /\ p = b + x + s + 2
    BY <1>1, <1>4, <1>5, <1>6, <1>8, <1>9
  <2> HIDE DEF g
  <2>2. s + 2 \in Nat /\ s + 2 + d \in Nat /\ p1 \in Nat /\ p2 \in Nat /\ p = b + p1 /\ q = b + p2 /\ p \in Nat
    BY <2>1, SMTT(30)
  <2>3. b + y = p + d + e
    BY <2>1, SMTT(30)
  <2> QED BY <2>2, <2>3
<1>11. At(wire, p, u)
  <2> DEFINE i == s + 2
             r == x + i
  <2>1. i \in Nat /\ At(all, i, u) /\ r = x + i /\ r \in Nat /\ p = b + r
    BY <1>9, <1>10
  <2> HIDE DEF i, r
  <2>2. At(body, r, u)
    BY <1>1, <1>5, <1>6, <1>9, <2>1, Shift
  <2> QED BY <1>1, <1>9, <2>1, <2>2, Shift
<1>12. At(wire, q, v)
  <2> DEFINE i == s + 2 + d
             r == x + i
  <2>1. i \in Nat /\ At(all, i, v) /\ r = x + i /\ r \in Nat /\ q = b + r
    BY <1>9, <1>10
  <2> HIDE DEF i, r, q
  <2>2. At(body, r, v)
    BY <1>1, <1>5, <1>6, <1>9, <2>1, Shift
  <2> QED BY <1>1, <1>9, <2>1, <2>2, Shift
<1> QED BY <1>3, <1>4, <1>7, <1>10, <1>11, <1>12 DEF u, v, b, s, d, e, y

LEMMA TrailerAt ==
  ASSUME IInv, ProxyInv, side = "response", NEW k \in 0 .. Len(messages) - 1, HasFraming(k, "chunked"),
         NEW t \in 0 .. Len(Answer(k).trailers)
  PROVE  LET m == Answer(k)
             l == TrailerLine(m, t)
         IN  /\ TrailerEnds(m, t) \in Nat /\ l \in Seq(STRING) /\ Len(l) \in Nat /\ IsLine(l)
             /\ TrailerEnds(m, 0) = 0
             /\ TrailerEnds(m, t + 1) = TrailerEnds(m, t) + Len(l) + 2
             /\ At(wire, BodyAt(k) + LastEnds(k) + 3 + TrailerEnds(m, t), l \o CRLF)
             /\ t < Len(m.trailers) => l = m.trailers[t + 1] /\ l # <<>>
             /\ t = Len(m.trailers) => l = <<>>
<1> DEFINE m == Answer(k)
           n == Len(m.trailers)
           l == TrailerLine(m, t)
           b == BodyAt(k)
           e == LastEnds(k)
           body == m.body
           x == TrailerEnds(m, t)
           y == TrailerEnds(m, t + 1)
<1>1. /\ m \in Messages /\ InChunks(m) /\ b \in Nat /\ At(wire, b, body)
      /\ wire \in Seq(Bytes) /\ body \in Seq(Bytes) /\ n \in Nat /\ e \in Nat
  BY ChunkedFacts
<1>2. body = ChunkedBody(m.chunks, m.trailers) /\ DOMAIN m.trailers = 1 .. n
  BY <1>1, PartsOf DEF InChunks
<1>3. /\ x \in Nat /\ y = x + Len(l) + 2 /\ At(body, e + 3 + x, l \o CRLF) /\ TrailerEnds(m, 0) = 0
  BY <1>1, <1>2, ChunkedAt DEF LastEnds, TrailerLine
<1>4. (t < n => l = m.trailers[t + 1]) /\ (t = n => l = <<>>)
  <2>1. t < n => t + 1 \in 1 .. n
    BY <1>1
  <2> QED BY <1>1, <2>1, PartsOf DEF TrailerLine
<1>5. t < n \/ t = n
  BY <1>1
<1>6. l \in Seq(STRING) /\ IsLine(l) /\ (t < n => l # <<>>)
  <2>1. CASE t < n
    <3>1. t + 1 \in 1 .. n /\ m.trailers \in Seq(Seq(STRING))
      BY <1>1, <2>1, PartsOf, SMTT(30)
    <3>2. m.trailers[t + 1] \in Seq(STRING)
      BY <3>1
    <3>3. IsLine(m.trailers[t + 1]) /\ m.trailers[t + 1] # <<>>
      BY <1>1, <1>2, <3>1 DEF InChunks, AreLines
    <3> QED BY <1>4, <2>1, <3>2, <3>3
  <2>2. CASE t = n
    <3>1. IsLine(<<>>) /\ <<>> \in Seq(STRING)
      BY DEF IsLine
    <3>2. ~(n < n)
      BY <1>1
    <3> QED BY <1>4, <2>2, <3>1, <3>2
  <2> QED BY <1>5, <2>1, <2>2
<1> DEFINE v == l \o CRLF
<1>7. v \in Seq(Bytes) /\ Len(l) \in Nat
  <2> HIDE DEF l
  <2>1. l \in Seq(Bytes)
    BY <1>6, TextIsBytes
  <2> QED BY <2>1, WithEnd
<1>8. At(wire, b + e + 3 + x, v)
  <2> DEFINE i == e + 3 + x
             r == b + e + 3 + x
  <2> HIDE DEF b, e, x, v, body
  <2>1. i \in Nat /\ r = b + i
    BY <1>1, <1>3
  <2>2. At(body, i, v)
    BY <1>3 DEF v, body
  <2> HIDE DEF i, r
  <2>3. At(wire, r, v)
    BY <1>1, <1>7, <2>1, <2>2, Shift
  <2> QED BY <2>3 DEF r
<1> QED BY <1>3, <1>4, <1>6, <1>7, <1>8

\* Where the parser is in a chunked body, and what comes there.
LEMMA BeforeSizeIn ==
  ASSUME IInv, ProxyInv, side = "response", Running, responseParser.state = "ChunkSize"
  PROVE  \E k \in 0 .. Len(messages) - 1 : \E j \in 0 .. Len(Answer(k).chunks) :
           /\ Skipped(k) /\ InAnswer(k) /\ HasFraming(k, "chunked") /\ BeforeSize(k, j)
           /\ HasLine => line_bytes = Len(SizeLine(Answer(k), j)) /\ Line = SizeLine(Answer(k), j)
           /\ ~HasLine => sent < Taken + Len(SizeLine(Answer(k), j)) + 2
<1>1. Buffered /\ \E k \in 0 .. Len(messages) : Skipped(k) /\ InAnswer(k)
  BY RunningAnswer
<1>2. PICK k \in 0 .. Len(messages) : Skipped(k) /\ InAnswer(k)
  BY <1>1
<1>3. k < Len(messages) /\ \E j \in 0 .. Len(Answer(k).chunks) : BeforeSize(k, j)
  BY <1>2, PlaceOfState
<1>4. PICK j \in 0 .. Len(Answer(k).chunks) : BeforeSize(k, j)
  BY <1>3
<1>5. k \in 0 .. Len(messages) - 1
  BY ProxyFacts, <1>3
<1>6. HasFraming(k, "chunked") /\ Taken = BodyAt(k) + ChunkEnds(Answer(k), j)
  BY <1>4 DEF BeforeSize, ChunksTaken
<1> DEFINE l == SizeLine(Answer(k), j)
           p == Taken
           n == Len(l)
<1>7. l \in Seq(Bytes) /\ IsLine(l) /\ At(wire, p, l \o CRLF) /\ n \in Nat
  BY <1>5, <1>6, SizeLineAt
<1>8. p \in Nat /\ Taken = p /\ sent \in Nat
  BY ProxyFacts
<1> HIDE DEF l, p
<1>9. (HasLine <=> sent >= p + n + 2) /\ (HasLine => line_bytes = n /\ Line = l)
  BY <1>1, <1>7, <1>8, ComesBytes
<1> HIDE DEF n
<1>10. ~(sent >= p + n + 2) => sent < p + n + 2
  BY <1>7, <1>8
<1> QED BY <1>2, <1>4, <1>5, <1>6, <1>9, <1>10 DEF l, p, n

LEMMA InTrailersIn ==
  ASSUME IInv, ProxyInv, side = "response", Running, responseParser.state = "Trailers"
  PROVE  \E k \in 0 .. Len(messages) - 1 : \E t \in 0 .. Len(Answer(k).trailers) :
           /\ Skipped(k) /\ InAnswer(k) /\ HasFraming(k, "chunked") /\ InTrailers(k, t)
           /\ HasLine => line_bytes = Len(TrailerLine(Answer(k), t)) /\ Line = TrailerLine(Answer(k), t)
           /\ ~HasLine => /\ Len(input.bytes) <= Len(TrailerLine(Answer(k), t)) + 1
                          /\ sent < BodyAt(k) + LastEnds(k) + 3 + TrailerEnds(Answer(k), t + 1)
<1>1. Buffered /\ \E k \in 0 .. Len(messages) : Skipped(k) /\ InAnswer(k)
  BY RunningAnswer
<1>2. PICK k \in 0 .. Len(messages) : Skipped(k) /\ InAnswer(k)
  BY <1>1
<1>3. k < Len(messages) /\ \E t \in 0 .. Len(Answer(k).trailers) : InTrailers(k, t)
  BY <1>2, PlaceOfState
<1>4. PICK t \in 0 .. Len(Answer(k).trailers) : InTrailers(k, t)
  BY <1>3
<1>5. k \in 0 .. Len(messages) - 1
  <2>1. Len(messages) \in Nat
    BY ProxyFacts
  <2> QED BY <1>3, <2>1
<1> DEFINE l == TrailerLine(Answer(k), t)
           p == Taken
           n == Len(l)
           b == BodyAt(k)
           e == LastEnds(k)
           x == TrailerEnds(Answer(k), t)
           y == TrailerEnds(Answer(k), t + 1)
<1>6. HasFraming(k, "chunked") /\ p = b + e + 3 + x
  BY <1>4 DEF InTrailers, ChunksTaken, LastEnds
<1>7. l \in Seq(STRING) /\ IsLine(l) /\ At(wire, p, l \o CRLF) /\ n \in Nat /\ x \in Nat /\ y = x + n + 2
  BY <1>5, <1>6, TrailerAt
<1>8. p \in Nat /\ Taken = p /\ sent \in Nat /\ b \in Nat /\ e \in Nat
  BY <1>5, <1>6, ProxyFacts, ChunkedFacts
<1> HIDE DEF l, p
<1>9. /\ (HasLine <=> sent >= p + n + 2) /\ (HasLine => line_bytes = n /\ Line = l)
      /\ (~HasLine => Len(input.bytes) <= n + 1)
  BY <1>1, <1>7, <1>8, ComesLine
<1> HIDE DEF n, b, e, x, y
<1>10. ~(sent >= p + n + 2) => sent < b + e + 3 + y
  BY <1>6, <1>7, <1>8
<1> QED BY <1>2, <1>4, <1>5, <1>6, <1>9, <1>10 DEF l, n, b, e, y

LEMMA ChunkVerdict ==
  ASSUME IInv, ProxyInv, side = "response", NEW k \in 0 .. Len(messages) - 1, Skipped(k),
         HasFraming(k, "chunked"), NEW e, ChunkFault(Answer(k)) = e
  PROVE  FinalOwnFault(e)
<1>1. Meaning(Answer(k).line) # "s100" /\ ResponseFault(Answer(k)) = "none" /\ Framing(Answer(k)) = "chunked"
  BY DEF HasFraming
<1>2. FinalFault = ChunkFault(Answer(k))
  BY <1>1, Verdict
<1> QED BY <1>2 DEF FinalOwnFault

LEMMA NoSizeLinePlaces ==
  ASSUME IInv, ProxyInv, side = "response", ParseNoStatusLine, responseParser.state = "ChunkSize",
         UNCHANGED <<parser, loopVars>>
  PROVE  ProxyInv'
<1>1. Running /\ ResponseFrame /\ ~HasLine /\ UNCHANGED input /\ responseParser' = responseParser
      /\ result' = "NeedMore"
  BY DEF ParseNoStatusLine, Becomes
<1>2. PICK k \in 0 .. Len(messages) - 1 : \E j \in 0 .. Len(Answer(k).chunks) :
           /\ Skipped(k) /\ InAnswer(k) /\ HasFraming(k, "chunked") /\ BeforeSize(k, j)
           /\ ~HasLine => sent < Taken + Len(SizeLine(Answer(k), j)) + 2
  BY <1>1, BeforeSizeIn
<1>3. PICK j \in 0 .. Len(Answer(k).chunks) :
           /\ Skipped(k) /\ BeforeSize(k, j)
           /\ ~HasLine => sent < Taken + Len(SizeLine(Answer(k), j)) + 2
  BY <1>2
<1>4. /\ UNCHANGED <<limits, messages, wire, responseParser>> /\ Taken' = Taken /\ Buffered' /\ sent' = sent
      /\ responseParser'.head_request = responseParser.head_request
  BY <1>1, AnswerStays
<1>5. BeforeSize(k, j)'
  BY <1>1, <1>3, <1>4, StillIn
<1>6. InAnswer(k)'
  BY <1>4, <1>5 DEF Answer, InAnswer
<1>7. k \in 0 .. Len(messages)
  BY ProxyFacts
<1> QED BY <1>1, <1>3, <1>4, <1>6, <1>7, AnswerTurn

LEMMA ChunkedSteady ==
  ASSUME messages' = messages, NEW k
  PROVE  /\ (Answer(k))' = Answer(k) /\ (HeadBytes(Answer(k)))' = HeadBytes(Answer(k))
         /\ Len(Answer(k).chunks)' = Len(Answer(k).chunks)
         /\ Len(Answer(k).trailers)' = Len(Answer(k).trailers)
         /\ \A j : /\ (ChunkEnds(Answer(k), j))' = ChunkEnds(Answer(k), j)
                   /\ (TrailerEnds(Answer(k), j))' = TrailerEnds(Answer(k), j)
                   /\ (SizeLine(Answer(k), j))' = SizeLine(Answer(k), j)
                   /\ (DataUpTo(Answer(k), j))' = DataUpTo(Answer(k), j)
<1>1. (Answer(k))' = Answer(k)
  BY DEF Answer
<1>2. (HeadBytes(Answer(k)))' = HeadBytes(Answer(k))
  BY <1>1
<1>3. \A j : (ChunkEnds(Answer(k), j))' = ChunkEnds(Answer(k), j)
  BY <1>1 DEF ChunkEnds, ChunksOf
<1>4. \A j : (TrailerEnds(Answer(k), j))' = TrailerEnds(Answer(k), j)
  BY <1>1 DEF TrailerEnds, TrailersUpTo
<1>5. \A j : (SizeLine(Answer(k), j))' = SizeLine(Answer(k), j)
  BY <1>1 DEF SizeLine
<1>6. \A j : (DataUpTo(Answer(k), j))' = DataUpTo(Answer(k), j)
  BY <1>1 DEF DataUpTo
<1> QED BY <1>1, <1>2, <1>3, <1>4, <1>5, <1>6

LEMMA ChunkSizePlaces ==
  ASSUME IInv, ProxyInv, side = "response", ParseChunkSize, UNCHANGED <<parser, loopVars>>
  PROVE  ProxyInv'
<1>1. /\ Running /\ ResponseFrame /\ HasLine /\ Buffered' /\ Taken' = Taken + line_bytes + 2
      /\ line_bytes \in Nat /\ responseParser.state = "ChunkSize"
  <2>1. Buffered /\ TakeResponseLine
    BY DEF ProxyInv, ParseChunkSize
  <2> QED BY <2>1, LineConsumed DEF ParseChunkSize
<1>2. PICK k \in 0 .. Len(messages) - 1 : \E j \in 0 .. Len(Answer(k).chunks) :
           /\ Skipped(k) /\ HasFraming(k, "chunked") /\ BeforeSize(k, j)
           /\ HasLine => line_bytes = Len(SizeLine(Answer(k), j)) /\ Line = SizeLine(Answer(k), j)
  BY <1>1, BeforeSizeIn
<1>3. PICK j \in 0 .. Len(Answer(k).chunks) :
           /\ Skipped(k) /\ HasFraming(k, "chunked") /\ BeforeSize(k, j)
           /\ HasLine => line_bytes = Len(SizeLine(Answer(k), j)) /\ Line = SizeLine(Answer(k), j)
  BY <1>2
<1> DEFINE m == Answer(k)
           l == SizeLine(m, j)
           n == Len(m.chunks)
           b == BodyAt(k)
           e == ChunkEnds(m, j)
           h == HeadBytes(m)
           size == Number[Meaning(l)]
<1>4. line_bytes = Len(l) /\ Line = l
  BY <1>1, <1>3
<1>5. /\ ChunksTaken(k, j) /\ responseParser.header_bytes = h /\ Taken = b + e
  BY <1>3 DEF BeforeSize
<1>6. /\ \A i \in 1 .. j : ChunkFaultAt(m, i) = "none"
      /\ responseParser.body = DataUpTo(m, j)
  BY <1>5 DEF ChunksTaken
<1>7. /\ m \in Messages /\ InChunks(m) /\ b \in Nat /\ n \in Nat /\ Len(m.trailers) \in Nat
      /\ LastEnds(k) \in Nat /\ h \in Nat
  <2>1. m \in Messages
    BY <1>3, ChunkedFacts
  <2> QED BY <1>3, <2>1, ChunkedFacts, HeadAt
<1>8. /\ e \in Nat /\ Len(l) \in Nat
      /\ (j < n => l = m.chunks[j + 1].size) /\ (j = n => Meaning(l) = "n0" /\ Len(l) = 1)
  BY <1>3, SizeLineAt
<1>9. j < n \/ j = n
  BY <1>7
<1>10. /\ UNCHANGED <<limits, messages, wire>> /\ responseParser \in ResponseParsers /\ Len(messages) \in Nat
  BY <1>1, ProxyFacts DEF ResponseFrame, loopVars
<1>11. /\ (Answer(k))' = m /\ (HeadBytes(Answer(k)))' = h
       /\ Len(Answer(k).chunks)' = n /\ Len(Answer(k).trailers)' = Len(m.trailers)
       /\ \A i : /\ (ChunkEnds(Answer(k), i))' = ChunkEnds(m, i)
                 /\ (TrailerEnds(Answer(k), i))' = TrailerEnds(m, i)
                 /\ (SizeLine(Answer(k), i))' = SizeLine(m, i)
  BY <1>10, ChunkedSteady
<1>12. "n0" \in DOMAIN Number /\ Number["n0"] = 0
  BY DEF Number
<1>13. CASE Meaning(l) \notin DOMAIN Number
  <2>1. ResponseFails("BadResponse")
    BY <1>4, <1>13 DEF ParseChunkSize
  <2>2. j < n /\ j \in 0 .. n - 1
    BY <1>7, <1>8, <1>9, <1>12, <1>13
  <2>3. ChunkFaultAt(m, j + 1) = "BadResponse"
    BY <1>8, <1>13, <2>2 DEF ChunkFaultAt
  <2>4. ChunkFault(m) = "BadResponse"
    <3> HIDE DEF m
    <3>1. ChunkFault(m) = ChunkFaultAt(m, j + 1)
      BY <1>6, <1>7, <2>2, <2>3, ChunkFaultIs DEF n
    <3> QED BY <2>3, <3>1
  <2>5. FinalOwnFault("BadResponse")
    BY <1>3, <2>4, ChunkVerdict
  <2>6. "BadResponse" \in ResponseErrors \ {"PrematureEof"}
    BY DEF ResponseErrors
  <2> QED BY <1>1, <2>1, <2>5, <2>6, AnswerRefused
<1>14. ASSUME Meaning(l) \in DOMAIN Number
       PROVE  /\ responseParser'.chunk_bytes = size /\ result' = "Running"
              /\ responseParser'.state = IF size = 0 THEN "Trailers" ELSE "ChunkBody"
              /\ responseParser'.head_request = responseParser.head_request
              /\ responseParser'.eof_delimited = responseParser.eof_delimited
              /\ responseParser'.body = responseParser.body
              /\ responseParser'.header_bytes = responseParser.header_bytes
  <2>1. /\ responseParser' = [responseParser EXCEPT !.chunk_bytes = size,
                                 !.state = IF size = 0 THEN "Trailers" ELSE "ChunkBody"]
        /\ result' = "Running"
    BY <1>4, <1>14 DEF ParseChunkSize, Becomes
  <2> HIDE DEF size
  <2> QED BY <1>10, <2>1 DEF ResponseParsers
<1>15. ASSUME Meaning(l) \in DOMAIN Number
       PROVE  /\ (BodyAt(k))' = b /\ ChunksTaken(k, j)' /\ Undecided' /\ result' # "NeedMore"
  <2>1. responseParser'.head_request = responseParser.head_request /\ result' = "Running"
        /\ responseParser'.eof_delimited = responseParser.eof_delimited
        /\ responseParser'.body = responseParser.body
    BY <1>14, <1>15
  <2>2. (BodyAt(k))' = b
    BY <1>10, <2>1, AnswerSteady
  <2>3. ChunksTaken(k, j)'
    BY <1>5, <1>10, <2>1, FramingSteady
  <2> QED BY <2>1, <2>2, <2>3 DEF Undecided
<1>16. k \in 0 .. Len(messages)
  BY <1>10
<1>17. CASE Meaning(l) \in DOMAIN Number /\ j < n
  <2>1. j + 1 \in DOMAIN m.chunks /\ j \in 0 .. n - 1
    <3>1. DOMAIN m.chunks = 1 .. n
      BY <1>7, PartsOf
    <3> QED BY <1>7, <1>17, <3>1
  <2>2. IsChunk(m.chunks[j + 1])
    BY <1>7, <2>1 DEF InChunks
  <2>3. size > 0 /\ size # 0
    <3>1. size > 0
      BY <1>8, <1>17, <2>2 DEF IsChunk
    <3> HIDE DEF size
    <3> QED BY <3>1
  <2>4. /\ responseParser'.chunk_bytes = size /\ result' = "Running" /\ responseParser'.state = "ChunkBody"
        /\ responseParser'.head_request = responseParser.head_request
        /\ responseParser'.header_bytes = h
    BY <1>5, <1>14, <1>17, <2>3
  <2>5. Taken' = b + e + Len(l) + 2
    BY <1>1, <1>4, <1>5
  <2>6. InChunk(k, j)'
    <3>1. (BodyAt(k))' = b /\ ChunksTaken(k, j)' /\ Undecided' /\ result' # "NeedMore"
      BY <1>15, <1>17
    <3> HIDE DEF l, b, e, h, n, m
    <3>2. (SizeLine(Answer(k), j))' = l /\ (ChunkEnds(Answer(k), j))' = e /\ (HeadBytes(Answer(k)))' = h
          /\ (j < Len(Answer(k).chunks))'
      BY <1>11, <1>17 DEF l, e
    <3>3. (Until(BodyAt(k) + ChunkEnds(Answer(k), j + 1)))'
      BY <3>1 DEF Until
    <3>4. (Taken = BodyAt(k) + ChunkEnds(Answer(k), j) + Len(SizeLine(Answer(k), j)) + 2)'
      BY <2>5, <3>1, <3>2
    <3>5. (Meaning(SizeLine(Answer(k), j)) \in DOMAIN Number)'
      BY <1>17, <3>2
    <3>6. (responseParser.chunk_bytes = Number[Meaning(SizeLine(Answer(k), j))])'
      BY <2>4, <3>2
    <3> QED BY <2>4, <3>1, <3>2, <3>3, <3>4, <3>5, <3>6 DEF InChunk
  <2>7. InAnswer(k)'
    <3>1. (\E i \in 0 .. Len(Answer(k).chunks) : InChunk(k, i))'
      BY <1>11, <2>6
    <3> QED BY <3>1 DEF InAnswer
  <2> QED BY <1>1, <1>3, <1>16, <2>4, <2>7, AnswerTurn
<1>18. CASE Meaning(l) \in DOMAIN Number /\ j = n
  <2>1. size = 0 /\ Len(l) = 1
    BY <1>8, <1>12, <1>18
  <2>2. /\ result' = "Running" /\ responseParser'.state = "Trailers"
        /\ responseParser'.head_request = responseParser.head_request
        /\ responseParser'.header_bytes = h
    BY <1>5, <1>14, <1>18, <2>1
  <2>3. TrailerEnds(m, 0) = 0
    <3>1. 0 \in 0 .. Len(m.trailers)
      BY <1>7
    <3> QED BY <1>3, <3>1, TrailerAt
  <2>4. Taken' = b + e + 3 + TrailerEnds(m, 0) /\ h = h + TrailerEnds(m, 0)
    <3> DEFINE t == Taken
    <3>1. Taken' = t + 1 + 2 /\ t = b + e
      BY <1>1, <1>4, <1>5, <2>1
    <3> HIDE DEF t, b, e, h
    <3> QED BY <1>7, <1>8, <2>3, <3>1
  <2>5. InTrailers(k, 0)'
    <3>1. (BodyAt(k))' = b /\ ChunksTaken(k, j)' /\ Undecided' /\ result' # "NeedMore"
      BY <1>15, <1>18
    <3>2. e = ChunkEnds(m, j)
      OBVIOUS
    <3>4. Len(Answer(k).chunks)' = j
      BY <1>11, <1>18
    <3> HIDE DEF b, e, h, n, m
    <3>3. (ChunkEnds(Answer(k), j))' = e /\ (HeadBytes(Answer(k)))' = h
          /\ (TrailerEnds(Answer(k), 0))' = TrailerEnds(m, 0)
      BY <1>11, <3>2
    <3>5. (ChunksTaken(k, Len(Answer(k).chunks)))'
      BY <3>1, <3>4 DEF ChunksTaken
    <3>6. (ChunkEnds(Answer(k), Len(Answer(k).chunks)))' = e
      BY <1>11, <3>2, <3>4
    <3>7. (0 <= Len(Answer(k).trailers))'
      BY <1>7, <1>11
    <3>8. (\A i \in 1 .. 0 : TrailerFaultAt(Answer(k), i) = "none")'
      OBVIOUS
    <3>9. (responseParser.header_bytes = HeadBytes(Answer(k)) + TrailerEnds(Answer(k), 0))'
      BY <2>2, <2>4, <3>3
    <3>10. (Taken = BodyAt(k) + ChunkEnds(Answer(k), Len(Answer(k).chunks)) + 3 + TrailerEnds(Answer(k), 0))'
      BY <2>4, <3>1, <3>3, <3>6
    <3>11. (Until(BodyAt(k) + ChunkEnds(Answer(k), Len(Answer(k).chunks)) + 3 + TrailerEnds(Answer(k), 0 + 1)))'
      BY <3>1 DEF Until
    <3> QED BY <2>2, <3>5, <3>7, <3>8, <3>9, <3>10, <3>11 DEF InTrailers
  <2>6. InAnswer(k)'
    <3>1. 0 \in 0 .. Len(m.trailers)
      BY <1>7
    <3>2. (\E t \in 0 .. Len(Answer(k).trailers) : InTrailers(k, t))'
      BY <1>11, <2>5, <3>1
    <3> QED BY <3>2 DEF InAnswer
  <2> QED BY <1>1, <1>3, <1>16, <2>2, <2>6, AnswerTurn
<1> QED BY <1>9, <1>13, <1>17, <1>18

\* What the upstream sends next is what the buffer holds.
LEMMA InputHas ==
  ASSUME IInv, Buffered, NEW p, p = Taken, NEW q \in Nat, NEW s \in Seq(Bytes), NEW a, a = p + q, At(wire, a, s),
         NEW r, r = q + Len(s), r <= Len(input.bytes)
  PROVE  SubSeq(input.bytes, q + 1, r) = s
<1> DEFINE w == input.bytes
           n == Len(s)
           y == SubSeq(w, q + 1, r)
<1>1. w \in Seq(Bytes) /\ Len(w) \in Nat /\ n \in Nat /\ p \in Nat /\ r = q + n
  BY BufferTyped
<1>2. \A i \in 1 .. Len(w) : wire[p + i] = w[i]
  BY DEF Buffered, At
<1>3. \A i \in 1 .. n : wire[a + i] = s[i]
  BY DEF At
<1> HIDE DEF w, n
<1>4. r <= Len(w)
  BY DEF w
<1>5. y \in Seq(Bytes) /\ Len(y) = n /\ \A i \in 1 .. n : y[i] = w[q + i]
  BY <1>1, <1>4
<1>6. \A i \in 1 .. n : q + i \in 1 .. Len(w) /\ a + i = p + (q + i)
  BY <1>1, <1>4
<1>7. \A i \in 1 .. n : y[i] = s[i]
  <2>1. ASSUME NEW i \in 1 .. n PROVE y[i] = s[i]
    <3>1. w[q + i] = wire[a + i]
      BY <1>2, <1>6
    <3> QED BY <1>3, <1>5, <3>1
  <2> QED BY <2>1
<1> HIDE DEF y
<1>8. y = s
  BY <1>5, <1>7, SeqEqual, SMTT(30) DEF n
<1> QED BY <1>8 DEF y, w

\* The chunk the parser is in.
LEMMA InChunkIn ==
  ASSUME IInv, ProxyInv, side = "response", Running, responseParser.state = "ChunkBody"
  PROVE  \E k \in 0 .. Len(messages) - 1 : \E j \in 0 .. Len(Answer(k).chunks) - 1 :
           LET m == Answer(k)
               c == m.chunks[j + 1]
               count == responseParser.chunk_bytes
               size == Len(input.bytes)
           IN  /\ Skipped(k) /\ HasFraming(k, "chunked") /\ InChunk(k, j) /\ count \in Nat
               /\ c.data \in Seq(Bytes) /\ Len(c.data) = count /\ c.end \in Seq(Bytes) /\ Len(c.end) = 2
               /\ Meaning(c.size) \in DOMAIN Number
               /\ BodyAt(k) + ChunkEnds(m, j + 1) = Taken + count + 2
               /\ size < count + 2 <=> sent < BodyAt(k) + ChunkEnds(m, j + 1)
               /\ size >= count + 2 => /\ SubSeq(input.bytes, 1, count) = c.data
                                       /\ SubSeq(input.bytes, count + 1, count + 2) = c.end
<1>1. Buffered /\ \E k \in 0 .. Len(messages) : Skipped(k) /\ InAnswer(k)
  BY RunningAnswer
<1>2. PICK k \in 0 .. Len(messages) : Skipped(k) /\ InAnswer(k)
  BY <1>1
<1>3. k < Len(messages) /\ \E j \in 0 .. Len(Answer(k).chunks) : InChunk(k, j)
  BY <1>2, PlaceOfState
<1>4. PICK j \in 0 .. Len(Answer(k).chunks) : InChunk(k, j)
  BY <1>3
<1>5. k \in 0 .. Len(messages) - 1
  BY ProxyFacts, <1>3
<1> DEFINE m == Answer(k)
           c == m.chunks[j + 1]
           count == responseParser.chunk_bytes
           size == Len(input.bytes)
           p == Taken
           y == BodyAt(k) + ChunkEnds(m, j + 1)
<1>6. /\ HasFraming(k, "chunked") /\ j < Len(m.chunks) /\ Meaning(SizeLine(m, j)) \in DOMAIN Number
      /\ count = Number[Meaning(SizeLine(m, j))]
      /\ p = BodyAt(k) + ChunkEnds(m, j) + Len(SizeLine(m, j)) + 2
  BY <1>4 DEF InChunk, ChunksTaken
<1>7. j \in 0 .. Len(m.chunks) - 1
  <2>1. Len(m.chunks) \in Nat
    BY <1>5, <1>6, ChunkedFacts
  <2> QED BY <1>6, <2>1
<1>8. /\ p \in Nat /\ IsChunk(c) /\ c.data \in Seq(Bytes) /\ c.end \in Seq(Bytes)
      /\ y = p + Len(c.data) + Len(c.end)
      /\ At(wire, p, c.data) /\ At(wire, p + Len(c.data), c.end) /\ SizeLine(m, j) = c.size
  BY <1>5, <1>6, <1>7, ChunkAt
<1>9. count = Len(c.data) /\ Len(c.end) = 2 /\ count \in Nat /\ Meaning(c.size) \in DOMAIN Number
  <2>1. Len(c.data) \in Nat
    BY <1>8, SMTT(30)
  <2> QED BY <1>6, <1>8, <2>1 DEF IsChunk
<1>10. size \in Nat /\ sent = p + size /\ sent \in Nat
  BY ProxyFacts
<1> DEFINE d == c.data
           e == c.end
<1>11. /\ d \in Seq(Bytes) /\ e \in Seq(Bytes) /\ Len(d) = count /\ Len(e) = 2 /\ At(wire, p, d)
       /\ At(wire, p + count, e) /\ y = p + count + 2 /\ p = Taken
  BY <1>8, <1>9
<1> HIDE DEF d, e, y, size, count, p
<1>12. size < count + 2 <=> sent < y
  <2>1. p \in Nat /\ count \in Nat /\ size \in Nat /\ sent = p + size /\ y = p + count + 2
    BY <1>8, <1>9, <1>10, <1>11
  <2> QED BY <2>1
<1>13. ASSUME size >= count + 2
       PROVE  SubSeq(input.bytes, 1, count) = d /\ SubSeq(input.bytes, count + 1, count + 2) = e
  <2>1. SubSeq(input.bytes, 1, count) = d
    <3> DEFINE q == 0
    <3>1. q \in Nat /\ p = p + q /\ count = q + Len(d) /\ count <= Len(input.bytes) /\ q + 1 = 1
      <4>1. count <= size
        BY <1>9, <1>10, <1>13
      <4> QED BY <1>8, <1>9, <1>11, <4>1 DEF size
    <3> HIDE DEF q
    <3>2. SubSeq(input.bytes, q + 1, count) = d
      BY <1>1, <1>11, <3>1, InputHas
    <3> QED BY <3>1, <3>2
  <2>2. SubSeq(input.bytes, count + 1, count + 2) = e
    <3> DEFINE a == p + count
               r == count + 2
    <3>1. a = p + count /\ At(wire, a, e) /\ r = count + Len(e) /\ r <= Len(input.bytes)
      BY <1>9, <1>10, <1>13, <1>11, SMTT(30) DEF size
    <3> HIDE DEF a, r
    <3>2. SubSeq(input.bytes, count + 1, r) = e
      BY <1>1, <1>9, <1>11, <3>1, InputHas
    <3> QED BY <3>2 DEF r
  <2> QED BY <2>1, <2>2
<1>14. /\ Skipped(k) /\ HasFraming(k, "chunked") /\ InChunk(k, j) /\ count \in Nat
       /\ d \in Seq(Bytes) /\ Len(d) = count /\ e \in Seq(Bytes) /\ Len(e) = 2
       /\ Meaning(c.size) \in DOMAIN Number
       /\ y = p + count + 2 /\ (size < count + 2 <=> sent < y)
       /\ size >= count + 2 => /\ SubSeq(input.bytes, 1, count) = d
                               /\ SubSeq(input.bytes, count + 1, count + 2) = e
  BY <1>2, <1>4, <1>6, <1>9, <1>11, <1>12, <1>13
<1> QED BY <1>5, <1>7, <1>14 DEF d, e, y, size, count, p

LEMMA ChunkFits ==
  ASSUME IInv, ProxyInv, side = "response", SizesFit, NEW k \in 0 .. Len(messages) - 1,
         NEW j \in 0 .. Len(Answer(k).chunks) - 1, InChunk(k, j)
  PROVE  LET count == responseParser.chunk_bytes
         IN  count \in Nat /\ count + 2 < SizeMod /\ WithCrlf(count) = count + 2
<1> DEFINE count == responseParser.chunk_bytes
           m == Answer(k)
           c == m.chunks[j + 1]
<1>1. /\ HasFraming(k, "chunked") /\ j < Len(m.chunks) /\ Meaning(SizeLine(m, j)) \in DOMAIN Number
      /\ count = Number[Meaning(SizeLine(m, j))]
  BY DEF InChunk, ChunksTaken
<1>2. SizeLine(m, j) = c.size
  BY <1>1 DEF SizeLine
<1>3. /\ Len(messages) \in Nat /\ messages \in Seq(Messages) /\ Len(m.chunks) \in Nat
      /\ DOMAIN m.chunks = 1 .. Len(m.chunks)
  BY <1>1, ProxyFacts, ChunkedFacts DEF Streaming, Messages
<1>4. ~Overflows(c.size)
  <2>1. k + 1 \in DOMAIN messages /\ j + 1 \in DOMAIN m.chunks
    BY <1>3
  <2> QED BY <2>1 DEF SizesFit, Answer
<1>5. count \in Nat /\ ~(count + 2 >= SizeMod)
  BY <1>1, <1>2, <1>4, NumbersAreNat DEF Overflows
<1> HIDE DEF count
<1>6. count \in Nat /\ count + 2 < SizeMod
  BY <1>5, SizeModAssumption
<1> QED BY <1>6, ChunkSums DEF count

LEMMA ChunkBodyPlaces ==
  ASSUME IInv, ProxyInv, side = "response", SizesFit, ParseChunkBody, UNCHANGED <<parser, loopVars>>
  PROVE  ProxyInv'
<1>1. Running /\ ResponseFrame /\ responseParser.state = "ChunkBody" /\ UNCHANGED <<limits, messages, wire>>
  BY DEF ParseChunkBody, ResponseFrame, loopVars
<1> DEFINE count == responseParser.chunk_bytes
           size == Len(input.bytes)
           x == responseParser.body
<1>2. PICK k \in 0 .. Len(messages) - 1 : \E j \in 0 .. Len(Answer(k).chunks) - 1 :
           LET m == Answer(k)
               c == m.chunks[j + 1]
           IN  /\ Skipped(k) /\ HasFraming(k, "chunked") /\ InChunk(k, j) /\ count \in Nat
               /\ c.data \in Seq(Bytes) /\ Len(c.data) = count /\ c.end \in Seq(Bytes) /\ Len(c.end) = 2
               /\ Meaning(c.size) \in DOMAIN Number
               /\ BodyAt(k) + ChunkEnds(m, j + 1) = Taken + count + 2
               /\ size < count + 2 <=> sent < BodyAt(k) + ChunkEnds(m, j + 1)
               /\ size >= count + 2 => /\ SubSeq(input.bytes, 1, count) = c.data
                                       /\ SubSeq(input.bytes, count + 1, count + 2) = c.end
  BY <1>1, InChunkIn
<1> DEFINE m == Answer(k)
           n == Len(m.chunks)
<1>3. PICK j \in 0 .. n - 1 :
           LET c == m.chunks[j + 1]
           IN  /\ Skipped(k) /\ HasFraming(k, "chunked") /\ InChunk(k, j) /\ count \in Nat
               /\ c.data \in Seq(Bytes) /\ Len(c.data) = count /\ c.end \in Seq(Bytes) /\ Len(c.end) = 2
               /\ Meaning(c.size) \in DOMAIN Number
               /\ BodyAt(k) + ChunkEnds(m, j + 1) = Taken + count + 2
               /\ size < count + 2 <=> sent < BodyAt(k) + ChunkEnds(m, j + 1)
               /\ size >= count + 2 => /\ SubSeq(input.bytes, 1, count) = c.data
                                       /\ SubSeq(input.bytes, count + 1, count + 2) = c.end
  BY <1>2
<1> DEFINE c == m.chunks[j + 1]
           y == BodyAt(k) + ChunkEnds(m, j + 1)
           p == Taken
           h == HeadBytes(m)
           grown == x \o SubSeq(input.bytes, 1, count)
<1>4. /\ Skipped(k) /\ HasFraming(k, "chunked") /\ InChunk(k, j) /\ count \in Nat
      /\ c.data \in Seq(Bytes) /\ Len(c.data) = count /\ c.end \in Seq(Bytes) /\ Len(c.end) = 2
      /\ Meaning(c.size) \in DOMAIN Number /\ y = p + count + 2
      /\ (size < count + 2 <=> sent < y)
      /\ size >= count + 2 => /\ SubSeq(input.bytes, 1, count) = c.data
                              /\ SubSeq(input.bytes, count + 1, count + 2) = c.end
  BY <1>3
<1>5. ChunksTaken(k, j) /\ responseParser.header_bytes = h
  BY <1>4 DEF InChunk
<1>6. (\A i \in 1 .. j : ChunkFaultAt(m, i) = "none") /\ x = DataUpTo(m, j)
  BY <1>5 DEF ChunksTaken
<1>7. /\ m \in Messages /\ n \in Nat /\ size \in Nat /\ p \in Nat /\ limits.body \in Nat /\ Len(messages) \in Nat
      /\ responseParser \in ResponseParsers /\ k \in 0 .. Len(messages) /\ h \in Nat
  BY <1>4, ChunkedFacts, HeadAt, ProxyFacts
<1>8. x \in Seq(STRING) /\ x \in Seq(Bytes) /\ Len(x) \in Nat
  BY <1>7, TextIsBytes DEF ResponseParsers
<1>9. DataUpTo(m, j + 1) = x \o c.data
  BY <1>6, <1>7, DataGrows
<1>10. Len(DataUpTo(m, j + 1)) = Len(x) + count
  <2> DEFINE d == c.data
  <2>1. d \in Seq(Bytes) /\ Len(d) = count /\ DataUpTo(m, j + 1) = x \o d
    BY <1>4, <1>9
  <2> HIDE DEF d, x
  <2> QED BY <1>8, <2>1, AtConcat, SMTT(30)
<1>11. IF size < count + 2 THEN responseParser' = responseParser /\ result' = "NeedMore" /\ input' = input
       ELSE IF SubSeq(input.bytes, count + 1, count + 2) # CRLF
       THEN ResponseFails("BadResponse") /\ input' = input
       ELSE IF ~(count <= limits.body - Len(x)) THEN ResponseFails("BodyTooLarge") /\ input' = input
       ELSE /\ input' = consume(input, count + 2) /\ result' = "Running"
            /\ responseParser' = [AppendBody(count) EXCEPT !.state = "ChunkSize"]
  <2>1. count + 2 < SizeMod /\ WithCrlf(count) = count + 2
    BY <1>4, ChunkFits
  <2>2. EndMarks(count) = {SubSeq(input.bytes, count + 1, count + 2) = CRLF}
    BY <2>1 DEF EndMarks
  <2>3. ~(size < count + 2) => ChunkTaken(count) = count
    <3>1. ChunkTaken(count) = Min({count, size}) /\ count \in Int /\ size \in Int
      BY <1>4, <1>7 DEF ChunkTaken, readableBytes
    <3> HIDE DEF count, size
    <3>2. Min({count, size}) \in {count, size} /\ Min({count, size}) <= count
      BY <3>1, Extremes
    <3> QED BY <1>4, <1>7, <3>1, <3>2
  <2>4. IF size < count + 2 THEN Becomes(responseParser, "NeedMore") /\ input' = input
        ELSE \E ended \in {SubSeq(input.bytes, count + 1, count + 2) = CRLF} :
             IF ~ended THEN ResponseFails("BadResponse") /\ input' = input
             ELSE IF ~BodyFits(ChunkTaken(count)) THEN ResponseFails("BodyTooLarge") /\ input' = input
             ELSE /\ input' = consume(input, count + 2)
                  /\ Becomes([AppendBody(ChunkTaken(count)) EXCEPT !.state = "ChunkSize"], "Running")
    BY <2>1, <2>2 DEF ParseChunkBody, readableBytes
  <2> HIDE DEF count, size, x
  <2> QED BY <2>3, <2>4 DEF Becomes, BodyFits, x
<1>12. AppendBody(count) = [responseParser EXCEPT !.body = grown]
  BY DEF AppendBody
<1>13. size < count + 2 \/ size >= count + 2
  <2> HIDE DEF size, count
  <2> QED BY <1>4, <1>7
<1>14. ASSUME NEW e \in {"BadResponse", "BodyTooLarge"}, ResponseFails(e), input' = input, ChunkFaultAt(m, j + 1) = e
       PROVE  ProxyInv'
  <2>1. ChunkFault(m) = e
    <3>1. ChunkFaultAt(m, j + 1) # "none"
      BY <1>14
    <3> HIDE DEF m
    <3>2. ChunkFault(m) = ChunkFaultAt(m, j + 1)
      BY <1>6, <1>7, <3>1, ChunkFaultIs DEF n
    <3> QED BY <1>14, <3>2
  <2>2. FinalOwnFault(e)
    BY <1>4, <2>1, ChunkVerdict
  <2>3. e \in ResponseErrors \ {"PrematureEof"}
    BY DEF ResponseErrors
  <2>4. Buffered'
    BY <1>1, <1>14, SameBytes DEF ProxyInv, ResponseFrame
  <2> QED BY <1>1, <1>14, <2>2, <2>3, <2>4, AnswerRefused
<1>15. CASE size < count + 2
  <2>1. responseParser' = responseParser /\ result' = "NeedMore" /\ input' = input
    BY <1>11, <1>15
  <2>2. /\ UNCHANGED <<limits, messages, wire, responseParser>> /\ Taken' = Taken /\ Buffered' /\ sent' = sent
        /\ responseParser'.head_request = responseParser.head_request
    BY <1>1, <2>1, AnswerStays
  <2>3. sent' < y
    BY <1>4, <1>15, <2>2
  <2>4. InChunk(k, j)'
    BY <1>4, <2>1, <2>2, <2>3, StillIn
  <2>5. InAnswer(k)'
    <3>1. Len(Answer(k).chunks)' = n /\ j \in 0 .. n
      BY <1>1, <1>7, ChunkedSteady
    <3>2. (\E i \in 0 .. Len(Answer(k).chunks) : InChunk(k, i))'
      BY <2>4, <3>1, SMTT(30)
    <3> QED BY <3>2 DEF InAnswer
  <2> QED BY <1>1, <1>4, <1>7, <2>2, <2>5, AnswerTurn
<1>16. ASSUME size >= count + 2
       PROVE  /\ SubSeq(input.bytes, 1, count) = c.data /\ SubSeq(input.bytes, count + 1, count + 2) = c.end
              /\ ~(size < count + 2) /\ grown = DataUpTo(m, j + 1)
  <2>1. ~(size < count + 2)
    <3> HIDE DEF size, count
    <3> QED BY <1>4, <1>7, <1>16
  <2> QED BY <1>4, <1>9, <1>16, <2>1
<1>17. CASE size >= count + 2 /\ c.end # CRLF
  BY <1>11, <1>16, <1>17, <1>14 DEF ChunkFaultAt
<1> DEFINE fits == count <= limits.body - Len(x)
           l == Len(x)
<1>18. ChunkFaultAt(m, j + 1) = IF c.end # CRLF THEN "BadResponse" ELSE IF ~fits THEN "BodyTooLarge" ELSE "none"
  <2>1. Len(DataUpTo(m, j + 1)) > limits.body <=> ~fits
    <3> DEFINE v == Len(DataUpTo(m, j + 1))
    <3>1. v = l + count /\ l \in Nat
      BY <1>8, <1>10
    <3> HIDE DEF v, l, count
    <3> DEFINE max == limits.body
    <3>3. max \in Nat /\ count \in Nat
      BY <1>4, <1>7
    <3> HIDE DEF max
    <3>2. v > max <=> ~(count <= max - l)
      BY <3>1, <3>3
    <3> QED BY <3>2 DEF v, l, count, max
  <2> HIDE DEF fits
  <2> QED BY <1>4, <2>1 DEF ChunkFaultAt
<1>19. CASE size >= count + 2 /\ c.end = CRLF /\ ~fits
  BY <1>11, <1>16, <1>19, <1>14, <1>18
<1>20. CASE size >= count + 2 /\ c.end = CRLF /\ fits
  <2>1. /\ input' = consume(input, count + 2) /\ result' = "Running"
        /\ responseParser' = [AppendBody(count) EXCEPT !.state = "ChunkSize"]
    BY <1>11, <1>16, <1>20
  <2>2. Buffered' /\ Taken' = p + (count + 2)
    <3>1. count + 2 \in 0 .. size
      <4> HIDE DEF size, count
      <4> QED BY <1>4, <1>7, <1>20
    <3> QED BY <1>1, <2>1, <3>1, TakesForBody
  <2>3. Taken' = y
    <3> HIDE DEF p, count, y
    <3> QED BY <1>4, <1>7, <2>2
  <2>4. /\ responseParser'.state = "ChunkSize" /\ responseParser'.body = grown
        /\ responseParser'.head_request = responseParser.head_request
        /\ responseParser'.eof_delimited = responseParser.eof_delimited
        /\ responseParser'.header_bytes = h
    <3> HIDE DEF grown
    <3> QED BY <1>5, <1>7, <1>12, <2>1 DEF ResponseParsers
  <2>5. grown = DataUpTo(m, j + 1) /\ ChunkFaultAt(m, j + 1) = "none"
    BY <1>16, <1>18, <1>20
  <2>6. \A i \in 1 .. j + 1 : ChunkFaultAt(m, i) = "none"
    <3>1. \A i \in 1 .. j + 1 : i \in 1 .. j \/ i = j + 1
      BY <1>7
    <3> QED BY <1>6, <2>5, <3>1
  <2>7. /\ (Answer(k))' = m /\ (HeadBytes(Answer(k)))' = h /\ Len(Answer(k).chunks)' = n
        /\ (ChunkEnds(Answer(k), j + 1))' = ChunkEnds(m, j + 1)
        /\ (DataUpTo(Answer(k), j + 1))' = DataUpTo(m, j + 1)
    BY <1>1, ChunkedSteady
  <2>8. (BodyAt(k))' = BodyAt(k) /\ \A i : (ChunkFaultAt(Answer(k), i))' = ChunkFaultAt(Answer(k), i)
    BY <1>1, <2>4, AnswerSteady
  <2>9. ChunksTaken(k, j + 1)'
    <3>1. HasFraming(k, "chunked")'
      BY <1>1, <1>4, <2>4, FramingSteady
    <3>2. (j + 1 <= Len(Answer(k).chunks))'
      BY <1>7, <2>7
    <3>3. (\A i \in 1 .. j + 1 : ChunkFaultAt(Answer(k), i) = "none")'
      BY <2>6, <2>8
    <3>4. (responseParser.body = DataUpTo(Answer(k), j + 1))'
      BY <2>4, <2>5, <2>7
    <3> QED BY <3>1, <3>2, <3>3, <3>4 DEF ChunksTaken
  <2>10. BeforeSize(k, j + 1)'
    BY <2>1, <2>3, <2>7, <2>8, <2>4, <2>9 DEF Undecided, Until, BeforeSize
  <2>11. InAnswer(k)'
    BY <1>7, <2>7, <2>10 DEF InAnswer
  <2> QED BY <1>1, <1>4, <1>7, <2>2, <2>4, <2>11, AnswerTurn
<1> QED BY <1>13, <1>15, <1>17, <1>19, <1>20

\* What the place in the trailers says, and what a fault of the next one means.
LEMMA TrailerFacts ==
  ASSUME IInv, ProxyInv, side = "response", NEW k \in 0 .. Len(messages) - 1, Skipped(k),
         NEW t \in 0 .. Len(Answer(k).trailers), InTrailers(k, t)
  PROVE  LET m == Answer(k)
             T == Len(m.trailers)
         IN  /\ m \in Messages /\ T \in Nat /\ HasFraming(k, "chunked") /\ responseParser \in ResponseParsers
             /\ HeadBytes(m) \in Nat /\ TrailerEnds(m, t) \in Nat /\ limits.header_bytes \in Nat
             /\ BodyAt(k) \in Nat /\ LastEnds(k) \in Nat /\ Len(messages) \in Nat
             /\ responseParser.header_bytes = HeadBytes(m) + TrailerEnds(m, t)
             /\ Taken = BodyAt(k) + LastEnds(k) + 3 + TrailerEnds(m, t)
             /\ \A i \in 1 .. Len(m.chunks) : ChunkFaultAt(m, i) = "none"
             /\ \A i \in 1 .. t : TrailerFaultAt(m, i) = "none"
             /\ responseParser.body = DataUpTo(m, Len(m.chunks))
             /\ TrailerFaultAt(m, t + 1) # "none" => FinalOwnFault(TrailerFaultAt(m, t + 1))
             /\ TrailerFaultAt(m, t + 1) =
                  IF HeadBytes(m) + TrailerEnds(m, t + 1) > limits.header_bytes THEN "HeaderTooLarge"
                  ELSE IF t < T /\ Meaning(m.trailers[t + 1]) \in InvalidNames THEN "BadResponse"
                  ELSE "none"
<1> DEFINE m == Answer(k)
           T == Len(m.trailers)
<1>1. /\ ChunksTaken(k, Len(m.chunks)) /\ \A i \in 1 .. t : TrailerFaultAt(m, i) = "none"
      /\ responseParser.header_bytes = HeadBytes(m) + TrailerEnds(m, t)
      /\ Taken = BodyAt(k) + LastEnds(k) + 3 + TrailerEnds(m, t)
  BY DEF InTrailers, LastEnds
<1>2. /\ HasFraming(k, "chunked") /\ \A i \in 1 .. Len(m.chunks) : ChunkFaultAt(m, i) = "none"
      /\ responseParser.body = DataUpTo(m, Len(m.chunks))
  BY <1>1 DEF ChunksTaken
<1>3. m \in Messages /\ T \in Nat /\ BodyAt(k) \in Nat /\ LastEnds(k) \in Nat
  BY <1>2, ChunkedFacts
<1>4. HeadBytes(m) \in Nat /\ TrailerEnds(m, t) \in Nat
  BY <1>2, <1>3, HeadAt, TrailerAt
<1>5. limits.header_bytes \in Nat /\ Len(messages) \in Nat /\ responseParser \in ResponseParsers
  BY ProxyFacts
<1>6. TrailerFaultAt(m, t + 1) # "none" => FinalOwnFault(TrailerFaultAt(m, t + 1))
  <2>1. SUFFICES ASSUME TrailerFaultAt(m, t + 1) # "none" PROVE FinalOwnFault(TrailerFaultAt(m, t + 1))
    OBVIOUS
  <2>2. ChunkFault(m) = TrailerFaultAt(m, t + 1)
    <3> HIDE DEF m
    <3> QED BY <1>1, <1>2, <1>3, <2>1, ChunkFaultIs DEF m
  <2> DEFINE e == TrailerFaultAt(m, t + 1)
  <2>3. ChunkFault(Answer(k)) = e
    BY <2>2
  <2> HIDE DEF e
  <2>4. FinalOwnFault(e)
    BY <1>2, <2>3, ChunkVerdict
  <2> QED BY <2>4 DEF e
<1>7. TrailerFaultAt(m, t + 1) =
        IF HeadBytes(m) + TrailerEnds(m, t + 1) > limits.header_bytes THEN "HeaderTooLarge"
        ELSE IF t < T /\ Meaning(m.trailers[t + 1]) \in InvalidNames THEN "BadResponse"
        ELSE "none"
  <2>1. t + 1 \in DOMAIN m.trailers <=> t < T
    <3>1. DOMAIN m.trailers = 1 .. T
      BY <1>3, PartsOf
    <3> HIDE DEF T
    <3> QED BY <1>3, <3>1
  <2> QED BY <2>1 DEF TrailerFaultAt, TrailerEnds
<1> QED BY <1>1, <1>2, <1>3, <1>4, <1>5, <1>6, <1>7

LEMMA NoTrailerLinePlaces ==
  ASSUME IInv, ProxyInv, side = "response", ParseNoStatusLine, responseParser.state = "Trailers",
         UNCHANGED <<parser, loopVars>>
  PROVE  ProxyInv'
<1> DEFINE size == Len(input.bytes)
           tooLong == responseParser.header_bytes + size > limits.header_bytes
<1>1. Running /\ ResponseFrame /\ ~HasLine /\ UNCHANGED input
  BY DEF ParseNoStatusLine
<1>2. IF tooLong THEN ResponseFails("HeaderTooLarge") ELSE responseParser' = responseParser /\ result' = "NeedMore"
  BY DEF ParseNoStatusLine, Becomes, readableBytes
<1>3. PICK k \in 0 .. Len(messages) - 1 : \E t \in 0 .. Len(Answer(k).trailers) :
           /\ Skipped(k) /\ InTrailers(k, t)
           /\ ~HasLine => /\ Len(input.bytes) <= Len(TrailerLine(Answer(k), t)) + 1
                          /\ sent < BodyAt(k) + LastEnds(k) + 3 + TrailerEnds(Answer(k), t + 1)
  BY <1>1, InTrailersIn
<1>4. PICK t \in 0 .. Len(Answer(k).trailers) :
           /\ Skipped(k) /\ InTrailers(k, t)
           /\ ~HasLine => /\ Len(input.bytes) <= Len(TrailerLine(Answer(k), t)) + 1
                          /\ sent < BodyAt(k) + LastEnds(k) + 3 + TrailerEnds(Answer(k), t + 1)
  BY <1>3
<1> DEFINE m == Answer(k)
           l == Len(TrailerLine(m, t))
           h == HeadBytes(m)
           x == TrailerEnds(m, t)
           y == TrailerEnds(m, t + 1)
           b == limits.header_bytes
<1>5. size <= l + 1 /\ sent < BodyAt(k) + LastEnds(k) + 3 + y
  BY <1>1, <1>4
<1>6. /\ HasFraming(k, "chunked") /\ h \in Nat /\ x \in Nat /\ b \in Nat /\ Len(messages) \in Nat
      /\ responseParser.header_bytes = h + x
      /\ TrailerFaultAt(m, t + 1) # "none" => FinalOwnFault(TrailerFaultAt(m, t + 1))
      /\ h + y > b => TrailerFaultAt(m, t + 1) = "HeaderTooLarge"
  BY <1>4, TrailerFacts
<1>7. l \in Nat /\ y = x + l + 2
  BY <1>6, TrailerAt
<1>8. size \in Nat /\ Buffered
  BY ProxyFacts DEF ProxyInv
<1>9. CASE tooLong
  <2>1. ResponseFails("HeaderTooLarge")
    BY <1>2, <1>9
  <2>2. h + y > b
    <3>1. h + x + size > b
      BY <1>6, <1>9
    <3> HIDE DEF h, x, y, b, size, l
    <3> QED BY <1>5, <1>6, <1>7, <1>8, <3>1
  <2>3. FinalOwnFault("HeaderTooLarge")
    BY <1>6, <2>2
  <2>4. "HeaderTooLarge" \in ResponseErrors \ {"PrematureEof"}
    BY DEF ResponseErrors
  <2>5. Buffered'
    BY <1>1, <1>8, SameBytes DEF ResponseFrame
  <2> QED BY <1>1, <2>1, <2>3, <2>4, <2>5, AnswerRefused
<1>10. CASE ~tooLong
  <2>1. responseParser' = responseParser /\ result' = "NeedMore"
    BY <1>2, <1>10
  <2>2. /\ UNCHANGED <<limits, messages, wire, responseParser>> /\ Taken' = Taken /\ Buffered' /\ sent' = sent
        /\ responseParser'.head_request = responseParser.head_request
    BY <1>1, <2>1, AnswerStays
  <2>3. sent' < BodyAt(k) + ChunkEnds(m, Len(m.chunks)) + 3 + y
    BY <1>5, <2>2 DEF LastEnds
  <2>4. InTrailers(k, t)'
    BY <1>4, <2>1, <2>2, <2>3, StillIn
  <2>5. InAnswer(k)'
    BY <2>2, <2>4 DEF Answer, InAnswer
  <2>6. k \in 0 .. Len(messages)
    BY <1>6
  <2> QED BY <1>1, <1>4, <2>2, <2>5, <2>6, AnswerTurn
<1> QED BY <1>9, <1>10

LEMMA TrailerPlaces ==
  ASSUME IInv, ProxyInv, side = "response", ParseTrailer, UNCHANGED <<parser, loopVars>>
  PROVE  ProxyInv'
<1>1. /\ Running /\ ResponseFrame /\ HasLine /\ Buffered' /\ Taken' = Taken + line_bytes + 2
      /\ line_bytes \in Nat /\ responseParser.state = "Trailers"
  BY LineConsumed DEF ProxyInv, ParseTrailer
<1>2. PICK k \in 0 .. Len(messages) - 1 : \E t \in 0 .. Len(Answer(k).trailers) :
           /\ Skipped(k) /\ InTrailers(k, t)
           /\ HasLine => line_bytes = Len(TrailerLine(Answer(k), t)) /\ Line = TrailerLine(Answer(k), t)
  BY <1>1, InTrailersIn
<1>3. PICK t \in 0 .. Len(Answer(k).trailers) :
           /\ Skipped(k) /\ InTrailers(k, t)
           /\ HasLine => line_bytes = Len(TrailerLine(Answer(k), t)) /\ Line = TrailerLine(Answer(k), t)
  BY <1>2
<1> DEFINE m == Answer(k)
           T == Len(m.trailers)
           l == TrailerLine(m, t)
           n == Len(l)
           h == HeadBytes(m)
           x == TrailerEnds(m, t)
           y == TrailerEnds(m, t + 1)
           b == BodyAt(k)
           e == LastEnds(k)
           fault == TrailerFaultAt(m, t + 1)
           big == h + y > limits.header_bytes
           counted == [responseParser EXCEPT !.header_bytes = header_bytes_with_line]
<1>4. line_bytes = n /\ Line = l
  BY <1>1, <1>3
<1>5. /\ m \in Messages /\ T \in Nat /\ HasFraming(k, "chunked") /\ responseParser \in ResponseParsers
      /\ h \in Nat /\ x \in Nat /\ limits.header_bytes \in Nat
      /\ b \in Nat /\ e \in Nat /\ Len(messages) \in Nat
      /\ responseParser.header_bytes = h + x /\ Taken = b + e + 3 + x
  BY <1>3, TrailerFacts
<1>6. /\ \A i \in 1 .. Len(m.chunks) : ChunkFaultAt(m, i) = "none"
      /\ \A i \in 1 .. t : TrailerFaultAt(m, i) = "none"
      /\ responseParser.body = DataUpTo(m, Len(m.chunks))
      /\ fault # "none" => FinalOwnFault(fault)
  BY <1>3, TrailerFacts
<1>7. fault = IF big THEN "HeaderTooLarge"
              ELSE IF t < T /\ Meaning(m.trailers[t + 1]) \in InvalidNames THEN "BadResponse" ELSE "none"
  BY <1>3, TrailerFacts
<1>8. /\ n \in Nat /\ y = x + n + 2 /\ (t < T => l = m.trailers[t + 1] /\ l # <<>>) /\ (t = T => l = <<>>)
  BY <1>5, TrailerAt
<1>9. header_bytes_with_line = h + y /\ Taken' = b + e + 3 + y
  <2> DEFINE p == Taken
  <2>1. /\ header_bytes_with_line = h + x + n + 2 /\ Taken' = p + n + 2 /\ p = b + e + 3 + x
    BY <1>1, <1>4, <1>5 DEF header_bytes_with_line
  <2> HIDE DEF p, h, x, n, y, b, e
  <2>2. h \in Nat /\ x \in Nat /\ n \in Nat /\ y = x + n + 2 /\ b \in Nat /\ e \in Nat
    BY <1>5, <1>8
  <2> QED BY <2>1, <2>2
<1>10. IF big THEN ResponseFails("HeaderTooLarge")
       ELSE IF l = <<>> THEN responseParser' = [counted EXCEPT !.state = "Complete"] /\ result' = "Complete"
       ELSE IF Meaning(l) \in InvalidNames THEN ResponseFails("BadResponse")
       ELSE responseParser' = counted /\ result' = "Running"
  <2> HIDE DEF l, h, y
  <2> QED BY <1>4, <1>9 DEF ParseTrailer, Becomes
<1>11. t < T \/ t = T
  BY <1>5, SMTT(30)
<1>12. UNCHANGED <<limits, messages, wire>> /\ k \in 0 .. Len(messages)
  BY <1>1, <1>5 DEF ResponseFrame, loopVars
<1>13. ASSUME fault \in {"HeaderTooLarge", "BadResponse"}, ResponseFails(fault) PROVE ProxyInv'
  <2>1. fault # "none" /\ fault \in ResponseErrors \ {"PrematureEof"}
    BY <1>13 DEF ResponseErrors
  <2>2. FinalOwnFault(fault)
    BY <1>6, <2>1
  <2> DEFINE f == fault
  <2>3. FinalOwnFault(f) /\ f \in ResponseErrors \ {"PrematureEof"} /\ ResponseFails(f)
    BY <1>13, <2>1, <2>2
  <2> HIDE DEF f
  <2> QED BY <1>1, <2>3, AnswerRefused
<1>14. CASE big
  BY <1>7, <1>10, <1>14, <1>13
<1>15. CASE ~big /\ t < T /\ Meaning(l) \in InvalidNames
  BY <1>7, <1>8, <1>10, <1>15, <1>13
<1>16. ASSUME ~big, ~(t < T /\ Meaning(l) \in InvalidNames)
       PROVE  \A i \in 1 .. t + 1 : TrailerFaultAt(m, i) = "none"
  <2>1. fault = "none"
    BY <1>7, <1>8, <1>16
  <2>2. \A i \in 1 .. t + 1 : i \in 1 .. t \/ i = t + 1
    BY <1>5
  <2> QED BY <1>6, <2>1, <2>2
<1> HIDE DEF big
<1>17. CASE ~big /\ t = T
  <2>1. responseParser' = [counted EXCEPT !.state = "Complete"] /\ result' = "Complete"
    BY <1>8, <1>10, <1>17
  <2>2. /\ responseParser'.state = "Complete" /\ responseParser'.body = responseParser.body
        /\ responseParser'.head_request = responseParser.head_request
        /\ responseParser'.eof_delimited = responseParser.eof_delimited
    BY <1>5, <2>1 DEF ResponseParsers
  <2>3. /\ Meaning(m.line) # "s100" /\ ResponseFault(m) = "none" /\ Framing(m) = "chunked"
        /\ ~responseParser.eof_delimited
    BY <1>5 DEF HasFraming
  <2>4. ChunkFault(m) = "none"
    <3>1. \A i \in 1 .. T + 1 : TrailerFaultAt(m, i) = "none"
      <4>1. ~(t < T)
        BY <1>5, <1>17, SMTT(30)
      <4>2. \A i \in 1 .. t + 1 : TrailerFaultAt(m, i) = "none"
        BY <1>16, <1>17, <4>1
      <4> QED BY <1>17, <4>2
    <3> HIDE DEF m
    <3> QED BY <1>5, <1>6, <3>1, ChunkFaultIs DEF T
  <2>5. Taken' = StartOf(k) + Len(Encoded(m))
    <3>1. StartOf(k) + Len(Encoded(m)) = b + (e + 3 + y)
      BY <1>5, <1>17, ChunkedFacts
    <3> HIDE DEF b, e, y, x, n
    <3>2. b \in Nat /\ e \in Nat /\ y \in Nat
      <4> HIDE DEF T, l, h
      <4> QED BY <1>5, <1>8, SMTT(30)
    <3>3. b + (e + 3 + y) = b + e + 3 + y
      BY <3>2
    <3> QED BY <1>9, <3>1, <3>3
  <2>6. responseParser'.body = DataUpTo(m, Len(m.chunks)) /\ ~responseParser'.eof_delimited
    BY <1>6, <2>2, <2>3
  <2> QED BY <1>1, <1>3, <2>1, <2>2, <2>3, <2>4, <2>5, <2>6, AnswerEnds
<1>18. CASE ~big /\ t < T /\ Meaning(l) \notin InvalidNames
  <2>1. responseParser' = counted /\ result' = "Running"
    BY <1>8, <1>10, <1>18
  <2>2. /\ responseParser'.state = "Trailers" /\ responseParser'.body = responseParser.body
        /\ responseParser'.head_request = responseParser.head_request
        /\ responseParser'.eof_delimited = responseParser.eof_delimited
        /\ responseParser'.header_bytes = h + y
    <3>1. counted = [responseParser EXCEPT !.header_bytes = h + y]
      BY <1>9
    <3> HIDE DEF counted, h, y
    <3> QED BY <1>1, <1>5, <2>1, <3>1 DEF ResponseParsers
  <2>3. /\ (Answer(k))' = m /\ (HeadBytes(Answer(k)))' = h
        /\ Len(Answer(k).chunks)' = Len(m.chunks) /\ Len(Answer(k).trailers)' = T
        /\ (TrailerEnds(Answer(k), t + 1))' = y
        /\ \A i : (ChunkEnds(Answer(k), i))' = ChunkEnds(m, i)
    BY <1>12, ChunkedSteady
  <2>4. (BodyAt(k))' = b /\ \A i : (TrailerFaultAt(Answer(k), i))' = TrailerFaultAt(Answer(k), i)
    BY <1>12, <2>2, AnswerSteady
  <2> DEFINE c == Len(m.chunks)
  <2>5. \A i : ChunksTaken(k, i)' <=> ChunksTaken(k, i)
    BY <1>12, <2>2, FramingSteady
  <2>6. (ChunksTaken(k, Len(Answer(k).chunks)))'
    <3>1. PICK i : i = c
      OBVIOUS
    <3>2. ChunksTaken(k, i)
      BY <1>3, <3>1 DEF InTrailers
    <3>3. (ChunksTaken(k, i))' /\ Len(Answer(k).chunks)' = i
      BY <2>3, <2>5, <3>1, <3>2
    <3> QED BY <3>3 DEF ChunksTaken
  <2>7. InTrailers(k, t + 1)'
    <3>1. Undecided' /\ result' # "NeedMore"
      BY <2>1 DEF Undecided
    <3>2. (t + 1 <= Len(Answer(k).trailers))'
      <4>1. t + 1 <= T
        BY <1>5, <1>18, SMTT(30)
      <4> QED BY <2>3, <4>1
    <3>3. (\A i \in 1 .. t + 1 : TrailerFaultAt(Answer(k), i) = "none")'
      BY <1>16, <1>18, <2>4
    <3>4. (responseParser.header_bytes = HeadBytes(Answer(k)) + TrailerEnds(Answer(k), t + 1))'
      BY <2>2, <2>3
    <3>5. (ChunkEnds(Answer(k), Len(Answer(k).chunks)))' = e
      BY <2>3 DEF LastEnds, ChunkEnds, ChunksOf
    <3>6. (Taken = BodyAt(k) + ChunkEnds(Answer(k), Len(Answer(k).chunks)) + 3 + TrailerEnds(Answer(k), t + 1))'
      BY <1>9, <2>3, <2>4, <3>5
    <3>7. (Until(BodyAt(k) + ChunkEnds(Answer(k), Len(Answer(k).chunks)) + 3 + TrailerEnds(Answer(k), (t + 1) + 1)))'
      BY <3>1 DEF Until
    <3> QED BY <2>2, <2>6, <3>2, <3>3, <3>4, <3>6, <3>7 DEF InTrailers
  <2>8. InAnswer(k)'
    <3>1. t + 1 \in 0 .. T
      <4>1. T \in Nat /\ t \in 0 .. T
        BY <1>5
      <4>2. t < T
        BY <1>18
      <4> HIDE DEF T
      <4> QED BY <4>1, <4>2
    <3>2. (\E i \in 0 .. Len(Answer(k).trailers) : InTrailers(k, i))'
      BY <2>3, <2>7, <3>1
    <3> QED BY <3>2 DEF InAnswer
  <2> QED BY <1>1, <1>3, <1>12, <2>2, <2>8, AnswerTurn
<1> QED BY <1>11, <1>14, <1>15, <1>17, <1>18

LEMMA ParseResponseStepPlaces ==
  ASSUME IInv, ProxyInv, side = "response", SizesFit, ParseResponseStep, UNCHANGED <<parser, loopVars>>
  PROVE  ProxyInv'
<1>1. CASE ParseNoStatusLine
  BY <1>1, NoHeadLinePlaces, NoSizeLinePlaces, NoTrailerLinePlaces DEF ParseNoStatusLine, InLines
<1>2. CASE ParseFixedBody \/ ParseChunkBody \/ ParseEofBody
  BY <1>2, FixedBodyPlaces, ChunkBodyPlaces, EofBodyPlaces
<1>3. CASE ParseStatusLine \/ ParseChunkSize \/ ParseTrailer
  BY <1>3, StatusLinePlaces, ChunkSizePlaces, TrailerPlaces
<1>4. CASE ParseResponseHeader \/ FinishResponseHeaders
  BY <1>4, ResponseHeaderPlaces, FinishResponseHeadersPlaces
<1> QED BY <1>1, <1>2, <1>3, <1>4 DEF ParseResponseStep

-----------------------------------------------------------------------------
(* The proxy's loop *)

\* Where the parser is does not depend on where the coroutine is.
LEMMA StillAnswer ==
  ASSUME UNCHANGED <<limits, messages, wire, responseParser>>, Taken' = Taken, NEW k, InAnswer(k),
         \/ result' = "Running"
         \/ result = "NeedMore" /\ result' = "NeedMore" /\ sent' = sent
  PROVE  InAnswer(k)'
<1>1. /\ (Answer(k))' = Answer(k) /\ result' \in {"Running", "NeedMore"}
  BY DEF Answer
<1>2. \A end : Until(end) => (result' = "NeedMore" => sent' < end)
  BY DEF Until
<1>3. BeforeStatus(k) => BeforeStatus(k)'
  BY <1>1, <1>2, StillIn DEF BeforeStatus
<1>4. InResponseHead(k) => InResponseHead(k)'
  BY <1>1, <1>2, StillIn DEF InResponseHead
<1>5. (InFixedBody(k) => InFixedBody(k)') /\ (InEofBody(k) => InEofBody(k)')
  BY <1>1, StillIn
<1>6. \A j : BeforeSize(k, j) => BeforeSize(k, j)'
  BY <1>1, <1>2, StillIn DEF BeforeSize
<1>7. \A j : InChunk(k, j) => InChunk(k, j)'
  BY <1>1, <1>2, StillIn DEF InChunk
<1>8. \A t : InTrailers(k, t) => InTrailers(k, t)'
  BY <1>1, <1>2, StillIn DEF InTrailers
<1>9. CASE BeforeStatus(k) \/ InResponseHead(k) \/ InFixedBody(k) \/ InEofBody(k)
  BY <1>3, <1>4, <1>5, <1>9 DEF InAnswer
<1>10. CASE \E j \in 0 .. Len(Answer(k).chunks) : BeforeSize(k, j) \/ InChunk(k, j)
  <2>1. PICK j \in 0 .. Len(Answer(k).chunks) : BeforeSize(k, j) \/ InChunk(k, j)
    BY <1>10
  <2>2. BeforeSize(k, j)' \/ InChunk(k, j)'
    BY <1>6, <1>7, <2>1
  <2>3. (\E i \in 0 .. Len(Answer(k).chunks) : BeforeSize(k, i) \/ InChunk(k, i))'
    BY <1>1, <2>1, <2>2
  <2> QED BY <2>3 DEF InAnswer
<1>11. CASE \E t \in 0 .. Len(Answer(k).trailers) : InTrailers(k, t)
  <2>1. PICK t \in 0 .. Len(Answer(k).trailers) : InTrailers(k, t)
    BY <1>11
  <2>2. InTrailers(k, t)'
    BY <1>8, <2>1
  <2>3. (\E i \in 0 .. Len(Answer(k).trailers) : InTrailers(k, i))'
    BY <1>1, <2>1, <2>2
  <2> QED BY <2>3 DEF InAnswer
<1> QED BY <1>9, <1>10, <1>11 DEF InAnswer

LEMMA ReadOn ==
  ASSUME ProxyInv, side = "response", pc # "closed", result = "NeedMore",
         UNCHANGED <<limits, messages, wire, responseParser, outcome>>, Buffered', Taken' = Taken,
         pc' # "closed", pc' = "read" => result' = "NeedMore",
         result' = "Running" \/ (result' = "NeedMore" /\ sent' = sent)
  PROVE  ProxyInv'
<1>1. Undecided
  BY DEF Undecided
<1>2. PICK k \in 0 .. Len(messages) : Skipped(k) /\ InAnswer(k)
  BY <1>1, SomeAnswer
<1>3. InAnswer(k)'
  BY <1>2, StillAnswer
<1>4. (Skipped(k))' /\ k \in 0 .. Len(messages')
  BY <1>2, AnswerSteady
<1>5. AnswerPlace'
  BY <1>3, <1>4 DEF AnswerPlace
<1>6. AnswersInv /\ outcome = "none"
  BY DEF ProxyInv, AnswerOutcome
<1>7. AnswersInv'
  BY <1>6 DEF AnswersInv
<1>8. AnswerOutcome'
  BY <1>6 DEF AnswerOutcome, ResponseErrors
<1> QED BY <1>5, <1>7, <1>8 DEF ProxyInv

LEMMA ReadResponsePlaces ==
  ASSUME IInv, ProxyInv, ReadResponse
  PROVE  ProxyInv'
<1>1. /\ side = "response" /\ StartRead /\ pc = "parse" /\ result = "NeedMore"
      /\ UNCHANGED <<limits, wire, sent, result>> /\ UNCHANGED <<responseParser, messages, outcome>>
  BY DEF ReadResponse, StartRead, loopVars
<1>2. Buffered
  BY <1>1 DEF ProxyInv
<1>3. input'.bytes = input.bytes /\ pc' \in {"failed", "read"}
  <2>1. CASE PrepareThrows(input, limits.read_chunk, limits.max_buffer)
    BY <1>1, <2>1 DEF StartRead
  <2>2. CASE ~PrepareThrows(input, limits.read_chunk, limits.max_buffer)
    BY <1>1, <2>2, LimitsTyped, PrepareKeeps DEF StartRead, IInv, BufferInv
  <2> QED BY <2>1, <2>2
<1>4. Buffered' /\ Taken' = Taken
  BY <1>1, <1>2, <1>3, SameBytes
<1> QED BY <1>1, <1>3, <1>4, ReadOn

LEMMA ReceiveResponsePlaces ==
  ASSUME IInv, ProxyInv, NEW count, ReceiveResponse(count)
  PROVE  ProxyInv'
<1>1. /\ side = "response" /\ Receive(count) /\ pc = "read" /\ pc' = "parse" /\ result' = "Running"
      /\ UNCHANGED <<limits, wire>> /\ UNCHANGED <<responseParser, messages, outcome>>
  BY DEF ReceiveResponse, Receive, loopVars
<1>2. Buffered /\ result = "NeedMore"
  BY <1>1 DEF ProxyInv
<1>3. Buffered' /\ Taken' = Taken
  BY <1>1, <1>2, ReceivedBuffered
<1> QED BY <1>1, <1>2, <1>3, ReadOn

-----------------------------------------------------------------------------
(* A proxy that waits has not got the whole answer *)

Waits == /\ EndsItself /\ FinalFault = "none" => sent < FinalEnd
         /\ FinalFault # "none" => sent < Len(wire)

LEMMA ShortOfHead ==
  ASSUME IInv, ProxyInv, side = "response", NEW k \in 0 .. Len(messages) - 1, Skipped(k),
         NEW e \in Nat, e <= HeadBytes(Answer(k)), sent < StartOf(k) + e
  PROVE  Waits
<1> DEFINE n == Len(messages)
           f == Final
           a == StartOf(k)
           h == HeadBytes(Answer(k))
           l == Len(Encoded(Answer(k)))
           b == StartOf(f - 1)
           c == StartOf(f)
           w == Len(wire)
           x == HeadBytes(messages[f])
           y == Len(Encoded(messages[f]))
<1>1. Streaming /\ n \in Nat /\ f \in 1 .. n /\ f >= k + 1 /\ sent \in Nat /\ w \in Nat
  BY ProxyFacts, FinalIs
<1>2. a \in Nat /\ h \in Nat /\ l \in Nat /\ h <= l
  <2>1. k \in 0 .. n
    BY <1>1
  <2>2. a \in Nat /\ Answer(k) \in Messages
    BY <1>1, <2>1, Starts, ProxyFacts
  <2>3. h \in Nat /\ l = h + Len(Answer(k).body) /\ Len(Answer(k).body) \in Nat
    BY <2>2, HeadAt, LinesOf
  <2> HIDE DEF h, l
  <2> QED BY <2>2, <2>3
<1>3. b \in Nat /\ c \in Nat /\ c = b + y /\ c <= w /\ FinalStart = b
  <2>1. f - 1 \in 0 .. n - 1 /\ f - 1 \in 0 .. n /\ f \in 0 .. n /\ (f - 1) + 1 = f
    BY <1>1
  <2> HIDE DEF n
  <2>2. b \in Nat /\ c \in Nat /\ c <= w /\ StartOf((f - 1) + 1) = b + Len(Encoded(messages[(f - 1) + 1]))
    BY <1>1, <2>1, Starts DEF n
  <2> QED BY <2>1, <2>2 DEF FinalStart, StartOf
<1>4. x \in Nat /\ y \in Nat /\ x <= y
  <2>1. messages[f] \in Messages
    BY <1>1 DEF Streaming
  <2>3. \A m \in Messages : /\ HeadBytes(m) \in Nat /\ Len(Encoded(m)) = HeadBytes(m) + Len(m.body)
                            /\ Len(m.body) \in Nat
    BY HeadAt, LinesOf
  <2>2. x \in Nat /\ y = x + Len(messages[f].body) /\ Len(messages[f].body) \in Nat
    BY <2>1, <2>3
  <2> HIDE DEF x, y
  <2> QED BY <2>2
<1>5. sent < b + x
  <2>1. CASE f = k + 1
    <3>1. f - 1 = k
      BY <1>1, <2>1
    <3>2. b = a /\ x = h
      BY <2>1, <3>1 DEF Answer
    <3> HIDE DEF n, f, a, h, l, b, c, w, x, y
    <3> QED BY <1>1, <1>2, <3>2 DEF a, h
  <2>2. CASE f # k + 1
    <3>1. k + 1 \in 0 .. n /\ f - 1 \in 0 .. n /\ k + 1 <= f - 1
      BY <1>1, <2>2
    <3>2. StartOf(k + 1) <= b /\ StartOf(k + 1) = a + l
      BY <1>1, <3>1, StartsGrow, Starts DEF Answer
    <3>3. sent < a + e /\ e <= h
      OBVIOUS
    <3> HIDE DEF n, f, a, h, l, b, c, w, x, y
    <3> QED BY <1>1, <1>2, <1>3, <1>4, <3>2, <3>3
  <2> QED BY <2>1, <2>2
<1>6. sent < b + x /\ sent < b + y /\ sent < w
  <2> HIDE DEF n, f, a, h, l, b, c, w, x, y
  <2> QED BY <1>1, <1>3, <1>4, <1>5
<1>7. FinalEnd = b + x \/ FinalEnd = b + y
  BY <1>3 DEF FinalEnd, BodyStart
<1> QED BY <1>6, <1>7 DEF Waits

LEMMA ShortOfBody ==
  ASSUME IInv, ProxyInv, side = "response", NEW k \in 0 .. Len(messages) - 1, Skipped(k),
         HasFraming(k, "fixed") \/ HasFraming(k, "chunked"),
         NEW e \in Nat, e <= Len(Answer(k).body), sent < BodyAt(k) + e
  PROVE  Waits
<1> DEFINE b == BodyAt(k)
           l == Len(Answer(k).body)
           w == Len(wire)
<1>1. b \in Nat /\ l \in Nat /\ At(wire, b, Answer(k).body) /\ StartOf(k) + Len(Encoded(Answer(k))) = b + l
  BY BodyInWire
<1>2. b + l <= w
  BY <1>1 DEF At
<1>3. FinalEnd = b + l
  BY <1>1, Verdict DEF HasFraming
<1>4. sent \in Nat /\ w \in Nat
  BY ProxyFacts
<1>5. sent < b + e /\ e <= l
  OBVIOUS
<1> HIDE DEF b, l, w
<1>6. sent < b + l /\ sent < w
  BY <1>1, <1>2, <1>4, <1>5
<1> QED BY <1>3, <1>6 DEF Waits, w

\* The lines and chunks of a chunked body lie inside it.
LEMMA InsideBody ==
  ASSUME IInv, ProxyInv, side = "response", NEW k \in 0 .. Len(messages) - 1, HasFraming(k, "chunked")
  PROVE  LET m == Answer(k)
             b == Len(m.body)
         IN  /\ \A j \in 0 .. Len(m.chunks) - 1 : ChunkEnds(m, j + 1) \in Nat /\ ChunkEnds(m, j + 1) <= b
             /\ \A j \in 0 .. Len(m.chunks) :
                  /\ ChunkEnds(m, j) + Len(SizeLine(m, j)) + 2 \in Nat
                  /\ ChunkEnds(m, j) + Len(SizeLine(m, j)) + 2 <= b
             /\ \A t \in 0 .. Len(m.trailers) :
                  /\ LastEnds(k) + 3 + TrailerEnds(m, t + 1) \in Nat
                  /\ LastEnds(k) + 3 + TrailerEnds(m, t + 1) <= b
<1> DEFINE m == Answer(k)
           b == Len(m.body)
           n == Len(m.chunks)
           T == Len(m.trailers)
           e == LastEnds(k)
           p == BodyAt(k)
<1>1. /\ m \in Messages /\ InChunks(m) /\ n \in Nat /\ T \in Nat /\ e \in Nat /\ p \in Nat
      /\ m.body \in Seq(Bytes)
  BY ChunkedFacts
<1>2. m.body = ChunkedBody(m.chunks, m.trailers) /\ b \in Nat /\ e = ChunkEnds(m, n)
  BY <1>1 DEF InChunks, LastEnds
<1>3. /\ \A j \in 0 .. n - 1 : ChunkEnds(m, j + 1) \in Nat /\ ChunkEnds(m, j + 1) <= e
      /\ \A t \in 0 .. T : TrailerEnds(m, t + 1) \in Nat /\ e + 3 + TrailerEnds(m, t + 1) <= b
  <2> HIDE DEF m
  <2> QED BY <1>1, <1>2, ChunkedAt
<1>4. e + 3 <= b
  <2>1. T \in 0 .. T
    BY <1>1
  <2> DEFINE z == TrailerEnds(m, T + 1)
  <2>2. z \in Nat /\ e + 3 + z <= b
    BY <1>3, <2>1
  <2> HIDE DEF z, e, b
  <2> QED BY <1>1, <1>2, <2>2, SMTT(30)
<1>5. ASSUME NEW j \in 0 .. n - 1 PROVE ChunkEnds(m, j + 1) \in Nat /\ ChunkEnds(m, j + 1) <= b
  <2> DEFINE y == ChunkEnds(m, j + 1)
  <2>1. y \in Nat /\ y <= e
    BY <1>3
  <2> HIDE DEF y, e, b
  <2>2. y \in Nat /\ y <= b
    BY <1>1, <1>2, <1>4, <2>1
  <2> QED BY <2>2 DEF y
<1>6. ASSUME NEW j \in 0 .. n
      PROVE  /\ ChunkEnds(m, j) + Len(SizeLine(m, j)) + 2 \in Nat
             /\ ChunkEnds(m, j) + Len(SizeLine(m, j)) + 2 <= b
  <2> DEFINE x == ChunkEnds(m, j)
             s == Len(SizeLine(m, j))
  <2>1. x \in Nat /\ s \in Nat /\ (j = n => s = 1)
    BY SizeLineAt
  <2>2. CASE j = n
    <3>1. x = e /\ s = 1
      BY <1>2, <2>1, <2>2
    <3> HIDE DEF x, s, e, b
    <3>2. x + s + 2 \in Nat /\ x + s + 2 <= b
      BY <1>1, <1>2, <1>4, <3>1, SMTT(30)
    <3> QED BY <3>2 DEF x, s
  <2>3. CASE j # n
    <3>1. j \in 0 .. n - 1
      BY <1>1, <2>3
    <3> DEFINE y == ChunkEnds(m, j + 1)
               c == m.chunks[j + 1]
               q == p + x + s + 2
               u == Len(c.data)
               v == Len(c.end)
    <3>2. p + y = q + u + v /\ u \in Nat /\ v \in Nat
      BY <3>1, ChunkAt
    <3>3. y \in Nat /\ y <= b
      BY <1>5, <3>1
    <3> HIDE DEF x, s, y, u, v, p, b
    <3>4. x + s + 2 \in Nat /\ x + s + 2 <= b
      BY <1>1, <1>2, <2>1, <3>2, <3>3
    <3> QED BY <3>4 DEF x, s
  <2> QED BY <2>2, <2>3
<1>7. ASSUME NEW t \in 0 .. T PROVE e + 3 + TrailerEnds(m, t + 1) \in Nat
  <2> DEFINE y == TrailerEnds(m, t + 1)
  <2>1. y \in Nat
    BY <1>3
  <2> HIDE DEF y, e
  <2>2. e + 3 + y \in Nat
    BY <1>1, <2>1
  <2> QED BY <2>2 DEF y
<1> QED BY <1>3, <1>5, <1>6, <1>7

LEMMA HeadWaits ==
  ASSUME IInv, ProxyInv, side = "response", result = "NeedMore", NEW k \in 0 .. Len(messages), Skipped(k),
         BeforeStatus(k) \/ InResponseHead(k)
  PROVE  Waits
<1>1. Len(messages) \in Nat
  BY ProxyFacts
<1>2. CASE BeforeStatus(k) /\ k = Len(messages)
  BY <1>2, FinalIs DEF Skipped, Framing, FinalFault, Waits, EndsItself
<1>3. CASE k < Len(messages)
  <2> DEFINE c == Len(responseParser.headers)
             m == Answer(k)
  <2>1. k \in 0 .. Len(messages) - 1
    BY <1>1, <1>3
  <2>2. m \in Messages /\ Len(m.headers) \in Nat /\ responseParser \in ResponseParsers
    BY <2>1, ProxyFacts
  <2>3. c \in Nat
    BY <2>2 DEF ResponseParsers
  <2>4. \A j \in 0 .. Len(m.headers) + 1 : Ends(m, j + 1) \in Nat /\ Ends(m, j + 1) <= HeadBytes(m)
    <3> HIDE DEF m
    <3> QED BY <2>2, HeadAt
  <2>5. CASE BeforeStatus(k)
    BY <1>3, <2>5, <2>2, <2>4, <2>1, ShortOfHead DEF BeforeStatus, Until
  <2>6. CASE InResponseHead(k)
    <3>1. sent < StartOf(k) + Ends(m, c + 2) /\ c <= Len(m.headers)
      BY <2>6 DEF InResponseHead, LinesTaken, Until
    <3>2. c + 1 \in 0 .. Len(m.headers) + 1 /\ (c + 1) + 1 = c + 2
      BY <2>2, <2>3, <3>1
    <3>3. Ends(m, c + 2) \in Nat /\ Ends(m, c + 2) <= HeadBytes(m)
      BY <2>4, <3>2
    <3> QED BY <2>1, <3>1, <3>3, ShortOfHead
  <2> QED BY <2>5, <2>6
<1> QED BY <1>1, <1>2, <1>3 DEF InResponseHead

LEMMA BodyWaits ==
  ASSUME IInv, ProxyInv, side = "response", result = "NeedMore", NEW k \in 0 .. Len(messages), Skipped(k),
         InFixedBody(k) \/ InEofBody(k)
  PROVE  Waits
<1>1. k \in 0 .. Len(messages) - 1
  BY ProxyFacts DEF InFixedBody, InEofBody, HasFraming
<1> DEFINE b == BodyAt(k)
           n == Len(responseParser.body)
           l == Len(Answer(k).body)
           w == Len(wire)
<1>2. sent = b + n
  <2>1. responseParser.state \in {"FixedBody", "EofBody"}
    BY DEF InFixedBody, InEofBody
  <2>2. Len(input.bytes) = 0
    BY <2>1 DEF IInv, ResponseWaits
  <2>3. sent = Taken + Len(input.bytes) /\ Taken \in Nat
    BY ProxyFacts
  <2>4. Taken = b + n
    BY DEF InFixedBody, InEofBody
  <2> HIDE DEF b, n
  <2> QED BY <2>2, <2>3, <2>4
<1>3. b \in Nat /\ l \in Nat /\ n \in Nat /\ limits.body \in Nat
  <2>1. responseParser \in ResponseParsers
    BY ProxyFacts
  <2>2. n \in Nat
    BY <2>1 DEF ResponseParsers
  <2> QED BY <1>1, <2>2, BodyInWire, ProxyFacts
<1>4. CASE InFixedBody(k)
  <2>1. n < l /\ HasFraming(k, "fixed")
    BY <1>4 DEF InFixedBody
  <2>2. sent < b + l
    <3> HIDE DEF b, n, l
    <3> QED BY <1>2, <1>3, <2>1
  <2>3. l <= l
    BY <1>3
  <2> QED BY <1>1, <1>3, <2>1, <2>2, <2>3, ShortOfBody
<1>5. CASE InEofBody(k)
  <2>1. HasFraming(k, "eof") /\ n <= limits.body
    BY <1>5 DEF InEofBody
  <2>2. Meaning(Answer(k).line) # "s100" /\ ResponseFault(Answer(k)) = "none" /\ Framing(Answer(k)) = "eof"
    BY <2>1 DEF HasFraming
  <2>3. ~(sent - b > limits.body)
    <3> HIDE DEF b, n
    <3> QED BY <1>2, <1>3, <2>1
  <2>4. FinalFault = "none" /\ ~EndsItself
    BY <1>1, <2>2, <2>3, Verdict
  <2> QED BY <2>4 DEF Waits
<1> QED BY <1>4, <1>5

LEMMA ChunksWait ==
  ASSUME IInv, ProxyInv, side = "response", result = "NeedMore", NEW k \in 0 .. Len(messages), Skipped(k),
         responseParser.state \in {"ChunkSize", "ChunkBody", "Trailers"}, InAnswer(k)
  PROVE  Waits
<1> DEFINE m == Answer(k)
           b == BodyAt(k)
<1>1. k \in 0 .. Len(messages) - 1
  <2>1. Len(messages) \in Nat
    BY ProxyFacts
  <2>2. k < Len(messages)
    BY PlaceOfState
  <2> QED BY <2>1, <2>2
<1>2. b \in Nat
  BY <1>1, BodyInWire
<1>3. CASE responseParser.state = "ChunkSize"
  <2>1. PICK j \in 0 .. Len(m.chunks) : BeforeSize(k, j)
    BY <1>3, PlaceOfState
  <2> DEFINE x == ChunkEnds(m, j)
             s == Len(SizeLine(m, j))
             e == x + s + 2
  <2>2. HasFraming(k, "chunked") /\ Taken = b + x /\ sent < Taken + s + 2
    BY <2>1 DEF BeforeSize, ChunksTaken, Until
  <2>3. e \in Nat /\ e <= Len(m.body) /\ x \in Nat /\ s \in Nat
    BY <1>1, <2>2, InsideBody, SizeLineAt
  <2>4. sent < b + e
    <3>1. sent \in Nat
      BY ProxyFacts
    <3> HIDE DEF b, x, s
    <3> QED BY <1>2, <2>2, <2>3, <3>1
  <2> HIDE DEF e
  <2> QED BY <1>1, <2>2, <2>3, <2>4, ShortOfBody
<1>4. CASE responseParser.state = "ChunkBody"
  <2>1. PICK j \in 0 .. Len(m.chunks) : InChunk(k, j)
    BY <1>4, PlaceOfState
  <2>2. HasFraming(k, "chunked") /\ j < Len(m.chunks) /\ sent < b + ChunkEnds(m, j + 1)
    BY <2>1 DEF InChunk, ChunksTaken, Until
  <2>3. j \in 0 .. Len(m.chunks) - 1
    <3>1. Len(m.chunks) \in Nat
      BY <1>1, <2>2, ChunkedFacts
    <3> QED BY <2>2, <3>1
  <2>4. ChunkEnds(m, j + 1) \in Nat /\ ChunkEnds(m, j + 1) <= Len(m.body)
    BY <1>1, <2>2, <2>3, InsideBody
  <2> QED BY <1>1, <2>2, <2>4, ShortOfBody
<1>5. CASE responseParser.state = "Trailers"
  <2>1. PICK t \in 0 .. Len(m.trailers) : InTrailers(k, t)
    BY <1>5, PlaceOfState
  <2> DEFINE z == TrailerEnds(m, t + 1)
             l == LastEnds(k)
             e == l + 3 + z
  <2>2. HasFraming(k, "chunked") /\ sent < b + l + 3 + z
    BY <2>1 DEF InTrailers, ChunksTaken, Until, LastEnds
  <2>3. e \in Nat /\ e <= Len(m.body) /\ l \in Nat
    BY <1>1, <2>2, InsideBody, ChunkedFacts
  <2>4. sent < b + e
    <3>1. sent \in Nat /\ z \in Nat
      <4>1. /\ Answer(k) \in Messages /\ Answer(k).body = ChunkedBody(Answer(k).chunks, Answer(k).trailers)
        BY <1>1, <2>2, ChunkedFacts DEF InChunks
      <4> HIDE DEF m
      <4>2. TrailerEnds(Answer(k), t + 1) \in Nat
        BY <4>1, ChunkedAt DEF m
      <4> QED BY <4>2, ProxyFacts DEF m
    <3> HIDE DEF b, z, l
    <3> QED BY <1>2, <2>2, <2>3, <3>1
  <2> HIDE DEF e
  <2> QED BY <1>1, <2>2, <2>3, <2>4, ShortOfBody
<1> QED BY <1>3, <1>4, <1>5

LEMMA AnswerWaits ==
  ASSUME IInv, ProxyInv, side = "response", pc = "read"
  PROVE  Waits
<1>1. result = "NeedMore" /\ Undecided
  BY DEF ProxyInv, Undecided
<1>2. PICK k \in 0 .. Len(messages) : Skipped(k) /\ InAnswer(k)
  BY <1>1, SomeAnswer
<1> QED BY <1>1, <1>2, PlaceOfState, HeadWaits, BodyWaits, ChunksWait

-----------------------------------------------------------------------------
(* The end of an answer *)

\* What must hold of a result, given in terms of the state before it.
LEMMA AnswerCloses ==
  ASSUME IInv, ProxyInv, side = "response", UNCHANGED <<limits, messages, wire, sent, input>>, pc' = "closed",
         responseParser'.head_request = responseParser.head_request,
         outcome' \in {"Complete", "Reusable"} =>
            /\ FinalFault = "none" /\ responseParser'.body = FinalBody
            /\ Framing(messages[Final]) # "informational"
            /\ EndsItself => sent >= FinalEnd
            /\ outcome' = "Reusable" => EndsItself /\ sent = FinalEnd,
         outcome' = "PrematureEof" /\ FinalFault = "none" /\ EndsItself => sent < FinalEnd,
         outcome' \in ResponseErrors \ {"PrematureEof"} => FinalOwnFault(outcome')
  PROVE  ProxyInv'
<1>1. /\ FinalFault' = FinalFault /\ FinalBody' = FinalBody
      /\ \A e : FinalOwnFault(e)' <=> FinalOwnFault(e)
  BY VerdictSteady
<1>2. /\ FinalEnd' = FinalEnd /\ ((EndsItself)' <=> EndsItself)
      /\ (Framing(messages[Final]))' = Framing(messages[Final])
  BY AnswerSteady
<1>3. AnswersInv /\ Buffered
  BY DEF ProxyInv
<1>4. AnswersInv'
  BY <1>3 DEF AnswersInv
<1>5. Buffered'
  BY <1>3, SameBytes
<1>6. outcome' \in ResponseErrors \ {"PrematureEof"} => FinalOwnFault(outcome)'
  <2>1. SUFFICES ASSUME outcome' \in ResponseErrors \ {"PrematureEof"} PROVE FinalOwnFault(outcome)'
    OBVIOUS
  <2>2. PICK e : e = outcome'
    OBVIOUS
  <2>3. FinalOwnFault(e)'
    BY <1>1, <2>1, <2>2
  <2> QED BY <2>2, <2>3 DEF FinalOwnFault
<1>7. AnswerOutcome'
  BY <1>1, <1>2, <1>6 DEF AnswerOutcome, ResponseErrors
<1>8. AnswerPlace'
  BY DEF AnswerPlace
<1> QED BY <1>4, <1>5, <1>7, <1>8 DEF ProxyInv

LEMMA UpstreamClosesPlaces ==
  ASSUME IInv, ProxyInv, UpstreamCloses
  PROVE  ProxyInv'
<1>1. /\ side = "response" /\ pc = "read" /\ finishOnEof /\ pc' = "closed" /\ outcome' = result'
      /\ UNCHANGED <<limits, messages, wire, sent, input>>
  BY DEF UpstreamCloses
<1>2. responseParser \in ResponseParsers
  BY <1>1, ProxyFacts
<1>3. result = "NeedMore" /\ Undecided /\ Waits
  BY <1>1, AnswerWaits DEF ProxyInv, Undecided
<1>4. CASE responseParser.state = "EofBody"
  <2>1. /\ responseParser' = [responseParser EXCEPT !.state = "Complete"] /\ result' = "Complete"
    BY <1>1, <1>4 DEF finishOnEof, Becomes
  <2>2. responseParser'.head_request = responseParser.head_request /\ responseParser'.body = responseParser.body
    BY <1>2, <2>1 DEF ResponseParsers
  <2>3. PICK k \in 0 .. Len(messages) : Skipped(k) /\ InAnswer(k)
    BY <1>1, <1>3, SomeAnswer
  <2>4. InEofBody(k)
    BY <1>4, <2>3, PlaceOfState
  <2>5. k \in 0 .. Len(messages) - 1
    BY <1>1, <2>4, ProxyFacts DEF InEofBody, HasFraming
  <2>6. Meaning(Answer(k).line) # "s100" /\ ResponseFault(Answer(k)) = "none" /\ Framing(Answer(k)) = "eof"
    BY <2>4 DEF InEofBody, HasFraming
  <2>7. messages[Final] = Answer(k) /\ BodyStart = BodyAt(k) /\ ~EndsItself
    BY <1>1, <2>3, <2>5, <2>6, Verdict
  <2>8. Taken = sent
    <3>1. Len(input.bytes) = 0
      BY <1>1, <1>3, <1>4 DEF IInv, ResponseWaits
    <3>2. sent = Taken + Len(input.bytes) /\ Taken \in Nat
      BY <1>1, ProxyFacts
    <3> QED BY <3>1, <3>2
  <2>9. responseParser.body = FinalBody
    BY <2>4, <2>8, <2>6, <2>7 DEF InEofBody, FinalBody
  <2>10. FinalFault = "none"
    <3> DEFINE b == BodyAt(k)
               n == Len(responseParser.body)
    <3>1. sent = b + n /\ n <= limits.body
      BY <2>4, <2>8 DEF InEofBody
    <3>2. b \in Nat /\ n \in Nat /\ limits.body \in Nat
      BY <1>2, <1>1, <2>5, BodyInWire, ProxyFacts DEF ResponseParsers
    <3>3. ~(sent - b > limits.body)
      <4> HIDE DEF b, n
      <4> QED BY <3>1, <3>2
    <3> QED BY <1>1, <2>3, <2>5, <2>6, <3>3, Verdict
  <2>11. Framing(messages[Final]) # "informational" /\ outcome' = "Complete"
    BY <1>1, <2>1, <2>6, <2>7
  <2> QED BY <1>1, <2>2, <2>7, <2>9, <2>10, <2>11, AnswerCloses DEF ResponseErrors
<1>5. CASE responseParser.state # "EofBody"
  <2>1. responseParser' = [responseParser EXCEPT !.state = "Error"] /\ result' = "PrematureEof"
    BY <1>1, <1>5 DEF finishOnEof, ResponseFails
  <2>2. responseParser'.head_request = responseParser.head_request
    BY <1>2, <2>1 DEF ResponseParsers
  <2>3. outcome' = "PrematureEof" /\ (FinalFault = "none" /\ EndsItself => sent < FinalEnd)
    BY <1>1, <1>3, <2>1 DEF Waits
  <2> QED BY <1>1, <2>2, <2>3, AnswerCloses
<1> QED BY <1>4, <1>5

LEMMA EndResponsePlaces ==
  ASSUME IInv, ProxyInv, EndResponse
  PROVE  ProxyInv'
<1>1. /\ side = "response" /\ pc = "parse" /\ pc' = "closed" /\ result \in {"Complete"} \cup ResponseErrors
      /\ UNCHANGED <<limits, messages, wire, sent, input, responseParser>>
      /\ outcome' = IF result = "Complete" /\ reusable(responseParser) /\ Len(input.bytes) = 0
                    THEN "Reusable" ELSE result
  BY DEF EndResponse, readableBytes
<1>2. AtAnswerEnd \/ AtAnswerFault
  BY <1>1, PlaceOfState DEF Undecided, ResponseErrors, ProxyInv, AnswerPlace
<1>3. CASE AtAnswerEnd
  <2>1. /\ result = "Complete" /\ FinalFault = "none" /\ EndsItself /\ responseParser.body = FinalBody
        /\ Taken = FinalEnd
    BY <1>3 DEF AtAnswerEnd
  <2>2. sent >= FinalEnd /\ (Len(input.bytes) = 0 => sent = FinalEnd)
    <3> DEFINE e == FinalEnd
               n == Len(input.bytes)
    <3>1. sent = Taken + n /\ Taken \in Nat /\ n \in Nat /\ sent \in Nat /\ Taken = e
      BY <1>1, <2>1, ProxyFacts
    <3> HIDE DEF e, n
    <3>2. sent >= e /\ (n = 0 => sent = e)
      BY <3>1
    <3> QED BY <3>2 DEF e, n
  <2>3. outcome' \in {"Complete", "Reusable"} /\ (outcome' = "Reusable" => Len(input.bytes) = 0)
    BY <1>1, <2>1
  <2>4. Framing(messages[Final]) # "informational"
    BY <2>1 DEF EndsItself
  <2> QED BY <1>1, <2>1, <2>2, <2>3, <2>4, AnswerCloses DEF ResponseErrors
<1>4. CASE AtAnswerFault
  BY <1>4, <1>1, AnswerCloses DEF AtAnswerFault, ResponseErrors
<1> QED BY <1>2, <1>3, <1>4

LEMMA AnswerRests ==
  ASSUME IInv, ProxyInv, UNCHANGED vars
  PROVE  ProxyInv'
<1>1. /\ limits' = limits /\ wire' = wire /\ sent' = sent /\ input' = input /\ pc' = pc
      /\ result' = result /\ responseParser' = responseParser /\ side' = side /\ messages' = messages
      /\ outcome' = outcome
  BY DEF vars, readerVars, loopVars
<1>2. SUFFICES ASSUME side = "response" PROVE ProxyInv'
  BY <1>1 DEF ProxyInv
<1>3. AnswersInv /\ Buffered /\ AnswerPlace /\ AnswerOutcome /\ (pc = "read" => result = "NeedMore")
  BY <1>2 DEF ProxyInv
<1>4. CASE pc = "closed"
  <2>1. outcome' \in ResponseErrors \ {"PrematureEof"} => FinalOwnFault(outcome')
    BY <1>1, <1>3 DEF AnswerOutcome
  <2> QED BY <1>1, <1>2, <1>3, <1>4, <2>1, AnswerCloses DEF AnswerOutcome
<1>5. CASE pc # "closed"
  <2>1. AnswersInv'
    BY <1>1, <1>3 DEF AnswersInv
  <2>2. Buffered' /\ Taken' = Taken
    BY <1>1, <1>3, SameBytes
  <2>3. outcome = "none"
    BY <1>3, <1>5 DEF AnswerOutcome
  <2>4. AnswerOutcome'
    BY <1>1, <2>3 DEF AnswerOutcome, ResponseErrors
  <2>5. /\ FinalFault' = FinalFault /\ FinalBody' = FinalBody
        /\ \A e : FinalOwnFault(e)' <=> FinalOwnFault(e)
    BY <1>1, VerdictSteady
  <2>6. FinalEnd' = FinalEnd /\ ((EndsItself)' <=> EndsItself)
    BY <1>1, AnswerSteady
  <2>7. AnswerPlace'
    <3>1. CASE AtAnswerEnd
      BY <1>1, <2>2, <2>5, <2>6, <3>1 DEF AtAnswerEnd, AnswerPlace
    <3>2. CASE AtAnswerFault
      <4>1. PICK e : e = result
        OBVIOUS
      <4>2. FinalOwnFault(e)' /\ e \in ResponseErrors \ {"PrematureEof"}
        BY <2>5, <3>2, <4>1 DEF AtAnswerFault
      <4>3. AtAnswerFault'
        BY <1>1, <4>1, <4>2 DEF AtAnswerFault, FinalOwnFault
      <4> QED BY <4>3 DEF AnswerPlace
    <3>3. CASE \E k \in 0 .. Len(messages) : Skipped(k) /\ InAnswer(k)
      <4>1. PICK k \in 0 .. Len(messages) : Skipped(k) /\ InAnswer(k)
        BY <3>3
      <4>2. result \in {"Running", "NeedMore"}
        BY <4>1, PlaceOfState DEF Undecided
      <4>3. InAnswer(k)'
        BY <1>1, <2>2, <4>1, <4>2, StillAnswer
      <4>4. (Skipped(k))' /\ k \in 0 .. Len(messages')
        BY <1>1, <4>1, AnswerSteady
      <4> QED BY <4>3, <4>4 DEF AnswerPlace
    <3> QED BY <1>3, <1>5, <3>1, <3>2, <3>3 DEF AnswerPlace
  <2> QED BY <1>1, <1>3, <2>1, <2>2, <2>4, <2>7 DEF ProxyInv
<1> QED BY <1>4, <1>5

LEMMA InitAnswers ==
  ASSUME Init
  PROVE  ProxyInv
<1>0. SUFFICES ASSUME side = "response" PROVE ProxyInv
  BY DEF ProxyInv
<1>1. /\ wire = Sent(messages) /\ sent = 0 /\ input = EmptyBuffer(limits.read_chunk)
      /\ pc = "parse" /\ result = "Running" /\ outcome = "none"
      /\ \E head \in BOOLEAN : /\ messages \in IF head THEN HeadStreams ELSE ResponseStreams
                               /\ responseParser = NewResponseParser(head)
  BY <1>0 DEF Init
<1>2. PICK head \in BOOLEAN : /\ messages \in IF head THEN HeadStreams ELSE ResponseStreams
                              /\ responseParser = NewResponseParser(head)
  BY <1>1
<1>3. responseParser.head_request = head
  BY <1>2 DEF NewResponseParser
<1>4. AnswersInv
  <2>1. CASE head = TRUE
    BY <1>1, <1>2, <1>3, <2>1, StreamsOfMessages DEF AnswersInv
  <2>2. CASE head = FALSE
    BY <1>1, <1>2, <2>2, StreamsOfMessages DEF IsResponse, AnswersInv
  <2> QED BY <2>1, <2>2
<1>5. input.bytes = <<>> /\ Len(input.bytes) = 0
  BY <1>1 DEF EmptyBuffer
<1>6. Taken = 0
  <2>1. sent = 0 /\ Len(input.bytes) = 0
    BY <1>1, <1>5
  <2> QED BY <2>1 DEF Taken
<1>7. Buffered
  BY InitLimits, <1>5, <1>6 DEF Buffered, At
<1>8. AnswerPlace
  BY <1>4, <1>7, Starts, <1>1, <1>2, <1>3, <1>6 DEF Streaming, AnswersInv, Skipped, BeforeStatus,
     Undecided, Until, AnswerPlace, InAnswer
<1>9. AnswerOutcome
  BY <1>1 DEF AnswerOutcome, ResponseErrors
<1> QED BY <1>1, <1>4, <1>7, <1>8, <1>9 DEF ProxyInv

LEMMA NextAnswers ==
  ASSUME IInv, ProxyInv, SizesFit, [Next]_vars
  PROVE  ProxyInv'
<1>1. CASE ProxyNext
  BY <1>1, ParseResponseStepPlaces, ReadResponsePlaces, UpstreamClosesPlaces, EndResponsePlaces,
     ReceiveResponsePlaces DEF ProxyNext
<1>2. CASE SessionNext
  <2>1. side' = "request"
    BY <1>2 DEF SessionNext, ReadRequest, ReceiveRequest, ReadEnds, HandleRequest, RefuseRequest, loopVars
  <2> QED BY <2>1 DEF ProxyInv
<1>3. CASE UNCHANGED vars
  BY <1>3, AnswerRests
<1> QED BY <1>1, <1>2, <1>3 DEF Next

LEMMA FitStays ==
  ASSUME [Next]_vars
  PROVE  messages' = messages /\ (SizesFit' <=> SizesFit)
<1>1. messages' = messages
  BY DEF Next, SessionNext, ProxyNext, vars, loopVars, ReadRequest, ReceiveRequest, ReadEnds, HandleRequest,
     RefuseRequest, ReadResponse, ReceiveResponse, UpstreamCloses, EndResponse
<1> QED BY <1>1 DEF SizesFit

\* Wherever the network cuts the bytes, the response parser is where the bytes it
\* has taken end: behind some informational responses and at a line, a chunk or a
\* byte of the next one, with exactly what that response says up to there, if no
\* chunk announces a size to which parse() cannot add 2.
THEOREM Answered == Spec => [](SizesFit => ProxyInv)
<1>1. Init => (SizesFit => ProxyInv)
  BY InitAnswers
<1>2. IInv /\ (SizesFit => ProxyInv) /\ [Next]_vars => (SizesFit => ProxyInv)'
  BY NextAnswers, FitStays
<1> QED BY <1>1, <1>2, Inductive, PTL DEF Spec

LEMMA PlacedAnswer ==
  ASSUME IInv, SizesFit => ProxyInv
  PROVE  ResponseAsSent
<1>1. SUFFICES ASSUME side = "response", SizesFit PROVE AnswerAsSent
  BY DEF ResponseAsSent
<1>2. AnswerOutcome
  BY <1>1 DEF ProxyInv
<1>3. pc = "read" => Waits
  BY <1>1, AnswerWaits
<1> QED BY <1>1, <1>2, <1>3 DEF AnswerAsSent, CompleteAsSent, AnswerOutcome, FinalOwnFault, Waits

\* The proxy's result is the upstream's answer, neither cut short nor mixed with
\* what follows it, however readResponse gets the bytes; an error is the answer's
\* own; and a connection is kept only if the answer was all that was read.  A chunk
\* size that overflows is the exception.
THEOREM AnswersAsSent == Spec => []ResponseAsSent
BY Answered, Inductive, PlacedAnswer, PTL
=============================================================================
