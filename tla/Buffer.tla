------------------------------- MODULE Buffer -------------------------------
(***************************************************************************)
(* The byte buffer between a socket and a parser (src/net/buffer.cpp).     *)
(*                                                                         *)
(* A buffer is a record: the size of storage_, read_index, the readable    *)
(* bytes (those between the two indices) and prepared_bytes_.  What lies   *)
(* outside the indices is read in one place only                           *)
(* (HttpResponseParser!EndMarks, which says what is found there), so       *)
(* moving the readable bytes to the front of the storage only moves the    *)
(* indices.  An operation that throws has a guard of its own, which its    *)
(* caller looks at first.                                                  *)
(***************************************************************************)
EXTENDS Integers, Sequences, FiniteSets, FiniteSetsExt

EmptyBuffer(initial_size) == [size |-> initial_size, read_index |-> 0, bytes |-> <<>>, prepared |-> 0]

readableBytes(b) == Len(b.bytes)
write_index(b) == b.read_index + Len(b.bytes)

\* prepare throws: a region is prepared already, or the storage may not grow enough.
PrepareThrows(b, minimum, maximum_size) ==
    \/ b.prepared # 0
    \/ minimum > maximum_size
    \/ b.size - readableBytes(b) < minimum /\ readableBytes(b) > maximum_size - minimum

\* Faulty variant: doubling ignores the limit.
NewSize_Uncapped(b, minimum, maximum_size) == Max({readableBytes(b) + minimum, b.size * 2})
\* The storage doubles while it may, and is never smaller than what is required.
NewSize(b, minimum, maximum_size) ==
    Max({readableBytes(b) + minimum, IF b.size > maximum_size \div 2 THEN maximum_size ELSE b.size * 2})

\* Use the room behind the bytes, else the room in front of them, else grow.
compactOrGrow(b, minimum, maximum_size) ==
    IF b.size - write_index(b) >= minimum THEN b
    ELSE IF b.size - readableBytes(b) >= minimum THEN [b EXCEPT !.read_index = 0]
    ELSE [b EXCEPT !.size = NewSize(b, minimum, maximum_size), !.read_index = 0]

\* All the room behind the bytes is handed to the read, `minimum' or more.
prepare(b, minimum, maximum_size) ==
    LET grown == compactOrGrow(b, minimum, maximum_size)
    IN  [grown EXCEPT !.prepared = grown.size - write_index(grown)]

\* The read has put `received' into the prepared region.
commit(b, received) == [b EXCEPT !.bytes = @ \o received, !.prepared = 0]

\* A buffer that has been read to its end starts again at the front.
consume(b, count) ==
    LET rest == SubSeq(b.bytes, count + 1, Len(b.bytes))
    IN  [b EXCEPT !.bytes = rest, !.read_index = IF rest = <<>> THEN 0 ELSE @ + count]

\* The bytes in front of the first CR LF, as their number; NoCrlf when there is none.
NoCrlf == -1
findCrlf(b) ==
    LET ends == {i \in 1 .. Len(b.bytes) - 1 : b.bytes[i] = "CR" /\ b.bytes[i + 1] = "LF"}
    IN  IF ends = {} THEN NoCrlf ELSE Min(ends) - 1

\* The indices stay inside a storage that keeps its limit, and a prepared region
\* ends with the storage.
BufferSound(b, maximum_size) ==
    /\ write_index(b) + b.prepared <= b.size
    /\ b.size <= maximum_size
=============================================================================
