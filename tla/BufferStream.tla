---------------------------- MODULE BufferStream ----------------------------
(***************************************************************************)
(* buffer of src/shared/buffer.c and the stream over a buffer of           *)
(* src/shared/stream.c.  A buffer is the memory it has allocated and the   *)
(* length in use: what lies beyond the length is kept when the length      *)
(* shrinks, and is there again when it grows.                              *)
(***************************************************************************)
EXTENDS Naturals, Sequences

CONSTANT Garbage  \* what is in the memory that realloc adds

\* buffer_init
EmptyBuffer == [data |-> <<>>, length |-> 0]

BuffersOf(Byte) == {b \in [data : Seq(Byte \union {Garbage}), length : Nat] :
                       b.length <= Len(b.data)}

\* The bytes in use.
Contents(b) == SubSeq(b.data, 1, b.length)

\* buffer_set_capacity
SetCapacity(b, n) ==
    [data |-> [i \in 1..n |-> IF i <= Len(b.data) THEN b.data[i] ELSE Garbage],
     length |-> IF n < b.length THEN n ELSE b.length]

\* buffer_ensure_capacity
EnsureCapacity(b, n) == IF n > Len(b.data) THEN SetCapacity(b, n) ELSE b

\* buffer_set_length
SetLength(b, n) == [EnsureCapacity(b, n) EXCEPT !.length = n]

\* buffer_clear
BufferClear(b) == SetLength(b, 0)

\* stream_buffer_set_position: the position the stream is given, within the buffer.
PositionIn(b, pos) == IF b.length = 0 THEN 0
                      ELSE IF pos >= b.length THEN b.length - 1 ELSE pos

\* stream_buffer_write: the buffer after src is written at pos.
WriteAt(b, pos, src) ==
    LET grown == IF pos + Len(src) > b.length THEN SetLength(b, pos + Len(src)) ELSE b
    IN  [grown EXCEPT !.data = [i \in DOMAIN @ |-> IF i \in (pos + 1)..(pos + Len(src))
                                                   THEN src[i - pos] ELSE @[i]]]

\* buffer_append_bytes, and stream_read_buffer after a read: src is added at the end.
AppendBytes(b, src) == WriteAt(b, b.length, src)
=============================================================================
