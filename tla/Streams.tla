------------------------------ MODULE Streams ------------------------------
(***************************************************************************)
(* The buffered reader of src/shared/stream.c over an input stream, and    *)
(* stream_read_all_into_buffer, which copies from it.  The input is a file *)
(* descriptor, whose read returns what there is, 0 at the end or -1, or a  *)
(* stream over a buffer.  The reader keeps all it has read, so that its    *)
(* user can go back.                                                       *)
(*                                                                         *)
(* The code keeps the result of a read in a size_t, where -1 is the        *)
(* largest number: a size_t is a number modulo SizeMax + 1.                *)
(***************************************************************************)
EXTENDS BufferStream, Integers

CONSTANTS Inputs,    \* what may be read from the input, sequences of bytes
          SizeMax,   \* SIZE_MAX
          Requests,  \* the numbers of bytes users ask for
          Limits,    \* the max of stream_read_all_into_buffer, 0 for no limit
          MaxCalls   \* bound: how many calls the user makes

ASSUME StreamAssumption == /\ SizeMax \in Nat /\ Requests \subseteq 1..SizeMax
                           /\ Limits \subseteq 0..SizeMax /\ MaxCalls \in Nat
                           /\ \A i \in Inputs : i \in Seq(0..255) /\ Len(i) <= SizeMax
                           /\ Garbage \notin 0..255

VARIABLES source,    \* whether the input is a descriptor or a buffer
          input,     \* all that the input has to give
          taken,     \* how much of it has been read
          buf,       \* stream->buffered_reader.buffer
          at,        \* stream->buffered_reader.position
          dst,       \* the buffer the user copies to
          copying,   \* the locals of stream_read_all_into_buffer
          last,      \* history: the last call, where it began, what it returned and
                     \* whether its read of the input failed
          failed,    \* history: a read of the input has failed
          calls      \* history: how many calls there were

streamVars == <<source, input, taken, buf, at, dst, copying, last, failed, calls>>

Size(n) == n % (SizeMax + 1)

Least(m, n) == IF m < n THEN m ELSE n

NoCopy == [active |-> FALSE, total |-> 0, max |-> 0, block |-> 1, from |-> 0, kept |-> 0]
NoCall == [kind |-> "none", from |-> 0, n |-> 0, result |-> 0, bytes |-> <<>>, error |-> FALSE]

StreamTypeOK == /\ source \in {"descriptor", "buffer"}
                /\ input \in Inputs /\ taken \in 0..Len(input)
                /\ \A i \in 1..buf.length : buf.data[i] # Garbage
                /\ at \in Nat
                /\ copying.total \in Nat
                /\ last.result \in Int
                /\ failed \in BOOLEAN /\ calls \in 0..MaxCalls

StreamInit == /\ source \in {"descriptor", "buffer"}
              /\ input \in Inputs
              /\ taken = 0
              /\ buf = EmptyBuffer
              /\ at = 0
              /\ dst = EmptyBuffer
              /\ copying = NoCopy
              /\ last = NoCall
              /\ failed = FALSE
              /\ calls = 0

-----------------------------------------------------------------------------
\* What read() of the descriptor can return when n bytes are asked for.
DescriptorReads(n) == {-1} \union (IF taken = Len(input) THEN {0}
                                   ELSE 1..Least(n, Len(input) - taken))

\* What stream_buffer_read returns.
BufferReads(n) == {Least(n, Len(input) - taken)}

Outcomes(n) == IF source = "descriptor" THEN DescriptorReads(n) ELSE BufferReads(n)

\* What the reader has buffered after its position.
Available == Size(buf.length - at)

\* What the read of the input can return that a read of n bytes makes, if it makes one.
Fills(n) == IF Available >= n THEN {0} ELSE Outcomes(n - Available)

\* The reader's buffer after stream_read_buffer has returned r.
Filled(r) == IF r > 0 THEN AppendBytes(buf, SubSeq(input, taken + 1, taken + r)) ELSE buf

\* Mutant of Returned: the bytes that were read count, and those that were there do not.
ReturnedNew(n, r) == IF Available >= n THEN n ELSE Least(n, Size(r))

\* How many bytes stream_buffered_reader_read returns for n.
Returned(n, r) == IF Available >= n THEN n ELSE Least(n, Size(Available + r))

\* The bytes it copies from its buffer; what lies beyond is garbage.
Copied(n, r) == LET b == Filled(r)
                IN  [i \in 1..Returned(n, r) |-> IF at + i <= Len(b.data) THEN b.data[at + i]
                                                 ELSE Garbage]

\* stream_buffered_reader_read for n bytes, when the input returns r.
ReaderRead(n, r) == /\ taken' = taken + (IF r > 0 THEN r ELSE 0)
                    /\ failed' = (failed \/ r < 0)
                    /\ buf' = Filled(r)
                    /\ at' = at + Returned(n, r)

-----------------------------------------------------------------------------
(* The calls of a user.                                                    *)

\* A copy from beyond the buffer's memory is undefined: what follows is not modelled.
Defined == at <= buf.length

Call == Defined /\ calls < MaxCalls /\ ~copying.active /\ calls' = calls + 1

\* stream_read of n bytes
UserReads(n) == /\ Call
                /\ \E r \in Fills(n) :
                      /\ ReaderRead(n, r)
                      /\ last' = [kind |-> "read", from |-> at, n |-> n,
                                  result |-> Returned(n, r), bytes |-> Copied(n, r),
                                  error |-> r < 0]
                /\ UNCHANGED <<source, input, dst, copying>>

\* stream_set_position
UserSeeks(pos) == /\ Call
                  /\ at' = Least(pos, buf.length)
                  /\ last' = NoCall
                  /\ UNCHANGED <<source, input, taken, buf, dst, copying, failed>>

\* stream_read_all_into_buffer
UserCopies(max, block) ==
    /\ Call
    /\ copying' = [active |-> TRUE, total |-> 0, max |-> max, block |-> block,
                   from |-> at, kept |-> dst.length]
    /\ last' = NoCall
    /\ UNCHANGED <<source, input, taken, buf, at, dst, failed>>

\* How much the next turn of its loop reads.
NextRead == IF copying.max > 0 /\ copying.total + copying.block > copying.max
            THEN copying.max - copying.total ELSE copying.block

CopyReturns == /\ copying' = [copying EXCEPT !.active = FALSE]
               /\ last' = [kind |-> "copy", from |-> copying.from, n |-> copying.max,
                           result |-> copying.total, bytes |-> <<>>, error |-> FALSE]

\* Mutant of IsLast: a read of less than was asked for is the last.
IsLastShort(k) == k < NextRead

\* Whether a turn that has read k bytes is the last one.
IsLast(k) == k = 0 \/ (copying.max > 0 /\ copying.total >= copying.max)

CopyLimit == /\ Defined /\ copying.active
             /\ NextRead = 0
             /\ CopyReturns
             /\ UNCHANGED <<source, input, taken, buf, at, dst, failed, calls>>

CopyStep == /\ Defined /\ copying.active
            /\ NextRead > 0
            /\ \E r \in Fills(NextRead) :
                  /\ ReaderRead(NextRead, r)
                  /\ dst' = AppendBytes(dst, Copied(NextRead, r))
                  /\ \/ IsLast(Returned(NextRead, r)) /\ CopyReturns
                     \/ /\ ~IsLast(Returned(NextRead, r))
                        /\ copying' = [copying EXCEPT !.total = @ + Returned(NextRead, r)]
                        /\ UNCHANGED last
            /\ UNCHANGED <<source, input, calls>>

StreamDone == /\ ~Defined \/ (calls = MaxCalls /\ ~copying.active)
              /\ UNCHANGED streamVars

StreamNext == \/ \E n \in Requests : UserReads(n)
              \/ \E pos \in 0..SizeMax : pos <= Len(input) + 1 /\ UserSeeks(pos)
              \/ \E max \in Limits, block \in Requests : UserCopies(max, block)
              \/ CopyStep \/ CopyLimit
              \/ StreamDone

StreamSpec == StreamInit /\ [][StreamNext]_streamVars

-----------------------------------------------------------------------------
(* Properties.                                                             *)

\* Until a read of the input fails, the reader's buffer is what has been read from the
\* input and its position is inside it, so that going back finds the same bytes: a read
\* returns the bytes of the input at the position, whatever of them was there before, and
\* returns 0 only at the end of the input.
ReadGivesInput ==
    ~failed =>
        /\ Contents(buf) = SubSeq(input, 1, taken)
        /\ at <= buf.length
        /\ last.kind = "read" =>
              /\ last.bytes = SubSeq(input, last.from + 1, last.from + last.result)
              /\ last.result \in 0..last.n
              /\ last.result = 0 => last.from = Len(input)

\* Until then, stream_read_all_into_buffer adds to the destination exactly what the input
\* has from the reader's position on, up to its limit, however short the reads are.
CopyIsExact ==
    ~failed /\ last.kind = "copy" =>
        /\ SubSeq(dst.data, copying.kept + 1, dst.length)
               = SubSeq(input, last.from + 1, last.from + last.result)
        /\ last.n > 0 => last.result <= last.n
        /\ (last.n = 0 \/ last.result < last.n) => last.from + last.result = Len(input)

\* A read whose read of the input failed returns a negative number, as stream.h:77 says of
\* every stream: the buffered reader does not, its -1 is the largest size_t.
ReadErrorsAreSeen == last.kind = "read" /\ last.error => last.result < 0
=============================================================================
