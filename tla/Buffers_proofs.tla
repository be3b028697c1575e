--------------------------- MODULE Buffers_proofs ---------------------------
(***************************************************************************)
(* Theorems about Streams and Base64, which carry bytes from one buffer to *)
(* another: for every input, any size and limit that a user asks for, every *)
(* SIZE_MAX that can count the input, and any number of codings.           *)
(***************************************************************************)
EXTENDS Streams, Base64, Lists_proofs

-----------------------------------------------------------------------------
(* Buffers and sizes.                                                      *)

Byte == 0..255
Buffer == BuffersOf(Byte)

\* What buffer_append_bytes makes of a buffer: src follows what was there.
LEMMA AppendBytesIs ==
    ASSUME NEW b \in Buffer, NEW src \in Seq(Byte \union {Garbage})
    PROVE  LET c == AppendBytes(b, src)
           IN  /\ c \in Buffer
               /\ c.length = b.length + Len(src)
               /\ \A i \in 1..b.length : c.data[i] = b.data[i]
               /\ \A i \in 1..Len(src) : c.data[b.length + i] = src[i]
<1>n. PICK n : n = b.length + Len(src)
  OBVIOUS
<1> DEFINE grown == IF n > b.length THEN SetLength(b, n) ELSE b
           new == [i \in DOMAIN grown.data |-> IF i \in (b.length + 1)..n
                                               THEN src[i - b.length] ELSE grown.data[i]]
           c == AppendBytes(b, src)
<1>1. /\ b.data \in Seq(Byte \union {Garbage}) /\ b.length \in Nat /\ b.length <= Len(b.data)
      /\ Len(src) \in Nat /\ n \in Nat /\ n >= b.length
  BY <1>n DEF Buffer, BuffersOf
<1>2. /\ grown \in Buffer /\ grown.length = n
      /\ \A i \in 1..b.length : grown.data[i] = b.data[i]
  <2>1. CASE n > Len(b.data)
    <3> DEFINE d == [i \in 1..n |-> IF i <= Len(b.data) THEN b.data[i] ELSE Garbage]
    <3>0. \A i \in 1..n : i <= Len(b.data) => b.data[i] \in Byte \union {Garbage}
      BY <1>1
    <3>1. d \in Seq(Byte \union {Garbage}) /\ Len(d) = n
      <4>1. d \in [1..n -> Byte \union {Garbage}] /\ n \in Nat
        BY <1>1, <3>0
      <4>2. QED
        BY <4>1, FunctionIsSeq
    <3>2. \A i \in 1..b.length : d[i] = b.data[i]
      <4>1. \A i \in 1..b.length : i \in 1..n /\ i <= Len(b.data)
        BY <1>1
      <4>2. QED
        BY <4>1
    <3>3. SetLength(b, n) = [data |-> d, length |-> n]
      <4>1. EnsureCapacity(b, n) =
                [data |-> d, length |-> IF n < b.length THEN n ELSE b.length]
        BY <2>1 DEF EnsureCapacity, SetCapacity
      <4> HIDE DEF d
      <4>2. QED
        BY <4>1 DEF SetLength
    <3>4. n > b.length
      BY <1>1, <2>1
    <3> HIDE DEF d
    <3>5. QED
      BY <1>1, <3>1, <3>2, <3>3, <3>4 DEF Buffer, BuffersOf
  <2>2. CASE n <= Len(b.data)
    <3>1. SetLength(b, n) = [b EXCEPT !.length = n]
      BY <1>1, <2>2 DEF SetLength, EnsureCapacity
    <3>2. QED
      BY <1>1, <2>2, <3>1 DEF Buffer, BuffersOf
  <2>3. QED
    BY <1>1, <2>1, <2>2
<1>3. c = [grown EXCEPT !.data = new]
  BY <1>n DEF AppendBytes, WriteAt
<1> HIDE DEF grown, c
<1>4. /\ grown.data \in Seq(Byte \union {Garbage}) /\ n <= Len(grown.data)
      /\ DOMAIN grown.data = 1..Len(grown.data)
  BY <1>1, <1>2 DEF Buffer, BuffersOf
<1>5. \A i \in 1..Len(grown.data) : new[i] \in Byte \union {Garbage}
  <2>1. ASSUME NEW i \in 1..Len(grown.data) PROVE new[i] \in Byte \union {Garbage}
    <3>1. CASE i \in (b.length + 1)..n
      <4>1. i - b.length \in 1..Len(src)
        BY <1>n, <1>1, <3>1
      <4>2. new[i] = src[i - b.length]
        BY <1>4, <3>1
      <4>3. QED
        BY <4>1, <4>2
    <3>2. CASE i \notin (b.length + 1)..n
      <4>1. new[i] = grown.data[i]
        BY <1>4, <3>2
      <4>2. QED
        BY <1>4, <4>1
    <3>3. QED
      BY <3>1, <3>2
  <2>2. QED
    BY <2>1
<1>6. new \in Seq(Byte \union {Garbage}) /\ Len(new) = Len(grown.data)
  <2>1. new = [i \in 1..Len(grown.data) |-> new[i]]
    BY <1>4
  <2>2. Len(grown.data) \in Nat
    BY <1>4
  <2> HIDE DEF new
  <2>3. new \in [1..Len(grown.data) -> Byte \union {Garbage}]
    BY <1>5, <2>1
  <2>4. QED
    BY <2>2, <2>3, FunctionIsSeq
<1>7. c.data = new /\ c.length = n /\ c \in Buffer
  BY <1>1, <1>2, <1>3, <1>4, <1>6 DEF Buffer, BuffersOf
<1>8. \A i \in 1..b.length : new[i] = b.data[i]
  BY <1>1, <1>2, <1>4
<1>9. \A i \in 1..Len(src) : new[b.length + i] = src[i]
  <2>1. \A i \in 1..Len(src) : /\ b.length + i \in (b.length + 1)..n
                               /\ b.length + i \in 1..Len(grown.data)
                               /\ (b.length + i) - b.length = i
    BY <1>n, <1>1, <1>4
  <2>2. QED
    BY <1>4, <2>1
<1>10. QED
  BY <1>n, <1>7, <1>8, <1>9 DEF c

LEMMA SmallModulus ==
    ASSUME NEW N \in Nat, NEW x \in 0..N
    PROVE  x % (N + 1) = x
OBVIOUS

LEMMA ModulusIsNat ==
    ASSUME NEW M \in Nat \ {0}, NEW x \in Int
    PROVE  x % M \in Nat
OBVIOUS

\* A size that fits a size_t is kept, and every number has one.
LEMMA SizeIs ==
    /\ \A x \in Int : Size(x) \in Nat
    /\ \A x \in 0..SizeMax : Size(x) = x
<1>1. SizeMax \in Nat /\ SizeMax + 1 \in Nat \ {0}
  BY StreamAssumption
<1>2. QED
  BY <1>1, SmallModulus, ModulusIsNat DEF Size

-----------------------------------------------------------------------------
(* The inductive invariant.                                                *)

\* The reader's buffer is what has been taken from the input, at any time; its position
\* is inside until a read fails, and the call ends there if it is not.
ReaderInv ==
    /\ source \in {"descriptor", "buffer"} /\ input \in Inputs /\ taken \in 0..Len(input)
    /\ buf \in Buffer /\ buf.length = taken /\ \A i \in 1..taken : buf.data[i] = input[i]
    /\ at \in Nat /\ (at <= taken \/ failed) /\ failed \in BOOLEAN
    /\ dst \in Buffer

\* A copy that is running has read from its start to the reader's position, and has put
\* that much behind what was in the destination.
CopyInv ==
    /\ copying \in [active : BOOLEAN, total : Nat, max : 0..SizeMax, block : 1..SizeMax,
                    from : Nat, kept : Nat]
       \/ copying = NoCopy
    /\ copying.active =>
          /\ last = NoCall
          /\ ~failed => /\ at = copying.from + copying.total
                        /\ dst.length = copying.kept + copying.total
                        /\ copying.max > 0 => copying.total <= copying.max
                        /\ \A i \in 1..copying.total :
                              dst.data[copying.kept + i] = input[copying.from + i]

StreamInv == ReaderInv /\ CopyInv /\ ReadGivesInput /\ CopyIsExact

-----------------------------------------------------------------------------
(* stream_buffered_reader_read.                                            *)

LEMMA InputIs ==
    ASSUME ReaderInv
    PROVE  /\ taken \in Nat /\ Len(input) \in Nat /\ taken <= Len(input) /\ Len(input) <= SizeMax
           /\ input \in Seq(Byte) /\ at \in Nat /\ SizeMax \in Nat
           /\ Defined => at <= taken
<1>1. input \in Inputs /\ taken \in 0..Len(input) /\ at \in Nat /\ buf.length = taken
  BY DEF ReaderInv
<1>2. input \in Seq(Byte) /\ Len(input) <= SizeMax /\ SizeMax \in Nat
  BY <1>1, StreamAssumption DEF Byte
<1>3. Len(input) \in Nat
  BY <1>2
<1>4. QED
  BY <1>1, <1>2, <1>3 DEF Defined

\* What the input gives for what the buffer does not have.
LEMMA FillIs ==
    ASSUME ReaderInv, Defined, NEW n \in 1..SizeMax, NEW r \in Fills(n)
    PROVE  /\ Available = taken - at /\ Available \in 0..SizeMax
           /\ r \in Int /\ -1 <= r /\ r <= Len(input) - taken
           /\ Available >= n => r = 0
           /\ Available < n => r <= n - Available /\ (r = 0 => taken = Len(input))
<1>1. /\ taken \in Nat /\ Len(input) \in Nat /\ taken <= Len(input) /\ Len(input) <= SizeMax
      /\ at \in Nat /\ at <= taken /\ SizeMax \in Nat
  BY InputIs
<1>2. Available = taken - at /\ taken - at \in 0..SizeMax
  <2>1. taken - at \in 0..SizeMax /\ buf.length - at = taken - at
    BY <1>1 DEF ReaderInv
  <2>2. QED
    BY <2>1, SizeIs DEF Available
<1>3. CASE Available >= n
  BY <1>1, <1>2, <1>3 DEF Fills
<1>4. CASE Available < n
  <2>1. r \in Outcomes(n - Available) /\ n - Available \in 1..SizeMax
    BY <1>1, <1>2, <1>4 DEF Fills
  <2>2. PICK m \in 1..SizeMax : m = n - Available
    BY <2>1
  <2>3. r \in Outcomes(m)
    BY <2>1, <2>2
  <2>4. /\ r \in Int /\ -1 <= r /\ r <= Len(input) - taken /\ r <= m
        /\ r = 0 => taken = Len(input)
    BY <1>1, <2>3 DEF Outcomes, DescriptorReads, BufferReads, Least
  <2>5. QED
    BY <1>1, <1>2, <1>4, <2>2, <2>4
<1>5. QED
  BY <1>1, <1>2, <1>3, <1>4

\* The bytes it returns, and what is left.
LEMMA ReaderReads ==
    ASSUME ReaderInv, Defined, NEW n \in 1..SizeMax, NEW r \in Fills(n), ReaderRead(n, r)
    PROVE  /\ taken' \in 0..Len(input) /\ buf' \in Buffer /\ buf'.length = taken'
           /\ \A i \in 1..taken' : buf'.data[i] = input[i]
           /\ Returned(n, r) \in Nat /\ at' = at + Returned(n, r)
           /\ failed' \in BOOLEAN /\ (~failed' => ~failed /\ r >= 0)
           /\ Copied(n, r) \in Seq(Byte \union {Garbage}) /\ Len(Copied(n, r)) = Returned(n, r)
           /\ r >= 0 => /\ at' <= taken' /\ Returned(n, r) <= n
                        /\ \A i \in 1..Returned(n, r) : Copied(n, r)[i] = input[at + i]
                        /\ Returned(n, r) = 0 => at = Len(input)
<1>1. /\ taken \in Nat /\ Len(input) \in Nat /\ taken <= Len(input) /\ Len(input) <= SizeMax
      /\ at \in Nat /\ at <= taken /\ SizeMax \in Nat /\ n \in Nat /\ n >= 1
      /\ input \in Seq(Byte)
  BY InputIs
<1>2. /\ Available = taken - at /\ Available \in 0..SizeMax
      /\ r \in Int /\ -1 <= r /\ r <= Len(input) - taken
      /\ Available >= n => r = 0
      /\ Available < n => r <= n - Available /\ (r = 0 => taken = Len(input))
  BY FillIs
<1>3. /\ taken' = taken + (IF r > 0 THEN r ELSE 0) /\ failed' = (failed \/ r < 0)
      /\ buf' = Filled(r) /\ at' = at + Returned(n, r)
  BY DEF ReaderRead
<1>4. /\ buf \in Buffer /\ buf.length = taken /\ \A i \in 1..taken : buf.data[i] = input[i]
  BY DEF ReaderInv
<1>5. taken' \in 0..Len(input)
  BY <1>1, <1>2, <1>3
<1>6. /\ buf' \in Buffer /\ buf'.length = taken'
      /\ \A i \in 1..taken' : buf'.data[i] = input[i]
  <2>1. CASE r > 0
    <3>1. PICK src : src = SubSeq(input, taken + 1, taken + r)
      OBVIOUS
    <3>2. /\ src \in Seq(Byte \union {Garbage}) /\ Len(src) = r
          /\ \A i \in 1..r : src[i] = input[taken + i]
      <4>1. r \in Nat /\ taken + r <= Len(input) /\ input \in Seq(Byte \union {Garbage})
        BY <1>1, <1>2, <2>1
      <4>2. /\ SubSeq(input, taken + 1, taken + r) \in Seq(Byte \union {Garbage})
            /\ Len(SubSeq(input, taken + 1, taken + r)) = r
            /\ \A i \in 1..r : SubSeq(input, taken + 1, taken + r)[i] = input[taken + i]
        BY <1>1, <4>1, PartIs
      <4>3. QED
        BY <3>1, <4>2
    <3>3. PICK c : c = AppendBytes(buf, src)
      OBVIOUS
    <3>4. /\ c \in Buffer /\ c.length = buf.length + Len(src)
          /\ \A i \in 1..buf.length : c.data[i] = buf.data[i]
          /\ \A i \in 1..Len(src) : c.data[buf.length + i] = src[i]
      BY <1>4, <3>2, <3>3, AppendBytesIs
    <3>5. buf' = c /\ taken' = taken + r
      BY <1>3, <2>1, <3>1, <3>3 DEF Filled
    <3>6. \A i \in 1..taken : c.data[i] = input[i]
      BY <1>4, <3>4
    <3>7. \A i \in 1..r : c.data[taken + i] = input[taken + i]
      BY <1>4, <3>2, <3>4
    <3>8. ASSUME NEW i \in 1..(taken + r) PROVE c.data[i] = input[i]
      <4>1. CASE i <= taken
        BY <1>1, <3>6, <4>1
      <4>2. CASE i > taken
        <5>1. i - taken \in 1..r /\ taken + (i - taken) = i
          BY <1>1, <1>2, <4>2
        <5>2. QED
          BY <3>7, <5>1
      <4>3. QED
        BY <1>1, <4>1, <4>2
    <3>9. QED
      BY <1>4, <3>2, <3>4, <3>5, <3>8
  <2>2. CASE ~(r > 0)
    BY <1>1, <1>3, <1>4, <2>2 DEF Filled
  <2>3. QED
    BY <2>1, <2>2
<1>7. Returned(n, r) \in Nat
  <2>1. Size(Available + r) \in Nat
    BY <1>2, SizeIs
  <2>2. QED
    BY <1>1, <2>1 DEF Returned, Least
<1>8. Copied(n, r) \in Seq(Byte \union {Garbage}) /\ Len(Copied(n, r)) = Returned(n, r)
  <2>1. PICK k \in Nat : k = Returned(n, r)
    BY <1>7
  <2>2. PICK b \in Buffer : b = Filled(r)
    BY <1>3, <1>6
  <2>3. Copied(n, r) = [i \in 1..k |-> IF at + i <= Len(b.data) THEN b.data[at + i] ELSE Garbage]
    BY <2>1, <2>2 DEF Copied
  <2>4. \A i \in 1..k : at + i <= Len(b.data) => b.data[at + i] \in Byte \union {Garbage}
    BY <1>1 DEF Buffer, BuffersOf
  <2>5. Copied(n, r) \in [1..k -> Byte \union {Garbage}]
    BY <2>3, <2>4
  <2>6. QED
    BY <2>1, <2>5, FunctionIsSeq
<1>9. ASSUME r >= 0
      PROVE  /\ at' <= taken' /\ Returned(n, r) <= n
             /\ \A i \in 1..Returned(n, r) : Copied(n, r)[i] = input[at + i]
             /\ Returned(n, r) = 0 => at = Len(input)
  <2>1. Returned(n, r) = IF Available >= n THEN n ELSE Available + r
    <3>1. CASE Available < n
      <4>1. Available + r \in 0..SizeMax /\ Available + r <= n
        BY <1>1, <1>2, <1>9, <3>1
      <4>2. Size(Available + r) = Available + r
        BY <4>1, SizeIs
      <4>3. QED
        BY <1>1, <1>2, <3>1, <4>1, <4>2 DEF Returned, Least
    <3>2. QED
      BY <1>1, <1>2, <3>1 DEF Returned
  <2>2. taken' = taken + r
    BY <1>1, <1>2, <1>3, <1>9
  <2>3. at + Returned(n, r) <= taken' /\ Returned(n, r) <= n
    BY <1>1, <1>2, <1>9, <2>1, <2>2
  <2>4. ASSUME NEW i \in 1..Returned(n, r) PROVE Copied(n, r)[i] = input[at + i]
    <3>1. at + i \in 1..taken'
      BY <1>1, <1>5, <1>7, <2>3
    <3>2. taken' <= Len(buf'.data)
      BY <1>6 DEF Buffer, BuffersOf
    <3>3. at + i <= Len(buf'.data) /\ buf'.data[at + i] = input[at + i]
      BY <1>1, <1>5, <1>6, <3>1, <3>2 DEF Buffer, BuffersOf
    <3>4. QED
      BY <1>3, <3>3 DEF Copied
  <2>5. Returned(n, r) = 0 => at = Len(input)
    BY <1>1, <1>2, <1>9, <2>1
  <2>6. QED
    BY <1>3, <2>3, <2>4, <2>5
<1>10. failed' \in BOOLEAN /\ (~failed' => ~failed /\ r >= 0)
  <2>1. failed' = (failed \/ r < 0)
    BY <1>3
  <2>2. failed' \in BOOLEAN /\ (~failed' => ~failed /\ ~(r < 0))
    BY <2>1
  <2>3. ~(r < 0) => r >= 0
    BY <1>2
  <2>4. QED
    BY <2>2, <2>3
<1>11. QED
  BY <1>3, <1>5, <1>6, <1>7, <1>8, <1>9, <1>10

-----------------------------------------------------------------------------
(* The calls.                                                              *)

LEMMA EmptyIsBuffer == EmptyBuffer \in Buffer /\ EmptyBuffer.length = 0
<1>1. Len(<<>>) = 0 /\ <<>> \in Seq(Byte \union {Garbage})
  OBVIOUS
<1>2. QED
  BY <1>1 DEF EmptyBuffer, Buffer, BuffersOf

LEMMA StreamStart == StreamInit => StreamInv
<1> SUFFICES ASSUME StreamInit PROVE StreamInv
  OBVIOUS
<1>1. /\ source \in {"descriptor", "buffer"} /\ input \in Inputs /\ taken = 0 /\ at = 0
      /\ buf = EmptyBuffer /\ dst = EmptyBuffer /\ copying = NoCopy /\ last = NoCall
      /\ failed = FALSE
  BY DEF StreamInit
<1>2. Len(input) \in Nat
  BY <1>1, StreamAssumption
<1>3. ReaderInv
  <2>1. taken \in 0..Len(input) /\ at \in Nat /\ at <= taken /\ \A i \in 1..taken : FALSE
    BY <1>1, <1>2
  <2>2. buf \in Buffer /\ dst \in Buffer /\ buf.length = taken /\ failed \in BOOLEAN
    BY <1>1, EmptyIsBuffer
  <2>3. QED
    BY <1>1, <2>1, <2>2 DEF ReaderInv
<1>4. CopyInv
  BY <1>1 DEF CopyInv, NoCopy
<1>5. Contents(buf) = SubSeq(input, 1, taken)
  BY <1>1 DEF Contents, EmptyBuffer
<1>6. ReadGivesInput
  BY <1>1, <1>5, EmptyIsBuffer DEF ReadGivesInput, NoCall
<1>7. CopyIsExact
  BY <1>1 DEF CopyIsExact, NoCall
<1>8. QED
  BY <1>3, <1>4, <1>6, <1>7 DEF StreamInv

\* The bytes in use of a buffer that has the first k elements of a sequence.
LEMMA ContentsAre ==
    ASSUME NEW b \in Buffer, NEW t \in Seq(Byte), NEW k \in Nat, k <= Len(t), b.length = k,
           \A i \in 1..k : b.data[i] = t[i]
    PROVE  Contents(b) = SubSeq(t, 1, k)
<1>1. PICK s \in Seq(Byte \union {Garbage}) : s = b.data /\ k <= Len(s)
  BY DEF Buffer, BuffersOf
<1>2. 0 \in Nat /\ 0 + k <= Len(s) /\ 0 + k <= Len(t)
      /\ \A i \in 1..k : s[0 + i] = t[0 + i]
  BY <1>1
<1>3. SubSeq(s, 0 + 1, 0 + k) = SubSeq(t, 0 + 1, 0 + k)
  BY <1>2, PartsAreEqual
<1>4. QED
  BY <1>1, <1>3 DEF Contents

LEMMA ReadsKeep ==
    ASSUME StreamInv, NEW n \in Requests, UserReads(n)
    PROVE  StreamInv'
<1>1. PICK r \in Fills(n) :
          /\ ReaderRead(n, r)
          /\ last' = [kind |-> "read", from |-> at, n |-> n, result |-> Returned(n, r),
                      bytes |-> Copied(n, r), error |-> r < 0]
  BY DEF UserReads
<1>2. Defined /\ ~copying.active /\ UNCHANGED <<source, input, dst, copying>>
  BY DEF UserReads, Call
<1>3. ReaderInv /\ CopyInv
  BY DEF StreamInv
<1>4. n \in 1..SizeMax
  BY StreamAssumption
<1>5. /\ taken' \in 0..Len(input) /\ buf' \in Buffer /\ buf'.length = taken'
      /\ \A i \in 1..taken' : buf'.data[i] = input[i]
      /\ Returned(n, r) \in Nat /\ at' = at + Returned(n, r)
      /\ failed' \in BOOLEAN /\ (~failed' => ~failed /\ r >= 0)
      /\ Copied(n, r) \in Seq(Byte \union {Garbage}) /\ Len(Copied(n, r)) = Returned(n, r)
      /\ r >= 0 => /\ at' <= taken' /\ Returned(n, r) <= n
                   /\ \A i \in 1..Returned(n, r) : Copied(n, r)[i] = input[at + i]
                   /\ Returned(n, r) = 0 => at = Len(input)
  BY <1>1, <1>2, <1>3, <1>4, ReaderReads
<1>6. r \in Int /\ at \in Nat /\ taken \in Nat /\ Len(input) \in Nat /\ input \in Seq(Byte)
  BY <1>2, <1>3, <1>4, FillIs, InputIs
<1>7. ReaderInv'
  <2>1. at' \in Nat /\ (~failed' => at' <= taken')
    BY <1>5, <1>6
  <2>2. QED
    BY <1>2, <1>3, <1>5, <2>1 DEF ReaderInv
<1>8. CopyInv'
  BY <1>2, <1>3 DEF CopyInv
<1>9. CopyIsExact'
  BY <1>1 DEF CopyIsExact
<1>10. ASSUME ~failed'
       PROVE  /\ last'.bytes = SubSeq(input', last'.from + 1, last'.from + last'.result)
              /\ last'.result \in 0..last'.n
              /\ last'.result = 0 => last'.from = Len(input')
  <2>1. r >= 0
    BY <1>5, <1>10
  <2>2. PICK k \in Nat : k = Returned(n, r)
    BY <1>5
  <2>3. PICK u \in Seq(Byte \union {Garbage}) : u = Copied(n, r) /\ Len(u) = k
    BY <1>5, <2>2
  <2>4. at + k <= Len(input) /\ \A i \in 1..k : u[0 + i] = input[at + i]
    BY <1>5, <1>6, <2>1, <2>2, <2>3
  <2>5. SubSeq(u, 0 + 1, 0 + k) = SubSeq(input, at + 1, at + k)
    <3>1. 0 \in Nat /\ 0 + k <= Len(u)
      BY <2>3
    <3>2. QED
      BY <1>6, <2>4, <3>1, PartsAreEqual
  <2>6. SubSeq(u, 0 + 1, 0 + k) = u
    BY <2>3
  <2>7. /\ last'.bytes = u /\ last'.from = at /\ last'.n = n /\ last'.result = k
        /\ input' = input
    BY <1>1, <1>2, <2>2, <2>3
  <2>8. k <= n /\ n \in Nat /\ (k = 0 => at = Len(input))
    BY <1>4, <1>5, <2>1, <2>2
  <2>9. SubSeq(input, at + 1, at + k) = u
    BY <2>5, <2>6
  <2>10. last'.bytes = SubSeq(input', last'.from + 1, last'.from + last'.result)
    BY <2>7, <2>9
  <2>11. last'.result \in 0..last'.n /\ (last'.result = 0 => last'.from = Len(input'))
    BY <2>7, <2>8
  <2>12. QED
    BY <2>10, <2>11
<1>11. ReadGivesInput'
  <2>1. Contents(buf') = SubSeq(input', 1, taken')
    BY <1>2, <1>5, <1>6, ContentsAre
  <2>2. ~failed' => at' <= buf'.length
    BY <1>5
  <2>3. QED
    BY <1>10, <2>1, <2>2 DEF ReadGivesInput
<1>12. QED
  BY <1>7, <1>8, <1>9, <1>11 DEF StreamInv

\* A step that neither reads nor copies, and forgets the last call.
LEMMA QuietKeeps ==
    ASSUME StreamInv, UNCHANGED <<source, input, taken, buf, dst, failed>>, last' = NoCall,
           at' \in Nat, at' <= taken \/ at' = at, CopyInv'
    PROVE  StreamInv'
<1>1. ReaderInv'
  BY DEF StreamInv, ReaderInv
<1>2. ReadGivesInput'
  <2>1. ~failed => Contents(buf) = SubSeq(input, 1, taken) /\ at <= buf.length
    BY DEF StreamInv, ReadGivesInput
  <2>2. Contents(buf') = SubSeq(input', 1, taken') <=> Contents(buf) = SubSeq(input, 1, taken)
    OBVIOUS
  <2>3. ~failed => at' <= buf.length
    BY <2>1 DEF StreamInv, ReaderInv
  <2>4. last'.kind # "read"
    BY DEF NoCall
  <2>5. QED
    BY <2>1, <2>2, <2>3, <2>4 DEF ReadGivesInput
<1>3. CopyIsExact'
  BY DEF CopyIsExact, NoCall
<1>4. QED
  BY <1>1, <1>2, <1>3 DEF StreamInv

LEMMA SeeksKeep ==
    ASSUME StreamInv, NEW pos \in Nat, UserSeeks(pos)
    PROVE  StreamInv'
<1>1. /\ ~copying.active /\ at' = Least(pos, buf.length) /\ last' = NoCall
      /\ UNCHANGED <<source, input, taken, buf, dst, copying, failed>>
  BY DEF UserSeeks, Call
<1>2. buf.length = taken /\ taken \in Nat
  BY InputIs DEF StreamInv, ReaderInv
<1>3. at' \in Nat /\ at' <= taken
  BY <1>1, <1>2 DEF Least
<1>4. CopyInv'
  BY <1>1 DEF StreamInv, CopyInv
<1>5. QED
  BY <1>1, <1>3, <1>4, QuietKeeps

LEMMA CopiesStart ==
    ASSUME StreamInv, NEW max \in Limits, NEW block \in Requests, UserCopies(max, block)
    PROVE  StreamInv'
<1>1. /\ copying' = [active |-> TRUE, total |-> 0, max |-> max, block |-> block, from |-> at,
                     kept |-> dst.length]
      /\ last' = NoCall /\ UNCHANGED <<source, input, taken, buf, at, dst, failed>>
  BY DEF UserCopies
<1>2. /\ max \in 0..SizeMax /\ block \in 1..SizeMax /\ at \in Nat /\ dst.length \in Nat
  BY StreamAssumption DEF StreamInv, ReaderInv, Buffer, BuffersOf
<1>3. CopyInv'
  <2>1. at + 0 = at /\ dst.length + 0 = dst.length /\ max > 0 => 0 <= max
    BY <1>2
  <2>2. \A i \in 1..0 : FALSE
    OBVIOUS
  <2>3. QED
    BY <1>1, <1>2, <2>1, <2>2 DEF CopyInv
<1>4. QED
  BY <1>1, <1>2, <1>3, QuietKeeps

\* What has been copied when a call returns.
LEMMA CopyReturnsExactly ==
    ASSUME ReaderInv, CopyInv, copying.active, CopyReturns, UNCHANGED input,
           dst' \in Buffer, dst'.length = dst.length,
           \A i \in 1..dst.length : dst'.data[i] = dst.data[i],
           ~failed' => ~failed /\ (\/ copying.max > 0 /\ copying.total = copying.max
                                   \/ at = Len(input))
    PROVE  CopyInv' /\ CopyIsExact'
<1>1. /\ copying \in [active : BOOLEAN, total : Nat, max : 0..SizeMax, block : 1..SizeMax,
                      from : Nat, kept : Nat]
  BY DEF CopyInv, NoCopy
<1>2. /\ copying' = [copying EXCEPT !.active = FALSE]
      /\ last' = [kind |-> "copy", from |-> copying.from, n |-> copying.max,
                  result |-> copying.total, bytes |-> <<>>, error |-> FALSE]
  BY DEF CopyReturns
<1>3. /\ copying' \in [active : BOOLEAN, total : Nat, max : 0..SizeMax, block : 1..SizeMax,
                       from : Nat, kept : Nat]
      /\ ~copying'.active /\ copying'.kept = copying.kept
  BY <1>1, <1>2
<1>4. CopyInv'
  BY <1>3 DEF CopyInv
<1>5. ASSUME ~failed'
      PROVE  /\ SubSeq(dst'.data, copying.kept + 1, dst'.length)
                    = SubSeq(input, copying.from + 1, copying.from + copying.total)
             /\ copying.max > 0 => copying.total <= copying.max
             /\ (copying.max = 0 \/ copying.total < copying.max) =>
                    copying.from + copying.total = Len(input)
  <2>1. /\ at = copying.from + copying.total /\ dst.length = copying.kept + copying.total
        /\ copying.max > 0 => copying.total <= copying.max
        /\ \A i \in 1..copying.total : dst.data[copying.kept + i] = input[copying.from + i]
    BY <1>5 DEF CopyInv
  <2>2. PICK total \in Nat, from \in Nat, kept \in Nat, max \in Nat :
            total = copying.total /\ from = copying.from /\ kept = copying.kept
            /\ max = copying.max
    <3>1. copying.max \in Nat
      BY <1>1
    <3>2. QED
      BY <1>1, <3>1
  <2>3. at <= taken /\ taken <= Len(input) /\ taken \in Nat /\ Len(input) \in Nat
    BY <1>5, InputIs DEF ReaderInv
  <2>4. PICK d \in Seq(Byte \union {Garbage}) : d = dst'.data /\ dst'.length <= Len(d)
    BY DEF Buffer, BuffersOf
  <2>5. PICK given \in Seq(Byte) : given = input
    BY InputIs
  <2>6. kept + total <= Len(d) /\ from + total <= Len(given)
    BY <2>1, <2>2, <2>3, <2>4, <2>5
  <2>7. ASSUME NEW i \in 1..total PROVE d[kept + i] = given[from + i]
    <3>1. kept + i \in 1..dst.length
      BY <2>1, <2>2
    <3>2. dst'.data[kept + i] = dst.data[kept + i]
      BY <3>1
    <3>3. QED
      BY <2>1, <2>2, <2>4, <2>5, <3>2
  <2>8. SubSeq(d, kept + 1, kept + total) = SubSeq(given, from + 1, from + total)
    <3> DEFINE u == SubSeq(d, kept + 1, kept + total)
               v == SubSeq(given, from + 1, from + total)
    <3>1. kept + total <= Len(d) /\ from + total <= Len(given)
      BY <2>6
    <3>2. u \in Seq(Byte \union {Garbage}) /\ Len(u) = total /\ \A i \in 1..total : u[i] = d[kept + i]
      BY <3>1, PartIs
    <3>3. v \in Seq(Byte) /\ Len(v) = total /\ \A i \in 1..total : v[i] = given[from + i]
      BY <3>1, PartIs
    <3> HIDE DEF u, v
    <3>4. u = [i \in 1..total |-> u[i]] /\ v = [i \in 1..total |-> v[i]]
      BY <3>2, <3>3
    <3>5. \A i \in 1..total : u[i] = v[i]
      BY <2>7, <3>2, <3>3
    <3>6. u = v
      BY <3>4, <3>5
    <3>7. QED
      BY <3>6 DEF u, v
  <2>9. dst'.length = kept + total
    BY <2>1, <2>2
  <2>10. SubSeq(dst'.data, copying.kept + 1, dst'.length)
                    = SubSeq(input, copying.from + 1, copying.from + copying.total)
    BY <2>2, <2>4, <2>5, <2>8, <2>9
  <2>11. (max = 0 \/ total < max) => from + total = Len(input)
    BY <1>5, <2>1, <2>2
  <2>12. QED
    BY <2>1, <2>2, <2>10, <2>11
<1>6. CopyIsExact'
  BY <1>2, <1>3, <1>5 DEF CopyIsExact
<1>7. QED
  BY <1>4, <1>6

LEMMA LimitKeeps ==
    ASSUME StreamInv, CopyLimit
    PROVE  StreamInv'
<1>1. /\ copying.active /\ NextRead = 0 /\ CopyReturns
      /\ UNCHANGED <<source, input, taken, buf, at, dst, failed>>
  BY DEF CopyLimit
<1>2. ReaderInv /\ CopyInv /\ ReadGivesInput
  BY DEF StreamInv
<1>3. /\ copying.total \in Nat /\ copying.max \in Nat /\ copying.block \in Nat /\ copying.block > 0
  <2>1. copying \in [active : BOOLEAN, total : Nat, max : 0..SizeMax, block : 1..SizeMax,
                     from : Nat, kept : Nat]
    BY <1>1, <1>2 DEF CopyInv, NoCopy
  <2>2. QED
    BY <2>1
<1>4. copying.max > 0 /\ copying.total = copying.max
  BY <1>1, <1>3 DEF NextRead
<1>5. CopyInv' /\ CopyIsExact'
  <2>1. dst' \in Buffer /\ UNCHANGED input
    BY <1>1, <1>2 DEF ReaderInv
  <2>2. QED
    BY <1>1, <1>2, <1>4, <2>1, CopyReturnsExactly
<1>6. ReaderInv'
  BY <1>1, <1>2 DEF ReaderInv
<1>7. last'.kind # "read"
  BY <1>1 DEF CopyReturns
<1>8. ReadGivesInput'
  <2>1. Contents(buf') = SubSeq(input', 1, taken') <=> Contents(buf) = SubSeq(input, 1, taken)
    BY <1>1
  <2>2. QED
    BY <1>1, <1>2, <1>7, <2>1 DEF ReadGivesInput
<1>9. QED
  BY <1>5, <1>6, <1>8 DEF StreamInv

\* One turn of the loop of stream_read_all_into_buffer.
LEMMA TurnKeeps ==
    ASSUME StreamInv, CopyStep
    PROVE  StreamInv'
<1>1. PICK r \in Fills(NextRead) :
          /\ ReaderRead(NextRead, r)
          /\ dst' = AppendBytes(dst, Copied(NextRead, r))
          /\ \/ IsLast(Returned(NextRead, r)) /\ CopyReturns
             \/ /\ ~IsLast(Returned(NextRead, r))
                /\ copying' = [copying EXCEPT !.total = @ + Returned(NextRead, r)]
                /\ UNCHANGED last
  BY DEF CopyStep
<1>2. Defined /\ copying.active /\ NextRead > 0 /\ UNCHANGED <<source, input>>
  BY DEF CopyStep
<1>3. ReaderInv /\ CopyInv
  BY DEF StreamInv
<1>4. copying \in [active : BOOLEAN, total : Nat, max : 0..SizeMax, block : 1..SizeMax,
                   from : Nat, kept : Nat]
  BY <1>2, <1>3 DEF CopyInv, NoCopy
<1>5. PICK n \in 1..SizeMax : /\ n = NextRead
                              /\ copying.max > 0 => copying.total + n <= copying.max
  <2>1. /\ copying.total \in Nat /\ copying.max \in 0..SizeMax /\ copying.block \in 1..SizeMax
    BY <1>4
  <2>2. SizeMax \in Nat
    BY StreamAssumption
  <2>3. NextRead \in 1..SizeMax
    BY <1>2, <2>1, <2>2 DEF NextRead
  <2>4. copying.max > 0 => copying.total + NextRead <= copying.max
    BY <1>2, <2>1, <2>2 DEF NextRead
  <2>5. QED
    BY <2>3, <2>4
<1>6. r \in Fills(n) /\ ReaderRead(n, r)
  BY <1>1, <1>5
<1>7. /\ taken' \in 0..Len(input) /\ buf' \in Buffer /\ buf'.length = taken'
      /\ \A i \in 1..taken' : buf'.data[i] = input[i]
      /\ Returned(n, r) \in Nat /\ at' = at + Returned(n, r)
      /\ failed' \in BOOLEAN /\ (~failed' => ~failed /\ r >= 0)
      /\ Copied(n, r) \in Seq(Byte \union {Garbage}) /\ Len(Copied(n, r)) = Returned(n, r)
      /\ r >= 0 => /\ at' <= taken' /\ Returned(n, r) <= n
                   /\ \A i \in 1..Returned(n, r) : Copied(n, r)[i] = input[at + i]
                   /\ Returned(n, r) = 0 => at = Len(input)
  BY <1>2, <1>3, <1>6, ReaderReads
<1>8. at \in Nat /\ taken \in Nat /\ Len(input) \in Nat /\ input \in Seq(Byte)
  BY <1>3, InputIs
<1>9. PICK k \in Nat, u \in Seq(Byte \union {Garbage}) :
          k = Returned(n, r) /\ u = Copied(n, r) /\ Len(u) = k
  BY <1>7
<1>10. /\ dst' \in Buffer /\ dst'.length = dst.length + k
       /\ \A i \in 1..dst.length : dst'.data[i] = dst.data[i]
       /\ \A i \in 1..k : dst'.data[dst.length + i] = u[i]
  <2>1. dst' = AppendBytes(dst, u)
    BY <1>1, <1>5, <1>9
  <2>2. dst \in Buffer
    BY <1>3 DEF ReaderInv
  <2>3. LET c == AppendBytes(dst, u)
        IN  /\ c \in Buffer
            /\ c.length = dst.length + Len(u)
            /\ \A i \in 1..dst.length : c.data[i] = dst.data[i]
            /\ \A i \in 1..Len(u) : c.data[dst.length + i] = u[i]
    BY <2>2, AppendBytesIs
  <2>4. QED
    BY <1>9, <2>1, <2>3
<1>11. ReaderInv'
  <2>1. at' \in Nat /\ (~failed' => at' <= taken')
    BY <1>7, <1>8
  <2>2. QED
    BY <1>2, <1>3, <1>7, <1>10, <2>1 DEF ReaderInv
<1>12. ~failed' => Contents(buf') = SubSeq(input', 1, taken') /\ at' <= buf'.length
  <2>1. Contents(buf') = SubSeq(input', 1, taken')
    BY <1>2, <1>7, <1>8, ContentsAre
  <2>2. QED
    BY <1>7, <2>1
<1>13. \/ IsLast(k) /\ CopyReturns
       \/ /\ ~IsLast(k)
          /\ copying' = [copying EXCEPT !.total = @ + k] /\ UNCHANGED last
  <2>1. Returned(NextRead, r) = k
    BY <1>5, <1>9
  <2>2. QED
    BY <1>1, <2>1
<1>14. CASE k = 0
  <2>1. CopyReturns
    <3>1. IsLast(k)
      BY <1>14 DEF IsLast
    <3>2. QED
      BY <1>13, <3>1
  <2>2. dst'.length = dst.length
    <3>1. dst.length \in Nat
      BY <1>3 DEF ReaderInv, Buffer, BuffersOf
    <3>2. QED
      BY <1>10, <1>14, <3>1
  <2>3. ~failed' => ~failed /\ at = Len(input)
    <3>1. r \in Int
      BY <1>2, <1>3, <1>6, FillIs
    <3>2. QED
      BY <1>7, <1>9, <1>14
  <2>4. CopyInv' /\ CopyIsExact'
    <3>1. UNCHANGED input
      BY <1>2
    <3>2. QED
      BY <1>2, <1>3, <1>10, <2>1, <2>2, <2>3, <3>1, CopyReturnsExactly
  <2>5. last'.kind # "read"
    BY <2>1 DEF CopyReturns
  <2>6. QED
    BY <1>11, <1>12, <2>4, <2>5 DEF StreamInv, ReadGivesInput
<1>15. CASE k # 0
  <2>1. PICK total \in Nat, from \in Nat, kept \in Nat, max \in Nat :
            total = copying.total /\ from = copying.from /\ kept = copying.kept
            /\ max = copying.max
    <3>1. copying.max \in Nat
      BY <1>4
    <3>2. QED
      BY <1>4, <3>1
  <2>2. ~IsLast(k)
    BY <1>5, <1>15, <2>1 DEF IsLast
  <2>3. copying' = [copying EXCEPT !.total = @ + k] /\ last' = NoCall
    BY <1>2, <1>3, <1>13, <2>2 DEF CopyInv
  <2>4. /\ copying' \in [active : BOOLEAN, total : Nat, max : 0..SizeMax, block : 1..SizeMax,
                         from : Nat, kept : Nat]
        /\ copying'.total = total + k /\ copying'.from = from /\ copying'.kept = kept
        /\ copying'.max = max
    BY <1>4, <2>1, <2>3
  <2>5. ASSUME ~failed'
        PROVE  /\ at' = from + (total + k) /\ dst'.length = kept + (total + k)
               /\ max > 0 => total + k <= max
               /\ \A i \in 1..(total + k) : dst'.data[kept + i] = input[from + i]
    <3>1. /\ at = from + total /\ dst.length = kept + total
          /\ \A i \in 1..total : dst.data[kept + i] = input[from + i]
      BY <1>2, <1>3, <1>7, <2>1, <2>5 DEF CopyInv
    <3>2. k <= n /\ \A i \in 1..k : u[i] = input[at + i]
      BY <1>7, <1>9, <2>5
    <3>3. at' = from + (total + k) /\ dst'.length = kept + (total + k)
      BY <1>7, <1>9, <1>10, <3>1
    <3>4. max > 0 => total + k <= max
      BY <1>5, <2>1, <3>2
    <3>5. ASSUME NEW i \in 1..(total + k) PROVE dst'.data[kept + i] = input[from + i]
      <4>1. CASE i <= total
        <5>1. i \in 1..total /\ kept + i \in 1..dst.length
          BY <3>1, <4>1
        <5>2. QED
          BY <1>10, <3>1, <5>1
      <4>2. CASE i > total
        <5>1. PICK j \in 1..k : i = total + j
          <6>1. i - total \in 1..k /\ i = total + (i - total)
            BY <4>2
          <6>2. QED
            BY <6>1
        <5>2. dst.length + j = kept + i /\ at + j = from + i
          BY <3>1, <5>1
        <5>3. dst'.data[dst.length + j] = input[at + j]
          BY <1>10, <3>2
        <5>4. QED
          BY <5>2, <5>3
      <4>3. QED
        BY <4>1, <4>2
    <3>6. QED
      BY <3>3, <3>4, <3>5
  <2>6. CopyInv'
    BY <1>2, <2>3, <2>4, <2>5 DEF CopyInv
  <2>7. QED
    BY <1>11, <1>12, <2>3, <2>6 DEF StreamInv, ReadGivesInput, CopyIsExact, NoCall
<1>16. QED
  BY <1>14, <1>15

-----------------------------------------------------------------------------
(* The theorems.                                                           *)

LEMMA StreamStep == StreamInv /\ [StreamNext]_streamVars => StreamInv'
<1> SUFFICES ASSUME StreamInv, [StreamNext]_streamVars PROVE StreamInv'
  OBVIOUS
<1>1. CASE \E n \in Requests : UserReads(n)
  BY <1>1, ReadsKeep
<1>2. CASE \E pos \in 0..SizeMax : pos <= Len(input) + 1 /\ UserSeeks(pos)
  <2>1. \E pos \in Nat : UserSeeks(pos)
    BY <1>2, StreamAssumption
  <2>2. QED
    BY <2>1, SeeksKeep
<1>3. CASE \E max \in Limits, block \in Requests : UserCopies(max, block)
  BY <1>3, CopiesStart
<1>4. CASE CopyStep
  BY <1>4, TurnKeeps
<1>5. CASE CopyLimit
  BY <1>5, LimitKeeps
<1>6. CASE UNCHANGED streamVars
  BY <1>6 DEF streamVars, StreamInv, ReaderInv, CopyInv, ReadGivesInput, CopyIsExact, Contents
<1>7. QED
  BY <1>1, <1>2, <1>3, <1>4, <1>5, <1>6 DEF StreamNext, StreamDone

\* A read returns the bytes of the input at the reader's position, and 0 only at the end of
\* the input, whatever was read, gone back over or copied before, until a read fails:
\* stream_buffered_reader_read and stream_buffered_reader_set_position.
THEOREM ReadsCorrect == StreamSpec => []ReadGivesInput
<1>1. StreamInv => ReadGivesInput
  BY DEF StreamInv
<1>2. QED
  BY StreamStart, StreamStep, <1>1, PTL DEF StreamSpec

\* stream_read_all_into_buffer adds to the destination exactly what the input has from the
\* reader's position on, up to its limit, for every block size and however short the reads
\* of the input are.
THEOREM CopiesCorrect == StreamSpec => []CopyIsExact
<1>1. StreamInv => CopyIsExact
  BY DEF StreamInv
<1>2. QED
  BY StreamStart, StreamStep, <1>1, PTL DEF StreamSpec

-----------------------------------------------------------------------------
(* Sequences of blocks.                                                    *)

\* What FlattenSeq of blocks of three or four has: nothing but their elements, in order.
LEMMA FlattenIs ==
    ASSUME NEW S, NEW seqs \in Seq(Seq(S)), NEW w \in {3, 4},
           \A q \in 1..Len(seqs) : Len(seqs[q]) = w
    PROVE  /\ FlattenSeq(seqs) \in Seq(S)
           /\ Len(FlattenSeq(seqs)) = w * Len(seqs)
           /\ \A q \in 1..Len(seqs), r \in 1..w :
                  FlattenSeq(seqs)[w * (q - 1) + r] = seqs[q][r]
<1>1. CASE seqs = <<>>
  BY <1>1 DEF FlattenSeq
<1>2. CASE seqs # <<>>
  <2>1. PICK n \in Nat : n = Len(seqs) /\ n > 0
    BY <1>2
  <2>2. PICK f : IsFlatten(f, seqs) /\ FlattenSeq(seqs) = f[Len(seqs)]
    BY <1>2, FlattenSteps
  <2>3. \A i \in 1..n : f[i] = IF i = 1 THEN seqs[i] ELSE f[i - 1] \o seqs[i]
    BY <2>1, <2>2 DEF IsFlatten
  <2>4. \A q \in 1..n : seqs[q] \in Seq(S) /\ Len(seqs[q]) = w
    BY <2>1
  <2> DEFINE Right(i) == /\ f[i] \in Seq(S) /\ Len(f[i]) = w * i
                         /\ \A q \in 1..i, r \in 1..w : f[i][w * (q - 1) + r] = seqs[q][r]
             T == {k \in Nat : k + 1 <= n => Right(k + 1)}
  <2>5. 0 \in T
    BY <2>1, <2>3, <2>4
  <2>6. ASSUME NEW k \in T PROVE k + 1 \in T
    <3>1. PICK i \in Nat : i = k + 1
      OBVIOUS
    <3>2. ASSUME i + 1 <= n PROVE Right(i + 1)
      <4>1. Right(i)
        BY <3>1, <3>2
      <4>2. /\ i \in 1..n /\ i + 1 \in 1..n /\ i + 1 # 1 /\ (i + 1) - 1 = i
        BY <3>1, <3>2
      <4>3. f[i + 1] = f[i] \o seqs[i + 1]
        BY <2>3, <4>2
      <4>4. PICK m \in Nat : m = w * i /\ w * (i + 1) = m + w
        OBVIOUS
      <4>5. PICK u \in Seq(S) : u = f[i] /\ Len(u) = m
        BY <4>1, <4>4
      <4>6. PICK v \in Seq(S) : v = seqs[i + 1] /\ Len(v) = w
        BY <2>4, <4>2
      <4>7. f[i + 1] = u \o v
        BY <4>3, <4>5, <4>6
      <4>8. /\ u \o v \in Seq(S) /\ Len(u \o v) = m + w
            /\ \A e \in 1..m : (u \o v)[e] = u[e]
            /\ \A e \in 1..w : (u \o v)[m + e] = v[e]
        <5>1. w \in Nat /\ m = Len(u) /\ w = Len(v)
          BY <4>5, <4>6
        <5>2. QED
          BY <5>1, ConcatIs
      <4>9. ASSUME NEW q \in 1..(i + 1), NEW r \in 1..w
            PROVE  f[i + 1][w * (q - 1) + r] = seqs[q][r]
        <5>1. CASE q = i + 1
          <6>1. w * (q - 1) + r = m + r
            BY <4>4, <5>1
          <6>2. QED
            BY <4>6, <4>7, <4>8, <5>1, <6>1
        <5>2. CASE q # i + 1
          <6>1. q \in 1..i
            BY <4>2, <5>2
          <6>2. w * (q - 1) + r \in 1..m
            <7>1. CASE w = 3
              BY <4>4, <6>1, <7>1
            <7>2. CASE w = 4
              BY <4>4, <6>1, <7>2
            <7>3. QED
              BY <7>1, <7>2
          <6>3. f[i + 1][w * (q - 1) + r] = f[i][w * (q - 1) + r]
            BY <4>5, <4>7, <4>8, <6>2
          <6>4. QED
            BY <4>1, <6>1, <6>3
        <5>3. QED
          BY <5>1, <5>2
      <4>10. QED
        BY <4>4, <4>7, <4>8, <4>9
    <3>3. QED
      BY <3>1, <3>2
  <2>7. T = Nat
    <3>1. T \in SUBSET Nat
      OBVIOUS
    <3> HIDE DEF T
    <3>2. QED
      BY <2>5, <2>6, <3>1, InductionOnNat
  <2>8. n - 1 \in T /\ (n - 1) + 1 = n
    <3> HIDE DEF T
    <3>1. QED
      BY <2>1, <2>7
  <2>9. Right(n)
    <3> HIDE DEF Right
    <3>1. QED
      BY <2>1, <2>8
  <2>10. QED
    BY <2>1, <2>2, <2>9
<1>3. QED
  BY <1>1, <1>2

-----------------------------------------------------------------------------
(* Characters and blocks.                                                  *)

Char == 1..127

LEMMA CharactersAre ==
    /\ \A v \in 0..63 : ValueToChar(v) \in Char \ {Padding} /\ CharToValue(ValueToChar(v)) = v
    /\ \A c \in Char : CharToValue(c) # Illegal =>
           CharToValue(c) \in 0..63 /\ ValueToChar(CharToValue(c)) = c
    /\ CharToValue(Padding) = Illegal
BY DEF ValueToChar, CharToValue, Char, Padding, Illegal

LEMMA LegalIs ==
    ASSUME NEW c \in Char
    PROVE  CharToValue(c) # Illegal <=> \E v \in 0..63 : ValueToChar(v) = c
<1>1. \A v \in 0..63 : CharToValue(ValueToChar(v)) = v /\ v # Illegal
  BY CharactersAre DEF Illegal
<1>2. QED
  BY <1>1, CharactersAre

\* The byte of src at i, 0 beyond its end.
ByteAt(src, i) == IF i <= Len(src) THEN src[i] ELSE 0

\* The upper and lower bits of a byte, and what they make again.
LEMMA BitsOf ==
    ASSUME NEW b \in 0..255
    PROVE  /\ \E h \in 0..63, l \in 0..3 : b \div 4 = h /\ b % 4 = l /\ b = 4 * h + l
           /\ \E h \in 0..15, l \in 0..15 : b \div 16 = h /\ b % 16 = l /\ b = 16 * h + l
           /\ \E h \in 0..3, l \in 0..63 : b \div 64 = h /\ b % 64 = l /\ b = 64 * h + l
<1>1. b \div 4 \in 0..63 /\ b % 4 \in 0..3 /\ b = 4 * (b \div 4) + (b % 4)
  OBVIOUS
<1>2. b \div 16 \in 0..15 /\ b % 16 \in 0..15 /\ b = 16 * (b \div 16) + (b % 16)
  OBVIOUS
<1>3. b \div 64 \in 0..3 /\ b % 64 \in 0..63 /\ b = 64 * (b \div 64) + (b % 64)
  OBVIOUS
<1>4. QED
  BY <1>1, <1>2, <1>3

\* The values of a quad's characters hold the three bytes.
LEMMA QuadIs ==
    ASSUME NEW src \in Seq(0..255), NEW i \in 1..Len(src)
    PROVE  /\ Quad(src, i) \in Seq(Char) /\ Len(Quad(src, i)) = 4
           /\ \A r \in 1..3 : Triple(Quad(src, i))[r] = ByteAt(src, i + r - 1)
           /\ LegalBlock(Quad(src, i), TRUE)
           /\ i + 2 <= Len(src) => LegalBlock(Quad(src, i), FALSE)
<1>1. PICK n \in Nat : n = Len(src) /\ i \in 1..n
  OBVIOUS
<1>2. \A k \in 1..n : src[k] \in 0..255
  BY <1>1
<1>3. PICK a \in 0..255 : a = src[i]
  <2>1. src[i] \in 0..255
    BY <1>1, <1>2
  <2>2. QED
    BY <2>1
<1>4. PICK b \in 0..255 : b = ByteAt(src, i + 1) /\ (i + 1 > n => b = 0)
  <2>1. ByteAt(src, i + 1) \in 0..255 /\ (i + 1 > n => ByteAt(src, i + 1) = 0)
    BY <1>1, <1>2 DEF ByteAt
  <2>2. QED
    BY <2>1
<1>5. PICK c \in 0..255 : c = ByteAt(src, i + 2) /\ (i + 2 > n => c = 0)
  <2>1. ByteAt(src, i + 2) \in 0..255 /\ (i + 2 > n => ByteAt(src, i + 2) = 0)
    BY <1>1, <1>2 DEF ByteAt
  <2>2. QED
    BY <2>1
<1>6. PICK ah \in 0..63, al \in 0..3 : a \div 4 = ah /\ a % 4 = al /\ a = 4 * ah + al
  BY BitsOf
<1>7. PICK bh \in 0..15, bl \in 0..15 : b \div 16 = bh /\ b % 16 = bl /\ b = 16 * bh + bl
  BY BitsOf
<1>8. PICK ch \in 0..3, cl \in 0..63 : c \div 64 = ch /\ c % 64 = cl /\ c = 64 * ch + cl
  BY BitsOf
<1>9. PICK v2 \in 0..63, v3 \in 0..63 : v2 = al * 16 + bh /\ v3 = bl * 4 + ch
  <2>1. al * 16 + bh \in 0..63 /\ bl * 4 + ch \in 0..63
    OBVIOUS
  <2>2. QED
    BY <2>1
<1>10. PICK quad : quad = Quad(src, i)
  OBVIOUS
<1>11. quad = <<ValueToChar(ah), ValueToChar(v2),
                IF i + 1 > n THEN Padding ELSE ValueToChar(v3),
                IF i + 2 > n THEN Padding ELSE ValueToChar(cl)>>
  <2> DEFINE byte(k) == IF i + k <= Len(src) THEN src[i + k] ELSE 0
  <2>1. byte(0) = a /\ byte(1) = b /\ byte(2) = c
    BY <1>1, <1>3, <1>4, <1>5 DEF ByteAt
  <2>2. quad = <<ValueToChar(byte(0) \div 4),
                 ValueToChar((byte(0) % 4) * 16 + byte(1) \div 16),
                 IF i + 1 > Len(src) THEN Padding
                 ELSE ValueToChar((byte(1) % 16) * 4 + byte(2) \div 64),
                 IF i + 2 > Len(src) THEN Padding ELSE ValueToChar(byte(2) % 64)>>
    BY <1>10 DEF Quad
  <2> HIDE DEF byte
  <2>3. QED
    BY <1>1, <1>6, <1>7, <1>8, <1>9, <2>1, <2>2
<1>12. /\ ValueToChar(ah) \in Char \ {Padding} /\ CharToValue(ValueToChar(ah)) = ah
       /\ ValueToChar(v2) \in Char \ {Padding} /\ CharToValue(ValueToChar(v2)) = v2
       /\ ValueToChar(v3) \in Char \ {Padding} /\ CharToValue(ValueToChar(v3)) = v3
       /\ ValueToChar(cl) \in Char \ {Padding} /\ CharToValue(ValueToChar(cl)) = cl
       /\ ah # Illegal /\ v2 # Illegal /\ v3 # Illegal /\ cl # Illegal
  <2>1. \A v \in 0..63 : ValueToChar(v) \in Char \ {Padding} /\ CharToValue(ValueToChar(v)) = v
    BY CharactersAre, Zenon
  <2>2. \A v \in 0..63 : v # Illegal
    BY DEF Illegal
  <2>3. QED
    BY <2>1, <2>2, Zenon
<1>13. quad \in Seq(Char) /\ Len(quad) = 4
  <2>1. Padding \in Char
    BY DEF Padding, Char
  <2>2. QED
    BY <1>11, <1>12, <2>1
<1>14. (i + 1 > n => v3 = 0) /\ (i + 2 > n => cl = 0)
  <2>1. i + 2 > n => ch = 0 /\ cl = 0
    BY <1>5, <1>8
  <2>2. i + 1 > n => i + 2 > n /\ bl = 0
    BY <1>1, <1>4, <1>7
  <2>3. QED
    BY <1>9, <2>1, <2>2
<1>15. Triple(quad) = <<ah * 4 + v2 \div 16, (v2 % 16) * 16 + v3 \div 4, (v3 % 4) * 64 + cl>>
  BY <1>11, <1>12, <1>14 DEF Triple
<1>16. v2 \div 16 = al /\ v2 % 16 = bh /\ v3 \div 4 = bl /\ v3 % 4 = ch
  <2>1. /\ (al * 16 + bh) \div 16 = al /\ (al * 16 + bh) % 16 = bh
        /\ (bl * 4 + ch) \div 4 = bl /\ (bl * 4 + ch) % 4 = ch
    OBVIOUS
  <2>2. QED
    BY <1>9, <2>1, Zenon
<1>17. Triple(quad) = <<a, b, c>>
  <2>1. ah * 4 + al = a /\ bh * 16 + bl = b /\ ch * 64 + cl = c
    BY <1>6, <1>7, <1>8
  <2>2. QED
    BY <1>15, <1>16, <2>1
<1>19. \A r \in 1..3 : Triple(quad)[r] = ByteAt(src, i + r - 1)
  <2>1. a = ByteAt(src, i)
    BY <1>1, <1>3 DEF ByteAt
  <2>2. i + 1 - 1 = i /\ i + 2 - 1 = i + 1 /\ i + 3 - 1 = i + 2
    BY <1>1
  <2>3. Triple(quad)[1] = a /\ Triple(quad)[2] = b /\ Triple(quad)[3] = c
    BY <1>17
  <2>4. \A r \in 1..3 : r = 1 \/ r = 2 \/ r = 3
    OBVIOUS
  <2>5. QED
    BY <1>4, <1>5, <2>1, <2>2, <2>3, <2>4
<1>20. LegalBlock(quad, TRUE)
  BY <1>1, <1>11, <1>12 DEF LegalBlock
<1>21. i + 2 <= n => LegalBlock(quad, FALSE)
  BY <1>1, <1>11, <1>12 DEF LegalBlock
<1>22. QED
  BY <1>1, <1>10, <1>13, <1>19, <1>20, <1>21

\* A legal block is three bytes.
LEMMA TripleIs ==
    ASSUME NEW block \in Seq(Char), Len(block) = 4, NEW final \in BOOLEAN, LegalBlock(block, final)
    PROVE  Triple(block) \in Seq(0..255) /\ Len(Triple(block)) = 3
<1> DEFINE value(k) == IF block[k] = Padding THEN 0 ELSE CharToValue(block[k])
<1>1. \A k \in 1..4 : block[k] \in Char
  OBVIOUS
<1>2. \A k \in 1..4 : block[k] = Padding \/ CharToValue(block[k]) # Illegal
  <2>1. \A k \in 1..4 : k = 1 \/ k = 2 \/ k = 3 \/ k = 4
    OBVIOUS
  <2>2. QED
    BY <2>1 DEF LegalBlock
<1>3. ASSUME NEW k \in 1..4 PROVE value(k) \in 0..63
  <2>1. PICK c \in Char : c = block[k]
    BY <1>1
  <2>2. c = Padding \/ CharToValue(c) \in 0..63
    BY <1>2, <2>1, CharactersAre
  <2>3. QED
    BY <2>1, <2>2
<1>4. PICK v1 \in 0..63, v2 \in 0..63, v3 \in 0..63, v4 \in 0..63 :
          v1 = value(1) /\ v2 = value(2) /\ v3 = value(3) /\ v4 = value(4)
  <2> HIDE DEF value
  <2>1. value(1) \in 0..63 /\ value(2) \in 0..63 /\ value(3) \in 0..63 /\ value(4) \in 0..63
    BY <1>3
  <2>2. QED
    BY <2>1
<1>5. Triple(block) = <<v1 * 4 + v2 \div 16, (v2 % 16) * 16 + v3 \div 4, (v3 % 4) * 64 + v4>>
  BY <1>4 DEF Triple
<1>6. /\ v1 * 4 + v2 \div 16 \in 0..255 /\ (v2 % 16) * 16 + v3 \div 4 \in 0..255
      /\ (v3 % 4) * 64 + v4 \in 0..255
  OBVIOUS
<1>7. QED
  BY <1>5, <1>6

-----------------------------------------------------------------------------
(* Texts.                                                                  *)

Code(src) == FlattenSeq([q \in 1..Quads(Len(src)) |-> Quad(src, 3 * q - 2)])

Decoded(src, n) == FlattenSeq([k \in 1..n |-> Triple(BlockOf(src, k))])

LEMMA QuadsAre ==
    ASSUME NEW n \in Nat
    PROVE  /\ Quads(n) \in Nat /\ 3 * Quads(n) >= n /\ 3 * Quads(n) <= n + 2
           /\ \A q \in 1..Quads(n) : /\ 3 * q - 2 \in 1..n
                                     /\ q # Quads(n) => 3 * q - 2 + 2 <= n
<1>1. PICK m \in Nat : m = Quads(n) /\ 3 * m >= n /\ 3 * m <= n + 2
  <2>1. \A a \in Nat : a \div 3 \in Nat /\ 3 * (a \div 3) + 2 >= a /\ 3 * (a \div 3) <= a
    OBVIOUS
  <2>2. PICK a \in Nat : a = n + 2
    OBVIOUS
  <2>3. a \div 3 \in Nat /\ 3 * (a \div 3) + 2 >= n + 2 /\ 3 * (a \div 3) <= n + 2
    BY <2>1, <2>2
  <2>4. Quads(n) = a \div 3
    BY <2>2 DEF Quads
  <2>5. QED
    BY <2>3, <2>4
<1>2. QED
  BY <1>1

LEMMA BlockIs ==
    ASSUME NEW src \in Seq(Char), NEW k \in Nat, k # 0, 4 * k <= Len(src)
    PROVE  /\ BlockOf(src, k) \in Seq(Char) /\ Len(BlockOf(src, k)) = 4
           /\ \A r \in 1..4 : BlockOf(src, k)[r] = src[4 * (k - 1) + r]
<1>1. PICK j \in Nat : j = 4 * (k - 1) /\ 4 * k - 3 = j + 1 /\ 4 * k = j + 4
  <2>1. 4 * (k - 1) \in Nat /\ 4 * k - 3 = 4 * (k - 1) + 1 /\ 4 * k = 4 * (k - 1) + 4
    OBVIOUS
  <2>2. QED
    BY <2>1
<1>2. BlockOf(src, k) = SubSeq(src, j + 1, j + 4) /\ j + 4 <= Len(src)
  BY <1>1 DEF BlockOf
<1>3. PICK part : part = SubSeq(src, j + 1, j + 4)
  OBVIOUS
<1>4. part \in Seq(Char) /\ Len(part) = 4 /\ \A r \in 1..4 : part[r] = src[j + r]
  <2>1. PICK n \in Nat : n = 4
    OBVIOUS
  <2>2. j + n <= Len(src)
    BY <1>2, <2>1
  <2>3. /\ SubSeq(src, j + 1, j + n) \in Seq(Char) /\ Len(SubSeq(src, j + 1, j + n)) = n
        /\ \A r \in 1..n : SubSeq(src, j + 1, j + n)[r] = src[j + r]
    BY <2>2, PartIs
  <2>4. QED
    BY <1>3, <2>1, <2>3
<1>5. QED
  BY <1>1, <1>2, <1>3, <1>4

LEMMA CodeIs ==
    ASSUME NEW src \in Seq(0..255)
    PROVE  /\ Code(src) \in Seq(Char) /\ Len(Code(src)) = 4 * Quads(Len(src))
           /\ \A q \in 1..Quads(Len(src)) : BlockOf(Code(src), q) = Quad(src, 3 * q - 2)
<1>1. PICK n \in Nat : n = Len(src)
  OBVIOUS
<1>2. PICK m \in Nat : m = Quads(n)
  BY QuadsAre
<1>3. \A q \in 1..m : 3 * q - 2 \in 1..n
  BY <1>2, QuadsAre
<1>4. PICK quads : quads = [q \in 1..m |-> Quad(src, 3 * q - 2)]
  OBVIOUS
<1>5. \A q \in 1..m : quads[q] \in Seq(Char) /\ Len(quads[q]) = 4
  <2>1. ASSUME NEW q \in 1..m PROVE quads[q] \in Seq(Char) /\ Len(quads[q]) = 4
    <3>1. PICK i \in 1..n : i = 3 * q - 2
      BY <1>3
    <3>2. quads[q] = Quad(src, i)
      BY <1>4, <3>1
    <3>3. QED
      BY <1>1, <3>2, QuadIs
  <2>2. QED
    BY <2>1
<1>6. quads \in Seq(Seq(Char)) /\ Len(quads) = m
  <2>1. quads \in [1..m -> Seq(Char)]
    BY <1>4, <1>5
  <2>2. QED
    BY <2>1, FunctionIsSeq
<1>7. PICK code : code = Code(src)
  OBVIOUS
<1>8. code = FlattenSeq(quads)
  BY <1>1, <1>2, <1>4, <1>7 DEF Code
<1>9. /\ code \in Seq(Char) /\ Len(code) = 4 * m
      /\ \A q \in 1..m, r \in 1..4 : code[4 * (q - 1) + r] = quads[q][r]
  <2>1. 4 \in {3, 4} /\ \A q \in 1..Len(quads) : Len(quads[q]) = 4
    BY <1>5, <1>6
  <2>2. /\ FlattenSeq(quads) \in Seq(Char) /\ Len(FlattenSeq(quads)) = 4 * Len(quads)
        /\ \A q \in 1..Len(quads), r \in 1..4 : FlattenSeq(quads)[4 * (q - 1) + r] = quads[q][r]
    BY <1>6, <2>1, FlattenIs, ZenonT(40)
  <2>3. QED
    BY <1>6, <1>8, <2>2
<1>10. ASSUME NEW q \in 1..m PROVE BlockOf(code, q) = Quad(src, 3 * q - 2)
  <2>1. q \in Nat /\ q # 0 /\ 4 * q <= Len(code)
    BY <1>9
  <2>2. PICK block \in Seq(Char) : block = BlockOf(code, q) /\ Len(block) = 4
    BY <1>9, <2>1, BlockIs
  <2>3. \A r \in 1..4 : block[r] = code[4 * (q - 1) + r]
    BY <1>9, <2>1, <2>2, BlockIs
  <2>4. \A r \in 1..4 : block[r] = quads[q][r]
    BY <1>9, <2>3
  <2>5. PICK quad \in Seq(Char) : quad = quads[q] /\ Len(quad) = 4
    BY <1>5
  <2>6. block = quads[q]
    <3>1. Len(block) = Len(quad) /\ \A r \in 1..Len(block) : block[r] = quad[r]
      BY <2>2, <2>4, <2>5
    <3>2. block = quad
      BY <3>1, SeqsAreEqual
    <3>3. QED
      BY <2>5, <3>2
  <2>7. QED
    BY <1>4, <2>2, <2>6
<1>11. QED
  BY <1>1, <1>2, <1>7, <1>9, <1>10

\* How far the decoder gets: to the first block that is not legal.
LEMMA LegalBlocksAre ==
    ASSUME NEW src \in Seq(Char), NEW n \in Nat, n = Len(src) \div 4
    PROVE  /\ LegalBlocks(src) \in 0..n
           /\ \A k \in 1..LegalBlocks(src) : LegalBlock(BlockOf(src, k), k = n)
           /\ LegalBlocks(src) < n => ~LegalBlock(BlockOf(src, LegalBlocks(src) + 1),
                                                  LegalBlocks(src) + 1 = n)
<1> DEFINE Stops(k) == k = n \/ ~LegalBlock(BlockOf(src, k + 1), k + 1 = n)
           IsGood(f) == f = [k \in 0..n |-> IF Stops(k) THEN k ELSE f[k + 1]]
<1>1. \E f : IsGood(f)
  <2>1. PICK next : next = [k \in 0..n |-> IF Stops(k) THEN 0 ELSE k + 1]
    OBVIOUS
  <2>2. PICK step : step = [k \in 0..n |-> [x \in Nat |-> x]]
    OBVIOUS
  <2>3. PICK final : final = [k \in 0..n |-> k]
    OBVIOUS
  <2>4. next \in [0..n -> Nat] /\ step \in [0..n -> [Nat -> Nat]] /\ final \in [0..n -> Nat]
    BY <2>1, <2>2, <2>3
  <2>5. PICK f : GoesDown(f, n, Nat, next, step, final)
    BY <2>4, RecursionDown
  <2> HIDE DEF Stops
  <2>6. ASSUME NEW k \in 0..n PROVE f[k] = IF Stops(k) THEN k ELSE f[k + 1]
    <3>1. CASE Stops(k)
      <4>1. next[k] = 0
        BY <2>1, <3>1
      <4>2. next[k] \notin (k + 1)..n
        BY <4>1
      <4>3. QED
        BY <2>3, <2>5, <3>1, <4>2 DEF GoesDown
    <3>2. CASE ~Stops(k)
      <4>1. k # n
        BY <3>2 DEF Stops
      <4>2. next[k] = k + 1 /\ next[k] \in (k + 1)..n /\ k + 1 \in 0..n
        BY <2>1, <3>2, <4>1
      <4>3. f[k] = step[k][f[k + 1]] /\ f[k + 1] \in Nat
        BY <2>5, <4>2 DEF GoesDown
      <4>4. QED
        BY <2>2, <3>2, <4>3
    <3>3. QED
      BY <3>1, <3>2
  <2>7. f = [k \in 0..n |-> f[k]]
    BY <2>5 DEF GoesDown
  <2>8. IsGood(f)
    BY <2>6, <2>7
  <2> HIDE DEF IsGood
  <2>9. QED
    BY <2>8
<1>2. PICK good : good = CHOOSE f : IsGood(f)
  OBVIOUS
<1>3. IsGood(good)
  <2> HIDE DEF IsGood
  <2>1. QED
    BY <1>1, <1>2
<1>4. LegalBlocks(src) = good[0]
  BY <1>2 DEF LegalBlocks
<1> HIDE DEF Stops
<1>5. \A k \in 0..n : good[k] = IF Stops(k) THEN k ELSE good[k + 1]
  BY <1>3
<1> DEFINE Right(k) == /\ good[k] \in k..n
                       /\ \A j \in k..(good[k] - 1) : ~Stops(j)
                       /\ Stops(good[k])
           T == {k \in 0..n : Right(k)}
<1>6. ASSUME NEW k \in 0..n, \A j \in (k + 1)..n : j \in T PROVE k \in T
  <2>1. CASE Stops(k)
    BY <1>5, <2>1
  <2>2. CASE ~Stops(k)
    <3>1. k # n
      BY <2>2 DEF Stops
    <3>2. k + 1 \in (k + 1)..n /\ k + 1 \in 0..n
      BY <3>1
    <3>3. good[k] = good[k + 1] /\ Right(k + 1)
      BY <1>5, <1>6, <2>2, <3>2
    <3>4. \A j \in k..(good[k] - 1) : j = k \/ j \in (k + 1)..(good[k] - 1)
      OBVIOUS
    <3>5. Right(k)
      BY <2>2, <3>2, <3>3, <3>4
    <3>6. QED
      BY <3>5
  <2>3. QED
    BY <2>1, <2>2
<1>7. Right(0)
  <2>1. 0 \in 0..n
    OBVIOUS
  <2> HIDE DEF T
  <2>2. 0 \in T
    BY <1>6, <2>1, InductionDown
  <2>3. QED
    BY <2>2 DEF T
<1>8. PICK g \in 0..n : g = LegalBlocks(src) /\ Stops(g) /\ \A j \in 0..(g - 1) : ~Stops(j)
  BY <1>4, <1>7
<1>9. \A k \in 1..g : LegalBlock(BlockOf(src, k), k = n)
  <2>1. ASSUME NEW k \in 1..g PROVE LegalBlock(BlockOf(src, k), k = n)
    <3>1. k - 1 \in 0..(g - 1) /\ (k - 1) + 1 = k
      OBVIOUS
    <3>2. ~Stops(k - 1)
      BY <1>8, <3>1
    <3>3. QED
      BY <3>1, <3>2 DEF Stops
  <2>2. QED
    BY <2>1
<1>10. g < n => ~LegalBlock(BlockOf(src, g + 1), g + 1 = n)
  BY <1>8 DEF Stops
<1>11. QED
  BY <1>8, <1>9, <1>10

\* What is decoded of legal blocks.
LEMMA DecodedIs ==
    ASSUME NEW src \in Seq(Char), NEW n \in Nat, 4 * n <= Len(src),
           \A k \in 1..n : \E final \in BOOLEAN : LegalBlock(BlockOf(src, k), final)
    PROVE  /\ Decoded(src, n) \in Seq(0..255) /\ Len(Decoded(src, n)) = 3 * n
           /\ \A k \in 1..n, r \in 1..3 :
                  Decoded(src, n)[3 * (k - 1) + r] = Triple(BlockOf(src, k))[r]
<1>1. PICK triples : triples = [k \in 1..n |-> Triple(BlockOf(src, k))]
  OBVIOUS
<1>2. \A k \in 1..n : triples[k] \in Seq(0..255) /\ Len(triples[k]) = 3
  <2>1. ASSUME NEW k \in 1..n PROVE triples[k] \in Seq(0..255) /\ Len(triples[k]) = 3
    <3>1. k \in Nat /\ k # 0 /\ 4 * k <= Len(src)
      OBVIOUS
    <3>2. PICK block \in Seq(Char) : block = BlockOf(src, k) /\ Len(block) = 4
      BY <3>1, BlockIs
    <3>3. PICK final \in BOOLEAN : LegalBlock(block, final)
      BY <3>2
    <3>4. QED
      BY <1>1, <3>2, <3>3, TripleIs
  <2>2. QED
    BY <2>1
<1>3. triples \in Seq(Seq(0..255)) /\ Len(triples) = n
  <2>1. triples \in [1..n -> Seq(0..255)]
    BY <1>1, <1>2
  <2>2. QED
    BY <2>1, FunctionIsSeq
<1>4. Decoded(src, n) = FlattenSeq(triples)
  BY <1>1 DEF Decoded
<1>5. 3 \in {3, 4} /\ \A k \in 1..Len(triples) : Len(triples[k]) = 3
  BY <1>2, <1>3
<1>6. /\ FlattenSeq(triples) \in Seq(0..255) /\ Len(FlattenSeq(triples)) = 3 * Len(triples)
      /\ \A k \in 1..Len(triples), r \in 1..3 :
             FlattenSeq(triples)[3 * (k - 1) + r] = triples[k][r]
  BY <1>3, <1>5, FlattenIs, ZenonT(40)
<1>7. \A k \in 1..n : triples[k] = Triple(BlockOf(src, k))
  BY <1>1
<1>8. QED
  BY <1>3, <1>4, <1>6, <1>7
\* The decoder accepts what the encoder writes, and gives back what it was given.
LEMMA CodeDecoded ==
    ASSUME NEW src \in Seq(0..255)
    PROVE  /\ Len(Code(src)) \div 4 = Quads(Len(src)) /\ Len(Code(src)) % 4 = 0
           /\ LegalBlocks(Code(src)) = Quads(Len(src))
           /\ Len(src) <= Len(Decoded(Code(src), Quads(Len(src))))
           /\ \A i \in 1..Len(src) : Decoded(Code(src), Quads(Len(src)))[i] = src[i]
<1>1. PICK n \in Nat : n = Len(src)
  OBVIOUS
<1>2. PICK m \in Nat : m = Quads(n) /\ 3 * m >= n /\ 3 * m <= n + 2
  BY QuadsAre
<1>3. \A q \in 1..m : 3 * q - 2 \in 1..n /\ (q # m => 3 * q - 2 + 2 <= n)
  BY <1>2, QuadsAre
<1>4. PICK code \in Seq(Char) : code = Code(src) /\ Len(code) = 4 * m
  BY <1>1, <1>2, CodeIs
<1>5. \A q \in 1..m : BlockOf(code, q) = Quad(src, 3 * q - 2)
  BY <1>1, <1>2, <1>4, CodeIs
<1>6. (4 * m) \div 4 = m /\ (4 * m) % 4 = 0
  OBVIOUS
<1>7. ASSUME NEW q \in 1..m
      PROVE  /\ LegalBlock(BlockOf(code, q), q = m)
             /\ \A r \in 1..3 : Triple(BlockOf(code, q))[r] = ByteAt(src, 3 * q - 2 + r - 1)
  <2>1. PICK i \in 1..n : i = 3 * q - 2 /\ (q # m => i + 2 <= n)
    BY <1>3
  <2>2. BlockOf(code, q) = Quad(src, i)
    BY <1>5, <2>1
  <2>3. CASE q = m
    <3>1. (q = m) = TRUE
      BY <2>3
    <3>2. QED
      BY <1>1, <2>1, <2>2, <3>1, QuadIs
  <2>4. CASE q # m
    <3>1. (q = m) = FALSE
      BY <2>4
    <3>2. i + 2 <= Len(src)
      BY <1>1, <2>1, <2>4
    <3>3. QED
      BY <1>1, <2>1, <2>2, <3>1, <3>2, QuadIs
  <2>5. QED
    BY <2>3, <2>4
<1>8. PICK g \in 0..m : g = LegalBlocks(code) /\ (g < m => ~LegalBlock(BlockOf(code, g + 1), g + 1 = m))
  BY <1>4, <1>6, LegalBlocksAre
<1>9. g = m
  <2>1. g < m => g + 1 \in 1..m
    OBVIOUS
  <2>2. ~(g < m)
    BY <1>7, <1>8, <2>1
  <2>3. QED
    BY <2>2
<1>10. PICK bytes1 : bytes1 = Decoded(code, m)
  OBVIOUS
<1>11. /\ Len(bytes1) = 3 * m
       /\ \A k \in 1..m, r \in 1..3 : bytes1[3 * (k - 1) + r] = Triple(BlockOf(code, k))[r]
  <2>1. 4 * m <= Len(code) /\ \A k \in 1..m : \E final \in BOOLEAN : LegalBlock(BlockOf(code, k), final)
    <3>1. ASSUME NEW k \in 1..m
          PROVE  \E final \in BOOLEAN : LegalBlock(BlockOf(code, k), final)
      <4>1. PICK final \in BOOLEAN : final = (k = m)
        OBVIOUS
      <4>2. LegalBlock(BlockOf(code, k), final)
        BY <1>7, <4>1
      <4>3. QED
        BY <4>2
    <3>2. QED
      BY <1>4, <3>1
  <2>2. QED
    BY <1>10, <2>1, DecodedIs
<1>12. ASSUME NEW i \in 1..n PROVE bytes1[i] = src[i]
  <2>1. PICK q \in 1..m, r \in 1..3 : i = 3 * (q - 1) + r /\ 3 * q - 2 + r - 1 = i
    <3>1. PICK q \in Nat : q = (i + 2) \div 3 /\ 3 * q <= i + 2 /\ i + 2 < 3 * q + 3
      <4>1. (i + 2) \div 3 \in Nat /\ 3 * ((i + 2) \div 3) <= i + 2 /\ i + 2 < 3 * ((i + 2) \div 3) + 3
        OBVIOUS
      <4>2. QED
        BY <4>1
    <3>2. q \in 1..m /\ i - 3 * (q - 1) \in 1..3
      BY <1>2, <3>1
    <3>3. PICK r \in 1..3 : r = i - 3 * (q - 1)
      BY <3>2
    <3>4. i = 3 * (q - 1) + r /\ 3 * q - 2 + r - 1 = i
      BY <3>2, <3>3
    <3>5. QED
      BY <3>2, <3>4
  <2>2. bytes1[i] = ByteAt(src, 3 * q - 2 + r - 1)
    BY <1>7, <1>11, <2>1, ZenonT(40)
  <2>3. QED
    BY <1>1, <2>1, <2>2 DEF ByteAt
<1>13. QED
  BY <1>1, <1>2, <1>4, <1>6, <1>8, <1>9, <1>10, <1>11, <1>12

\* Legal blocks, by the characters of the text.
LEMMA BlocksAreBase64 ==
    ASSUME NEW src \in Seq(Char), NEW n \in Nat, Len(src) = 4 * n,
           NEW pads, pads = {i \in DOMAIN src : src[i] = Padding}
    PROVE  LegalBlocks(src) = n <=>
               /\ pads \in {{}, {Len(src)}, {Len(src) - 1, Len(src)}}
               /\ \A i \in DOMAIN src \ pads : \E v \in 0..63 : ValueToChar(v) = src[i]
<1>1. DOMAIN src = 1..(4 * n) /\ \A i \in 1..(4 * n) : src[i] \in Char
  OBVIOUS
<1> DEFINE Letter(i) == CharToValue(src[i]) # Illegal
           Pad(i) == src[i] = Padding
<1>2. \A i \in 1..(4 * n) : Letter(i) <=> \E v \in 0..63 : ValueToChar(v) = src[i]
  BY <1>1, LegalIs
<1>3. \A i \in 1..(4 * n) : Letter(i) => ~Pad(i)
  BY CharactersAre
<1>4. pads = {i \in 1..(4 * n) : Pad(i)}
  BY <1>1
<1>5. ASSUME NEW k \in 1..n
      PROVE  LegalBlock(BlockOf(src, k), k = n) <=>
                 /\ Letter(4 * k - 3) /\ Letter(4 * k - 2)
                 /\ \/ k # n /\ Letter(4 * k - 1) /\ Letter(4 * k)
                    \/ k = n /\ Pad(4 * k - 1) /\ Pad(4 * k)
                    \/ k = n /\ Letter(4 * k - 1) /\ (Pad(4 * k) \/ Letter(4 * k))
  <2>1. k \in Nat /\ k # 0 /\ 4 * k <= Len(src)
    OBVIOUS
  <2>2. PICK block : block = BlockOf(src, k) /\ \A r \in 1..4 : block[r] = src[4 * (k - 1) + r]
    <3>1. \A r \in 1..4 : BlockOf(src, k)[r] = src[4 * (k - 1) + r]
      BY <2>1, BlockIs
    <3>2. QED
      BY <3>1
  <2>3. /\ 4 * (k - 1) + 1 = 4 * k - 3 /\ 4 * (k - 1) + 2 = 4 * k - 2
        /\ 4 * (k - 1) + 3 = 4 * k - 1 /\ 4 * (k - 1) + 4 = 4 * k
    OBVIOUS
  <2>4. /\ block[1] = src[4 * k - 3] /\ block[2] = src[4 * k - 2]
        /\ block[3] = src[4 * k - 1] /\ block[4] = src[4 * k]
    BY <2>2, <2>3
  <2>5. QED
    BY <2>2, <2>4 DEF LegalBlock
<1>6. LegalBlocks(src) = n <=> \A k \in 1..n : LegalBlock(BlockOf(src, k), k = n)
  <2>1. n = Len(src) \div 4
    OBVIOUS
  <2>2. PICK g \in 0..n :
            /\ g = LegalBlocks(src) /\ \A k \in 1..g : LegalBlock(BlockOf(src, k), k = n)
            /\ g < n => ~LegalBlock(BlockOf(src, g + 1), g + 1 = n)
    BY <2>1, LegalBlocksAre
  <2>3. g < n => g + 1 \in 1..n
    OBVIOUS
  <2>4. QED
    BY <2>2, <2>3
<1> HIDE DEF Letter, Pad
<1>7. ASSUME \A k \in 1..n : LegalBlock(BlockOf(src, k), k = n)
      PROVE  /\ pads \in {{}, {4 * n}, {4 * n - 1, 4 * n}}
             /\ \A i \in (1..(4 * n)) \ pads : Letter(i)
  <2>1. ASSUME NEW i \in 1..(4 * n)
        PROVE  /\ i < 4 * n - 1 => Letter(i)
               /\ i = 4 * n - 1 => Letter(i) \/ (Pad(i) /\ Pad(4 * n))
               /\ i = 4 * n => Letter(i) \/ Pad(i)
    <3>1. PICK k \in 1..n : i \in {4 * k - 3, 4 * k - 2, 4 * k - 1, 4 * k}
      <4>1. PICK k \in Nat : k = (i + 3) \div 4 /\ 4 * k <= i + 3 /\ i + 3 < 4 * k + 4
        <5>1. (i + 3) \div 4 \in Nat /\ 4 * ((i + 3) \div 4) <= i + 3 /\ i + 3 < 4 * ((i + 3) \div 4) + 4
          OBVIOUS
        <5>2. QED
          BY <5>1
      <4>2. k \in 1..n /\ i \in {4 * k - 3, 4 * k - 2, 4 * k - 1, 4 * k}
        BY <4>1
      <4>3. QED
        BY <4>2
    <3>2. \/ /\ k # n /\ Letter(4 * k - 3) /\ Letter(4 * k - 2) /\ Letter(4 * k - 1)
             /\ Letter(4 * k)
          \/ /\ k = n /\ Letter(4 * k - 3) /\ Letter(4 * k - 2)
             /\ \/ Pad(4 * k - 1) /\ Pad(4 * k)
                \/ Letter(4 * k - 1) /\ (Pad(4 * k) \/ Letter(4 * k))
      BY <1>5, <1>7
    <3>3. k # n => 4 * k < 4 * n - 1
      OBVIOUS
    <3>4. QED
      BY <3>1, <3>2, <3>3
  <2>2. \A i \in 1..(4 * n) : i < 4 * n - 1 \/ i = 4 * n - 1 \/ i = 4 * n
    OBVIOUS
  <2>3. \A i \in (1..(4 * n)) \ pads : Letter(i)
    BY <1>4, <2>1, <2>2
  <2>4. \A i \in pads : i = 4 * n - 1 \/ i = 4 * n
    BY <1>3, <1>4, <2>1, <2>2
  <2>5. 4 * n - 1 \in pads => 4 * n \in pads
    <3>1. 4 * n - 1 \in 1..(4 * n) => 4 * n \in 1..(4 * n)
      OBVIOUS
    <3>2. QED
      BY <1>3, <1>4, <2>1, <3>1
  <2>6. pads = {} \/ pads = {4 * n} \/ pads = {4 * n - 1, 4 * n}
    BY <2>4, <2>5
  <2>7. QED
    BY <2>3, <2>6
<1>8. ASSUME pads \in {{}, {4 * n}, {4 * n - 1, 4 * n}}, \A i \in (1..(4 * n)) \ pads : Letter(i),
             NEW k \in 1..n
      PROVE  LegalBlock(BlockOf(src, k), k = n)
  <2>1. /\ 4 * k - 3 \in 1..(4 * n) /\ 4 * k - 2 \in 1..(4 * n)
        /\ 4 * k - 1 \in 1..(4 * n) /\ 4 * k \in 1..(4 * n)
    OBVIOUS
  <2>2. 4 * k - 3 \notin pads /\ 4 * k - 2 \notin pads
    BY <1>8
  <2>3. k # n => 4 * k - 1 \notin pads /\ 4 * k \notin pads
    BY <1>8
  <2>4. k = n => (4 * k - 1 \in pads => 4 * k \in pads)
    BY <1>8
  <2>5. \A i \in pads : Pad(i)
    BY <1>4
  <2>6. QED
    BY <1>5, <1>8, <2>1, <2>2, <2>3, <2>4, <2>5
<1>9. QED
  BY <1>1, <1>2, <1>6, <1>7, <1>8

-----------------------------------------------------------------------------
(* Memory.                                                                 *)

Cell == 0..255 \cup {Unset}

\* Memory starts with the text c and its 0.
Holds(memory, c) == /\ c \in Seq(Char) /\ Len(c) < Len(memory)
                    /\ \A i \in 1..Len(c) : memory[i] = c[i]
                    /\ memory[Len(c) + 1] = 0

LEMMA CStringIs ==
    ASSUME NEW memory \in Seq(Cell), NEW c, Holds(memory, c)
    PROVE  CString(memory) = c
<1>1. PICK n \in Nat : n = Len(c) /\ n < Len(memory)
  BY DEF Holds
<1>2. PICK room \in Nat : room = Len(memory) /\ DOMAIN memory = 1..room
  OBVIOUS
<1> DEFINE IsEnd(i) == memory[i] = 0 /\ \A j \in 1..(i - 1) : memory[j] # 0
<1>3. ASSUME NEW i \in 1..n PROVE memory[i] \in Char /\ memory[i] # 0
  <2>1. memory[i] = c[i] /\ c \in Seq(Char)
    BY <1>1 DEF Holds
  <2>2. c[i] \in Char
    BY <1>1, <2>1
  <2>3. \A x \in Char : x # 0
    BY DEF Char
  <2>4. QED
    BY <2>1, <2>2, <2>3
<1>4. n + 1 \in DOMAIN memory /\ IsEnd(n + 1)
  BY <1>1, <1>2, <1>3 DEF Holds
<1>5. ASSUME NEW i \in DOMAIN memory, IsEnd(i) PROVE i = n + 1
  <2>1. ~(i < n + 1)
    BY <1>2, <1>3, <1>5
  <2>2. n + 1 < i => n + 1 \in 1..(i - 1)
    BY <1>2
  <2>3. ~(n + 1 < i)
    BY <1>4, <1>5, <2>2
  <2>4. QED
    BY <1>2, <2>1, <2>3
<1>6. (CHOOSE i \in DOMAIN memory : IsEnd(i)) = n + 1
  BY <1>4, <1>5
<1>7. CString(memory) = SubSeq(memory, 1, n)
  <2>1. n = (n + 1) - 1
    OBVIOUS
  <2>2. QED
    BY <1>6, <2>1 DEF CString
<1>8. SubSeq(memory, 1, n) \in Seq(Cell) /\ Len(SubSeq(memory, 1, n)) = n
      /\ \A i \in 1..n : SubSeq(memory, 1, n)[i] = c[i]
  BY <1>1, <1>2 DEF Holds
<1>9. QED
  BY <1>1, <1>7, <1>8, SeqsAreEqual DEF Holds

LEMMA OverwrittenIs ==
    ASSUME NEW room \in Nat, NEW memory \in Seq(Cell), Len(memory) = room, NEW src \in Seq(0..255)
    PROVE  /\ Overwritten(memory, src) \in Seq(Cell) /\ Len(Overwritten(memory, src)) = room
           /\ \A i \in 1..room : /\ i <= Len(src) => Overwritten(memory, src)[i] = src[i]
                                 /\ i > Len(src) => Overwritten(memory, src)[i] = memory[i]
<1>1. DOMAIN memory = 1..room /\ DOMAIN src = 1..Len(src)
  OBVIOUS
<1>2. PICK after : after = Overwritten(memory, src)
  OBVIOUS
<1>3. after = [i \in 1..room |-> IF i \in 1..Len(src) THEN src[i] ELSE memory[i]]
  BY <1>1, <1>2 DEF Overwritten
<1>4. ASSUME NEW i \in 1..room PROVE src[i] \in Cell \/ i \notin 1..Len(src)
  <2>1. PICK n \in Nat : n = Len(src) /\ \A j \in 1..n : src[j] \in 0..255
    <3>1. \A j \in 1..Len(src) : src[j] \in 0..255
      BY SeqIsFunction, ZenonT(40)
    <3>2. QED
      BY <3>1
  <2>2. QED
    BY <2>1 DEF Cell
<1>5. after \in [1..room -> Cell]
  BY <1>3, <1>4
<1>6. after \in Seq(Cell) /\ Len(after) = room
  BY <1>5, FunctionIsSeq
<1>7. \A i \in 1..room : (i \in 1..Len(src)) <=> i <= Len(src)
  OBVIOUS
<1>8. QED
  BY <1>2, <1>3, <1>6, <1>7

\* A text written over memory that has room for it and its 0.
LEMMA WrittenIsHeld ==
    ASSUME NEW memory \in Seq(Cell), NEW c \in Seq(Char), Len(c) < Len(memory)
    PROVE  /\ c \o <<0>> \in Seq(0..255) /\ Len(c \o <<0>>) = Len(c) + 1
           /\ Holds(Overwritten(memory, c \o <<0>>), c)
<1>1. PICK n \in Nat : n = Len(c)
  OBVIOUS
<1>2. PICK room \in Nat : room = Len(memory)
  OBVIOUS
<1>3. c \in Seq(0..255)
  BY DEF Char
<1>4. <<0>> \in Seq(0..255) /\ Len(<<0>>) = 1 /\ <<0>>[1] = 0
  OBVIOUS
<1>5. PICK src : src = c \o <<0>>
  OBVIOUS
<1>6. /\ src \in Seq(0..255) /\ Len(src) = n + 1
      /\ \A i \in 1..n : src[i] = c[i]
      /\ src[n + 1] = 0
  BY <1>1, <1>3, <1>4, <1>5, ConcatIs
<1>7. PICK after : after = Overwritten(memory, src)
  OBVIOUS
<1>8. /\ after \in Seq(Cell) /\ Len(after) = room
      /\ \A i \in 1..room : i <= Len(src) => after[i] = src[i]
  BY <1>2, <1>6, <1>7, OverwrittenIs, ZenonT(40)
<1>9. Holds(after, c)
  BY <1>1, <1>2, <1>6, <1>8 DEF Holds
<1>10. QED
  BY <1>1, <1>5, <1>6, <1>7, <1>9

-----------------------------------------------------------------------------
(* The calls.                                                              *)

\* The text is what was encoded, if it was, and whole.
TextIs(c) == Holds(text, c) /\ (coded # NotCoded => coded \in Seq(0..255) /\ c = Code(coded))

Base64Inv == Base64TypeOK /\ (\E c \in Seq(Char) : TextIs(c)) /\ DecoderIsExact

LEMMA InitHolds == Base64Init => Base64Inv
<1> SUFFICES ASSUME Base64Init PROVE Base64Inv
  OBVIOUS
<1>1. PICK c \in Codes : text = Overwritten([i \in 1..Room |-> Unset], c \o <<0>>)
  BY DEF Base64Init
<1>2. c \in Seq(Char) /\ Len(c) < Room /\ Room \in Nat
  BY Base64Assumption DEF Char
<1>3. PICK memory : memory = [i \in 1..Room |-> Unset]
  OBVIOUS
<1>4. memory \in [1..Room -> Cell]
  BY <1>3 DEF Cell
<1>5. memory \in Seq(Cell) /\ Len(memory) = Room
  BY <1>2, <1>4, FunctionIsSeq
<1>6. c \o <<0>> \in Seq(0..255) /\ Holds(Overwritten(memory, c \o <<0>>), c)
  BY <1>2, <1>5, WrittenIsHeld
<1>7. text \in Seq(Cell) /\ Len(text) = Room
  BY <1>1, <1>2, <1>3, <1>5, <1>6, OverwrittenIs
<1>8. bytes \in Seq(Cell) /\ Len(bytes) = Room
  BY <1>3, <1>5 DEF Base64Init
<1>9. outcome.call = "none" /\ outcome.result = 0 /\ codings \in 0..MaxCodings /\ coded = NotCoded
  BY Base64Assumption DEF Base64Init
<1>10. Base64TypeOK
  BY <1>7, <1>8, <1>9 DEF Base64TypeOK, Cell
<1>11. TextIs(c)
  BY <1>1, <1>3, <1>6, <1>9 DEF TextIs
<1>12. DecoderIsExact
  BY <1>9 DEF DecoderIsExact, DecodeGivesWhatWasEncoded, DecodesExactlyBase64
<1>13. QED
  BY <1>2, <1>10, <1>11, <1>12 DEF Base64Inv

\* How far a call writes, as a formula of one step.
StaysInside == \A i \in (outcome'.dstLen + 1)..Room : text'[i] = text[i] /\ bytes'[i] = bytes[i]

LEMMA EncodesHolds ==
    ASSUME Base64Inv, NEW src \in Plain, NEW dstLen \in 0..Room, Encodes(src, dstLen)
    PROVE  Base64Inv' /\ StaysInside
<1>1. Room \in Nat /\ src \in Seq(0..255)
  BY Base64Assumption
<1>2. /\ text \in Seq(Cell) /\ Len(text) = Room /\ bytes \in Seq(Cell) /\ Len(bytes) = Room
      /\ bytes' = bytes /\ codings' \in 0..MaxCodings /\ outcome'.call = "encode"
      /\ outcome'.result \in {0, 1} /\ outcome'.dstLen = dstLen
  <2>1. PICK result \in {0, 1} : Returns("encode", dstLen, result)
    BY DEF Encodes
  <2>2. /\ codings' = codings + 1 /\ codings < MaxCodings
        /\ outcome' = [call |-> "encode", dstLen |-> dstLen, result |-> result]
    BY <2>1 DEF Returns
  <2>3. codings' \in 0..MaxCodings
    BY <2>2, Base64Assumption DEF Base64Inv, Base64TypeOK
  <2>4. outcome'.call = "encode" /\ outcome'.result = result /\ outcome'.dstLen = dstLen
    BY <2>2
  <2>5. QED
    BY <2>3, <2>4 DEF Base64Inv, Base64TypeOK, Cell, Encodes
<1>3. DecoderIsExact'
  BY <1>2 DEF DecoderIsExact, DecodeGivesWhatWasEncoded, DecodesExactlyBase64
<1>4. CASE EncodeFits(Len(src), dstLen)
  <2>1. PICK c : c = Code(src)
    OBVIOUS
  <2>2. PICK m \in Nat : m = Quads(Len(src))
    BY <1>1, QuadsAre
  <2>3. c \in Seq(Char) /\ Len(c) = 4 * m
    BY <1>1, <2>1, <2>2, CodeIs
  <2>4. 4 * m + 1 <= dstLen
    BY <1>4, <2>2 DEF EncodeFits
  <2>5. text' = Overwritten(text, c \o <<0>>) /\ coded' = src
    BY <1>4, <2>1 DEF Encodes, Encoding, Code
  <2>6. Len(c) < Len(text)
    BY <1>1, <1>2, <2>3, <2>4
  <2>7. c \o <<0>> \in Seq(0..255) /\ Len(c \o <<0>>) = 4 * m + 1 /\ Holds(text', c)
    BY <1>2, <2>3, <2>5, <2>6, WrittenIsHeld
  <2>8. /\ text' \in Seq(Cell) /\ Len(text') = Room
        /\ \A i \in 1..Room : i > Len(c \o <<0>>) => text'[i] = text[i]
    BY <1>1, <1>2, <2>5, <2>7, OverwrittenIs, ZenonT(40)
  <2>9. TextIs(c)'
    BY <1>1, <2>1, <2>5, <2>7 DEF TextIs
  <2>10. StaysInside
    BY <1>1, <1>2, <2>4, <2>7, <2>8 DEF StaysInside
  <2>11. QED
    BY <1>2, <1>3, <2>3, <2>8, <2>9, <2>10 DEF Base64Inv, Base64TypeOK, Cell
<1>5. CASE ~EncodeFits(Len(src), dstLen)
  <2>1. text' = text /\ coded' = coded
    BY <1>5 DEF Encodes
  <2>2. \E c \in Seq(Char) : TextIs(c)'
    BY <2>1 DEF Base64Inv, TextIs
  <2>3. QED
    BY <1>2, <1>3, <2>1, <2>2 DEF Base64Inv, Base64TypeOK, Cell, StaysInside
<1>6. QED
  BY <1>4, <1>5

LEMMA DecodesHolds ==
    ASSUME Base64Inv, NEW dstLen \in 0..Room, Decodes(dstLen)
    PROVE  Base64Inv' /\ StaysInside
<1>1. Room \in Nat
  BY Base64Assumption
<1>2. /\ text \in Seq(Cell) /\ Len(text) = Room /\ bytes \in Seq(Cell) /\ Len(bytes) = Room
      /\ text' = text /\ coded' = coded /\ codings' \in 0..MaxCodings /\ outcome'.call = "decode"
      /\ outcome'.result \in {0, 1} /\ outcome'.dstLen = dstLen
  <2>1. PICK result \in {0, 1} : Returns("decode", dstLen, result)
    BY DEF Decodes
  <2>2. /\ codings' = codings + 1 /\ codings < MaxCodings
        /\ outcome' = [call |-> "decode", dstLen |-> dstLen, result |-> result]
    BY <2>1 DEF Returns
  <2>3. codings' \in 0..MaxCodings
    BY <2>2, Base64Assumption DEF Base64Inv, Base64TypeOK
  <2>4. outcome'.call = "decode" /\ outcome'.result = result /\ outcome'.dstLen = dstLen
    BY <2>2
  <2>5. QED
    BY <2>3, <2>4 DEF Base64Inv, Base64TypeOK, Cell, Decodes
<1>3. PICK c \in Seq(Char) : TextIs(c)
  BY DEF Base64Inv
<1>4. CString(text) = c
  BY <1>2, <1>3, CStringIs DEF TextIs
<1>5. PICK len \in Nat : len = Len(c)
  OBVIOUS
<1>6. PICK n \in Nat : n = len \div 4 /\ 4 * n <= len /\ len < 4 * n + 4 /\ (len % 4 = 0 <=> len = 4 * n)
  <2>1. /\ len \div 4 \in Nat /\ 4 * (len \div 4) <= len /\ len < 4 * (len \div 4) + 4
        /\ (len % 4 = 0 <=> len = 4 * (len \div 4))
    OBVIOUS
  <2>2. QED
    BY <2>1
<1>7. DecodeFits(c, dstLen) <=> len = 4 * n /\ 3 * n <= dstLen
  BY <1>5, <1>6 DEF DecodeFits
<1>8. PICK blocks : blocks = IF DecodeFits(c, dstLen) THEN LegalBlocks(c) ELSE 0
  OBVIOUS
<1>9. /\ bytes' = Overwritten(bytes, Decoded(c, blocks))
      /\ outcome'.result = IF DecodeFits(c, dstLen) /\ 4 * blocks = Len(c) THEN 0 ELSE 1
  BY <1>4, <1>8 DEF Decodes, Decoded, Returns
<1>10. /\ LegalBlocks(c) \in 0..n
       /\ \A k \in 1..LegalBlocks(c) : LegalBlock(BlockOf(c, k), k = n)
  BY <1>5, <1>6, LegalBlocksAre
<1>11. blocks \in 0..n /\ \A k \in 1..blocks : LegalBlock(BlockOf(c, k), k = n)
  BY <1>8, <1>10
<1>12. ASSUME NEW k \in 1..blocks PROVE \E final \in BOOLEAN : LegalBlock(BlockOf(c, k), final)
  <2>1. PICK final \in BOOLEAN : final = (k = n)
    OBVIOUS
  <2>2. LegalBlock(BlockOf(c, k), final)
    BY <1>11, <2>1
  <2>3. QED
    BY <2>2
<1>13. 4 * blocks <= Len(c) /\ blocks \in Nat
  BY <1>5, <1>6, <1>11
<1>14. PICK out : out = Decoded(c, blocks)
  OBVIOUS
<1>15. out \in Seq(0..255) /\ Len(out) = 3 * blocks
  BY <1>12, <1>13, <1>14, DecodedIs
<1>16. 3 * blocks <= dstLen
  BY <1>7, <1>8, <1>11
<1>17. /\ bytes' \in Seq(Cell) /\ Len(bytes') = Room
       /\ \A i \in 1..Room : /\ i <= Len(out) => bytes'[i] = out[i]
                             /\ i > Len(out) => bytes'[i] = bytes[i]
  BY <1>1, <1>2, <1>9, <1>14, <1>15, OverwrittenIs
<1>18. StaysInside
  BY <1>1, <1>2, <1>15, <1>16, <1>17 DEF StaysInside
<1>19. outcome'.result = 0 <=> len = 4 * n /\ 3 * n <= dstLen /\ LegalBlocks(c) = n
  BY <1>5, <1>7, <1>8, <1>9, <1>10
<1>20. DecodesExactlyBase64'
  <2>1. PICK pads : pads = {i \in DOMAIN c : c[i] = Padding}
    OBVIOUS
  <2>2. PICK letters : letters = \A i \in DOMAIN c \ pads : \E v \in 0..63 : ValueToChar(v) = c[i]
    OBVIOUS
  <2>3. len = 4 * n => (LegalBlocks(c) = n <=>
                            pads \in {{}, {Len(c)}, {Len(c) - 1, Len(c)}} /\ letters)
    BY <1>5, <2>1, <2>2, BlocksAreBase64
  <2>4. len = 4 * n => (3 * len) \div 4 = 3 * n
    OBVIOUS
  <2>5. outcome'.result = 0 <=> /\ Len(c) % 4 = 0
                                /\ pads \in {{}, {Len(c)}, {Len(c) - 1, Len(c)}}
                                /\ letters
                                /\ (3 * Len(c)) \div 4 <= dstLen
    BY <1>5, <1>6, <1>19, <2>3, <2>4
  <2>6. QED
    BY <1>2, <1>4, <2>1, <2>2, <2>5 DEF DecodesExactlyBase64
<1>21. DecodeGivesWhatWasEncoded'
  <2> SUFFICES ASSUME coded # NotCoded
               PROVE  /\ outcome'.result = 0 <=> outcome'.dstLen >= 3 * Quads(Len(coded))
                      /\ outcome'.result = 0 => SubSeq(bytes', 1, Len(coded)) = coded
    BY <1>2 DEF DecodeGivesWhatWasEncoded
  <2>1. coded \in Seq(0..255) /\ c = Code(coded)
    BY <1>3 DEF TextIs
  <2>2. PICK m \in Nat : m = Quads(Len(coded)) /\ Len(coded) <= 3 * m
    <3>1. Len(coded) \in Nat
      BY <2>1
    <3>2. Quads(Len(coded)) \in Nat /\ Len(coded) <= 3 * Quads(Len(coded))
      BY <3>1, QuadsAre
    <3>3. QED
      BY <3>2
  <2>3. /\ Len(c) = 4 * m /\ LegalBlocks(c) = m
        /\ Len(coded) <= Len(Decoded(c, m)) /\ \A i \in 1..Len(coded) : Decoded(c, m)[i] = coded[i]
    BY <2>1, <2>2, CodeIs, CodeDecoded
  <2>4. m = n
    BY <1>5, <1>6, <2>3
  <2>5. outcome'.result = 0 <=> dstLen >= 3 * m
    BY <1>5, <1>19, <2>3, <2>4
  <2>6. ASSUME outcome'.result = 0 PROVE SubSeq(bytes', 1, Len(coded)) = coded
    <3>1. blocks = m
      BY <1>7, <1>8, <1>19, <2>4, <2>6
    <3>2. PICK k \in Nat : k = Len(coded) /\ k <= Room /\ k <= Len(out)
      BY <1>1, <1>14, <1>15, <1>16, <2>1, <2>2, <2>3, <3>1
    <3>3. \A i \in 1..k : bytes'[i] = coded[i]
      BY <1>1, <1>14, <1>17, <2>3, <3>1, <3>2
    <3>4. PICK part : part = SubSeq(bytes', 1, k)
      OBVIOUS
    <3>5. part \in Seq(Cell) /\ Len(part) = k /\ \A i \in 1..k : part[i] = coded[i]
      BY <1>17, <3>2, <3>3, <3>4
    <3>6. part = coded
      BY <2>1, <3>2, <3>5, SeqsAreEqual
    <3>7. QED
      BY <3>2, <3>4, <3>6
  <2>7. QED
    BY <1>2, <2>2, <2>5, <2>6
<1>22. TextIs(c)'
  BY <1>2, <1>3 DEF TextIs
<1>23. QED
  BY <1>2, <1>17, <1>18, <1>20, <1>21, <1>22 DEF Base64Inv, Base64TypeOK, Cell, DecoderIsExact

LEMMA StepHolds == Base64Inv /\ [Base64Next]_base64Vars => Base64Inv' /\ [StaysInside]_base64Vars
<1> SUFFICES ASSUME Base64Inv, [Base64Next]_base64Vars
             PROVE  Base64Inv' /\ [StaysInside]_base64Vars
  OBVIOUS
<1>1. ASSUME NEW src \in Plain, NEW dstLen \in 0..Room, Encodes(src, dstLen)
      PROVE  Base64Inv' /\ StaysInside
  BY <1>1, EncodesHolds
<1>2. ASSUME NEW dstLen \in 0..Room, Decodes(dstLen) PROVE Base64Inv' /\ StaysInside
  BY <1>2, DecodesHolds
<1>3. CASE UNCHANGED base64Vars
  <2>1. text' = text /\ bytes' = bytes /\ coded' = coded /\ outcome' = outcome /\ codings' = codings
    BY <1>3 DEF base64Vars
  <2>2. Base64TypeOK' /\ DecoderIsExact'
    BY <2>1 DEF Base64Inv, Base64TypeOK, DecoderIsExact, DecodeGivesWhatWasEncoded,
                DecodesExactlyBase64
  <2>3. \E c \in Seq(Char) : TextIs(c)'
    BY <2>1 DEF Base64Inv, TextIs
  <2>4. QED
    BY <1>3, <2>2, <2>3 DEF Base64Inv
<1>4. QED
  BY <1>1, <1>2, <1>3 DEF Base64Next, Base64Done

LEMMA InvariantHolds == Base64Spec => []Base64Inv
<1>1. Base64Inv /\ [Base64Next]_base64Vars => Base64Inv'
  BY StepHolds
<1>2. QED
  BY <1>1, InitHolds, PTL DEF Base64Spec

-----------------------------------------------------------------------------
(* The theorems.                                                           *)

\* The areas keep their size and hold bytes or nothing, and every call succeeds or fails.
THEOREM TypeCorrect == Base64Spec => []Base64TypeOK
<1>1. Base64Inv => Base64TypeOK
  BY DEF Base64Inv
<1>2. QED
  BY <1>1, InvariantHolds, PTL

\* base64_decode gives back what base64_encode was given, whenever it has room for the blocks,
\* and accepts exactly the texts RFC 4648 describes, whatever earlier calls left in memory.
THEOREM DecoderCorrect == Base64Spec => []DecoderIsExact
<1>1. Base64Inv => DecoderIsExact
  BY DEF Base64Inv
<1>2. QED
  BY <1>1, InvariantHolds, PTL

\* base64_encode and base64_decode write to the first dst_len bytes and to no others.
THEOREM WritesCorrect == Base64Spec => WritesStayInside
<1>1. Base64Inv /\ [Base64Next]_base64Vars => [StaysInside]_base64Vars
  BY StepHolds
<1>2. QED
  BY <1>1, InvariantHolds, PTL DEF Base64Spec, WritesStayInside, StaysInside
=============================================================================
