---------------------------- MODULE Strings_proofs ----------------------------
(***************************************************************************)
(* Theorems about Strings and HttpLines, for any texts, any characters and *)
(* any number of calls: what the functions that change a string leave in   *)
(* its buffer, and what the lines of a message are taken apart into.       *)
(***************************************************************************)
EXTENDS Strings, HttpLines, Lists_proofs

-----------------------------------------------------------------------------
(* Buffers.                                                                *)

Byte == 0..255
Buffer == BuffersOf(Byte)
Stored == Byte \union {Garbage}

LEMMA BufferIs ==
    ASSUME NEW b \in Buffer
    PROVE  /\ b = [data |-> b.data, length |-> b.length]
           /\ b.data \in Seq(Stored) /\ Len(b.data) \in Nat /\ DOMAIN b.data = 1..Len(b.data)
           /\ \A i \in 1..Len(b.data) : b.data[i] \in Stored
           /\ b.length \in Nat /\ b.length <= Len(b.data)
<1>1. /\ b = [data |-> b.data, length |-> b.length] /\ b.data \in Seq(Stored)
      /\ b.length \in Nat /\ b.length <= Len(b.data)
  BY DEF Buffer, BuffersOf, Stored
<1>2. \A S : \A s \in Seq(S) : Len(s) \in Nat /\ DOMAIN s = 1..Len(s) /\ \A i \in 1..Len(s) : s[i] \in S
  OBVIOUS
<1>3. QED
  BY <1>1, <1>2

\* The memory of a buffer and its length make the buffer.
LEMMA BufferOf ==
    ASSUME NEW n \in Nat, NEW d \in [1..n -> Stored], NEW l \in Nat, l <= n
    PROVE  [data |-> d, length |-> l] \in Buffer /\ Len(d) = n
<1>1. d \in Seq(Stored) /\ Len(d) = n
  BY FunctionIsSeq
<1>2. QED
  BY <1>1 DEF Buffer, BuffersOf, Stored

LEMMA SetCapacityIs ==
    ASSUME NEW b \in Buffer, NEW n \in Nat, NEW c, c = SetCapacity(b, n)
    PROVE  /\ c \in Buffer /\ Len(c.data) = n
           /\ c.length = IF n < b.length THEN n ELSE b.length
           /\ \A i \in 1..n : i <= Len(b.data) => c.data[i] = b.data[i]
<1> DEFINE d == [i \in 1..n |-> IF i <= Len(b.data) THEN b.data[i] ELSE Garbage]
           l == IF n < b.length THEN n ELSE b.length
<1>1. /\ Len(b.data) \in Nat /\ \A i \in 1..Len(b.data) : b.data[i] \in Stored
      /\ b.length \in Nat
  BY BufferIs
<1>2. d \in [1..n -> Stored]
  <2>1. ASSUME NEW i \in 1..n
        PROVE  (IF i <= Len(b.data) THEN b.data[i] ELSE Garbage) \in Stored
    <3>1. i <= Len(b.data) => i \in 1..Len(b.data)
      BY <1>1
    <3>2. QED
      BY <1>1, <3>1 DEF Stored
  <2>2. QED
    BY <2>1
<1>3. l \in Nat /\ l <= n
  BY <1>1
<1>4. c = [data |-> d, length |-> l]
  BY DEF SetCapacity
<1>5. \A i \in 1..n : i <= Len(b.data) => d[i] = b.data[i]
  OBVIOUS
<1> HIDE DEF d, l
<1>6. c \in Buffer /\ Len(d) = n
  BY <1>2, <1>3, <1>4, BufferOf
<1>7. c.data = d /\ c.length = l
  BY <1>4
<1>8. QED
  BY <1>5, <1>6, <1>7 DEF l

LEMMA EnsureCapacityIs ==
    ASSUME NEW b \in Buffer, NEW n \in Nat, NEW c, c = EnsureCapacity(b, n)
    PROVE  /\ c \in Buffer /\ c.length = b.length
           /\ Len(c.data) >= n /\ Len(c.data) >= Len(b.data)
           /\ \A i \in 1..Len(b.data) : c.data[i] = b.data[i]
<1>1. Len(b.data) \in Nat /\ b.length \in Nat /\ b.length <= Len(b.data)
  BY BufferIs
<1>2. CASE n > Len(b.data)
  <2>1. c = SetCapacity(b, n)
    BY <1>2 DEF EnsureCapacity
  <2>2. /\ c \in Buffer /\ Len(c.data) = n
        /\ c.length = IF n < b.length THEN n ELSE b.length
        /\ \A i \in 1..n : i <= Len(b.data) => c.data[i] = b.data[i]
    BY <2>1, SetCapacityIs
  <2>3. \A i \in 1..Len(b.data) : i \in 1..n /\ i <= Len(b.data)
    BY <1>1, <1>2
  <2>4. c.length = b.length
    BY <1>1, <1>2, <2>2
  <2>5. QED
    BY <1>1, <1>2, <2>2, <2>3, <2>4
<1>3. CASE ~(n > Len(b.data))
  BY <1>1, <1>3 DEF EnsureCapacity
<1>4. QED
  BY <1>2, <1>3

LEMMA SetLengthIs ==
    ASSUME NEW b \in Buffer, NEW n \in Nat, NEW c, c = SetLength(b, n)
    PROVE  /\ c \in Buffer /\ c.length = n
           /\ Len(c.data) >= n /\ Len(c.data) >= Len(b.data)
           /\ \A i \in 1..Len(b.data) : c.data[i] = b.data[i]
<1>1. PICK e : e = EnsureCapacity(b, n)
  OBVIOUS
<1>2. /\ e \in Buffer /\ Len(e.data) >= n /\ Len(e.data) >= Len(b.data)
      /\ \A i \in 1..Len(b.data) : e.data[i] = b.data[i]
  BY <1>1, EnsureCapacityIs
<1>3. c = [e EXCEPT !.length = n]
  BY <1>1 DEF SetLength
<1>4. /\ e = [data |-> e.data, length |-> e.length] /\ e.data \in Seq(Stored)
      /\ Len(e.data) \in Nat
  BY <1>2, BufferIs
<1>5. c = [data |-> e.data, length |-> n]
  BY <1>3, <1>4
<1>6. c \in Buffer
  BY <1>2, <1>4, <1>5 DEF Buffer, BuffersOf, Stored
<1>7. QED
  BY <1>2, <1>5, <1>6

\* Other bytes in the memory of a buffer.
LEMMA DataIs ==
    ASSUME NEW b \in Buffer, NEW d \in [1..Len(b.data) -> Stored], NEW c,
           c = [b EXCEPT !.data = d]
    PROVE  c \in Buffer /\ c.data = d /\ c.length = b.length /\ Len(c.data) = Len(b.data)
<1>1. /\ b = [data |-> b.data, length |-> b.length] /\ Len(b.data) \in Nat
      /\ b.length \in Nat /\ b.length <= Len(b.data)
  BY BufferIs
<1>2. c = [data |-> d, length |-> b.length]
  BY <1>1
<1>3. c \in Buffer /\ Len(d) = Len(b.data)
  BY <1>1, <1>2, BufferOf
<1>4. QED
  BY <1>2, <1>3

\* c is b with src written at pos.
Written(c, b, pos, src) ==
    /\ c \in Buffer
    /\ c.length = IF pos + Len(src) > b.length THEN pos + Len(src) ELSE b.length
    /\ Len(c.data) >= Len(b.data)
    /\ \A i \in 1..Len(src) : c.data[pos + i] = src[i]
    /\ \A i \in 1..Len(b.data) : i \notin (pos + 1)..(pos + Len(src)) => c.data[i] = b.data[i]

LEMMA WriteAtIs ==
    ASSUME NEW b \in Buffer, NEW pos \in Nat, NEW src \in Seq(Stored)
    PROVE  Written(WriteAt(b, pos, src), b, pos, src)
<1>0. PICK c : c = WriteAt(b, pos, src)
  OBVIOUS
<1>1. PICK n \in Nat : n = pos + Len(src)
  OBVIOUS
<1>2. /\ Len(src) \in Nat /\ \A i \in 1..Len(src) : src[i] \in Stored
  OBVIOUS
<1>3. Len(b.data) \in Nat /\ b.length \in Nat /\ b.length <= Len(b.data)
  BY BufferIs
<1>4. PICK g : g = IF n > b.length THEN SetLength(b, n) ELSE b
  OBVIOUS
<1>5. /\ g \in Buffer /\ g.length = IF n > b.length THEN n ELSE b.length
      /\ Len(g.data) >= n /\ Len(g.data) >= Len(b.data)
      /\ \A i \in 1..Len(b.data) : g.data[i] = b.data[i]
  <2>1. CASE n > b.length
    BY <1>4, <2>1, SetLengthIs
  <2>2. CASE ~(n > b.length)
    BY <1>3, <1>4, <2>2
  <2>3. QED
    BY <2>1, <2>2
<1>6. /\ Len(g.data) \in Nat /\ DOMAIN g.data = 1..Len(g.data)
      /\ \A i \in 1..Len(g.data) : g.data[i] \in Stored
  BY <1>5, BufferIs
<1> DEFINE d == [i \in 1..Len(g.data) |-> IF i \in (pos + 1)..n THEN src[i - pos]
                                          ELSE g.data[i]]
<1>7. d \in [1..Len(g.data) -> Stored]
  <2>1. ASSUME NEW i \in 1..Len(g.data)
        PROVE  (IF i \in (pos + 1)..n THEN src[i - pos] ELSE g.data[i]) \in Stored
    <3>1. i \in (pos + 1)..n => i - pos \in 1..Len(src)
      BY <1>1, <1>2
    <3>2. QED
      BY <1>2, <1>6, <3>1
  <2>2. QED
    BY <2>1
<1>8. c = [g EXCEPT !.data = d]
  BY <1>0, <1>1, <1>4, <1>6 DEF WriteAt
<1>9. \A i \in 1..Len(src) : d[pos + i] = src[i]
  <2>1. \A i \in 1..Len(src) : /\ pos + i \in 1..Len(g.data) /\ pos + i \in (pos + 1)..n
                               /\ (pos + i) - pos = i
    BY <1>1, <1>2, <1>5, <1>6
  <2>2. QED
    BY <2>1
<1>10. \A i \in 1..Len(b.data) : i \notin (pos + 1)..n => d[i] = b.data[i]
  <2>1. \A i \in 1..Len(b.data) : i \in 1..Len(g.data)
    BY <1>3, <1>5, <1>6
  <2>2. QED
    BY <1>5, <2>1
<1> HIDE DEF d
<1>11. c \in Buffer /\ c.data = d /\ c.length = g.length /\ Len(c.data) = Len(g.data)
  BY <1>5, <1>7, <1>8, DataIs
<1>12. Written(c, b, pos, src)
  BY <1>1, <1>5, <1>9, <1>10, <1>11 DEF Written
<1>13. QED
  BY <1>0, <1>12

-----------------------------------------------------------------------------
(* Strings in buffers.                                                     *)

\* The memory of a buffer starts with a text.
Starts(b, text) == /\ b \in Buffer /\ text \in Seq(Byte) /\ Len(text) <= Len(b.data)
                   /\ \A i \in 1..Len(text) : b.data[i] = text[i]

\* The buffer is the string that has the text.
Holds(b, text) == /\ Starts(b, text) /\ b.length = Len(text) + 1
                  /\ b.data[Len(text) + 1] = 0

LEMMA HoldsIs ==
    ASSUME NEW b, NEW text, Holds(b, text)
    PROVE  /\ b \in Buffer /\ text \in Seq(Byte) /\ Len(text) \in Nat
           /\ Len(b.data) \in Nat /\ b.length \in Nat
           /\ b.length = Len(text) + 1 /\ Len(text) + 1 <= Len(b.data)
           /\ StringLength(b) = Len(text) /\ Len(text) <= Len(b.data)
           /\ \A i \in 1..Len(text) : b.data[i] = text[i]
           /\ b.data[Len(text) + 1] = 0
<1>1. /\ b \in Buffer /\ text \in Seq(Byte) /\ b.length = Len(text) + 1
      /\ \A i \in 1..Len(text) : b.data[i] = text[i]
      /\ b.data[Len(text) + 1] = 0
  BY DEF Holds, Starts
<1>2. Len(text) \in Nat
  BY <1>1
<1>3. b.length \in Nat /\ Len(b.data) \in Nat /\ b.length <= Len(b.data)
  BY <1>1, BufferIs
<1>4. StringLength(b) = Len(text)
  BY <1>1, <1>2 DEF StringLength
<1>5. QED
  BY <1>1, <1>2, <1>3, <1>4

\* Where the length says a terminator is written.
LEMMA TerminatedHolds ==
    ASSUME NEW b, NEW text, Starts(b, text)
    PROVE  Holds(Terminated(b, Len(text)), text)
<1>1. /\ b \in Buffer /\ text \in Seq(Byte) /\ Len(text) \in Nat /\ Len(text) <= Len(b.data)
      /\ \A i \in 1..Len(text) : b.data[i] = text[i]
  BY DEF Starts
<1>2. PICK n \in Nat : n = Len(text)
  BY <1>1
<1>3. PICK g : g = SetLength(b, n + 1)
  OBVIOUS
<1>4. /\ g \in Buffer /\ g.length = n + 1 /\ Len(g.data) >= n + 1
      /\ \A i \in 1..Len(b.data) : g.data[i] = b.data[i]
  <2>1. PICK l \in Nat : l = n + 1
    OBVIOUS
  <2>2. g = SetLength(b, l)
    BY <1>3, <2>1
  <2>3. /\ g \in Buffer /\ g.length = l /\ Len(g.data) >= l
        /\ \A i \in 1..Len(b.data) : g.data[i] = b.data[i]
    BY <1>1, <2>2, SetLengthIs
  <2>4. QED
    BY <2>1, <2>3
<1>5. /\ Len(g.data) \in Nat /\ DOMAIN g.data = 1..Len(g.data)
      /\ \A i \in 1..Len(g.data) : g.data[i] \in Stored
      /\ g = [data |-> g.data, length |-> g.length] /\ Len(b.data) \in Nat
      /\ g.data \in Seq(Stored)
  BY <1>1, <1>4, BufferIs
<1> DEFINE d == [g.data EXCEPT ![n + 1] = 0]
<1>6. n + 1 \in 1..Len(g.data)
  BY <1>4, <1>5
<1>7. /\ d \in [1..Len(g.data) -> Stored] /\ d[n + 1] = 0
      /\ \A i \in 1..Len(g.data) : i # n + 1 => d[i] = g.data[i]
  <2>1. g.data \in [1..Len(g.data) -> Stored]
    BY <1>5, SeqIsFunction
  <2>2. 0 \in Stored
    BY DEF Stored, Byte
  <2>3. QED
    BY <1>6, <2>1, <2>2
<1>8. PICK c : c = [g EXCEPT !.data = d]
  OBVIOUS
<1>9. Terminated(b, n) = c
  BY <1>3, <1>8 DEF Terminated
<1> HIDE DEF d
<1>10. c \in Buffer /\ c.data = d /\ c.length = n + 1 /\ Len(c.data) = Len(g.data)
  BY <1>4, <1>7, <1>8, DataIs
<1>11. \A i \in 1..n : c.data[i] = text[i]
  <2>1. \A i \in 1..n : i \in 1..Len(b.data) /\ i \in 1..Len(g.data) /\ i # n + 1
    BY <1>1, <1>2, <1>4, <1>5
  <2>2. QED
    BY <1>1, <1>2, <1>4, <1>7, <1>10, <2>1
<1>12. Starts(c, text)
  BY <1>1, <1>2, <1>4, <1>5, <1>10, <1>11 DEF Starts
<1>13. Holds(c, text)
  BY <1>2, <1>7, <1>10, <1>12 DEF Holds
<1>14. QED
  BY <1>2, <1>9, <1>13

\* The text of a string, and its bytes.
LEMMA ContentsAre ==
    ASSUME NEW b, NEW text, Holds(b, text)
    PROVE  Text(b) = text /\ Contents(b) = Append(text, 0)
<1>1. /\ b \in Buffer /\ text \in Seq(Byte) /\ b.data \in Seq(Stored)
      /\ b.length = Len(text) + 1 /\ Len(text) + 1 <= Len(b.data) /\ StringLength(b) = Len(text)
      /\ \A i \in 1..Len(text) : b.data[i] = text[i]
      /\ b.data[Len(text) + 1] = 0
  BY HoldsIs, BufferIs
<1>2. PICK n \in Nat : n = Len(text)
  BY <1>1
<1>3. Text(b) = text
  <2> DEFINE u == SubSeq(b.data, 0 + 1, 0 + n)
  <2>1. u \in Seq(Stored) /\ Len(u) = n /\ \A i \in 1..n : u[i] = b.data[0 + i]
    <3>1. 0 + n <= Len(b.data) /\ 0 \in Nat
      BY <1>1, <1>2, BufferIs
    <3>2. QED
      BY <1>1, <3>1, PartIs
  <2>2. Text(b) = u
    <3>1. 0 + 1 = 1 /\ 0 + n = n
      OBVIOUS
    <3>2. QED
      BY <1>1, <1>2, <3>1 DEF Text
  <2> HIDE DEF u
  <2>3. \A i \in 1..n : u[i] = text[i]
    BY <1>1, <1>2, <2>1
  <2>4. u = text
    BY <1>1, <1>2, <2>1, <2>3, SeqsAreEqual
  <2>5. QED
    BY <2>2, <2>4
<1>4. Contents(b) = Append(text, 0)
  <2> DEFINE u == SubSeq(b.data, 0 + 1, 0 + (n + 1))
  <2>1. u \in Seq(Stored) /\ Len(u) = n + 1 /\ \A i \in 1..(n + 1) : u[i] = b.data[0 + i]
    <3>1. 0 + (n + 1) <= Len(b.data) /\ 0 \in Nat /\ n + 1 \in Nat
      BY <1>1, <1>2, BufferIs
    <3>2. QED
      BY <1>1, <3>1, PartIs
  <2>2. Contents(b) = u
    <3>1. 0 + 1 = 1 /\ 0 + (n + 1) = n + 1
      OBVIOUS
    <3>2. QED
      BY <1>1, <1>2, <3>1 DEF Contents
  <2>3. PICK w : w = Append(text, 0)
    OBVIOUS
  <2>4. /\ w \in Seq(Byte) /\ Len(w) = n + 1 /\ w[n + 1] = 0
        /\ \A i \in 1..n : w[i] = text[i]
    BY <1>1, <1>2, <2>3 DEF Byte
  <2> HIDE DEF u
  <2>5. \A i \in 1..(n + 1) : u[i] = w[i]
    <3>1. \A i \in 1..(n + 1) : (i = n + 1 \/ i \in 1..n) /\ 0 + i = i
      OBVIOUS
    <3>2. QED
      BY <1>1, <1>2, <2>1, <2>4, <3>1
  <2>6. u = w
    BY <2>1, <2>4, <2>5, SeqsAreEqual
  <2>7. QED
    BY <2>2, <2>3, <2>6
<1>5. QED
  BY <1>3, <1>4

\* A text with its terminator.
LEMMA HoldsWithEnd ==
    ASSUME NEW b, NEW text \in Seq(Byte), Starts(b, Append(text, 0)), b.length = Len(text) + 1
    PROVE  Holds(b, text)
<1>1. PICK n \in Nat : n = Len(text)
  OBVIOUS
<1>2. PICK w : w = Append(text, 0)
  OBVIOUS
<1>3. /\ w \in Seq(Byte) /\ Len(w) = n + 1 /\ w[n + 1] = 0 /\ \A i \in 1..n : w[i] = text[i]
  BY <1>1, <1>2 DEF Byte
<1>4. /\ b \in Buffer /\ n + 1 <= Len(b.data) /\ Len(b.data) \in Nat
      /\ \A i \in 1..(n + 1) : b.data[i] = w[i]
  BY <1>2, <1>3, BufferIs DEF Starts
<1>5. \A i \in 1..n : i \in 1..(n + 1)
  OBVIOUS
<1>6. n + 1 \in 1..(n + 1)
  OBVIOUS
<1>7. QED
  BY <1>1, <1>3, <1>4, <1>5, <1>6 DEF Holds, Starts

\* Bytes added to a buffer whose length is that of a text it starts with.
LEMMA AppendedStarts ==
    ASSUME NEW e, NEW text, Starts(e, text), e.length = Len(text), NEW bytes \in Seq(Byte),
           NEW c, c = AppendBytes(e, bytes)
    PROVE  /\ c \in Buffer /\ c.length = Len(text) + Len(bytes)
           /\ text \o bytes \in Seq(Byte) /\ Starts(c, text \o bytes)
<1>1. /\ e \in Buffer /\ text \in Seq(Byte) /\ Len(text) <= Len(e.data)
      /\ \A i \in 1..Len(text) : e.data[i] = text[i]
  BY DEF Starts
<1>2. PICK l \in Nat : l = Len(text)
  BY <1>1
<1>3. Len(e.data) \in Nat
  BY <1>1, BufferIs
<1>8. bytes \in Seq(Stored) /\ Len(bytes) \in Nat
  <2>1. \A S, T : S \subseteq T => Seq(S) \subseteq Seq(T)
    OBVIOUS
  <2>2. Byte \subseteq Stored
    BY DEF Stored
  <2>3. QED
    BY <2>1, <2>2
<1>9. c = WriteAt(e, l, bytes)
  BY <1>2 DEF AppendBytes
<1>10. /\ c \in Buffer
       /\ c.length = IF l + Len(bytes) > l THEN l + Len(bytes) ELSE l
       /\ \A i \in 1..Len(bytes) : c.data[l + i] = bytes[i]
       /\ \A i \in 1..Len(e.data) : i \notin (l + 1)..(l + Len(bytes)) => c.data[i] = e.data[i]
  <2>1. e \in Buffer /\ bytes \in Seq(Stored)
    BY <1>1, <1>8
  <2>2. Written(c, e, l, bytes)
    BY <1>9, <2>1, WriteAtIs
  <2>3. QED
    BY <1>2, <2>2 DEF Written
<1>11. c.length = l + Len(bytes)
  BY <1>8, <1>10
<1>12. \A i \in 1..l : c.data[i] = text[i]
  <2>1. \A i \in 1..l : i \in 1..Len(e.data) /\ i \notin (l + 1)..(l + Len(bytes))
    BY <1>1, <1>2, <1>3, <1>8
  <2>2. QED
    BY <1>1, <1>2, <1>10, <2>1
<1>13. PICK w : w = text \o bytes
  OBVIOUS
<1>14. /\ w \in Seq(Byte) /\ Len(w) = l + Len(bytes)
       /\ \A i \in 1..l : w[i] = text[i]
       /\ \A i \in 1..Len(bytes) : w[l + i] = bytes[i]
  BY <1>1, <1>2, <1>8, <1>13
<1>15. \A i \in 1..Len(w) : c.data[i] = w[i]
  <2>1. ASSUME NEW i \in 1..Len(w), i \notin 1..l PROVE c.data[i] = w[i]
    <3>1. PICK j \in 1..Len(bytes) : l + j = i
      <4>1. i - l \in 1..Len(bytes) /\ l + (i - l) = i
        BY <1>8, <1>14, <2>1
      <4>2. QED
        BY <4>1
    <3>2. QED
      BY <1>10, <1>14, <3>1
  <2>2. QED
    BY <1>12, <1>14, <2>1
<1>16. Len(w) <= Len(c.data)
  BY <1>10, <1>11, <1>14, BufferIs
<1>17. Starts(c, w)
  BY <1>10, <1>14, <1>15, <1>16 DEF Starts
<1>18. QED
  BY <1>2, <1>10, <1>11, <1>13, <1>14, <1>17

\* The terminator of a string is chopped off, and its capacity is changed before.
LEMMA ChoppedStarts ==
    ASSUME NEW b, NEW text, Holds(b, text), NEW d \in Buffer, Len(d.data) >= Len(text),
           \A i \in 1..Len(text) : d.data[i] = b.data[i], NEW e, e = SetLength(d, Len(text))
    PROVE  Starts(e, text) /\ e.length = Len(text)
<1>1. /\ text \in Seq(Byte) /\ \A i \in 1..Len(text) : b.data[i] = text[i]
  BY HoldsIs
<1>2. PICK l \in Nat : l = Len(text)
  BY <1>1
<1>3. /\ e \in Buffer /\ e.length = l /\ Len(e.data) >= l
      /\ \A i \in 1..Len(d.data) : e.data[i] = d.data[i]
  BY <1>2, SetLengthIs
<1>4. \A i \in 1..l : i \in 1..Len(d.data)
  BY <1>2, BufferIs
<1>5. QED
  BY <1>1, <1>2, <1>3, <1>4 DEF Starts

\* What string_append_* share.
LEMMA AppendingIs ==
    ASSUME NEW b, NEW text, Holds(b, text), NEW n \in Nat, NEW bytes \in Seq(Byte),
           NEW c, c = Appending(b, n, bytes)
    PROVE  /\ c \in Buffer /\ c.length = Len(text) + Len(bytes)
           /\ text \o bytes \in Seq(Byte) /\ Starts(c, text \o bytes)
<1>1. /\ b \in Buffer /\ Len(text) \in Nat /\ StringLength(b) = Len(text)
      /\ Len(text) <= Len(b.data) /\ Len(b.data) \in Nat
  BY HoldsIs
<1>2. PICK m \in Nat : m = Len(text) + n + 1
  BY <1>1
<1>3. PICK d : d = SetCapacity(b, m)
  OBVIOUS
<1>4. /\ d \in Buffer /\ Len(d.data) = m
      /\ \A i \in 1..m : i <= Len(b.data) => d.data[i] = b.data[i]
  <2>1. b \in Buffer
    BY <1>1
  <2>2. QED
    BY <1>3, <2>1, SetCapacityIs
<1>5. \A i \in 1..Len(text) : d.data[i] = b.data[i]
  <2>1. \A i \in 1..Len(text) : i \in 1..m /\ i <= Len(b.data)
    BY <1>1, <1>2
  <2>2. QED
    BY <1>4, <2>1
<1>6. Len(d.data) >= Len(text)
  BY <1>1, <1>2, <1>4
<1>7. PICK e : e = SetLength(d, Len(text))
  OBVIOUS
<1>8. Starts(e, text) /\ e.length = Len(text)
  BY <1>4, <1>5, <1>6, <1>7, ChoppedStarts
<1>9. c = AppendBytes(e, bytes)
  BY <1>1, <1>2, <1>3, <1>7 DEF Appending
<1>10. QED
  BY <1>8, <1>9, AppendedStarts

\* A text whose terminator is copied with it.
LEMMA EndedHolds ==
    ASSUME NEW b, NEW text \in Seq(Byte), NEW more \in Seq(Byte),
           Starts(b, text \o Append(more, 0)), b.length = Len(text) + Len(Append(more, 0))
    PROVE  Holds(b, text \o more)
<1>1. /\ text \o Append(more, 0) = Append(text \o more, 0) /\ text \o more \in Seq(Byte)
      /\ Len(text) + Len(Append(more, 0)) = Len(text \o more) + 1
  OBVIOUS
<1>2. QED
  BY <1>1, HoldsWithEnd

LEMMA AppendStringHolds ==
    ASSUME NEW b, NEW text, Holds(b, text), NEW other, NEW more, Holds(other, more)
    PROVE  Holds(AppendString(b, other), text \o more)
<1>1. /\ text \in Seq(Byte) /\ more \in Seq(Byte) /\ StringLength(other) = Len(more)
      /\ Len(more) \in Nat /\ Contents(other) = Append(more, 0)
  BY HoldsIs, ContentsAre
<1>2. PICK bytes : bytes = Append(more, 0)
  OBVIOUS
<1>3. bytes \in Seq(Byte)
  BY <1>1, <1>2 DEF Byte
<1>4. PICK c : c = Appending(b, Len(more), bytes)
  OBVIOUS
<1>5. c.length = Len(text) + Len(bytes) /\ Starts(c, text \o bytes)
  BY <1>1, <1>3, <1>4, AppendingIs
<1>6. Holds(c, text \o more)
  BY <1>1, <1>2, <1>5, EndedHolds
<1>7. QED
  BY <1>1, <1>2, <1>4, <1>6 DEF AppendString

LEMMA AppendCharsHolds ==
    ASSUME NEW b, NEW text, Holds(b, text), NEW chars \in Seq(Byte)
    PROVE  Holds(AppendChars(b, chars), text \o chars)
<1>1. /\ text \in Seq(Byte) /\ StringLength(b) = Len(text) /\ Len(chars) \in Nat
      /\ Len(text \o chars) = Len(text) + Len(chars)
  BY HoldsIs
<1>2. PICK c : c = Appending(b, Len(chars), chars)
  OBVIOUS
<1>3. Starts(c, text \o chars)
  BY <1>1, <1>2, AppendingIs
<1>4. Holds(Terminated(c, Len(text \o chars)), text \o chars)
  BY <1>3, TerminatedHolds
<1>5. QED
  BY <1>1, <1>2, <1>4 DEF AppendChars

LEMMA AppendFormattedHolds ==
    ASSUME NEW b, NEW text, Holds(b, text), NEW chars \in Seq(Byte)
    PROVE  Holds(AppendFormatted(b, chars), text \o chars)
<1>1. /\ b \in Buffer /\ text \in Seq(Byte) /\ Len(text) \in Nat /\ StringLength(b) = Len(text)
      /\ Len(text) <= Len(b.data) /\ Len(b.data) \in Nat /\ Len(chars) \in Nat
  BY HoldsIs
<1>2. PICK m \in Nat : m = Len(text) + Len(chars) + 1
  BY <1>1
<1>3. PICK d : d = EnsureCapacity(b, m)
  OBVIOUS
<1>4. /\ d \in Buffer /\ Len(d.data) >= Len(b.data)
      /\ \A i \in 1..Len(b.data) : d.data[i] = b.data[i]
  BY <1>1, <1>3, EnsureCapacityIs
<1>5. Len(d.data) >= Len(text) /\ \A i \in 1..Len(text) : d.data[i] = b.data[i]
  <2>1. PICK l \in Nat : l = Len(text)
    BY <1>1
  <2>2. PICK o \in Nat : o = Len(b.data)
    BY <1>1
  <2>3. PICK n \in Nat : n = Len(d.data)
    BY <1>4, BufferIs
  <2>4. l <= o /\ o <= n
    BY <1>1, <1>4, <2>1, <2>2, <2>3
  <2>5. n >= l /\ \A i \in 1..l : i \in 1..o
    BY <2>4
  <2>6. \A i \in 1..l : d.data[i] = b.data[i]
    <3>1. \A i \in 1..o : d.data[i] = b.data[i]
      BY <1>4, <2>2, Zenon
    <3>2. QED
      BY <2>5, <3>1, Zenon
  <2>7. QED
    BY <2>1, <2>3, <2>5, <2>6, Zenon
<1>6. PICK e : e = SetLength(d, Len(text))
  OBVIOUS
<1>7. Starts(e, text) /\ e.length = Len(text)
  BY <1>4, <1>5, <1>6, ChoppedStarts
<1>8. PICK bytes : bytes = Append(chars, 0)
  OBVIOUS
<1>9. bytes \in Seq(Byte)
  BY <1>8 DEF Byte
<1>10. PICK c : c = AppendBytes(e, bytes)
  OBVIOUS
<1>11. c.length = Len(text) + Len(bytes) /\ Starts(c, text \o bytes)
  BY <1>7, <1>9, <1>10, AppendedStarts
<1>12. Holds(c, text \o chars)
  BY <1>1, <1>8, <1>11, EndedHolds
<1>13. QED
  BY <1>1, <1>2, <1>3, <1>6, <1>8, <1>10, <1>12 DEF AppendFormatted

-----------------------------------------------------------------------------
(* Parts of a string.                                                      *)

LEMMA EmptyPart ==
    ASSUME NEW S, NEW s \in Seq(S), NEW m \in Int, NEW n \in Int, n < m
    PROVE  SubSeq(s, m, n) = <<>>
OBVIOUS

\* The characters of a text from start until end, by their number.
LEMMA BetweenIs ==
    ASSUME NEW S, NEW text \in Seq(S), NEW start \in Nat, NEW end \in Nat
    PROVE  /\ Between(text, start, end) \in Seq(S)
           /\ (start >= end \/ start >= Len(text)) => Between(text, start, end) = <<>>
           /\ ~(start >= end \/ start >= Len(text)) =>
                 \E n \in Nat \ {0} :
                    /\ start + n = (IF end > Len(text) THEN Len(text) ELSE end)
                    /\ start + n <= Len(text)
                    /\ Between(text, start, end) = SubSeq(text, start + 1, start + n)
                    /\ Len(Between(text, start, end)) = n
                    /\ Between(text, start, end) # <<>>
<1>1. PICK cut : cut = IF end > Len(text) THEN Len(text) ELSE end
  OBVIOUS
<1>2. Len(text) \in Nat /\ cut \in Nat /\ cut <= Len(text)
  BY <1>1
<1>3. Between(text, start, end) = SubSeq(text, start + 1, cut)
  BY <1>1 DEF Between
<1>4. CASE start >= end \/ start >= Len(text)
  <2>1. cut < start + 1
    BY <1>1, <1>2, <1>4
  <2>2. SubSeq(text, start + 1, cut) = <<>>
    BY <1>2, <2>1, EmptyPart
  <2>3. <<>> \in Seq(S)
    OBVIOUS
  <2>4. QED
    BY <1>3, <1>4, <2>2, <2>3
<1>5. CASE ~(start >= end \/ start >= Len(text))
  <2>1. PICK n \in Nat \ {0} : start + n = cut
    <3>1. cut - start \in Nat \ {0} /\ start + (cut - start) = cut
      BY <1>1, <1>2, <1>5
    <3>2. QED
      BY <3>1
  <2>2. start + n <= Len(text)
    BY <1>2, <2>1
  <2>3. /\ SubSeq(text, start + 1, start + n) \in Seq(S)
        /\ Len(SubSeq(text, start + 1, start + n)) = n
    BY <2>2, PartIs
  <2>4. Between(text, start, end) = SubSeq(text, start + 1, start + n)
    BY <1>3, <2>1
  <2>5. Between(text, start, end) # <<>>
    <3>1. Len(<<>>) = 0 /\ n # 0
      OBVIOUS
    <3>2. Len(Between(text, start, end)) = n
      BY <2>3, <2>4
    <3>3. QED
      BY <3>1, <3>2
  <2>6. QED
    BY <1>1, <1>5, <2>1, <2>2, <2>3, <2>4, <2>5
<1>6. QED
  BY <1>4, <1>5

\* What the code takes of a string for a range is that part of its text.
LEMMA TakenIs ==
    ASSUME NEW src, NEW text, Holds(src, text), NEW start \in Nat, NEW end \in Nat
    PROVE  /\ Between(text, start, end) \in Seq(Byte)
           /\ NoRange(src, start, end) => Between(text, start, end) = <<>>
           /\ ~NoRange(src, start, end) =>
                 /\ Taken(src, start, end) = Between(text, start, end)
                 /\ Between(text, start, end) # <<>>
                 /\ Len(Between(text, start, end)) <= Len(text)
<1>1. /\ src \in Buffer /\ text \in Seq(Byte) /\ StringLength(src) = Len(text)
      /\ Len(text) \in Nat /\ Len(text) <= Len(src.data) /\ Len(src.data) \in Nat
      /\ \A i \in 1..Len(text) : src.data[i] = text[i]
  BY HoldsIs
<1>2. NoRange(src, start, end) <=> start >= end \/ start >= Len(text)
  BY <1>1 DEF NoRange
<1>3. Between(text, start, end) \in Seq(Byte)
  BY <1>1, BetweenIs
<1>4. CASE NoRange(src, start, end)
  BY <1>1, <1>2, <1>3, <1>4, BetweenIs
<1>5. CASE ~NoRange(src, start, end)
  <2>1. PICK n \in Nat \ {0} :
            /\ start + n = (IF end > Len(text) THEN Len(text) ELSE end)
            /\ start + n <= Len(text)
            /\ Between(text, start, end) = SubSeq(text, start + 1, start + n)
            /\ Len(Between(text, start, end)) = n /\ Between(text, start, end) # <<>>
    BY <1>1, <1>2, <1>5, BetweenIs
  <2>2. Taken(src, start, end) = SubSeq(src.data, start + 1, start + n)
    BY <1>1, <2>1 DEF Taken
  <2>3. SubSeq(src.data, start + 1, start + n) = SubSeq(text, start + 1, start + n)
    <3>1. src.data \in Seq(Stored) /\ start + n <= Len(src.data)
      BY <1>1, <2>1, BufferIs
    <3>2. \A i \in 1..n : src.data[start + i] = text[start + i]
      <4>1. PICK l \in Nat : l = Len(text) /\ start + n <= l
        BY <1>1, <2>1
      <4>2. \A i \in 1..n : start + i \in 1..l
        BY <4>1
      <4>3. QED
        BY <1>1, <4>1, <4>2
    <3>3. n \in Nat
      OBVIOUS
    <3>4. QED
      BY <1>1, <2>1, <3>1, <3>2, <3>3, PartsAreEqual
  <2>4. n <= Len(text)
    BY <1>1, <2>1
  <2>5. QED
    BY <1>3, <1>5, <2>1, <2>2, <2>3, <2>4
<1>6. QED
  BY <1>4, <1>5

LEMMA AppendSubstrHolds ==
    ASSUME NEW b, NEW text, Holds(b, text), NEW src, NEW other, Holds(src, other),
           NEW start \in Nat, NEW end \in Nat
    PROVE  Holds(AppendSubstr(b, src, start, end), text \o Between(other, start, end))
<1>1. PICK part \in Seq(Byte) : part = Between(other, start, end)
  BY TakenIs
<1>2. CASE NoRange(src, start, end)
  <2>1. part = <<>> /\ text \in Seq(Byte)
    BY <1>1, <1>2, TakenIs, HoldsIs
  <2>2. text \o part = text
    BY <2>1
  <2>3. QED
    BY <1>1, <1>2, <2>2 DEF AppendSubstr
<1>3. CASE ~NoRange(src, start, end)
  <2>1. Taken(src, start, end) = part
    BY <1>1, <1>3, TakenIs
  <2>2. Holds(AppendChars(b, part), text \o part)
    BY AppendCharsHolds
  <2>3. QED
    BY <1>1, <1>3, <2>1, <2>2 DEF AppendSubstr
<1>4. QED
  BY <1>2, <1>3

\* A text written at the start of a buffer.
LEMMA WrittenStarts ==
    ASSUME NEW b \in Buffer, NEW text \in Seq(Byte), NEW c, c = WriteAt(b, 0, text)
    PROVE  /\ c \in Buffer /\ Starts(c, text)
           /\ Len(c.data) >= Len(b.data)
           /\ c.length = IF Len(text) > b.length THEN Len(text) ELSE b.length
           /\ \A i \in 1..Len(b.data) : i > Len(text) => c.data[i] = b.data[i]
<1>1. text \in Seq(Stored) /\ Len(text) \in Nat /\ 0 \in Nat /\ 0 + Len(text) = Len(text)
  <2>1. \A S, T : S \subseteq T => Seq(S) \subseteq Seq(T)
    OBVIOUS
  <2>2. Byte \subseteq Stored
    BY DEF Stored
  <2>3. QED
    BY <2>1, <2>2
<1>2. Written(c, b, 0, text)
  BY <1>1, WriteAtIs
<1>3. /\ c \in Buffer /\ Len(c.data) >= Len(b.data)
      /\ c.length = IF Len(text) > b.length THEN Len(text) ELSE b.length
      /\ \A i \in 1..Len(text) : c.data[0 + i] = text[i]
      /\ \A i \in 1..Len(b.data) : i \notin (0 + 1)..(0 + Len(text)) => c.data[i] = b.data[i]
  BY <1>1, <1>2 DEF Written
<1>4. \A i \in 1..Len(text) : c.data[i] = text[i]
  <2>1. \A i \in 1..Len(text) : 0 + i = i
    OBVIOUS
  <2>2. QED
    BY <1>3, <2>1
<1>5. \A i \in 1..Len(b.data) : i > Len(text) => c.data[i] = b.data[i]
  <2>1. \A i \in 1..Len(b.data) : i > Len(text) => i \notin (0 + 1)..(0 + Len(text))
    BY <1>1
  <2>2. QED
    BY <1>3, <2>1
<1>6. Len(text) <= Len(c.data)
  BY <1>1, <1>3, BufferIs
<1>7. QED
  BY <1>3, <1>4, <1>5, <1>6 DEF Starts

LEMMA MoveSubstrHolds ==
    ASSUME NEW b, NEW text, Holds(b, text), NEW start \in Nat, NEW end \in Nat
    PROVE  Holds(MoveSubstr(b, start, end),
                 IF Between(text, start, end) = <<>> THEN text ELSE Between(text, start, end))
<1>1. PICK part \in Seq(Byte) : part = Between(text, start, end)
  BY TakenIs
<1>2. CASE NoRange(b, start, end)
  <2>1. part = <<>>
    BY <1>1, <1>2, TakenIs
  <2>2. QED
    BY <1>1, <1>2, <2>1 DEF MoveSubstr
<1>3. CASE ~NoRange(b, start, end)
  <2>1. Taken(b, start, end) = part /\ part # <<>>
    BY <1>1, <1>3, TakenIs
  <2>2. PICK c : c = WriteAt(b, 0, part)
    OBVIOUS
  <2>3. Starts(c, part)
    BY <2>2, HoldsIs, WrittenStarts
  <2>4. Holds(Terminated(c, Len(part)), part)
    BY <2>3, TerminatedHolds
  <2>5. QED
    BY <1>1, <1>3, <2>1, <2>2, <2>4 DEF MoveSubstr
<1>4. QED
  BY <1>2, <1>3

\* A string that is cleared.
LEMMA ClearedHolds ==
    ASSUME NEW b \in Buffer
    PROVE  Holds(Terminated(b, 0), <<>>)
<1>1. Starts(b, <<>>) /\ Len(<<>>) = 0
  <2>1. <<>> \in Seq(Byte) /\ Len(<<>>) = 0 /\ 1..0 = {}
    OBVIOUS
  <2>2. QED
    BY <2>1, BufferIs DEF Starts
<1>2. QED
  BY <1>1, TerminatedHolds

\* string_set_substr gives the part, but an empty part of the string itself leaves it alone.
LEMMA SetSubstrHolds ==
    ASSUME NEW b, NEW text, Holds(b, text), NEW src, NEW other, Holds(src, other),
           NEW inPlace \in BOOLEAN, inPlace => b = src /\ text = other,
           NEW start \in Nat, NEW end \in Nat
    PROVE  Holds(SetSubstr(b, src, inPlace, start, end),
                 IF inPlace /\ Between(other, start, end) = <<>> THEN text
                 ELSE Between(other, start, end))
<1>1. CASE inPlace
  <2>1. SetSubstr(b, src, inPlace, start, end) = MoveSubstr(b, start, end) /\ text = other
    BY <1>1 DEF SetSubstr
  <2>2. QED
    BY <1>1, <2>1, MoveSubstrHolds
<1>2. CASE ~inPlace
  <2>1. PICK c : c = Terminated(b, 0)
    OBVIOUS
  <2>2. Holds(c, <<>>)
    BY <2>1, HoldsIs, ClearedHolds
  <2>3. Holds(AppendSubstr(c, src, start, end), <<>> \o Between(other, start, end))
    BY <2>2, AppendSubstrHolds
  <2>4. <<>> \o Between(other, start, end) = Between(other, start, end)
    <3>1. PICK part \in Seq(Byte) : part = Between(other, start, end)
      BY TakenIs
    <3>2. QED
      BY <3>1
  <2>5. SetSubstr(b, src, inPlace, start, end) = AppendSubstr(c, src, start, end)
    BY <1>2, <2>1 DEF SetSubstr
  <2>6. QED
    BY <1>2, <2>3, <2>4, <2>5
<1>3. QED
  BY <1>1, <1>2

-----------------------------------------------------------------------------
(* Other sizes and other cases.                                            *)

\* A text of n characters, of which those beyond the text are fill.
Filled(text, n, fill) == [i \in 1..n |-> IF i <= Len(text) THEN text[i] ELSE fill]

LEMMA FillingHolds ==
    ASSUME NEW b, NEW text, Holds(b, text), NEW n \in Nat, NEW fill \in Byte
    PROVE  Holds(Filling(b, n, fill), Filled(text, n, fill))
<1>1. /\ b \in Buffer /\ text \in Seq(Byte) /\ Len(text) \in Nat /\ Len(b.data) \in Nat
      /\ StringLength(b) = Len(text) /\ Len(text) <= Len(b.data)
      /\ \A i \in 1..Len(text) : b.data[i] = text[i] /\ text[i] \in Byte
  <2>1. text \in Seq(Byte)
    BY HoldsIs
  <2>2. \A i \in 1..Len(text) : text[i] \in Byte
    BY <2>1
  <2>3. QED
    BY <2>2, HoldsIs
<1>2. PICK l \in Nat : l = n + 1
  OBVIOUS
<1>3. PICK g : g = SetLength(b, l)
  OBVIOUS
<1>4. /\ g \in Buffer /\ Len(g.data) >= l /\ \A i \in 1..Len(b.data) : g.data[i] = b.data[i]
  BY <1>1, <1>3, SetLengthIs
<1>5. /\ Len(g.data) \in Nat /\ DOMAIN g.data = 1..Len(g.data)
      /\ \A i \in 1..Len(g.data) : g.data[i] \in Stored
  BY <1>4, BufferIs
<1> DEFINE d == [i \in 1..Len(g.data) |-> IF i \in (Len(text) + 1)..n THEN fill ELSE g.data[i]]
           more == Filled(text, n, fill)
<1>6. d \in [1..Len(g.data) -> Stored]
  BY <1>5 DEF Stored
<1>7. more \in Seq(Byte) /\ Len(more) = n
  <2>1. more \in [1..n -> Byte]
    <3>1. ASSUME NEW i \in 1..n
          PROVE  (IF i <= Len(text) THEN text[i] ELSE fill) \in Byte
      <4>1. i <= Len(text) => i \in 1..Len(text)
        BY <1>1
      <4>2. QED
        BY <1>1, <4>1
    <3>2. QED
      BY <3>1 DEF Filled
  <2> HIDE DEF more
  <2>2. QED
    BY <2>1, FunctionIsSeq
<1>8. ASSUME NEW i \in 1..n PROVE d[i] = more[i]
  <2>1. i \in 1..Len(g.data)
    BY <1>2, <1>4, <1>5
  <2>2. CASE i <= Len(text)
    <3>1. i \in 1..Len(text) /\ i \in 1..Len(b.data) /\ i \notin (Len(text) + 1)..n
      BY <1>1, <2>2
    <3>2. d[i] = text[i]
      BY <1>1, <1>4, <2>1, <3>1
    <3>3. more[i] = text[i]
      BY <2>2 DEF Filled
    <3>4. QED
      BY <3>2, <3>3
  <2>3. CASE ~(i <= Len(text))
    <3>1. i \in (Len(text) + 1)..n
      BY <1>1, <2>3
    <3>2. d[i] = fill /\ more[i] = fill
      BY <2>1, <2>3, <3>1 DEF Filled
    <3>3. QED
      BY <3>2
  <2>4. QED
    BY <2>2, <2>3
<1>9. PICK c : c = [g EXCEPT !.data = d]
  OBVIOUS
<1>10. Filling(b, n, fill) = Terminated(c, n)
  BY <1>1, <1>2, <1>3, <1>4, <1>5, <1>9, BufferIs DEF Filling
<1> HIDE DEF d, more
<1>11. c \in Buffer /\ c.data = d /\ Len(c.data) = Len(g.data)
  BY <1>4, <1>6, <1>9, DataIs
<1>12. Starts(c, more)
  BY <1>2, <1>4, <1>5, <1>7, <1>8, <1>11 DEF Starts
<1>13. QED
  BY <1>7, <1>10, <1>12, TerminatedHolds DEF more

LEMMA InCaseIs ==
    ASSUME NEW text \in Seq(Byte), NEW upper \in BOOLEAN
    PROVE  InCase(text, upper) \in Seq(Byte) /\ Len(InCase(text, upper)) = Len(text)
<1>1. PICK n \in Nat : n = Len(text)
  OBVIOUS
<1>2. DOMAIN text = 1..n /\ \A i \in 1..n : text[i] \in Byte
  BY <1>1
<1>3. \A c \in Byte : Upper(c) \in Byte /\ Lower(c) \in Byte
  BY DEF Byte, Upper, Lower
<1>4. InCase(text, upper) \in [1..n -> Byte]
  <2>1. \A i \in 1..n : (IF upper THEN Upper(text[i]) ELSE Lower(text[i])) \in Byte
    BY <1>2, <1>3
  <2>2. QED
    BY <1>2, <2>1 DEF InCase
<1>5. QED
  BY <1>1, <1>4, FunctionIsSeq

\* A text written over a string as long as it leaves the terminator.
LEMMA OverwrittenHolds ==
    ASSUME NEW b, NEW text, Holds(b, text), NEW other \in Seq(Byte), Len(other) = Len(text)
    PROVE  Holds(WriteAt(b, 0, other), other)
<1>1. /\ b \in Buffer /\ Len(text) \in Nat /\ b.length = Len(text) + 1
      /\ Len(text) + 1 <= Len(b.data) /\ Len(b.data) \in Nat /\ b.data[Len(text) + 1] = 0
  BY HoldsIs
<1>2. PICK n \in Nat : n = Len(text)
  BY <1>1
<1>3. PICK c : c = WriteAt(b, 0, other)
  OBVIOUS
<1>4. /\ Starts(c, other)
      /\ c.length = IF Len(other) > b.length THEN Len(other) ELSE b.length
      /\ \A i \in 1..Len(b.data) : i > Len(other) => c.data[i] = b.data[i]
  BY <1>1, <1>3, WrittenStarts
<1>5. c.length = n + 1
  BY <1>1, <1>2, <1>4
<1>6. n + 1 \in 1..Len(b.data) /\ n + 1 > n
  BY <1>1, <1>2
<1>7. c.data[n + 1] = 0
  BY <1>1, <1>2, <1>4, <1>6
<1>8. Holds(c, other)
  BY <1>2, <1>4, <1>5, <1>7 DEF Holds
<1>9. QED
  BY <1>3, <1>8

LEMMA RecasedHolds ==
    ASSUME NEW b, NEW text, Holds(b, text), NEW src, NEW other, Holds(src, other),
           NEW inPlace \in BOOLEAN, inPlace => b = src /\ text = other, NEW upper \in BOOLEAN
    PROVE  Holds(Recased(b, src, inPlace, upper), InCase(other, upper))
<1>1. /\ other \in Seq(Byte) /\ Len(other) \in Nat /\ StringLength(src) = Len(other)
      /\ Text(src) = other
  BY HoldsIs, ContentsAre
<1>2. InCase(other, upper) \in Seq(Byte) /\ Len(InCase(other, upper)) = Len(other)
  BY <1>1, InCaseIs
<1>3. PICK sized : sized = IF inPlace THEN b ELSE Filling(b, Len(other), 0)
  OBVIOUS
<1>4. PICK old : Holds(sized, old) /\ Len(old) = Len(other)
  <2>1. CASE inPlace
    BY <1>3, <2>1
  <2>2. CASE ~inPlace
    <3>1. 0 \in Byte
      BY DEF Byte
    <3>2. Holds(sized, Filled(text, Len(other), 0))
      BY <1>1, <1>3, <2>2, <3>1, FillingHolds
    <3>3. Len(Filled(text, Len(other), 0)) = Len(other)
      <4>1. PICK n \in Nat : n = Len(other)
        BY <1>1
      <4>2. PICK w : w = Filled(text, n, 0)
        OBVIOUS
      <4>3. DOMAIN w = 1..n
        BY <4>2 DEF Filled
      <4>4. w \in Seq(Byte)
        BY <3>2, <4>1, <4>2, HoldsIs
      <4>5. Len(w) = n
        BY <4>3, <4>4
      <4>6. QED
        BY <4>1, <4>2, <4>5
    <3>4. QED
      BY <3>2, <3>3
  <2>3. QED
    BY <2>1, <2>2
<1>5. Holds(WriteAt(sized, 0, InCase(other, upper)), InCase(other, upper))
  BY <1>2, <1>4, OverwrittenHolds
<1>6. Recased(b, src, inPlace, upper) = WriteAt(sized, 0, InCase(other, upper))
  BY <1>1, <1>3 DEF Recased
<1>7. QED
  BY <1>5, <1>6

-----------------------------------------------------------------------------
(* Searches.                                                               *)

LEMMA FirstIs ==
    ASSUME NEW S \in SUBSET Int, NEW a \in S, \A j \in S : a <= j
    PROVE  FirstOf(S) = a
<1>1. PICK c : c = CHOOSE i \in S : \A j \in S : i <= j
  OBVIOUS
<1>2. c \in S /\ \A j \in S : c <= j
  BY <1>1
<1>3. c = a
  BY <1>2
<1>4. QED
  BY <1>1, <1>3 DEF FirstOf

LEMMA LastIs ==
    ASSUME NEW S \in SUBSET Int, NEW a \in S, \A j \in S : a >= j
    PROVE  LastOf(S) = a
<1>1. PICK c : c = CHOOSE i \in S : \A j \in S : i >= j
  OBVIOUS
<1>2. c \in S /\ \A j \in S : c >= j
  BY <1>1
<1>3. c = a
  BY <1>2
<1>4. QED
  BY <1>1, <1>3 DEF LastOf

\* The first of some natural numbers.
LEMMA FirstOfNat ==
    ASSUME NEW S \in SUBSET Nat, S # {}
    PROVE  FirstOf(S) \in S /\ \A j \in S : FirstOf(S) <= j
<1>1. PICK a \in S : \A j \in S : a <= j
  BY LeastNatural
<1>2. S \in SUBSET Int
  OBVIOUS
<1>3. FirstOf(S) = a
  BY <1>1, <1>2, FirstIs
<1>4. QED
  BY <1>1, <1>3

\* The last of some natural numbers that are no more than n.
LEMMA LastOfNat ==
    ASSUME NEW n \in Nat, NEW S \in SUBSET (0..n), S # {}
    PROVE  LastOf(S) \in S /\ \A j \in S : LastOf(S) >= j
<1> DEFINE T == {n - i : i \in S}
<1>1. T \in SUBSET Nat /\ T # {}
  <2>1. \A i \in S : n - i \in Nat
    OBVIOUS
  <2>2. QED
    BY <2>1
<1>2. PICK b \in T : \A j \in T : b <= j
  BY <1>1, LeastNatural
<1>3. PICK a \in S : b = n - a
  BY <1>2
<1>4. ASSUME NEW j \in S PROVE a >= j
  <2>1. n - j \in T
    OBVIOUS
  <2>2. n - a <= n - j
    BY <1>2, <1>3, <2>1
  <2>3. a \in Nat /\ j \in Nat
    OBVIOUS
  <2>4. QED
    BY <2>2, <2>3
<1>5. S \in SUBSET Int
  OBVIOUS
<1>6. LastOf(S) = a
  BY <1>4, <1>5, LastIs
<1>7. QED
  BY <1>4, <1>6

\* One step of a loop upwards, and of a loop downwards.
LEMMA FirstStep ==
    ASSUME NEW hits, NEW i \in Int, NEW to \in Int
    PROVE  FirstOf({j \in i..to : j \in hits}) =
              IF i > to THEN NotFound
              ELSE IF i \in hits THEN i ELSE FirstOf({j \in (i + 1)..to : j \in hits})
<1> DEFINE S == {j \in i..to : j \in hits}
<1>1. CASE i > to
  <2>1. S = {}
    BY <1>1
  <2>2. QED
    BY <1>1, <2>1 DEF FirstOf
<1>2. CASE ~(i > to) /\ i \in hits
  <2>1. S \in SUBSET Int /\ i \in S /\ \A j \in S : i <= j
    BY <1>2
  <2>2. FirstOf(S) = i
    BY <2>1, FirstIs
  <2>3. QED
    BY <1>2, <2>2
<1>3. CASE ~(i > to) /\ i \notin hits
  <2>1. S = {j \in (i + 1)..to : j \in hits}
    <3>1. \A j \in i..to : j = i \/ j \in (i + 1)..to
      OBVIOUS
    <3>2. \A j \in (i + 1)..to : j \in i..to
      OBVIOUS
    <3>3. QED
      BY <1>3, <3>1, <3>2
  <2>2. QED
    BY <1>3, <2>1
<1>4. QED
  BY <1>1, <1>2, <1>3

LEMMA LastStep ==
    ASSUME NEW hits, NEW i \in Int, i >= -1
    PROVE  LastOf({j \in 0..i : j \in hits}) =
              IF i = -1 THEN NotFound
              ELSE IF i \in hits THEN i ELSE LastOf({j \in 0..(i - 1) : j \in hits})
<1> DEFINE S == {j \in 0..i : j \in hits}
<1>1. CASE i = -1
  <2>1. S = {}
    BY <1>1
  <2>2. QED
    BY <1>1, <2>1 DEF LastOf
<1>2. CASE i # -1 /\ i \in hits
  <2>1. S \in SUBSET Int /\ i \in S /\ \A j \in S : i >= j
    BY <1>2
  <2>2. LastOf(S) = i
    BY <2>1, LastIs
  <2>3. QED
    BY <1>2, <2>2
<1>3. CASE i # -1 /\ i \notin hits
  <2>1. S = {j \in 0..(i - 1) : j \in hits}
    <3>1. \A j \in 0..i : j = i \/ j \in 0..(i - 1)
      OBVIOUS
    <3>2. \A j \in 0..(i - 1) : j \in 0..i
      OBVIOUS
    <3>3. QED
      BY <1>3, <3>1, <3>2
  <2>2. QED
    BY <1>3, <2>1
<1>4. QED
  BY <1>1, <1>2, <1>3

\* The loop upwards returns the first hit.
LEMMA UpwardsIs ==
    ASSUME NEW hits, NEW from \in Int, NEW to \in Int
    PROVE  Upwards(hits, from, to) = FirstOf({j \in from..to : j \in hits})
<1> DEFINE First(i) == FirstOf({j \in i..to : j \in hits})
           IsScan(f) == f = [i \in from..(to + 1) |-> IF i > to THEN NotFound
                                                      ELSE IF i \in hits THEN i ELSE f[i + 1]]
           scan == CHOOSE f : IsScan(f)
<1>1. Upwards(hits, from, to) = IF from > to THEN NotFound ELSE scan[from]
  BY DEF Upwards
<1>2. \A i \in from..(to + 1) :
          First(i) = IF i > to THEN NotFound ELSE IF i \in hits THEN i ELSE First(i + 1)
  BY FirstStep
<1> HIDE DEF First
<1>3. IsScan([i \in from..(to + 1) |-> First(i)])
  <2>1. \A i \in from..(to + 1) : i > to \/ i + 1 \in from..(to + 1)
    OBVIOUS
  <2>2. QED
    BY <1>2, <2>1
<1>4. IsScan(scan)
  BY <1>3
<1> HIDE DEF scan
<1>5. \A i \in from..(to + 1) :
          scan[i] = IF i > to THEN NotFound ELSE IF i \in hits THEN i ELSE scan[i + 1]
  BY <1>4
<1> DEFINE T == {n \in Nat : \A i \in from..(to + 1) : i = (to + 1) - n => scan[i] = First(i)}
<1>6. 0 \in T
  <2>1. \A i \in from..(to + 1) : i = (to + 1) - 0 => i > to
    OBVIOUS
  <2>2. QED
    BY <1>2, <1>5, <2>1
<1>7. ASSUME NEW n \in T PROVE n + 1 \in T
  <2>1. ASSUME NEW i \in from..(to + 1), i = (to + 1) - (n + 1) PROVE scan[i] = First(i)
    <3>1. i + 1 \in from..(to + 1) /\ i + 1 = (to + 1) - n
      BY <2>1
    <3>2. scan[i + 1] = First(i + 1)
      BY <3>1
    <3>3. QED
      BY <1>2, <1>5, <3>2
  <2>2. n + 1 \in Nat
    OBVIOUS
  <2>3. QED
    BY <2>1, <2>2
<1>8. T = Nat
  <2>1. T \in SUBSET Nat
    OBVIOUS
  <2> HIDE DEF T
  <2>2. QED
    BY <1>6, <1>7, <2>1, InductionOnNat
<1>9. CASE from > to
  <2>1. {j \in from..to : j \in hits} = {}
    BY <1>9
  <2>2. QED
    BY <1>1, <1>9, <2>1 DEF FirstOf
<1>10. CASE ~(from > to)
  <2>1. (to + 1) - from \in T
    <3>1. (to + 1) - from \in Nat
      BY <1>10
    <3> HIDE DEF T
    <3>2. QED
      BY <1>8, <3>1
  <2>2. from \in from..(to + 1) /\ from = (to + 1) - ((to + 1) - from)
    BY <1>10
  <2>3. scan[from] = First(from)
    BY <2>1, <2>2
  <2>4. QED
    BY <1>1, <1>10, <2>3 DEF First
<1>11. QED
  BY <1>9, <1>10

\* The loop downwards returns the last hit.
LEMMA DownwardsIs ==
    ASSUME NEW hits, NEW from \in Int, from >= -1
    PROVE  Downwards(hits, from) = LastOf({j \in 0..from : j \in hits})
<1> DEFINE Latest(i) == LastOf({j \in 0..i : j \in hits})
           IsScan(f) == f = [i \in -1..from |-> IF i = -1 THEN NotFound
                                                ELSE IF i \in hits THEN i ELSE f[i - 1]]
           scan == CHOOSE f : IsScan(f)
<1>1. Downwards(hits, from) = scan[from]
  BY DEF Downwards
<1>2. \A i \in -1..from :
          Latest(i) = IF i = -1 THEN NotFound ELSE IF i \in hits THEN i ELSE Latest(i - 1)
  BY LastStep
<1> HIDE DEF Latest
<1>3. IsScan([i \in -1..from |-> Latest(i)])
  <2>1. \A i \in -1..from : i = -1 \/ i - 1 \in -1..from
    OBVIOUS
  <2>2. QED
    BY <1>2, <2>1
<1>4. IsScan(scan)
  BY <1>3
<1> HIDE DEF scan
<1>5. \A i \in -1..from :
          scan[i] = IF i = -1 THEN NotFound ELSE IF i \in hits THEN i ELSE scan[i - 1]
  BY <1>4
<1> DEFINE T == {n \in Nat : \A i \in -1..from : i = n - 1 => scan[i] = Latest(i)}
<1>6. 0 \in T
  <2>1. \A i \in -1..from : i = 0 - 1 => i = -1
    OBVIOUS
  <2>2. QED
    BY <1>2, <1>5, <2>1
<1>7. ASSUME NEW n \in T PROVE n + 1 \in T
  <2>1. ASSUME NEW i \in -1..from, i = (n + 1) - 1 PROVE scan[i] = Latest(i)
    <3>1. i - 1 \in -1..from /\ i - 1 = n - 1
      BY <2>1
    <3>2. scan[i - 1] = Latest(i - 1)
      BY <3>1
    <3>3. QED
      BY <1>2, <1>5, <3>2
  <2>2. n + 1 \in Nat
    OBVIOUS
  <2>3. QED
    BY <2>1, <2>2
<1>8. T = Nat
  <2>1. T \in SUBSET Nat
    OBVIOUS
  <2> HIDE DEF T
  <2>2. QED
    BY <1>6, <1>7, <2>1, InductionOnNat
<1>9. from + 1 \in T
  <2>1. from + 1 \in Nat
    OBVIOUS
  <2> HIDE DEF T
  <2>2. QED
    BY <1>8, <2>1
<1>10. from \in -1..from /\ from = (from + 1) - 1
  OBVIOUS
<1>11. scan[from] = Latest(from)
  BY <1>9, <1>10
<1>12. QED
  BY <1>1, <1>11 DEF Latest

-----------------------------------------------------------------------------
(* Trimming.                                                               *)

\* The places of the characters of a text that are not in set, counted from 1.
Kept(text, set) == {i \in DOMAIN text : \A k \in DOMAIN set : text[i] # set[k]}

LEMMA KeptIs ==
    ASSUME NEW text \in Seq(Byte), NEW set
    PROVE  /\ Others(text, set) = {i \in 0..(Len(text) - 1) : i + 1 \in Kept(text, set)}
           /\ Kept(text, set) \subseteq 1..Len(text)
           /\ \A i \in Kept(text, set) : i - 1 \in Others(text, set)
<1>1. DOMAIN text = 1..Len(text) /\ Len(text) \in Nat
  OBVIOUS
<1>2. \A i \in 0..(Len(text) - 1) : i + 1 \in 1..Len(text)
  BY <1>1
<1>3. Others(text, set) = {i \in 0..(Len(text) - 1) : i + 1 \in Kept(text, set)}
  BY <1>1, <1>2 DEF Others, Members, OneOf, Kept
<1>4. \A i \in 1..Len(text) : i - 1 \in 0..(Len(text) - 1) /\ (i - 1) + 1 = i
  BY <1>1
<1>5. Kept(text, set) \subseteq 1..Len(text)
  BY <1>1 DEF Kept
<1>6. \A i \in Kept(text, set) : i - 1 \in Others(text, set)
  BY <1>3, <1>4, <1>5
<1>7. QED
  BY <1>3, <1>5, <1>6

\* The searches for the first and the last character that is kept.
LEMMA TrimSearches ==
    ASSUME NEW text \in Seq(Byte), NEW set
    PROVE  /\ Kept(text, set) = {} =>
                 /\ IndexNotOfAny(text, set, 0) = NotFound
                 /\ ReverseIndexNotOfAny(text, set, Len(text)) = NotFound
           /\ Kept(text, set) # {} =>
                 \E a, z \in Kept(text, set) :
                    /\ \A i \in Kept(text, set) : a <= i /\ i <= z
                    /\ FirstOf(Kept(text, set)) = a /\ LastOf(Kept(text, set)) = z
                    /\ IndexNotOfAny(text, set, 0) = a - 1
                    /\ ReverseIndexNotOfAny(text, set, Len(text)) = z - 1
<1>1. PICK n \in Nat : n = Len(text)
  OBVIOUS
<1>2. PICK K : K = Kept(text, set)
  OBVIOUS
<1>3. PICK O : O = Others(text, set)
  OBVIOUS
<1>4. /\ O = {i \in 0..(n - 1) : i + 1 \in K} /\ K \subseteq 1..n
      /\ \A i \in K : i - 1 \in O
  BY <1>1, <1>2, <1>3, KeptIs
<1>5. IndexNotOfAny(text, set, 0) = FirstOf(O)
  <2>1. {j \in 0..(n - 1) : j \in O} = O
    BY <1>4
  <2>2. Upwards(O, 0, n - 1) = FirstOf({j \in 0..(n - 1) : j \in O})
    BY UpwardsIs
  <2>3. QED
    BY <1>1, <1>3, <2>1, <2>2 DEF IndexNotOfAny
<1>6. ReverseIndexNotOfAny(text, set, Len(text)) = LastOf(O)
  <2>1. {j \in 0..(n - 1) : j \in O} = O
    BY <1>4
  <2>2. Downwards(O, n - 1) = LastOf({j \in 0..(n - 1) : j \in O})
    BY DownwardsIs
  <2>3. Clamped(n, n - 1) = n - 1
    BY DEF Clamped
  <2>4. QED
    BY <1>1, <1>3, <2>1, <2>2, <2>3 DEF ReverseIndexNotOfAny
<1>7. CASE K = {}
  <2>1. O = {}
    BY <1>4, <1>7
  <2>2. QED
    BY <1>2, <1>5, <1>6, <1>7, <2>1 DEF FirstOf, LastOf
<1>8. CASE K # {}
  <2>1. PICK a \in K : \A i \in K : a <= i
    BY <1>4, <1>8, LeastNatural
  <2>2. PICK z \in K : \A i \in K : i <= z
    <3>1. K \in SUBSET (0..n)
      BY <1>4
    <3>2. LastOf(K) \in K /\ \A j \in K : LastOf(K) >= j
      BY <1>8, <3>1, LastOfNat
    <3>3. QED
      BY <1>4, <3>2
  <2>3. a \in Int /\ z \in Int /\ K \in SUBSET Int /\ O \in SUBSET Int
    BY <1>4
  <2>4. FirstOf(K) = a
    BY <2>1, <2>3, FirstIs
  <2>5. LastOf(K) = z
    <3>1. \A i \in K : z >= i
      BY <2>2, <2>3
    <3>2. QED
      BY <2>2, <2>3, <3>1, LastIs
  <2>6. a - 1 \in O /\ z - 1 \in O /\ \A j \in O : j + 1 \in K
    BY <1>4, <2>1, <2>2
  <2>7. \A j \in O : a - 1 <= j /\ z - 1 >= j
    BY <2>1, <2>2, <2>3, <2>6
  <2>8. FirstOf(O) = a - 1
    BY <2>3, <2>6, <2>7, FirstIs
  <2>9. LastOf(O) = z - 1
    BY <2>3, <2>6, <2>7, LastIs
  <2>10. QED
    BY <1>2, <1>5, <1>6, <1>8, <2>1, <2>2, <2>4, <2>5, <2>8, <2>9
<1>9. QED
  BY <1>7, <1>8

\* What is left of a text, by the places of what is kept.
LEMMA StrippedIs ==
    ASSUME NEW text \in Seq(Byte), NEW set
    PROVE  /\ Kept(text, set) = {} =>
                 /\ Stripped(text, set).start = <<>>
                 /\ Stripped(text, set).end = <<>>
                 /\ Stripped(text, set).both = <<>>
           /\ Kept(text, set) # {} =>
                 /\ Stripped(text, set).start = SubSeq(text, FirstOf(Kept(text, set)), Len(text))
                 /\ Stripped(text, set).end = SubSeq(text, 1, LastOf(Kept(text, set)))
                 /\ Stripped(text, set).both =
                       SubSeq(text, FirstOf(Kept(text, set)), LastOf(Kept(text, set)))
<1>1. PICK K : K = Kept(text, set)
  OBVIOUS
<1>2. /\ Stripped(text, set).start = SubSeq(text, FirstOf(K), IF K = {} THEN -2 ELSE Len(text))
      /\ Stripped(text, set).end = SubSeq(text, 1, LastOf(K))
      /\ Stripped(text, set).both =
            SubSeq(text, FirstOf(K), IF K = {} THEN -2 ELSE LastOf(K))
  BY <1>1 DEF Stripped, Kept
<1>3. CASE K = {}
  <2>1. FirstOf(K) = -1 /\ LastOf(K) = -1
    BY <1>3 DEF FirstOf, LastOf, NotFound
  <2>2. -1 \in Int /\ -2 \in Int /\ 1 \in Int /\ -2 < -1 /\ -1 < 1
    OBVIOUS
  <2>3. SubSeq(text, -1, -2) = <<>> /\ SubSeq(text, 1, -1) = <<>>
    BY <2>2, EmptyPart
  <2>4. QED
    BY <1>1, <1>2, <1>3, <2>1, <2>3
<1>4. CASE K # {}
  BY <1>1, <1>2, <1>4
<1>5. QED
  BY <1>3, <1>4

LEMMA TrimStartHolds ==
    ASSUME NEW b, NEW text, Holds(b, text), NEW src, NEW other, Holds(src, other),
           NEW inPlace \in BOOLEAN, inPlace => b = src /\ text = other, NEW set
    PROVE  Holds(TrimStart(b, src, inPlace, set), Stripped(other, set).start)
<1>1. /\ other \in Seq(Byte) /\ Len(other) \in Nat /\ Text(src) = other
      /\ StringLength(src) = Len(other) /\ b \in Buffer
  BY HoldsIs, ContentsAre
<1>2. PICK i : i = IndexNotOfAny(other, set, 0)
  OBVIOUS
<1>3. TrimStart(b, src, inPlace, set) =
         IF i = NotFound THEN Terminated(b, 0) ELSE SetSubstr(b, src, inPlace, i, Len(other))
  BY <1>1, <1>2 DEF TrimStart
<1>4. CASE Kept(other, set) = {}
  <2>1. i = NotFound /\ Stripped(other, set).start = <<>>
    BY <1>1, <1>2, <1>4, TrimSearches, StrippedIs
  <2>2. Holds(Terminated(b, 0), <<>>)
    BY <1>1, ClearedHolds
  <2>3. QED
    BY <1>3, <2>1, <2>2
<1>5. CASE Kept(other, set) # {}
  <2>1. PICK a \in Kept(other, set) : FirstOf(Kept(other, set)) = a /\ i = a - 1
    BY <1>1, <1>2, <1>5, TrimSearches
  <2>2. Stripped(other, set).start = SubSeq(other, a, Len(other))
    BY <1>1, <1>5, <2>1, StrippedIs
  <2>3. a \in 1..Len(other) /\ i \in Nat /\ i + 1 = a /\ i < Len(other) /\ i # NotFound
    <3>1. a \in 1..Len(other)
      BY <1>1, KeptIs
    <3>2. QED
      BY <1>1, <2>1, <3>1 DEF NotFound
  <2>4. Between(other, i, Len(other)) = SubSeq(other, a, Len(other))
    BY <1>1, <2>3 DEF Between
  <2>5. Between(other, i, Len(other)) # <<>>
    <3>1. ~(i >= Len(other) \/ i >= Len(other))
      BY <1>1, <2>3
    <3>2. QED
      BY <1>1, <2>3, <3>1, BetweenIs
  <2>6. Holds(SetSubstr(b, src, inPlace, i, Len(other)), Between(other, i, Len(other)))
    BY <1>1, <2>3, <2>5, SetSubstrHolds
  <2>7. QED
    BY <1>3, <2>2, <2>3, <2>4, <2>6
<1>6. QED
  BY <1>4, <1>5

LEMMA TrimEndHolds ==
    ASSUME NEW b, NEW text, Holds(b, text), NEW src, NEW other, Holds(src, other),
           NEW inPlace \in BOOLEAN, inPlace => b = src /\ text = other, NEW set
    PROVE  Holds(TrimEnd(b, src, inPlace, set), Stripped(other, set).end)
<1>1. /\ other \in Seq(Byte) /\ Len(other) \in Nat /\ Text(src) = other
      /\ StringLength(src) = Len(other) /\ b \in Buffer
  BY HoldsIs, ContentsAre
<1>2. PICK i : i = ReverseIndexNotOfAny(other, set, Len(other))
  OBVIOUS
<1>3. TrimEnd(b, src, inPlace, set) =
         IF i = NotFound THEN Terminated(b, 0) ELSE SetSubstr(b, src, inPlace, 0, i + 1)
  BY <1>1, <1>2 DEF TrimEnd
<1>4. CASE Kept(other, set) = {}
  <2>1. i = NotFound /\ Stripped(other, set).end = <<>>
    BY <1>1, <1>2, <1>4, TrimSearches, StrippedIs
  <2>2. Holds(Terminated(b, 0), <<>>)
    BY <1>1, ClearedHolds
  <2>3. QED
    BY <1>3, <2>1, <2>2
<1>5. CASE Kept(other, set) # {}
  <2>1. PICK z \in Kept(other, set) : LastOf(Kept(other, set)) = z /\ i = z - 1
    BY <1>1, <1>2, <1>5, TrimSearches
  <2>2. Stripped(other, set).end = SubSeq(other, 1, z)
    BY <1>1, <1>5, <2>1, StrippedIs
  <2>3. z \in 1..Len(other) /\ z \in Nat /\ i + 1 = z /\ i # NotFound
    <3>1. z \in 1..Len(other)
      BY <1>1, KeptIs
    <3>2. QED
      BY <1>1, <2>1, <3>1 DEF NotFound
  <2>4. Between(other, 0, z) = SubSeq(other, 1, z)
    <3>1. ~(z > Len(other)) /\ 0 + 1 = 1
      BY <1>1, <2>3
    <3>2. QED
      BY <3>1 DEF Between
  <2>5. Between(other, 0, z) # <<>>
    <3>1. ~(0 >= z \/ 0 >= Len(other)) /\ 0 \in Nat
      BY <1>1, <2>3
    <3>2. QED
      BY <1>1, <2>3, <3>1, BetweenIs
  <2>6. Holds(SetSubstr(b, src, inPlace, 0, z), Between(other, 0, z))
    <3>1. 0 \in Nat
      OBVIOUS
    <3>2. QED
      BY <1>1, <2>3, <2>5, <3>1, SetSubstrHolds
  <2>7. QED
    BY <1>3, <2>2, <2>3, <2>4, <2>6
<1>6. QED
  BY <1>4, <1>5

\* To trim the end of what is left by a trim of the start is to trim both.
LEMMA StrippedTwice ==
    ASSUME NEW text \in Seq(Byte), NEW set, NEW mid, mid = Stripped(text, set).start
    PROVE  Stripped(mid, set).end = Stripped(text, set).both
<1>1. PICK K : K = Kept(text, set)
  OBVIOUS
<1>2. CASE K = {}
  <2>1. mid = <<>> /\ Stripped(text, set).both = <<>>
    BY <1>1, <1>2, StrippedIs
  <2>2. mid \in Seq(Byte) /\ DOMAIN mid = {}
    BY <2>1
  <2>3. Kept(mid, set) = {}
    BY <2>2 DEF Kept
  <2>4. QED
    BY <2>1, <2>2, <2>3, StrippedIs
<1>3. CASE K # {}
  <2>1. PICK a, z \in K : /\ \A i \in K : a <= i /\ i <= z
                          /\ FirstOf(K) = a /\ LastOf(K) = z
    BY <1>1, <1>3, TrimSearches
  <2>2. PICK n \in Nat : n = Len(text)
    OBVIOUS
  <2>3. K \subseteq 1..n /\ a \in 1..n /\ z \in 1..n /\ a <= z
    BY <1>1, <2>1, <2>2, KeptIs
  <2>4. PICK k \in Nat : k + 1 = a
    <3>1. a - 1 \in Nat /\ (a - 1) + 1 = a
      BY <2>3
    <3>2. QED
      BY <3>1
  <2>5. PICK m \in Nat : k + m = n
    <3>1. n - k \in Nat /\ k + (n - k) = n
      BY <2>3, <2>4
    <3>2. QED
      BY <3>1
  <2>6. PICK y \in Nat : k + y = z
    <3>1. z - k \in Nat /\ k + (z - k) = z
      BY <2>3, <2>4
    <3>2. QED
      BY <3>1
  <2>7. /\ mid = SubSeq(text, k + 1, k + m)
        /\ Stripped(text, set).both = SubSeq(text, k + 1, k + y)
    BY <1>1, <1>3, <2>1, <2>2, <2>4, <2>5, <2>6, StrippedIs
  <2>8. mid \in Seq(Byte) /\ Len(mid) = m /\ \A i \in 1..m : mid[i] = text[k + i]
    BY <2>2, <2>5, <2>7, PartIs
  <2>9. DOMAIN mid = 1..m /\ DOMAIN text = 1..n
    BY <2>2, <2>8
  <2>10. y \in 1..m
    BY <2>3, <2>4, <2>5, <2>6
  <2>11. y \in Kept(mid, set)
    <3>1. \A q \in DOMAIN set : text[z] # set[q]
      BY <1>1 DEF Kept
    <3>2. mid[y] = text[z]
      BY <2>6, <2>8, <2>10
    <3>3. QED
      BY <2>9, <2>10, <3>1, <3>2 DEF Kept
  <2>12. ASSUME NEW i \in Kept(mid, set) PROVE y >= i
    <3>1. i \in 1..m /\ \A q \in DOMAIN set : mid[i] # set[q]
      BY <2>9 DEF Kept
    <3>2. k + i \in 1..n /\ mid[i] = text[k + i]
      BY <2>5, <2>8, <3>1
    <3>3. k + i \in K
      BY <1>1, <2>9, <3>1, <3>2 DEF Kept
    <3>4. k + i <= z
      BY <2>1, <3>3
    <3>5. QED
      BY <2>6, <3>1, <3>4
  <2>13. LastOf(Kept(mid, set)) = y
    <3>1. Kept(mid, set) \in SUBSET Int
      BY <2>9 DEF Kept
    <3>2. QED
      BY <2>11, <2>12, <3>1, LastIs
  <2>14. Stripped(mid, set).end = SubSeq(mid, 0 + 1, 0 + y)
    <3>1. 0 + 1 = 1 /\ 0 + y = y
      OBVIOUS
    <3>2. Stripped(mid, set).end = SubSeq(mid, 1, y)
      BY <2>8, <2>11, <2>13, StrippedIs
    <3>3. QED
      BY <3>1, <3>2
  <2>15. SubSeq(mid, 0 + 1, 0 + y) = SubSeq(text, k + 1, k + y)
    <3>1. 0 \in Nat /\ 0 + y <= Len(mid) /\ k + y <= Len(text)
      BY <2>2, <2>3, <2>6, <2>8, <2>10
    <3>2. \A i \in 1..y : mid[0 + i] = text[k + i]
      <4>1. \A i \in 1..y : i \in 1..m /\ 0 + i = i
        BY <2>10
      <4>2. QED
        BY <2>8, <4>1
    <3>3. QED
      BY <2>8, <3>1, <3>2, PartsAreEqual
  <2>16. QED
    BY <2>7, <2>14, <2>15
<1>4. QED
  BY <1>2, <1>3

LEMMA TrimHolds ==
    ASSUME NEW b, NEW text, Holds(b, text), NEW src, NEW other, Holds(src, other),
           NEW inPlace \in BOOLEAN, inPlace => b = src /\ text = other, NEW set
    PROVE  Holds(Trim(b, src, inPlace, set), Stripped(other, set).both)
<1>1. other \in Seq(Byte)
  BY HoldsIs
<1>2. PICK c : c = TrimStart(b, src, inPlace, set)
  OBVIOUS
<1>3. PICK mid : mid = Stripped(other, set).start
  OBVIOUS
<1>4. Holds(c, mid)
  BY <1>2, <1>3, TrimStartHolds
<1>5. Holds(TrimEnd(c, c, TRUE, set), Stripped(mid, set).end)
  <2>1. TRUE \in BOOLEAN
    OBVIOUS
  <2>2. QED
    BY <1>4, <2>1, TrimEndHolds
<1>6. QED
  BY <1>1, <1>2, <1>3, <1>5, StrippedTwice DEF Trim

-----------------------------------------------------------------------------
(* The strings hold their values.                                          *)

Char == 1..255
Texted == {"s", "t"}

LEMMA CharsAreBytes == Char \subseteq Byte /\ Seq(Char) \subseteq Seq(Byte)
<1>1. Char \subseteq Byte
  BY DEF Char, Byte
<1>2. QED
  BY <1>1

LEMMA StrippedType ==
    ASSUME NEW text \in Seq(Char), NEW set
    PROVE  /\ Stripped(text, set).start \in Seq(Char)
           /\ Stripped(text, set).end \in Seq(Char)
           /\ Stripped(text, set).both \in Seq(Char)
<1>1. text \in Seq(Byte)
  BY CharsAreBytes
<1>2. <<>> \in Seq(Char)
  OBVIOUS
<1>3. CASE Kept(text, set) = {}
  BY <1>1, <1>2, <1>3, StrippedIs
<1>4. CASE Kept(text, set) # {}
  <2>1. PICK a, z \in Kept(text, set) : /\ FirstOf(Kept(text, set)) = a
                                        /\ LastOf(Kept(text, set)) = z
    BY <1>1, <1>4, TrimSearches
  <2>2. a \in 1..Len(text) /\ z \in 1..Len(text) /\ Len(text) \in 1..Len(text)
    <3>1. a \in 1..Len(text) /\ z \in 1..Len(text)
      BY <1>1, KeptIs
    <3>2. QED
      BY <3>1
  <2>3. \A p, q \in 1..Len(text) : SubSeq(text, p, q) \in Seq(Char)
    OBVIOUS
  <2>4. 1 \in 1..Len(text)
    BY <2>2
  <2>5. QED
    BY <1>1, <1>4, <2>1, <2>2, <2>3, <2>4, StrippedIs
<1>5. QED
  BY <1>3, <1>4

LEMMA FilledType ==
    ASSUME NEW text \in Seq(Char), NEW n \in Nat, NEW c \in Char
    PROVE  Filled(text, n, c) \in Seq(Char)
<1>1. \A i \in 1..n : i <= Len(text) => text[i] \in Char
  OBVIOUS
<1>2. Filled(text, n, c) \in [1..n -> Char]
  BY <1>1 DEF Filled
<1>3. QED
  BY <1>2, FunctionIsSeq

LEMMA InCaseType ==
    ASSUME NEW text \in Seq(Char), NEW upper \in BOOLEAN
    PROVE  InCase(text, upper) \in Seq(Char)
<1>1. PICK n \in Nat : n = Len(text)
  OBVIOUS
<1>2. DOMAIN text = 1..n /\ \A i \in 1..n : text[i] \in Char
  BY <1>1
<1>3. \A c \in Char : Upper(c) \in Char /\ Lower(c) \in Char
  BY DEF Char, Upper, Lower
<1>4. InCase(text, upper) \in [1..n -> Char]
  <2>1. \A i \in 1..n : (IF upper THEN Upper(text[i]) ELSE Lower(text[i])) \in Char
    BY <1>2, <1>3
  <2>2. QED
    BY <1>2, <2>1 DEF InCase
<1>5. QED
  BY <1>4, FunctionIsSeq

StringInv == /\ str \in [Texted -> Buffer] /\ value \in [Texted -> Seq(Char)]
             /\ edits \in 0..MaxEdits
             /\ \A x \in Texted : Holds(str[x], value[x])

\* A string made from a text.
LEMMA StringOfHolds ==
    ASSUME NEW text \in Seq(Byte)
    PROVE  Holds(StringOf(text), text)
<1>1. PICK m \in Nat : m = Len(text) + 1
  OBVIOUS
<1>2. PICK e : e = SetCapacity(EmptyBuffer, m)
  OBVIOUS
<1>3. <<>> \in Seq(Stored) /\ <<>> \in Seq(Byte) /\ Len(<<>>) = 0 /\ 0 \in Nat /\ 1..0 = {}
  OBVIOUS
<1>4. EmptyBuffer \in Buffer /\ EmptyBuffer.length = 0
  BY <1>3 DEF EmptyBuffer, Buffer, BuffersOf, Stored
<1>5. e \in Buffer /\ e.length = 0
  BY <1>2, <1>4, SetCapacityIs
<1>6. Starts(e, <<>>)
  BY <1>3, <1>5, BufferIs DEF Starts
<1>7. PICK c : c = AppendBytes(e, text)
  OBVIOUS
<1>8. Starts(c, <<>> \o text)
  BY <1>3, <1>5, <1>6, <1>7, AppendedStarts
<1>9. <<>> \o text = text
  OBVIOUS
<1>10. Holds(Terminated(c, Len(text)), text)
  BY <1>8, <1>9, TerminatedHolds
<1>11. QED
  BY <1>1, <1>2, <1>7, <1>10 DEF StringOf

LEMMA StringInitially == StringInit => StringInv
<1> SUFFICES ASSUME StringInit PROVE StringInv
  OBVIOUS
<1>1. PICK a \in Texts["s"], b \in Texts["t"] : value = [s |-> a, t |-> b]
  BY DEF StringInit
<1>2. a \in Seq(Char) /\ b \in Seq(Char)
  BY StringAssumption DEF Char
<1>3. value \in [Texted -> Seq(Char)]
  <2>1. DOMAIN value = Texted /\ value = [x \in Texted |-> value[x]]
    BY <1>1 DEF Texted
  <2>2. \A x \in Texted : value[x] \in Seq(Char)
    BY <1>1, <1>2 DEF Texted
  <2>3. QED
    BY <2>1, <2>2
<1>4. str = [x \in Texted |-> StringOf(value[x])] /\ edits = 0
  BY DEF StringInit, Texted
<1>5. \A x \in Texted : Holds(StringOf(value[x]), value[x])
  <2>1. \A x \in Texted : value[x] \in Seq(Byte)
    BY <1>3, CharsAreBytes
  <2>2. QED
    BY <2>1, StringOfHolds
<1>6. \A x \in Texted : StringOf(value[x]) \in Buffer
  BY <1>5, HoldsIs
<1>7. edits \in 0..MaxEdits
  BY <1>4, StringAssumption
<1>8. QED
  BY <1>3, <1>4, <1>5, <1>6, <1>7 DEF StringInv

\* A call that leaves a string and its value alike.
LEMMA BecomesKeeps ==
    ASSUME StringInv, NEW x \in Texted, NEW b, NEW text \in Seq(Char), Holds(b, text),
           Becomes(x, b, text)
    PROVE  StringInv'
<1>1. /\ str' = [str EXCEPT ![x] = b] /\ value' = [value EXCEPT ![x] = text]
      /\ edits < MaxEdits /\ edits' = edits + 1
  BY DEF Becomes
<1>2. /\ str \in [Texted -> Buffer] /\ value \in [Texted -> Seq(Char)]
      /\ edits \in 0..MaxEdits /\ \A y \in Texted : Holds(str[y], value[y])
  BY DEF StringInv
<1>3. b \in Buffer
  BY HoldsIs
<1>4. str' \in [Texted -> Buffer] /\ value' \in [Texted -> Seq(Char)]
  BY <1>1, <1>2, <1>3
<1>5. \A y \in Texted : Holds(str'[y], value'[y])
  <2>1. \A y \in Texted : y # x => str'[y] = str[y] /\ value'[y] = value[y]
    BY <1>1, <1>2
  <2>2. str'[x] = b /\ value'[x] = text
    BY <1>1, <1>2
  <2>3. QED
    BY <1>2, <2>1, <2>2
<1>6. edits' \in 0..MaxEdits
  BY <1>1, <1>2, StringAssumption
<1>7. QED
  BY <1>4, <1>5, <1>6 DEF StringInv

LEMMA InvIs ==
    ASSUME StringInv, NEW x \in Texted
    PROVE  /\ Holds(str[x], value[x]) /\ str[x] \in Buffer
           /\ value[x] \in Seq(Char) /\ value[x] \in Seq(Byte) /\ Len(value[x]) \in Nat
BY HoldsIs, CharsAreBytes DEF StringInv

LEMMA ResizesKeeps ==
    ASSUME StringInv, NEW x \in Texted, NEW n \in 0..MaxLength, NEW c \in Chars, Resizes(x, n, c)
    PROVE  StringInv'
<1>1. n \in Nat /\ c \in Char /\ c \in Byte
  <2>1. c \in Char
    BY StringAssumption DEF Char
  <2>2. n \in Nat
    BY StringAssumption
  <2>3. c \in Byte
    BY <2>1, CharsAreBytes
  <2>4. QED
    BY <2>1, <2>2, <2>3
<1>2. Becomes(x, Filling(str[x], n, c), Filled(value[x], n, c))
  BY DEF Resizes, Filled
<1>3. Holds(Filling(str[x], n, c), Filled(value[x], n, c))
  BY <1>1, InvIs, FillingHolds
<1>4. Filled(value[x], n, c) \in Seq(Char)
  BY <1>1, InvIs, FilledType
<1>5. QED
  BY <1>2, <1>3, <1>4, BecomesKeeps

LEMMA AppendsKeeps ==
    ASSUME StringInv, NEW x \in Texted, NEW y \in Texted, Appends(x, y)
    PROVE  StringInv'
<1>1. Becomes(x, AppendString(str[x], str[y]), value[x] \o value[y])
  BY DEF Appends
<1>2. Holds(AppendString(str[x], str[y]), value[x] \o value[y])
  BY InvIs, AppendStringHolds
<1>3. value[x] \o value[y] \in Seq(Char)
  BY InvIs
<1>4. QED
  BY <1>1, <1>2, <1>3, BecomesKeeps

LEMMA SetsKeeps ==
    ASSUME StringInv, NEW x \in Texted, NEW y \in Texted, Sets(x, y)
    PROVE  StringInv'
<1>1. Becomes(x, AppendString(Terminated(str[x], 0), str[y]), value[y])
  BY DEF Sets
<1>2. Holds(Terminated(str[x], 0), <<>>)
  BY InvIs, ClearedHolds
<1>3. Holds(AppendString(Terminated(str[x], 0), str[y]), <<>> \o value[y])
  BY <1>2, InvIs, AppendStringHolds
<1>4. value[y] \in Seq(Char) /\ <<>> \o value[y] = value[y]
  BY InvIs
<1>5. QED
  BY <1>1, <1>3, <1>4, BecomesKeeps

LEMMA AppendsCharKeeps ==
    ASSUME StringInv, NEW x \in Texted, NEW c \in Chars, AppendsChar(x, c)
    PROVE  StringInv'
<1>1. c \in Char /\ c \in Byte
  BY StringAssumption, CharsAreBytes DEF Char
<1>2. <<c>> \in Seq(Byte)
  BY <1>1
<1>3. PICK text : text = Append(value[x], c)
  OBVIOUS
<1>4. value[x] \o <<c>> = text /\ text \in Seq(Char)
  BY <1>1, <1>3, InvIs
<1>5. CASE Becomes(x, AppendChars(str[x], <<c>>), Append(value[x], c))
  <2>1. Holds(AppendChars(str[x], <<c>>), text)
    BY <1>2, <1>4, InvIs, AppendCharsHolds
  <2>2. QED
    BY <1>3, <1>4, <1>5, <2>1, BecomesKeeps
<1>6. CASE Becomes(x, AppendFormatted(str[x], <<c>>), Append(value[x], c))
  <2>1. Holds(AppendFormatted(str[x], <<c>>), text)
    BY <1>2, <1>4, InvIs, AppendFormattedHolds
  <2>2. QED
    BY <1>3, <1>4, <1>6, <2>1, BecomesKeeps
<1>7. QED
  BY <1>5, <1>6 DEF AppendsChar

LEMMA SetsCharKeeps ==
    ASSUME StringInv, NEW x \in Texted, NEW c \in Chars, SetsChar(x, c)
    PROVE  StringInv'
<1>1. c \in Char /\ c \in Byte /\ 0 \in Byte
  BY StringAssumption, CharsAreBytes DEF Char, Byte
<1>2. /\ <<c>> \in Seq(Byte) /\ <<c>> \in Seq(Char) /\ Len(<<c>>) = 1
      /\ Append(<<c>>, 0) = <<c, 0>> /\ <<c, 0>> \in Seq(Byte) /\ Len(<<c, 0>>) = 2
  <2>1. <<c>> \in Seq(Byte) /\ <<c>> \in Seq(Char) /\ Len(<<c>>) = 1
    BY <1>1
  <2>2. PICK w : w = Append(<<c>>, 0)
    OBVIOUS
  <2>3. w \in Seq(Byte) /\ Len(w) = 2 /\ w[1] = c /\ w[2] = 0
    BY <1>1, <2>1, <2>2
  <2>4. <<c, 0>> \in Seq(Byte) /\ Len(<<c, 0>>) = 2
    BY <1>1
  <2>5. \A i \in 1..2 : w[i] = <<c, 0>>[i]
    <3>1. \A i \in 1..2 : i = 1 \/ i = 2
      OBVIOUS
    <3>2. <<c, 0>>[1] = c /\ <<c, 0>>[2] = 0
      OBVIOUS
    <3>3. QED
      BY <2>3, <3>1, <3>2
  <2>6. w = <<c, 0>>
    BY <2>3, <2>4, <2>5, SeqsAreEqual
  <2>7. QED
    BY <2>1, <2>2, <2>4, <2>6
<1>3. CASE Becomes(x, AppendChars(Terminated(str[x], 0), <<c>>), <<c>>)
  <2>1. Holds(Terminated(str[x], 0), <<>>)
    BY InvIs, ClearedHolds
  <2>2. Holds(AppendChars(Terminated(str[x], 0), <<c>>), <<>> \o <<c>>)
    BY <1>2, <2>1, AppendCharsHolds
  <2>3. <<>> \o <<c>> = <<c>>
    OBVIOUS
  <2>4. QED
    BY <1>2, <1>3, <2>2, <2>3, BecomesKeeps
<1>4. CASE Becomes(x, WriteAt(SetLength(str[x], 2), 0, <<c, 0>>), <<c>>)
  <2>1. PICK e : e = SetLength(str[x], 2)
    OBVIOUS
  <2>2. e \in Buffer /\ e.length = 2
    <3>1. 2 \in Nat
      OBVIOUS
    <3>2. QED
      BY <2>1, <3>1, InvIs, SetLengthIs
  <2>3. PICK d : d = WriteAt(e, 0, <<c, 0>>)
    OBVIOUS
  <2>4. PICK w \in Seq(Byte) : w = <<c, 0>> /\ w = Append(<<c>>, 0) /\ Len(w) = 2
    BY <1>2
  <2>5. Holds(d, <<c>>)
    <3>1. d = WriteAt(e, 0, w)
      BY <2>3, <2>4
    <3>2. /\ Starts(d, w)
          /\ d.length = IF Len(w) > e.length THEN Len(w) ELSE e.length
      BY <2>2, <3>1, WrittenStarts
    <3>3. d.length = Len(<<c>>) + 1
      BY <1>2, <2>2, <2>4, <3>2
    <3>4. Starts(d, Append(<<c>>, 0))
      BY <2>4, <3>2, Zenon
    <3>5. QED
      BY <1>2, <3>3, <3>4, HoldsWithEnd
  <2>6. QED
    BY <1>2, <1>4, <2>1, <2>3, <2>5, BecomesKeeps
<1>5. QED
  BY <1>3, <1>4 DEF SetsChar

LEMMA AppendsSubstrKeeps ==
    ASSUME StringInv, NEW x \in Texted, NEW y \in Texted, NEW i \in Nat, NEW j \in Nat,
           AppendsSubstr(x, y, i, j)
    PROVE  StringInv'
<1>1. Becomes(x, AppendSubstr(str[x], str[y], i, j), value[x] \o Between(value[y], i, j))
  BY DEF AppendsSubstr
<1>2. Holds(AppendSubstr(str[x], str[y], i, j), value[x] \o Between(value[y], i, j))
  BY InvIs, AppendSubstrHolds
<1>3. Between(value[y], i, j) \in Seq(Char)
  BY InvIs, BetweenIs
<1>4. value[x] \o Between(value[y], i, j) \in Seq(Char)
  BY <1>3, InvIs
<1>5. QED
  BY <1>1, <1>2, <1>4, BecomesKeeps

LEMMA SetsSubstrKeeps ==
    ASSUME StringInv, NEW x \in Texted, NEW y \in Texted, NEW i \in Nat, NEW j \in Nat,
           SetsSubstr(x, y, i, j)
    PROVE  StringInv'
<1>1. PICK part : part = Between(value[y], i, j)
  OBVIOUS
<1>2. PICK text : text = IF x = y /\ part = <<>>
                         THEN Text(SetSubstr(str[x], str[y], x = y, i, j)) ELSE part
  OBVIOUS
<1>3. PICK inPlace \in BOOLEAN : inPlace = (x = y)
  OBVIOUS
<1>4. Becomes(x, SetSubstr(str[x], str[y], x = y, i, j), text)
  BY <1>1, <1>2 DEF SetsSubstr
<1>5. Holds(SetSubstr(str[x], str[y], inPlace, i, j),
            IF inPlace /\ Between(value[y], i, j) = <<>> THEN value[x]
            ELSE Between(value[y], i, j))
  <2>1. inPlace => str[x] = str[y] /\ value[x] = value[y]
    BY <1>3
  <2>2. QED
    BY <2>1, InvIs, SetSubstrHolds
<1>6. PICK b : b = SetSubstr(str[x], str[y], x = y, i, j)
  OBVIOUS
<1>7. /\ x = y /\ part = <<>> => Holds(b, value[x]) /\ text = Text(b)
      /\ ~(x = y /\ part = <<>>) => Holds(b, part) /\ text = part
  BY <1>1, <1>2, <1>3, <1>5, <1>6
<1>8. Holds(b, text) /\ text \in Seq(Char)
  <2>1. CASE x = y /\ part = <<>>
    <3>1. Holds(b, value[x])
      BY <1>7, <2>1
    <3>2. text = value[x]
      BY <1>7, <2>1, <3>1, ContentsAre
    <3>3. QED
      BY <3>1, <3>2, InvIs
  <2>2. CASE ~(x = y /\ part = <<>>)
    <3>1. part \in Seq(Char)
      BY <1>1, InvIs, BetweenIs
    <3>2. QED
      BY <1>7, <2>2, <3>1
  <2>3. QED
    BY <2>1, <2>2
<1>9. QED
  BY <1>4, <1>6, <1>8, BecomesKeeps

LEMMA TrimsKeeps ==
    ASSUME StringInv, NEW x \in Texted, NEW y \in Texted, NEW set, Trims(x, y, set)
    PROVE  StringInv'
<1>1. PICK inPlace \in BOOLEAN : inPlace = (x = y)
  OBVIOUS
<1>2. inPlace => str[x] = str[y] /\ value[x] = value[y]
  BY <1>1
<1>3. PICK left : left = Stripped(value[y], set)
  OBVIOUS
<1>4. left.start \in Seq(Char) /\ left.end \in Seq(Char) /\ left.both \in Seq(Char)
  BY <1>3, InvIs, StrippedType
<1>5. Holds(TrimStart(str[x], str[y], inPlace, set), left.start)
  BY <1>2, <1>3, InvIs, TrimStartHolds
<1>6. Holds(TrimEnd(str[x], str[y], inPlace, set), left.end)
  BY <1>2, <1>3, InvIs, TrimEndHolds
<1>7. Holds(Trim(str[x], str[y], inPlace, set), left.both)
  BY <1>2, <1>3, InvIs, TrimHolds
<1>8. CASE Becomes(x, TrimStart(str[x], str[y], inPlace, set), left.start)
  BY <1>4, <1>5, <1>8, BecomesKeeps
<1>9. CASE Becomes(x, TrimEnd(str[x], str[y], inPlace, set), left.end)
  BY <1>4, <1>6, <1>9, BecomesKeeps
<1>10. CASE Becomes(x, Trim(str[x], str[y], inPlace, set), left.both)
  BY <1>4, <1>7, <1>10, BecomesKeeps
<1>11. QED
  BY <1>1, <1>3, <1>8, <1>9, <1>10 DEF Trims

LEMMA RecasesKeeps ==
    ASSUME StringInv, NEW x \in Texted, NEW y \in Texted, NEW upper \in BOOLEAN,
           Recases(x, y, upper)
    PROVE  StringInv'
<1>1. PICK inPlace \in BOOLEAN : inPlace = (x = y)
  OBVIOUS
<1>2. inPlace => str[x] = str[y] /\ value[x] = value[y]
  BY <1>1
<1>3. Becomes(x, Recased(str[x], str[y], inPlace, upper), InCase(value[y], upper))
  BY <1>1 DEF Recases
<1>4. Holds(Recased(str[x], str[y], inPlace, upper), InCase(value[y], upper))
  BY <1>2, InvIs, RecasedHolds
<1>5. InCase(value[y], upper) \in Seq(Char)
  BY InvIs, InCaseType
<1>6. QED
  BY <1>3, <1>4, <1>5, BecomesKeeps

LEMMA StringStep == StringInv /\ [StringNext]_stringVars => StringInv'
<1> SUFFICES ASSUME StringInv, [StringNext]_stringVars PROVE StringInv'
  OBVIOUS
<1>1. ASSUME NEW x \in Texted, NEW y \in Texted, NEW i \in 0..(MaxLength + 1),
             NEW j \in 0..(MaxLength + 1), AppendsSubstr(x, y, i, j) \/ SetsSubstr(x, y, i, j)
      PROVE  StringInv'
  <2>1. i \in Nat /\ j \in Nat
    BY StringAssumption
  <2>2. QED
    BY <1>1, <2>1, AppendsSubstrKeeps, SetsSubstrKeeps
<1>2. ASSUME NEW x \in Texted, NEW y \in Texted, Appends(x, y) \/ Sets(x, y)
      PROVE  StringInv'
  BY <1>2, AppendsKeeps, SetsKeeps
<1>3. ASSUME NEW x \in Texted, NEW y \in Texted, NEW upper \in BOOLEAN, Recases(x, y, upper)
      PROVE  StringInv'
  BY <1>3, RecasesKeeps
<1>4. ASSUME NEW x \in Texted, NEW c \in Chars, NEW n \in 0..MaxLength,
             Resizes(x, n, c) \/ AppendsChar(x, c) \/ SetsChar(x, c)
      PROVE  StringInv'
  BY <1>4, ResizesKeeps, AppendsCharKeeps, SetsCharKeeps
<1>5. ASSUME NEW x \in Texted, NEW y \in Texted, NEW c \in Chars, NEW d \in Chars,
             Trims(x, y, <<c, d>>)
      PROVE  StringInv'
  BY <1>5, TrimsKeeps
<1>6. CASE StringsDone
  BY <1>6 DEF StringsDone, stringVars, StringInv
<1>7. CASE UNCHANGED stringVars
  BY <1>7 DEF stringVars, StringInv
<1>8. QED
  BY <1>1, <1>2, <1>3, <1>4, <1>5, <1>6, <1>7 DEF StringNext, Texted

LEMMA StringAlways == StringSpec => []StringInv
<1>1. StringInit => StringInv
  BY StringInitially
<1>2. StringInv /\ [StringNext]_stringVars => StringInv'
  BY StringStep
<1>3. QED
  BY <1>1, <1>2, PTL DEF StringSpec

\* After any calls each string holds what they say and its terminator, whatever the texts,
\* the characters, the ranges and the number of calls: the functions of string.c that cut,
\* move and grow a buffer in place.
THEOREM ValuesCorrect == StringSpec => []StringsAreValues
<1>1. ASSUME StringInv PROVE StringsAreValues
  BY <1>1, InvIs, ContentsAre DEF StringsAreValues, Texted
<1>2. QED
  BY <1>1, StringAlways, PTL

-----------------------------------------------------------------------------
(* What the searches and the comparison of two texts return.               *)

\* The first hit from start on, when there are none beyond a last place.
LEMMA FirstFrom ==
    ASSUME NEW S \in SUBSET Nat, NEW start \in Nat, NEW last \in Int, \A i \in S : i <= last
    PROVE  Upwards(S, start, last) = FirstOf({i \in S : i >= start})
<1>1. {j \in start..last : j \in S} = {i \in S : i >= start}
  <2>1. \A i \in S : i >= start => i \in start..last
    OBVIOUS
  <2>2. \A j \in start..last : j >= start
    OBVIOUS
  <2>3. QED
    BY <2>1, <2>2
<1>2. QED
  BY <1>1, UpwardsIs

\* The last hit up to start, when there are none beyond a last place.
LEMMA LastUntil ==
    ASSUME NEW S \in SUBSET Nat, NEW start \in Nat, NEW last \in Int, last >= -1,
           \A i \in S : i <= last
    PROVE  Downwards(S, Clamped(start, last)) = LastOf({i \in S : i <= start})
<1>1. PICK c : c = Clamped(start, last)
  OBVIOUS
<1>2. c \in Int /\ c >= -1 /\ c <= start /\ c <= last /\ (c = start \/ c = last)
  BY <1>1 DEF Clamped
<1>3. {j \in 0..c : j \in S} = {i \in S : i <= start}
  <2>1. \A i \in S : i <= start => i \in 0..c
    BY <1>2
  <2>2. \A j \in 0..c : j <= start
    BY <1>2
  <2>3. QED
    BY <2>1, <2>2
<1>4. Downwards(S, c) = LastOf({j \in 0..c : j \in S})
  BY <1>2, DownwardsIs
<1>5. QED
  BY <1>1, <1>3, <1>4

LEMMA SearchesAre ==
    ASSUME NEW s \in Seq(Byte), NEW t \in Seq(Byte), NEW start \in Nat
    PROVE  FindsExactly(s, t, start)
<1>1. PICK n \in Nat : n = Len(s)
  OBVIOUS
<1>2. PICK k \in Nat : k = Len(t)
  OBVIOUS
<1>3. PICK M : M = {i \in Matches(s, t) : t # <<>>}
  OBVIOUS
<1>4. t = <<>> <=> k = 0
  BY <1>2
<1>5. Matches(s, t) \in SUBSET Nat /\ \A i \in Matches(s, t) : i <= n - k
  <2>1. \A i \in Matches(s, t) : i \in Nat /\ i + k <= n
    BY <1>1, <1>2 DEF Matches, MatchesAt
  <2>2. QED
    BY <2>1
<1>6. IndexOf(s, t, start) = FirstOf({i \in M : i >= start})
  <2>1. CASE k > n \/ k = 0
    <3>1. M = {}
      BY <1>3, <1>4, <1>5, <2>1
    <3>2. IndexOf(s, t, start) = NotFound
      BY <1>1, <1>2, <2>1 DEF IndexOf
    <3>3. QED
      BY <3>1, <3>2 DEF FirstOf
  <2>2. CASE ~(k > n \/ k = 0)
    <3>1. M = Matches(s, t)
      BY <1>3, <1>4, <2>2
    <3>2. IndexOf(s, t, start) = Upwards(M, start, n - k)
      BY <1>1, <1>2, <2>2, <3>1 DEF IndexOf
    <3>3. QED
      BY <1>5, <3>1, <3>2, FirstFrom
  <2>3. QED
    BY <2>1, <2>2
<1>7. ReverseIndexOf(s, t, start) = LastOf({i \in M : i <= start})
  <2>1. CASE k > n \/ k = 0
    <3>1. M = {}
      BY <1>3, <1>4, <1>5, <2>1
    <3>2. ReverseIndexOf(s, t, start) = NotFound
      BY <1>1, <1>2, <2>1 DEF ReverseIndexOf
    <3>3. QED
      BY <3>1, <3>2 DEF LastOf
  <2>2. CASE ~(k > n \/ k = 0)
    <3>1. M = Matches(s, t)
      BY <1>3, <1>4, <2>2
    <3>2. ReverseIndexOf(s, t, start) = Downwards(M, Clamped(start, n - k))
      BY <1>1, <1>2, <2>2, <3>1 DEF ReverseIndexOf
    <3>3. n - k \in Int /\ n - k >= -1
      BY <2>2
    <3>4. QED
      BY <1>5, <3>1, <3>2, <3>3, LastUntil
  <2>3. QED
    BY <2>1, <2>2
<1>8. ASSUME NEW S \in {Members(s, t), Others(s, t)}
      PROVE  /\ Upwards(S, start, n - 1) = FirstOf({i \in S : i >= start})
             /\ Downwards(S, Clamped(start, n - 1)) = LastOf({i \in S : i <= start})
  <2>1. S \subseteq 0..(n - 1)
    BY <1>1 DEF Members, Others
  <2>2. S \in SUBSET Nat /\ \A i \in S : i <= n - 1
    BY <2>1
  <2>3. n - 1 \in Int /\ n - 1 >= -1
    OBVIOUS
  <2>4. QED
    BY <2>2, <2>3, FirstFrom, LastUntil
<1>9. /\ IndexOfAny(s, t, start) = FirstOf({i \in Members(s, t) : i >= start})
      /\ IndexNotOfAny(s, t, start) = FirstOf({i \in Others(s, t) : i >= start})
  BY <1>1, <1>8 DEF IndexOfAny, IndexNotOfAny
<1>10. /\ ReverseIndexOfAny(s, t, start) = LastOf({i \in Members(s, t) : i <= start})
       /\ ReverseIndexNotOfAny(s, t, start) = LastOf({i \in Others(s, t) : i <= start})
  BY <1>1, <1>8 DEF ReverseIndexOfAny, ReverseIndexNotOfAny
<1>11. QED
  BY <1>3, <1>6, <1>7, <1>9, <1>10 DEF FindsExactly

\* Arithmetic of char: no two bytes differ by 0, and those of ASCII by what they do.
LEMMA DiffersIs ==
    ASSUME NEW a \in Byte, NEW b \in Byte
    PROVE  /\ SignedChar(SignedChar(a) - SignedChar(b)) = 0 <=> a = b
           /\ a < 128 /\ b < 128 => SignedChar(SignedChar(a) - SignedChar(b)) = a - b
<1>1. \A n \in 0..127 : SignedChar(n) = n
  BY DEF SignedChar
<1>2. \A n \in 128..255 : SignedChar(n) = n - 256
  BY DEF SignedChar
<1>3. \A n \in (-255)..(-129) : SignedChar(n) = n + 256
  BY DEF SignedChar
<1>4. \A n \in (-128)..127 : SignedChar(n) = n
  BY DEF SignedChar
<1>5. a \in 0..255 /\ b \in 0..255
  BY DEF Byte
<1>6. PICK p \in (-128)..127 : p = SignedChar(a) /\ (p = a \/ p = a - 256)
  <2>1. a \in 0..127 \/ a \in 128..255
    BY <1>5
  <2>2. QED
    BY <1>1, <1>2, <2>1
<1>7. PICK q \in (-128)..127 : q = SignedChar(b) /\ (q = b \/ q = b - 256)
  <2>1. b \in 0..127 \/ b \in 128..255
    BY <1>5
  <2>2. QED
    BY <1>1, <1>2, <2>1
<1>8. p = q <=> a = b
  BY <1>5, <1>6, <1>7
<1>9. PICK d \in (-255)..255 : d = p - q
  OBVIOUS
<1>10. SignedChar(d) = 0 <=> d = 0
  <2>1. d \in (-255)..(-129) \/ d \in (-128)..127 \/ d \in 128..255
    OBVIOUS
  <2>2. QED
    BY <1>2, <1>3, <1>4, <2>1
<1>11. ASSUME a < 128, b < 128 PROVE SignedChar(d) = a - b
  <2>1. a \in 0..127 /\ b \in 0..127
    BY <1>5, <1>11
  <2>2. p = a /\ q = b
    BY <1>1, <1>6, <1>7, <2>1
  <2>3. d \in (-128)..127
    BY <1>9, <2>1, <2>2
  <2>4. QED
    BY <1>4, <1>9, <2>2, <2>3
<1>12. QED
  BY <1>6, <1>7, <1>8, <1>9, <1>10, <1>11

\* The order of two texts is that of the first characters they differ in, and without
\* one that of their lengths.
LEMMA FirstDifference ==
    ASSUME NEW u \in Seq(Byte), NEW v \in Seq(Byte), NEW d \in Nat, d < Len(u), d < Len(v),
           \A i \in 1..d : u[i] = v[i], u[d + 1] # v[d + 1]
    PROVE  Before(u, v) <=> u[d + 1] < v[d + 1]
<1>1. PICK m \in Nat : m = Len(u)
  OBVIOUS
<1>2. PICK n \in Nat : n = Len(v)
  OBVIOUS
<1>3. ASSUME u[d + 1] < v[d + 1] PROVE Before(u, v)
  <2>1. SubSeq(u, 0 + 1, 0 + d) = SubSeq(v, 0 + 1, 0 + d)
    <3>1. 0 \in Nat /\ 0 + d <= Len(u) /\ 0 + d <= Len(v)
      BY <1>1, <1>2
    <3>2. \A i \in 1..d : u[0 + i] = v[0 + i]
      <4>1. \A i \in 1..d : 0 + i = i
        OBVIOUS
      <4>2. QED
        BY <4>1
    <3>3. QED
      BY <3>1, <3>2, PartsAreEqual
  <2>2. 0 + 1 = 1 /\ 0 + d = d /\ d \in 0..Len(u)
    BY <1>1
  <2>3. SubSeq(u, 1, d) = SubSeq(v, 1, d)
    BY <2>1, <2>2
  <2>4. QED
    BY <1>3, <2>2, <2>3 DEF Before
<1>4. ASSUME Before(u, v) PROVE u[d + 1] < v[d + 1]
  <2>1. PICK i \in 0..m : /\ i < n /\ SubSeq(u, 1, i) = SubSeq(v, 1, i)
                          /\ i = m \/ u[i + 1] < v[i + 1]
    BY <1>1, <1>2, <1>4 DEF Before
  <2>2. CASE i < d
    <3>1. i + 1 \in 1..d /\ i # m
      BY <1>1, <2>2
    <3>2. u[i + 1] = v[i + 1] /\ u[i + 1] < v[i + 1]
      BY <2>1, <3>1
    <3>3. u[i + 1] \in 0..255
      <4>1. i + 1 \in 1..Len(u)
        BY <1>1, <3>1
      <4>2. \A j \in 1..Len(u) : u[j] \in Byte
        OBVIOUS
      <4>3. QED
        BY <4>1, <4>2 DEF Byte
    <3>4. \A l \in 0..255 : ~(l < l)
      OBVIOUS
    <3>5. u[i + 1] < u[i + 1]
      BY <3>2
    <3>6. QED
      BY <3>3, <3>4, <3>5
  <2>3. CASE i > d
    <3>1. i \in Nat /\ 0 + i <= Len(u) /\ 0 + i <= Len(v) /\ 0 \in Nat /\ d + 1 \in 1..i
      BY <1>1, <1>2, <2>1, <2>3
    <3>2. /\ \A j \in 1..i : SubSeq(u, 0 + 1, 0 + i)[j] = u[0 + j]
          /\ \A j \in 1..i : SubSeq(v, 0 + 1, 0 + i)[j] = v[0 + j]
      BY <3>1, PartIs
    <3>3. 0 + 1 = 1 /\ 0 + i = i /\ 0 + (d + 1) = d + 1
      OBVIOUS
    <3>4. /\ SubSeq(u, 1, i)[d + 1] = u[d + 1]
          /\ SubSeq(v, 1, i)[d + 1] = v[d + 1]
      BY <3>1, <3>2, <3>3
    <3>5. QED
      BY <2>1, <3>4
  <2>4. CASE i = d
    <3>1. i # m
      BY <1>1, <2>4
    <3>2. QED
      BY <2>1, <2>4, <3>1
  <2>5. QED
    BY <2>2, <2>3, <2>4
<1>5. QED
  BY <1>3, <1>4

LEMMA NoDifference ==
    ASSUME NEW u \in Seq(Byte), NEW v \in Seq(Byte),
           \A i \in Nat : i < Len(u) /\ i < Len(v) => u[i + 1] = v[i + 1]
    PROVE  /\ Before(u, v) <=> Len(u) < Len(v)
           /\ u = v <=> Len(u) = Len(v)
<1>1. PICK m \in Nat : m = Len(u)
  OBVIOUS
<1>2. PICK n \in Nat : n = Len(v)
  OBVIOUS
<1>3. ASSUME m < n PROVE Before(u, v)
  <2>1. SubSeq(u, 0 + 1, 0 + m) = SubSeq(v, 0 + 1, 0 + m)
    <3>1. 0 \in Nat /\ 0 + m <= Len(u) /\ 0 + m <= Len(v)
      BY <1>1, <1>2, <1>3
    <3>2. \A i \in 1..m : u[0 + i] = v[0 + i]
      <4>1. \A i \in 1..m : 0 + i = i /\ i - 1 \in Nat /\ i - 1 < m /\ i - 1 < n /\ (i - 1) + 1 = i
        BY <1>3
      <4>2. QED
        BY <1>1, <1>2, <4>1
    <3>3. QED
      BY <3>1, <3>2, PartsAreEqual
  <2>2. 0 + 1 = 1 /\ 0 + m = m /\ m \in 0..Len(u)
    BY <1>1
  <2>3. SubSeq(u, 1, m) = SubSeq(v, 1, m)
    BY <2>1, <2>2
  <2>4. QED
    BY <1>1, <1>2, <1>3, <2>2, <2>3 DEF Before
<1>4. ASSUME Before(u, v) PROVE m < n
  <2>1. PICK i \in 0..m : i < n /\ (i = m \/ u[i + 1] < v[i + 1])
    BY <1>1, <1>2, <1>4 DEF Before
  <2>2. CASE i < m
    <3>1. u[i + 1] = v[i + 1] /\ u[i + 1] < v[i + 1]
      BY <1>1, <1>2, <2>1, <2>2
    <3>2. u[i + 1] \in 0..255
      <4>1. i + 1 \in 1..Len(u)
        BY <1>1, <2>2
      <4>2. \A j \in 1..Len(u) : u[j] \in Byte
        OBVIOUS
      <4>3. QED
        BY <4>1, <4>2 DEF Byte
    <3>3. \A l \in 0..255 : ~(l < l)
      OBVIOUS
    <3>4. u[i + 1] < u[i + 1]
      BY <3>1
    <3>5. QED
      BY <3>2, <3>3, <3>4
  <2>3. QED
    BY <2>1, <2>2
<1>5. ASSUME m = n PROVE u = v
  <2>1. \A i \in 1..m : i - 1 \in Nat /\ i - 1 < m /\ i - 1 < n /\ (i - 1) + 1 = i
    BY <1>5
  <2>2. \A i \in 1..m : u[i] = v[i]
    BY <1>1, <1>2, <2>1
  <2>3. QED
    BY <1>1, <1>2, <1>5, <2>2, SeqsAreEqual
<1>6. QED
  BY <1>1, <1>2, <1>3, <1>4, <1>5

\* A text as string_compare_* look at it.
FormOf(s, sensitive) == IF sensitive THEN s ELSE [i \in DOMAIN s |-> Lower(s[i])]

LEMMA FormIs ==
    ASSUME NEW s \in Seq(Byte), NEW sensitive \in BOOLEAN
    PROVE  /\ FormOf(s, sensitive) \in Seq(Byte) /\ Len(FormOf(s, sensitive)) = Len(s)
           /\ \A i \in 1..Len(s) :
                 /\ FormOf(s, sensitive)[i] = IF sensitive THEN s[i] ELSE Lower(s[i])
                 /\ FormOf(s, sensitive)[i] \in Byte
                 /\ s[i] < 128 => FormOf(s, sensitive)[i] < 128
<1>1. PICK n \in Nat : n = Len(s)
  OBVIOUS
<1>2. DOMAIN s = 1..n /\ \A i \in 1..n : s[i] \in Byte
  BY <1>1
<1>3. \A c \in Byte : Lower(c) \in Byte /\ (c < 128 => Lower(c) < 128)
  BY DEF Byte, Lower
<1>4. CASE sensitive
  <2>1. FormOf(s, sensitive) = s
    BY <1>4 DEF FormOf
  <2>2. QED
    BY <1>1, <1>2, <1>4, <2>1
<1>5. CASE ~sensitive
  <2>1. PICK f : f = FormOf(s, sensitive)
    OBVIOUS
  <2>2. f = [i \in 1..n |-> Lower(s[i])]
    BY <1>2, <1>5, <2>1 DEF FormOf
  <2>3. f \in [1..n -> Byte]
    BY <1>2, <1>3, <2>2
  <2>4. f \in Seq(Byte) /\ Len(f) = n
    BY <2>3, FunctionIsSeq
  <2>5. \A i \in 1..n : f[i] = Lower(s[i])
    BY <2>2
  <2>6. QED
    BY <1>1, <1>2, <1>3, <1>5, <2>1, <2>4, <2>5
<1>6. QED
  BY <1>4, <1>5

LEMMA ComparesAre ==
    ASSUME NEW a \in Seq(Byte), NEW b \in Seq(Byte), NEW sensitive \in BOOLEAN
    PROVE  ComparesExactly(a, b, sensitive)
<1>1. PICK m \in Nat : m = Len(a)
  OBVIOUS
<1>2. PICK n \in Nat : n = Len(b)
  OBVIOUS
<1>3. PICK k \in Nat : k = (IF m < n THEN m ELSE n)
  OBVIOUS
<1>4. k <= m /\ k <= n /\ (k = m \/ k = n)
  BY <1>3
<1>5. PICK u : u = FormOf(a, sensitive)
  OBVIOUS
<1>6. PICK v : v = FormOf(b, sensitive)
  OBVIOUS
<1>7. /\ u \in Seq(Byte) /\ Len(u) = m /\ v \in Seq(Byte) /\ Len(v) = n
      /\ \A i \in 1..m : /\ u[i] = IF sensitive THEN a[i] ELSE Lower(a[i])
                         /\ u[i] \in Byte /\ (a[i] < 128 => u[i] < 128)
      /\ \A i \in 1..n : /\ v[i] = IF sensitive THEN b[i] ELSE Lower(b[i])
                         /\ v[i] \in Byte /\ (b[i] < 128 => v[i] < 128)
  <2>1. u \in Seq(Byte) /\ Len(u) = m /\ v \in Seq(Byte) /\ Len(v) = n
    BY <1>1, <1>2, <1>5, <1>6, FormIs
  <2>2. ASSUME NEW i \in 1..m
        PROVE  /\ u[i] = IF sensitive THEN a[i] ELSE Lower(a[i])
               /\ u[i] \in Byte /\ (a[i] < 128 => u[i] < 128)
    BY <1>1, <1>5, FormIs
  <2>3. ASSUME NEW i \in 1..n
        PROVE  /\ v[i] = IF sensitive THEN b[i] ELSE Lower(b[i])
               /\ v[i] \in Byte /\ (b[i] < 128 => v[i] < 128)
    BY <1>2, <1>6, FormIs
  <2>4. QED
    BY <2>1, <2>2, <2>3
<1>8. PICK ascii \in BOOLEAN : ascii = \A s \in {a, b} : \A i \in DOMAIN s : s[i] < 128
  OBVIOUS
<1>9. ASSUME NEW i \in 0..(k - 1)
      PROVE  /\ u[i + 1] \in Byte /\ v[i + 1] \in Byte
             /\ Differ(a[i + 1], b[i + 1], sensitive) = 0 <=> u[i + 1] = v[i + 1]
             /\ ascii => Differ(a[i + 1], b[i + 1], sensitive) = u[i + 1] - v[i + 1]
  <2>1. i + 1 \in 1..m /\ i + 1 \in 1..n
    BY <1>4
  <2>2. u[i + 1] \in Byte /\ v[i + 1] \in Byte
    BY <1>7, <2>1
  <2>3. Differ(a[i + 1], b[i + 1], sensitive) =
           SignedChar(SignedChar(u[i + 1]) - SignedChar(v[i + 1]))
    BY <1>7, <2>1 DEF Differ
  <2>4. ascii => u[i + 1] < 128 /\ v[i + 1] < 128
    <3>1. i + 1 \in DOMAIN a /\ i + 1 \in DOMAIN b
      BY <1>1, <1>2, <2>1
    <3>2. QED
      BY <1>7, <1>8, <2>1, <3>1
  <2>5. QED
    BY <2>2, <2>3, <2>4, DiffersIs
<1>10. PICK D : D = {i \in 0..(k - 1) : Differ(a[i + 1], b[i + 1], sensitive) # 0}
  OBVIOUS
<1>11. \A i \in 0..(k - 1) : i \in D <=> u[i + 1] # v[i + 1]
  BY <1>9, <1>10
<1>12. D \in SUBSET Nat /\ D \subseteq 0..(k - 1)
  BY <1>10
<1>13. PICK at : at = FirstOf(D)
  OBVIOUS
<1>14. PICK result : result = Compare(a, b, sensitive)
  OBVIOUS
<1>15. result = IF at = NotFound THEN m - n ELSE Differ(a[at + 1], b[at + 1], sensitive)
  <2>1. Upwards(D, 0, k - 1) = FirstOf({j \in 0..(k - 1) : j \in D})
    BY UpwardsIs
  <2>2. {j \in 0..(k - 1) : j \in D} = D
    BY <1>12
  <2>3. QED
    BY <1>1, <1>2, <1>3, <1>10, <1>13, <1>14, <2>1, <2>2 DEF Compare
<1>16. /\ result = 0 <=> u = v
       /\ ascii => (result < 0 <=> Before(u, v)) /\ (result > 0 <=> Before(v, u))
  <2>1. CASE D = {}
    <3>1. result = m - n
      BY <1>13, <1>15, <2>1 DEF FirstOf
    <3>2. \A i \in Nat : i < m /\ i < n => u[i + 1] = v[i + 1]
      <4>1. \A i \in Nat : i < m /\ i < n => i \in 0..(k - 1)
        BY <1>4
      <4>2. QED
        BY <1>11, <2>1, <4>1
    <3>3. (Before(u, v) <=> m < n) /\ (u = v <=> m = n)
      BY <1>7, <3>2, NoDifference
    <3>4. Before(v, u) <=> n < m
      BY <1>7, <3>2, NoDifference
    <3>5. QED
      BY <3>1, <3>3, <3>4
  <2>2. CASE D # {}
    <3>1. at \in D /\ \A j \in D : at <= j
      BY <1>12, <1>13, <2>2, FirstOfNat
    <3>2. at \in 0..(k - 1) /\ at \in Nat /\ at < m /\ at < n /\ at # NotFound
      BY <1>4, <1>12, <3>1 DEF NotFound
    <3>3. result = Differ(a[at + 1], b[at + 1], sensitive)
      BY <1>15, <3>2
    <3>4. PICK p \in Byte : p = u[at + 1]
      BY <1>9, <3>2
    <3>5. PICK q \in Byte : q = v[at + 1]
      BY <1>9, <3>2
    <3>6. p # q
      BY <1>11, <3>1, <3>2, <3>4, <3>5
    <3>7. (result = 0 <=> p = q) /\ (ascii => result = p - q)
      BY <1>9, <3>2, <3>3, <3>4, <3>5
    <3>8. \A i \in 1..at : u[i] = v[i]
      <4>1. \A i \in 1..at : i - 1 \in 0..(k - 1) /\ ~(at <= i - 1) /\ (i - 1) + 1 = i
        BY <1>4, <3>2
      <4>2. \A i \in 1..at : i - 1 \notin D
        BY <3>1, <4>1
      <4>3. \A i \in 1..at : u[(i - 1) + 1] = v[(i - 1) + 1]
        BY <1>11, <4>1, <4>2
      <4>4. QED
        BY <4>1, <4>3
    <3>9. Before(u, v) <=> p < q
      BY <1>7, <3>2, <3>4, <3>5, <3>6, <3>8, FirstDifference
    <3>10. Before(v, u) <=> q < p
      BY <1>7, <3>2, <3>4, <3>5, <3>6, <3>8, FirstDifference
    <3>11. u # v
      BY <3>4, <3>5, <3>6
    <3>12. ascii => (result < 0 <=> p < q) /\ (result > 0 <=> q < p)
      BY <3>7 DEF Byte
    <3>13. QED
      BY <3>6, <3>7, <3>9, <3>10, <3>11, <3>12
  <2>3. QED
    BY <2>1, <2>2
<1>17. QED
  BY <1>5, <1>6, <1>8, <1>14, <1>16 DEF ComparesExactly, FormOf

\* Whatever the two strings hold, the searches of one for the other return the first or the
\* last match from where they start, and the comparisons tell equal from different strings
\* and order those of ASCII: the loops of string_index_of_*, string_reverse_index_of_* and
\* string_compare_*, their bounds and the char the difference of two characters is cut to.
THEOREM SearchesCorrect == StringSpec => []SearchesAreExact
<1>1. ASSUME StringInv PROVE SearchesAreExact
  <2>1. PICK s \in Seq(Byte) : s = Text(str["s"])
    BY <1>1, InvIs, ContentsAre DEF Texted
  <2>2. PICK t \in Seq(Byte) : t = Text(str["t"])
    BY <1>1, InvIs, ContentsAre DEF Texted
  <2>3. \A start \in 0..(MaxLength + 1) : FindsExactly(s, t, start)
    <3>1. \A start \in 0..(MaxLength + 1) : start \in Nat
      BY StringAssumption
    <3>2. QED
      BY <3>1, SearchesAre
  <2>4. \A sensitive \in BOOLEAN : ComparesExactly(s, t, sensitive)
    BY ComparesAre
  <2>5. QED
    BY <2>1, <2>2, <2>3, <2>4 DEF SearchesAreExact
<1>2. QED
  BY <1>1, StringAlways, PTL

-----------------------------------------------------------------------------
(* Splitting.                                                              *)

\* The next delimiter, by the places where it is.
LEMMA NextDelimiterIs ==
    ASSUME NEW s \in Seq(Byte), NEW delim \in Seq(Byte), delim # <<>>, NEW from \in 0..Len(s),
           NEW i, i = NextDelimiter(s, delim, from)
    PROVE  /\ i = NotFound =>
                 \A j \in from..Len(s) : MatchesAt(s, delim, j) => j = Len(s) - Len(delim)
           /\ i # NotFound =>
                 /\ i \in from..Len(s) /\ i + Len(delim) < Len(s) /\ MatchesAt(s, delim, i)
                 /\ \A j \in from..(i - 1) : ~MatchesAt(s, delim, j)
<1>1. PICK L \in Nat : L = Len(s)
  OBVIOUS
<1>2. PICK n \in Nat : n = Len(delim)
  OBVIOUS
<1>3. n # 0 /\ from \in Nat
  BY <1>1, <1>2
<1>4. PICK S : S = {j \in from..(L - n - 1) : j \in Matches(s, delim)}
  OBVIOUS
<1>5. S \in SUBSET Nat /\ \A j \in S : j \in from..L /\ j + n < L /\ MatchesAt(s, delim, j)
  BY <1>1, <1>2, <1>3, <1>4 DEF Matches
<1>6. i = FirstOf(S)
  <2>1. L - n - 1 \in Int /\ from \in Int
    BY <1>3
  <2>2. Upwards(Matches(s, delim), from, L - n - 1) = FirstOf(S)
    BY <1>4, <2>1, UpwardsIs
  <2>3. QED
    BY <1>1, <1>2, <2>2 DEF NextDelimiter
<1>7. ASSUME NEW j \in from..L, MatchesAt(s, delim, j)
      PROVE  j + n <= L /\ (j + n < L => j \in S)
  <2>1. j + n <= L
    BY <1>1, <1>2, <1>7 DEF MatchesAt
  <2>2. j \in Matches(s, delim)
    BY <1>1, <1>3, <1>7 DEF Matches
  <2>3. j + n < L => j \in from..(L - n - 1)
    BY <1>3
  <2>4. QED
    BY <1>4, <2>1, <2>2, <2>3
<1>8. CASE S = {}
  <2>1. i = NotFound
    BY <1>6, <1>8 DEF FirstOf
  <2>2. \A j \in from..L : MatchesAt(s, delim, j) => j = L - n
    <3>1. ASSUME NEW j \in from..L, MatchesAt(s, delim, j) PROVE j = L - n
      <4>1. j + n <= L /\ ~(j + n < L) /\ j \in Nat
        BY <1>3, <1>7, <1>8, <3>1
      <4>2. QED
        BY <4>1
    <3>2. QED
      BY <3>1
  <2>3. QED
    BY <1>1, <1>2, <2>1, <2>2
<1>9. CASE S # {}
  <2>1. i \in S /\ \A j \in S : i <= j
    BY <1>5, <1>6, <1>9, FirstOfNat
  <2>2. i \in from..L /\ i + n < L /\ MatchesAt(s, delim, i) /\ i \in Nat /\ i # NotFound
    BY <1>3, <1>5, <2>1 DEF NotFound
  <2>3. ASSUME NEW j \in from..(i - 1) PROVE ~MatchesAt(s, delim, j)
    <3>1. j \in from..L /\ j + n < L /\ ~(i <= j)
      BY <1>3, <2>2
    <3>2. QED
      BY <1>7, <2>1, <3>1
  <2>4. QED
    BY <1>1, <1>2, <2>2, <2>3
<1>10. QED
  BY <1>8, <1>9

ArePieces(f, s, delim, max) ==
    f = [from \in 0..Len(s) |-> [count \in Nat |-> PiecesFrom(s, delim, max, f, from, count)]]

\* What the recursive function of Split satisfies, place by place.
LEMMA PiecesAre ==
    ASSUME NEW s, NEW delim, NEW max, NEW f, ArePieces(f, s, delim, max),
           NEW from \in 0..Len(s), NEW count \in Nat
    PROVE  f[from][count] = PiecesFrom(s, delim, max, f, from, count)
<1>1. f = [i \in 0..Len(s) |-> [c \in Nat |-> PiecesFrom(s, delim, max, f, i, c)]]
  BY Zenon DEF ArePieces
<1>2. f[from] = [c \in Nat |-> PiecesFrom(s, delim, max, f, from, c)]
  BY <1>1, Zenon
<1>3. QED
  BY <1>2, Zenon

\* The recursive function of Split exists: its values are made from the end of s backwards.
LEMMA PiecesExist ==
    ASSUME NEW s \in Seq(Byte), NEW delim \in Seq(Byte), delim # <<>>, NEW max
    PROVE  \E f : ArePieces(f, s, delim, max)
<1>1. PICK L \in Nat : L = Len(s)
  OBVIOUS
<1>2. PICK n \in Nat : n = Len(delim) /\ n # 0
  OBVIOUS
<1> DEFINE Right(f, from) ==
               \A count \in Nat : f[from][count] = PiecesFrom(s, delim, max, f, from, count)
           T == {d \in Nat : \E f : \A from \in 0..L : from + d >= L => Right(f, from)}

\* What a call gives depends only on the calls further on.
<1>3. ASSUME NEW f, NEW g, NEW from \in 0..L, NEW count \in Nat,
             \A to \in 0..L : to > from => f[to][count + 1] = g[to][count + 1]
      PROVE  PiecesFrom(s, delim, max, f, from, count) = PiecesFrom(s, delim, max, g, from, count)
  <2>1. PICK i : i = NextDelimiter(s, delim, from)
    OBVIOUS
  <2>2. CASE i = NotFound
    BY <2>1, <2>2 DEF PiecesFrom
  <2>3. CASE i # NotFound
    <3>1. i \in from..L /\ i + n < L
      BY <1>1, <1>2, <2>1, <2>3, NextDelimiterIs
    <3>2. i + n \in 0..L /\ i + n > from
      BY <1>2, <3>1
    <3>3. f[i + n][count + 1] = g[i + n][count + 1]
      BY <1>3, <3>2
    <3>4. QED
      BY <1>2, <2>1, <3>3 DEF PiecesFrom
  <2>4. QED
    BY <2>2, <2>3
<1>4. ASSUME NEW d \in Nat, NEW f, \A from \in 0..L : from + d >= L => Right(f, from),
             NEW g, g = [from \in 0..L |-> [count \in Nat |->
                             IF from + d >= L THEN f[from][count]
                             ELSE PiecesFrom(s, delim, max, f, from, count)]]
      PROVE  \A from \in 0..L : from + (d + 1) >= L => Right(g, from)
  <2>1. ASSUME NEW from \in 0..L, from + (d + 1) >= L, NEW count \in Nat
        PROVE  g[from][count] = PiecesFrom(s, delim, max, g, from, count)
    <3>1. g[from][count] = PiecesFrom(s, delim, max, f, from, count)
      BY <1>4
    <3>2. \A to \in 0..L : to > from => f[to][count + 1] = g[to][count + 1]
      <4>1. \A to \in 0..L : to > from => to + d >= L
        BY <2>1
      <4>2. count + 1 \in Nat
        OBVIOUS
      <4>3. QED
        BY <1>4, <4>1, <4>2
    <3>3. QED
      BY <1>3, <3>1, <3>2
  <2>2. QED
    BY <2>1
<1>5. 0 \in T
  <2>1. PICK f : f = [from \in 0..L |-> [count \in Nat |-> LastPiece(s, from, count, max)]]
    OBVIOUS
  <2>2. ASSUME NEW from \in 0..L, from + 0 >= L, NEW count \in Nat
        PROVE  f[from][count] = PiecesFrom(s, delim, max, f, from, count)
    <3>1. PICK i : i = NextDelimiter(s, delim, from)
      OBVIOUS
    <3>2. from = L
      BY <2>2
    <3>3. i = NotFound
      <4>1. ASSUME i # NotFound PROVE FALSE
        <5>1. i \in from..L /\ i + n < L
          BY <1>1, <1>2, <3>1, <4>1, NextDelimiterIs
        <5>2. QED
          BY <3>2, <5>1
      <4>2. QED
        BY <4>1
    <3>4. QED
      BY <2>1, <3>1, <3>3 DEF PiecesFrom
  <2>3. QED
    BY <2>2
<1>6. ASSUME NEW d \in T PROVE d + 1 \in T
  <2>1. PICK f : \A from \in 0..L : from + d >= L => Right(f, from)
    OBVIOUS
  <2>2. PICK g : g = [from \in 0..L |-> [count \in Nat |->
                         IF from + d >= L THEN f[from][count]
                         ELSE PiecesFrom(s, delim, max, f, from, count)]]
    OBVIOUS
  <2>3. d \in Nat
    OBVIOUS
  <2> HIDE DEF Right
  <2>4. \A from \in 0..L : from + (d + 1) >= L => Right(g, from)
    BY <1>4, <2>1, <2>2, <2>3
  <2>5. QED
    BY <2>3, <2>4
<1>7. T = Nat
  <2>1. T \in SUBSET Nat
    OBVIOUS
  <2> HIDE DEF T
  <2>2. QED
    BY <1>5, <1>6, <2>1, InductionOnNat
<1>8. PICK f : \A from \in 0..L : Right(f, from)
  <2>1. L \in T
    BY <1>7
  <2>2. PICK f : \A from \in 0..L : from + L >= L => Right(f, from)
    BY <2>1
  <2>3. \A from \in 0..L : from + L >= L
    OBVIOUS
  <2>4. QED
    BY <2>2, <2>3
<1>9. PICK g : g = [from \in 0..L |->
                       [count \in Nat |-> PiecesFrom(s, delim, max, f, from, count)]]
  OBVIOUS
<1>10. \A from \in 0..L : \A count \in Nat : f[from][count] = g[from][count]
  BY <1>8, <1>9
<1>11. \A from \in 0..L : \A count \in Nat :
           PiecesFrom(s, delim, max, f, from, count) = PiecesFrom(s, delim, max, g, from, count)
  <2>1. ASSUME NEW from \in 0..L, NEW count \in Nat
        PROVE  PiecesFrom(s, delim, max, f, from, count) = PiecesFrom(s, delim, max, g, from, count)
    <3>1. count + 1 \in Nat
      OBVIOUS
    <3>2. \A to \in 0..L : to > from => f[to][count + 1] = g[to][count + 1]
      BY <1>10, <3>1
    <3>3. QED
      BY <1>3, <3>2
  <2>2. QED
    BY <2>1
<1>12. g = [from \in 0..L |-> [count \in Nat |-> PiecesFrom(s, delim, max, g, from, count)]]
  BY <1>9, <1>11
<1>13. ArePieces(g, s, delim, max)
  BY <1>1, <1>12 DEF ArePieces
<1>14. QED
  BY <1>13, Zenon

\* The places of the delimiter inside a piece.
Inside(s, delim, pair) == {i \in pair[1]..(pair[2] - 1) : MatchesAt(s, delim, i)}
Pairs(s) == (0..Len(s)) \X (0..Len(s))

\* What SplitsExactly says of pieces p that follow count others, and start at from.
PiecesSplit(p, s, delim, max, from, count) ==
    /\ p \in Seq(Pairs(s))
    /\ p = <<>> => from = Len(s)
    /\ max > 0 => count + Len(p) <= max
    /\ p # <<>> =>
          /\ p[1][1] = from /\ p[Len(p)][2] = Len(s)
          /\ \A k \in 1..(Len(p) - 1) : /\ Inside(s, delim, p[k]) = {}
                                        /\ MatchesAt(s, delim, p[k][2])
                                        /\ p[k + 1][1] = p[k][2] + Len(delim)
          /\ \/ max > 0 /\ count + Len(p) = max
             \/ Inside(s, delim, p[Len(p)]) \subseteq {Len(s) - Len(delim)}

\* One piece, up to the end.
LEMMA OnePiece ==
    ASSUME NEW s \in Seq(Byte), NEW delim \in Seq(Byte), NEW max \in Nat, NEW count \in Nat,
           NEW from \in 0..Len(s), max = 0 \/ count < max,
           \/ max > 0 /\ count + 1 = max
           \/ \A j \in from..Len(s) : MatchesAt(s, delim, j) => j = Len(s) - Len(delim)
    PROVE  PiecesSplit(<<<<from, Len(s)>>>>, s, delim, max, from, count)
<1>1. PICK L \in Nat : L = Len(s)
  OBVIOUS
<1>2. PICK pair : pair = <<from, L>>
  OBVIOUS
<1>3. pair \in Pairs(s) /\ pair[1] = from /\ pair[2] = L
  BY <1>1, <1>2 DEF Pairs
<1>4. PICK p : p = <<pair>>
  OBVIOUS
<1>5. p \in Seq(Pairs(s)) /\ Len(p) = 1 /\ p[1] = pair /\ p # <<>>
  BY <1>3, <1>4
<1>6. p[1][1] = from /\ p[Len(p)][2] = Len(s) /\ p[Len(p)] = pair
  BY <1>1, <1>3, <1>5
<1>7. 1..(Len(p) - 1) = {}
  BY <1>5
<1>8. \/ max > 0 /\ count + Len(p) = max
      \/ Inside(s, delim, p[Len(p)]) \subseteq {Len(s) - Len(delim)}
  <2>1. CASE max > 0 /\ count + 1 = max
    BY <1>5, <2>1
  <2>2. CASE \A j \in from..L : MatchesAt(s, delim, j) => j = Len(s) - Len(delim)
    <3>1. \A j \in from..(L - 1) : j \in from..L
      BY <1>1
    <3>2. QED
      BY <1>3, <1>6, <2>2, <3>1 DEF Inside
  <2>3. QED
    BY <1>1, <2>1, <2>2
<1>9. max > 0 => count + Len(p) <= max
  BY <1>5
<1>10. PiecesSplit(p, s, delim, max, from, count)
  BY <1>5, <1>6, <1>7, <1>8, <1>9 DEF PiecesSplit
<1>11. QED
  BY <1>1, <1>2, <1>4, <1>10

\* A piece that ends at a delimiter, before others.
LEMMA OneMorePiece ==
    ASSUME NEW s \in Seq(Byte), NEW delim \in Seq(Byte), NEW max \in Nat, NEW count \in Nat,
           NEW from \in 0..Len(s), NEW i \in from..Len(s), MatchesAt(s, delim, i),
           \A j \in from..(i - 1) : ~MatchesAt(s, delim, j),
           NEW q, PiecesSplit(q, s, delim, max, i + Len(delim), count + 1), q # <<>>
    PROVE  PiecesSplit(<<<<from, i>>>> \o q, s, delim, max, from, count)
<1>1. PICK L \in Nat : L = Len(s)
  OBVIOUS
<1>2. PICK pair : pair = <<from, i>>
  OBVIOUS
<1>3. pair \in Pairs(s) /\ pair[1] = from /\ pair[2] = i
  BY <1>1, <1>2 DEF Pairs
<1>4. /\ q \in Seq(Pairs(s)) /\ (max > 0 => (count + 1) + Len(q) <= max)
      /\ q[1][1] = i + Len(delim) /\ q[Len(q)][2] = L
      /\ \A k \in 1..(Len(q) - 1) : /\ Inside(s, delim, q[k]) = {}
                                    /\ MatchesAt(s, delim, q[k][2])
                                    /\ q[k + 1][1] = q[k][2] + Len(delim)
      /\ \/ max > 0 /\ (count + 1) + Len(q) = max
         \/ Inside(s, delim, q[Len(q)]) \subseteq {Len(s) - Len(delim)}
  BY <1>1 DEF PiecesSplit
<1>5. PICK m \in Nat : m = Len(q) /\ m # 0
  BY <1>4
<1>6. PICK p : p = <<pair>> \o q
  OBVIOUS
<1>7. /\ p \in Seq(Pairs(s)) /\ Len(p) = m + 1 /\ p[1] = pair
      /\ \A k \in 1..m : p[k + 1] = q[k]
  BY <1>3, <1>4, <1>5, <1>6
<1>8. p # <<>> /\ p[Len(p)] = q[Len(q)] /\ p[2] = q[1]
  <2>1. m \in 1..m /\ 1 \in 1..m /\ 1 + 1 = 2 /\ m + 1 # 0
    BY <1>5
  <2>2. p[m + 1] = q[m] /\ p[1 + 1] = q[1]
    BY <1>7, <2>1
  <2>3. p # <<>>
    <3>1. Len(<<>>) = 0
      OBVIOUS
    <3>2. QED
      BY <1>7, <2>1, <3>1
  <2>4. QED
    BY <1>5, <1>7, <2>1, <2>2, <2>3
<1>9. max > 0 => count + Len(p) <= max
  BY <1>4, <1>5, <1>7
<1>10. ASSUME NEW k \in 1..(Len(p) - 1)
       PROVE  /\ Inside(s, delim, p[k]) = {} /\ MatchesAt(s, delim, p[k][2])
              /\ p[k + 1][1] = p[k][2] + Len(delim)
  <2>1. k \in 1..m
    BY <1>5, <1>7
  <2>2. CASE k = 1
    <3>1. Inside(s, delim, pair) = {}
      BY <1>3 DEF Inside
    <3>2. p[k] = pair /\ p[k + 1] = q[1]
      BY <1>7, <1>8, <2>2
    <3>3. QED
      BY <1>3, <1>4, <3>1, <3>2
  <2>3. CASE k # 1
    <3>1. PICK j \in 1..(m - 1) : j + 1 = k
      <4>1. k - 1 \in 1..(m - 1) /\ (k - 1) + 1 = k
        BY <2>1, <2>3
      <4>2. QED
        BY <4>1
    <3>2. j \in 1..m /\ k \in 1..m
      BY <2>1, <3>1
    <3>3. p[k] = q[j] /\ p[k + 1] = q[j + 1]
      BY <1>7, <3>1, <3>2
    <3>4. j \in 1..(Len(q) - 1)
      BY <1>5, <3>1
    <3>5. QED
      BY <1>4, <3>3, <3>4
  <2>4. QED
    BY <2>2, <2>3
<1>11. \/ max > 0 /\ count + Len(p) = max
       \/ Inside(s, delim, p[Len(p)]) \subseteq {Len(s) - Len(delim)}
  <2>1. (count + 1) + Len(q) = count + Len(p)
    BY <1>5, <1>7
  <2>2. QED
    BY <1>4, <1>8, <2>1
<1>12. PiecesSplit(p, s, delim, max, from, count)
  BY <1>1, <1>3, <1>4, <1>7, <1>8, <1>9, <1>10, <1>11 DEF PiecesSplit
<1>13. QED
  BY <1>2, <1>6, <1>12

\* What one call of the loop gives, when the calls further on are right.
LEMMA PiecesStep ==
    ASSUME NEW s \in Seq(Byte), NEW delim \in Seq(Byte), delim # <<>>, NEW max \in Nat,
           NEW f, NEW from \in 0..Len(s), NEW count \in Nat, ~SplitEnds(count, max),
           \A to \in 0..Len(s) : \A c \in Nat : to > from /\ ~SplitEnds(c, max) =>
               PiecesSplit(f[to][c], s, delim, max, to, c)
    PROVE  PiecesSplit(PiecesFrom(s, delim, max, f, from, count), s, delim, max, from, count)
<1>1. PICK L \in Nat : L = Len(s)
  OBVIOUS
<1>2. PICK n \in Nat : n = Len(delim) /\ n # 0
  OBVIOUS
<1>3. from \in Nat /\ from <= L /\ (max = 0 \/ count + 1 < max)
  BY <1>1 DEF SplitEnds
<1>4. PICK i : i = NextDelimiter(s, delim, from)
  OBVIOUS
<1>5. CASE i = NotFound
  <2>1. PiecesFrom(s, delim, max, f, from, count) = LastPiece(s, from, count, max)
    BY <1>4, <1>5 DEF PiecesFrom
  <2>2. \A j \in from..Len(s) : MatchesAt(s, delim, j) => j = Len(s) - Len(delim)
    BY <1>4, <1>5, NextDelimiterIs
  <2>3. max = 0 \/ count < max
    BY <1>3
  <2>4. CASE from = L
    <3>1. LastPiece(s, from, count, max) = <<>>
      BY <1>1, <1>3, <2>4 DEF LastPiece
    <3>2. <<>> \in Seq(Pairs(s)) /\ Len(<<>>) = 0
      OBVIOUS
    <3>3. max > 0 => count + Len(<<>>) <= max
      BY <2>3, <3>2
    <3>4. PiecesSplit(<<>>, s, delim, max, from, count)
      BY <1>1, <2>4, <3>2, <3>3 DEF PiecesSplit
    <3>5. QED
      BY <2>1, <3>1, <3>4
  <2>5. CASE from # L
    <3>1. LastPiece(s, from, count, max) = <<<<from, Len(s)>>>>
      BY <1>1, <1>3, <2>3, <2>5 DEF LastPiece
    <3>2. PiecesSplit(<<<<from, Len(s)>>>>, s, delim, max, from, count)
      BY <2>2, <2>3, OnePiece
    <3>3. QED
      BY <2>1, <3>1, <3>2
  <2>6. QED
    BY <2>4, <2>5
<1>6. CASE i # NotFound
  <2>1. /\ i \in from..Len(s) /\ i + n < L /\ MatchesAt(s, delim, i)
        /\ \A j \in from..(i - 1) : ~MatchesAt(s, delim, j)
    BY <1>1, <1>2, <1>4, <1>6, NextDelimiterIs
  <2>2. PICK to \in 0..Len(s) : to = i + n
    BY <1>1, <1>3, <2>1
  <2>3. to > from /\ to < L
    BY <1>2, <1>3, <2>1, <2>2
  <2>4. PICK c \in Nat : c = count + 1
    OBVIOUS
  <2>5. PICK q : q = IF SplitEnds(c, max) THEN LastPiece(s, to, c, max) ELSE f[to][c]
    OBVIOUS
  <2>6. PiecesFrom(s, delim, max, f, from, count) = <<<<from, i>>>> \o q
    BY <1>2, <1>4, <1>6, <2>2, <2>4, <2>5 DEF PiecesFrom
  <2>7. PiecesSplit(q, s, delim, max, to, c)
    <3>1. CASE SplitEnds(c, max)
      <4>1. max > 0 /\ c + 1 = max /\ c < max
        BY <1>3, <2>4, <3>1 DEF SplitEnds
      <4>2. q = <<<<to, Len(s)>>>>
        BY <1>1, <2>3, <2>5, <3>1, <4>1 DEF LastPiece
      <4>3. PiecesSplit(<<<<to, Len(s)>>>>, s, delim, max, to, c)
        BY <4>1, OnePiece
      <4>4. QED
        BY <4>2, <4>3
    <3>2. CASE ~SplitEnds(c, max)
      BY <2>3, <2>5, <3>2
    <3>3. QED
      BY <3>1, <3>2
  <2>8. q # <<>>
    <3>1. q = <<>> => to = Len(s)
      BY <2>7 DEF PiecesSplit
    <3>2. QED
      BY <1>1, <2>3, <3>1
  <2>9. PiecesSplit(q, s, delim, max, i + Len(delim), count + 1)
    BY <1>2, <2>2, <2>4, <2>7
  <2>10. QED
    BY <2>1, <2>6, <2>8, <2>9, OneMorePiece
<1>7. QED
  BY <1>5, <1>6

LEMMA SplitIs ==
    ASSUME NEW s \in Seq(Byte), NEW delim \in Seq(Byte), delim # <<>>, NEW max \in Nat, max # 1,
           NEW start \in 0..Len(s)
    PROVE  PiecesSplit(Split(s, start, delim, max), s, delim, max, start, 0)
<1>1. PICK L \in Nat : L = Len(s)
  OBVIOUS
<1>2. PICK n \in Nat : n = Len(delim) /\ n # 0
  OBVIOUS
<1> DEFINE pieces == CHOOSE f : ArePieces(f, s, delim, max)
<1>3. Split(s, start, delim, max) = IF Len(delim) > Len(s) - start
                                    THEN <<<<start, Len(s)>>>> ELSE pieces[start][0]
  BY DEF Split, ArePieces
<1>4. ArePieces(pieces, s, delim, max)
  <2>1. \E f : ArePieces(f, s, delim, max)
    BY PiecesExist
  <2>2. QED
    BY <2>1, Zenon
<1> HIDE DEF pieces
<1>5. \A from \in 0..L : \A count \in Nat :
          pieces[from][count] = PiecesFrom(s, delim, max, pieces, from, count)
  BY <1>1, <1>4, PiecesAre
<1> DEFINE Right(from) == \A count \in Nat : ~SplitEnds(count, max) =>
                              PiecesSplit(pieces[from][count], s, delim, max, from, count)
           T == {d \in Nat : \A from \in 0..L : from + d >= L => Right(from)}
<1>6. ASSUME NEW from \in 0..L, \A to \in 0..L : to > from => Right(to)
      PROVE  Right(from)
  <2>1. ASSUME NEW count \in Nat, ~SplitEnds(count, max)
        PROVE  PiecesSplit(pieces[from][count], s, delim, max, from, count)
    <3>1. \A to \in 0..Len(s) : \A c \in Nat : to > from /\ ~SplitEnds(c, max) =>
              PiecesSplit(pieces[to][c], s, delim, max, to, c)
      BY <1>1, <1>6
    <3>2. PiecesSplit(PiecesFrom(s, delim, max, pieces, from, count), s, delim, max, from, count)
      BY <1>1, <2>1, <3>1, PiecesStep
    <3>3. QED
      BY <1>5, <3>2
  <2>2. QED
    BY <2>1
<1> HIDE DEF Right
<1>7. 0 \in T
  <2>1. \A from \in 0..L : from + 0 >= L => \A to \in 0..L : ~(to > from)
    OBVIOUS
  <2>2. QED
    BY <1>6, <2>1
<1>8. ASSUME NEW d \in T PROVE d + 1 \in T
  <2>1. d \in Nat /\ \A from \in 0..L : from + d >= L => Right(from)
    OBVIOUS
  <2>2. ASSUME NEW from \in 0..L, from + (d + 1) >= L PROVE Right(from)
    <3>1. \A to \in 0..L : to > from => to + d >= L
      BY <2>1, <2>2
    <3>2. QED
      BY <1>6, <2>1, <3>1
  <2>3. QED
    BY <2>1, <2>2
<1>9. T = Nat
  <2>1. T \in SUBSET Nat
    OBVIOUS
  <2> HIDE DEF T
  <2>2. QED
    BY <1>7, <1>8, <2>1, InductionOnNat
<1>10. Right(start)
  <2>1. L \in T /\ start \in 0..L
    BY <1>1, <1>9
  <2>2. start + L >= L
    BY <2>1
  <2>3. QED
    BY <2>1, <2>2
<1>11. CASE Len(delim) > Len(s) - start
  <2>1. \A j \in start..Len(s) : MatchesAt(s, delim, j) => j = Len(s) - Len(delim)
    BY <1>1, <1>2, <1>11 DEF MatchesAt
  <2>2. 0 \in Nat /\ (max = 0 \/ 0 < max)
    OBVIOUS
  <2>3. PiecesSplit(<<<<start, Len(s)>>>>, s, delim, max, start, 0)
    BY <2>1, <2>2, OnePiece
  <2>4. QED
    BY <1>3, <1>11, <2>3
<1>12. CASE ~(Len(delim) > Len(s) - start)
  <2>1. ~SplitEnds(0, max) /\ 0 \in Nat
    BY DEF SplitEnds
  <2>2. PiecesSplit(pieces[start][0], s, delim, max, start, 0)
    BY <1>10, <2>1 DEF Right
  <2>3. QED
    BY <1>3, <1>12, <2>2
<1>13. QED
  BY <1>11, <1>12

LEMMA SplitsAre ==
    ASSUME NEW s \in Seq(Byte), NEW delim \in Seq(Byte), delim # <<>>, NEW max \in Nat, max # 1,
           NEW start \in 0..Len(s)
    PROVE  SplitsExactly(s, start, delim, max)
<1>1. PICK p : p = Split(s, start, delim, max)
  OBVIOUS
<1>2. PiecesSplit(p, s, delim, max, start, 0)
  BY <1>1, SplitIs
<1>3. /\ p \in Seq(Pairs(s)) /\ Len(p) \in Nat /\ (p = <<>> => start = Len(s))
      /\ (max > 0 => 0 + Len(p) <= max)
  BY <1>2 DEF PiecesSplit
<1>4. (Len(p) = 0 => p = <<>>) /\ (Len(p) > 0 => p # <<>>) /\ 0 + Len(p) = Len(p)
  BY <1>3
<1>5. Len(p) = 0 => start = Len(s)
  BY <1>3, <1>4
<1>6. max > 0 => Len(p) <= max
  BY <1>3, <1>4
<1>7. Len(p) > 0 =>
          /\ p[1][1] = start /\ p[Len(p)][2] = Len(s)
          /\ \A k \in 1..(Len(p) - 1) : /\ Inside(s, delim, p[k]) = {}
                                        /\ MatchesAt(s, delim, p[k][2])
                                        /\ p[k + 1][1] = p[k][2] + Len(delim)
          /\ Len(p) = max \/ Inside(s, delim, p[Len(p)]) \subseteq {Len(s) - Len(delim)}
  BY <1>2, <1>4 DEF PiecesSplit
<1>8. QED
  BY <1>1, <1>5, <1>6, <1>7 DEF SplitsExactly, Inside

\* Whatever the two strings hold, the pieces string_split gives and the delimiters between
\* them make the text, no more pieces than its limit, and a delimiter is overlooked only at
\* the very end: the two limits of its loop, and the piece it adds after the loop.
THEOREM SplitCorrect == StringSpec => []SplitIsExact
<1>1. ASSUME StringInv PROVE SplitIsExact
  <2>1. PICK s \in Seq(Byte) : s = Text(str["s"])
    BY <1>1, InvIs, ContentsAre DEF Texted
  <2>2. PICK t \in Seq(Byte) : t = Text(str["t"])
    BY <1>1, InvIs, ContentsAre DEF Texted
  <2>3. \A start \in 0..Len(s), max \in {0, 2, 3} : t # <<>> => SplitsExactly(s, start, t, max)
    <3>1. \A max \in {0, 2, 3} : max \in Nat /\ max # 1
      OBVIOUS
    <3>2. QED
      BY <3>1, SplitsAre
  <2>4. QED
    BY <2>1, <2>2, <2>3 DEF SplitIsExact
<1>2. QED
  BY <1>1, StringAlways, PTL

-----------------------------------------------------------------------------
(* A split in two at a character.                                          *)

LEMMA CharMatches ==
    ASSUME NEW s \in Seq(Byte), NEW c \in Byte, NEW i \in Nat
    PROVE  MatchesAt(s, <<c>>, i) <=> i + 1 \in 1..Len(s) /\ s[i + 1] = c
<1>1. PICK n \in Nat : n = Len(s)
  OBVIOUS
<1>2. Len(<<c>>) = 1 /\ <<c>> \in Seq(Byte) /\ <<c>>[1] = c
  OBVIOUS
<1>3. CASE i + 1 <= n
  <2>1. /\ SubSeq(s, i + 1, i + 1) \in Seq(Byte) /\ Len(SubSeq(s, i + 1, i + 1)) = 1
        /\ SubSeq(s, i + 1, i + 1)[1] = s[i + 1]
    BY <1>1, <1>3
  <2>2. SubSeq(s, i + 1, i + 1) = <<c>> <=> s[i + 1] = c
    <3>1. s[i + 1] = c => \A k \in 1..1 : SubSeq(s, i + 1, i + 1)[k] = <<c>>[k]
      BY <1>2, <2>1
    <3>2. s[i + 1] = c => SubSeq(s, i + 1, i + 1) = <<c>>
      BY <1>2, <2>1, <3>1, SeqsAreEqual
    <3>3. QED
      BY <1>2, <2>1, <3>2
  <2>3. QED
    BY <1>1, <1>2, <1>3, <2>2 DEF MatchesAt
<1>4. CASE ~(i + 1 <= n)
  BY <1>1, <1>2, <1>4 DEF MatchesAt
<1>5. QED
  BY <1>3, <1>4

\* The pieces of a split in two, and what the place of the split is.
LEMMA SplitInTwo ==
    ASSUME NEW s \in Seq(Byte), NEW c \in Byte, NEW start \in 0..Len(s), NEW delim, delim = <<c>>,
           NEW i, i = NextDelimiter(s, delim, start)
    PROVE  /\ i = NotFound =>
                 /\ Split(s, start, delim, 2) = <<<<start, Len(s)>>>>
                 /\ \A j \in (start + 1)..Len(s) : s[j] = c => j = Len(s)
           /\ i # NotFound =>
                 /\ Split(s, start, delim, 2) = <<<<start, i>>, <<i + 1, Len(s)>>>>
                 /\ i \in start..Len(s) /\ i + 1 < Len(s) /\ s[i + 1] = c
                 /\ \A j \in (start + 1)..i : s[j] # c
<1>1. PICK n \in Nat : n = Len(s)
  OBVIOUS
<1>2. delim \in Seq(Byte) /\ Len(delim) = 1 /\ delim # <<>>
  OBVIOUS
<1>3. /\ i = NotFound => \A j \in start..n : MatchesAt(s, delim, j) => j = n - 1
      /\ i # NotFound => /\ i \in start..n /\ i + 1 < n /\ MatchesAt(s, delim, i)
                         /\ \A j \in start..(i - 1) : ~MatchesAt(s, delim, j)
  <2>1. PICK m \in Nat : m = Len(delim) /\ m = 1
    BY <1>2
  <2>2. /\ i = NotFound => \A j \in start..Len(s) : MatchesAt(s, delim, j) => j = Len(s) - Len(delim)
        /\ i # NotFound =>
              /\ i \in start..Len(s) /\ i + Len(delim) < Len(s) /\ MatchesAt(s, delim, i)
              /\ \A j \in start..(i - 1) : ~MatchesAt(s, delim, j)
    BY <1>2, NextDelimiterIs
  <2>3. QED
    BY <1>1, <2>1, <2>2
<1>4. \A j \in Nat : MatchesAt(s, delim, j) <=> j + 1 \in 1..n /\ s[j + 1] = c
  BY <1>1, CharMatches
<1>5. i = NotFound => \A j \in (start + 1)..n : s[j] = c => j = n
  <2>1. ASSUME i = NotFound, NEW j \in (start + 1)..n, s[j] = c PROVE j = n
    <3>1. PICK k \in start..n : k = j - 1 /\ k + 1 = j /\ k \in Nat
      OBVIOUS
    <3>2. MatchesAt(s, delim, k)
      BY <1>4, <2>1, <3>1
    <3>3. k = n - 1
      BY <1>3, <2>1, <3>2
    <3>4. QED
      BY <3>1, <3>3
  <2>2. QED
    BY <2>1
<1>6. i # NotFound => s[i + 1] = c /\ \A j \in (start + 1)..i : s[j] # c
  <2>1. ASSUME i # NotFound PROVE s[i + 1] = c
    BY <1>3, <1>4, <2>1
  <2>2. ASSUME i # NotFound, NEW j \in (start + 1)..i PROVE s[j] # c
    <3>1. i \in start..n
      BY <1>3, <2>2
    <3>2. PICK k \in start..(i - 1) : k = j - 1 /\ k + 1 = j /\ k \in Nat /\ j \in 1..n
      BY <3>1
    <3>3. ~MatchesAt(s, delim, k)
      BY <1>3, <2>2
    <3>4. QED
      BY <1>4, <3>2, <3>3
  <2>3. QED
    BY <2>1, <2>2
<1> DEFINE pieces == CHOOSE f : ArePieces(f, s, delim, 2)
<1>7. Split(s, start, delim, 2) = IF Len(delim) > Len(s) - start
                                  THEN <<<<start, Len(s)>>>> ELSE pieces[start][0]
  BY DEF Split, ArePieces
<1>8. ArePieces(pieces, s, delim, 2)
  <2>1. \E f : ArePieces(f, s, delim, 2)
    BY <1>2, PiecesExist
  <2>2. QED
    BY <2>1, Zenon
<1> HIDE DEF pieces
<1>9. pieces[start][0] = PiecesFrom(s, delim, 2, pieces, start, 0)
  BY <1>8, PiecesAre
<1>10. CASE i = NotFound
  <2>1. CASE start = n
    <3>1. Len(delim) > Len(s) - start
      BY <1>1, <1>2, <2>1
    <3>2. QED
      BY <1>1, <1>5, <1>7, <1>10, <3>1
  <2>2. CASE start # n
    <3>1. ~(Len(delim) > Len(s) - start) /\ ~(start >= Len(s))
      BY <1>1, <1>2, <2>2
    <3>2. PiecesFrom(s, delim, 2, pieces, start, 0) = LastPiece(s, start, 0, 2)
      BY <1>10 DEF PiecesFrom
    <3>3. LastPiece(s, start, 0, 2) = <<<<start, Len(s)>>>>
      BY <3>1 DEF LastPiece
    <3>4. QED
      BY <1>1, <1>5, <1>7, <1>9, <1>10, <3>1, <3>2, <3>3
  <2>3. QED
    BY <2>1, <2>2
<1>11. CASE i # NotFound
  <2>1. i \in start..n /\ i + 1 < n
    BY <1>3, <1>11
  <2>2. ~(Len(delim) > Len(s) - start) /\ ~(i + Len(delim) >= Len(s))
    BY <1>1, <1>2, <2>1
  <2>3. SplitEnds(0 + 1, 2) /\ 0 + 1 = 1
    BY DEF SplitEnds
  <2>4. PiecesFrom(s, delim, 2, pieces, start, 0) =
            <<<<start, i>>>> \o LastPiece(s, i + Len(delim), 1, 2)
    BY <1>11, <2>3 DEF PiecesFrom
  <2>5. LastPiece(s, i + Len(delim), 1, 2) = <<<<i + 1, Len(s)>>>>
    <3>1. i + Len(delim) = i + 1 /\ ~(i + 1 >= Len(s))
      BY <1>1, <1>2, <2>1
    <3>2. LastPiece(s, i + 1, 1, 2) = <<<<i + 1, Len(s)>>>>
      BY <3>1 DEF LastPiece
    <3>3. QED
      BY <3>1, <3>2, Zenon
  <2>6. <<<<start, i>>>> \o <<<<i + 1, Len(s)>>>> = <<<<start, i>>, <<i + 1, Len(s)>>>>
    BY TwoOnes
  <2>7. QED
    BY <1>1, <1>3, <1>6, <1>7, <1>9, <1>11, <2>1, <2>2, <2>4, <2>5, <2>6
<1>12. QED
  BY <1>10, <1>11

-----------------------------------------------------------------------------
(* The values of a header line.                                            *)

\* The values from start on, as one step of the recursion has them.
OneStep(f, rest, start) ==
    LET pieces == Split(rest, start, Comma, 2)
    IN  <<Piece(rest, pieces[1])>> \o (IF Len(pieces) = 2 THEN f[pieces[2][1]] ELSE <<>>)

\* f has the values of rest from every place on.
AreValues(f, rest) ==
    f = [start \in 0..Len(rest) |->
            LET pieces == Split(rest, start, Comma, 2)
            IN  <<Piece(rest, pieces[1])>>
                    \o (IF Len(pieces) = 2 THEN f[pieces[2][1]] ELSE <<>>)]

\* The value at start.
ValueAt(rest, start) == LET i == NextDelimiter(rest, Comma, start)
                        IN  IF i = NotFound THEN Cut(rest, start, Len(rest))
                            ELSE Cut(rest, start, i)

LEMMA ValuesStep ==
    ASSUME NEW rest \in Seq(Char), NEW start \in 0..Len(rest), NEW f,
           NEW i, i = NextDelimiter(rest, Comma, start)
    PROVE  OneStep(f, rest, start)
               = <<ValueAt(rest, start)>> \o (IF i # NotFound THEN f[i + 1] ELSE <<>>)
<1>1. PICK c \in Byte : rest \in Seq(Byte) /\ c = 44 /\ Comma = <<c>>
  <2>1. rest \in Seq(Byte) /\ 44 \in Byte
    BY CharsAreBytes DEF Byte
  <2>2. QED
    BY <2>1 DEF Comma
<1>2. PICK pieces : pieces = Split(rest, start, Comma, 2)
  OBVIOUS
<1>3. /\ i = NotFound => pieces = <<<<start, Len(rest)>>>>
      /\ i # NotFound => pieces = <<<<start, i>>, <<i + 1, Len(rest)>>>>
  BY <1>1, <1>2, SplitInTwo
<1>4. /\ Piece(rest, pieces[1]) = ValueAt(rest, start)
      /\ (IF Len(pieces) = 2 THEN f[pieces[2][1]] ELSE <<>>)
             = (IF i # NotFound THEN f[i + 1] ELSE <<>>)
  <2>1. CASE i = NotFound
    <3>1. Len(pieces) = 1 /\ pieces[1] = <<start, Len(rest)>>
      BY <1>3, <2>1
    <3>2. Piece(rest, pieces[1]) = ValueAt(rest, start)
      BY <2>1, <3>1, SMTT(40) DEF Piece, ValueAt, Cut
    <3>3. QED
      BY <2>1, <3>1, <3>2
  <2>2. CASE i # NotFound
    <3>1. /\ Len(pieces) = 2 /\ pieces[1] = <<start, i>> /\ pieces[2] = <<i + 1, Len(rest)>>
          /\ pieces[2][1] = i + 1
      BY <1>3, <2>2
    <3>2. pieces[1][1] = start /\ pieces[1][2] = i
      BY <3>1
    <3>3. Piece(rest, pieces[1]) = Cut(rest, start, i)
      BY <3>2 DEF Piece, Cut
    <3>4. ValueAt(rest, start) = Cut(rest, start, i)
      BY <2>2 DEF ValueAt
    <3>5. QED
      BY <2>2, <3>1, <3>3, <3>4
  <2>3. QED
    BY <2>1, <2>2
<1>5. <<Piece(rest, pieces[1])>> \o (IF Len(pieces) = 2 THEN f[pieces[2][1]] ELSE <<>>)
          = <<ValueAt(rest, start)>> \o (IF i # NotFound THEN f[i + 1] ELSE <<>>)
  BY <1>4, Zenon
<1>6. OneStep(f, rest, start)
          = <<Piece(rest, pieces[1])>> \o (IF Len(pieces) = 2 THEN f[pieces[2][1]] ELSE <<>>)
  BY <1>2, Zenon DEF OneStep
<1>7. QED
  BY <1>5, <1>6, Zenon

\* The next comma, and the value before it.
LEMMA NextIs ==
    ASSUME NEW rest \in Seq(Char), NEW start \in 0..Len(rest),
           NEW i, i = NextDelimiter(rest, Comma, start)
    PROVE  /\ ValueAt(rest, start) \in Seq(Char)
           /\ i = NotFound => \A j \in (start + 1)..Len(rest) : rest[j] = 44 => j = Len(rest)
           /\ i # NotFound => /\ i \in start..Len(rest) /\ i + 1 < Len(rest) /\ rest[i + 1] = 44
                              /\ \A j \in (start + 1)..i : rest[j] # 44
<1>1. rest \in Seq(Byte) /\ 44 \in Byte /\ Comma = <<44>>
  BY CharsAreBytes DEF Comma, Byte
<1>2. /\ i = NotFound => \A j \in (start + 1)..Len(rest) : rest[j] = 44 => j = Len(rest)
      /\ i # NotFound => /\ i \in start..Len(rest) /\ i + 1 < Len(rest) /\ rest[i + 1] = 44
                         /\ \A j \in (start + 1)..i : rest[j] # 44
  BY <1>1, SplitInTwo
<1>3. ValueAt(rest, start) \in Seq(Char)
  BY <1>2 DEF ValueAt, Cut
<1>4. QED
  BY <1>2, <1>3

LEMMA ValuesUnfold ==
    ASSUME NEW f, NEW rest, AreValues(f, rest), NEW start \in 0..Len(rest)
    PROVE  f[start] = OneStep(f, rest, start)
  BY Zenon DEF AreValues, OneStep

LEMMA ValuesFollow ==
    ASSUME NEW rest \in Seq(Char), NEW f, AreValues(f, rest), NEW start \in 0..Len(rest),
           NEW i, i = NextDelimiter(rest, Comma, start)
    PROVE  f[start] = <<ValueAt(rest, start)>> \o (IF i # NotFound THEN f[i + 1] ELSE <<>>)
<1>1. OneStep(f, rest, start)
          = <<ValueAt(rest, start)>> \o (IF i # NotFound THEN f[i + 1] ELSE <<>>)
  BY ValuesStep, SMTT(40)
<1>2. f[start] = OneStep(f, rest, start)
  BY ValuesUnfold
<1>3. QED
  BY <1>1, <1>2

LEMMA ValuesExist ==
    ASSUME NEW rest \in Seq(Char)
    PROVE  \E f : AreValues(f, rest)
<1>1. PICK n \in Nat : n = Len(rest)
  OBVIOUS
<1>2. PICK A : A = Seq(Seq(Char))
  OBVIOUS
<1>3. PICK at : at = [start \in 0..n |-> NextDelimiter(rest, Comma, start)]
  OBVIOUS
<1>4. PICK next : next = [start \in 0..n |-> IF at[start] = NotFound THEN 0 ELSE at[start] + 1]
  OBVIOUS
<1>5. PICK step : step = [start \in 0..n |-> [x \in A |-> <<ValueAt(rest, start)>> \o x]]
  OBVIOUS
<1>6. PICK last : last = [start \in 0..n |-> <<ValueAt(rest, start)>>]
  OBVIOUS
<1>7. ASSUME NEW start \in 0..n
      PROVE  /\ ValueAt(rest, start) \in Seq(Char)
             /\ at[start] = NotFound => next[start] = 0
             /\ at[start] # NotFound => next[start] = at[start] + 1 /\ next[start] \in (start + 1)..n
  <2>1. PICK i : i = NextDelimiter(rest, Comma, start) /\ i = at[start]
    BY <1>3
  <2>2. i # NotFound => i \in start..n /\ i + 1 < n
    BY <1>1, <2>1, NextIs
  <2>3. ValueAt(rest, start) \in Seq(Char)
    BY <1>1, NextIs
  <2>4. QED
    BY <1>4, <2>1, <2>2, <2>3
<1>8. next \in [0..n -> Nat]
  <2>1. \A start \in 0..n : next[start] \in Nat
    BY <1>7
  <2>2. QED
    BY <1>4, <2>1
<1>9. step \in [0..n -> [A -> A]] /\ last \in [0..n -> A]
  <2>1. ASSUME NEW start \in 0..n, NEW x \in A
        PROVE  <<ValueAt(rest, start)>> \o x \in A /\ <<ValueAt(rest, start)>> \in A
    BY <1>2, <1>7
  <2>2. step \in [0..n -> [A -> A]]
    BY <1>5, <2>1
  <2>3. \A start \in 0..n : <<ValueAt(rest, start)>> \in A
    BY <1>2, <1>7
  <2>4. last \in [0..n -> A]
    BY <1>6, <2>3
  <2>5. QED
    BY <2>2, <2>4
<1>10. PICK f : GoesDown(f, n, A, next, step, last)
  BY <1>8, <1>9, RecursionDown
<1>11. f \in [0..n -> A]
  BY <1>10 DEF GoesDown
<1>12. ASSUME NEW start \in 0..n
       PROVE  f[start] = OneStep(f, rest, start)
  <2>1. PICK i : i = NextDelimiter(rest, Comma, start) /\ i = at[start]
    BY <1>3
  <2>2. f[start] = IF next[start] \in (start + 1)..n THEN step[start][f[next[start]]]
                   ELSE last[start]
    BY <1>10 DEF GoesDown
  <2>3. f[start] = <<ValueAt(rest, start)>> \o (IF i # NotFound THEN f[i + 1] ELSE <<>>)
    <3>1. CASE i = NotFound
      <4>1. next[start] \notin (start + 1)..n
        <5>1. next[start] = 0
          BY <1>7, <2>1, <3>1
        <5>2. QED
          BY <1>1, <5>1
      <4>2. <<ValueAt(rest, start)>> \o <<>> = <<ValueAt(rest, start)>>
        BY <1>7
      <4>3. QED
        BY <1>6, <2>2, <3>1, <4>1, <4>2
    <3>2. CASE i # NotFound
      <4>1. next[start] = i + 1 /\ next[start] \in (start + 1)..n /\ next[start] \in 0..n
        BY <1>7, <2>1, <3>2
      <4>2. f[i + 1] \in A
        BY <1>11, <4>1
      <4>3. QED
        BY <1>5, <2>2, <3>2, <4>1, <4>2
    <3>3. QED
      BY <3>1, <3>2
  <2>4. QED
    BY <1>1, <2>1, <2>3, ValuesStep
<1>13. AreValues(f, rest)
  BY <1>1, <1>11, <1>12 DEF AreValues, OneStep
<1>14. QED
  BY <1>13

\* The values after the first, each with its comma before it.
WithCommas(w) == FlattenSeq([k \in DOMAIN w |-> Comma \o w[k]])

LEMMA WithCommasIs ==
    ASSUME NEW a \in Seq(Char), NEW w \in Seq(Seq(Char))
    PROVE  /\ WithCommas(w) \in Seq(Char)
           /\ WithCommas(<<a>> \o w) = (Comma \o a) \o WithCommas(w)
<1>1. PICK n \in Nat : n = Len(w) /\ DOMAIN w = 1..n /\ \A k \in 1..n : w[k] \in Seq(Char)
  BY SeqIsFunction
<1>2. Comma \in Seq(Char)
  BY DEF Comma, Char
<1>3. PICK seqs : seqs = [k \in 1..n |-> Comma \o w[k]]
  OBVIOUS
<1>4. seqs \in [1..n -> Seq(Char)]
  BY <1>1, <1>2, <1>3
<1>5. seqs \in Seq(Seq(Char)) /\ Len(seqs) = n
  BY <1>4, FunctionIsSeq
<1>6. PICK x \in Seq(Char) : x = Comma \o a
  <2>1. Comma \o a \in Seq(Char)
    BY <1>2
  <2>2. QED
    BY <2>1
<1>7. FlattenSeq(<<x>> \o seqs) = x \o FlattenSeq(seqs) /\ FlattenSeq(seqs) \in Seq(Char)
  BY <1>5, FlattenCons, FlattenType
<1>8. PICK v \in Seq(Seq(Char)) : /\ v = <<a>> \o w /\ Len(v) = 1 + n /\ v[1] = a
                                  /\ \A k \in 1..n : v[1 + k] = w[k]
  <2>1. /\ <<a>> \o w \in Seq(Seq(Char)) /\ Len(<<a>> \o w) = 1 + n /\ (<<a>> \o w)[1] = a
        /\ \A k \in 1..n : (<<a>> \o w)[1 + k] = w[k]
    BY <1>1, ConsIs
  <2>2. QED
    BY <2>1
<1>9. PICK all \in Seq(Seq(Char)) : /\ all = <<x>> \o seqs /\ Len(all) = 1 + n /\ all[1] = x
                                    /\ \A k \in 1..n : all[1 + k] = seqs[k]
  <2>1. /\ <<x>> \o seqs \in Seq(Seq(Char)) /\ Len(<<x>> \o seqs) = 1 + n /\ (<<x>> \o seqs)[1] = x
        /\ \A k \in 1..n : (<<x>> \o seqs)[1 + k] = seqs[k]
    BY <1>5, ConsIs
  <2>2. QED
    BY <2>1
<1>10. PICK more : more = [k \in 1..(1 + n) |-> Comma \o v[k]]
  OBVIOUS
<1>11. more \in Seq(Seq(Char)) /\ Len(more) = 1 + n
  <2>1. \A k \in 1..(1 + n) : v[k] \in Seq(Char)
    BY <1>8, SeqIsFunction
  <2>2. more \in [1..(1 + n) -> Seq(Char)]
    BY <1>2, <1>10, <2>1
  <2>3. QED
    BY <2>2, FunctionIsSeq
<1>12. ASSUME NEW i \in 1..(1 + n) PROVE more[i] = all[i]
  <2>1. CASE i = 1
    BY <1>6, <1>8, <1>9, <1>10, <2>1
  <2>2. CASE i # 1
    <3>1. PICK k \in 1..n : i = 1 + k
      <4>1. i - 1 \in 1..n /\ i = 1 + (i - 1)
        BY <2>2
      <4>2. QED
        BY <4>1
    <3>2. QED
      BY <1>3, <1>8, <1>9, <1>10, <3>1
  <2>3. QED
    BY <2>1, <2>2
<1>13. more = all
  BY <1>9, <1>11, <1>12, SeqsAreEqual
<1>14. WithCommas(v) = FlattenSeq(more)
  <2>1. DOMAIN v = 1..(1 + n)
    BY <1>8
  <2>2. QED
    BY <1>10, <2>1 DEF WithCommas
<1>15. WithCommas(w) = FlattenSeq(seqs)
  BY <1>1, <1>3 DEF WithCommas
<1>16. QED
  BY <1>6, <1>7, <1>8, <1>9, <1>13, <1>14, <1>15

LEMMA WithCommasEmpty == WithCommas(<<>>) = <<>>
<1>1. [k \in DOMAIN <<>> |-> Comma \o <<>>[k]] = <<>>
  OBVIOUS
<1>2. QED
  BY <1>1, FlattenEmpty DEF WithCommas

\* No value has a comma, but for the last, at its end.
CommasEnd(v) == \A k \in 1..Len(v) : \A j \in 1..Len(v[k]) :
                    v[k][j] = 44 => k = Len(v) /\ j = Len(v[k])

\* v is the values of rest from start on.
ValuesOf(v, rest, start) ==
    \E a \in Seq(Char), w \in Seq(Seq(Char)) :
        /\ v = <<a>> \o w
        /\ a \o WithCommas(w) = Cut(rest, start, Len(rest))
        /\ CommasEnd(v)

LEMMA LastValue ==
    ASSUME NEW rest \in Seq(Char), NEW start \in 0..Len(rest),
           NextDelimiter(rest, Comma, start) = NotFound
    PROVE  ValuesOf(<<ValueAt(rest, start)>>, rest, start)
<1>1. PICK n \in Nat : n = Len(rest)
  OBVIOUS
<1>2. PICK a : a = Cut(rest, start, n)
  OBVIOUS
<1>3. PICK m \in Nat : n = start + m
  <2>1. n - start \in Nat /\ n = start + (n - start)
    BY <1>1
  <2>2. QED
    BY <2>1
<1>4. a \in Seq(Char) /\ Len(a) = m /\ \A j \in 1..m : a[j] = rest[start + j]
  <2>1. start \in Nat /\ start <= n /\ n <= Len(rest) /\ m = n - start
    BY <1>1, <1>3
  <2>2. /\ Cut(rest, start, n) \in Seq(Char) /\ Len(Cut(rest, start, n)) = n - start
        /\ \A j \in 1..(n - start) : Cut(rest, start, n)[j] = rest[start + j]
    BY <2>1, CutIs
  <2>3. QED
    BY <1>2, <2>1, <2>2
<1>5. ValueAt(rest, start) = a
  BY <1>1, <1>2 DEF ValueAt
<1>6. PICK v : v = <<a>> /\ Len(v) = 1 /\ v[1] = a
  <2>1. Len(<<a>>) = 1 /\ <<a>>[1] = a
    OBVIOUS
  <2>2. QED
    BY <2>1
<1>7. ASSUME NEW j \in 1..m, a[j] = 44 PROVE j = m
  <2>1. PICK k \in (start + 1)..n : k = start + j
    BY <1>3
  <2>2. k = n
    BY <1>1, <1>4, <1>7, <2>1, NextIs
  <2>3. QED
    BY <1>3, <2>1, <2>2
<1>8. CommasEnd(v)
  BY <1>4, <1>6, <1>7 DEF CommasEnd
<1>9. a \o WithCommas(<<>>) = a
  BY <1>4, WithCommasEmpty
<1>10. v = <<a>> \o <<>> /\ <<>> \in Seq(Seq(Char))
  BY <1>6
<1>11. QED
  BY <1>1, <1>2, <1>4, <1>5, <1>6, <1>8, <1>9, <1>10 DEF ValuesOf

LEMMA OneMoreValue ==
    ASSUME NEW rest \in Seq(Char), NEW start \in 0..Len(rest),
           NEW i, i = NextDelimiter(rest, Comma, start), i # NotFound,
           NEW us, ValuesOf(us, rest, i + 1)
    PROVE  ValuesOf(<<ValueAt(rest, start)>> \o us, rest, start)
<1>1. PICK n \in Nat : n = Len(rest)
  OBVIOUS
<1>2. /\ i \in start..n /\ i + 1 < n /\ rest[i + 1] = 44 /\ \A j \in (start + 1)..i : rest[j] # 44
  BY <1>1, NextIs
<1>3. PICK m \in Nat : i = start + m
  <2>1. i - start \in Nat /\ i = start + (i - start)
    BY <1>2
  <2>2. QED
    BY <2>1
<1>4. PICK from \in Nat, to \in Nat :
          /\ from = start /\ to = i /\ from <= to /\ to <= n /\ to = from + m /\ to + 1 <= n
  BY <1>1, <1>2, <1>3
<1>20. PICK a : a = Cut(rest, from, to)
  OBVIOUS
<1>5. a \in Seq(Char) /\ Len(a) = m /\ \A j \in 1..m : a[j] = rest[start + j]
  <2>1. from <= to /\ to <= Len(rest)
    BY <1>1, <1>4
  <2>4. m = to - from
    BY <1>4
  <2>2. /\ Cut(rest, from, to) \in Seq(Char) /\ Len(Cut(rest, from, to)) = to - from
        /\ \A j \in 1..(to - from) : Cut(rest, from, to)[j] = rest[from + j]
    BY <2>1, CutIs
  <2>3. QED
    BY <1>4, <1>20, <2>4, <2>2
<1>6. ValueAt(rest, start) = a
  BY <1>4, <1>20 DEF ValueAt
<1>7. PICK b \in Seq(Char), w \in Seq(Seq(Char)) :
          /\ us = <<b>> \o w /\ b \o WithCommas(w) = Cut(rest, i + 1, n) /\ CommasEnd(us)
  BY <1>1 DEF ValuesOf
<1>8. PICK l \in Nat : l = Len(w)
  OBVIOUS
<1>9. us \in Seq(Seq(Char)) /\ Len(us) = 1 + l
  BY <1>7, <1>8, ConsIs
<1>10. PICK v : /\ v = <<a>> \o us /\ v \in Seq(Seq(Char)) /\ Len(v) = 1 + (1 + l) /\ v[1] = a
                /\ \A k \in 1..(1 + l) : v[1 + k] = us[k]
  <2>1. /\ <<a>> \o us \in Seq(Seq(Char)) /\ Len(<<a>> \o us) = 1 + (1 + l) /\ (<<a>> \o us)[1] = a
        /\ \A k \in 1..(1 + l) : (<<a>> \o us)[1 + k] = us[k]
    BY <1>5, <1>9, ConsIs
  <2>2. QED
    BY <2>1
<1>11. a \o WithCommas(us) = Cut(rest, start, n)
  <2>1. PICK next \in Nat : next = to + 1 /\ to <= next /\ next <= n
    BY <1>4
  <2>20. n <= Len(rest) /\ to < Len(rest) /\ next <= Len(rest) /\ from <= n /\ to <= n
    BY <1>1, <1>4, <2>1
  <2>2. PICK c \in Seq(Char) : c = Comma /\ c = Cut(rest, to, next)
    <3>1. Cut(rest, to, to + 1) = <<rest[to + 1]>>
      BY <2>20, CutOne
    <3>2. Comma \in Seq(Char) /\ Comma = <<44>> /\ rest[to + 1] = 44
      BY <1>2, <1>4 DEF Comma, Char
    <3>3. QED
      BY <2>1, <3>1, <3>2
  <2>3. PICK t \in Seq(Char) : t = WithCommas(w)
    <3>1. WithCommas(w) \in Seq(Char)
      BY <1>7, WithCommasIs
    <3>2. QED
      BY <3>1
  <2>4. WithCommas(us) = (c \o b) \o t
    BY <1>7, <2>2, <2>3, WithCommasIs
  <2>5. (c \o b) \o t = c \o (b \o t)
    BY ConcatAssoc, SMTT(40)
  <2>6. b \o t = Cut(rest, next, n)
    BY <1>4, <1>7, <2>1, <2>3
  <2>7. c \o Cut(rest, next, n) = Cut(rest, to, n)
    <3>1. Cut(rest, to, next) \o Cut(rest, next, n) = Cut(rest, to, n)
      BY <2>1, <2>20, CutsJoin, ZenonT(40)
    <3>2. QED
      BY <2>2, <3>1
  <2>8. Cut(rest, from, to) \o Cut(rest, to, n) = Cut(rest, from, n)
    <3>1. from <= to /\ to <= n /\ n <= Len(rest)
      BY <1>4, <2>20
    <3>2. QED
      BY <3>1, CutsJoin, ZenonT(40)
  <2>9. QED
    BY <1>4, <1>20, <2>4, <2>5, <2>6, <2>7, <2>8
<1>12. CommasEnd(v)
  <2>1. ASSUME NEW j \in 1..Len(a) PROVE a[j] # 44
    <3>1. start + j \in (start + 1)..i /\ j \in 1..m
      BY <1>3, <1>5
    <3>2. QED
      BY <1>2, <1>5, <3>1
  <2>2. ASSUME NEW k \in 1..(2 + l), k # 1, NEW j \in 1..Len(v[k]), v[k][j] = 44
        PROVE  k = 2 + l /\ j = Len(v[k])
    <3>1. PICK h \in 1..(1 + l) : k = 1 + h
      <4>1. k - 1 \in 1..(1 + l) /\ k = 1 + (k - 1)
        BY <2>2
      <4>2. QED
        BY <4>1
    <3>2. v[k] = us[h]
      BY <1>10, <3>1
    <3>5. j \in 1..Len(us[h]) /\ us[h][j] = 44
      BY <2>2, <3>2
    <3>6. \A x \in 1..(1 + l) : \A y \in 1..Len(us[x]) :
              us[x][y] = 44 => x = 1 + l /\ y = Len(us[x])
      BY <1>7, <1>9 DEF CommasEnd
    <3>3. h = 1 + l /\ j = Len(us[h])
      BY <3>5, <3>6
    <3>4. QED
      BY <3>1, <3>2, <3>3
  <2>3. Len(v) = 2 + l
    BY <1>10
  <2>4. QED
    BY <1>10, <2>1, <2>2, <2>3 DEF CommasEnd
<1>13. QED
  BY <1>1, <1>5, <1>6, <1>9, <1>10, <1>11, <1>12 DEF ValuesOf

LEMMA ValuesAre ==
    ASSUME NEW rest \in Seq(Char)
    PROVE  ValuesOf(ValuesFrom(rest), rest, 0)
<1>1. PICK n \in Nat : n = Len(rest)
  OBVIOUS
<1>2. PICK f : f = CHOOSE g : AreValues(g, rest)
  OBVIOUS
<1>3. AreValues(f, rest)
  BY <1>2, ValuesExist
<1>4. ValuesFrom(rest) = f[0]
  BY <1>2 DEF ValuesFrom, AreValues
<1>5. ASSUME NEW start \in 0..n, NEW i, i = NextDelimiter(rest, Comma, start)
      PROVE  f[start] = <<ValueAt(rest, start)>> \o (IF i # NotFound THEN f[i + 1] ELSE <<>>)
  <2>1. start \in 0..Len(rest)
    BY <1>1
  <2>2. QED
    BY <1>3, <1>5, <2>1, ValuesFollow
<1> DEFINE T == {start \in 0..n : ValuesOf(f[start], rest, start)}
<1>6. ASSUME NEW start \in 0..n, \A j \in (start + 1)..n : j \in T PROVE start \in T
  <2>1. PICK i : i = NextDelimiter(rest, Comma, start)
    OBVIOUS
  <2>2. PICK a \in Seq(Char) : a = ValueAt(rest, start)
    BY <1>1, NextIs
  <2>3. CASE i = NotFound
    <3>1. f[start] = <<a>>
      <4>1. <<a>> \o <<>> = <<a>>
        OBVIOUS
      <4>2. QED
        BY <1>5, <2>1, <2>2, <2>3, <4>1
    <3>2. ValuesOf(<<a>>, rest, start)
      BY <1>1, <2>1, <2>2, <2>3, LastValue
    <3>3. QED
      BY <3>1, <3>2
  <2>4. CASE i # NotFound
    <3>1. i + 1 \in (start + 1)..n
      <4>1. i \in start..n /\ i + 1 < n
        BY <1>1, <2>1, <2>4, NextIs
      <4>2. QED
        BY <4>1
    <3>2. ValuesOf(f[i + 1], rest, i + 1)
      BY <1>6, <3>1
    <3>3. f[start] = <<a>> \o f[i + 1]
      BY <1>5, <2>1, <2>2, <2>4
    <3>4. ValuesOf(<<a>> \o f[i + 1], rest, start)
      BY <1>1, <2>1, <2>2, <2>4, <3>2, OneMoreValue
    <3>5. QED
      BY <3>3, <3>4
  <2>5. QED
    BY <2>3, <2>4
<1>7. \A start \in 0..n : start \in T
  <2> HIDE DEF T
  <2>1. QED
    BY <1>6, InductionDown
<1>8. 0 \in 0..n
  OBVIOUS
<1>9. QED
  BY <1>4, <1>7, <1>8

-----------------------------------------------------------------------------
(* The header line.                                                        *)

LEMMA TrimmedStartType ==
    ASSUME NEW t \in Seq(Char), NEW set
    PROVE  TrimmedStart(t, set) \in Seq(Char)
<1>1. PICK n \in Nat : n = Len(t) /\ t \in Seq(Byte)
  BY CharsAreBytes
<1>2. PICK i : i = IndexNotOfAny(t, set, 0)
  OBVIOUS
<1>3. CASE i = NotFound
  BY <1>2, <1>3 DEF TrimmedStart
<1>4. CASE i # NotFound
  <2>1. Kept(t, set) # {}
    BY <1>1, <1>2, <1>4, TrimSearches
  <2>2. PICK a \in 1..n : i = a - 1
    <3>1. \E a, z \in Kept(t, set) : IndexNotOfAny(t, set, 0) = a - 1
      BY <1>1, <2>1, TrimSearches
    <3>2. Kept(t, set) \subseteq 1..n
      BY <1>1 DEF Kept
    <3>3. QED
      BY <1>2, <3>1, <3>2
  <2>3. TrimmedStart(t, set) = SubSeq(t, i + 1, n)
    BY <1>1, <1>2, <1>4 DEF TrimmedStart
  <2>4. i + 1 = a /\ SubSeq(t, a, n) \in Seq(Char)
    BY <1>1, <2>2
  <2>5. QED
    BY <2>3, <2>4
<1>5. QED
  BY <1>3, <1>4

LEMMA HeadAndTail ==
    ASSUME NEW S, NEW a \in S, NEW w \in Seq(S)
    PROVE  Head(<<a>> \o w) = a /\ Tail(<<a>> \o w) = w
<1>1. PICK n \in Nat : n = Len(w)
  OBVIOUS
<1>2. PICK v \in Seq(S) : /\ v = <<a>> \o w /\ Len(v) = 1 + n /\ v[1] = a
                          /\ \A k \in 1..n : v[1 + k] = w[k]
  <2>1. /\ <<a>> \o w \in Seq(S) /\ Len(<<a>> \o w) = 1 + n /\ (<<a>> \o w)[1] = a
        /\ \A k \in 1..n : (<<a>> \o w)[1 + k] = w[k]
    BY <1>1, ConsIs
  <2>2. QED
    BY <2>1
<1>3. Head(v) = a
  BY <1>2
<1>4. PICK us \in Seq(S) : us = Tail(v) /\ Len(us) = n /\ \A k \in 1..n : us[k] = v[k + 1]
  <2>1. v # <<>>
    BY <1>2
  <2>2. Tail(v) \in Seq(S) /\ Len(Tail(v)) = n /\ \A k \in 1..n : Tail(v)[k] = v[k + 1]
    BY <1>2, <2>1
  <2>3. QED
    BY <2>2
<1>5. \A k \in 1..n : us[k] = w[k]
  BY <1>2, <1>4
<1>6. us = w
  BY <1>1, <1>4, <1>5, SeqsAreEqual
<1>7. QED
  BY <1>2, <1>3, <1>4, <1>6

\* The values give the text they are split from, and have no comma but at its end.
LEMMA ValuesJoin ==
    ASSUME NEW rest \in Seq(Char), NEW v, v = ValuesFrom(rest)
    PROVE  /\ Head(v) \o WithCommas(Tail(v)) = rest
           /\ CommasEnd(v) /\ v \in Seq(Seq(Char))
<1>1. PICK a \in Seq(Char), w \in Seq(Seq(Char)) :
          v = <<a>> \o w /\ a \o WithCommas(w) = Cut(rest, 0, Len(rest)) /\ CommasEnd(v)
  <2>1. ValuesOf(v, rest, 0)
    BY ValuesAre
  <2>2. QED
    BY <2>1 DEF ValuesOf
<1>2. Head(v) = a /\ Tail(v) = w
  BY <1>1, HeadAndTail
<1>3. Cut(rest, 0, Len(rest)) = rest
  BY CutWhole
<1>4. v \in Seq(Seq(Char))
  BY <1>1
<1>5. QED
  BY <1>1, <1>2, <1>3, <1>4

LEMMA HeaderParses ==
    ASSUME NEW t \in Seq(Char), NEW colon, colon = FirstOf({k \in DOMAIN t : t[k] = 58}),
           NEW p, p = ParseHeaderLine(t)
    PROVE  /\ p.kind = "header"
           /\ colon \notin 1..(Len(t) - 1) => p.ok = FALSE
           /\ colon \in 1..(Len(t) - 1) =>
                 /\ p.ok = TRUE
                 /\ p.name = SubSeq(t, 1, colon - 1)
                 /\ p.values = ValuesFrom(TrimmedStart(SubSeq(t, colon + 1, Len(t)), Blanks))
<1>1. PICK n \in Nat : n = Len(t) /\ DOMAIN t = 1..n /\ t \in Seq(Byte)
  BY CharsAreBytes
<1>2. PICK i : i = NextDelimiter(t, Separator, 0)
  OBVIOUS
<1>3. PICK pieces : pieces = Split(t, 0, Separator, 2)
  OBVIOUS
<1>4. PICK S \in SUBSET Nat : /\ \A k : k \in S <=> k \in 1..n /\ t[k] = 58
                              /\ colon = FirstOf(S)
  <2>1. PICK S : S = {k \in DOMAIN t : t[k] = 58} /\ colon = FirstOf(S)
    OBVIOUS
  <2>2. \A k : k \in S <=> k \in 1..n /\ t[k] = 58
    BY <1>1, <2>1
  <2>3. S \in SUBSET Nat
    BY <2>2
  <2>4. QED
    BY <2>1, <2>2, <2>3
<1>5. /\ i = NotFound => /\ pieces = <<<<0, n>>>>
                         /\ \A j \in 1..n : t[j] = 58 => j = n
      /\ i # NotFound => /\ pieces = <<<<0, i>>, <<i + 1, n>>>>
                         /\ i \in 0..n /\ i + 1 < n /\ t[i + 1] = 58
                         /\ \A j \in 1..i : t[j] # 58
  <2>1. 58 \in Byte /\ Separator = <<58>> /\ 0 \in 0..Len(t) /\ 0 + 1 = 1
    BY <1>1 DEF Byte, Separator
  <2>2. /\ i = NotFound => /\ pieces = <<<<0, Len(t)>>>>
                           /\ \A j \in (0 + 1)..Len(t) : t[j] = 58 => j = Len(t)
        /\ i # NotFound => /\ pieces = <<<<0, i>>, <<i + 1, Len(t)>>>>
                           /\ i \in 0..Len(t) /\ i + 1 < Len(t) /\ t[i + 1] = 58
                           /\ \A j \in (0 + 1)..i : t[j] # 58
    BY <1>1, <1>2, <1>3, <2>1, SplitInTwo
  <2>3. QED
    BY <1>1, <2>1, <2>2
<1>6. CASE i = NotFound
  <2>1. Len(pieces) # 2
    BY <1>5, <1>6
  <2>2. p = Rejected("header")
    BY <1>3, <2>1 DEF ParseHeaderLine
  <2>3. p.kind = "header" /\ p.ok = FALSE
    BY <2>2 DEF Rejected
  <2>4. colon \notin 1..(n - 1)
    <3>1. CASE S = {}
      <4>1. FirstOf(S) = -1
        BY <3>1 DEF FirstOf, NotFound
      <4>2. QED
        BY <1>4, <4>1
    <3>2. CASE S # {}
      <4>1. colon \in S
        <5>1. FirstOf(S) \in S
          BY <3>2, FirstOfNat
        <5>2. QED
          BY <1>4, <5>1
      <4>2. colon = n
        BY <1>4, <1>5, <1>6, <4>1
      <4>3. QED
        BY <4>2
    <3>3. QED
      BY <3>1, <3>2
  <2>5. QED
    BY <1>1, <2>3, <2>4
<1>7. CASE i # NotFound
  <2>1. PICK k \in Nat : /\ k = i + 1 /\ k \in 1..(n - 1) /\ t[k] = 58 /\ i = k - 1
                         /\ \A j \in 1..(k - 1) : t[j] # 58
    BY <1>5, <1>7
  <2>2. k \in S /\ \A j \in S : k <= j
    BY <1>4, <2>1
  <2>3. colon = k
    <3>1. S \in SUBSET Int
      OBVIOUS
    <3>2. FirstOf(S) = k
      BY <2>2, <3>1, FirstIs
    <3>3. QED
      BY <1>4, <3>2
  <2>4. pieces = <<<<0, i>>, <<k, n>>>>
    BY <1>5, <1>7, <2>1
  <2>5. /\ Len(pieces) = 2 /\ pieces[1] = <<0, i>> /\ pieces[2] = <<k, n>>
        /\ pieces[1][1] = 0 /\ pieces[1][2] = i /\ pieces[2][1] = k /\ pieces[2][2] = n
    BY <2>4
  <2>6. /\ Piece(t, pieces[1]) = SubSeq(t, 1, k - 1)
        /\ Piece(t, pieces[2]) = SubSeq(t, k + 1, n)
    <3>1. Piece(t, pieces[1]) = SubSeq(t, 0 + 1, i) /\ Piece(t, pieces[2]) = SubSeq(t, k + 1, n)
      BY <2>5 DEF Piece
    <3>2. 0 + 1 = 1
      OBVIOUS
    <3>3. QED
      BY <2>1, <3>1, <3>2
  <2>7. p = [kind |-> "header", ok |-> TRUE, name |-> Piece(t, pieces[1]),
             values |-> ValuesFrom(TrimmedStart(Piece(t, pieces[2]), Blanks))]
    BY <1>3, <2>5 DEF ParseHeaderLine
  <2>8. /\ p.kind = "header" /\ p.ok = TRUE /\ p.name = Piece(t, pieces[1])
        /\ p.values = ValuesFrom(TrimmedStart(Piece(t, pieces[2]), Blanks))
    BY <2>7
  <2>9. SubSeq(t, 1, k - 1) = SubSeq(t, 1, colon - 1) /\ SubSeq(t, k + 1, n) = SubSeq(t, colon + 1, Len(t))
    BY <1>1, <2>3
  <2>10. colon \in 1..(Len(t) - 1)
    BY <1>1, <2>1, <2>3
  <2>11. QED
    BY <2>6, <2>8, <2>9, <2>10
<1>8. QED
  BY <1>6, <1>7

LEMMA HeaderIsApart ==
    ASSUME line \in Seq(Char), parsed = ParseHeaderLine(line)
    PROVE  HeaderLineIsNameAndValues
<1>1. PICK colon : colon = FirstOf({i \in DOMAIN line : line[i] = 58})
  OBVIOUS
<1>2. PICK rest : rest = TrimmedStart(SubSeq(line, colon + 1, Len(line)), Blanks)
  OBVIOUS
<1>3. PICK v : v = parsed.values
  OBVIOUS
<1>4. /\ colon \notin 1..(Len(line) - 1) => parsed.ok = FALSE
      /\ colon \in 1..(Len(line) - 1) => /\ parsed.ok = TRUE
                                         /\ parsed.name = SubSeq(line, 1, colon - 1)
                                         /\ v = ValuesFrom(rest)
  BY <1>1, <1>2, <1>3, HeaderParses
<1>5. ASSUME colon \in 1..(Len(line) - 1)
      PROVE  /\ Head(v) \o WithCommas(Tail(v)) = rest
             /\ CommasEnd(v) /\ v \in Seq(Seq(Char))
  <2>1. SubSeq(line, colon + 1, Len(line)) \in Seq(Char)
    BY <1>5
  <2>2. rest \in Seq(Char)
    BY <1>2, <2>1, TrimmedStartType
  <2>3. QED
    BY <1>4, <1>5, <2>2, ValuesJoin
<1>6. ASSUME colon \in 1..(Len(line) - 1)
      PROVE  \A k \in DOMAIN v : \A i \in DOMAIN v[k] :
                v[k][i] = 44 => k = Len(v) /\ i = Len(v[k])
  <2>1. DOMAIN v = 1..Len(v) /\ \A k \in 1..Len(v) : v[k] \in Seq(Char)
    BY <1>5, <1>6, SeqIsFunction
  <2>2. \A k \in 1..Len(v) : DOMAIN v[k] = 1..Len(v[k])
    BY <2>1
  <2>3. QED
    BY <1>5, <1>6, <2>1, <2>2 DEF CommasEnd
<1>7. QED
  BY <1>1, <1>2, <1>3, <1>4, <1>5, <1>6 DEF HeaderLineIsNameAndValues, WithCommas

-----------------------------------------------------------------------------
(* The request line.                                                       *)

\* f has the phase of the loop of http_request_parse after every character of t.
ArePhases(f, t) == f = [j \in 0..Len(t) |-> IF j = 0 THEN 0
                                            ELSE NextPhase(f[j - 1], t[j] = Space, j = Len(t))]

\* f is the phases after the n characters of t.
Moves(f, t, n) == /\ f \in [0..n -> 0..6] /\ f[0] = 0
                  /\ \A j \in 1..n : f[j] = NextPhase(f[j - 1], t[j] = Space, j = n)

LEMMA PhasesUnfold ==
    ASSUME NEW f, NEW t, ArePhases(f, t), NEW j \in 0..Len(t)
    PROVE  f[j] = IF j = 0 THEN 0 ELSE NextPhase(f[j - 1], t[j] = Space, j = Len(t))
  BY Zenon DEF ArePhases

LEMMA NextPhaseType ==
    ASSUME NEW p \in 0..6, NEW isSpace \in BOOLEAN, NEW isLast \in BOOLEAN
    PROVE  NextPhase(p, isSpace, isLast) \in {p, p + 1} \cap 0..6
<1>1. PICK q : q = NextPhase(p, isSpace, isLast)
  OBVIOUS
<1>2. q = p \/ (q = p + 1 /\ p \in {0, 1, 2, 3, 4, 5})
  BY <1>1 DEF NextPhase
<1>3. q \in {p, p + 1} /\ q \in 0..6
  BY <1>2
<1>4. QED
  BY <1>1, <1>3

LEMMA PhasesExist ==
    ASSUME NEW t \in Seq(Char)
    PROVE  \E f : ArePhases(f, t)
<1>1. PICK n \in Nat : n = Len(t)
  OBVIOUS
<1>2. PICK A : A = 0..6
  OBVIOUS
<1>3. PICK prev : prev = [j \in 0..n |-> IF j = 0 THEN 0 ELSE j - 1]
  OBVIOUS
<1>4. PICK step : step = [j \in 0..n |-> [x \in A |-> NextPhase(x, t[j] = Space, j = n)]]
  OBVIOUS
<1>5. PICK first : first = [j \in 0..n |-> 0]
  OBVIOUS
<1>6. prev \in [0..n -> Nat]
  BY <1>3
<1>7. step \in [0..n -> [A -> A]]
  <2>1. ASSUME NEW j \in 0..n, NEW x \in A PROVE NextPhase(x, t[j] = Space, j = n) \in A
    BY <1>2, NextPhaseType
  <2>2. QED
    BY <1>4, <2>1
<1>8. first \in [0..n -> A]
  BY <1>2, <1>5
<1>9. PICK f : GoesUp(f, n, A, prev, step, first)
  BY <1>6, <1>7, <1>8, RecursionUp
<1>10. f \in [0..n -> A]
  BY <1>9 DEF GoesUp
<1>11. ASSUME NEW j \in 0..n
       PROVE  f[j] = IF j = 0 THEN 0 ELSE NextPhase(f[j - 1], t[j] = Space, j = Len(t))
  <2>1. f[j] = IF prev[j] < j THEN step[j][f[prev[j]]] ELSE first[j]
    BY <1>9 DEF GoesUp
  <2>2. CASE j = 0
    BY <1>3, <1>5, <2>1, <2>2
  <2>3. CASE j # 0
    <3>1. PICK i \in 0..n : i = j - 1 /\ i < j /\ prev[j] = i
      BY <1>3, <2>3
    <3>2. f[i] \in A
      BY <1>10
    <3>3. f[j] = step[j][f[i]]
      BY <2>1, <3>1
    <3>4. step[j][f[i]] = NextPhase(f[i], t[j] = Space, j = n)
      BY <1>4, <3>2
    <3>5. QED
      BY <1>1, <2>3, <3>1, <3>3, <3>4
  <2>4. QED
    BY <2>2, <2>3
<1>12. ArePhases(f, t)
  BY <1>1, <1>10, <1>11 DEF ArePhases
<1>13. QED
  BY <1>12

LEMMA PhasesAre ==
    ASSUME NEW t \in Seq(Char), NEW n \in Nat, n = Len(t)
    PROVE  Moves(Phases(t), t, n)
<1>1. PICK f : f = CHOOSE g : ArePhases(g, t)
  OBVIOUS
<1>2. ArePhases(f, t)
  BY <1>1, PhasesExist
<1>3. Phases(t) = f
  BY <1>1, Zenon DEF Phases, ArePhases
<1>4. ASSUME NEW j \in 0..n
      PROVE  f[j] = IF j = 0 THEN 0 ELSE NextPhase(f[j - 1], t[j] = Space, j = Len(t))
  BY <1>2, PhasesUnfold
<1>5. DOMAIN f = 0..n /\ f = [j \in 0..n |-> f[j]]
  BY <1>2 DEF ArePhases
<1>6. f[0] = 0
  BY <1>4
<1>7. \A j \in 1..n : f[j] = NextPhase(f[j - 1], t[j] = Space, j = n)
  BY <1>4
<1> DEFINE T == {j \in Nat : j <= n => f[j] \in 0..6}
<1>8. T = Nat
  <2>1. 0 \in T
    BY <1>6
  <2>2. ASSUME NEW j \in T PROVE j + 1 \in T
    <3>1. CASE j + 1 <= n
      <4>1. f[j] \in 0..6 /\ j + 1 \in 1..n /\ (j + 1) - 1 = j
        BY <3>1
      <4>2. f[j + 1] = NextPhase(f[j], t[j + 1] = Space, j + 1 = n)
        BY <1>7, <4>1
      <4>3. NextPhase(f[j], t[j + 1] = Space, j + 1 = n) \in 0..6
        BY <4>1, NextPhaseType
      <4>4. QED
        BY <4>2, <4>3
    <3>2. QED
      BY <3>1
  <2>3. T \in SUBSET Nat
    OBVIOUS
  <2> HIDE DEF T
  <2>4. QED
    BY <2>1, <2>2, <2>3, InductionOnNat
<1>9. \A j \in 0..n : f[j] \in 0..6
  BY <1>8
<1>10. f \in [0..n -> 0..6]
  BY <1>5, <1>9
<1>11. QED
  BY <1>3, <1>6, <1>7, <1>10 DEF Moves

\* What a phase says of the character it comes after.
LEMMA PhaseStep ==
    ASSUME NEW n \in Nat, NEW t \in Seq(Char), NEW f, Moves(f, t, n), NEW j \in 1..n
    PROVE  /\ f[j - 1] \in 0..6 /\ f[j] \in 0..6 /\ f[j] \in {f[j - 1], f[j - 1] + 1}
           /\ f[j] \in {1, 3, 5} => t[j] # Space
           /\ f[j] \in {0, 2, 4} => t[j] = Space
           /\ f[j - 1] \in {0, 2, 4} /\ t[j] # Space => f[j] = f[j - 1] + 1
           /\ f[j - 1] \in {1, 3, 5} /\ t[j] = Space => f[j] = f[j - 1] + 1
           /\ f[j - 1] \in {0, 2, 4} /\ t[j] = Space => f[j] = f[j - 1]
           /\ f[j - 1] \in {1, 3} /\ t[j] # Space => f[j] = f[j - 1]
           /\ f[j - 1] = 5 /\ j = n => f[j] = 6
<1>1. PICK p \in 0..6 : p = f[j - 1]
  <2>1. f[j - 1] \in 0..6
    BY DEF Moves
  <2>2. QED
    BY <2>1
<1>2. f[j] = NextPhase(p, t[j] = Space, j = n)
  BY <1>1 DEF Moves
<1>3. f[j] \in 0..6
  BY DEF Moves
<1>4. f[j] = IF p \in {0, 2, 4} /\ t[j] # Space THEN p + 1
             ELSE IF p \in {1, 3, 5} /\ (t[j] = Space \/ (p = 5 /\ j = n)) THEN p + 1 ELSE p
  BY <1>2 DEF NextPhase
<1>5. QED
  BY <1>1, <1>3, <1>4, SMTT(40)

LEMMA PhasesRise ==
    ASSUME NEW n \in Nat, NEW t \in Seq(Char), NEW f, Moves(f, t, n),
           NEW i \in 0..n, NEW j \in 0..n, i <= j
    PROVE  f[i] <= f[j]
<1> DEFINE T == {k \in Nat : i + k <= n => f[i] <= f[i + k]}
<1>1. \A k \in 0..n : f[k] \in 0..6
  BY DEF Moves
<1>2. 0 \in T
  BY <1>1
<1>3. ASSUME NEW k \in T PROVE k + 1 \in T
  <2>1. CASE i + (k + 1) <= n
    <3>1. PICK x \in 1..n : x = i + (k + 1) /\ x - 1 = i + k /\ x - 1 \in 0..n
      BY <2>1
    <3>2. f[x] \in {f[x - 1], f[x - 1] + 1}
      BY PhaseStep
    <3>3. f[i] <= f[x - 1]
      BY <3>1
    <3>4. f[i] \in 0..6 /\ f[x - 1] \in 0..6 /\ f[x] \in 0..6
      BY <1>1, <3>1
    <3>5. QED
      BY <3>1, <3>2, <3>3, <3>4, SMTT(40)
  <2>2. QED
    BY <2>1
<1>4. T = Nat
  <2>1. T \in SUBSET Nat
    OBVIOUS
  <2> HIDE DEF T
  <2>2. QED
    BY <1>2, <1>3, <2>1, InductionOnNat
<1>5. PICK k \in Nat : i + k = j
  <2>1. j - i \in Nat /\ i + (j - i) = j
    OBVIOUS
  <2>2. QED
    BY <2>1
<1>6. k \in T
  BY <1>4
<1>7. QED
  BY <1>5, <1>6

LEMMA PhaseStays ==
    ASSUME NEW n \in Nat, NEW t \in Seq(Char), NEW f, Moves(f, t, n),
           NEW i \in 0..n, NEW j \in 0..n, i <= j, NEW p \in 0..6, f[i] = p,
           \/ p \in {0, 2, 4} /\ \A k \in (i + 1)..j : t[k] = Space
           \/ p \in {1, 3} /\ \A k \in (i + 1)..j : t[k] # Space
    PROVE  f[j] = p
<1> DEFINE T == {k \in Nat : i + k <= j => f[i + k] = p}
<1>1. 0 \in T
  OBVIOUS
<1>2. ASSUME NEW k \in T PROVE k + 1 \in T
  <2>1. CASE i + (k + 1) <= j
    <3>1. PICK x \in 1..n : x = i + (k + 1) /\ x - 1 = i + k /\ x \in (i + 1)..j
      BY <2>1
    <3>2. f[x - 1] = p
      BY <2>1, <3>1
    <3>3. f[x] = p
      BY <3>1, <3>2, PhaseStep
    <3>4. QED
      BY <3>1, <3>3
  <2>2. QED
    BY <2>1
<1>3. T = Nat
  <2>1. T \in SUBSET Nat
    OBVIOUS
  <2> HIDE DEF T
  <2>2. QED
    BY <1>1, <1>2, <2>1, InductionOnNat
<1>4. PICK k \in Nat : i + k = j
  <2>1. j - i \in Nat /\ i + (j - i) = j
    OBVIOUS
  <2>2. QED
    BY <2>1
<1>5. k \in T
  BY <1>3
<1>6. QED
  BY <1>4, <1>5

LEMMA PhaseTurns ==
    ASSUME NEW n \in Nat, NEW t \in Seq(Char), NEW f, Moves(f, t, n),
           NEW i \in 0..n, NEW j \in 0..n, i < j, NEW p \in 0..3, f[i] = p,
           \/ p \in {0, 2} /\ \A k \in (i + 1)..j : t[k] # Space
           \/ p \in {1, 3} /\ \A k \in (i + 1)..j : t[k] = Space
    PROVE  f[j] = p + 1
<1>1. PICK x \in 1..n : x = i + 1
  OBVIOUS
<1>2. x \in 0..n /\ x <= j /\ x \in (i + 1)..j /\ x - 1 = i
  BY <1>1
<1>3. f[x] = p + 1
  <2>1. f[x - 1] = p
    BY <1>2
  <2>2. /\ f[x - 1] \in {0, 2, 4} /\ t[x] # Space => f[x] = f[x - 1] + 1
        /\ f[x - 1] \in {1, 3, 5} /\ t[x] = Space => f[x] = f[x - 1] + 1
    BY PhaseStep
  <2>3. QED
    BY <1>2, <2>1, <2>2
<1>4. PICK q \in 0..6 : q = p + 1
  OBVIOUS
<1>5. \/ q \in {0, 2, 4} /\ \A k \in (x + 1)..j : t[k] = Space
      \/ q \in {1, 3} /\ \A k \in (x + 1)..j : t[k] # Space
  <2>1. \A k \in (x + 1)..j : k \in (i + 1)..j
    BY <1>1
  <2>2. QED
    BY <1>4, <2>1
<1>6. f[j] = q
  <2>1. f[x] = q
    BY <1>3, <1>4
  <2>2. x \in 0..n /\ x <= j
    BY <1>2
  <2>3. QED
    BY <1>5, <2>1, <2>2, PhaseStays
<1>7. QED
  BY <1>4, <1>6

\* The last place with phase p, when the last phase is 6.
IsEnd(f, n, p, l) == /\ l \in 0..(n - 1) /\ f[l] = p /\ f[l + 1] = p + 1
                     /\ \A j \in 0..n : f[j] <= p <=> j <= l

LEMMA PhaseEnds ==
    ASSUME NEW n \in Nat, NEW t \in Seq(Char), NEW f, Moves(f, t, n), f[n] = 6, NEW p \in 0..5
    PROVE  \E l \in 0..(n - 1) : IsEnd(f, n, p, l)
<1>1. PICK S : S = {j \in 0..n : f[j] <= p}
  OBVIOUS
<1>2. S \in SUBSET (0..n) /\ 0 \in S
  BY <1>1 DEF Moves
<1>3. PICK l \in 0..n : l \in S /\ \A j \in S : l >= j
  BY <1>2, LastOfNat
<1>4. f[l] <= p
  BY <1>1, <1>3
<1>5. l # n
  BY <1>4
<1>6. PICK x \in 1..n : x = l + 1 /\ x - 1 = l
  BY <1>5
<1>7. x \notin S
  BY <1>3, <1>6
<1>8. ~(f[x] <= p)
  BY <1>1, <1>7
<1>9. f[l] \in 0..6 /\ f[x] \in 0..6 /\ f[x] \in {f[l], f[l] + 1}
  BY <1>6, PhaseStep
<1>10. f[l] = p /\ f[x] = p + 1
  BY <1>4, <1>8, <1>9, SMTT(40)
<1>11. ASSUME NEW j \in 0..n PROVE f[j] <= p <=> j <= l
  <2>1. f[j] <= p => j <= l
    BY <1>1, <1>3
  <2>2. ASSUME j <= l PROVE f[j] <= p
    BY <1>10, <2>2, PhasesRise
  <2>3. QED
    BY <2>1, <2>2
<1>12. QED
  BY <1>5, <1>6, <1>10, <1>11 DEF IsEnd
\* The places of a phase are those between the last of the one before and its own last.
LEMMA PhasePlaces ==
    ASSUME NEW n \in Nat, NEW t \in Seq(Char), NEW f, Moves(f, t, n), NEW p \in 0..4,
           NEW i \in 0..(n - 1), NEW j \in 0..(n - 1), IsEnd(f, n, p, i), IsEnd(f, n, p + 1, j)
    PROVE  /\ i < j
           /\ \A k \in 0..n : f[k] = p + 1 <=> k \in (i + 1)..j
<1>1. \A k \in 0..n : /\ f[k] \in 0..6
                      /\ f[k] <= p <=> k <= i
                      /\ f[k] <= p + 1 <=> k <= j
  BY DEF IsEnd, Moves
<1>2. ASSUME NEW k \in 0..n PROVE f[k] = p + 1 <=> k \in (i + 1)..j
  <2>1. f[k] \in 0..6 /\ (f[k] <= p <=> k <= i) /\ (f[k] <= p + 1 <=> k <= j)
    BY <1>1
  <2>2. f[k] = p + 1 <=> ~(f[k] <= p) /\ f[k] <= p + 1
    BY <2>1
  <2>3. k \in (i + 1)..j <=> ~(k <= i) /\ k <= j
    OBVIOUS
  <2>4. QED
    BY <2>1, <2>2, <2>3
<1>3. f[i + 1] = p + 1 /\ i + 1 \in 0..n
  BY DEF IsEnd
<1>4. i + 1 \in (i + 1)..j
  BY <1>2, <1>3
<1>5. QED
  BY <1>2, <1>4

LEMMA WordInIs ==
    ASSUME NEW t \in Seq(Char), NEW n \in Nat, n = Len(t), NEW p \in 0..6, NEW i \in Nat, NEW j \in 0..n,
           i < j, \A k \in 0..n : Phases(t)[k] = p <=> k \in (i + 1)..j
    PROVE  WordIn(t, p) = SubSeq(t, i + 1, j)
<1>1. PICK S : S = {k \in DOMAIN t : Phases(t)[k] = p}
  OBVIOUS
<1>2. \A k : k \in S <=> k \in (i + 1)..j
  <2>1. DOMAIN t = 1..n
    OBVIOUS
  <2>2. QED
    BY <1>1, <2>1
<1>3. S \in SUBSET Int /\ i + 1 \in S /\ j \in S
  BY <1>2
<1>4. \A k \in S : i + 1 <= k /\ j >= k
  BY <1>2
<1>5. FirstOf(S) = i + 1
  BY <1>3, <1>4, FirstIs
<1>6. LastOf(S) = j
  BY <1>3, <1>4, LastIs
<1>7. WordIn(t, p) = SubSeq(t, FirstOf(S), LastOf(S))
  BY <1>1 DEF WordIn
<1>8. QED
  BY <1>5, <1>6, <1>7

\* The three words of t: from a to b, from c to d, and from e on.
ThreeWords(t, n, a, b, c, d, e) ==
    /\ \A k \in (0 + 1)..a : t[k] = Space
    /\ a < b /\ \A k \in (a + 1)..b : t[k] # Space
    /\ b < c /\ \A k \in (b + 1)..c : t[k] = Space
    /\ c < d /\ \A k \in (c + 1)..d : t[k] # Space
    /\ d < e /\ \A k \in (d + 1)..e : t[k] = Space
    /\ e + 2 <= n /\ t[e + 1] # Space

LEMMA WordsOfAccepted ==
    ASSUME NEW t \in Seq(Char), NEW n \in Nat, n = Len(t), Phases(t)[n] = 6
    PROVE  \E a, b, c, d, e \in 0..n :
              /\ ThreeWords(t, n, a, b, c, d, e)
              /\ WordIn(t, 1) = SubSeq(t, a + 1, b)
              /\ WordIn(t, 3) = SubSeq(t, c + 1, d)
<1>1. PICK f : f = Phases(t) /\ Moves(f, t, n) /\ f[n] = 6
  BY PhasesAre
<1>2. PICK a \in 0..(n - 1) : IsEnd(f, n, 0, a)
  BY <1>1, PhaseEnds
<1>3. PICK b \in 0..(n - 1) : IsEnd(f, n, 1, b)
  BY <1>1, PhaseEnds
<1>4. PICK c \in 0..(n - 1) : IsEnd(f, n, 2, c)
  BY <1>1, PhaseEnds, SMTT(40)
<1>5. PICK d \in 0..(n - 1) : IsEnd(f, n, 3, d)
  BY <1>1, PhaseEnds, SMTT(40)
<1>6. PICK e \in 0..(n - 1) : IsEnd(f, n, 4, e)
  BY <1>1, PhaseEnds, SMTT(40)
<1>7. /\ 0 + 1 = 1 /\ 1 + 1 = 2 /\ 2 + 1 = 3 /\ 3 + 1 = 4
      /\ 0 \in 0..4 /\ 1 \in 0..4 /\ 2 \in 0..4 /\ 3 \in 0..4
  OBVIOUS
<1>8. a < b /\ \A k \in 0..n : f[k] = 1 <=> k \in (a + 1)..b
  <2>1. IsEnd(f, n, 0 + 1, b)
    BY <1>3, <1>7
  <2>2. a < b /\ \A k \in 0..n : f[k] = 0 + 1 <=> k \in (a + 1)..b
    BY <1>1, <1>2, <1>7, <2>1, PhasePlaces
  <2>3. QED
    BY <2>2
<1>9. b < c /\ \A k \in 0..n : f[k] = 2 <=> k \in (b + 1)..c
  <2>1. IsEnd(f, n, 1 + 1, c)
    BY <1>4, <1>7
  <2>2. b < c /\ \A k \in 0..n : f[k] = 1 + 1 <=> k \in (b + 1)..c
    BY <1>1, <1>3, <1>7, <2>1, PhasePlaces
  <2>3. QED
    BY <2>2
<1>10. c < d /\ \A k \in 0..n : f[k] = 3 <=> k \in (c + 1)..d
  <2>1. IsEnd(f, n, 2 + 1, d)
    BY <1>5, <1>7
  <2>2. c < d /\ \A k \in 0..n : f[k] = 2 + 1 <=> k \in (c + 1)..d
    BY <1>1, <1>4, <1>7, <2>1, PhasePlaces
  <2>3. QED
    BY <2>2
<1>11. d < e /\ \A k \in 0..n : f[k] = 4 <=> k \in (d + 1)..e
  <2>1. IsEnd(f, n, 3 + 1, e)
    BY <1>6, <1>7
  <2>2. d < e /\ \A k \in 0..n : f[k] = 3 + 1 <=> k \in (d + 1)..e
    BY <1>1, <1>5, <1>7, <2>1, PhasePlaces
  <2>3. QED
    BY <2>2
<1>12. \A k \in 0..a : f[k] = 0
  <2>1. \A k \in 0..n : f[k] <= 0 <=> k <= a
    BY <1>2 DEF IsEnd
  <2>2. \A k \in 0..n : f[k] \in 0..6
    BY <1>1 DEF Moves
  <2>3. QED
    BY <2>1, <2>2
<1>13. f[e + 1] = 5 /\ e + 1 \in 1..n
  BY <1>6 DEF IsEnd
<1>14. \A k \in 1..n : /\ f[k] \in {1, 3, 5} => t[k] # Space
                       /\ f[k] \in {0, 2, 4} => t[k] = Space
  BY <1>1, PhaseStep
<1>15. e + 2 <= n /\ t[e + 1] # Space
  <2>1. e + 1 # n
    BY <1>1, <1>13
  <2>2. QED
    BY <1>13, <1>14, <2>1
<1>16. ThreeWords(t, n, a, b, c, d, e)
  <2>1. \A k \in (0 + 1)..a : t[k] = Space
    BY <1>12, <1>14
  <2>2. \A k \in (a + 1)..b : t[k] # Space
    BY <1>8, <1>14
  <2>3. \A k \in (b + 1)..c : t[k] = Space
    BY <1>9, <1>14
  <2>4. \A k \in (c + 1)..d : t[k] # Space
    BY <1>10, <1>14
  <2>5. \A k \in (d + 1)..e : t[k] = Space
    BY <1>11, <1>14
  <2>6. QED
    BY <1>8, <1>9, <1>10, <1>11, <1>15, <2>1, <2>2, <2>3, <2>4, <2>5 DEF ThreeWords
<1>17. WordIn(t, 1) = SubSeq(t, a + 1, b)
  <2>1. \A k \in 0..n : Phases(t)[k] = 1 <=> k \in (a + 1)..b
    BY <1>1, <1>8
  <2>2. a \in Nat /\ b \in 0..n /\ a < b /\ 1 \in 0..6 /\ n \in Nat /\ n = Len(t)
    BY <1>8
  <2>3. QED
    BY <2>1, <2>2, WordInIs, Zenon
<1>18. WordIn(t, 3) = SubSeq(t, c + 1, d)
  <2>1. \A k \in 0..n : Phases(t)[k] = 3 <=> k \in (c + 1)..d
    BY <1>1, <1>10
  <2>2. c \in Nat /\ d \in 0..n /\ c < d /\ 3 \in 0..6 /\ n \in Nat /\ n = Len(t)
    BY <1>10
  <2>3. QED
    BY <2>1, <2>2, WordInIs, Zenon
<1>19. a \in 0..n /\ b \in 0..n /\ c \in 0..n /\ d \in 0..n /\ e \in 0..n
  OBVIOUS
<1>20. QED
  BY <1>16, <1>17, <1>18, <1>19

LEMMA WordsAreAccepted ==
    ASSUME NEW t \in Seq(Char), NEW n \in Nat, NEW f, Moves(f, t, n), NEW a \in 0..n, NEW b \in 0..n,
           NEW c \in 0..n, NEW d \in 0..n, NEW e \in 0..n, ThreeWords(t, n, a, b, c, d, e)
    PROVE  f[n] = 6
<1>1. f[0] = 0
  BY DEF Moves
<1>2. f[a] = 0
  <2>1. (\A k \in (0 + 1)..a : t[k] = Space) /\ 0 <= a /\ 0 \in 0..n
    BY DEF ThreeWords
  <2>2. QED
    BY <1>1, <2>1, PhaseStays
<1>3. f[b] = 1
  <2>1. a < b /\ \A k \in (a + 1)..b : t[k] # Space
    BY DEF ThreeWords
  <2>2. f[b] = 0 + 1
    BY <1>2, <2>1, PhaseTurns
  <2>3. QED
    BY <2>2
<1>4. f[c] = 2
  <2>1. b < c /\ \A k \in (b + 1)..c : t[k] = Space
    BY DEF ThreeWords
  <2>2. f[c] = 1 + 1
    BY <1>3, <2>1, PhaseTurns
  <2>3. QED
    BY <2>2
<1>5. f[d] = 3
  <2>1. c < d /\ \A k \in (c + 1)..d : t[k] # Space
    BY DEF ThreeWords
  <2>2. f[d] = 2 + 1
    BY <1>4, <2>1, PhaseTurns
  <2>3. QED
    BY <2>2
<1>6. f[e] = 4
  <2>1. d < e /\ \A k \in (d + 1)..e : t[k] = Space
    BY DEF ThreeWords
  <2>2. f[e] = 3 + 1
    BY <1>5, <2>1, PhaseTurns
  <2>3. QED
    BY <2>2
<1>7. PICK x \in 1..n : x = e + 1 /\ x - 1 = e /\ x <= n - 1 /\ t[x] # Space
  <2>1. e + 2 <= n /\ t[e + 1] # Space
    BY DEF ThreeWords
  <2>2. e + 1 \in 1..n /\ (e + 1) - 1 = e /\ e + 1 <= n - 1
    BY <2>1
  <2>3. QED
    BY <2>1, <2>2
<1>8. f[x] = 5
  <2>1. f[x - 1] = 4
    BY <1>6, <1>7
  <2>2. f[x - 1] \in {0, 2, 4} /\ t[x] # Space => f[x] = f[x - 1] + 1
    BY PhaseStep
  <2>3. QED
    BY <1>7, <2>1, <2>2
<1>9. f[n - 1] >= 5 /\ f[n - 1] \in 0..6 /\ n \in 1..n
  <2>1. x \in 0..n /\ n - 1 \in 0..n /\ x <= n - 1 /\ n \in 1..n
    BY <1>7
  <2>2. f[x] <= f[n - 1]
    BY <2>1, PhasesRise
  <2>3. f[n - 1] \in 0..6
    BY <2>1 DEF Moves
  <2>4. QED
    BY <1>8, <2>1, <2>2, <2>3
<1>10. PICK y \in 1..n : y = n
  BY <1>9
<1>11. f[y] \in {f[y - 1], f[y - 1] + 1} /\ f[y] \in 0..6 /\ (f[y - 1] = 5 /\ y = n => f[y] = 6)
  BY PhaseStep
<1>12. QED
  BY <1>9, <1>10, <1>11, SMTT(40)

LEMMA RequestIsApart ==
    ASSUME line \in Seq(Char), parsed = ParseRequestLine(line)
    PROVE  RequestLineIsThreeWords
<1>1. PICK n \in Nat : n = Len(line)
  OBVIOUS
<1>2. CASE Phases(line)[n] = 6
  <2>1. parsed = [Rejected("request") EXCEPT !.ok = TRUE, !.name = WordIn(line, 1),
                                             !.values = <<WordIn(line, 3)>>]
    BY <1>1, <1>2 DEF ParseRequestLine
  <2>2. parsed.ok = TRUE /\ parsed.name = WordIn(line, 1) /\ parsed.values = <<WordIn(line, 3)>>
    BY <2>1 DEF Rejected
  <2>3. PICK a, b, c, d, e \in 0..n : /\ ThreeWords(line, n, a, b, c, d, e)
                                      /\ WordIn(line, 1) = SubSeq(line, a + 1, b)
                                      /\ WordIn(line, 3) = SubSeq(line, c + 1, d)
    BY <1>1, <1>2, WordsOfAccepted
  <2>4. /\ \A k \in (0 + 1)..a : line[k] = Space
        /\ a < b /\ \A k \in (a + 1)..b : line[k] # Space
        /\ b < c /\ \A k \in (b + 1)..c : line[k] = Space
        /\ c < d /\ \A k \in (c + 1)..d : line[k] # Space
        /\ d < e /\ \A k \in (d + 1)..e : line[k] = Space
        /\ e + 2 <= Len(line) /\ line[e + 1] # Space
        /\ parsed.name = SubSeq(line, a + 1, b)
        /\ parsed.values = <<SubSeq(line, c + 1, d)>>
        /\ parsed.ok
    BY <1>1, <2>2, <2>3 DEF ThreeWords
  <2>5. a \in 0..Len(line) /\ b \in 0..Len(line) /\ c \in 0..Len(line) /\ d \in 0..Len(line)
        /\ e \in 0..Len(line)
    BY <1>1
  <2>6. QED
    BY <2>4, <2>5 DEF RequestLineIsThreeWords
<1>3. CASE Phases(line)[n] # 6
  <2>1. parsed = Rejected("request")
    BY <1>1, <1>3 DEF ParseRequestLine
  <2>2. parsed.ok = FALSE
    BY <2>1 DEF Rejected
  <2>3. \A a, b, c, d, e \in 0..n : ~ThreeWords(line, n, a, b, c, d, e)
    <3>1. Moves(Phases(line), line, n)
      BY <1>1, PhasesAre
    <3>2. QED
      BY <1>3, <3>1, WordsAreAccepted
  <2>4. ASSUME NEW a \in 0..Len(line), NEW b \in 0..Len(line), NEW c \in 0..Len(line),
               NEW d \in 0..Len(line), NEW e \in 0..Len(line),
               \A k \in (0 + 1)..a : line[k] = Space,
               a < b, \A k \in (a + 1)..b : line[k] # Space,
               b < c, \A k \in (b + 1)..c : line[k] = Space,
               c < d, \A k \in (c + 1)..d : line[k] # Space,
               d < e, \A k \in (d + 1)..e : line[k] = Space,
               e + 2 <= Len(line), line[e + 1] # Space
        PROVE  FALSE
    <3>1. a \in 0..n /\ b \in 0..n /\ c \in 0..n /\ d \in 0..n /\ e \in 0..n
      BY <1>1
    <3>2. ThreeWords(line, n, a, b, c, d, e)
      BY <1>1, <2>4 DEF ThreeWords
    <3>3. QED
      BY <2>3, <3>1, <3>2
  <2>5. QED
    BY <2>2, <2>4 DEF RequestLineIsThreeWords
<1>4. QED
  BY <1>2, <1>3

-----------------------------------------------------------------------------
(* The invariant.                                                          *)

\* What was made of the line is what one of the two parsers makes of it.
LinesInv == /\ line \in Seq(Char)
            /\ \/ parsed = Rejected("none")
               \/ parsed = ParseRequestLine(line)
               \/ parsed = ParseHeaderLine(line)

LEMMA LinesInvInit == LinesInit => LinesInv
  BY DEF LinesInit, LinesInv

LEMMA LinesInvStep == LinesInv /\ [LinesNext]_lineVars => LinesInv'
<1> SUFFICES ASSUME LinesInv, [LinesNext]_lineVars PROVE LinesInv'
  OBVIOUS
<1>1. FirstLines \cup FieldLines \subseteq Seq(Char)
  BY LinesAssumption DEF Char
<1>2. CASE UNCHANGED lineVars
  BY <1>2 DEF LinesInv, lineVars
<1>3. ASSUME NEW t \in FirstLines, line' = t, parsed' = ParseRequestLine(t) PROVE LinesInv'
  BY <1>1, <1>3 DEF LinesInv
<1>4. ASSUME NEW t \in FieldLines, line' = t, parsed' = ParseHeaderLine(t) PROVE LinesInv'
  BY <1>1, <1>4 DEF LinesInv
<1>5. QED
  BY <1>2, <1>3, <1>4 DEF LinesNext

LEMMA LinesInvGives == LinesInv => LinesAreTakenApart
<1> SUFFICES ASSUME LinesInv PROVE RequestLineIsThreeWords /\ HeaderLineIsNameAndValues
  BY DEF LinesAreTakenApart
<1>1. line \in Seq(Char)
  BY DEF LinesInv
<1>2. CASE parsed = Rejected("none")
  <2>1. parsed.kind = "none"
    BY <1>2 DEF Rejected
  <2>2. QED
    BY <2>1 DEF RequestLineIsThreeWords, HeaderLineIsNameAndValues
<1>3. CASE parsed = ParseRequestLine(line)
  <2>1. parsed.kind = "request"
    BY <1>3 DEF ParseRequestLine, Rejected
  <2>2. HeaderLineIsNameAndValues
    BY <2>1 DEF HeaderLineIsNameAndValues
  <2>3. QED
    BY <1>1, <1>3, <2>2, RequestIsApart
<1>4. CASE parsed = ParseHeaderLine(line)
  <2>1. parsed.kind = "header"
    BY <1>1, <1>4, HeaderParses
  <2>2. RequestLineIsThreeWords
    BY <2>1 DEF RequestLineIsThreeWords
  <2>3. QED
    BY <1>1, <1>4, <2>2, HeaderIsApart
<1>5. QED
  BY <1>2, <1>3, <1>4 DEF LinesInv

\* Every line of a head is accepted or rejected, and taken apart, as the two properties say
\* (http_request_parse).
THEOREM LinesCorrect == LinesSpec => []LinesAreTakenApart
<1>1. LinesInv /\ [LinesNext]_lineVars => LinesInv'
  BY LinesInvStep
<1>2. QED
  BY <1>1, LinesInvInit, LinesInvGives, PTL DEF LinesSpec
=============================================================================
