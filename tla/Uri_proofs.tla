----------------------------- MODULE Uri_proofs -----------------------------
(***************************************************************************)
(* Theorems about UriEscapes and Uri: escapes decode and re-encode as one  *)
(* specification says, and the components of an accepted URI are the text. *)
(***************************************************************************)
EXTENDS Uri, Strings_proofs

-----------------------------------------------------------------------------
(* The characters of an escape.                                            *)

LEMMA HexValueIs ==
    ASSUME NEW c \in Byte
    PROVE  HexValue(c) \in -1..15
BY DEF Byte, HexValue, Digits, NotFound

LEMMA HexDigitIs ==
    ASSUME NEW v \in 0..15
    PROVE  HexDigit(v) \in Byte /\ HexValue(HexDigit(v)) = v
BY DEF Byte, HexValue, HexDigit, Digits

\* c is a digit of an escape, and the character that two of them stand for.
Hex(c) == HexValue(c) # NotFound
EscapeValue(c, d) == 16 * HexValue(c) + HexValue(d)

LEMMA EscapeValueIs ==
    ASSUME NEW c \in Byte, NEW d \in Byte, Hex(c), Hex(d)
    PROVE  EscapeValue(c, d) \in Byte
<1>1. PICK x \in Int : x = HexValue(c) /\ 0 <= x /\ x <= 15
  <2>1. HexValue(c) \in -1..15 /\ HexValue(c) # -1
    BY HexValueIs DEF Hex, NotFound
  <2>2. QED
    BY <2>1
<1>2. PICK y \in Int : y = HexValue(d) /\ 0 <= y /\ y <= 15
  <2>1. HexValue(d) \in -1..15 /\ HexValue(d) # -1
    BY HexValueIs DEF Hex, NotFound
  <2>2. QED
    BY <2>1
<1>3. 16 * x + y \in 0..255
  BY <1>1, <1>2, SMTT(40)
<1>4. QED
  BY <1>1, <1>2, <1>3 DEF EscapeValue, Byte

\* An escaped character is an escape, of the character.
LEMMA EncodedIs ==
    ASSUME NEW c \in Byte
    PROVE  /\ Encoded(c) \in Seq(Byte)
           /\ c \in Unescaped => Encoded(c) = <<c>> /\ c # Percent
           /\ c \notin Unescaped =>
                 \E x \in Byte, y \in Byte : /\ Encoded(c) = <<Percent, x, y>>
                                             /\ Hex(x) /\ Hex(y) /\ EscapeValue(x, y) = c
<1>1. CASE c \in Unescaped
  <2>1. c # Percent
    BY <1>1 DEF Unescaped, Percent, Letters, Digits
  <2>2. QED
    BY <1>1, <2>1 DEF Encoded
<1>2. CASE c \notin Unescaped
  <2>1. PICK a \in 0..15, b \in 0..15 : a = c \div 16 /\ b = c % 16 /\ 16 * a + b = c
    <3>1. c \div 16 \in 0..15 /\ c % 16 \in 0..15 /\ 16 * (c \div 16) + (c % 16) = c
      BY DEF Byte
    <3>2. QED
      BY <3>1
  <2>2. PICK x \in Byte : x = HexDigit(a) /\ HexValue(x) = a
    BY HexDigitIs
  <2>3. PICK y \in Byte : y = HexDigit(b) /\ HexValue(y) = b
    BY HexDigitIs
  <2>4. Encoded(c) = <<Percent, x, y>>
    BY <1>2, <2>1, <2>2, <2>3 DEF Encoded
  <2>5. a # NotFound /\ b # NotFound
    BY DEF NotFound
  <2>6. Hex(x) /\ Hex(y) /\ EscapeValue(x, y) = c
    BY <2>1, <2>2, <2>3, <2>5 DEF Hex, EscapeValue
  <2>7. <<Percent, x, y>> \in Seq(Byte)
    BY DEF Byte, Percent
  <2>8. QED
    BY <1>2, <2>4, <2>6, <2>7
<1>3. QED
  BY <1>1, <1>2

-----------------------------------------------------------------------------
(* Decoding, by the first character of a text.                             *)

\* f has what is decoded of s from every place on.
IsDecoding(f, s) ==
    f = [i \in 0..Len(s) |->
            IF i = Len(s) THEN <<>>
            ELSE IF Escape(s, i)
            THEN <<16 * HexValue(s[i + 2]) + HexValue(s[i + 3])>> \o f[i + 3]
            ELSE <<s[i + 1]>> \o f[i + 1]]

LEMMA EscapeAt ==
    ASSUME NEW s \in Seq(Byte), NEW i \in 0..Len(s), i # Len(s)
    PROVE  /\ s[i + 1] \in Byte
           /\ Escape(s, i) => /\ i + 3 \in (i + 1)..Len(s)
                              /\ s[i + 2] \in Byte /\ s[i + 3] \in Byte
                              /\ EscapeValue(s[i + 2], s[i + 3]) \in Byte
<1>1. PICK n \in Nat : n = Len(s) /\ \A k \in 1..n : s[k] \in Byte
  BY SeqIsFunction
<1>2. i + 1 \in 1..n
  BY <1>1
<1>3. ASSUME Escape(s, i)
      PROVE  /\ i + 3 \in (i + 1)..Len(s) /\ s[i + 2] \in Byte /\ s[i + 3] \in Byte
             /\ EscapeValue(s[i + 2], s[i + 3]) \in Byte
  <2>1. i + 2 \in 1..n /\ i + 3 \in 1..n
    BY <1>1, <1>3 DEF Escape
  <2>2. PICK x \in Byte, y \in Byte : x = s[i + 2] /\ y = s[i + 3]
    BY <1>1, <2>1
  <2>3. Hex(x) /\ Hex(y)
    BY <1>3, <2>2 DEF Escape, Hex
  <2>4. EscapeValue(x, y) \in Byte
    BY <2>3, EscapeValueIs
  <2>5. QED
    BY <1>1, <2>1, <2>2, <2>4
<1>4. QED
  BY <1>1, <1>2, <1>3

LEMMA DecodingExists ==
    ASSUME NEW s \in Seq(Byte)
    PROVE  \E f : IsDecoding(f, s) /\ f \in [0..Len(s) -> Seq(Byte)]
<1>1. PICK n \in Nat : n = Len(s)
  OBVIOUS
<1>2. PICK next : next = [i \in 0..n |-> IF i = n THEN n ELSE IF Escape(s, i) THEN i + 3 ELSE i + 1]
  OBVIOUS
<1>3. PICK char : char = [i \in 0..n |-> IF i = n THEN 0
                                         ELSE IF Escape(s, i) THEN EscapeValue(s[i + 2], s[i + 3])
                                         ELSE s[i + 1]]
  OBVIOUS
<1>4. PICK step : step = [i \in 0..n |-> [x \in Seq(Byte) |-> <<char[i]>> \o x]]
  OBVIOUS
<1>5. PICK last : last = [i \in 0..n |-> <<>>]
  OBVIOUS
<1>6. next \in [0..n -> Nat]
  BY <1>2
<1>7. char \in [0..n -> Byte]
  <2>1. 0 \in Byte
    BY DEF Byte
  <2>2. QED
    BY <1>1, <1>3, <2>1, EscapeAt
<1>8. step \in [0..n -> [Seq(Byte) -> Seq(Byte)]]
  BY <1>4, <1>7
<1>9. last \in [0..n -> Seq(Byte)]
  BY <1>5
<1>10. PICK f : GoesDown(f, n, Seq(Byte), next, step, last)
  BY <1>6, <1>8, <1>9, RecursionDown
<1>11. f \in [0..n -> Seq(Byte)]
  BY <1>10 DEF GoesDown
<1>12. ASSUME NEW i \in 0..n
       PROVE  f[i] = IF i = n THEN <<>>
                     ELSE IF Escape(s, i)
                     THEN <<16 * HexValue(s[i + 2]) + HexValue(s[i + 3])>> \o f[i + 3]
                     ELSE <<s[i + 1]>> \o f[i + 1]
  <2>1. f[i] = IF next[i] \in (i + 1)..n THEN step[i][f[next[i]]] ELSE last[i]
    BY <1>10 DEF GoesDown
  <2>2. CASE i = n
    <3>1. next[i] \notin (i + 1)..n
      BY <1>2, <2>2
    <3>2. QED
      BY <1>5, <2>1, <2>2, <3>1
  <2>3. CASE i # n
    <3>1. next[i] \in (i + 1)..n /\ next[i] \in 0..n
      BY <1>1, <1>2, <2>3, EscapeAt
    <3>2. f[i] = <<char[i]>> \o f[next[i]]
      BY <1>4, <1>11, <2>1, <3>1
    <3>3. QED
      BY <1>2, <1>3, <2>3, <3>2 DEF EscapeValue
  <2>4. QED
    BY <2>2, <2>3
<1>13. IsDecoding(f, s)
  BY <1>1, <1>11, <1>12 DEF IsDecoding
<1>14. QED
  BY <1>1, <1>11, <1>13

LEMMA DecodingIs ==
    ASSUME NEW s \in Seq(Byte), NEW f, IsDecoding(f, s), NEW i \in 0..Len(s)
    PROVE  f[i] = IF i = Len(s) THEN <<>>
                  ELSE IF Escape(s, i) THEN <<EscapeValue(s[i + 2], s[i + 3])>> \o f[i + 3]
                  ELSE <<s[i + 1]>> \o f[i + 1]
BY Zenon DEF IsDecoding, EscapeValue

\* A text from a position on decodes to the same in any text.
LEMMA DecodingShifts ==
    ASSUME NEW s \in Seq(Byte), NEW f, IsDecoding(f, s), NEW k \in 0..Len(s),
           NEW t \in Seq(Byte), Len(t) = Len(s) - k, \A i \in 1..Len(t) : t[i] = s[k + i],
           NEW g, IsDecoding(g, t)
    PROVE  \A i \in 0..Len(t) : g[i] = f[k + i]
<1>1. PICK n \in Nat : n = Len(t)
  OBVIOUS
<1>2. PICK m \in Nat : m = Len(s) /\ m = k + n
  BY <1>1
<1> DEFINE S == {i \in 0..n : g[i] = f[k + i]}
<1>3. ASSUME NEW i \in 0..n, \A j \in (i + 1)..n : j \in S PROVE i \in S
  <2>1. k + i \in 0..m /\ (k + i = m <=> i = n) /\ k \in Nat /\ i \in Nat
    BY <1>1, <1>2
  <2>2. g[i] = IF i = n THEN <<>>
               ELSE IF Escape(t, i) THEN <<EscapeValue(t[i + 2], t[i + 3])>> \o g[i + 3]
               ELSE <<t[i + 1]>> \o g[i + 1]
    BY <1>1, DecodingIs
  <2>3. f[k + i] = IF i = n THEN <<>>
                   ELSE IF Escape(s, k + i)
                   THEN <<EscapeValue(s[(k + i) + 2], s[(k + i) + 3])>> \o f[(k + i) + 3]
                   ELSE <<s[(k + i) + 1]>> \o f[(k + i) + 1]
    <3>1. PICK j \in 0..Len(s) : j = k + i /\ (j = Len(s) <=> i = n)
      BY <1>2, <2>1
    <3>2. f[j] = IF j = Len(s) THEN <<>>
                 ELSE IF Escape(s, j) THEN <<EscapeValue(s[j + 2], s[j + 3])>> \o f[j + 3]
                 ELSE <<s[j + 1]>> \o f[j + 1]
      BY DecodingIs
    <3>3. QED
      BY <3>1, <3>2
  <2>4. CASE i = n
    BY <2>2, <2>3, <2>4
  <2>5. CASE i # n
    <3>1. i + 1 \in 1..n /\ i + 1 \in (i + 1)..n /\ k + (i + 1) = (k + i) + 1
      BY <2>1, <2>5
    <3>2. t[i + 1] = s[(k + i) + 1]
      BY <1>1, <3>1
    <3>3. ASSUME i + 2 < n
          PROVE  /\ t[i + 2] = s[(k + i) + 2] /\ t[i + 3] = s[(k + i) + 3]
                 /\ i + 3 \in (i + 1)..n /\ k + (i + 3) = (k + i) + 3
      <4>1. /\ i + 2 \in 1..n /\ i + 3 \in 1..n /\ k + (i + 2) = (k + i) + 2
            /\ k + (i + 3) = (k + i) + 3 /\ i + 3 \in (i + 1)..n
        BY <2>1, <3>3
      <4>2. t[i + 2] = s[k + (i + 2)] /\ t[i + 3] = s[k + (i + 3)]
        BY <1>1, <4>1
      <4>3. QED
        BY <4>1, <4>2
    <3>4. i + 2 < n <=> (k + i) + 2 < m
      BY <1>2, <2>1
    <3>5. Escape(t, i) <=> Escape(s, k + i)
      BY <1>1, <1>2, <3>2, <3>3, <3>4 DEF Escape
    <3>6. CASE Escape(t, i)
      <4>1. i + 2 < n
        BY <1>1, <3>6 DEF Escape
      <4>2. g[i + 3] = f[(k + i) + 3]
        BY <1>3, <3>3, <4>1
      <4>3. QED
        BY <2>2, <2>3, <2>5, <3>3, <3>5, <3>6, <4>1, <4>2
    <3>7. CASE ~Escape(t, i)
      <4>1. g[i + 1] = f[(k + i) + 1]
        BY <1>3, <3>1
      <4>2. QED
        BY <2>2, <2>3, <2>5, <3>2, <3>5, <3>7, <4>1
    <3>8. QED
      BY <3>6, <3>7
  <2>6. QED
    BY <2>4, <2>5
<1>4. \A i \in 0..n : i \in S
  <2> HIDE DEF S
  <2>1. QED
    BY <1>3, InductionDown
<1>5. QED
  BY <1>1, <1>4

LEMMA DecodeType ==
    ASSUME NEW s \in Seq(Byte)
    PROVE  Decode(s) \in Seq(Byte) /\ \E f : IsDecoding(f, s) /\ Decode(s) = f[0]
<1>1. PICK g : g = CHOOSE f : IsDecoding(f, s)
  OBVIOUS
<1>2. PICK h : IsDecoding(h, s) /\ h \in [0..Len(s) -> Seq(Byte)]
  BY DecodingExists
<1>3. IsDecoding(g, s)
  BY <1>1, <1>2
<1>4. Decode(s) = g[0]
  BY <1>1 DEF Decode, IsDecoding
<1>5. \A i \in 0..Len(s) : g[i] = h[0 + i]
  <2>1. 0 \in 0..Len(s) /\ Len(s) = Len(s) - 0 /\ \A i \in 1..Len(s) : s[i] = s[0 + i]
    OBVIOUS
  <2>2. QED
    BY <1>2, <1>3, <2>1, DecodingShifts
<1>6. g[0] \in Seq(Byte)
  <2>1. 0 \in 0..Len(s) /\ 0 + 0 = 0
    OBVIOUS
  <2>2. g[0] = h[0]
    BY <1>5, <2>1
  <2>3. QED
    BY <1>2, <2>1, <2>2
<1>7. QED
  BY <1>3, <1>4, <1>6

LEMMA DecodeEmpty == Decode(<<>>) = <<>>
<1>1. <<>> \in Seq(Byte) /\ Len(<<>>) = 0
  OBVIOUS
<1>2. PICK f : IsDecoding(f, <<>>) /\ Decode(<<>>) = f[0]
  BY <1>1, DecodeType
<1>3. 0 \in 0..Len(<<>>)
  BY <1>1
<1>4. QED
  BY <1>1, <1>2, <1>3, DecodingIs

\* What the rest of a text, from its k-th character on, is decoded to.
LEMMA DecodeRest ==
    ASSUME NEW s \in Seq(Byte), NEW f, IsDecoding(f, s), NEW k \in 0..Len(s),
           NEW t \in Seq(Byte), Len(t) = Len(s) - k, \A i \in 1..Len(t) : t[i] = s[k + i]
    PROVE  Decode(t) = f[k]
<1>1. PICK g : IsDecoding(g, t) /\ Decode(t) = g[0]
  BY DecodeType
<1>2. 0 \in 0..Len(t) /\ k + 0 = k
  OBVIOUS
<1>3. g[0] = f[k + 0]
  BY <1>1, <1>2, DecodingShifts
<1>4. QED
  BY <1>1, <1>2, <1>3

LEMMA DecodePlain ==
    ASSUME NEW c \in Byte, NEW t \in Seq(Byte), ~Escape(<<c>> \o t, 0)
    PROVE  Decode(<<c>> \o t) = <<c>> \o Decode(t)
<1>1. PICK n \in Nat : n = Len(t)
  OBVIOUS
<1>2. <<c>> \in Seq(Byte) /\ Len(<<c>>) = 1 /\ <<c>>[1] = c
  OBVIOUS
<1>3. PICK s \in Seq(Byte) : /\ s = <<c>> \o t /\ Len(s) = 1 + n /\ s[1] = c
                             /\ \A i \in 1..n : s[1 + i] = t[i]
  <2>1. /\ <<c>> \o t \in Seq(Byte) /\ Len(<<c>> \o t) = 1 + n /\ (<<c>> \o t)[1] = c
        /\ \A i \in 1..n : (<<c>> \o t)[1 + i] = t[i]
    BY <1>1, ConsIs
  <2>2. QED
    BY <2>1
<1>4. PICK f : IsDecoding(f, s) /\ Decode(s) = f[0]
  BY DecodeType
<1>5. 1 \in 0..Len(s) /\ Len(t) = Len(s) - 1 /\ 0 \in 0..Len(s) /\ 0 # Len(s) /\ 0 + 1 = 1
  BY <1>1, <1>3
<1>6. Decode(t) = f[1]
  BY <1>1, <1>3, <1>4, <1>5, DecodeRest, ZenonT(40)
<1>7. f[0] = <<s[1]>> \o f[1]
  <2>1. ~Escape(s, 0)
    BY <1>3
  <2>2. f[0] = <<s[0 + 1]>> \o f[0 + 1]
    BY <1>4, <1>5, <2>1, DecodingIs
  <2>3. QED
    BY <1>5, <2>2
<1>8. QED
  BY <1>3, <1>4, <1>6, <1>7

LEMMA DecodeEscape ==
    ASSUME NEW x \in Byte, NEW y \in Byte, Hex(x), Hex(y), NEW t \in Seq(Byte)
    PROVE  Decode(<<Percent, x, y>> \o t) = <<EscapeValue(x, y)>> \o Decode(t)
<1>1. PICK n \in Nat : n = Len(t)
  OBVIOUS
<1>2. PICK e \in Seq(Byte) : e = <<Percent, x, y>> /\ Len(e) = 3 /\ e[1] = Percent /\ e[2] = x /\ e[3] = y
  <2>1. /\ <<Percent, x, y>> \in Seq(Byte) /\ Len(<<Percent, x, y>>) = 3
        /\ <<Percent, x, y>>[1] = Percent /\ <<Percent, x, y>>[2] = x /\ <<Percent, x, y>>[3] = y
    BY DEF Byte, Percent
  <2>2. QED
    BY <2>1
<1>3. PICK s \in Seq(Byte) : /\ s = e \o t /\ Len(s) = 3 + n
                             /\ s[1] = Percent /\ s[2] = x /\ s[3] = y
                             /\ \A i \in 1..n : s[3 + i] = t[i]
  <2>1. /\ e \o t \in Seq(Byte) /\ Len(e \o t) = 3 + n
        /\ \A i \in 1..3 : (e \o t)[i] = e[i]
        /\ \A i \in 1..n : (e \o t)[3 + i] = t[i]
    BY <1>1, <1>2, ConcatIs
  <2>2. (e \o t)[1] = Percent /\ (e \o t)[2] = x /\ (e \o t)[3] = y
    BY <1>2, <2>1
  <2>3. QED
    BY <2>1, <2>2
<1>4. PICK f : IsDecoding(f, s) /\ Decode(s) = f[0]
  BY DecodeType
<1>5. /\ 3 \in 0..Len(s) /\ Len(t) = Len(s) - 3 /\ 0 \in 0..Len(s) /\ 0 # Len(s)
      /\ 0 + 1 = 1 /\ 0 + 2 = 2 /\ 0 + 3 = 3 /\ 2 < Len(s)
  BY <1>1, <1>3
<1>6. Decode(t) = f[3]
  <2>1. \A i \in 1..Len(t) : t[i] = s[3 + i]
    BY <1>1, <1>3
  <2>2. QED
    BY <1>4, <1>5, <2>1, DecodeRest, ZenonT(40)
<1>7. Escape(s, 0)
  BY <1>3, <1>5 DEF Escape, Hex
<1>8. f[0] = <<EscapeValue(s[2], s[3])>> \o f[3]
  <2>1. f[0] = <<EscapeValue(s[0 + 2], s[0 + 3])>> \o f[0 + 3]
    BY <1>4, <1>5, <1>7, DecodingIs
  <2>2. QED
    BY <1>5, <2>1
<1>9. QED
  BY <1>2, <1>3, <1>4, <1>6, <1>8

-----------------------------------------------------------------------------
(* Encoding, by the first character of a text.                             *)

LEMMA EncodeType ==
    ASSUME NEW s \in Seq(Byte)
    PROVE  Encode(s) \in Seq(Byte)
<1>1. PICK n \in Nat : n = Len(s) /\ DOMAIN s = 1..n /\ \A k \in 1..n : s[k] \in Byte
  BY SeqIsFunction
<1>2. PICK seqs : seqs = [k \in 1..n |-> Encoded(s[k])]
  OBVIOUS
<1>3. seqs \in [1..n -> Seq(Byte)]
  BY <1>1, <1>2, EncodedIs
<1>4. seqs \in Seq(Seq(Byte))
  BY <1>3, FunctionIsSeq
<1>5. QED
  BY <1>1, <1>2, <1>4, FlattenType DEF Encode

LEMMA EncodeEmpty == Encode(<<>>) = <<>>
<1>1. [k \in DOMAIN <<>> |-> Encoded(<<>>[k])] = <<>>
  OBVIOUS
<1>2. QED
  BY <1>1, FlattenEmpty DEF Encode

LEMMA EncodeCons ==
    ASSUME NEW c \in Byte, NEW t \in Seq(Byte)
    PROVE  Encode(<<c>> \o t) = Encoded(c) \o Encode(t)
<1>1. PICK n \in Nat : n = Len(t) /\ DOMAIN t = 1..n /\ \A k \in 1..n : t[k] \in Byte
  BY SeqIsFunction
<1>2. PICK seqs : seqs = [k \in 1..n |-> Encoded(t[k])]
  OBVIOUS
<1>3. seqs \in [1..n -> Seq(Byte)]
  BY <1>1, <1>2, EncodedIs
<1>4. seqs \in Seq(Seq(Byte)) /\ Len(seqs) = n
  BY <1>3, FunctionIsSeq
<1>5. Encoded(c) \in Seq(Byte)
  BY EncodedIs
<1>6. FlattenSeq(<<Encoded(c)>> \o seqs) = Encoded(c) \o FlattenSeq(seqs)
  BY <1>4, <1>5, FlattenCons
<1>8. PICK s \in Seq(Byte) : /\ s = <<c>> \o t /\ Len(s) = 1 + n /\ s[1] = c
                             /\ \A i \in 1..n : s[1 + i] = t[i]
  <2>1. /\ <<c>> \o t \in Seq(Byte) /\ Len(<<c>> \o t) = 1 + n /\ (<<c>> \o t)[1] = c
        /\ \A i \in 1..n : (<<c>> \o t)[1 + i] = t[i]
    BY <1>1, ConsIs
  <2>2. QED
    BY <2>1
<1>9. PICK more : more = [k \in 1..(1 + n) |-> Encoded(s[k])]
  OBVIOUS
<1>10. more \in Seq(Seq(Byte)) /\ Len(more) = 1 + n
  <2>1. \A k \in 1..(1 + n) : s[k] \in Byte
    BY <1>8, SeqIsFunction
  <2>2. more \in [1..(1 + n) -> Seq(Byte)]
    BY <1>9, <2>1, EncodedIs
  <2>3. QED
    BY <2>2, FunctionIsSeq
<1>12. PICK all \in Seq(Seq(Byte)) : /\ all = <<Encoded(c)>> \o seqs /\ Len(all) = 1 + n
                                     /\ all[1] = Encoded(c)
                                     /\ \A i \in 1..n : all[1 + i] = seqs[i]
  <2>1. PICK x \in Seq(Byte) : x = Encoded(c)
    BY <1>5
  <2>2. /\ <<x>> \o seqs \in Seq(Seq(Byte)) /\ Len(<<x>> \o seqs) = 1 + n
        /\ (<<x>> \o seqs)[1] = x
        /\ \A i \in 1..n : (<<x>> \o seqs)[1 + i] = seqs[i]
    BY <1>4, ConsIs
  <2>3. QED
    BY <2>1, <2>2
<1>13. ASSUME NEW i \in 1..(1 + n) PROVE more[i] = all[i]
  <2>1. CASE i = 1
    BY <1>8, <1>9, <1>12, <2>1
  <2>2. CASE i # 1
    <3>1. PICK k \in 1..n : i = 1 + k
      <4>1. i - 1 \in 1..n /\ i = 1 + (i - 1)
        BY <2>2
      <4>2. QED
        BY <4>1
    <3>2. QED
      BY <1>2, <1>8, <1>9, <1>12, <3>1
  <2>3. QED
    BY <2>1, <2>2
<1>14. more = all
  BY <1>10, <1>12, <1>13, SeqsAreEqual
<1>15. Encode(s) = FlattenSeq(more)
  <2>1. DOMAIN s = 1..(1 + n)
    BY <1>8
  <2>2. QED
    BY <1>9, <2>1 DEF Encode
<1>16. Encode(t) = FlattenSeq(seqs)
  BY <1>1, <1>2 DEF Encode
<1>17. QED
  BY <1>6, <1>8, <1>12, <1>14, <1>15, <1>16

\* A text that is not empty is its first character and the rest.
LEMMA FirstAndRest ==
    ASSUME NEW S, NEW s \in Seq(S), NEW n \in Nat, Len(s) = n + 1
    PROVE  \E c \in S, t \in Seq(S) : s = <<c>> \o t /\ Len(t) = n
<1>1. s # <<>>
  OBVIOUS
<1>2. Head(s) \in S /\ Tail(s) \in Seq(S) /\ Len(Tail(s)) = n /\ s = <<Head(s)>> \o Tail(s)
  BY <1>1
<1>3. QED
  BY <1>2

LEMMA DecodeOfEncode ==
    ASSUME NEW s \in Seq(Byte)
    PROVE  Decode(Encode(s)) = s
<1> DEFINE T == {n \in Nat : \A x \in Seq(Byte) : Len(x) = n => Decode(Encode(x)) = x}
<1>1. 0 \in T
  <2>1. \A x \in Seq(Byte) : Len(x) = 0 => x = <<>>
    OBVIOUS
  <2>2. QED
    BY <2>1, EncodeEmpty, DecodeEmpty
<1>2. ASSUME NEW n \in T PROVE n + 1 \in T
  <2>1. ASSUME NEW x \in Seq(Byte), Len(x) = n + 1 PROVE Decode(Encode(x)) = x
    <3>1. PICK c \in Byte, t \in Seq(Byte) : x = <<c>> \o t /\ Len(t) = n
      BY <2>1, FirstAndRest, ZenonT(40)
    <3>2. Decode(Encode(t)) = t
      BY <3>1
    <3>3. Encode(x) = Encoded(c) \o Encode(t) /\ Encode(t) \in Seq(Byte)
      BY <3>1, EncodeCons, EncodeType
    <3>4. CASE c \in Unescaped
      <4>1. Encoded(c) = <<c>> /\ c # Percent
        BY <3>4, EncodedIs
      <4>2. ~Escape(<<c>> \o Encode(t), 0)
        <5>1. (<<c>> \o Encode(t))[0 + 1] = c
          BY <3>3
        <5>2. QED
          BY <4>1, <5>1 DEF Escape
      <4>3. Decode(<<c>> \o Encode(t)) = <<c>> \o Decode(Encode(t))
        BY <3>3, <4>2, DecodePlain
      <4>4. QED
        BY <3>1, <3>2, <3>3, <4>1, <4>3
    <3>5. CASE c \notin Unescaped
      <4>1. PICK y \in Byte, z \in Byte : /\ Encoded(c) = <<Percent, y, z>>
                                          /\ Hex(y) /\ Hex(z) /\ EscapeValue(y, z) = c
        BY <3>5, EncodedIs
      <4>2. Decode(<<Percent, y, z>> \o Encode(t)) = <<EscapeValue(y, z)>> \o Decode(Encode(t))
        BY <3>3, <4>1, DecodeEscape
      <4>3. QED
        BY <3>1, <3>2, <3>3, <4>1, <4>2
    <3>6. QED
      BY <3>4, <3>5
  <2>2. QED
    BY <2>1
<1>3. T = Nat
  <2>1. T \in SUBSET Nat
    OBVIOUS
  <2> HIDE DEF T
  <2>2. QED
    BY <1>1, <1>2, <2>1, InductionOnNat
<1>4. QED
  BY <1>3

-----------------------------------------------------------------------------
(* The string that is appended to.                                         *)

\* OwnTextIsCopied makes the part that is appended the one its caller meant.
EscapesInv == EscapesTypeOK /\ OwnTextIsCopied

LEMMA SourceIs ==
    ASSUME NEW i \in 0..Len(appended), appended \in Seq(Byte)
    PROVE  SourceRead(i) = SubSeq(appended, i + 1, Len(appended)) /\ SourceRead(i) \in Seq(Byte)
<1>1. PICK n \in Nat : n = Len(appended)
  BY SeqIsFunction
<1>2. SubSeq(appended, i + 1, n) \in Seq(Byte)
  BY <1>1
<1>3. CASE i < n
  BY <1>1, <1>2, <1>3 DEF SourceRead, IsCopied
<1>4. CASE i = n
  <2>1. SubSeq(appended, i + 1, n) = <<>>
    BY <1>1, <1>4
  <2>2. [k \in DOMAIN <<>> |-> IF k = 1 THEN <<>>[k] ELSE 0] = <<>>
    OBVIOUS
  <2>3. QED
    BY <1>1, <2>1, <2>2, <1>4 DEF SourceRead, IsCopied
<1>5. QED
  BY <1>1, <1>3, <1>4

LEMMA EscapesStep == EscapesInv /\ [EscapesNext]_escapeVars => EscapesInv'
<1> SUFFICES ASSUME EscapesInv, [EscapesNext]_escapeVars PROVE EscapesInv'
  OBVIOUS
<1>1. appended \in Seq(Byte) /\ wanted = appended
  BY DEF EscapesInv, EscapesTypeOK, OwnTextIsCopied, Byte
<1>2. ASSUME NEW i \in 0..Len(appended), AppendsDecoded(i) PROVE EscapesInv'
  <2>1. PICK src \in Seq(Byte) : src = SourceRead(i) /\ src = SubSeq(wanted, i + 1, Len(wanted))
    BY <1>1, SourceIs
  <2>2. Decode(src) \in Seq(Byte)
    BY DecodeType
  <2>3. appended' = appended \o Decode(src) /\ wanted' = wanted \o Decode(src)
    BY <1>2, <2>1 DEF AppendsDecoded, Appended
  <2>4. QED
    BY <1>1, <2>2, <2>3 DEF EscapesInv, EscapesTypeOK, OwnTextIsCopied, Byte
<1>3. ASSUME NEW i \in 0..Len(appended), AppendsEncoded(i) PROVE EscapesInv'
  <2>1. PICK src \in Seq(Byte) : src = SourceRead(i) /\ src = SubSeq(wanted, i + 1, Len(wanted))
    BY <1>1, SourceIs
  <2>2. Encode(src) \in Seq(Byte)
    BY EncodeType
  <2>3. appended' = appended \o Encode(src) /\ wanted' = wanted \o Encode(src)
    BY <1>3, <2>1 DEF AppendsEncoded, Appended
  <2>4. QED
    BY <1>1, <2>2, <2>3 DEF EscapesInv, EscapesTypeOK, OwnTextIsCopied, Byte
<1>4. CASE UNCHANGED escapeVars
  BY <1>4 DEF EscapesInv, EscapesTypeOK, OwnTextIsCopied, escapeVars
<1>5. QED
  BY <1>2, <1>3, <1>4 DEF EscapesNext, EscapesDone

\* A text that is escaped and unescaped is what it was, for every text, and a part of a
\* string that is appended to it, escaped or unescaped, is the part that it was.
THEOREM EscapesCorrect == EscapesSpec => []EscapesAreExact
<1>1. EscapesInit => EscapesInv
  <2>1. Seq(1..255) \subseteq Seq(0..255)
    OBVIOUS
  <2>2. QED
    BY <2>1, EscapesAssumption DEF EscapesInit, EscapesInv, EscapesTypeOK, OwnTextIsCopied
<1>2. EscapesInv => EscapesAreExact
  BY DecodeOfEncode
     DEF EscapesInv, EscapesTypeOK, EscapesAreExact, DecodeUndoesEncode, OwnTextIsCopied, Byte
<1>3. QED
  BY <1>1, <1>2, EscapesStep, PTL DEF EscapesSpec

-----------------------------------------------------------------------------
(* Searches for a character of a set.                                      *)

\* C is what is in set.
IsSetOf(C, set) == \A c \in Byte : c \in C <=> \E k \in DOMAIN set : set[k] = c

LEMMA MembersIs ==
    ASSUME NEW t \in Seq(Byte), NEW n \in Nat, n = Len(t), NEW set, NEW C, IsSetOf(C, set)
    PROVE  \A j : j \in Members(t, set) <=> j \in 0..(n - 1) /\ t[j + 1] \in C
<1>1. ASSUME NEW j \in 0..(n - 1) PROVE OneOf(t, set, j) <=> t[j + 1] \in C
  <2>1. t[j + 1] \in Byte
    <3>1. j + 1 \in 1..n
      OBVIOUS
    <3>2. QED
      BY <3>1
  <2>2. QED
    BY <2>1 DEF OneOf, IsSetOf
<1>2. QED
  BY <1>1 DEF Members

LEMMA AnyIs ==
    ASSUME NEW t \in Seq(Byte), NEW n \in Nat, n = Len(t), NEW i \in 0..n,
           NEW set, NEW C, IsSetOf(C, set)
    PROVE  /\ IndexOfAny(t, set, i) = NotFound => \A k \in (i + 1)..n : t[k] \notin C
           /\ IndexOfAny(t, set, i) # NotFound =>
                 /\ IndexOfAny(t, set, i) \in i..(n - 1)
                 /\ t[IndexOfAny(t, set, i) + 1] \in C
                 /\ \A k \in (i + 1)..IndexOfAny(t, set, i) : t[k] \notin C
<1>1. PICK S : S = {j \in i..(n - 1) : j \in Members(t, set)}
  OBVIOUS
<1>2. \A j : j \in S <=> j \in i..(n - 1) /\ t[j + 1] \in C
  <2>1. \A j : j \in Members(t, set) <=> j \in 0..(n - 1) /\ t[j + 1] \in C
    BY MembersIs
  <2>2. QED
    BY <1>1, <2>1
<1>3. PICK a : a = FirstOf(S) /\ a = IndexOfAny(t, set, i)
  <2>1. IndexOfAny(t, set, i) = Upwards(Members(t, set), i, n - 1)
    BY DEF IndexOfAny
  <2>2. Upwards(Members(t, set), i, n - 1) = FirstOf({j \in i..(n - 1) : j \in Members(t, set)})
    BY UpwardsIs
  <2>3. QED
    BY <1>1, <2>1, <2>2
<1>4. ASSUME NEW k \in (i + 1)..n, k - 1 \notin S PROVE t[k] \notin C
  <2>1. PICK j \in i..(n - 1) : j = k - 1 /\ j + 1 = k
    OBVIOUS
  <2>2. QED
    BY <1>2, <1>4, <2>1
<1>5. CASE S = {}
  <2>1. a = NotFound
    BY <1>3, <1>5 DEF FirstOf
  <2>2. \A k \in (i + 1)..n : t[k] \notin C
    BY <1>4, <1>5
  <2>3. QED
    BY <1>3, <2>1, <2>2
<1>6. CASE S # {}
  <2>1. S \in SUBSET Nat
    BY <1>2
  <2>2. FirstOf(S) \in S /\ \A j \in S : FirstOf(S) <= j
    BY <1>6, <2>1, FirstOfNat
  <2>3. a \in i..(n - 1) /\ t[a + 1] \in C /\ \A j \in S : a <= j
    BY <1>2, <1>3, <2>2
  <2>4. ASSUME NEW k \in (i + 1)..a PROVE t[k] \notin C
    <3>1. k \in (i + 1)..n /\ ~(a <= k - 1)
      BY <2>3
    <3>2. k - 1 \notin S
      BY <2>3, <3>1
    <3>3. QED
      BY <1>4, <3>1, <3>2
  <2>5. a # NotFound
    BY <2>3 DEF NotFound
  <2>6. QED
    BY <1>3, <2>3, <2>4, <2>5
<1>7. QED
  BY <1>5, <1>6

LEMMA LastAnyIs ==
    ASSUME NEW t \in Seq(Byte), NEW n \in Nat, n = Len(t), NEW set, NEW C, IsSetOf(C, set)
    PROVE  /\ ReverseIndexOfAny(t, set, n) = NotFound => \A k \in 1..n : t[k] \notin C
           /\ ReverseIndexOfAny(t, set, n) # NotFound =>
                 /\ ReverseIndexOfAny(t, set, n) \in 0..(n - 1)
                 /\ t[ReverseIndexOfAny(t, set, n) + 1] \in C
                 /\ \A k \in (ReverseIndexOfAny(t, set, n) + 2)..n : t[k] \notin C
<1>1. PICK m \in Int : m = n - 1 /\ m >= -1 /\ Clamped(n, n - 1) = m
  BY DEF Clamped
<1>2. PICK S : S = {j \in 0..m : j \in Members(t, set)}
  OBVIOUS
<1>3. \A j : j \in S <=> j \in 0..m /\ t[j + 1] \in C
  <2>1. \A j : j \in Members(t, set) <=> j \in 0..(n - 1) /\ t[j + 1] \in C
    BY MembersIs
  <2>2. QED
    BY <1>1, <1>2, <2>1
<1>4. PICK a : a = LastOf(S) /\ a = ReverseIndexOfAny(t, set, n)
  <2>1. ReverseIndexOfAny(t, set, n) = Downwards(Members(t, set), m)
    BY <1>1 DEF ReverseIndexOfAny
  <2>2. Downwards(Members(t, set), m) = LastOf({j \in 0..m : j \in Members(t, set)})
    BY <1>1, DownwardsIs
  <2>3. QED
    BY <1>2, <2>1, <2>2
<1>5. ASSUME NEW k \in 1..n, k - 1 \notin S PROVE t[k] \notin C
  <2>1. PICK j \in 0..m : j = k - 1 /\ j + 1 = k
    BY <1>1
  <2>2. QED
    BY <1>3, <1>5, <2>1
<1>6. CASE S = {}
  <2>1. a = NotFound
    BY <1>4, <1>6 DEF LastOf
  <2>2. \A k \in 1..n : t[k] \notin C
    BY <1>5, <1>6
  <2>3. QED
    BY <1>4, <2>1, <2>2
<1>7. CASE S # {}
  <2>1. S \in SUBSET (0..n)
    BY <1>1, <1>3
  <2>2. LastOf(S) \in S /\ \A j \in S : LastOf(S) >= j
    BY <1>7, <2>1, LastOfNat
  <2>3. a \in 0..(n - 1) /\ t[a + 1] \in C /\ \A j \in S : a >= j
    BY <1>1, <1>3, <1>4, <2>2
  <2>4. ASSUME NEW k \in (a + 2)..n PROVE t[k] \notin C
    <3>1. k \in 1..n /\ ~(a >= k - 1)
      BY <2>3
    <3>2. k - 1 \notin S
      BY <2>3, <3>1
    <3>3. QED
      BY <1>5, <3>1, <3>2
  <2>5. a # NotFound
    BY <2>3 DEF NotFound
  <2>6. QED
    BY <1>4, <2>3, <2>4, <2>5
<1>8. QED
  BY <1>6, <1>7

\* Where a part ends.
IsEndAt(e, t, n, C, i) == /\ e \in i..n /\ \A k \in (i + 1)..e : t[k] \notin C
                          /\ e # n => t[e + 1] \in C

LEMMA EndAtIs ==
    ASSUME NEW t \in Seq(Byte), NEW n \in Nat, n = Len(t), NEW i \in 0..n,
           NEW set, NEW C, IsSetOf(C, set)
    PROVE  IsEndAt(EndAt(t, set, i), t, n, C, i)
<1>1. CASE IndexOfAny(t, set, i) = NotFound
  <2>1. EndAt(t, set, i) = n
    BY <1>1 DEF EndAt
  <2>2. \A k \in (i + 1)..n : t[k] \notin C
    BY <1>1, AnyIs
  <2>3. QED
    BY <2>1, <2>2 DEF IsEndAt
<1>2. CASE IndexOfAny(t, set, i) # NotFound
  <2>1. PICK a : a = IndexOfAny(t, set, i)
    OBVIOUS
  <2>4. a \in i..(n - 1) /\ t[a + 1] \in C /\ \A k \in (i + 1)..a : t[k] \notin C
    BY <1>2, <2>1, AnyIs
  <2>2. EndAt(t, set, i) = a
    BY <1>2, <2>1 DEF EndAt
  <2>3. QED
    BY <2>2, <2>4 DEF IsEndAt
<1>3. QED
  BY <1>1, <1>2

LEMMA EndAtMeets ==
    ASSUME NEW t \in Seq(Byte), NEW n \in Nat, n = Len(t), NEW i \in 0..n,
           NEW set, NEW C, IsSetOf(C, set), NEW e, IsEndAt(e, t, n, C, i)
    PROVE  EndAt(t, set, i) = e
<1>1. PICK x : x = EndAt(t, set, i)
  OBVIOUS
<1>2. IsEndAt(x, t, n, C, i)
  BY <1>1, EndAtIs
<1>3. /\ x \in i..n /\ (\A k \in (i + 1)..x : t[k] \notin C) /\ (x # n => t[x + 1] \in C)
      /\ e \in i..n /\ (\A k \in (i + 1)..e : t[k] \notin C) /\ (e # n => t[e + 1] \in C)
  BY <1>2 DEF IsEndAt
<1>4. ~(x < e)
  <2>1. ASSUME x < e PROVE FALSE
    <3>1. x # n /\ x + 1 \in (i + 1)..e
      BY <1>3, <2>1
    <3>2. QED
      BY <1>3, <3>1
  <2>2. QED
    BY <2>1
<1>5. ~(e < x)
  <2>1. ASSUME e < x PROVE FALSE
    <3>1. e # n /\ e + 1 \in (i + 1)..x
      BY <1>3, <2>1
    <3>2. QED
      BY <1>3, <3>1
  <2>2. QED
    BY <2>1
<1>6. QED
  BY <1>1, <1>3, <1>4, <1>5

-----------------------------------------------------------------------------
(* Decoding of a text in two parts, and case.                              *)

LEMMA EscapeOf ==
    ASSUME NEW s \in Seq(Byte)
    PROVE  Escape(s, 0) <=> s[1] = Percent /\ 2 < Len(s) /\ Hex(s[2]) /\ Hex(s[3])
  BY DEF Escape, Hex

\* What starts a text has no part in an escape before it.
Severs(b) == b = <<>> \/ ~Hex(b[1])

LEMMA DecodeStep ==
    ASSUME NEW a \in Seq(Byte), a # <<>>, NEW b \in Seq(Byte), Severs(b)
    PROVE  \E h \in Seq(Byte), t \in Seq(Byte) :
              /\ Len(t) < Len(a) /\ h # <<>>
              /\ Decode(a) = h \o Decode(t)
              /\ Decode(a \o b) = h \o Decode(t \o b)
<1>1. PICK n \in Nat : n = Len(a) /\ n > 0
  OBVIOUS
<1>2. PICK ab \in Seq(Byte) : /\ ab = a \o b /\ Len(ab) = n + Len(b)
                              /\ \A k \in 1..n : ab[k] = a[k]
                              /\ \A k \in 1..Len(b) : ab[n + k] = b[k]
  <2>1. PICK m \in Nat : m = Len(b)
    OBVIOUS
  <2>2. /\ a \o b \in Seq(Byte) /\ Len(a \o b) = n + m
        /\ \A k \in 1..n : (a \o b)[k] = a[k]
        /\ \A k \in 1..m : (a \o b)[n + k] = b[k]
    BY <1>1, <2>1, ConcatIs
  <2>3. QED
    BY <2>1, <2>2
<1>3. CASE Escape(a, 0)
  <2>1. a[1] = Percent /\ 2 < n /\ Hex(a[2]) /\ Hex(a[3])
    BY <1>1, <1>3, EscapeOf
  <2>2. PICK x \in Byte, y \in Byte : x = a[2] /\ y = a[3] /\ Hex(x) /\ Hex(y)
    <3>1. 2 \in 1..n /\ 3 \in 1..n
      BY <2>1
    <3>2. a[2] \in Byte /\ a[3] \in Byte
      BY <1>1, <3>1
    <3>3. QED
      BY <2>1, <3>2
  <2>3. PICK m \in Nat : n = 3 + m
    <3>1. n - 3 \in Nat /\ n = 3 + (n - 3)
      BY <2>1
    <3>2. QED
      BY <3>1
  <2>4. PICK t \in Seq(Byte) : Len(t) = m /\ \A j \in 1..m : t[j] = a[3 + j]
    <3>1. PICK q \in Nat : q = 3 /\ q + m <= Len(a)
      BY <1>1, <2>3
    <3>2. /\ SubSeq(a, q + 1, q + m) \in Seq(Byte) /\ Len(SubSeq(a, q + 1, q + m)) = m
          /\ \A j \in 1..m : SubSeq(a, q + 1, q + m)[j] = a[q + j]
      BY <3>1, PartIs
    <3>3. QED
      BY <3>1, <3>2
  <2>5. PICK p \in Seq(Byte) : p = <<Percent, x, y>> /\ Len(p) = 3 /\ p[1] = Percent /\ p[2] = x /\ p[3] = y
    <3>1. Percent \in Byte
      BY DEF Percent, Byte
    <3>2. /\ <<Percent, x, y>> \in Seq(Byte) /\ Len(<<Percent, x, y>>) = 3
          /\ <<Percent, x, y>>[1] = Percent /\ <<Percent, x, y>>[2] = x /\ <<Percent, x, y>>[3] = y
      BY <3>1
    <3>3. QED
      BY <3>2
  <2>6. PICK w \in Seq(Byte) : /\ w = p \o t /\ Len(w) = 3 + m
                              /\ \A k \in 1..3 : w[k] = p[k]
                              /\ \A j \in 1..m : w[3 + j] = t[j]
    <3>1. 3 \in Nat
      OBVIOUS
    <3>2. /\ p \o t \in Seq(Byte) /\ Len(p \o t) = 3 + m
          /\ \A k \in 1..3 : (p \o t)[k] = p[k]
          /\ \A k \in 1..m : (p \o t)[3 + k] = t[k]
      BY <2>4, <2>5, <3>1, ConcatIs, SMTT(40)
    <3>3. QED
      BY <3>2
  <2>7. a = w
    <3>1. ASSUME NEW k \in 1..n PROVE a[k] = w[k]
      <4>1. CASE k \in 1..3
        <5>1. k = 1 \/ k = 2 \/ k = 3
          BY <4>1
        <5>2. w[k] = p[k]
          BY <2>6, <4>1
        <5>3. QED
          BY <2>1, <2>2, <2>5, <5>1, <5>2
      <4>2. CASE k \notin 1..3
        <5>1. PICK j \in 1..m : k = 3 + j
          <6>1. k - 3 \in 1..m /\ k = 3 + (k - 3)
            BY <2>3, <4>2
          <6>2. QED
            BY <6>1
        <5>2. w[3 + j] = t[j] /\ t[j] = a[3 + j]
          BY <2>4, <2>6
        <5>3. QED
          BY <5>1, <5>2
      <4>3. QED
        BY <4>1, <4>2
    <3>2. QED
      BY <1>1, <2>3, <2>6, <3>1, SeqsAreEqual
  <2>8. PICK h \in Seq(Byte) : h = <<EscapeValue(x, y)>>
    <3>1. EscapeValue(x, y) \in Byte
      BY <2>2, EscapeValueIs
    <3>2. <<EscapeValue(x, y)>> \in Seq(Byte)
      BY <3>1
    <3>3. QED
      BY <3>2
  <2>9. Decode(a) = h \o Decode(t)
    <3>1. Decode(<<Percent, x, y>> \o t) = <<EscapeValue(x, y)>> \o Decode(t)
      BY <2>2, DecodeEscape
    <3>2. QED
      BY <2>5, <2>6, <2>7, <2>8, <3>1, Zenon
  <2>10. Decode(a \o b) = h \o Decode(t \o b)
    <3>1. a \o b = p \o (t \o b)
      <4>1. (p \o t) \o b = p \o (t \o b)
        BY SMTT(40)
      <4>2. QED
        BY <2>6, <2>7, <4>1, Zenon
    <3>2. t \o b \in Seq(Byte)
      OBVIOUS
    <3>3. Decode(<<Percent, x, y>> \o (t \o b)) = <<EscapeValue(x, y)>> \o Decode(t \o b)
      BY <2>2, <3>2, DecodeEscape
    <3>4. QED
      BY <2>5, <2>8, <3>1, <3>3, Zenon
  <2>11. Len(t) < Len(a) /\ h # <<>>
    BY <1>1, <2>3, <2>4, <2>8
  <2>12. QED
    BY <2>9, <2>10, <2>11
<1>4. CASE ~Escape(a, 0)
  <2>1. PICK m \in Nat : n = m + 1
    <3>1. n - 1 \in Nat /\ n = (n - 1) + 1
      BY <1>1
    <3>2. QED
      BY <3>1
  <2>2. PICK c \in Byte, t \in Seq(Byte) : a = <<c>> \o t /\ Len(t) = m
    <3>1. Len(a) = m + 1
      BY <1>1, <2>1
    <3>2. QED
      BY <3>1, FirstAndRest
  <2>3. ~Escape(ab, 0)
    <3>1. ASSUME Escape(ab, 0) PROVE FALSE
      <4>1. ab[1] = Percent /\ 2 < Len(ab) /\ Hex(ab[2]) /\ Hex(ab[3])
        BY <3>1, EscapeOf
      <4>2. CASE n > 2
        <5>1. 1 \in 1..n /\ 2 \in 1..n /\ 3 \in 1..n
          BY <4>2
        <5>2. a[1] = Percent /\ 2 < Len(a) /\ Hex(a[2]) /\ Hex(a[3])
          BY <1>1, <1>2, <4>1, <4>2, <5>1
        <5>3. QED
          BY <1>4, <5>2, EscapeOf
      <4>3. CASE ~(n > 2)
        <5>1. n = 1 \/ n = 2
          BY <1>1, <4>3
        <5>2. b # <<>> /\ 1 \in 1..Len(b)
          <6>1. Len(b) # 0
            BY <1>2, <4>1, <5>1
          <6>2. QED
            BY <6>1
        <5>3. ab[n + 1] = b[1] /\ n + 1 \in {2, 3}
          BY <1>2, <5>1, <5>2
        <5>4. Hex(ab[n + 1])
          BY <4>1, <5>1, <5>3
        <5>5. QED
          BY <5>2, <5>3, <5>4 DEF Severs
      <4>4. QED
        BY <4>2, <4>3
    <3>2. QED
      BY <3>1
  <2>4. PICK h \in Seq(Byte) : h = <<c>>
    <3>1. <<c>> \in Seq(Byte)
      OBVIOUS
    <3>2. QED
      BY <3>1
  <2>5. Decode(a) = h \o Decode(t)
    BY <1>4, <2>2, <2>4, DecodePlain
  <2>6. ab = h \o (t \o b)
    BY <1>2, <2>2, <2>4, ConcatAssoc
  <2>7. Decode(a \o b) = h \o Decode(t \o b)
    <3>1. t \o b \in Seq(Byte)
      OBVIOUS
    <3>2. ~Escape(<<c>> \o (t \o b), 0)
      BY <2>3, <2>4, <2>6
    <3>3. Decode(<<c>> \o (t \o b)) = <<c>> \o Decode(t \o b)
      BY <3>1, <3>2, DecodePlain
    <3>4. QED
      BY <1>2, <2>4, <2>6, <3>3
  <2>8. Len(t) < Len(a) /\ h # <<>>
    BY <1>1, <2>1, <2>2, <2>4
  <2>9. QED
    BY <2>5, <2>7, <2>8
<1>5. QED
  BY <1>3, <1>4

LEMMA DecodeJoinStep ==
    ASSUME NEW s \in Seq(Byte), NEW b \in Seq(Byte), Severs(b),
           \A t \in Seq(Byte) : Len(t) < Len(s) => Decode(t \o b) = Decode(t) \o Decode(b)
    PROVE  Decode(s \o b) = Decode(s) \o Decode(b)
<1>1. PICK y \in Seq(Byte) : y = Decode(b)
  BY DecodeType
<1>2. CASE s = <<>>
  <2>1. s \o b = b /\ <<>> \o y = y
    BY <1>2
  <2>2. Decode(s) = <<>>
    BY <1>2, DecodeEmpty
  <2>3. QED
    BY <1>1, <2>1, <2>2
<1>3. CASE s # <<>>
  <2>1. PICK h \in Seq(Byte), t \in Seq(Byte) :
            /\ Len(t) < Len(s) /\ h # <<>>
            /\ Decode(s) = h \o Decode(t)
            /\ Decode(s \o b) = h \o Decode(t \o b)
    BY <1>3, DecodeStep, Zenon
  <2>2. PICK x \in Seq(Byte) : x = Decode(t)
    BY DecodeType
  <2>3. Decode(t \o b) = x \o y
    BY <1>1, <2>1, <2>2
  <2>4. (h \o x) \o y = h \o (x \o y)
    OBVIOUS
  <2>5. QED
    BY <1>1, <2>1, <2>2, <2>3, <2>4
<1>4. QED
  BY <1>2, <1>3

LEMMA DecodeJoin ==
    ASSUME NEW a \in Seq(Byte), NEW b \in Seq(Byte), Severs(b)
    PROVE  Decode(a \o b) = Decode(a) \o Decode(b)
<1> DEFINE T == {n \in Nat : \A s \in Seq(Byte) : Len(s) = n => Decode(s \o b) = Decode(s) \o Decode(b)}
<1>1. ASSUME NEW n \in Nat, \A m \in 0..(n - 1) : m \in T PROVE n \in T
  <2>1. ASSUME NEW s \in Seq(Byte), Len(s) = n PROVE Decode(s \o b) = Decode(s) \o Decode(b)
    <3>1. ASSUME NEW t \in Seq(Byte), Len(t) < Len(s)
          PROVE  Decode(t \o b) = Decode(t) \o Decode(b)
      <4>1. PICK m \in 0..(n - 1) : m = Len(t)
        BY <2>1, <3>1
      <4>2. m \in T
        BY <1>1
      <4>3. QED
        BY <4>1, <4>2
    <3> HIDE DEF T
    <3>2. QED
      BY <3>1, DecodeJoinStep
  <2>2. QED
    BY <2>1
<1>2. T = Nat
  <2>1. T \in SUBSET Nat
    OBVIOUS
  <2> HIDE DEF T
  <2>2. QED
    BY <1>1, <2>1, StrongInduction
<1>3. PICK n \in T : n = Len(a)
  BY <1>2
<1>4. QED
  BY <1>3

\* A text without a percent sign is itself.
LEMMA DecodeOrdinaryStep ==
    ASSUME NEW s \in Seq(Byte), NEW n \in Nat, Len(s) = n + 1, \A k \in 1..(n + 1) : s[k] # Percent,
           NEW b \in Seq(Byte),
           \A t \in Seq(Byte) : Len(t) = n /\ (\A k \in 1..n : t[k] # Percent)
                                    => Decode(t \o b) = t \o Decode(b)
    PROVE  Decode(s \o b) = s \o Decode(b)
<1>1. PICK c \in Byte, t \in Seq(Byte) : s = <<c>> \o t /\ Len(t) = n
  BY FirstAndRest
<1>2. (<<c>> \o t)[1] = c /\ \A k \in 1..n : (<<c>> \o t)[1 + k] = t[k]
  BY <1>1, ConsIs
<1>3. c # Percent
  BY <1>1, <1>2
<1>4. ASSUME NEW k \in 1..n PROVE t[k] # Percent
  <2>1. 1 + k \in 1..(n + 1)
    OBVIOUS
  <2>2. s[1 + k] # Percent /\ s[1 + k] = t[k]
    BY <1>1, <1>2, <2>1
  <2>3. QED
    BY <2>2
<1>5. Decode(t \o b) = t \o Decode(b)
  BY <1>1, <1>4
<1>6. PICK tb \in Seq(Byte) : tb = t \o b
  <2>1. t \o b \in Seq(Byte)
    OBVIOUS
  <2>2. QED
    BY <2>1
<1>7. ~Escape(<<c>> \o tb, 0)
  <2>1. PICK m \in Nat : m = Len(tb)
    OBVIOUS
  <2>2. <<c>> \o tb \in Seq(Byte) /\ (<<c>> \o tb)[1] = c
    BY <2>1, ConsIs
  <2>3. QED
    BY <1>3, <2>2, EscapeOf
<1>8. Decode(<<c>> \o tb) = <<c>> \o Decode(tb)
  BY <1>7, DecodePlain
<1>9. PICK x \in Seq(Byte) : x = <<c>>
  <2>1. <<c>> \in Seq(Byte)
    OBVIOUS
  <2>2. QED
    BY <2>1
<1>10. PICK d \in Seq(Byte) : d = Decode(b)
  BY DecodeType
<1>11. (x \o t) \o b = x \o (t \o b)
  BY SMTT(40)
<1>13. (x \o t) \o d = x \o (t \o d)
  OBVIOUS
<1>12. QED
  BY <1>1, <1>5, <1>6, <1>8, <1>9, <1>10, <1>11, <1>13

LEMMA DecodeOrdinary ==
    ASSUME NEW a \in Seq(Byte), \A k \in 1..Len(a) : a[k] # Percent, NEW b \in Seq(Byte)
    PROVE  Decode(a \o b) = a \o Decode(b)
<1> DEFINE T == {n \in Nat : \A s \in Seq(Byte) : Len(s) = n /\ (\A k \in 1..n : s[k] # Percent)
                                                    => Decode(s \o b) = s \o Decode(b)}
<1>1. 0 \in T
  <2>1. ASSUME NEW s \in Seq(Byte), Len(s) = 0 PROVE Decode(s \o b) = s \o Decode(b)
    <3>1. s = <<>> /\ s \o b = b
      BY <2>1
    <3>2. PICK d \in Seq(Byte) : d = Decode(b)
      BY DecodeType
    <3>3. s \o d = d
      BY <3>1
    <3>4. QED
      BY <3>1, <3>2, <3>3
  <2>2. QED
    BY <2>1
<1>2. ASSUME NEW n \in Nat, n \in T PROVE n + 1 \in T
  <2>1. \A t \in Seq(Byte) : Len(t) = n /\ (\A k \in 1..n : t[k] # Percent)
                                => Decode(t \o b) = t \o Decode(b)
    BY <1>2
  <2>2. ASSUME NEW s \in Seq(Byte), Len(s) = n + 1, \A k \in 1..(n + 1) : s[k] # Percent
        PROVE  Decode(s \o b) = s \o Decode(b)
    <3> HIDE DEF T
    <3>1. QED
      BY <2>1, <2>2, DecodeOrdinaryStep
  <2>3. QED
    BY <2>2
<1>3. T = Nat
  <2>1. T \in SUBSET Nat
    OBVIOUS
  <2> HIDE DEF T
  <2>2. \A n \in T : n + 1 \in T
    BY <1>2, <2>1
  <2>3. QED
    BY <1>1, <2>1, <2>2, InductionOnNat
<1>4. PICK n \in T : n = Len(a)
  BY <1>3
<1>5. QED
  BY <1>4

\* Nothing decodes to nothing else.
LEMMA DecodeSome ==
    ASSUME NEW a \in Seq(Byte), a # <<>>
    PROVE  Decode(a) # <<>>
<1>1. <<>> \in Seq(Byte) /\ Severs(<<>>)
  BY DEF Severs
<1>2. PICK h \in Seq(Byte), t \in Seq(Byte) :
          /\ Len(t) < Len(a) /\ h # <<>>
          /\ Decode(a) = h \o Decode(t)
          /\ Decode(a \o <<>>) = h \o Decode(t \o <<>>)
  BY <1>1, DecodeStep, Zenon
<1>3. PICK d \in Seq(Byte) : d = Decode(t)
  BY DecodeType
<1>4. Len(h \o d) > 0
  BY <1>2
<1>5. QED
  BY <1>2, <1>3, <1>4

-----------------------------------------------------------------------------
(* Case.                                                                   *)

LEMMA LowerIs ==
    ASSUME NEW c \in Byte
    PROVE  /\ Lower(c) \in Byte /\ Lower(Lower(c)) = Lower(c)
           /\ c \notin 65..90 => Lower(c) = c
           /\ HexValue(Lower(c)) = HexValue(c)
<1>1. c \in 0..255
  BY DEF Byte
<1>2. CASE c \in 65..90
  <2>1. PICK d \in 97..122 : d = Lower(c) /\ d = c + 32
    <3>1. Lower(c) = c + 32 /\ c + 32 \in 97..122
      BY <1>2 DEF Lower
    <3>2. QED
      BY <3>1
  <2>2. Lower(d) = d /\ d \in Byte
    BY DEF Lower, Byte
  <2>3. HexValue(d) = HexValue(c)
    BY <1>2, <2>1 DEF HexValue, Digits, NotFound
  <2>4. QED
    BY <1>2, <2>1, <2>2, <2>3
<1>3. CASE c \notin 65..90
  <2>1. Lower(c) = c
    BY <1>3 DEF Lower
  <2>2. QED
    BY <2>1
<1>4. QED
  BY <1>2, <1>3

LEMMA TextLowerIs ==
    ASSUME NEW s \in Seq(Byte), NEW n \in Nat, n = Len(s)
    PROVE  /\ TextLower(s) \in Seq(Byte) /\ Len(TextLower(s)) = n
           /\ \A k \in 1..n : TextLower(s)[k] = Lower(s[k])
<1>1. DOMAIN s = 1..n /\ \A k \in 1..n : s[k] \in Byte
  OBVIOUS
<1>2. TextLower(s) = [k \in 1..n |-> Lower(s[k])]
  BY <1>1 DEF TextLower
<1>3. \A k \in 1..n : Lower(s[k]) \in Byte
  BY <1>1, LowerIs
<1>4. PICK f : f = [k \in 1..n |-> Lower(s[k])]
  OBVIOUS
<1>5. f \in [1..n -> Byte] /\ \A k \in 1..n : f[k] = Lower(s[k])
  BY <1>3, <1>4
<1>6. f \in Seq(Byte) /\ Len(f) = n
  BY <1>5, FunctionIsSeq
<1>7. QED
  BY <1>2, <1>4, <1>5, <1>6

LEMMA TextLowerTwice ==
    ASSUME NEW s \in Seq(Byte)
    PROVE  TextLower(TextLower(s)) = TextLower(s)
<1>1. PICK n \in Nat : n = Len(s)
  OBVIOUS
<1>2. PICK t \in Seq(Byte) : /\ t = TextLower(s) /\ Len(t) = n
                             /\ \A k \in 1..n : t[k] = Lower(s[k])
  BY <1>1, TextLowerIs
<1>3. PICK w \in Seq(Byte) : /\ w = TextLower(t) /\ Len(w) = n
                             /\ \A k \in 1..n : w[k] = Lower(t[k])
  BY <1>2, TextLowerIs
<1>4. ASSUME NEW k \in 1..n PROVE w[k] = t[k]
  <2>1. s[k] \in Byte
    BY <1>1
  <2>2. QED
    BY <1>2, <1>3, <2>1, LowerIs
<1>5. w = t
  BY <1>2, <1>3, <1>4, SeqsAreEqual
<1>6. QED
  BY <1>2, <1>3, <1>5

LEMMA TextLowerEmpty == TextLower(<<>>) = <<>>
  BY DEF TextLower

LEMMA TextLowerJoin ==
    ASSUME NEW s \in Seq(Byte), NEW t \in Seq(Byte)
    PROVE  TextLower(s \o t) = TextLower(s) \o TextLower(t)
<1>1. PICK m \in Nat, n \in Nat : m = Len(s) /\ n = Len(t)
  OBVIOUS
<1>2. PICK a \in Seq(Byte) : /\ a = s \o t /\ Len(a) = m + n
                             /\ \A k \in 1..m : a[k] = s[k]
                             /\ \A k \in 1..n : a[m + k] = t[k]
  <2>1. /\ s \o t \in Seq(Byte) /\ Len(s \o t) = m + n
        /\ \A k \in 1..m : (s \o t)[k] = s[k]
        /\ \A k \in 1..n : (s \o t)[m + k] = t[k]
    BY <1>1, ConcatIs
  <2>2. QED
    BY <2>1
<1>3. PICK x \in Seq(Byte) : x = TextLower(s) /\ Len(x) = m /\ \A k \in 1..m : x[k] = Lower(s[k])
  BY <1>1, TextLowerIs
<1>4. PICK y \in Seq(Byte) : y = TextLower(t) /\ Len(y) = n /\ \A k \in 1..n : y[k] = Lower(t[k])
  BY <1>1, TextLowerIs
<1>5. PICK l \in Nat : l = m + n
  OBVIOUS
<1>6. PICK z \in Seq(Byte) : z = TextLower(a) /\ Len(z) = l /\ \A k \in 1..l : z[k] = Lower(a[k])
  BY <1>2, <1>5, TextLowerIs
<1>7. PICK w \in Seq(Byte) : /\ w = x \o y /\ Len(w) = m + n
                             /\ \A k \in 1..m : w[k] = x[k]
                             /\ \A k \in 1..n : w[m + k] = y[k]
  <2>1. m = Len(x) /\ n = Len(y)
    BY <1>3, <1>4
  <2>2. /\ x \o y \in Seq(Byte) /\ Len(x \o y) = m + n
        /\ \A k \in 1..m : (x \o y)[k] = x[k]
        /\ \A k \in 1..n : (x \o y)[m + k] = y[k]
    BY <2>1, ConcatIs
  <2>3. QED
    BY <2>2
<1>8. ASSUME NEW k \in 1..l PROVE z[k] = w[k]
  <2>1. CASE k <= m
    <3>1. k \in 1..m
      BY <2>1
    <3>2. z[k] = Lower(a[k]) /\ a[k] = s[k] /\ w[k] = x[k] /\ x[k] = Lower(s[k])
      BY <1>2, <1>3, <1>6, <1>7, <3>1
    <3>3. QED
      BY <3>2
  <2>2. CASE ~(k <= m)
    <3>1. PICK j \in 1..n : k = m + j
      <4>1. k - m \in 1..n /\ k = m + (k - m)
        BY <1>5, <2>2
      <4>2. QED
        BY <4>1
    <3>2. z[k] = Lower(a[k])
      BY <1>6
    <3>3. a[m + j] = t[j] /\ w[m + j] = y[j] /\ y[j] = Lower(t[j])
      BY <1>2, <1>4, <1>7
    <3>4. QED
      BY <3>1, <3>2, <3>3
  <2>3. QED
    BY <2>1, <2>2
<1>9. z = w
  BY <1>5, <1>6, <1>7, <1>8, SeqsAreEqual
<1>10. QED
  BY <1>2, <1>3, <1>4, <1>6, <1>7, <1>9

-----------------------------------------------------------------------------
(* The places of the parts of a text.                                      *)

LEMMA CharAtIs ==
    ASSUME NEW t \in Seq(Byte), NEW n \in Nat, n = Len(t), NEW i \in Nat
    PROVE  /\ i < n => CharAt(t, i) = t[i + 1] /\ t[i + 1] \in Byte
           /\ ~(i < n) => CharAt(t, i) = 0
<1>1. i < n => CharAt(t, i) = t[i + 1]
  BY DEF CharAt
<1>2. ~(i < n) => CharAt(t, i) = 0
  BY DEF CharAt
<1>3. i < n => t[i + 1] \in Byte
  <2>1. i < n => i + 1 \in 1..n
    OBVIOUS
  <2>2. QED
    BY <2>1
<1>4. QED
  BY <1>1, <1>2, <1>3

LEMMA SliceIs ==
    ASSUME NEW t \in Seq(Byte), NEW i \in Nat, NEW j \in Nat, i <= j, j <= Len(t)
    PROVE  Slice(t, i, j) = Cut(t, i, j)
<1>1. PICK n \in Nat : n = j - i /\ j = i + n
  OBVIOUS
<1>2. PICK s \in Seq(Byte) : s = Append(t, 0) /\ Len(s) = Len(t) + 1 /\ \A k \in 1..Len(t) : s[k] = t[k]
  <2>1. 0 \in Byte
    BY DEF Byte
  <2>2. /\ Append(t, 0) \in Seq(Byte) /\ Len(Append(t, 0)) = Len(t) + 1
        /\ \A k \in 1..Len(t) : Append(t, 0)[k] = t[k]
    BY <2>1
  <2>3. QED
    BY <2>2
<1>3. i + n <= Len(t) /\ i + n <= Len(s)
  BY <1>1, <1>2
<1>4. \A k \in 1..n : s[i + k] = t[i + k]
  BY <1>2, <1>3
<1>5. SubSeq(s, i + 1, i + n) = SubSeq(t, i + 1, i + n)
  <2>1. PICK x \in Seq(Byte) : /\ x = SubSeq(s, i + 1, i + n) /\ Len(x) = n
                               /\ \A k \in 1..n : x[k] = s[i + k]
    <3>1. /\ SubSeq(s, i + 1, i + n) \in Seq(Byte) /\ Len(SubSeq(s, i + 1, i + n)) = n
          /\ \A k \in 1..n : SubSeq(s, i + 1, i + n)[k] = s[i + k]
      BY <1>3, PartIs
    <3>2. QED
      BY <3>1
  <2>2. PICK y \in Seq(Byte) : /\ y = SubSeq(t, i + 1, i + n) /\ Len(y) = n
                               /\ \A k \in 1..n : y[k] = t[i + k]
    <3>1. /\ SubSeq(t, i + 1, i + n) \in Seq(Byte) /\ Len(SubSeq(t, i + 1, i + n)) = n
          /\ \A k \in 1..n : SubSeq(t, i + 1, i + n)[k] = t[i + k]
      BY <1>3, PartIs
    <3>2. QED
      BY <3>1
  <2>3. Len(x) = Len(y) /\ \A k \in 1..Len(x) : x[k] = y[k]
    BY <1>4, <2>1, <2>2
  <2>4. x = y
    BY <2>3, SeqsAreEqual
  <2>5. QED
    BY <2>1, <2>2, <2>4
<1>6. QED
  BY <1>1, <1>2, <1>5 DEF Slice, Cut

\* The scheme has no percent sign, and its characters are letters, + - . : and /.
LEMMA SchemeEndIs ==
    ASSUME NEW t \in Seq(Byte), NEW n \in Nat, n = Len(t)
    PROVE  /\ SchemeEnd(t) \in 0..n
           /\ \A k \in 1..SchemeEnd(t) : t[k] \in SchemeChars \cup {Colon, Slash}
<1>1. PICK ends : ends = {i \in 1..(Len(t) - 1) : t[i + 1] \notin SchemeChars}
  OBVIOUS
<1>2. PICK colon : colon = Upwards(ends, 1, Len(t) - 1)
  OBVIOUS
<1>3. SchemeEnd(t) = IF CharAt(t, 0) \notin Letters \/ colon = NotFound THEN 0
                     ELSE IF t[colon + 1] # Colon THEN 0
                     ELSE IF DoubleSlash(t, colon + 1) THEN colon + 3 ELSE colon + 1
  BY <1>1, <1>2 DEF SchemeEnd
<1>4. CASE CharAt(t, 0) \notin Letters \/ colon = NotFound
  <2>1. SchemeEnd(t) = 0
    BY <1>3, <1>4
  <2>2. QED
    BY <2>1
<1>5. CASE CharAt(t, 0) \in Letters /\ colon # NotFound
  <2>1. PICK S : S = {i \in 1..(n - 1) : i \in ends}
    OBVIOUS
  <2>2. \A i : i \in S <=> i \in 1..(n - 1) /\ t[i + 1] \notin SchemeChars
    BY <1>1, <2>1
  <2>3. colon = FirstOf(S)
    <3>1. 1 \in Int /\ n - 1 \in Int
      OBVIOUS
    <3>2. Upwards(ends, 1, n - 1) = FirstOf({i \in 1..(n - 1) : i \in ends})
      BY <3>1, UpwardsIs
    <3>3. QED
      BY <1>2, <2>1, <3>2
  <2>4. S # {} /\ S \in SUBSET Nat
    <3>1. S = {} => FirstOf(S) = NotFound
      BY DEF FirstOf
    <3>2. QED
      BY <1>5, <2>2, <2>3, <3>1
  <2>5. FirstOf(S) \in S /\ \A j \in S : FirstOf(S) <= j
    BY <2>4, FirstOfNat
  <2>6. colon \in 1..(n - 1) /\ \A j \in S : colon <= j
    BY <2>2, <2>3, <2>5
  <2>7. ASSUME NEW k \in 1..colon PROVE t[k] \in SchemeChars
    <3>1. CASE k = 1
      <4>1. 0 < n /\ 0 + 1 = 1 /\ 0 \in Nat
        BY <2>6
      <4>2. CharAt(t, 0) = t[1]
        BY <4>1, CharAtIs
      <4>3. QED
        BY <1>5, <3>1, <4>2 DEF SchemeChars
    <3>2. CASE k # 1
      <4>1. PICK j \in 1..(n - 1) : j = k - 1 /\ j + 1 = k /\ ~(colon <= j)
        BY <2>6, <3>2
      <4>2. j \notin S
        BY <2>6, <4>1
      <4>3. QED
        BY <2>2, <4>1, <4>2
    <3>3. QED
      BY <3>1, <3>2
  <2>8. CASE t[colon + 1] # Colon
    <3>1. SchemeEnd(t) = 0
      BY <1>3, <1>5, <2>8
    <3>2. QED
      BY <3>1
  <2>9. CASE t[colon + 1] = Colon /\ DoubleSlash(t, colon + 1)
    <3>1. SchemeEnd(t) = colon + 3
      BY <1>3, <1>5, <2>9
    <3>2. /\ (colon + 1) + 2 <= n
          /\ t[(colon + 1) + 1] = Slash /\ t[(colon + 1) + 2] = Slash
      BY <2>9 DEF DoubleSlash
    <3>3. colon + 3 \in 0..n /\ t[colon + 2] = Slash /\ t[colon + 3] = Slash
      <4>1. (colon + 1) + 1 = colon + 2 /\ (colon + 1) + 2 = colon + 3
        BY <2>6
      <4>2. QED
        BY <2>6, <3>2, <4>1
    <3>4. ASSUME NEW k \in 1..(colon + 3) PROVE t[k] \in SchemeChars \cup {Colon, Slash}
      <4>1. k \in 1..colon \/ k = colon + 1 \/ k = colon + 2 \/ k = colon + 3
        BY <2>6
      <4>2. QED
        BY <2>7, <2>9, <3>3, <4>1
    <3>5. QED
      BY <3>1, <3>3, <3>4
  <2>10. CASE t[colon + 1] = Colon /\ ~DoubleSlash(t, colon + 1)
    <3>1. SchemeEnd(t) = colon + 1
      BY <1>3, <1>5, <2>10
    <3>2. ASSUME NEW k \in 1..(colon + 1) PROVE t[k] \in SchemeChars \cup {Colon, Slash}
      <4>1. k \in 1..colon \/ k = colon + 1
        BY <2>6
      <4>2. QED
        BY <2>7, <2>10, <4>1
    <3>3. QED
      BY <2>6, <3>1, <3>2
  <2>11. QED
    BY <2>8, <2>9, <2>10
<1>6. QED
  BY <1>4, <1>5
\* The characters that end an authority.
Marks == {Slash, Question, Hash}

\* The places of the parts of t: the ends of the scheme and its slashes, the authority, the
\* path and the query.
ArePlaces(t, n, s, a, p, q, f) ==
    /\ s = SchemeEnd(t) /\ a = AuthorityStart(t, s)
    /\ p = PathStart(t, a) /\ q = PathEnd(t, p) /\ f = QueryEnd(t, q)
    /\ s \in 0..n /\ a \in s..n /\ p \in a..n /\ q \in p..n /\ f \in Nat /\ q <= f
    /\ a = s \/ (a = s + 2 /\ t[s + 1] = Slash /\ t[s + 2] = Slash)
    /\ IsEndAt(p, t, n, Marks, a)
    /\ q = p \/ (q > p /\ t[p + 1] = Slash /\ IsEndAt(q, t, n, {Question, Hash}, p + 1))
    /\ q # n => t[q + 1] \in {Question, Hash}
    /\ CharAt(t, q) # Question => f = q
    /\ CharAt(t, q) = Question => /\ q < n /\ t[q + 1] = Question /\ q + 2 <= f
                                  /\ f <= n => IsEndAt(f, t, n, {Hash}, q + 2)

LEMMA MarksAre ==
    /\ IsSetOf(Marks, <<Slash, Question, Hash>>) /\ IsSetOf({Question, Hash}, <<Question, Hash>>)
    /\ IsSetOf({Hash}, <<Hash>>) /\ IsSetOf({Colon}, <<Colon>>) /\ IsSetOf({AtSign}, <<AtSign>>)
<1>1. IsSetOf(Marks, <<Slash, Question, Hash>>)
  <2>1. PICK set : set = <<Slash, Question, Hash>>
    OBVIOUS
  <2>2. set[1] = Slash /\ set[2] = Question /\ set[3] = Hash /\ DOMAIN set = 1..3
    BY <2>1
  <2>3. \A k : k \in DOMAIN set <=> k = 1 \/ k = 2 \/ k = 3
    BY <2>2
  <2>4. ASSUME NEW c PROVE c \in Marks <=> \E k \in DOMAIN set : set[k] = c
    <3>1. 1 \in DOMAIN set /\ 2 \in DOMAIN set /\ 3 \in DOMAIN set
      BY <2>3
    <3>2. c \in Marks <=> c = Slash \/ c = Question \/ c = Hash
      BY Zenon DEF Marks
    <3>3. QED
      BY <2>2, <2>3, <3>1, <3>2, Zenon
  <2>5. QED
    BY <2>1, <2>4 DEF IsSetOf
<1>2. IsSetOf({Question, Hash}, <<Question, Hash>>)
  <2>1. PICK set : set = <<Question, Hash>>
    OBVIOUS
  <2>2. set[1] = Question /\ set[2] = Hash /\ DOMAIN set = 1..2
    BY <2>1
  <2>3. \A k : k \in DOMAIN set <=> k = 1 \/ k = 2
    BY <2>2
  <2>4. ASSUME NEW c PROVE c \in {Question, Hash} <=> \E k \in DOMAIN set : set[k] = c
    <3>1. 1 \in DOMAIN set /\ 2 \in DOMAIN set
      BY <2>3
    <3>2. QED
      BY <2>2, <2>3, <3>1, Zenon
  <2>5. QED
    BY <2>1, <2>4 DEF IsSetOf
<1>3. ASSUME NEW x PROVE IsSetOf({x}, <<x>>)
  <2>1. PICK set : set = <<x>>
    OBVIOUS
  <2>2. set[1] = x /\ DOMAIN set = 1..1
    BY <2>1
  <2>3. \A k : k \in DOMAIN set <=> k = 1
    BY <2>2
  <2>4. \A c : c \in {x} <=> \E k \in DOMAIN set : set[k] = c
    BY <2>2, <2>3, Zenon
  <2>5. QED
    BY <2>1, <2>4 DEF IsSetOf
<1>4. QED
  BY <1>1, <1>2, <1>3

LEMMA PlacesAre ==
    ASSUME NEW t \in Seq(Byte), NEW n \in Nat, n = Len(t)
    PROVE  \E s, a, p, q \in 0..n, f \in Nat : ArePlaces(t, n, s, a, p, q, f)
<1>1. PICK s \in 0..n : s = SchemeEnd(t)
  BY SchemeEndIs
<1>2. PICK a \in s..n : /\ a = AuthorityStart(t, s)
                        /\ a = s \/ (a = s + 2 /\ t[s + 1] = Slash /\ t[s + 2] = Slash)
  <2>1. CASE DoubleSlash(t, s)
    <3>1. s + 2 <= n /\ t[s + 1] = Slash /\ t[s + 2] = Slash
      BY <2>1 DEF DoubleSlash
    <3>2. AuthorityStart(t, s) = s + 2
      BY <2>1 DEF AuthorityStart
    <3>3. s + 2 \in s..n
      BY <3>1
    <3>4. QED
      BY <3>1, <3>2, <3>3
  <2>2. CASE ~DoubleSlash(t, s)
    BY <2>2 DEF AuthorityStart
  <2>3. QED
    BY <2>1, <2>2
<1>3. PICK p : p = PathStart(t, a) /\ IsEndAt(p, t, n, Marks, a)
  <2>1. a \in 0..n
    OBVIOUS
  <2>2. IsEndAt(EndAt(t, <<Slash, Question, Hash>>, a), t, n, Marks, a)
    BY <2>1, MarksAre, EndAtIs
  <2>3. QED
    BY <2>2 DEF PathStart
<1>4. p \in a..n /\ p \in 0..n /\ (p # n => t[p + 1] \in Marks)
  BY <1>3 DEF IsEndAt
<1>5. PICK q \in p..n : /\ q = PathEnd(t, p)
                        /\ q = p \/ (q > p /\ t[p + 1] = Slash /\ IsEndAt(q, t, n, {Question, Hash}, p + 1))
                        /\ q # n => t[q + 1] \in {Question, Hash}
  <2>1. p \in Nat /\ p <= n
    BY <1>4
  <2>2. CASE CharAt(t, p) = Slash
    <3>1. p < n /\ t[p + 1] = Slash
      BY <2>1, <2>2, CharAtIs DEF Slash
    <3>2. p + 1 \in 0..n
      BY <2>1, <3>1
    <3>3. PICK e : e = EndAt(t, <<Question, Hash>>, p + 1) /\ IsEndAt(e, t, n, {Question, Hash}, p + 1)
      BY <3>2, MarksAre, EndAtIs
    <3>4. PathEnd(t, p) = e
      BY <2>2, <3>3 DEF PathEnd
    <3>5. e \in (p + 1)..n /\ (e # n => t[e + 1] \in {Question, Hash})
      BY <3>3 DEF IsEndAt
    <3>6. e \in p..n /\ e > p
      BY <2>1, <3>5
    <3>7. QED
      BY <3>1, <3>3, <3>4, <3>5, <3>6
  <2>3. CASE CharAt(t, p) # Slash
    <3>1. PathEnd(t, p) = p
      BY <2>3 DEF PathEnd
    <3>2. p # n => t[p + 1] \in {Question, Hash}
      BY <1>4, <2>1, <2>3, CharAtIs DEF Marks
    <3>3. p \in p..n
      BY <2>1
    <3>4. QED
      BY <3>1, <3>2, <3>3
  <2>4. QED
    BY <2>2, <2>3
<1>6. q \in Nat /\ q <= n /\ q \in 0..n
  BY <1>4
<1>7. PICK f \in Nat : /\ f = QueryEnd(t, q) /\ q <= f
                       /\ CharAt(t, q) # Question => f = q
                       /\ CharAt(t, q) = Question =>
                             /\ q < n /\ t[q + 1] = Question /\ q + 2 <= f
                             /\ f <= n => IsEndAt(f, t, n, {Hash}, q + 2)
  <2>1. CASE CharAt(t, q) # Question
    <3>1. QueryEnd(t, q) = q
      BY <2>1 DEF QueryEnd
    <3>2. QED
      BY <1>6, <2>1, <3>1
  <2>2. CASE CharAt(t, q) = Question
    <3>1. q < n /\ t[q + 1] = Question
      BY <1>6, <2>2, CharAtIs DEF Question
    <3>2. CASE q + 2 > Len(t)
      <4>1. QueryEnd(t, q) = q + 2
        BY <2>2, <3>2 DEF QueryEnd
      <4>2. q + 2 \in Nat /\ q <= q + 2 /\ ~(q + 2 <= n)
        BY <1>6, <3>2
      <4>3. QED
        BY <2>2, <3>1, <4>1, <4>2
    <3>3. CASE ~(q + 2 > Len(t))
      <4>1. q + 2 \in 0..n
        BY <1>6, <3>3
      <4>2. PICK e : e = EndAt(t, <<Hash>>, q + 2) /\ IsEndAt(e, t, n, {Hash}, q + 2)
        BY <4>1, MarksAre, EndAtIs
      <4>3. QueryEnd(t, q) = e
        BY <2>2, <3>3, <4>2 DEF QueryEnd
      <4>4. e \in (q + 2)..n
        BY <4>2 DEF IsEndAt
      <4>5. e \in Nat /\ q <= e /\ q + 2 <= e
        BY <1>6, <4>4
      <4>6. QED
        BY <2>2, <3>1, <4>2, <4>3, <4>5
    <3>4. QED
      BY <3>2, <3>3
  <2>3. QED
    BY <2>1, <2>2
<1>8. ArePlaces(t, n, s, a, p, q, f)
  BY <1>1, <1>2, <1>3, <1>4, <1>5, <1>6, <1>7, Zenon DEF ArePlaces
<1>9. a \in 0..n
  OBVIOUS
<1>10. QED
  BY <1>4, <1>6, <1>8, <1>9

-----------------------------------------------------------------------------
(* What the parser makes of the parts.                                     *)

\* t has a query at q or a fragment at f, and the text of a component that is in use.
IsQuery(t, q) == CharAt(t, q) = Question
IsFragment(t, f) == CharAt(t, f) = Hash /\ f + 1 < Len(t)
PartOf(au, c) == IF c \in DOMAIN au.text THEN au.text[c] ELSE <<>>

\* The structure of the parts of t.
IsParsed(r, t, s, p, q, f, au) ==
    /\ r.uri.has = (IF s > 0 THEN {"scheme"} ELSE {}) \cup au.has
                       \cup (IF q > p THEN {"path"} ELSE {})
                       \cup (IF IsQuery(t, q) THEN {"query"} ELSE {})
                       \cup (IF IsFragment(t, f) THEN {"fragment"} ELSE {})
    /\ r.uri.port = au.port
    /\ r.uri.text["scheme"] = TextLower(Slice(t, 0, s))
    /\ r.uri.text["authority"] = PartOf(au, "authority")
    /\ r.uri.text["userinfo"] = PartOf(au, "userinfo")
    /\ r.uri.text["host"] = PartOf(au, "host")
    /\ r.uri.text["port"] = PartOf(au, "port")
    /\ r.uri.text["path"] = <<>> \o Decode(Slice(t, p, q))
    /\ r.uri.text["query"] = IF IsQuery(t, q) THEN <<>> \o Decode(Slice(t, q + 1, f)) ELSE <<>>
    /\ r.uri.text["fragment"] = IF IsFragment(t, f) THEN <<>> \o Decode(Slice(t, f + 1, Len(t)))
                                ELSE <<>>
    /\ r.result \in 0..1
    /\ r.result = 0 <=> /\ r.uri.has \cap {"scheme", "host", "path", "query", "fragment"} # {}
                        /\ IsFragment(t, f) \/ f = Len(t)

LEMMA StructureIs ==
    ASSUME NEW v, NEW t, NEW s, NEW p, NEW q, NEW f, NEW au,
           DOMAIN au.text \subseteq {"authority", "userinfo", "host", "port"},
           NEW r, r = Structure(v, t, [scheme |-> s, path |-> p, query |-> q, fragment |-> f], au)
    PROVE  IsParsed(r, t, s, p, q, f, au)
<1>1. PICK at : /\ at = [scheme |-> s, path |-> p, query |-> q, fragment |-> f]
                /\ at.scheme = s /\ at.path = p /\ at.query = q /\ at.fragment = f
  OBVIOUS
<1>2. PICK has : has = (IF s > 0 THEN {"scheme"} ELSE {}) \cup au.has
                           \cup (IF q > p THEN {"path"} ELSE {})
                           \cup (IF IsQuery(t, q) THEN {"query"} ELSE {})
                           \cup (IF IsFragment(t, f) THEN {"fragment"} ELSE {})
  OBVIOUS
<1>3. PICK old : old = Cleared(v).text /\ \A c \in Components : old[c] = <<>>
  <2>1. Cleared(v).text = [c \in Components |-> <<>>]
    BY DEF Cleared, EmptyUri
  <2>2. QED
    BY <2>1
<1>4. PICK text : text = [c \in Components |->
                    CASE c = "scheme" -> TextLower(Slice(t, 0, s))
                      [] c \in DOMAIN au.text -> au.text[c]
                      [] c = "path" -> old[c] \o Decode(Slice(t, p, q))
                      [] c = "query" /\ IsQuery(t, q) -> old[c] \o Decode(Slice(t, q + 1, f))
                      [] c = "fragment" /\ IsFragment(t, f) ->
                            old[c] \o Decode(Slice(t, f + 1, Len(t)))
                      [] OTHER -> old[c]]
  OBVIOUS
<1>5. r = [uri |-> [has |-> has, text |-> text, port |-> au.port],
           result |-> IF /\ has \cap {"scheme", "host", "path", "query", "fragment"} # {}
                         /\ IsFragment(t, f) \/ f = Len(t)
                      THEN 0 ELSE 1]
  BY <1>1, <1>2, <1>3, <1>4, Zenon DEF Structure, IsQuery, IsFragment
<1>6. r.uri.has = has /\ r.uri.text = text /\ r.uri.port = au.port
  BY <1>5
<1>7. /\ r.result \in 0..1
      /\ r.result = 0 <=> /\ has \cap {"scheme", "host", "path", "query", "fragment"} # {}
                          /\ IsFragment(t, f) \/ f = Len(t)
  BY <1>5
<1>8. /\ "scheme" \in Components /\ "authority" \in Components /\ "userinfo" \in Components
      /\ "host" \in Components /\ "port" \in Components /\ "path" \in Components
      /\ "query" \in Components /\ "fragment" \in Components
  BY DEF Components
<1>9. text["scheme"] = TextLower(Slice(t, 0, s))
  BY <1>4, <1>8
<1>10. text["authority"] = PartOf(au, "authority")
  BY <1>3, <1>4, <1>8 DEF PartOf
<1>11. text["userinfo"] = PartOf(au, "userinfo")
  BY <1>3, <1>4, <1>8 DEF PartOf
<1>12. text["host"] = PartOf(au, "host")
  BY <1>3, <1>4, <1>8 DEF PartOf
<1>13. text["port"] = PartOf(au, "port")
  BY <1>3, <1>4, <1>8 DEF PartOf
<1>14. text["path"] = <<>> \o Decode(Slice(t, p, q))
  BY <1>3, <1>4, <1>8
<1>15. text["query"] = IF IsQuery(t, q) THEN <<>> \o Decode(Slice(t, q + 1, f)) ELSE <<>>
  BY <1>3, <1>4, <1>8
<1>16. text["fragment"] = IF IsFragment(t, f) THEN <<>> \o Decode(Slice(t, f + 1, Len(t)))
                          ELSE <<>>
  BY <1>3, <1>4, <1>8
<1>17. QED
  BY <1>2, <1>6, <1>7, <1>9, <1>10, <1>11, <1>12, <1>13, <1>14, <1>15, <1>16, Zenon DEF IsParsed
\* The names of the strings of an authority.
AuthorityNames == {"authority", "userinfo", "host", "port"}

LEMMA AuthorityOfIs ==
    ASSUME NEW t, NEW a, NEW p, NEW at, NEW host, NEW number, NEW isPort, NEW whole,
           isPort = (number \in 0..(PortLimit - 1)),
           whole = (host # <<>> /\ at.port # NotFound /\ ~isPort),
           NEW au, au = AuthorityOf(t, a, p, at, host, number)
    PROVE  /\ au.has = {"authority"} \cup (IF at.user # NotFound THEN {"userinfo"} ELSE {})
                          \cup (IF host # <<>> THEN {"host"} ELSE {})
                          \cup (IF isPort THEN {"port"} ELSE {})
           /\ au.port = IF isPort THEN number ELSE 0
           /\ DOMAIN au.text = AuthorityNames
           /\ au.text["authority"] = Slice(t, a, p)
           /\ au.text["userinfo"] = IF at.user = NotFound THEN <<>> ELSE Slice(t, a, at.user)
           /\ au.text["host"] = IF whole THEN TextLower(Slice(t, at.host, p)) ELSE host
           /\ au.text["port"] = IF isPort THEN Slice(t, at.port + 1, p) ELSE <<>>
<1>1. PICK text : text = [authority |-> Slice(t, a, p),
                   userinfo |-> IF at.user = NotFound THEN <<>> ELSE Slice(t, a, at.user),
                   host |-> IF whole THEN TextLower(Slice(t, at.host, p)) ELSE host,
                   port |-> IF isPort THEN Slice(t, at.port + 1, p) ELSE <<>>]
  OBVIOUS
<1>2. PICK has : has = {"authority"} \cup (IF at.user # NotFound THEN {"userinfo"} ELSE {})
                          \cup (IF host # <<>> THEN {"host"} ELSE {})
                          \cup (IF isPort THEN {"port"} ELSE {})
  OBVIOUS
<1>3. au = [has |-> has, text |-> text, port |-> IF isPort THEN number ELSE 0]
  BY <1>1, <1>2, Zenon DEF AuthorityOf
<1>4. au.has = has /\ au.text = text /\ au.port = IF isPort THEN number ELSE 0
  BY <1>3
<1>5. /\ DOMAIN text = AuthorityNames
      /\ text["authority"] = Slice(t, a, p)
      /\ text["userinfo"] = IF at.user = NotFound THEN <<>> ELSE Slice(t, a, at.user)
      /\ text["host"] = IF whole THEN TextLower(Slice(t, at.host, p)) ELSE host
      /\ text["port"] = IF isPort THEN Slice(t, at.port + 1, p) ELSE <<>>
  BY <1>1 DEF AuthorityNames
<1>6. QED
  BY <1>2, <1>4, <1>5, Zenon

\* Where the authority of the parts of t is, from a to p.
IsAuthority(au, t, a, p) == au = IF p > a THEN Authority(t, a, p) ELSE NoAuthority

LEMMA AuthorityIs ==
    ASSUME NEW t \in Seq(Byte), NEW n \in Nat, n = Len(t), NEW a \in 0..n, NEW p \in a..n,
           NEW au, IsAuthority(au, t, a, p)
    PROVE  /\ DOMAIN au.text \subseteq AuthorityNames /\ au.has \subseteq AuthorityNames
           /\ PartOf(au, "authority") = Cut(t, a, p)
<1>1. CASE p > a
  <2>1. PICK at, host, number : au = AuthorityOf(t, a, p, at, host, number)
    BY <1>1, Zenon DEF IsAuthority, Authority
  <2>2. PICK isPort, whole : /\ isPort = (number \in 0..(PortLimit - 1))
                             /\ whole = (host # <<>> /\ at.port # NotFound /\ ~isPort)
    OBVIOUS
  <2>3. /\ au.has = {"authority"} \cup (IF at.user # NotFound THEN {"userinfo"} ELSE {})
                       \cup (IF host # <<>> THEN {"host"} ELSE {})
                       \cup (IF isPort THEN {"port"} ELSE {})
        /\ DOMAIN au.text = AuthorityNames
        /\ au.text["authority"] = Slice(t, a, p)
    BY <2>1, <2>2, AuthorityOfIs
  <2>4. au.has \subseteq AuthorityNames
    BY <2>3 DEF AuthorityNames
  <2>5. PartOf(au, "authority") = Slice(t, a, p)
    BY <2>3 DEF PartOf, AuthorityNames
  <2>6. a \in Nat /\ p \in Nat /\ a <= p /\ p <= Len(t)
    OBVIOUS
  <2>7. Slice(t, a, p) = Cut(t, a, p)
    BY <2>6, SliceIs
  <2>8. QED
    BY <2>3, <2>4, <2>5, <2>7
<1>2. CASE p = a
  <2>1. au = NoAuthority
    BY <1>2 DEF IsAuthority
  <2>2. au.has = {} /\ DOMAIN au.text = {}
    BY <2>1 DEF NoAuthority
  <2>3. PartOf(au, "authority") = <<>>
    BY <2>2 DEF PartOf
  <2>4. a \in Nat
    OBVIOUS
  <2>5. Cut(t, a, p) = <<>>
    BY <1>2, <2>4, CutNone
  <2>6. QED
    BY <2>2, <2>3, <2>5
<1>3. QED
  BY <1>1, <1>2

LEMMA ParsedIs ==
    ASSUME NEW v, NEW t \in Seq(Byte), NEW n \in Nat, n = Len(t),
           NEW s \in 0..n, NEW a \in 0..n, NEW p \in 0..n, NEW q \in 0..n, NEW f \in Nat,
           ArePlaces(t, n, s, a, p, q, f),
           NEW au, IsAuthority(au, t, a, p)
    PROVE  IsParsed(ParseUri(v, t), t, s, p, q, f, au)
<1>1. /\ s = SchemeEnd(t) /\ a = AuthorityStart(t, s) /\ p = PathStart(t, a)
      /\ q = PathEnd(t, p) /\ f = QueryEnd(t, q) /\ p \in a..n
  BY DEF ArePlaces
<1>2. ParseUri(v, t) = Structure(v, t, [scheme |-> s, path |-> p, query |-> q, fragment |-> f], au)
  BY <1>1, Zenon DEF ParseUri, IsAuthority
<1>3. DOMAIN au.text \subseteq {"authority", "userinfo", "host", "port"}
  BY <1>1, AuthorityIs DEF AuthorityNames
<1>4. QED
  BY <1>2, <1>3, StructureIs, Zenon
LEMMA LenZero ==
    ASSUME NEW s \in Seq(Byte), Len(s) = 0
    PROVE  s = <<>>
OBVIOUS

LEMMA TextJoins ==
    ASSUME NEW a \in Seq(Byte), NEW b \in Seq(Byte)
    PROVE  a \o b \in Seq(Byte)
OBVIOUS

LEMMA TextsJoin ==
    ASSUME NEW a \in Seq(Byte), NEW b \in Seq(Byte), NEW c \in Seq(Byte)
    PROVE  (a \o b) \o c = a \o (b \o c)
OBVIOUS

LEMMA NothingJoins ==
    ASSUME NEW a \in Seq(Byte)
    PROVE  <<>> \o a = a /\ a \o <<>> = a /\ <<>> \in Seq(Byte)
OBVIOUS

LEMMA TextCut ==
    ASSUME NEW t \in Seq(Byte), NEW i \in Nat, NEW j \in Nat, i <= j, j <= Len(t)
    PROVE  Cut(t, i, j) \in Seq(Byte) /\ Slice(t, i, j) = Cut(t, i, j)
BY CutIs, SliceIs

LEMMA TextCuts ==
    ASSUME NEW t \in Seq(Byte), NEW i \in Nat, NEW j \in Nat, NEW k \in Nat,
           i <= j, j <= k, k <= Len(t)
    PROVE  Cut(t, i, j) \o Cut(t, j, k) = Cut(t, i, k)
BY CutsJoin

-----------------------------------------------------------------------------
(* The text is its parts.                                                  *)

LEMMA CharsAre ==
    /\ \A c \in Marks : c \in Byte /\ ~Hex(c) /\ c # Percent
    /\ Slash \in Byte /\ Question \in Byte /\ Hash \in Byte /\ Colon \in Byte /\ AtSign \in Byte
    /\ Percent \notin SchemeChars \cup {Colon, Slash}
    /\ Lower(Slash) = Slash /\ Lower(Question) = Question /\ Lower(Hash) = Hash
    /\ Lower(Colon) = Colon /\ Lower(AtSign) = AtSign
<1>1. \A c \in Marks : c \in Byte /\ ~Hex(c) /\ c # Percent
  BY DEF Marks, Slash, Question, Hash, Byte, Hex, HexValue, Digits, NotFound, Percent
<1>2. Percent \notin SchemeChars \cup {Colon, Slash}
  BY DEF Percent, SchemeChars, Letters, Colon, Slash
<1>3. /\ Lower(Slash) = Slash /\ Lower(Question) = Question /\ Lower(Hash) = Hash
      /\ Lower(Colon) = Colon /\ Lower(AtSign) = AtSign
  BY DEF Slash, Question, Hash, Colon, AtSign, Lower
<1>4. Colon \in Byte /\ AtSign \in Byte /\ Slash \in Byte /\ Question \in Byte /\ Hash \in Byte
  BY DEF Colon, AtSign, Slash, Question, Hash, Byte
<1>5. QED
  BY <1>1, <1>2, <1>3, <1>4

\* What starts at a mark, or is nothing, ends an escape before it.
LEMMA MarkSevers ==
    ASSUME NEW t \in Seq(Byte), NEW n \in Nat, n = Len(t), NEW i \in 0..n,
           i # n => t[i + 1] \in Marks
    PROVE  /\ Cut(t, i, n) \in Seq(Byte) /\ Severs(Cut(t, i, n))
           /\ i = n => Cut(t, i, n) = <<>>
           /\ i # n => Cut(t, i, n) = <<t[i + 1]>> \o Cut(t, i + 1, n)
<1>1. i \in Nat /\ i <= n /\ n <= Len(t)
  OBVIOUS
<1>2. PICK w \in Seq(Byte) : /\ w = Cut(t, i, n) /\ Len(w) = n - i
                             /\ \A x \in 1..(n - i) : w[x] = t[i + x]
  <2>1. /\ Cut(t, i, n) \in Seq(Byte) /\ Len(Cut(t, i, n)) = n - i
        /\ \A x \in 1..(n - i) : Cut(t, i, n)[x] = t[i + x]
    BY <1>1, CutIs, ZenonT(40)
  <2>2. QED
    BY <2>1
<1>3. CASE i = n
  <2>1. w = <<>>
    BY <1>2, <1>3
  <2>2. QED
    BY <1>2, <1>3, <2>1 DEF Severs
<1>4. CASE i # n
  <2>1. 1 \in 1..(n - i) /\ i < Len(t) /\ i + 1 \in Nat /\ i <= i + 1 /\ i + 1 <= n
    BY <1>1, <1>4
  <2>2. w[1] = t[i + 1]
    BY <1>2, <2>1
  <2>3. ~Hex(w[1])
    BY <1>4, <2>2, CharsAre
  <2>4. Cut(t, i, i + 1) = <<t[i + 1]>>
    BY <1>1, <2>1, CutOne
  <2>5. Cut(t, i, i + 1) \o Cut(t, i + 1, n) = Cut(t, i, n)
    BY <1>1, <2>1, CutsJoin
  <2>6. QED
    BY <1>2, <1>4, <2>3, <2>4, <2>5 DEF Severs
<1>5. QED
  BY <1>3, <1>4

\* A mark stands for itself.
LEMMA DecodeMark ==
    ASSUME NEW c \in Marks, NEW b \in Seq(Byte)
    PROVE  Decode(<<c>> \o b) = <<c>> \o Decode(b)
<1>1. PICK x \in Seq(Byte) : x = <<c>> /\ Len(x) = 1 /\ x[1] = c
  <2>1. c \in Byte
    BY CharsAre
  <2>2. <<c>> \in Seq(Byte) /\ Len(<<c>>) = 1 /\ <<c>>[1] = c
    BY <2>1
  <2>3. QED
    BY <2>2
<1>2. \A k \in 1..Len(x) : x[k] # Percent
  BY <1>1, CharsAre
<1>3. Decode(x \o b) = x \o Decode(b)
  BY <1>2, DecodeOrdinary
<1>4. QED
  BY <1>1, <1>3

\* What is after the query.
FragmentText(t, n, f) ==
    IF IsFragment(t, f) THEN <<Hash>> \o Decode(Cut(t, f + 1, n)) ELSE <<>>

LEMMA FragmentIs ==
    ASSUME NEW t \in Seq(Byte), NEW n \in Nat, n = Len(t), NEW f \in 0..n,
           IsFragment(t, f) \/ f = n
    PROVE  /\ Cut(t, f, n) \in Seq(Byte) /\ Severs(Cut(t, f, n))
           /\ Decode(Cut(t, f, n)) = FragmentText(t, n, f)
<1>1. CASE f = n
  <2>1. CharAt(t, f) = 0
    BY <1>1, CharAtIs
  <2>2. ~IsFragment(t, f)
    BY <2>1 DEF IsFragment, Hash
  <2>3. /\ Cut(t, f, n) \in Seq(Byte) /\ Severs(Cut(t, f, n)) /\ Cut(t, f, n) = <<>>
    BY <1>1, MarkSevers
  <2>4. QED
    BY <2>2, <2>3, DecodeEmpty DEF FragmentText
<1>2. CASE f # n
  <2>1. IsFragment(t, f) /\ f \in Nat /\ f < n
    BY <1>2
  <2>2. t[f + 1] = Hash /\ Hash \in Marks
    BY <2>1, CharAtIs DEF IsFragment, Marks
  <2>3. /\ Cut(t, f, n) \in Seq(Byte) /\ Severs(Cut(t, f, n))
        /\ Cut(t, f, n) = <<Hash>> \o Cut(t, f + 1, n)
    BY <1>2, <2>2, MarkSevers
  <2>4. f + 1 \in Nat /\ f + 1 <= n /\ n <= Len(t)
    BY <2>1
  <2>5. Cut(t, f + 1, n) \in Seq(Byte)
    BY <2>4, CutIs
  <2>6. Decode(<<Hash>> \o Cut(t, f + 1, n)) = <<Hash>> \o Decode(Cut(t, f + 1, n))
    BY <2>2, <2>5, DecodeMark
  <2>7. QED
    BY <2>1, <2>3, <2>6 DEF FragmentText
<1>3. QED
  BY <1>1, <1>2

\* What is after the path.
QueryText(t, q, f) == IF IsQuery(t, q) THEN <<Question>> \o Decode(Cut(t, q + 1, f)) ELSE <<>>

LEMMA QueryIs ==
    ASSUME NEW t \in Seq(Byte), NEW n \in Nat, n = Len(t), NEW q \in 0..n, NEW f \in 0..n,
           IsFragment(t, f) \/ f = n, q # n => t[q + 1] \in {Question, Hash},
           CharAt(t, q) # Question => f = q,
           CharAt(t, q) = Question => q < n /\ t[q + 1] = Question /\ q + 2 <= f
    PROVE  /\ Cut(t, q, n) \in Seq(Byte) /\ Severs(Cut(t, q, n))
           /\ Decode(Cut(t, q, n)) = QueryText(t, q, f) \o FragmentText(t, n, f)
           /\ QueryText(t, q, f) \in Seq(Byte) /\ FragmentText(t, n, f) \in Seq(Byte)
<1>1. /\ Cut(t, f, n) \in Seq(Byte) /\ Severs(Cut(t, f, n))
      /\ Decode(Cut(t, f, n)) = FragmentText(t, n, f)
  BY FragmentIs
<1>2. FragmentText(t, n, f) \in Seq(Byte)
  BY <1>1, DecodeType
<1>3. q # n => t[q + 1] \in Marks
  BY DEF Marks
<1>4. Cut(t, q, n) \in Seq(Byte) /\ Severs(Cut(t, q, n))
  BY <1>3, MarkSevers
<1>5. CASE CharAt(t, q) # Question
  <2>1. f = q
    BY <1>5
  <2>2. QueryText(t, q, f) = <<>>
    BY <1>5 DEF QueryText, IsQuery
  <2>3. <<>> \o FragmentText(t, n, f) = FragmentText(t, n, f) /\ <<>> \in Seq(Byte)
    BY <1>2
  <2>4. QED
    BY <1>1, <1>2, <1>4, <2>1, <2>2, <2>3
<1>6. CASE CharAt(t, q) = Question
  <2>1. q < n /\ t[q + 1] = Question /\ q + 2 <= f /\ q # n
    BY <1>6
  <2>2. Cut(t, q, n) = <<Question>> \o Cut(t, q + 1, n)
    BY <1>3, <2>1, MarkSevers
  <2>3. q + 1 \in Nat /\ q + 1 <= f /\ f \in Nat /\ f <= n /\ n <= Len(t) /\ f <= Len(t)
    BY <2>1
  <2>4. Cut(t, q + 1, f) \o Cut(t, f, n) = Cut(t, q + 1, n)
    BY <2>3, CutsJoin
  <2>5. Cut(t, q + 1, f) \in Seq(Byte)
    BY <2>3, CutIs
  <2>6. Cut(t, q + 1, n) \in Seq(Byte)
    BY <2>3, CutIs
  <2>7. Decode(Cut(t, q + 1, n)) = Decode(Cut(t, q + 1, f)) \o FragmentText(t, n, f)
    BY <1>1, <2>4, <2>5, DecodeJoin
  <2>8. Question \in Marks /\ Question \in Byte
    BY CharsAre DEF Marks
  <2>9. Decode(Cut(t, q, n)) = <<Question>> \o Decode(Cut(t, q + 1, n))
    BY <2>2, <2>6, <2>8, DecodeMark
  <2>10. QueryText(t, q, f) = <<Question>> \o Decode(Cut(t, q + 1, f))
    BY <1>6 DEF QueryText, IsQuery
  <2>11. PICK x, y, z \in Seq(Byte) : /\ x = <<Question>> /\ y = Decode(Cut(t, q + 1, f))
                                      /\ z = FragmentText(t, n, f)
    <3>1. <<Question>> \in Seq(Byte)
      BY <2>8
    <3>2. Decode(Cut(t, q + 1, f)) \in Seq(Byte)
      BY <2>5, DecodeType
    <3>3. QED
      BY <1>2, <3>1, <3>2
  <2>12. (x \o y) \o z = x \o (y \o z)
    BY SMTT(40)
  <2>13. x \o y \in Seq(Byte)
    OBVIOUS
  <2>14. QED
    BY <1>2, <1>4, <2>7, <2>9, <2>10, <2>11, <2>12, <2>13
<1>7. QED
  BY <1>5, <1>6
\* The parts of ComponentsAreTheText, of the structure w that t was parsed into.
Marked(w, c, mark) == Part(w, c, <<mark>> \o w.text[c])
Rest(w) == w.text["path"] \o Marked(w, "query", Question) \o Marked(w, "fragment", Hash)
User(w) == Part(w, "userinfo", w.text["userinfo"] \o <<AtSign>>)

\* The two halves of ComponentsAreTheText, of any structure and text.
TextIsKept(w, t) ==
    \E slashes \in {<<>>, <<Slash, Slash>>} :
        TextLower(Decode(t)) =
            TextLower(Decode(w.text["scheme"] \o slashes \o w.text["authority"]) \o Rest(w))

AuthorityIsKept(w, t) ==
    "host" \in w.has /\ IndexOfAny(t, Blanks, 0) = NotFound =>
        TextLower(w.text["authority"]) =
            TextLower(User(w) \o w.text["host"] \o Marked(w, "port", Colon))

LEMMA IsComponents ==
    ComponentsAreTheText <=> (result = 0 => TextIsKept(u, given) /\ AuthorityIsKept(u, given))
BY Zenon DEF ComponentsAreTheText, TextIsKept, AuthorityIsKept, Rest, User, Marked

LEMMA PrefixIs ==
    ASSUME NEW t \in Seq(Byte), NEW n \in Nat, n = Len(t), NEW s \in 0..n
    PROVE  /\ Cut(t, 0, s) \in Seq(Byte) /\ Len(Cut(t, 0, s)) = s
           /\ \A k \in 1..s : Cut(t, 0, s)[k] = t[k]
<1>1. 0 \in Nat /\ s \in Nat /\ 0 <= s /\ s <= Len(t)
  OBVIOUS
<1>2. /\ Cut(t, 0, s) \in Seq(Byte) /\ Len(Cut(t, 0, s)) = s - 0
      /\ \A k \in 1..(s - 0) : Cut(t, 0, s)[k] = t[0 + k]
  BY <1>1, CutIs
<1>3. s - 0 = s /\ \A k \in 1..s : 0 + k = k
  OBVIOUS
<1>4. QED
  BY <1>2, <1>3

\* The scheme and its lower-case form are texts without an escape.
LEMMA SchemeDecodes ==
    ASSUME NEW t \in Seq(Byte), NEW n \in Nat, n = Len(t), NEW s \in 0..n, s = SchemeEnd(t),
           NEW b \in Seq(Byte)
    PROVE  /\ Decode(Cut(t, 0, s) \o b) = Cut(t, 0, s) \o Decode(b)
           /\ Decode(TextLower(Cut(t, 0, s)) \o b) = TextLower(Cut(t, 0, s)) \o Decode(b)
<1>1. PICK w \in Seq(Byte) : /\ w = Cut(t, 0, s) /\ Len(w) = s
                             /\ \A k \in 1..s : w[k] = t[k]
  <2>1. /\ Cut(t, 0, s) \in Seq(Byte) /\ Len(Cut(t, 0, s)) = s
        /\ \A k \in 1..s : Cut(t, 0, s)[k] = t[k]
    BY PrefixIs
  <2>2. QED
    BY <2>1
<1>2. \A k \in 1..s : t[k] \in SchemeChars \cup {Colon, Slash}
  BY SchemeEndIs
<1>3. \A k \in 1..Len(w) : w[k] # Percent
  BY <1>1, <1>2, CharsAre
<1>4. PICK x \in Seq(Byte) : /\ x = TextLower(w) /\ Len(x) = s /\ \A k \in 1..s : x[k] = Lower(w[k])
  <2>1. /\ TextLower(w) \in Seq(Byte) /\ Len(TextLower(w)) = s
        /\ \A k \in 1..s : TextLower(w)[k] = Lower(w[k])
    BY <1>1, TextLowerIs
  <2>2. QED
    BY <2>1
<1>5. \A k \in 1..Len(x) : x[k] # Percent
  <2>1. \A c \in SchemeChars \cup {Colon, Slash} : Lower(c) # Percent
    BY DEF SchemeChars, Letters, Colon, Slash, Lower, Percent
  <2>2. QED
    BY <1>1, <1>2, <1>4, <2>1
<1>6. Decode(w \o b) = w \o Decode(b)
  BY <1>3, DecodeOrdinary
<1>7. Decode(x \o b) = x \o Decode(b)
  BY <1>5, DecodeOrdinary
<1>8. QED
  BY <1>1, <1>4, <1>6, <1>7

\* The case of the scheme.
LEMMA LowerScheme ==
    ASSUME NEW S \in Seq(Byte), NEW D \in Seq(Byte), NEW H \in Seq(Byte)
    PROVE  TextLower((S \o D) \o H) = TextLower((TextLower(S) \o D) \o H)
<1>1. PICK X \in Seq(Byte) : X = TextLower(S) /\ TextLower(X) = X
  <2>1. TextLower(S) \in Seq(Byte)
    BY TextLowerIs
  <2>2. QED
    BY <2>1, TextLowerTwice
<1>2. S \o D \in Seq(Byte) /\ X \o D \in Seq(Byte)
  OBVIOUS
<1>3. TextLower((S \o D) \o H) = TextLower(S \o D) \o TextLower(H)
  BY <1>2, TextLowerJoin
<1>4. TextLower((X \o D) \o H) = TextLower(X \o D) \o TextLower(H)
  BY <1>2, TextLowerJoin
<1>5. TextLower(S \o D) = TextLower(S) \o TextLower(D)
  BY TextLowerJoin
<1>6. TextLower(X \o D) = TextLower(X) \o TextLower(D)
  BY TextLowerJoin
<1>7. QED
  BY <1>1, <1>3, <1>4, <1>5, <1>6, Zenon

\* The text of what is before and after the path's start.
LEMMA TwoHalves ==
    ASSUME NEW t \in Seq(Byte), NEW n \in Nat, n = Len(t), NEW p \in 0..n,
           p # n => t[p + 1] \in Marks
    PROVE  Decode(t) = Decode(Cut(t, 0, p)) \o Decode(Cut(t, p, n))
<1>1. Cut(t, p, n) \in Seq(Byte) /\ Severs(Cut(t, p, n))
  BY MarkSevers
<1>2. Cut(t, 0, p) \in Seq(Byte)
  BY PrefixIs
<1>3. Decode(Cut(t, 0, p) \o Cut(t, p, n)) = Decode(Cut(t, 0, p)) \o Decode(Cut(t, p, n))
  BY <1>1, <1>2, DecodeJoin
<1>4. 0 \in Nat /\ p \in Nat /\ 0 <= p /\ p <= n /\ n <= Len(t)
  OBVIOUS
<1>5. Cut(t, 0, p) \o Cut(t, p, n) = Cut(t, 0, n)
  BY <1>4, TextCuts
<1>6. Cut(t, 0, n) = t
  BY CutWhole
<1>7. QED
  BY <1>3, <1>5, <1>6

\* What is before the path, decoded as a whole and from the components.
LEMMA FirstHalf ==
    ASSUME NEW t \in Seq(Byte), NEW n \in Nat, n = Len(t), NEW s \in 0..n, s = SchemeEnd(t),
           NEW a \in s..n, NEW p \in a..n
    PROVE  /\ Decode(Cut(t, 0, p)) = Cut(t, 0, s) \o Decode(Cut(t, s, p))
           /\ Decode(TextLower(Cut(t, 0, s)) \o Cut(t, s, a) \o Cut(t, a, p)) =
                  TextLower(Cut(t, 0, s)) \o Decode(Cut(t, s, p))
<1>1. /\ 0 \in Nat /\ s \in Nat /\ a \in Nat /\ p \in Nat /\ 0 <= s /\ s <= a /\ a <= p /\ s <= p
      /\ p <= Len(t) /\ a <= Len(t)
  OBVIOUS
<1>2. Cut(t, s, p) \in Seq(Byte)
  BY <1>1, TextCut
<1>3. Cut(t, s, a) \in Seq(Byte)
  BY <1>1, TextCut
<1>4. Cut(t, a, p) \in Seq(Byte)
  BY <1>1, TextCut
<1>5. TextLower(Cut(t, 0, s)) \in Seq(Byte)
  <2>1. Cut(t, 0, s) \in Seq(Byte)
    BY PrefixIs
  <2>2. QED
    BY <2>1, TextLowerIs
<1>6. Cut(t, 0, s) \o Cut(t, s, p) = Cut(t, 0, p)
  BY <1>1, TextCuts, ZenonT(40)
<1>7. Cut(t, s, a) \o Cut(t, a, p) = Cut(t, s, p)
  BY <1>1, TextCuts, ZenonT(40)
<1>8. /\ Decode(Cut(t, 0, s) \o Cut(t, s, p)) = Cut(t, 0, s) \o Decode(Cut(t, s, p))
      /\ Decode(TextLower(Cut(t, 0, s)) \o Cut(t, s, p)) =
             TextLower(Cut(t, 0, s)) \o Decode(Cut(t, s, p))
  BY <1>2, SchemeDecodes
<1>9. (TextLower(Cut(t, 0, s)) \o Cut(t, s, a)) \o Cut(t, a, p) =
          TextLower(Cut(t, 0, s)) \o (Cut(t, s, a) \o Cut(t, a, p))
  BY <1>3, <1>4, <1>5, TextsJoin
<1>10. QED
  BY <1>6, <1>7, <1>8, <1>9, Zenon

\* Where the query of an accepted text starts and ends.
AreEnds(t, n, q, f) ==
    /\ IsFragment(t, f) \/ f = n
    /\ q # n => t[q + 1] \in {Question, Hash}
    /\ CharAt(t, q) # Question => f = q
    /\ CharAt(t, q) = Question => q < n /\ t[q + 1] = Question /\ q + 2 <= f

\* The path and what follows.
LEMMA SecondHalf ==
    ASSUME NEW t \in Seq(Byte), NEW n \in Nat, n = Len(t), NEW p \in 0..n, NEW q \in p..n,
           NEW f \in 0..n, AreEnds(t, n, q, f)
    PROVE  Decode(Cut(t, p, n)) =
               (Decode(Cut(t, p, q)) \o QueryText(t, q, f)) \o FragmentText(t, n, f)
<1>1. q \in 0..n
  OBVIOUS
<1>2. /\ Cut(t, q, n) \in Seq(Byte) /\ Severs(Cut(t, q, n))
      /\ Decode(Cut(t, q, n)) = QueryText(t, q, f) \o FragmentText(t, n, f)
      /\ QueryText(t, q, f) \in Seq(Byte) /\ FragmentText(t, n, f) \in Seq(Byte)
  BY <1>1, QueryIs DEF AreEnds
<1>3. p \in Nat /\ q \in Nat /\ p <= q /\ q <= n /\ n <= Len(t) /\ q <= Len(t)
  OBVIOUS
<1>4. Cut(t, p, q) \in Seq(Byte)
  BY <1>3, TextCut
<1>5. Cut(t, p, q) \o Cut(t, q, n) = Cut(t, p, n)
  BY <1>3, TextCuts
<1>6. Decode(Cut(t, p, q) \o Cut(t, q, n)) = Decode(Cut(t, p, q)) \o Decode(Cut(t, q, n))
  BY <1>2, <1>4, DecodeJoin
<1>7. PICK x, y, z \in Seq(Byte) : /\ x = Decode(Cut(t, p, q)) /\ y = QueryText(t, q, f)
                                   /\ z = FragmentText(t, n, f)
  <2>1. Decode(Cut(t, p, q)) \in Seq(Byte)
    BY <1>4, DecodeType
  <2>2. QED
    BY <1>2, <2>1
<1>8. (x \o y) \o z = x \o (y \o z)
  BY TextsJoin
<1>9. QED
  BY <1>2, <1>5, <1>6, <1>7, <1>8

LEMMA SlashesAre ==
    ASSUME NEW t \in Seq(Byte), NEW n \in Nat, n = Len(t), NEW s \in 0..n, NEW a \in s..n,
           a = s \/ (a = s + 2 /\ t[s + 1] = Slash /\ t[s + 2] = Slash)
    PROVE  Cut(t, s, a) \in {<<>>, <<Slash, Slash>>}
<1>1. CASE a = s
  <2>1. s \in Nat
    OBVIOUS
  <2>2. QED
    BY <1>1, <2>1, CutNone
<1>2. CASE a = s + 2 /\ t[s + 1] = Slash /\ t[s + 2] = Slash
  <2>1. a = s + 2
    BY <1>2
  <2>2. PICK m \in Nat : m = s + 1
    OBVIOUS
  <2>3. /\ s \in Nat /\ a \in Nat /\ s < Len(t) /\ m < Len(t) /\ s <= m /\ m <= a /\ a <= Len(t)
        /\ m + 1 = a /\ m + 1 = s + 2
    BY <2>1, <2>2
  <2>4. t[m] = Slash /\ t[m + 1] = Slash
    BY <1>2, <2>2, <2>3
  <2>5. Cut(t, s, s + 1) = <<t[s + 1]>>
    BY <2>3, CutOne
  <2>6. Cut(t, m, m + 1) = <<t[m + 1]>>
    BY <2>3, CutOne
  <2>7. Cut(t, s, m) = <<Slash>> /\ Cut(t, m, a) = <<Slash>>
    BY <2>2, <2>3, <2>4, <2>5, <2>6
  <2>8. Cut(t, s, m) \o Cut(t, m, a) = Cut(t, s, a)
    BY <2>3, TextCuts
  <2>9. <<Slash>> \o <<Slash>> = <<Slash, Slash>>
    BY TwoOnes
  <2>10. QED
    BY <2>7, <2>8, <2>9
<1>3. QED
  BY <1>1, <1>2

\* From p on, t is its path, its query and its fragment.
IsSecondHalf(t, n, p, q, f) ==
    Decode(Cut(t, p, n)) = (Decode(Cut(t, p, q)) \o QueryText(t, q, f)) \o FragmentText(t, n, f)

LEMMA SecondHalfIs ==
    ASSUME NEW t \in Seq(Byte), NEW n \in Nat, n = Len(t), NEW p \in 0..n, NEW q \in 0..n,
           NEW f \in 0..n, AreEnds(t, n, q, f), q \in p..n
    PROVE  IsSecondHalf(t, n, p, q, f)
BY SecondHalf DEF IsSecondHalf

LEMMA TextKept ==
    ASSUME NEW t \in Seq(Byte), NEW n \in Nat, n = Len(t),
           NEW s \in 0..n, NEW a \in 0..n, NEW p \in 0..n, NEW q \in 0..n, NEW f \in Nat,
           ArePlaces(t, n, s, a, p, q, f),
           NEW au, IsAuthority(au, t, a, p),
           NEW r, IsParsed(r, t, s, p, q, f, au), r.result = 0
    PROVE  TextIsKept(r.uri, t)
<1>1. s = SchemeEnd(t) /\ a \in s..n /\ p \in a..n /\ q \in p..n
  BY DEF ArePlaces
<1>2. a = s \/ (a = s + 2 /\ t[s + 1] = Slash /\ t[s + 2] = Slash)
  BY DEF ArePlaces
<1>3. IsEndAt(p, t, n, Marks, a) /\ (q # n => t[q + 1] \in {Question, Hash})
  BY DEF ArePlaces
<1>4. CharAt(t, q) # Question => f = q
  BY DEF ArePlaces
<1>5. CharAt(t, q) = Question => q < n /\ t[q + 1] = Question /\ q + 2 <= f
  BY DEF ArePlaces
<1>6. IsFragment(t, f) \/ f = n
  BY DEF IsParsed
<1>7. f \in 0..n
  BY <1>6 DEF IsFragment
<1>8. Decode(t) = Decode(Cut(t, 0, p)) \o Decode(Cut(t, p, n))
  <2>1. p # n => t[p + 1] \in Marks
    BY <1>3 DEF IsEndAt
  <2>2. QED
    BY <2>1, TwoHalves
<1>9. /\ Decode(Cut(t, 0, p)) = Cut(t, 0, s) \o Decode(Cut(t, s, p))
      /\ Decode(TextLower(Cut(t, 0, s)) \o Cut(t, s, a) \o Cut(t, a, p)) =
             TextLower(Cut(t, 0, s)) \o Decode(Cut(t, s, p))
  BY <1>1, FirstHalf
<1>10. Decode(Cut(t, p, n)) =
           (Decode(Cut(t, p, q)) \o QueryText(t, q, f)) \o FragmentText(t, n, f)
  <2>1. AreEnds(t, n, q, f)
    BY <1>3, <1>4, <1>5, <1>6, Zenon DEF AreEnds
  <2>2. q \in p..n
    BY <1>1
  <2>3. IsSecondHalf(t, n, p, q, f)
    BY <1>7, <2>1, <2>2, SecondHalfIs, Zenon
  <2>4. QED
    BY <2>3 DEF IsSecondHalf
<1>11. /\ 0 \in Nat /\ s \in Nat /\ p \in Nat /\ q \in Nat /\ 0 <= s /\ s <= p /\ p <= q
       /\ s <= Len(t) /\ p <= Len(t) /\ q <= Len(t) /\ n <= Len(t)
  BY <1>1
<1>12. Cut(t, 0, s) \in Seq(Byte) /\ Slice(t, 0, s) = Cut(t, 0, s)
  BY <1>11, TextCut
<1>13. Cut(t, p, q) \in Seq(Byte) /\ Slice(t, p, q) = Cut(t, p, q)
  BY <1>11, TextCut
<1>14. Cut(t, s, p) \in Seq(Byte)
  BY <1>11, TextCut
<1>15. Decode(Cut(t, p, q)) \in Seq(Byte)
  BY <1>13, DecodeType
<1>16. /\ r.uri.text["scheme"] = TextLower(Cut(t, 0, s))
       /\ r.uri.text["authority"] = Cut(t, a, p)
       /\ r.uri.text["path"] = Decode(Cut(t, p, q))
  <2>1. PartOf(au, "authority") = Cut(t, a, p)
    <3>1. p \in a..n
      BY <1>1
    <3>2. QED
      BY <3>1, AuthorityIs
  <2>2. <<>> \o Decode(Cut(t, p, q)) = Decode(Cut(t, p, q))
    BY <1>15, NothingJoins
  <2>3. /\ r.uri.text["scheme"] = TextLower(Slice(t, 0, s))
        /\ r.uri.text["authority"] = PartOf(au, "authority")
        /\ r.uri.text["path"] = <<>> \o Decode(Slice(t, p, q))
    BY DEF IsParsed
  <2>4. QED
    BY <1>12, <1>13, <2>1, <2>2, <2>3, Zenon
<1>17. au.has \subseteq AuthorityNames
  <2>1. p \in a..n
    BY <1>1
  <2>2. QED
    BY <2>1, AuthorityIs
<1>18. ("query" \in r.uri.has <=> IsQuery(t, q)) /\ ("fragment" \in r.uri.has <=> IsFragment(t, f))
  <2>1. r.uri.has = (IF s > 0 THEN {"scheme"} ELSE {}) \cup au.has
                       \cup (IF q > p THEN {"path"} ELSE {})
                       \cup (IF IsQuery(t, q) THEN {"query"} ELSE {})
                       \cup (IF IsFragment(t, f) THEN {"fragment"} ELSE {})
    BY DEF IsParsed
  <2>2. QED
    BY <1>17, <2>1 DEF AuthorityNames
<1>19. Marked(r.uri, "query", Question) = QueryText(t, q, f)
  <2>1. CASE IsQuery(t, q)
    <3>1. r.uri.text["query"] = <<>> \o Decode(Slice(t, q + 1, f))
      BY <2>1 DEF IsParsed
    <3>2. q + 1 \in Nat /\ q + 1 <= f /\ f <= Len(t)
      BY <1>5, <1>7, <2>1 DEF IsQuery
    <3>3. Slice(t, q + 1, f) = Cut(t, q + 1, f) /\ Cut(t, q + 1, f) \in Seq(Byte)
      BY <3>2, TextCut
    <3>4. Decode(Cut(t, q + 1, f)) \in Seq(Byte)
      BY <3>3, DecodeType
    <3>5. <<>> \o Decode(Cut(t, q + 1, f)) = Decode(Cut(t, q + 1, f))
      BY <3>4, NothingJoins
    <3>6. QueryText(t, q, f) = <<Question>> \o Decode(Cut(t, q + 1, f))
      BY <2>1 DEF QueryText
    <3>7. Marked(r.uri, "query", Question) = <<Question>> \o r.uri.text["query"]
      BY <1>18, <2>1 DEF Marked, Part
    <3>8. QED
      BY <3>1, <3>3, <3>5, <3>6, <3>7
  <2>2. CASE ~IsQuery(t, q)
    BY <1>18, <2>2 DEF Marked, Part, QueryText
  <2>3. QED
    BY <2>1, <2>2
<1>20. Marked(r.uri, "fragment", Hash) = FragmentText(t, n, f)
  <2>1. CASE IsFragment(t, f)
    <3>1. r.uri.text["fragment"] = <<>> \o Decode(Slice(t, f + 1, Len(t)))
      BY <2>1 DEF IsParsed
    <3>2. f + 1 \in Nat /\ f + 1 <= n /\ n <= Len(t)
      BY <1>7, <2>1 DEF IsFragment
    <3>3. Slice(t, f + 1, n) = Cut(t, f + 1, n) /\ Cut(t, f + 1, n) \in Seq(Byte)
      BY <3>2, TextCut
    <3>4. Decode(Cut(t, f + 1, n)) \in Seq(Byte)
      BY <3>3, DecodeType
    <3>5. <<>> \o Decode(Cut(t, f + 1, n)) = Decode(Cut(t, f + 1, n))
      BY <3>4, NothingJoins
    <3>6. FragmentText(t, n, f) = <<Hash>> \o Decode(Cut(t, f + 1, n))
      BY <2>1 DEF FragmentText
    <3>7. Marked(r.uri, "fragment", Hash) = <<Hash>> \o r.uri.text["fragment"]
      BY <1>18, <2>1 DEF Marked, Part
    <3>8. QED
      BY <3>1, <3>3, <3>5, <3>6, <3>7
  <2>2. CASE ~IsFragment(t, f)
    BY <1>18, <2>2 DEF Marked, Part, FragmentText
  <2>3. QED
    BY <2>1, <2>2
<1>21. Rest(r.uri) = Decode(Cut(t, p, n))
  BY <1>10, <1>16, <1>19, <1>20 DEF Rest
<1>22. Cut(t, s, a) \in {<<>>, <<Slash, Slash>>}
  <2>1. a \in s..n
    BY <1>1
  <2>2. QED
    BY <1>2, <2>1, SlashesAre, Zenon
<1>23. TextLower((Cut(t, 0, s) \o Decode(Cut(t, s, p))) \o Decode(Cut(t, p, n))) =
           TextLower((TextLower(Cut(t, 0, s)) \o Decode(Cut(t, s, p))) \o Decode(Cut(t, p, n)))
  <2>1. Decode(Cut(t, s, p)) \in Seq(Byte)
    BY <1>14, DecodeType
  <2>2. Cut(t, p, n) \in Seq(Byte)
    BY <1>11, TextCut
  <2>3. Decode(Cut(t, p, n)) \in Seq(Byte)
    BY <2>2, DecodeType
  <2>4. QED
    BY <1>12, <2>1, <2>3, LowerScheme
<1>24. TextLower(Decode(t)) =
           TextLower(Decode(r.uri.text["scheme"] \o Cut(t, s, a) \o r.uri.text["authority"])
                         \o Rest(r.uri))
  BY <1>8, <1>9, <1>16, <1>21, <1>23, Zenon
<1>25. QED
  BY <1>22, <1>24, Zenon DEF TextIsKept

-----------------------------------------------------------------------------
(* The authority is its user info, its host and its port.                  *)

\* Where the parts of the authority of t from a to p are.
IsAt(at, t, a, p) ==
    /\ \/ at.user = NotFound /\ at.host = a /\ \A k \in (a + 1)..p : t[k] # AtSign
       \/ /\ at.user \in a..(p - 1) /\ t[at.user + 1] = AtSign /\ at.host = at.user + 1
          /\ \A k \in (a + 1)..at.user : t[k] # AtSign
    /\ at.host \in a..p
    /\ \/ /\ at.port \in at.host..(p - 1) /\ t[at.port + 1] = Colon
          /\ \A k \in (at.port + 2)..p : t[k] # Colon
          /\ at.port # 0 /\ (at.user = NotFound \/ at.port # at.host)
       \/ /\ at.port = NotFound
          /\ \/ \A k \in (at.host + 1)..p : t[k] # Colon
             \/ /\ at.host < p /\ t[at.host + 1] = Colon
                /\ \A k \in (at.host + 2)..p : t[k] # Colon
                /\ at.user # NotFound \/ at.host = 0

LEMMA AuthorityAtIs ==
    ASSUME NEW t \in Seq(Byte), NEW n \in Nat, n = Len(t), NEW a \in 0..n, NEW p \in a..n,
           NEW at, at = AuthorityAt(t, a, p)
    PROVE  IsAt(at, t, a, p)
<1>1. PICK w \in Seq(Byte) : w = SubSeq(t, 1, p) /\ Len(w) = p /\ \A k \in 1..p : w[k] = t[k]
  <2>1. p \in 0..n /\ 0 + 1 = 1
    OBVIOUS
  <2>2. /\ Cut(t, 0, p) \in Seq(Byte) /\ Len(Cut(t, 0, p)) = p
        /\ \A k \in 1..p : Cut(t, 0, p)[k] = t[k]
    BY <2>1, PrefixIs
  <2>3. QED
    BY <2>1, <2>2 DEF Cut
<1>2. a \in Nat /\ p \in Nat /\ a \in 0..p /\ a <= p
  OBVIOUS
<1>3. IsSetOf({AtSign}, <<AtSign>>) /\ IsSetOf({Colon}, <<Colon>>)
  BY MarksAre
<1>4. PICK user : /\ user = IndexOfAny(w, <<AtSign>>, a)
                  /\ \/ user = NotFound /\ \A k \in (a + 1)..p : w[k] # AtSign
                     \/ /\ user \in a..(p - 1) /\ w[user + 1] = AtSign
                        /\ \A k \in (a + 1)..user : w[k] # AtSign
  <2>1. /\ IndexOfAny(w, <<AtSign>>, a) = NotFound => \A k \in (a + 1)..p : w[k] \notin {AtSign}
        /\ IndexOfAny(w, <<AtSign>>, a) # NotFound =>
              /\ IndexOfAny(w, <<AtSign>>, a) \in a..(p - 1)
              /\ w[IndexOfAny(w, <<AtSign>>, a) + 1] \in {AtSign}
              /\ \A k \in (a + 1)..IndexOfAny(w, <<AtSign>>, a) : w[k] \notin {AtSign}
    BY <1>1, <1>2, <1>3, AnyIs, ZenonT(40)
  <2>2. QED
    BY <2>1
<1>5. PICK last : /\ last = ReverseIndexOfAny(w, <<Colon>>, p)
                  /\ \/ last = NotFound /\ \A k \in 1..p : w[k] # Colon
                     \/ /\ last \in 0..(p - 1) /\ w[last + 1] = Colon
                        /\ \A k \in (last + 2)..p : w[k] # Colon
  <2>1. /\ ReverseIndexOfAny(w, <<Colon>>, p) = NotFound => \A k \in 1..p : w[k] \notin {Colon}
        /\ ReverseIndexOfAny(w, <<Colon>>, p) # NotFound =>
              /\ ReverseIndexOfAny(w, <<Colon>>, p) \in 0..(p - 1)
              /\ w[ReverseIndexOfAny(w, <<Colon>>, p) + 1] \in {Colon}
              /\ \A k \in (ReverseIndexOfAny(w, <<Colon>>, p) + 2)..p : w[k] \notin {Colon}
    BY <1>1, <1>2, <1>3, LastAnyIs
  <2>2. QED
    BY <2>1
<1>6. PICK host : host = IF user = NotFound THEN a ELSE user + 1
  OBVIOUS
<1>7. PICK port : port = IF last < host \/ last = 0 \/ (user # NotFound /\ last = host)
                         THEN NotFound ELSE last
  OBVIOUS
<1>8. at = [user |-> user, host |-> host, port |-> port]
  BY <1>1, <1>4, <1>5, <1>6, <1>7, Zenon DEF AuthorityAt
<1>9. at.user = user /\ at.host = host /\ at.port = port
  BY <1>8
<1>10. /\ \/ user = NotFound /\ host = a /\ \A k \in (a + 1)..p : t[k] # AtSign
          \/ /\ user \in a..(p - 1) /\ t[user + 1] = AtSign /\ host = user + 1
             /\ \A k \in (a + 1)..user : t[k] # AtSign
       /\ host \in a..p
  <2>1. CASE user = NotFound /\ \A k \in (a + 1)..p : w[k] # AtSign
    <3>1. ASSUME NEW k \in (a + 1)..p PROVE t[k] # AtSign
      <4>1. k \in 1..p
        BY <1>2
      <4>2. QED
        BY <1>1, <2>1, <4>1
    <3>2. QED
      BY <1>2, <1>6, <2>1, <3>1
  <2>2. CASE /\ user \in a..(p - 1) /\ w[user + 1] = AtSign
             /\ \A k \in (a + 1)..user : w[k] # AtSign
    <3>1. user \in a..(p - 1) /\ user # NotFound /\ user + 1 \in 1..p
      BY <1>2, <2>2 DEF NotFound
    <3>2. ASSUME NEW k \in (a + 1)..user PROVE t[k] # AtSign
      <4>1. k \in 1..p
        BY <1>2, <3>1
      <4>2. QED
        BY <1>1, <2>2, <4>1
    <3>3. t[user + 1] = AtSign
      BY <1>1, <2>2, <3>1
    <3>4. host = user + 1 /\ host \in a..p
      BY <1>6, <3>1
    <3>5. QED
      BY <3>1, <3>2, <3>3, <3>4
  <2>3. QED
    BY <1>4, <2>1, <2>2
<1>11. host \in a..p /\ host \in Nat
  BY <1>2, <1>10
<1>12. \/ /\ port \in host..(p - 1) /\ t[port + 1] = Colon
          /\ \A k \in (port + 2)..p : t[k] # Colon
          /\ port # 0 /\ (user = NotFound \/ port # host)
       \/ /\ port = NotFound
          /\ \/ \A k \in (host + 1)..p : t[k] # Colon
             \/ /\ host < p /\ t[host + 1] = Colon
                /\ \A k \in (host + 2)..p : t[k] # Colon
                /\ user # NotFound \/ host = 0
  <2>1. CASE last = NotFound /\ \A k \in 1..p : w[k] # Colon
    <3>1. port = NotFound
      BY <1>7, <2>1
    <3>2. ASSUME NEW k \in (host + 1)..p PROVE t[k] # Colon
      <4>1. k \in 1..p
        BY <1>11
      <4>2. QED
        BY <1>1, <2>1, <4>1
    <3>3. QED
      BY <3>1, <3>2
  <2>2. CASE /\ last \in 0..(p - 1) /\ w[last + 1] = Colon
             /\ \A k \in (last + 2)..p : w[k] # Colon
    <3>1. last \in 0..(p - 1) /\ last + 1 \in 1..p
      BY <1>2, <2>2
    <3>2. t[last + 1] = Colon
      BY <1>1, <2>2, <3>1
    <3>3. ASSUME NEW k \in (last + 2)..p PROVE t[k] # Colon
      <4>1. k \in 1..p
        BY <3>1
      <4>2. QED
        BY <1>1, <2>2, <4>1
    <3>4. CASE last < host
      <4>1. port = NotFound
        BY <1>7, <3>4
      <4>2. ASSUME NEW k \in (host + 1)..p PROVE t[k] # Colon
        <5>1. k \in (last + 2)..p
          BY <1>11, <3>1, <3>4
        <5>2. QED
          BY <3>3, <5>1
      <4>3. QED
        BY <4>1, <4>2
    <3>5. CASE ~(last < host) /\ (last = 0 \/ (user # NotFound /\ last = host))
      <4>1. port = NotFound
        BY <1>7, <3>5
      <4>2. last = host /\ (user # NotFound \/ host = 0)
        BY <1>11, <3>1, <3>5
      <4>3. QED
        BY <3>1, <3>2, <3>3, <4>1, <4>2
    <3>6. CASE ~(last < host) /\ ~(last = 0 \/ (user # NotFound /\ last = host))
      <4>1. port = last
        BY <1>7, <3>6
      <4>2. last \in host..(p - 1)
        BY <1>11, <3>1, <3>6
      <4>3. port # 0 /\ (user = NotFound \/ port # host)
        BY <3>6, <4>1
      <4>4. QED
        BY <3>2, <3>3, <4>1, <4>2, <4>3
    <3>7. QED
      BY <3>4, <3>5, <3>6
  <2>3. QED
    BY <1>5, <2>1, <2>2
<1>13. QED
  BY <1>9, <1>10, <1>12 DEF IsAt

\* s has no space and no tab.
NoBlanks(s) == \A k \in 1..Len(s) : s[k] \notin {32, 9}

\* A text without blanks is not trimmed.
LEMMA TrimNone ==
    ASSUME NEW s \in Seq(Byte), NoBlanks(s)
    PROVE  TrimmedStart(s, Blanks) = s /\ TrimmedEnd(s, Blanks) = s
<1>1. PICK n \in Nat : n = Len(s)
  OBVIOUS
<1>2. Kept(s, Blanks) = 1..n
  <2>1. Blanks[1] = 32 /\ Blanks[2] = 9 /\ DOMAIN Blanks = 1..2
    BY DEF Blanks
  <2>2. DOMAIN s = 1..n /\ \A k \in DOMAIN Blanks : k = 1 \/ k = 2
    BY <1>1, <2>1
  <2>3. ASSUME NEW i \in 1..n, NEW k \in DOMAIN Blanks PROVE s[i] # Blanks[k]
    BY <1>1, <2>1, <2>2 DEF NoBlanks
  <2>4. QED
    BY <2>2, <2>3 DEF Kept
<1>3. CASE n = 0
  <2>1. Kept(s, Blanks) = {} /\ s = <<>>
    <3>1. 1..0 = {}
      OBVIOUS
    <3>2. s = <<>>
      BY <1>1, <1>3, LenZero
    <3>3. QED
      BY <1>2, <1>3, <3>1, <3>2
  <2>2. IndexNotOfAny(s, Blanks, 0) = NotFound /\ ReverseIndexNotOfAny(s, Blanks, Len(s)) = NotFound
    BY <2>1, TrimSearches
  <2>3. TrimmedStart(s, Blanks) = <<>>
    BY <2>2 DEF TrimmedStart
  <2>4. TrimmedEnd(s, Blanks) = SubSeq(s, 1, 0)
    BY <2>2 DEF TrimmedEnd, NotFound
  <2>5. SubSeq(s, 1, 0) = <<>>
    BY <2>1
  <2>6. QED
    BY <2>1, <2>3, <2>4, <2>5
<1>4. CASE n # 0
  <2>1. Kept(s, Blanks) # {}
    BY <1>1, <1>2, <1>4
  <2>2. PICK a, z \in Kept(s, Blanks) :
            /\ \A i \in Kept(s, Blanks) : a <= i /\ i <= z
            /\ IndexNotOfAny(s, Blanks, 0) = a - 1
            /\ ReverseIndexNotOfAny(s, Blanks, Len(s)) = z - 1
    BY <2>1, TrimSearches
  <2>3. a = 1 /\ z = n
    <3>1. a \in 1..n /\ z \in 1..n /\ 1 \in 1..n /\ n \in 1..n
      BY <1>1, <1>2, <1>4, <2>2
    <3>2. a <= 1 /\ n <= z
      BY <1>2, <2>2, <3>1
    <3>3. QED
      BY <3>1, <3>2
  <2>4. IndexNotOfAny(s, Blanks, 0) = 0 /\ ReverseIndexNotOfAny(s, Blanks, Len(s)) = n - 1
    BY <2>2, <2>3
  <2>5. TrimmedStart(s, Blanks) = SubSeq(s, 1, Len(s))
    BY <2>4 DEF TrimmedStart, NotFound
  <2>6. (n - 1) + 1 = n
    BY <1>1
  <2>7. TrimmedEnd(s, Blanks) = SubSeq(s, 1, n)
    BY <2>4, <2>6 DEF TrimmedEnd
  <2>8. SubSeq(s, 1, Len(s)) = s
    OBVIOUS
  <2>9. QED
    BY <1>1, <2>5, <2>7, <2>8
<1>5. QED
  BY <1>3, <1>4
LEMMA NoBlanksCut ==
    ASSUME NEW t \in Seq(Byte), NoBlanks(t), NEW i \in Nat, NEW j \in Nat, i <= j, j <= Len(t)
    PROVE  NoBlanks(Cut(t, i, j))
<1>1. /\ Len(Cut(t, i, j)) = j - i
      /\ \A x \in 1..(j - i) : Cut(t, i, j)[x] = t[i + x]
  BY CutIs
<1>2. \A x \in 1..(j - i) : i + x \in 1..Len(t)
  OBVIOUS
<1>3. QED
  BY <1>1, <1>2 DEF NoBlanks

LEMMA NoBlanksLower ==
    ASSUME NEW s \in Seq(Byte), NoBlanks(s)
    PROVE  NoBlanks(TextLower(s))
<1>1. PICK n \in Nat : n = Len(s)
  OBVIOUS
<1>2. Len(TextLower(s)) = n /\ \A k \in 1..n : TextLower(s)[k] = Lower(s[k])
  BY <1>1, TextLowerIs
<1>3. \A c \in Byte : c \notin {32, 9} => Lower(c) \notin {32, 9}
  BY DEF Byte, Lower
<1>4. \A k \in 1..n : s[k] \in Byte
  BY <1>1
<1>5. QED
  BY <1>1, <1>2, <1>3, <1>4 DEF NoBlanks

\* The user info and its @.
UserText(t, a, at) == IF at.user = NotFound THEN <<>> ELSE Slice(t, a, at.user) \o <<AtSign>>

LEMMA UserIs ==
    ASSUME NEW t \in Seq(Byte), NEW n \in Nat, n = Len(t), NEW a \in 0..n, NEW p \in a..n,
           NEW at, IsAt(at, t, a, p)
    PROVE  UserText(t, a, at) = Cut(t, a, at.host)
<1>1. CASE at.user = NotFound /\ at.host = a
  <2>1. a \in Nat
    OBVIOUS
  <2>2. Cut(t, a, a) = <<>>
    BY <2>1, CutNone
  <2>3. QED
    BY <1>1, <2>2 DEF UserText
<1>2. CASE at.user \in a..(p - 1) /\ t[at.user + 1] = AtSign /\ at.host = at.user + 1
  <2>1. PICK m \in a..(p - 1) : m = at.user
    BY <1>2
  <2>2. /\ a \in Nat /\ m \in Nat /\ m + 1 \in Nat /\ a <= m /\ m <= m + 1 /\ m < Len(t)
        /\ m + 1 <= Len(t) /\ m <= Len(t)
    OBVIOUS
  <2>3. at.user # NotFound
    BY <2>1, <2>2 DEF NotFound
  <2>4. Slice(t, a, m) = Cut(t, a, m)
    BY <2>2, TextCut
  <2>5. Cut(t, m, m + 1) = <<t[m + 1]>>
    BY <2>2, CutOne
  <2>6. t[m + 1] = AtSign
    BY <1>2, <2>1
  <2>7. Cut(t, a, m) \o Cut(t, m, m + 1) = Cut(t, a, m + 1)
    BY <2>2, TextCuts
  <2>8. UserText(t, a, at) = Cut(t, a, m) \o <<AtSign>>
    BY <2>1, <2>3, <2>4 DEF UserText
  <2>9. QED
    BY <1>2, <2>1, <2>5, <2>6, <2>7, <2>8
<1>3. QED
  BY <1>1, <1>2 DEF IsAt

\* Where the host ends, and what is after it.
LEMMA PortIs ==
    ASSUME NEW t \in Seq(Byte), NEW n \in Nat, n = Len(t), NEW p \in 0..n, NEW e \in 0..(p - 1),
           t[e + 1] = Colon
    PROVE  <<Colon>> \o Slice(t, e + 1, p) = Cut(t, e, p)
<1>1. /\ e \in Nat /\ e + 1 \in Nat /\ p \in Nat /\ e <= e + 1 /\ e + 1 <= p /\ p <= Len(t)
      /\ e < Len(t)
  OBVIOUS
<1>2. Slice(t, e + 1, p) = Cut(t, e + 1, p)
  BY <1>1, TextCut
<1>3. Cut(t, e, e + 1) = <<t[e + 1]>>
  BY <1>1, CutOne
<1>4. Cut(t, e, e + 1) \o Cut(t, e + 1, p) = Cut(t, e, p)
  BY <1>1, TextCuts
<1>5. QED
  BY <1>2, <1>3, <1>4

LEMMA LowerHost ==
    ASSUME NEW U \in Seq(Byte), NEW H \in Seq(Byte), NEW E \in Seq(Byte)
    PROVE  TextLower(U \o (H \o E)) = TextLower((U \o TextLower(H)) \o E)
<1>1. PICK X \in Seq(Byte) : X = TextLower(H) /\ TextLower(X) = X
  <2>1. TextLower(H) \in Seq(Byte)
    BY TextLowerIs
  <2>2. QED
    BY <2>1, TextLowerTwice
<1>2. U \o H \in Seq(Byte) /\ U \o X \in Seq(Byte)
  OBVIOUS
<1>3. TextLower((U \o H) \o E) = TextLower(U \o H) \o TextLower(E)
  BY <1>2, TextLowerJoin
<1>4. TextLower((U \o X) \o E) = TextLower(U \o X) \o TextLower(E)
  BY <1>2, TextLowerJoin
<1>5. TextLower(U \o H) = TextLower(U) \o TextLower(H)
  BY TextLowerJoin
<1>6. TextLower(U \o X) = TextLower(U) \o TextLower(X)
  BY TextLowerJoin
<1>7. U \o (H \o E) = (U \o H) \o E
  BY TextsJoin
<1>8. QED
  BY <1>1, <1>3, <1>4, <1>5, <1>6, <1>7, Zenon

\* Where the text of the host ends before the port is known to be one.
HostEnd(at, p) == IF at.port = NotFound THEN p ELSE at.port

LEMMA HostIs ==
    ASSUME NEW t \in Seq(Byte), NEW n \in Nat, n = Len(t), NEW a \in 0..n, NEW p \in a..n,
           NoBlanks(t), NEW at, IsAt(at, t, a, p)
    PROVE  HostText(t, at, p) = TextLower(Cut(t, at.host, HostEnd(at, p)))
<1>1. PICK h \in a..p : h = at.host
  BY DEF IsAt
<1>2. PICK e \in h..p : e = HostEnd(at, p)
  <2>1. at.port = NotFound \/ at.port \in h..(p - 1)
    BY <1>1 DEF IsAt
  <2>2. HostEnd(at, p) \in h..p
    BY <2>1 DEF HostEnd
  <2>3. QED
    BY <2>2
<1>3. h \in Nat /\ e \in Nat /\ h <= e /\ e <= Len(t)
  OBVIOUS
<1>4. PICK c \in Seq(Byte) : c = Cut(t, h, e) /\ c = Slice(t, h, e) /\ NoBlanks(c)
  <2>1. Cut(t, h, e) \in Seq(Byte) /\ Slice(t, h, e) = Cut(t, h, e)
    BY <1>3, TextCut
  <2>2. NoBlanks(Cut(t, h, e))
    BY <1>3, NoBlanksCut
  <2>3. QED
    BY <2>1, <2>2
<1>5. PICK d \in Seq(Byte) : d = TextLower(c) /\ NoBlanks(d)
  <2>1. TextLower(c) \in Seq(Byte)
    BY TextLowerIs
  <2>2. QED
    BY <1>4, <2>1, NoBlanksLower
<1>6. HostText(t, at, p) = TrimmedEnd(TrimmedStart(d, Blanks), Blanks)
  BY <1>1, <1>2, <1>4, <1>5, Zenon DEF HostText, HostEnd
<1>7. TrimmedStart(d, Blanks) = d /\ TrimmedEnd(d, Blanks) = d
  BY <1>5, TrimNone
<1>8. QED
  BY <1>1, <1>2, <1>4, <1>5, <1>6, <1>7

\* The components of an authority, with the marks between them.
AuthorityParts(au) ==
    ((IF "userinfo" \in au.has THEN au.text["userinfo"] \o <<AtSign>> ELSE <<>>) \o au.text["host"])
        \o (IF "port" \in au.has THEN <<Colon>> \o au.text["port"] ELSE <<>>)

LEMMA AuthorityKept ==
    ASSUME NEW t \in Seq(Byte), NEW n \in Nat, n = Len(t), NEW a \in 0..n, NEW p \in a..n,
           NoBlanks(t), NEW au, au = Authority(t, a, p), "host" \in au.has
    PROVE  TextLower(Cut(t, a, p)) = TextLower(AuthorityParts(au))
<1>1. PICK at : at = AuthorityAt(t, a, p)
  OBVIOUS
<1>2. IsAt(at, t, a, p)
  BY <1>1, AuthorityAtIs
<1>3. PICK h \in a..p : h = at.host
  BY <1>2 DEF IsAt
<1>4. PICK e \in h..p : e = HostEnd(at, p)
  <2>1. at.port = NotFound \/ at.port \in h..(p - 1)
    BY <1>2, <1>3 DEF IsAt
  <2>2. HostEnd(at, p) \in h..p
    BY <2>1 DEF HostEnd
  <2>3. QED
    BY <2>2
<1>5. PICK host : host = HostText(t, at, p) /\ host = TextLower(Cut(t, h, e))
  BY <1>2, <1>3, <1>4, HostIs
<1>6. PICK number : number = PortAt(t, at, p, host) /\ (at.port = NotFound => number = NotFound)
  BY DEF PortAt
<1>7. PICK isPort : isPort = (number \in 0..(PortLimit - 1))
  OBVIOUS
<1>8. PICK whole : whole = (host # <<>> /\ at.port # NotFound /\ ~isPort)
  OBVIOUS
<1>9. au = AuthorityOf(t, a, p, at, host, number)
  BY <1>1, <1>5, <1>6, Zenon DEF Authority
<1>10. /\ au.has = {"authority"} \cup (IF at.user # NotFound THEN {"userinfo"} ELSE {})
                      \cup (IF host # <<>> THEN {"host"} ELSE {})
                      \cup (IF isPort THEN {"port"} ELSE {})
       /\ au.text["userinfo"] = IF at.user = NotFound THEN <<>> ELSE Slice(t, a, at.user)
       /\ au.text["host"] = IF whole THEN TextLower(Slice(t, at.host, p)) ELSE host
       /\ au.text["port"] = IF isPort THEN Slice(t, at.port + 1, p) ELSE <<>>
  BY <1>7, <1>8, <1>9, AuthorityOfIs
<1>11. host # <<>> /\ ("userinfo" \in au.has <=> at.user # NotFound) /\ ("port" \in au.has <=> isPort)
  BY <1>10
<1>12. isPort => at.port # NotFound
  <2>1. isPort => number \in 0..(PortLimit - 1)
    BY <1>7, Zenon
  <2>2. NotFound \notin 0..(PortLimit - 1)
    BY UriAssumption DEF NotFound
  <2>3. QED
    BY <1>6, <2>1, <2>2, Zenon
<1>13. PICK z \in h..p : z = IF isPort THEN e ELSE p
  OBVIOUS
<1>14. /\ a \in Nat /\ h \in Nat /\ z \in Nat /\ p \in Nat /\ a <= h /\ h <= z /\ z <= p /\ h <= p
       /\ p <= Len(t) /\ z <= Len(t) /\ h <= Len(t)
  OBVIOUS
<1>15. Cut(t, a, h) \in Seq(Byte)
  BY <1>14, TextCut
<1>16. Cut(t, h, z) \in Seq(Byte) /\ Cut(t, h, p) = Slice(t, h, p)
  BY <1>14, TextCut
<1>17. Cut(t, z, p) \in Seq(Byte)
  BY <1>14, TextCut
<1>18. Cut(t, a, p) = Cut(t, a, h) \o (Cut(t, h, z) \o Cut(t, z, p))
  <2>1. Cut(t, h, z) \o Cut(t, z, p) = Cut(t, h, p)
    BY <1>14, TextCuts
  <2>2. Cut(t, a, h) \o Cut(t, h, p) = Cut(t, a, p)
    BY <1>14, TextCuts
  <2>3. QED
    BY <2>1, <2>2
<1>19. (IF "userinfo" \in au.has THEN au.text["userinfo"] \o <<AtSign>> ELSE <<>>) = Cut(t, a, h)
  <2>1. UserText(t, a, at) = Cut(t, a, h)
    BY <1>2, <1>3, UserIs
  <2>2. QED
    BY <1>10, <1>11, <2>1 DEF UserText
<1>20. au.text["host"] = TextLower(Cut(t, h, z))
  <2>1. CASE isPort
    BY <1>5, <1>8, <1>10, <1>13, <2>1
  <2>2. CASE ~isPort /\ at.port # NotFound
    BY <1>3, <1>8, <1>10, <1>11, <1>13, <1>16, <2>2
  <2>3. CASE ~isPort /\ at.port = NotFound
    <3>1. e = p
      BY <1>4, <2>3 DEF HostEnd
    <3>2. QED
      BY <1>5, <1>8, <1>10, <1>13, <2>3, <3>1
  <2>4. QED
    BY <2>1, <2>2, <2>3
<1>21. (IF "port" \in au.has THEN <<Colon>> \o au.text["port"] ELSE <<>>) = Cut(t, z, p)
  <2>1. CASE isPort
    <3>1. e = at.port /\ z = e
      BY <1>4, <1>12, <1>13, <2>1 DEF HostEnd
    <3>2. e \in h..(p - 1) /\ t[e + 1] = Colon
      BY <1>2, <1>3, <1>12, <2>1, <3>1 DEF IsAt
    <3>3. e \in 0..(p - 1) /\ p \in 0..n
      BY <1>14, <3>2
    <3>4. <<Colon>> \o Slice(t, e + 1, p) = Cut(t, e, p)
      BY <3>2, <3>3, PortIs
    <3>5. QED
      BY <1>10, <1>11, <2>1, <3>1, <3>4
  <2>2. CASE ~isPort
    <3>1. Cut(t, p, p) = <<>>
      BY <1>14, CutNone
    <3>2. QED
      BY <1>11, <1>13, <2>2, <3>1
  <2>3. QED
    BY <2>1, <2>2
<1>22. TextLower(Cut(t, a, h) \o (Cut(t, h, z) \o Cut(t, z, p))) =
           TextLower((Cut(t, a, h) \o TextLower(Cut(t, h, z))) \o Cut(t, z, p))
  BY <1>15, <1>16, <1>17, LowerHost
<1>23. AuthorityParts(au) = (Cut(t, a, h) \o TextLower(Cut(t, h, z))) \o Cut(t, z, p)
  BY <1>19, <1>20, <1>21, Zenon DEF AuthorityParts
<1>24. QED
  BY <1>18, <1>22, <1>23, Zenon

-----------------------------------------------------------------------------
(* The number of the port, as it is printed.                               *)

LEMMA TenthIs ==
    ASSUME NEW k \in Nat
    PROVE  /\ k \div 10 \in Nat /\ k % 10 \in 0..9 /\ k = 10 * (k \div 10) + (k % 10)
           /\ k >= 10 => k \div 10 < k /\ k \div 10 >= 1
<1>1. k \div 10 \in Nat /\ k % 10 \in 0..9 /\ k = 10 * (k \div 10) + (k % 10)
  OBVIOUS
<1>2. k >= 10 => k \div 10 < k /\ k \div 10 >= 1
  BY <1>1
<1>3. QED
  BY <1>1, <1>2

\* The digits of the numbers up to n.
IsDecimal(f, n) ==
    f = [k \in 0..n |-> IF k < 10 THEN <<k + 48>> ELSE f[k \div 10] \o <<(k % 10) + 48>>]

LEMMA DecimalExists ==
    ASSUME NEW n \in Nat
    PROVE  \E f : IsDecimal(f, n) /\ f \in [0..n -> Seq(Digits)]
<1>1. PICK prev : prev = [k \in 0..n |-> IF k < 10 THEN k ELSE k \div 10]
  OBVIOUS
<1>2. PICK step : step = [k \in 0..n |-> [x \in Seq(Digits) |-> x \o <<(k % 10) + 48>>]]
  OBVIOUS
<1>3. PICK first : first = [k \in 0..n |-> IF k < 10 THEN <<k + 48>> ELSE <<>>]
  OBVIOUS
<1>4. prev \in [0..n -> Nat]
  BY <1>1, TenthIs
<1>5. step \in [0..n -> [Seq(Digits) -> Seq(Digits)]]
  <2>1. ASSUME NEW k \in 0..n, NEW x \in Seq(Digits) PROVE x \o <<(k % 10) + 48>> \in Seq(Digits)
    <3>1. (k % 10) + 48 \in Digits
      BY TenthIs DEF Digits
    <3>2. <<(k % 10) + 48>> \in Seq(Digits)
      BY <3>1
    <3>3. QED
      BY <3>2
  <2>2. QED
    BY <1>2, <2>1
<1>6. first \in [0..n -> Seq(Digits)]
  <2>1. ASSUME NEW k \in 0..n PROVE (IF k < 10 THEN <<k + 48>> ELSE <<>>) \in Seq(Digits)
    <3>1. k < 10 => k + 48 \in Digits
      BY DEF Digits
    <3>2. QED
      BY <3>1
  <2>2. QED
    BY <1>3, <2>1
<1>7. PICK f : GoesUp(f, n, Seq(Digits), prev, step, first)
  BY <1>4, <1>5, <1>6, RecursionUp
<1>8. f \in [0..n -> Seq(Digits)]
  BY <1>7 DEF GoesUp
<1>9. ASSUME NEW k \in 0..n
      PROVE  f[k] = IF k < 10 THEN <<k + 48>> ELSE f[k \div 10] \o <<(k % 10) + 48>>
  <2>1. f[k] = IF prev[k] < k THEN step[k][f[prev[k]]] ELSE first[k]
    BY <1>7 DEF GoesUp
  <2>2. CASE k < 10
    <3>1. ~(prev[k] < k)
      BY <1>1, <2>2
    <3>2. QED
      BY <1>3, <2>1, <2>2, <3>1
  <2>3. CASE ~(k < 10)
    <3>1. k >= 10
      BY <2>3
    <3>2. prev[k] = k \div 10 /\ k \div 10 < k /\ k \div 10 \in 0..n
      BY <1>1, <2>3, <3>1, TenthIs
    <3>3. f[k] = step[k][f[k \div 10]]
      BY <2>1, <3>2
    <3>4. f[k \div 10] \in Seq(Digits)
      BY <1>8, <3>2
    <3>5. QED
      BY <1>2, <2>3, <3>3, <3>4
  <2>4. QED
    BY <2>2, <2>3
<1>10. IsDecimal(f, n)
  BY <1>8, <1>9 DEF IsDecimal
<1>11. QED
  BY <1>8, <1>10

LEMMA DecimalStep ==
    ASSUME NEW n \in Nat, NEW f, IsDecimal(f, n), NEW k \in 0..n
    PROVE  f[k] = IF k < 10 THEN <<k + 48>> ELSE f[k \div 10] \o <<(k % 10) + 48>>
BY Zenon DEF IsDecimal

LEMMA DecimalUnique ==
    ASSUME NEW n \in Nat, NEW f, IsDecimal(f, n), NEW m \in 0..n, NEW g, IsDecimal(g, m)
    PROVE  \A k \in 0..m : f[k] = g[k]
<1> DEFINE S == {k \in Nat : k \in 0..m => f[k] = g[k]}
<1>1. ASSUME NEW k \in Nat, \A j \in 0..(k - 1) : j \in S PROVE k \in S
  <2>1. CASE k \in 0..m
    <3>1. k \in 0..n
      BY <2>1
    <3>2. f[k] = IF k < 10 THEN <<k + 48>> ELSE f[k \div 10] \o <<(k % 10) + 48>>
      BY <3>1, DecimalStep
    <3>3. g[k] = IF k < 10 THEN <<k + 48>> ELSE g[k \div 10] \o <<(k % 10) + 48>>
      BY <2>1, DecimalStep
    <3>4. ~(k < 10) => f[k \div 10] = g[k \div 10]
      <4>1. ASSUME ~(k < 10) PROVE k \div 10 \in 0..(k - 1) /\ k \div 10 \in 0..m
        <5>1. k >= 10
          BY <4>1
        <5>2. k \div 10 \in Nat /\ k \div 10 < k
          BY <5>1, TenthIs
        <5>3. QED
          BY <2>1, <5>2
      <4>2. QED
        BY <1>1, <4>1
    <3>5. f[k] = g[k]
      BY <3>2, <3>3, <3>4
    <3>6. QED
      BY <3>5
  <2>2. QED
    BY <2>1
<1>2. S = Nat
  <2>1. S \in SUBSET Nat
    OBVIOUS
  <2> HIDE DEF S
  <2>2. QED
    BY <1>1, <2>1, StrongInduction
<1>3. QED
  BY <1>2

LEMMA DecimalIs ==
    ASSUME NEW n \in Nat
    PROVE  \E f : IsDecimal(f, n) /\ Decimal(n) = f[n] /\ f[n] \in Seq(Digits)
<1>1. PICK g : g = CHOOSE f : IsDecimal(f, n)
  OBVIOUS
<1>2. PICK h : IsDecimal(h, n) /\ h \in [0..n -> Seq(Digits)]
  BY DecimalExists
<1>3. IsDecimal(g, n)
  BY <1>1, <1>2
<1>4. Decimal(n) = g[n]
  BY <1>1 DEF Decimal, IsDecimal
<1>5. n \in 0..n
  OBVIOUS
<1>6. h[n] = g[n]
  BY <1>2, <1>3, <1>5, DecimalUnique
<1>7. QED
  BY <1>2, <1>3, <1>4, <1>5, <1>6

\* A number's digits are those of its tenth and its last one.
LEMMA DecimalDigits ==
    ASSUME NEW n \in Nat
    PROVE  /\ Decimal(n) \in Seq(Digits)
           /\ n < 10 => Decimal(n) = <<n + 48>>
           /\ ~(n < 10) => Decimal(n) = Decimal(n \div 10) \o <<(n % 10) + 48>>
<1>1. PICK f : IsDecimal(f, n) /\ Decimal(n) = f[n] /\ f[n] \in Seq(Digits)
  BY DecimalIs
<1>2. f[n] = IF n < 10 THEN <<n + 48>> ELSE f[n \div 10] \o <<(n % 10) + 48>>
  <2>1. n \in 0..n
    OBVIOUS
  <2>2. QED
    BY <1>1, <2>1, DecimalStep
<1>3. CASE ~(n < 10)
  <2>1. n >= 10
    BY <1>3
  <2>2. PICK m \in Nat : m = n \div 10 /\ m < n
    BY <2>1, TenthIs
  <2>3. PICK g : IsDecimal(g, m) /\ Decimal(m) = g[m]
    BY DecimalIs
  <2>4. m \in 0..n /\ m \in 0..m
    BY <2>2
  <2>5. f[m] = g[m]
    BY <1>1, <2>3, <2>4, DecimalUnique
  <2>6. QED
    BY <1>1, <1>2, <1>3, <2>2, <2>3, <2>5
<1>4. CASE n < 10
  BY <1>1, <1>2, <1>4
<1>5. QED
  BY <1>3, <1>4

-----------------------------------------------------------------------------
(* The structure that a text is parsed into.                               *)

\* What is known of the structure w and the result of a parse of t.
IsParse(w, code, t) == \E v : w = ParseUri(v, t).uri /\ code = ParseUri(v, t).result

\* The authority of a parsed structure is kept when it has a host.
LEMMA AuthorityKeptIn ==
    ASSUME NEW t \in Seq(Byte), NEW n \in Nat, n = Len(t),
           NEW s \in 0..n, NEW a \in 0..n, NEW p \in a..n, NEW q \in 0..n, NEW f \in Nat,
           NEW au, IsAuthority(au, t, a, p), NEW r, IsParsed(r, t, s, p, q, f, au)
    PROVE  AuthorityIsKept(r.uri, t)
<1>1. SUFFICES ASSUME "host" \in r.uri.has, IndexOfAny(t, Blanks, 0) = NotFound
               PROVE  TextLower(r.uri.text["authority"]) =
                          TextLower(User(r.uri) \o r.uri.text["host"] \o Marked(r.uri, "port", Colon))
  BY Zenon DEF AuthorityIsKept
<1>2. /\ DOMAIN au.text \subseteq AuthorityNames /\ au.has \subseteq AuthorityNames
      /\ PartOf(au, "authority") = Cut(t, a, p)
  BY AuthorityIs
<1>3. r.uri.has = (IF s > 0 THEN {"scheme"} ELSE {}) \cup au.has
                      \cup (IF q > p THEN {"path"} ELSE {})
                      \cup (IF IsQuery(t, q) THEN {"query"} ELSE {})
                      \cup (IF IsFragment(t, f) THEN {"fragment"} ELSE {})
  BY DEF IsParsed
<1>4. /\ "host" \in au.has
      /\ "userinfo" \in r.uri.has <=> "userinfo" \in au.has
      /\ "port" \in r.uri.has <=> "port" \in au.has
  BY <1>1, <1>3
<1>5. p > a /\ au = Authority(t, a, p)
  <2>1. CASE p > a
    BY <2>1 DEF IsAuthority
  <2>2. CASE ~(p > a)
    <3>1. au = NoAuthority
      BY <2>2 DEF IsAuthority
    <3>2. au.has = {}
      BY <3>1 DEF NoAuthority
    <3>3. QED
      BY <1>4, <3>2
  <2>3. QED
    BY <2>1, <2>2
<1>6. DOMAIN au.text = AuthorityNames
  <2>1. PICK at, host, number : au = AuthorityOf(t, a, p, at, host, number)
    BY <1>5, Zenon DEF Authority
  <2>2. PICK isPort, whole : /\ isPort = (number \in 0..(PortLimit - 1))
                             /\ whole = (host # <<>> /\ at.port # NotFound /\ ~isPort)
    OBVIOUS
  <2>3. QED
    BY <2>1, <2>2, AuthorityOfIs
<1>7. /\ r.uri.text["userinfo"] = au.text["userinfo"] /\ r.uri.text["host"] = au.text["host"]
      /\ r.uri.text["port"] = au.text["port"] /\ r.uri.text["authority"] = Cut(t, a, p)
  BY <1>2, <1>6 DEF IsParsed, PartOf, AuthorityNames
<1>8. NoBlanks(t)
  <2>1. IsSetOf({32, 9}, Blanks)
    <3>1. Blanks[1] = 32 /\ Blanks[2] = 9 /\ DOMAIN Blanks = 1..2
      BY DEF Blanks
    <3>2. \A k : k \in DOMAIN Blanks <=> k = 1 \/ k = 2
      BY <3>1
    <3>3. QED
      BY <3>1, <3>2 DEF IsSetOf
  <2>2. PICK i \in 0..n : i = 0 /\ i + 1 = 1
    OBVIOUS
  <2>3. IndexOfAny(t, Blanks, i) = NotFound
    BY <1>1, <2>2
  <2>4. \A k \in (i + 1)..n : t[k] \notin {32, 9}
    BY <2>1, <2>3, AnyIs, SMTT(40)
  <2>5. QED
    BY <2>2, <2>4 DEF NoBlanks
<1>9. TextLower(Cut(t, a, p)) = TextLower(AuthorityParts(au))
  BY <1>4, <1>5, <1>8, AuthorityKept
<1>10. AuthorityParts(au) = User(r.uri) \o r.uri.text["host"] \o Marked(r.uri, "port", Colon)
  BY <1>4, <1>7 DEF AuthorityParts, User, Marked, Part
<1>11. QED
  BY <1>7, <1>9, <1>10

LEMMA PartsAreKept ==
    ASSUME NEW t \in Seq(Byte), NEW w, IsParse(w, 0, t)
    PROVE  TextIsKept(w, t) /\ AuthorityIsKept(w, t)
<1>1. PICK v : w = ParseUri(v, t).uri /\ ParseUri(v, t).result = 0
  BY DEF IsParse
<1>2. PICK r : r = ParseUri(v, t) /\ r.uri = w /\ r.result = 0
  BY <1>1
<1>3. PICK n \in Nat : n = Len(t)
  OBVIOUS
<1>4. PICK s, a, p, q \in 0..n, f \in Nat : ArePlaces(t, n, s, a, p, q, f)
  BY <1>3, PlacesAre
<1>5. PICK au : IsAuthority(au, t, a, p)
  BY DEF IsAuthority
<1>6. IsParsed(r, t, s, p, q, f, au)
  BY <1>2, <1>3, <1>4, <1>5, ParsedIs
<1>7. TextIsKept(r.uri, t)
  BY <1>2, <1>3, <1>4, <1>5, <1>6, TextKept
<1>8. p \in a..n
  BY <1>4 DEF ArePlaces
<1>9. AuthorityIsKept(r.uri, t)
  BY <1>3, <1>5, <1>6, <1>8, AuthorityKeptIn
<1>10. QED
  BY <1>2, <1>7, <1>9

LEMMA TrimType ==
    ASSUME NEW s \in Seq(Byte), NEW set
    PROVE  TrimmedStart(s, set) \in Seq(Byte) /\ TrimmedEnd(s, set) \in Seq(Byte)
<1>1. PICK n \in Nat : n = Len(s)
  OBVIOUS
<1>2. CASE Kept(s, set) = {}
  <2>1. IndexNotOfAny(s, set, 0) = NotFound /\ ReverseIndexNotOfAny(s, set, Len(s)) = NotFound
    BY <1>2, TrimSearches
  <2>2. TrimmedStart(s, set) = <<>>
    BY <2>1 DEF TrimmedStart
  <2>3. TrimmedEnd(s, set) = Cut(s, 0, 0)
    <3>1. NotFound + 1 = 0 /\ 0 + 1 = 1
      BY DEF NotFound
    <3>2. QED
      BY <2>1, <3>1 DEF TrimmedEnd, Cut
  <2>4. Cut(s, 0, 0) = <<>> /\ <<>> \in Seq(Byte)
    BY CutNone
  <2>5. QED
    BY <2>2, <2>3, <2>4
<1>3. CASE Kept(s, set) # {}
  <2>1. PICK a, z \in Kept(s, set) :
            /\ IndexNotOfAny(s, set, 0) = a - 1
            /\ ReverseIndexNotOfAny(s, set, Len(s)) = z - 1
    BY <1>3, TrimSearches
  <2>2. a \in 1..n /\ z \in 1..n
    <3>1. Kept(s, set) \subseteq 1..n
      BY <1>1, KeptIs
    <3>2. QED
      BY <3>1
  <2>3. PICK b, y \in Nat : b = a - 1 /\ y = z /\ b <= n /\ y <= n /\ (z - 1) + 1 = y /\ 0 + 1 = 1
    BY <2>2
  <2>4. b # NotFound
    BY <2>3 DEF NotFound
  <2>5. TrimmedStart(s, set) = Cut(s, b, n)
    BY <1>1, <2>1, <2>3, <2>4 DEF TrimmedStart, Cut
  <2>6. TrimmedEnd(s, set) = Cut(s, 0, y)
    BY <2>1, <2>3 DEF TrimmedEnd, Cut
  <2>7. Cut(s, b, n) \in Seq(Byte)
    BY <1>1, <2>3, TextCut
  <2>8. Cut(s, 0, y) \in Seq(Byte)
    BY <1>1, <2>3, TextCut
  <2>9. QED
    BY <2>5, <2>6, <2>7, <2>8
<1>4. QED
  BY <1>2, <1>3

\* The parts of a structure have their types.
IsUri(w) == w.port \in Nat /\ \A c \in Components : w.text[c] \in Seq(Byte)

LEMMA AuthorityType ==
    ASSUME NEW t \in Seq(Byte), NEW n \in Nat, n = Len(t), NEW a \in 0..n, NEW p \in a..n,
           NEW au, IsAuthority(au, t, a, p)
    PROVE  /\ au.port \in Nat /\ PartOf(au, "authority") \in Seq(Byte)
           /\ PartOf(au, "userinfo") \in Seq(Byte) /\ PartOf(au, "host") \in Seq(Byte)
           /\ PartOf(au, "port") \in Seq(Byte)
<1>1. CASE p > a
  <2>1. PICK at : at = AuthorityAt(t, a, p)
    OBVIOUS
  <2>2. PICK host : host = HostText(t, at, p)
    OBVIOUS
  <2>3. PICK number : number = PortAt(t, at, p, host) /\ (at.port = NotFound => number = NotFound)
    BY DEF PortAt
  <2>4. au = AuthorityOf(t, a, p, at, host, number)
    BY <1>1, <2>1, <2>2, <2>3, Zenon DEF IsAuthority, Authority
  <2>5. PICK isPort : isPort = (number \in 0..(PortLimit - 1))
    OBVIOUS
  <2>6. PICK whole : whole = (host # <<>> /\ at.port # NotFound /\ ~isPort)
    OBVIOUS
  <2>7. /\ au.port = IF isPort THEN number ELSE 0
        /\ DOMAIN au.text = AuthorityNames
        /\ au.text["authority"] = Slice(t, a, p)
        /\ au.text["userinfo"] = IF at.user = NotFound THEN <<>> ELSE Slice(t, a, at.user)
        /\ au.text["host"] = IF whole THEN TextLower(Slice(t, at.host, p)) ELSE host
        /\ au.text["port"] = IF isPort THEN Slice(t, at.port + 1, p) ELSE <<>>
    BY <2>4, <2>5, <2>6, AuthorityOfIs
  <2>8. IsAt(at, t, a, p)
    BY <2>1, AuthorityAtIs
  <2>9. PICK h \in a..p : h = at.host
    BY <2>8 DEF IsAt
  <2>10. a \in Nat /\ p \in Nat /\ h \in Nat /\ a <= p /\ h <= p /\ p <= Len(t)
    OBVIOUS
  <2>11. Slice(t, a, p) \in Seq(Byte)
    BY <2>10, TextCut
  <2>12. Slice(t, h, p) \in Seq(Byte)
    BY <2>10, TextCut
  <2>13. at.user # NotFound => Slice(t, a, at.user) \in Seq(Byte)
    <3>1. SUFFICES ASSUME at.user # NotFound PROVE Slice(t, a, at.user) \in Seq(Byte)
      OBVIOUS
    <3>2. PICK m \in a..(p - 1) : m = at.user
      BY <2>8, <3>1 DEF IsAt
    <3>3. m \in Nat /\ a <= m /\ m <= Len(t)
      BY <2>10
    <3>4. Slice(t, a, m) \in Seq(Byte)
      BY <2>10, <3>3, TextCut
    <3>5. QED
      BY <3>2, <3>4
  <2>14. host \in Seq(Byte)
    <3>1. PICK e \in h..p : e = IF at.port = NotFound THEN p ELSE at.port
      <4>1. at.port = NotFound \/ at.port \in h..(p - 1)
        BY <2>8, <2>9 DEF IsAt
      <4>2. QED
        BY <4>1
    <3>2. e \in Nat /\ h <= e /\ e <= Len(t)
      BY <2>10
    <3>3. Slice(t, h, e) \in Seq(Byte)
      BY <2>10, <3>2, TextCut
    <3>4. TextLower(Slice(t, h, e)) \in Seq(Byte)
      BY <3>3, TextLowerIs
    <3>5. TrimmedStart(TextLower(Slice(t, h, e)), Blanks) \in Seq(Byte)
      BY <3>4, TrimType
    <3>6. TrimmedEnd(TrimmedStart(TextLower(Slice(t, h, e)), Blanks), Blanks) \in Seq(Byte)
      BY <3>5, TrimType
    <3>7. HostText(t, at, p) = TrimmedEnd(TrimmedStart(TextLower(Slice(t, h, e)), Blanks), Blanks)
      BY <2>9, <3>1, Zenon DEF HostText
    <3>8. QED
      BY <2>2, <3>6, <3>7
  <2>15. TextLower(Slice(t, h, p)) \in Seq(Byte)
    BY <2>12, TextLowerIs
  <2>16. isPort => Slice(t, at.port + 1, p) \in Seq(Byte) /\ number \in Nat
    <3>1. SUFFICES ASSUME number \in 0..(PortLimit - 1)
                   PROVE  Slice(t, at.port + 1, p) \in Seq(Byte) /\ number \in Nat
      BY <2>5, Zenon
    <3>2. number # NotFound
      BY <3>1, UriAssumption DEF NotFound
    <3>3. PICK e \in h..(p - 1) : e = at.port
      BY <2>3, <2>8, <2>9, <3>2 DEF IsAt
    <3>4. e + 1 \in Nat /\ e + 1 <= p
      BY <2>10
    <3>5. Slice(t, e + 1, p) \in Seq(Byte)
      BY <2>10, <3>4, TextCut
    <3>6. QED
      BY <3>1, <3>3, <3>5, UriAssumption
  <2>17. au.port \in Nat
    BY <2>7, <2>16
  <2>18. <<>> \in Seq(Byte)
    OBVIOUS
  <2>19. /\ "authority" \in AuthorityNames /\ "userinfo" \in AuthorityNames
         /\ "host" \in AuthorityNames /\ "port" \in AuthorityNames
    BY DEF AuthorityNames
  <2>20. PartOf(au, "authority") \in Seq(Byte)
    BY <2>7, <2>11, <2>19 DEF PartOf
  <2>21. PartOf(au, "userinfo") \in Seq(Byte)
    BY <2>7, <2>13, <2>18, <2>19 DEF PartOf
  <2>22. PartOf(au, "host") \in Seq(Byte)
    BY <2>7, <2>9, <2>14, <2>15, <2>19 DEF PartOf
  <2>23. PartOf(au, "port") \in Seq(Byte)
    BY <2>7, <2>16, <2>18, <2>19 DEF PartOf
  <2>24. QED
    BY <2>17, <2>20, <2>21, <2>22, <2>23
<1>2. CASE ~(p > a)
  <2>1. au = NoAuthority
    BY <1>2 DEF IsAuthority
  <2>2. au.port = 0 /\ DOMAIN au.text = {}
    BY <2>1 DEF NoAuthority
  <2>3. /\ PartOf(au, "authority") = <<>> /\ PartOf(au, "userinfo") = <<>>
        /\ PartOf(au, "host") = <<>> /\ PartOf(au, "port") = <<>>
    BY <2>2 DEF PartOf
  <2>4. <<>> \in Seq(Byte)
    OBVIOUS
  <2>5. au.port \in Nat
    BY <2>2
  <2>6. QED
    BY <2>3, <2>4, <2>5, Zenon
<1>3. QED
  BY <1>1, <1>2
LEMMA ComponentsAre ==
    \A c \in Components : \/ c = "scheme" \/ c = "authority" \/ c = "userinfo" \/ c = "host"
                          \/ c = "port" \/ c = "path" \/ c = "query" \/ c = "fragment"
BY DEF Components

LEMMA ParsedType ==
    ASSUME NEW t \in Seq(Byte), NEW n \in Nat, n = Len(t),
           NEW s \in 0..n, NEW a \in 0..n, NEW p \in 0..n, NEW q \in 0..n, NEW f \in Nat,
           ArePlaces(t, n, s, a, p, q, f),
           NEW au, IsAuthority(au, t, a, p), NEW r, IsParsed(r, t, s, p, q, f, au)
    PROVE  r.result = 0 => IsUri(r.uri)
<1>1. SUFFICES ASSUME r.result = 0 PROVE IsUri(r.uri)
  OBVIOUS
<1>2. p \in a..n /\ q \in p..n
  BY DEF ArePlaces
<1>3. IsQuery(t, q) => q + 2 <= f
  BY DEF ArePlaces, IsQuery
<1>4. IsFragment(t, f) \/ f = n
  BY <1>1 DEF IsParsed
<1>5. f <= n /\ (IsFragment(t, f) => f + 1 <= n)
  BY <1>4 DEF IsFragment
<1>6. /\ au.port \in Nat /\ PartOf(au, "authority") \in Seq(Byte)
      /\ PartOf(au, "userinfo") \in Seq(Byte) /\ PartOf(au, "host") \in Seq(Byte)
      /\ PartOf(au, "port") \in Seq(Byte)
  BY <1>2, AuthorityType
<1>7. TextLower(Slice(t, 0, s)) \in Seq(Byte)
  <2>1. 0 \in Nat /\ s \in Nat /\ 0 <= s /\ s <= Len(t)
    OBVIOUS
  <2>2. Slice(t, 0, s) \in Seq(Byte)
    BY <2>1, TextCut
  <2>3. QED
    BY <2>2, TextLowerIs
<1>8. <<>> \o Decode(Slice(t, p, q)) \in Seq(Byte)
  <2>1. p \in Nat /\ q \in Nat /\ p <= q /\ q <= Len(t)
    BY <1>2
  <2>2. Slice(t, p, q) \in Seq(Byte)
    BY <2>1, TextCut
  <2>3. Decode(Slice(t, p, q)) \in Seq(Byte)
    BY <2>2, DecodeType
  <2>4. QED
    BY <2>3, NothingJoins
<1>9. IsQuery(t, q) => <<>> \o Decode(Slice(t, q + 1, f)) \in Seq(Byte)
  <2>1. SUFFICES ASSUME IsQuery(t, q) PROVE <<>> \o Decode(Slice(t, q + 1, f)) \in Seq(Byte)
    OBVIOUS
  <2>2. q + 1 \in Nat /\ q + 1 <= f /\ f <= Len(t)
    BY <1>3, <1>5, <2>1
  <2>3. Slice(t, q + 1, f) \in Seq(Byte)
    BY <2>2, TextCut
  <2>4. Decode(Slice(t, q + 1, f)) \in Seq(Byte)
    BY <2>3, DecodeType
  <2>5. QED
    BY <2>4, NothingJoins
<1>10. IsFragment(t, f) => <<>> \o Decode(Slice(t, f + 1, Len(t))) \in Seq(Byte)
  <2>1. SUFFICES ASSUME IsFragment(t, f)
                 PROVE  <<>> \o Decode(Slice(t, f + 1, Len(t))) \in Seq(Byte)
    OBVIOUS
  <2>2. f + 1 \in Nat /\ f + 1 <= n /\ n <= Len(t)
    BY <1>5, <2>1
  <2>3. Slice(t, f + 1, n) \in Seq(Byte)
    BY <2>2, TextCut
  <2>4. Decode(Slice(t, f + 1, n)) \in Seq(Byte)
    BY <2>3, DecodeType
  <2>5. QED
    BY <2>4, NothingJoins
<1>11. <<>> \in Seq(Byte)
  OBVIOUS
<1>12. r.uri.port \in Nat
  BY <1>6 DEF IsParsed
<1>13. /\ r.uri.text["scheme"] \in Seq(Byte) /\ r.uri.text["authority"] \in Seq(Byte)
       /\ r.uri.text["userinfo"] \in Seq(Byte) /\ r.uri.text["host"] \in Seq(Byte)
       /\ r.uri.text["port"] \in Seq(Byte) /\ r.uri.text["path"] \in Seq(Byte)
  BY <1>6, <1>7, <1>8, Zenon DEF IsParsed
<1>14. r.uri.text["query"] \in Seq(Byte)
  BY <1>9, <1>11, Zenon DEF IsParsed
<1>15. r.uri.text["fragment"] \in Seq(Byte)
  BY <1>10, <1>11, Zenon DEF IsParsed
<1>16. QED
  BY <1>12, <1>13, <1>14, <1>15, ComponentsAre, Zenon DEF IsUri

\* What an accepted text is parsed into.
LEMMA ParseType ==
    ASSUME NEW t \in Seq(Byte), NEW w, NEW code, IsParse(w, code, t)
    PROVE  code \in 0..1 /\ (code = 0 => IsUri(w))
<1>1. PICK v : w = ParseUri(v, t).uri /\ ParseUri(v, t).result = code
  BY DEF IsParse
<1>2. PICK r : r = ParseUri(v, t) /\ r.uri = w /\ r.result = code
  BY <1>1
<1>3. PICK n \in Nat : n = Len(t)
  OBVIOUS
<1>4. PICK s, a, p, q \in 0..n, f \in Nat : ArePlaces(t, n, s, a, p, q, f)
  BY <1>3, PlacesAre
<1>5. PICK au : IsAuthority(au, t, a, p)
  BY DEF IsAuthority
<1>6. IsParsed(r, t, s, p, q, f, au)
  BY <1>2, <1>3, <1>4, <1>5, ParsedIs
<1>7. r.result = 0 => IsUri(r.uri)
  BY <1>3, <1>4, <1>5, <1>6, ParsedType
<1>8. r.result \in 0..1
  BY <1>6 DEF IsParsed
<1>9. QED
  BY <1>2, <1>7, <1>8

LEMMA PrintedType ==
    ASSUME NEW w, IsUri(w)
    PROVE  UriString(w) \in Seq(Byte)
<1>1. ASSUME NEW c, NEW x \in Seq(Byte) PROVE Part(w, c, x) \in Seq(Byte)
  <2>1. <<>> \in Seq(Byte)
    OBVIOUS
  <2>2. QED
    BY <2>1 DEF Part
<1>2. /\ w.text["scheme"] \in Seq(Byte) /\ w.text["userinfo"] \in Seq(Byte)
      /\ w.text["host"] \in Seq(Byte) /\ w.text["path"] \in Seq(Byte)
      /\ w.text["query"] \in Seq(Byte) /\ w.text["fragment"] \in Seq(Byte) /\ w.port \in Nat
  BY DEF IsUri, Components
<1>3. <<AtSign>> \in Seq(Byte) /\ <<Colon>> \in Seq(Byte) /\ <<Question>> \in Seq(Byte) /\ <<Hash>> \in Seq(Byte)
  BY CharsAre
<1>4. Decimal(w.port) \in Seq(Byte)
  <2>1. Decimal(w.port) \in Seq(Digits)
    BY <1>2, DecimalDigits
  <2>2. Digits \subseteq Byte
    BY DEF Digits, Byte
  <2>3. QED
    BY <2>1, <2>2
<1>5. PICK A \in Seq(Byte) : A = Part(w, "scheme", w.text["scheme"])
  BY <1>1, <1>2
<1>6. PICK B \in Seq(Byte) : B = A \o Part(w, "userinfo", w.text["userinfo"] \o <<AtSign>>)
  <2>1. w.text["userinfo"] \o <<AtSign>> \in Seq(Byte)
    BY <1>2, <1>3, TextJoins
  <2>2. QED
    BY <1>1, <2>1, TextJoins
<1>7. PICK C \in Seq(Byte) : C = B \o Part(w, "host", w.text["host"])
  BY <1>1, <1>2, TextJoins
<1>8. PICK D \in Seq(Byte) : D = C \o Part(w, "port", <<Colon>> \o Decimal(w.port))
  <2>1. <<Colon>> \o Decimal(w.port) \in Seq(Byte)
    BY <1>3, <1>4, TextJoins
  <2>2. QED
    BY <1>1, <2>1, TextJoins
<1>9. PICK E \in Seq(Byte) : E = D \o Part(w, "path", Encode(w.text["path"]))
  <2>1. Encode(w.text["path"]) \in Seq(Byte)
    BY <1>2, EncodeType
  <2>2. QED
    BY <1>1, <2>1, TextJoins
<1>10. PICK F \in Seq(Byte) : F = E \o Part(w, "query", <<Question>> \o Encode(w.text["query"]))
  <2>1. Encode(w.text["query"]) \in Seq(Byte)
    BY <1>2, EncodeType
  <2>2. <<Question>> \o Encode(w.text["query"]) \in Seq(Byte)
    BY <1>3, <2>1, TextJoins
  <2>3. QED
    BY <1>1, <2>2, TextJoins
<1>11. PICK G \in Seq(Byte) : G = F \o Part(w, "fragment", <<Hash>> \o Encode(w.text["fragment"]))
  <2>1. Encode(w.text["fragment"]) \in Seq(Byte)
    BY <1>2, EncodeType
  <2>2. <<Hash>> \o Encode(w.text["fragment"]) \in Seq(Byte)
    BY <1>3, <2>1, TextJoins
  <2>3. QED
    BY <1>1, <2>2, TextJoins
<1>12. UriString(w) = G
  BY <1>5, <1>6, <1>7, <1>8, <1>9, <1>10, <1>11, Zenon DEF UriString
<1>13. QED
  BY <1>12

-----------------------------------------------------------------------------
(* The parser and the printer over a structure's life.                     *)

\* The structure is what its text was parsed into; one that was printed was accepted, and
\* its print is the text parsed since.
UriInv ==
    /\ given \in Seq(Byte)
    /\ result # -1 => IsParse(u, result, given)
    /\ \A v \in before : /\ result # -1 /\ given = UriString(v)
                         /\ \E t \in Seq(Byte) : IsParse(v, 0, t)

LEMMA UriStarts == UriInit => UriInv
BY DEF UriInit, UriInv

LEMMA ParsesIs ==
    ASSUME NEW t \in Seq(Byte), ParsesFrom(t)
    PROVE  given' = t /\ IsParse(u', result', t) /\ result' # -1
<1>1. u' = ParseUri(u, t).uri /\ result' = ParseUri(u, t).result /\ given' = t
  BY Zenon DEF ParsesFrom
<1>2. IsParse(u', result', t)
  BY <1>1, Zenon DEF IsParse
<1>3. result' \in 0..1
  BY <1>2, ParseType
<1>4. QED
  BY <1>1, <1>2, <1>3

LEMMA UriStep == UriInv /\ [UriNext]_uriVars => UriInv'
<1>1. SUFFICES ASSUME UriInv, [UriNext]_uriVars PROVE UriInv'
  OBVIOUS
<1>2. CASE UserParses
  <2>1. PICK t \in IF parses = 0 THEN FirstTexts ELSE UriTexts : ParsesFrom(t)
    BY <1>2 DEF UserParses
  <2>2. t \in Seq(Byte)
    <3>1. t \in Seq(1..255)
      BY <2>1, UriAssumption
    <3>2. t \in Seq(Char)
      BY <3>1, Zenon DEF Char
    <3>3. QED
      BY <3>2, CharsAreBytes
  <2>3. given' = t /\ IsParse(u', result', t)
    BY <2>1, <2>2, ParsesIs
  <2>4. before' = {}
    BY <1>2 DEF UserParses
  <2>5. QED
    BY <2>2, <2>3, <2>4 DEF UriInv
<1>3. CASE UserReparses
  <2>1. ParsesFrom(UriString(u)) /\ before' = {u} /\ result = 0
    BY <1>3 DEF UserReparses
  <2>2. given \in Seq(Byte) /\ IsParse(u, 0, given)
    BY <1>1, <2>1 DEF UriInv
  <2>3. IsUri(u)
    BY <2>2, ParseType
  <2>4. UriString(u) \in Seq(Byte)
    BY <2>3, PrintedType
  <2>5. given' = UriString(u) /\ IsParse(u', result', UriString(u)) /\ result' # -1
    BY <2>1, <2>4, ParsesIs
  <2>6. QED
    BY <2>1, <2>2, <2>4, <2>5 DEF UriInv
<1>4. CASE UriDone \/ UNCHANGED uriVars
  BY <1>1, <1>4, Zenon DEF UriDone, uriVars, UriInv
<1>5. QED
  BY <1>1, <1>2, <1>3, <1>4 DEF UriNext

LEMMA UriAlways == UriSpec => []UriInv
BY UriStarts, UriStep, PTL DEF UriSpec

\* Every accepted text is the components it was parsed into, whatever was parsed before.
THEOREM ComponentsCorrect == UriSpec => []ComponentsAreTheText
<1>1. UriInv => ComponentsAreTheText
  <2>1. SUFFICES ASSUME UriInv, result = 0
                 PROVE  TextIsKept(u, given) /\ AuthorityIsKept(u, given)
    BY IsComponents, Zenon
  <2>2. given \in Seq(Byte) /\ IsParse(u, 0, given)
    BY <2>1 DEF UriInv
  <2>3. QED
    BY <2>2, PartsAreKept
<1>2. QED
  BY <1>1, UriAlways, PTL
=============================================================================
