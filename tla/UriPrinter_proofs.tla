-------------------------- MODULE UriPrinter_proofs --------------------------
(***************************************************************************)
(* The theorem that a printed URI parses back to what was printed, for     *)
(* every text that uri_parse accepts.                                      *)
(***************************************************************************)
EXTENDS Uri_proofs


-----------------------------------------------------------------------------
(* Pieces of a text.                                                       *)

\* x is the piece of s from i until j.
IsPiece(s, x, i, j) == /\ i \in Nat /\ j \in i..Len(s) /\ Len(x) = j - i
                       /\ \A k \in 1..(j - i) : s[i + k] = x[k]

NoneOf(x, C) == \A k \in 1..Len(x) : x[k] \notin C
NoneIn(s, i, j, C) == \A k \in (i + 1)..j : s[k] \notin C

LEMMA PieceIs ==
    ASSUME NEW s \in Seq(Byte), NEW x \in Seq(Byte), NEW i \in Nat, NEW j \in Nat, IsPiece(s, x, i, j)
    PROVE  Cut(s, i, j) = x /\ Slice(s, i, j) = x
<1>1. PICK d \in Nat : d = j - i /\ Len(x) = d /\ i <= j /\ j <= Len(s) /\ \A k \in 1..d : s[i + k] = x[k]
  <2>1. /\ j - i \in Nat /\ Len(x) = j - i /\ i <= j /\ j <= Len(s)
        /\ \A k \in 1..(j - i) : s[i + k] = x[k]
    BY DEF IsPiece
  <2>2. QED
    BY <2>1
<1>2. PICK y \in Seq(Byte) : y = Cut(s, i, j) /\ Len(y) = d /\ \A k \in 1..d : y[k] = s[i + k]
  <2>1. /\ Cut(s, i, j) \in Seq(Byte) /\ Len(Cut(s, i, j)) = j - i
        /\ \A k \in 1..(j - i) : Cut(s, i, j)[k] = s[i + k]
    BY <1>1, CutIs
  <2>2. QED
    BY <1>1, <2>1
<1>3. y = x
  BY <1>1, <1>2, SeqsAreEqual
<1>4. Slice(s, i, j) = Cut(s, i, j)
  BY <1>1, TextCut
<1>5. QED
  BY <1>2, <1>3, <1>4

LEMMA PieceNone ==
    ASSUME NEW s, NEW x \in Seq(Byte), NEW i \in Nat, NEW j \in Nat, IsPiece(s, x, i, j),
           NEW C, NoneOf(x, C)
    PROVE  NoneIn(s, i, j, C)
<1>1. ASSUME NEW k \in (i + 1)..j PROVE s[k] \notin C
  <2>1. PICK l \in 1..(j - i) : i + l = k
    <3>1. k - i \in 1..(j - i) /\ i + (k - i) = k
      OBVIOUS
    <3>2. QED
      BY <3>1
  <2>2. l \in 1..Len(x) /\ s[i + l] = x[l]
    BY DEF IsPiece
  <2>3. QED
    BY <2>1, <2>2 DEF NoneOf
<1>2. QED
  BY <1>1 DEF NoneIn

LEMMA NoneJoins ==
    ASSUME NEW s, NEW i \in Nat, NEW j \in Nat, NEW l \in Nat, NEW C,
           NoneIn(s, i, j, C), NoneIn(s, j, l, C)
    PROVE  NoneIn(s, i, l, C)
<1>1. ASSUME NEW k \in (i + 1)..l PROVE s[k] \notin C
  <2>1. k \in (i + 1)..j \/ k \in (j + 1)..l
    OBVIOUS
  <2>2. QED
    BY <2>1 DEF NoneIn
<1>2. QED
  BY <1>1 DEF NoneIn

LEMMA PieceFirst ==
    ASSUME NEW s, NEW x \in Seq(Byte), NEW i \in Nat, NEW j \in Nat, IsPiece(s, x, i, j)
    PROVE  /\ i <= j /\ j <= Len(s) /\ (x = <<>> <=> i = j)
           /\ x # <<>> => i < j /\ s[i + 1] = x[1]
<1>1. /\ j \in i..Len(s) /\ Len(x) = j - i /\ \A k \in 1..(j - i) : s[i + k] = x[k]
  BY DEF IsPiece
<1>2. x = <<>> <=> i = j
  BY <1>1, LenZero
<1>3. x # <<>> => i < j /\ 1 \in 1..(j - i)
  BY <1>1, <1>2
<1>4. QED
  BY <1>1, <1>2, <1>3

\* A piece of a text is one of every text that goes on from there, and what comes next is one.
LEMMA PieceJoins ==
    ASSUME NEW a \in Seq(Byte), NEW b \in Seq(Byte), NEW m \in Nat, m = Len(a),
           NEW n \in Nat, n = m + Len(b)
    PROVE  /\ a \o b \in Seq(Byte) /\ Len(a \o b) = n /\ IsPiece(a \o b, b, m, n)
           /\ \A x, i, j : IsPiece(a, x, i, j) => IsPiece(a \o b, x, i, j)
<1>1. PICK l \in Nat : l = Len(b) /\ n = m + l /\ n - m = l
  OBVIOUS
<1>2. PICK s \in Seq(Byte) : /\ s = a \o b /\ Len(s) = n /\ \A k \in 1..m : s[k] = a[k]
                             /\ \A k \in 1..l : s[m + k] = b[k]
  <2>1. /\ a \o b \in Seq(Byte) /\ Len(a \o b) = m + l
        /\ \A k \in 1..m : (a \o b)[k] = a[k]
        /\ \A k \in 1..l : (a \o b)[m + k] = b[k]
    BY <1>1, ConcatIs
  <2>2. QED
    BY <1>1, <2>1
<1>3. IsPiece(s, b, m, n)
  BY <1>1, <1>2 DEF IsPiece
<1>4. ASSUME NEW x, NEW i, NEW j, IsPiece(a, x, i, j) PROVE IsPiece(s, x, i, j)
  <2>1. i \in Nat /\ j \in i..m /\ Len(x) = j - i /\ \A k \in 1..(j - i) : a[i + k] = x[k]
    BY <1>4 DEF IsPiece
  <2>2. j \in i..Len(s)
    BY <1>1, <1>2, <2>1
  <2>3. ASSUME NEW k \in 1..(j - i) PROVE s[i + k] = x[k]
    <3>1. i + k \in 1..m
      BY <2>1
    <3>2. QED
      BY <1>2, <2>1, <3>1
  <2>4. QED
    BY <2>1, <2>2, <2>3 DEF IsPiece
<1>5. QED
  BY <1>2, <1>3, <1>4

-----------------------------------------------------------------------------
(* What an escape does not hold.                                           *)

LEMMA EncodedNone ==
    ASSUME NEW c \in Byte, NEW C, C \cap (Digits \cup {Percent} \cup (65..70)) = {}
    PROVE  /\ Encoded(c) \in Seq(Byte) /\ Encoded(c) # <<>>
           /\ c \notin C => NoneOf(Encoded(c), C)
           /\ \A k \in 2..Len(Encoded(c)) : Encoded(c)[k] \notin C
           /\ Encoded(c)[1] = c \/ Encoded(c)[1] = Percent
           /\ c \in Unescaped => Encoded(c) = <<c>>
<1>1. CASE c \in Unescaped
  <2>1. PICK e \in Seq(Byte) : e = <<c>> /\ Len(e) = 1 /\ e[1] = c
    <3>1. <<c>> \in Seq(Byte) /\ Len(<<c>>) = 1 /\ <<c>>[1] = c
      OBVIOUS
    <3>2. QED
      BY <3>1
  <2>2. e = Encoded(c)
    BY <1>1, <2>1 DEF Encoded
  <2>3. e # <<>>
    BY <2>1
  <2>4. ASSUME NEW k \in 2..Len(e) PROVE e[k] \notin C
    BY <2>1
  <2>5. c \notin C => NoneOf(e, C)
    <3>1. \A k \in 1..1 : k = 1
      OBVIOUS
    <3>2. QED
      BY <2>1, <3>1 DEF NoneOf
  <2>6. QED
    BY <1>1, <2>1, <2>2, <2>3, <2>4, <2>5
<1>2. CASE c \notin Unescaped
  <2>1. PICK x \in 0..15, y \in 0..15 : x = c \div 16 /\ y = c % 16
    <3>1. c \div 16 \in 0..15 /\ c % 16 \in 0..15
      BY DEF Byte
    <3>2. QED
      BY <3>1
  <2>2. PICK X, Y \in Digits \cup (65..70) : X = HexDigit(x) /\ Y = HexDigit(y)
    <3>1. \A z \in 0..15 : HexDigit(z) \in Digits \cup (65..70)
      BY DEF HexDigit, Digits
    <3>2. QED
      BY <3>1
  <2>3. X \in Byte /\ Y \in Byte /\ Percent \in Byte
    BY DEF Digits, Byte, Percent
  <2>4. PICK e \in Seq(Byte) : e = <<Percent, X, Y>> /\ Len(e) = 3 /\ e[1] = Percent /\ e[2] = X /\ e[3] = Y
    <3>1. /\ <<Percent, X, Y>> \in Seq(Byte) /\ Len(<<Percent, X, Y>>) = 3
          /\ <<Percent, X, Y>>[1] = Percent /\ <<Percent, X, Y>>[2] = X /\ <<Percent, X, Y>>[3] = Y
      BY <2>3
    <3>2. QED
      BY <3>1
  <2>5. e = Encoded(c)
    BY <1>2, <2>1, <2>2, <2>4 DEF Encoded
  <2>6. Percent \notin C /\ X \notin C /\ Y \notin C
    <3>1. Percent \in Digits \cup {Percent} \cup (65..70)
      OBVIOUS
    <3>2. QED
      BY <3>1
  <2>7. \A k \in 1..3 : k = 1 \/ k = 2 \/ k = 3
    OBVIOUS
  <2>8. \A k \in 1..3 : e[k] \notin C
    BY <2>4, <2>6, <2>7
  <2>9. e # <<>> /\ \A k \in 2..3 : k \in 1..3
    BY <2>4
  <2>10. QED
    BY <1>2, <2>4, <2>5, <2>8, <2>9 DEF NoneOf
<1>3. QED
  BY <1>1, <1>2

LEMMA NoneOfJoin ==
    ASSUME NEW a \in Seq(Byte), NEW b \in Seq(Byte), NEW C, NoneOf(a, C), NoneOf(b, C)
    PROVE  NoneOf(a \o b, C)
<1>1. PICK m \in Nat, l \in Nat : m = Len(a) /\ l = Len(b)
  OBVIOUS
<1>2. /\ a \o b \in Seq(Byte) /\ Len(a \o b) = m + l
      /\ \A k \in 1..m : (a \o b)[k] = a[k]
      /\ \A k \in 1..l : (a \o b)[m + k] = b[k]
  BY <1>1, ConcatIs
<1>3. ASSUME NEW k \in 1..(m + l) PROVE (a \o b)[k] \notin C
  <2>1. CASE k \in 1..m
    BY <1>1, <1>2, <2>1 DEF NoneOf
  <2>2. CASE k \notin 1..m
    <3>1. PICK j \in 1..l : m + j = k
      <4>1. k - m \in 1..l /\ m + (k - m) = k
        BY <2>2
      <4>2. QED
        BY <4>1
    <3>2. QED
      BY <1>1, <1>2, <3>1 DEF NoneOf
  <2>3. QED
    BY <2>1, <2>2
<1>4. QED
  BY <1>2, <1>3 DEF NoneOf

LEMMA ByteAndRest ==
    ASSUME NEW s \in Seq(Byte), NEW n \in Nat, Len(s) = n + 1
    PROVE  \E c \in Byte, t \in Seq(Byte) : s = <<c>> \o t /\ Len(t) = n
BY FirstAndRest

LEMMA NoneOfCons ==
    ASSUME NEW c \in Byte, NEW t \in Seq(Byte), NEW C
    PROVE  /\ NoneOf(<<c>> \o t, C) <=> c \notin C /\ NoneOf(t, C)
           /\ NoneOf(t, C) <=> \A k \in 2..Len(<<c>> \o t) : (<<c>> \o t)[k] \notin C
<1>1. PICK l \in Nat : l = Len(t)
  OBVIOUS
<1>2. PICK s \in Seq(Byte) : s = <<c>> \o t /\ Len(s) = 1 + l /\ s[1] = c /\ \A k \in 1..l : s[1 + k] = t[k]
  <2>1. /\ <<c>> \o t \in Seq(Byte) /\ Len(<<c>> \o t) = 1 + l /\ (<<c>> \o t)[1] = c
        /\ \A k \in 1..l : (<<c>> \o t)[1 + k] = t[k]
    BY <1>1, ConsIs
  <2>2. QED
    BY <2>1
<1>3. NoneOf(t, C) <=> \A k \in 2..(1 + l) : s[k] \notin C
  <2>1. ASSUME NoneOf(t, C), NEW k \in 2..(1 + l) PROVE s[k] \notin C
    <3>1. PICK j \in 1..l : 1 + j = k
      <4>1. k - 1 \in 1..l /\ 1 + (k - 1) = k
        OBVIOUS
      <4>2. QED
        BY <4>1
    <3>2. QED
      BY <1>1, <1>2, <2>1, <3>1 DEF NoneOf
  <2>2. ASSUME \A k \in 2..(1 + l) : s[k] \notin C, NEW j \in 1..l PROVE t[j] \notin C
    <3>1. 1 + j \in 2..(1 + l)
      OBVIOUS
    <3>2. QED
      BY <1>2, <2>2, <3>1
  <2>3. QED
    BY <1>1, <2>1, <2>2 DEF NoneOf
<1>4. NoneOf(s, C) <=> s[1] \notin C /\ \A k \in 2..(1 + l) : s[k] \notin C
  <2>1. \A k \in 1..(1 + l) : k = 1 \/ k \in 2..(1 + l)
    OBVIOUS
  <2>2. 1 \in 1..(1 + l) /\ \A k \in 2..(1 + l) : k \in 1..(1 + l)
    OBVIOUS
  <2>3. QED
    BY <1>2, <2>1, <2>2 DEF NoneOf
<1>5. QED
  BY <1>2, <1>3, <1>4

\* A character that is none of an escape's is in a text that is encoded if it was before.
LEMMA EncodeNone ==
    ASSUME NEW s \in Seq(Byte), NEW C, C \cap (Digits \cup {Percent} \cup (65..70)) = {},
           NoneOf(s, C)
    PROVE  NoneOf(Encode(s), C)
<1> DEFINE T == {n \in Nat : \A x \in Seq(Byte) : Len(x) = n /\ NoneOf(x, C) => NoneOf(Encode(x), C)}
<1>1. 0 \in T
  <2>1. ASSUME NEW x \in Seq(Byte), Len(x) = 0 PROVE NoneOf(Encode(x), C)
    <3>1. Encode(x) = <<>>
      BY <2>1, LenZero, EncodeEmpty
    <3>2. QED
      BY <3>1 DEF NoneOf
  <2>2. QED
    BY <2>1
<1>2. ASSUME NEW n \in T PROVE n + 1 \in T
  <2>1. ASSUME NEW x \in Seq(Byte), Len(x) = n + 1, NoneOf(x, C) PROVE NoneOf(Encode(x), C)
    <3>1. PICK c \in Byte, t \in Seq(Byte) : x = <<c>> \o t /\ Len(t) = n
      BY <2>1, ByteAndRest
    <3>2. c \notin C /\ NoneOf(t, C)
      BY <2>1, <3>1, NoneOfCons
    <3>3. NoneOf(Encode(t), C)
      BY <3>1, <3>2
    <3>4. NoneOf(Encoded(c), C) /\ Encoded(c) \in Seq(Byte)
      BY <3>2, EncodedNone
    <3>5. Encode(x) = Encoded(c) \o Encode(t) /\ Encode(t) \in Seq(Byte)
      BY <3>1, EncodeCons, EncodeType
    <3>6. QED
      BY <3>3, <3>4, <3>5, NoneOfJoin
  <2>2. QED
    BY <2>1
<1>3. T = Nat
  <2>1. T \in SUBSET Nat
    OBVIOUS
  <2> HIDE DEF T
  <2>2. QED
    BY <1>1, <1>2, <2>1, InductionOnNat
<1>4. QED
  BY <1>3

\* A text that is not empty, encoded.
LEMMA EncodeFirst ==
    ASSUME NEW s \in Seq(Byte), s # <<>>, NEW C, C \cap (Digits \cup {Percent} \cup (65..70)) = {}
    PROVE  /\ Encode(s) # <<>> /\ Encode(s) \in Seq(Byte)
           /\ Encode(s)[1] = s[1] \/ Encode(s)[1] = Percent
           /\ \E c \in Byte, t \in Seq(Byte) :
                 /\ s = <<c>> \o t /\ s[1] = c
                 /\ Encode(s) = Encoded(c) \o Encode(t) /\ Encode(t) \in Seq(Byte)
           /\ (\A k \in 2..Len(s) : s[k] \notin C) => \A k \in 2..Len(Encode(s)) : Encode(s)[k] \notin C
<1>1. PICK l \in Nat : Len(s) = l + 1
  <2>1. Len(s) - 1 \in Nat /\ Len(s) = (Len(s) - 1) + 1
    OBVIOUS
  <2>2. QED
    BY <2>1
<1>2. PICK c \in Byte, t \in Seq(Byte) : s = <<c>> \o t /\ Len(t) = l
  BY <1>1, ByteAndRest
<1>3. PICK e \in Seq(Byte) : e = Encoded(c)
  BY EncodedNone
<1>4. PICK r \in Seq(Byte) : r = Encode(t)
  BY EncodeType
<1>5. Encode(s) = e \o r
  BY <1>2, <1>3, <1>4, EncodeCons
<1>6. /\ e # <<>> /\ \A k \in 2..Len(e) : e[k] \notin C
      /\ e[1] = c \/ e[1] = Percent
  BY <1>3, EncodedNone
<1>7. s[1] = c
  BY <1>2
<1>8. PICK m \in Nat, j \in Nat : m = Len(e) /\ j = Len(r) /\ m >= 1
  BY <1>6
<1>9. PICK g \in Seq(Byte) : /\ g = e \o r /\ Len(g) = m + j /\ \A k \in 1..m : g[k] = e[k]
                             /\ \A k \in 1..j : g[m + k] = r[k]
  <2>1. /\ e \o r \in Seq(Byte) /\ Len(e \o r) = m + j
        /\ \A k \in 1..m : (e \o r)[k] = e[k]
        /\ \A k \in 1..j : (e \o r)[m + k] = r[k]
    BY <1>8, ConcatIs
  <2>2. QED
    BY <2>1
<1>10. g # <<>> /\ g[1] = e[1]
  BY <1>8, <1>9
<1>11. ASSUME \A k \in 2..Len(s) : s[k] \notin C, NEW k \in 2..Len(g) PROVE g[k] \notin C
  <2>1. NoneOf(t, C)
    BY <1>2, <1>11, NoneOfCons
  <2>2. NoneOf(r, C)
    BY <1>4, <2>1, EncodeNone
  <2>3. CASE k <= m
    <3>1. k \in 1..m /\ k \in 2..Len(e)
      BY <1>8, <2>3
    <3>2. QED
      BY <1>6, <1>9, <3>1
  <2>4. CASE ~(k <= m)
    <3>1. PICK x \in 1..j : m + x = k
      <4>1. k - m \in 1..j /\ m + (k - m) = k
        BY <1>9, <2>4
      <4>2. QED
        BY <4>1
    <3>2. QED
      BY <1>8, <1>9, <2>2, <3>1 DEF NoneOf
  <2>5. QED
    BY <2>3, <2>4
<1>12. QED
  BY <1>2, <1>3, <1>4, <1>5, <1>6, <1>7, <1>9, <1>10, <1>11

-----------------------------------------------------------------------------
(* A text without the blanks at its ends.                                  *)

LEMMA ByteCut ==
    ASSUME NEW s \in Seq(Byte), NEW i \in Nat, NEW j \in Nat, NEW d \in Nat, i + d = j, j <= Len(s)
    PROVE  /\ Cut(s, i, j) \in Seq(Byte) /\ Len(Cut(s, i, j)) = d
           /\ \A k \in 1..d : Cut(s, i, j)[k] = s[i + k]
<1>1. i <= j /\ j - i = d
  OBVIOUS
<1>2. /\ Cut(s, i, j) \in Seq(Byte) /\ Len(Cut(s, i, j)) = j - i
      /\ \A k \in 1..(j - i) : Cut(s, i, j)[k] = s[i + k]
  BY <1>1, CutIs, ZenonT(40)
<1>3. QED
  BY <1>1, <1>2

Blank == {32, 9}
Trimmed(s) == TrimmedEnd(TrimmedStart(s, Blanks), Blanks)

\* What is kept of s starts after the first i characters, and ends with the j-th.
IsStart(s, i, n) == i \in 0..n /\ (\A k \in 1..i : s[k] \in Blank) /\ (i # n => s[i + 1] \notin Blank)
IsStop(s, j, n) == j \in 0..n /\ (\A k \in (j + 1)..n : s[k] \in Blank) /\ (j # 0 => s[j] \notin Blank)

LEMMA KeptBlanks ==
    ASSUME NEW s \in Seq(Byte), NEW n \in Nat, n = Len(s)
    PROVE  Kept(s, Blanks) = {i \in 1..n : s[i] \notin Blank}
<1>1. Blanks[1] = 32 /\ Blanks[2] = 9 /\ DOMAIN Blanks = 1..2
  BY DEF Blanks
<1>2. \A k : k \in DOMAIN Blanks <=> k = 1 \/ k = 2
  BY <1>1
<1>3. ASSUME NEW c PROVE (\A k \in DOMAIN Blanks : c # Blanks[k]) <=> c \notin Blank
  <2>1. (\A k \in DOMAIN Blanks : c # Blanks[k]) <=> c # Blanks[1] /\ c # Blanks[2]
    BY <1>2, Zenon
  <2>2. c \in Blank <=> c = 32 \/ c = 9
    BY DEF Blank
  <2>3. QED
    BY <1>1, <2>1, <2>2
<1>4. DOMAIN s = 1..n
  OBVIOUS
<1>5. QED
  BY <1>3, <1>4 DEF Kept

LEMMA StartIs ==
    ASSUME NEW s \in Seq(Byte), NEW n \in Nat, n = Len(s)
    PROVE  \E i \in 0..n : IsStart(s, i, n) /\ TrimmedStart(s, Blanks) = Cut(s, i, n)
<1>1. PICK K : K = Kept(s, Blanks) /\ K = {i \in 1..n : s[i] \notin Blank}
  BY KeptBlanks
<1>2. CASE K = {}
  <2>1. TrimmedStart(s, Blanks) = <<>>
    <3>1. IndexNotOfAny(s, Blanks, 0) = NotFound
      BY <1>1, <1>2, TrimSearches
    <3>2. QED
      BY <3>1 DEF TrimmedStart
  <2>2. Cut(s, n, n) = <<>>
    BY CutNone
  <2>3. IsStart(s, n, n)
    BY <1>1, <1>2 DEF IsStart
  <2>4. n \in 0..n
    OBVIOUS
  <2>5. QED
    BY <2>1, <2>2, <2>3, <2>4
<1>3. CASE K # {}
  <2>1. PICK a \in K : (\A i \in K : a <= i) /\ IndexNotOfAny(s, Blanks, 0) = a - 1
    BY <1>1, <1>3, TrimSearches
  <2>2. PICK i \in 0..n : i = a - 1 /\ i + 1 = a /\ i # NotFound /\ i # n
    <3>1. a \in 1..n
      BY <1>1
    <3>2. a - 1 \in 0..n /\ (a - 1) + 1 = a /\ a - 1 # -1 /\ a - 1 # n
      BY <3>1
    <3>3. QED
      BY <3>2 DEF NotFound
  <2>3. TrimmedStart(s, Blanks) = Cut(s, i, n)
    BY <2>1, <2>2 DEF TrimmedStart, Cut
  <2>4. ASSUME NEW k \in 1..i PROVE s[k] \in Blank
    <3>1. k \in 1..n /\ ~(a <= k)
      BY <2>2
    <3>2. QED
      BY <1>1, <2>1, <3>1
  <2>5. s[i + 1] \notin Blank
    BY <1>1, <2>2
  <2>6. QED
    BY <2>2, <2>3, <2>4, <2>5 DEF IsStart
<1>4. QED
  BY <1>2, <1>3

LEMMA StopIs ==
    ASSUME NEW s \in Seq(Byte), NEW n \in Nat, n = Len(s)
    PROVE  \E j \in 0..n : IsStop(s, j, n) /\ TrimmedEnd(s, Blanks) = Cut(s, 0, j)
<1>1. PICK K : K = Kept(s, Blanks) /\ K = {i \in 1..n : s[i] \notin Blank}
  BY KeptBlanks
<1>2. 0 + 1 = 1 /\ NotFound + 1 = 0
  BY DEF NotFound
<1>3. CASE K = {}
  <2>1. TrimmedEnd(s, Blanks) = SubSeq(s, 1, 0)
    <3>1. ReverseIndexNotOfAny(s, Blanks, Len(s)) = NotFound
      BY <1>1, <1>3, TrimSearches
    <3>2. QED
      BY <1>2, <3>1 DEF TrimmedEnd
  <2>2. Cut(s, 0, 0) = SubSeq(s, 1, 0)
    BY <1>2 DEF Cut
  <2>3. IsStop(s, 0, n)
    BY <1>1, <1>3 DEF IsStop
  <2>4. 0 \in 0..n
    OBVIOUS
  <2>5. QED
    BY <2>1, <2>2, <2>3, <2>4
<1>4. CASE K # {}
  <2>1. PICK z \in K : (\A i \in K : i <= z) /\ ReverseIndexNotOfAny(s, Blanks, Len(s)) = z - 1
    BY <1>1, <1>4, TrimSearches
  <2>2. z \in 1..n /\ (z - 1) + 1 = z /\ z \in 0..n /\ z # 0
    BY <1>1
  <2>3. TrimmedEnd(s, Blanks) = SubSeq(s, 1, z)
    BY <2>1, <2>2 DEF TrimmedEnd
  <2>4. Cut(s, 0, z) = SubSeq(s, 1, z)
    BY <1>2 DEF Cut
  <2>5. ASSUME NEW k \in (z + 1)..n PROVE s[k] \in Blank
    <3>1. k \in 1..n /\ ~(k <= z)
      BY <2>2
    <3>2. QED
      BY <1>1, <2>1, <3>1
  <2>6. s[z] \notin Blank
    BY <1>1
  <2>7. QED
    BY <2>2, <2>3, <2>4, <2>5, <2>6 DEF IsStop
<1>5. QED
  BY <1>3, <1>4

LEMMA StartMeets ==
    ASSUME NEW s \in Seq(Byte), NEW n \in Nat, n = Len(s), NEW i \in 0..n, IsStart(s, i, n)
    PROVE  TrimmedStart(s, Blanks) = Cut(s, i, n)
<1>1. PICK j \in 0..n : IsStart(s, j, n) /\ TrimmedStart(s, Blanks) = Cut(s, j, n)
  BY StartIs
<1>2. ~(i < j)
  <2>1. ASSUME i < j PROVE FALSE
    <3>1. i # n /\ i + 1 \in 1..j
      BY <2>1
    <3>2. QED
      BY <1>1, <3>1 DEF IsStart
  <2>2. QED
    BY <2>1
<1>3. ~(j < i)
  <2>1. ASSUME j < i PROVE FALSE
    <3>1. j # n /\ j + 1 \in 1..i
      BY <2>1
    <3>2. QED
      BY <1>1, <3>1 DEF IsStart
  <2>2. QED
    BY <2>1
<1>4. i = j
  BY <1>2, <1>3
<1>5. QED
  BY <1>1, <1>4

LEMMA StopMeets ==
    ASSUME NEW s \in Seq(Byte), NEW n \in Nat, n = Len(s), NEW i \in 0..n, IsStop(s, i, n)
    PROVE  TrimmedEnd(s, Blanks) = Cut(s, 0, i)
<1>1. PICK j \in 0..n : IsStop(s, j, n) /\ TrimmedEnd(s, Blanks) = Cut(s, 0, j)
  BY StopIs
<1>2. ~(i < j)
  <2>1. ASSUME i < j PROVE FALSE
    <3>1. j # 0 /\ j \in (i + 1)..n
      BY <2>1
    <3>2. QED
      BY <1>1, <3>1 DEF IsStop
  <2>2. QED
    BY <2>1
<1>3. ~(j < i)
  <2>1. ASSUME j < i PROVE FALSE
    <3>1. i # 0 /\ i \in (j + 1)..n
      BY <2>1
    <3>2. QED
      BY <1>1, <3>1 DEF IsStop
  <2>2. QED
    BY <2>1
<1>4. i = j
  BY <1>2, <1>3
<1>5. QED
  BY <1>1, <1>4

\* A text that neither starts nor ends with a blank.
IsTrim(s) == s # <<>> => s[1] \notin Blank /\ s[Len(s)] \notin Blank

LEMMA TrimKeeps ==
    ASSUME NEW s \in Seq(Byte), IsTrim(s)
    PROVE  Trimmed(s) = s
<1>1. PICK n \in Nat : n = Len(s)
  OBVIOUS
<1>2. n # 0 => s # <<>>
  BY <1>1
<1>3. IsStart(s, 0, n) /\ IsStop(s, n, n)
  <2>1. 0 \in 0..n /\ n \in 0..n /\ 0 + 1 = 1 /\ (\A k \in 1..0 : FALSE) /\ (\A k \in (n + 1)..n : FALSE)
    OBVIOUS
  <2>2. QED
    BY <1>1, <1>2, <2>1 DEF IsStart, IsStop, IsTrim
<1>4. 0 \in 0..n /\ n \in 0..n
  OBVIOUS
<1>5. TrimmedStart(s, Blanks) = Cut(s, 0, n)
  BY <1>1, <1>3, <1>4, StartMeets
<1>6. TrimmedEnd(s, Blanks) = Cut(s, 0, n)
  BY <1>1, <1>3, <1>4, StopMeets
<1>7. Cut(s, 0, n) = s
  BY <1>1, CutWhole
<1>8. QED
  BY <1>5, <1>6, <1>7 DEF Trimmed

LEMMA TrimIs ==
    ASSUME NEW s \in Seq(Byte), NEW n \in Nat, n = Len(s)
    PROVE  /\ Trimmed(s) \in Seq(Byte) /\ IsTrim(Trimmed(s))
           /\ \E i \in 0..n, j \in 0..n : /\ i <= j /\ Trimmed(s) = Cut(s, i, j)
                                          /\ \A k \in 1..i : s[k] \in Blank
<1>1. PICK i \in Nat : i <= n /\ IsStart(s, i, n) /\ TrimmedStart(s, Blanks) = Cut(s, i, n)
  BY StartIs
<1>2. PICK m \in Nat : m = n - i /\ i + m = n
  <2>1. n - i \in Nat /\ i + (n - i) = n
    BY <1>1
  <2>2. QED
    BY <2>1
<1>3. PICK w \in Seq(Byte) : w = TrimmedStart(s, Blanks) /\ Len(w) = m /\ \A k \in 1..m : w[k] = s[i + k]
  <2>1. i <= n /\ n <= Len(s)
    BY <1>1
  <2>2. /\ Cut(s, i, n) \in Seq(Byte) /\ Len(Cut(s, i, n)) = n - i
        /\ \A k \in 1..(n - i) : Cut(s, i, n)[k] = s[i + k]
    BY <2>1, CutIs, ZenonT(40)
  <2>3. QED
    BY <1>1, <1>2, <2>2
<1>4. PICK j \in 0..m : IsStop(w, j, m) /\ TrimmedEnd(w, Blanks) = Cut(w, 0, j)
  BY <1>3, StopIs
<1>5. PICK x \in Seq(Byte) : x = Trimmed(s) /\ Len(x) = j /\ \A k \in 1..j : x[k] = w[k]
  <2>1. j \in 0..m
    OBVIOUS
  <2>2. Cut(w, 0, j) \in Seq(Byte) /\ Len(Cut(w, 0, j)) = j /\ \A k \in 1..j : Cut(w, 0, j)[k] = w[k]
    BY <1>3, <2>1, PrefixIs
  <2>3. QED
    BY <1>3, <1>4, <2>2 DEF Trimmed
<1>6. PICK l \in 0..n : l = i + j /\ i <= l /\ l - i = j
  <2>1. i + j \in 0..n /\ i <= i + j /\ (i + j) - i = j
    BY <1>2
  <2>2. QED
    BY <2>1
<1>7. x = Cut(s, i, l)
  <2>1. i \in Nat /\ l \in Nat /\ i <= l /\ l <= Len(s)
    BY <1>6
  <2>2. PICK y \in Seq(Byte) : y = Cut(s, i, l) /\ Len(y) = j /\ \A k \in 1..j : y[k] = s[i + k]
    <3>1. /\ Cut(s, i, l) \in Seq(Byte) /\ Len(Cut(s, i, l)) = l - i
          /\ \A k \in 1..(l - i) : Cut(s, i, l)[k] = s[i + k]
      BY <2>1, CutIs
    <3>2. QED
      BY <1>6, <3>1
  <2>3. ASSUME NEW k \in 1..j PROVE x[k] = y[k]
    <3>1. k \in 1..m
      OBVIOUS
    <3>2. QED
      BY <1>3, <1>5, <2>2, <3>1
  <2>4. x = y
    BY <1>5, <2>2, <2>3, SeqsAreEqual
  <2>5. QED
    BY <2>2, <2>4
<1>8. ASSUME j # 0 PROVE x[1] \notin Blank /\ x[j] \notin Blank
  <2>1. 1 \in 1..j /\ 1 \in 1..m /\ j \in 1..j /\ i # n
    BY <1>2, <1>8
  <2>2. x[1] = s[i + 1] /\ x[j] = w[j]
    BY <1>3, <1>5, <2>1
  <2>3. QED
    BY <1>1, <1>4, <1>8, <2>1, <2>2 DEF IsStart, IsStop
<1>9. IsTrim(x)
  <2>1. x # <<>> => j # 0
    BY <1>5, LenZero
  <2>2. QED
    BY <1>5, <1>8, <2>1 DEF IsTrim
<1>10. i \in 0..n /\ \A k \in 1..i : s[k] \in Blank
  BY <1>1 DEF IsStart
<1>11. QED
  BY <1>5, <1>6, <1>7, <1>9, <1>10

-----------------------------------------------------------------------------
(* A text in small letters.                                                *)

LEMMA LowerCut ==
    ASSUME NEW s \in Seq(Byte), NEW i \in Nat, NEW j \in Nat, i <= j, j <= Len(s)
    PROVE  TextLower(Cut(s, i, j)) = Cut(TextLower(s), i, j)
<1>1. PICK n \in Nat, d \in Nat : n = Len(s) /\ d = j - i /\ i + d = j
  OBVIOUS
<1>2. PICK w \in Seq(Byte) : w = TextLower(s) /\ Len(w) = n /\ \A k \in 1..n : w[k] = Lower(s[k])
  BY <1>1, TextLowerIs
<1>3. PICK x \in Seq(Byte) : x = Cut(s, i, j) /\ Len(x) = d /\ \A k \in 1..d : x[k] = s[i + k]
  <2>1. /\ Cut(s, i, j) \in Seq(Byte) /\ Len(Cut(s, i, j)) = j - i
        /\ \A k \in 1..(j - i) : Cut(s, i, j)[k] = s[i + k]
    BY CutIs
  <2>2. QED
    BY <1>1, <2>1
<1>4. PICK y \in Seq(Byte) : y = Cut(w, i, j) /\ Len(y) = d /\ \A k \in 1..d : y[k] = w[i + k]
  <2>1. j <= Len(w)
    BY <1>1, <1>2
  <2>2. /\ Cut(w, i, j) \in Seq(Byte) /\ Len(Cut(w, i, j)) = j - i
        /\ \A k \in 1..(j - i) : Cut(w, i, j)[k] = w[i + k]
    BY <2>1, CutIs
  <2>3. QED
    BY <1>1, <2>2
<1>5. PICK z \in Seq(Byte) : z = TextLower(x) /\ Len(z) = d /\ \A k \in 1..d : z[k] = Lower(x[k])
  BY <1>3, TextLowerIs
<1>6. ASSUME NEW k \in 1..d PROVE z[k] = y[k]
  <2>1. i + k \in 1..n
    BY <1>1
  <2>2. QED
    BY <1>2, <1>3, <1>4, <1>5, <2>1
<1>7. z = y
  BY <1>4, <1>5, <1>6, SeqsAreEqual
<1>8. QED
  BY <1>2, <1>3, <1>4, <1>5, <1>7

\* C has no letters.
NoLetters(C) == C \cap Letters = {}

LEMMA LowerMember ==
    ASSUME NEW c \in Byte, NEW C, NoLetters(C)
    PROVE  Lower(c) \in C <=> c \in C
<1>1. CASE c \in 65..90
  <2>1. Lower(c) = c + 32 /\ c + 32 \in Letters /\ c \in Letters
    BY <1>1 DEF Lower, Letters
  <2>2. QED
    BY <2>1 DEF NoLetters
<1>2. CASE c \notin 65..90
  <2>1. Lower(c) = c
    BY <1>2, LowerIs
  <2>2. QED
    BY <2>1
<1>3. QED
  BY <1>1, <1>2

LEMMA PlainSets ==
    /\ NoLetters(Marks) /\ NoLetters(Blank) /\ NoLetters({AtSign}) /\ NoLetters({Colon})
    /\ NoLetters({43, 45}) /\ NoLetters({48})
BY DEF NoLetters, Letters, Marks, Blank, AtSign, Colon, Slash, Question, Hash

LEMMA StartLower ==
    ASSUME NEW s \in Seq(Byte)
    PROVE  TrimmedStart(TextLower(s), Blanks) = TextLower(TrimmedStart(s, Blanks))
<1>1. PICK n \in Nat : n = Len(s)
  OBVIOUS
<1>2. PICK w \in Seq(Byte) : w = TextLower(s) /\ Len(w) = n /\ \A k \in 1..n : w[k] = Lower(s[k])
  BY <1>1, TextLowerIs
<1>3. PICK i \in 0..n : IsStart(s, i, n) /\ TrimmedStart(s, Blanks) = Cut(s, i, n)
  BY <1>1, StartIs
<1>4. \A k \in 1..n : w[k] \in Blank <=> s[k] \in Blank
  <2>1. ASSUME NEW k \in 1..n PROVE w[k] \in Blank <=> s[k] \in Blank
    <3>1. s[k] \in Byte
      BY <1>1
    <3>2. QED
      BY <1>2, <3>1, LowerMember, PlainSets
  <2>2. QED
    BY <2>1
<1>5. IsStart(w, i, n)
  <2>1. \A k \in 1..i : k \in 1..n
    OBVIOUS
  <2>2. i # n => i + 1 \in 1..n
    OBVIOUS
  <2>3. QED
    BY <1>3, <1>4, <2>1, <2>2 DEF IsStart
<1>6. TrimmedStart(w, Blanks) = Cut(w, i, n)
  BY <1>2, <1>5, StartMeets
<1>7. i \in Nat /\ i <= n /\ n <= Len(s)
  BY <1>1
<1>8. TextLower(Cut(s, i, n)) = Cut(TextLower(s), i, n)
  BY <1>7, LowerCut
<1>9. QED
  BY <1>2, <1>3, <1>6, <1>8

LEMMA NoneOfLower ==
    ASSUME NEW s \in Seq(Byte), NEW C, NoLetters(C)
    PROVE  NoneOf(TextLower(s), C) <=> NoneOf(s, C)
<1>1. PICK n \in Nat : n = Len(s)
  OBVIOUS
<1>2. PICK w \in Seq(Byte) : w = TextLower(s) /\ Len(w) = n /\ \A k \in 1..n : w[k] = Lower(s[k])
  BY <1>1, TextLowerIs
<1>3. ASSUME NEW k \in 1..n PROVE w[k] \in C <=> s[k] \in C
  <2>1. s[k] \in Byte
    BY <1>1
  <2>2. QED
    BY <1>2, <2>1, LowerMember
<1>4. QED
  BY <1>1, <1>2, <1>3 DEF NoneOf

LEMMA NoneOfCut ==
    ASSUME NEW s \in Seq(Byte), NEW i \in Nat, NEW j \in Nat, i <= j, j <= Len(s), NEW C
    PROVE  /\ NoneIn(s, i, j, C) <=> NoneOf(Cut(s, i, j), C)
           /\ NoneOf(s, C) => NoneOf(Cut(s, i, j), C)
<1>1. PICK d \in Nat : d = j - i /\ i + d = j
  OBVIOUS
<1>2. PICK x \in Seq(Byte) : x = Cut(s, i, j) /\ Len(x) = d /\ \A k \in 1..d : x[k] = s[i + k]
  <2>1. /\ Cut(s, i, j) \in Seq(Byte) /\ Len(Cut(s, i, j)) = j - i
        /\ \A k \in 1..(j - i) : Cut(s, i, j)[k] = s[i + k]
    BY CutIs
  <2>2. QED
    BY <1>1, <2>1
<1>3. ASSUME NoneIn(s, i, j, C), NEW k \in 1..d PROVE x[k] \notin C
  <2>1. i + k \in (i + 1)..j
    BY <1>1
  <2>2. QED
    BY <1>2, <1>3, <2>1 DEF NoneIn
<1>4. ASSUME NoneOf(x, C), NEW k \in (i + 1)..j PROVE s[k] \notin C
  <2>1. PICK l \in 1..d : i + l = k
    <3>1. k - i \in 1..d /\ i + (k - i) = k
      BY <1>1
    <3>2. QED
      BY <3>1
  <2>2. QED
    BY <1>2, <1>4, <2>1 DEF NoneOf
<1>5. ASSUME NoneOf(s, C), NEW k \in 1..d PROVE x[k] \notin C
  <2>1. i + k \in 1..Len(s)
    BY <1>1
  <2>2. QED
    BY <1>2, <1>5, <2>1 DEF NoneOf
<1>6. QED
  BY <1>2, <1>3, <1>4, <1>5 DEF NoneIn, NoneOf

-----------------------------------------------------------------------------
(* The number of a port, of a text in small letters and of one printed.    *)

LEMMA LowerSame ==
    ASSUME NEW s \in Seq(Byte), NEW n \in Nat, n = Len(s),
           NEW w \in Seq(Byte), w = TextLower(s)
    PROVE  /\ Len(w) = n /\ (w = <<>> <=> s = <<>>)
           /\ \A k \in 1..n : /\ HexValue(w[k]) = HexValue(s[k])
                              /\ w[k] \in {43, 45} <=> s[k] \in {43, 45}
                              /\ w[k] = 43 <=> s[k] = 43
                              /\ w[k] = 48 <=> s[k] = 48
                              /\ w[k] \in {88, 120} <=> s[k] \in {88, 120}
<1>1. Len(w) = n /\ \A k \in 1..n : w[k] = Lower(s[k])
  BY TextLowerIs
<1>2. ASSUME NEW c \in Byte
      PROVE  /\ HexValue(Lower(c)) = HexValue(c)
             /\ Lower(c) \in {43, 45} <=> c \in {43, 45}
             /\ Lower(c) = 43 <=> c = 43
             /\ Lower(c) = 48 <=> c = 48
             /\ Lower(c) \in {88, 120} <=> c \in {88, 120}
  <2>1. HexValue(Lower(c)) = HexValue(c)
    BY LowerIs
  <2>2. c \in 0..255
    BY DEF Byte
  <2>3. /\ Lower(c) \in {43, 45} <=> c \in {43, 45}
        /\ Lower(c) = 43 <=> c = 43
        /\ Lower(c) = 48 <=> c = 48
        /\ Lower(c) \in {88, 120} <=> c \in {88, 120}
    BY <2>2 DEF Lower
  <2>4. QED
    BY <2>1, <2>3
<1>3. \A k \in 1..n : s[k] \in Byte
  OBVIOUS
<1>4. w = <<>> <=> s = <<>>
  BY <1>1, LenZero
<1>5. QED
  BY <1>1, <1>2, <1>3, <1>4

LEMMA DigitsLower ==
    ASSUME NEW s \in Seq(Byte), NEW base
    PROVE  DigitsNumber(TextLower(s), base) = DigitsNumber(s, base)
<1>1. PICK n \in Nat : n = Len(s)
  OBVIOUS
<1>2. PICK w \in Seq(Byte) : w = TextLower(s)
  BY TextLowerIs
<1>3. Len(w) = n /\ \A k \in 1..n : HexValue(w[k]) = HexValue(s[k])
  BY <1>1, <1>2, LowerSame
<1>4. DOMAIN w = 1..n /\ DOMAIN s = 1..n
  BY <1>1, <1>3
<1>5. [k \in DOMAIN w |-> HexValue(w[k])] = [k \in DOMAIN s |-> HexValue(s[k])]
  BY <1>3, <1>4
<1>6. QED
  BY <1>2, <1>5, Zenon DEF DigitsNumber

LEMMA UnsignedLower ==
    ASSUME NEW s \in Seq(Byte)
    PROVE  UnsignedNumber(TextLower(s)) = UnsignedNumber(s)
<1>1. PICK n \in Nat : n = Len(s)
  OBVIOUS
<1>2. PICK w \in Seq(Byte) : w = TextLower(s)
  BY TextLowerIs
<1>3. /\ Len(w) = n /\ (w = <<>> <=> s = <<>>)
      /\ \A k \in 1..n : w[k] = 48 <=> s[k] = 48
      /\ \A k \in 1..n : w[k] \in {88, 120} <=> s[k] \in {88, 120}
  BY <1>1, <1>2, LowerSame
<1>4. s # <<>> => 1 \in 1..n
  BY <1>1
<1>5. n > 1 => 2 \in 1..n
  OBVIOUS
<1>6. \A base : DigitsNumber(w, base) = DigitsNumber(s, base)
  BY <1>2, DigitsLower
<1>7. n > 1 => DigitsNumber(SubSeq(w, 3, Len(w)), 16) = DigitsNumber(SubSeq(s, 3, Len(s)), 16)
  <2>1. SUFFICES ASSUME n > 1
                 PROVE  DigitsNumber(SubSeq(w, 3, Len(w)), 16) = DigitsNumber(SubSeq(s, 3, Len(s)), 16)
    OBVIOUS
  <2>2. 2 \in Nat /\ 2 <= n /\ n <= Len(s) /\ 2 + 1 = 3
    BY <1>1, <2>1
  <2>3. TextLower(Cut(s, 2, n)) = Cut(TextLower(s), 2, n)
    BY <2>2, LowerCut
  <2>4. Cut(s, 2, n) \in Seq(Byte)
    BY <2>2, TextCut
  <2>5. DigitsNumber(TextLower(Cut(s, 2, n)), 16) = DigitsNumber(Cut(s, 2, n), 16)
    BY <2>4, DigitsLower
  <2>6. SubSeq(w, 3, Len(w)) = Cut(w, 2, n) /\ SubSeq(s, 3, Len(s)) = Cut(s, 2, n)
    BY <1>1, <1>3, <2>2 DEF Cut
  <2>7. QED
    BY <1>2, <2>3, <2>5, <2>6
<1>8. CASE s = <<>>
  BY <1>2, <1>3, <1>8 DEF UnsignedNumber
<1>9. CASE s # <<>> /\ s[1] # 48
  BY <1>2, <1>3, <1>4, <1>6, <1>9 DEF UnsignedNumber
<1>10. CASE s # <<>> /\ s[1] = 48 /\ n > 1 /\ s[2] \in {88, 120}
  <2>1. UnsignedNumber(s) = DigitsNumber(SubSeq(s, 3, Len(s)), 16)
    BY <1>1, <1>10 DEF UnsignedNumber
  <2>2. w # <<>> /\ w[1] = 48 /\ w[2] \in {88, 120} /\ Len(w) > 1
    BY <1>3, <1>4, <1>5, <1>10
  <2>3. UnsignedNumber(w) = DigitsNumber(SubSeq(w, 3, Len(w)), 16)
    BY <2>2 DEF UnsignedNumber
  <2>4. QED
    BY <1>2, <1>7, <1>10, <2>1, <2>3
<1>11. CASE s # <<>> /\ s[1] = 48 /\ ~(n > 1 /\ s[2] \in {88, 120})
  <2>1. UnsignedNumber(s) = DigitsNumber(s, 8)
    BY <1>1, <1>11 DEF UnsignedNumber
  <2>2. w # <<>> /\ w[1] = 48 /\ ~(Len(w) > 1 /\ w[2] \in {88, 120})
    BY <1>3, <1>4, <1>5, <1>11
  <2>3. UnsignedNumber(w) = DigitsNumber(w, 8)
    BY <2>2 DEF UnsignedNumber
  <2>4. QED
    BY <1>2, <1>6, <2>1, <2>3
<1>12. QED
  BY <1>8, <1>9, <1>10, <1>11

LEMMA TailIs ==
    ASSUME NEW s \in Seq(Byte), NEW n \in Nat, Len(s) = n + 1
    PROVE  /\ Tail(s) \in Seq(Byte) /\ Len(Tail(s)) = n
           /\ \A k \in 1..n : Tail(s)[k] = s[k + 1]
<1>1. s # <<>>
  OBVIOUS
<1>2. /\ Tail(s) \in Seq(Byte) /\ Len(Tail(s)) = Len(s) - 1
      /\ \A k \in 1..Len(Tail(s)) : Tail(s)[k] = s[k + 1]
  BY <1>1, TailElements
<1>3. QED
  BY <1>2

LEMMA TailLower ==
    ASSUME NEW s \in Seq(Byte), s # <<>>
    PROVE  Tail(s) \in Seq(Byte) /\ Tail(TextLower(s)) = TextLower(Tail(s))
<1>1. PICK n \in Nat : Len(s) = n + 1
  <2>1. Len(s) - 1 \in Nat /\ Len(s) = (Len(s) - 1) + 1
    OBVIOUS
  <2>2. QED
    BY <2>1
<1>2. PICK w \in Seq(Byte) : w = TextLower(s) /\ Len(w) = n + 1 /\ \A k \in 1..(n + 1) : w[k] = Lower(s[k])
  <2>1. n + 1 \in Nat
    OBVIOUS
  <2>2. QED
    BY <1>1, <2>1, TextLowerIs
<1>3. w # <<>>
  BY <1>2
<1>4. PICK x \in Seq(Byte) : x = Tail(s) /\ Len(x) = n /\ \A k \in 1..n : x[k] = s[k + 1]
  BY <1>1, TailIs
<1>5. PICK y \in Seq(Byte) : y = Tail(w) /\ Len(y) = n /\ \A k \in 1..n : y[k] = w[k + 1]
  BY <1>2, TailIs
<1>6. PICK z \in Seq(Byte) : z = TextLower(x) /\ Len(z) = n /\ \A k \in 1..n : z[k] = Lower(x[k])
  BY <1>4, TextLowerIs
<1>7. ASSUME NEW k \in 1..n PROVE y[k] = z[k]
  <2>1. k + 1 \in 1..(n + 1)
    OBVIOUS
  <2>2. QED
    BY <1>2, <1>4, <1>5, <1>6, <2>1
<1>8. y = z
  BY <1>5, <1>6, <1>7, SeqsAreEqual
<1>9. QED
  BY <1>2, <1>4, <1>5, <1>6, <1>8

LEMMA PortLower ==
    ASSUME NEW s \in Seq(Byte)
    PROVE  PortNumber(TextLower(s)) = PortNumber(s)
<1> DEFINE StoredFor(number, minus) ==
             IF number = NotFound THEN NotFound ELSE IntOf(IF minus THEN -number ELSE number)
<1>1. PICK n \in Nat : n = Len(s)
  OBVIOUS
<1>2. PICK w \in Seq(Byte) : w = TextLower(s)
  BY TextLowerIs
<1>3. /\ Len(w) = n /\ (w = <<>> <=> s = <<>>)
      /\ \A k \in 1..n : w[k] \in {43, 45} <=> s[k] \in {43, 45}
      /\ \A k \in 1..n : w[k] = 43 <=> s[k] = 43
  BY <1>1, <1>2, LowerSame
<1>4. s # <<>> => 1 \in 1..n
  BY <1>1
<1>5. UnsignedNumber(w) = UnsignedNumber(s)
  BY <1>2, UnsignedLower
<1>6. s # <<>> => UnsignedNumber(Tail(w)) = UnsignedNumber(Tail(s))
  <2>1. SUFFICES ASSUME s # <<>> PROVE UnsignedNumber(Tail(w)) = UnsignedNumber(Tail(s))
    OBVIOUS
  <2>2. Tail(s) \in Seq(Byte) /\ Tail(w) = TextLower(Tail(s))
    BY <1>2, <2>1, TailLower
  <2>3. QED
    BY <2>2, UnsignedLower
<1>7. ASSUME NEW t, t = <<>> \/ t[1] \notin {43, 45}
      PROVE  PortNumber(t) = StoredFor(UnsignedNumber(t), FALSE)
  <2>1. ~(t # <<>> /\ t[1] \in {43, 45})
    BY <1>7
  <2>2. QED
    BY <2>1, Zenon DEF PortNumber
<1>8. ASSUME NEW t, t # <<>>, t[1] \in {43, 45}
      PROVE  PortNumber(t) = StoredFor(UnsignedNumber(Tail(t)), t[1] = 45)
  BY <1>8, Zenon DEF PortNumber
<1> HIDE DEF StoredFor
<1>9. CASE s = <<>> \/ s[1] \notin {43, 45}
  <2>1. w = <<>> \/ w[1] \notin {43, 45}
    BY <1>3, <1>4, <1>9
  <2>2. QED
    BY <1>2, <1>5, <1>7, <1>9, <2>1
<1>10. CASE ~(s = <<>> \/ s[1] \notin {43, 45})
  <2>1. ~(w = <<>> \/ w[1] \notin {43, 45}) /\ (w[1] = 45 <=> s[1] = 45)
    BY <1>3, <1>4, <1>10
  <2>2. /\ PortNumber(w) = StoredFor(UnsignedNumber(Tail(w)), w[1] = 45)
        /\ PortNumber(s) = StoredFor(UnsignedNumber(Tail(s)), s[1] = 45)
    BY <1>8, <1>10, <2>1
  <2>3. (w[1] = 45) = (s[1] = 45)
    BY <2>1
  <2>4. UnsignedNumber(Tail(w)) = UnsignedNumber(Tail(s))
    BY <1>6, <1>10
  <2>5. QED
    BY <1>2, <2>2, <2>3, <2>4, Zenon
<1>11. QED
  BY <1>9, <1>10

\* The white space that is skipped before a number is that of the text in small letters.
LEMMA SpacesAre ==
    \A k \in DOMAIN Spaces : Spaces[k] \in {32} \union 9..13
<1>1. DOMAIN Spaces = 1..6
  BY DEF Spaces
<1>2. /\ Spaces[1] = 32 /\ Spaces[2] = 9 /\ Spaces[3] = 10 /\ Spaces[4] = 11 /\ Spaces[5] = 12
      /\ Spaces[6] = 13
  BY DEF Spaces
<1>3. \A k \in 1..6 : k = 1 \/ k = 2 \/ k = 3 \/ k = 4 \/ k = 5 \/ k = 6
  OBVIOUS
<1>4. QED
  BY <1>1, <1>2, <1>3

LEMMA SpacesLower ==
    ASSUME NEW s \in Seq(Byte)
    PROVE  TrimmedStart(TextLower(s), Spaces) = TextLower(TrimmedStart(s, Spaces))
<1>1. PICK n \in Nat : n = Len(s)
  OBVIOUS
<1>2. PICK w \in Seq(Byte) : w = TextLower(s) /\ Len(w) = n /\ \A k \in 1..n : w[k] = Lower(s[k])
  BY <1>1, TextLowerIs
<1>3. Kept(w, Spaces) = Kept(s, Spaces)
  <2>1. \A c \in Byte, d \in {32} \union 9..13 : Lower(c) = d <=> c = d
    BY DEF Byte, Lower
  <2>2. DOMAIN s = 1..n /\ DOMAIN w = 1..n /\ \A i \in 1..n : s[i] \in Byte
    BY <1>1, <1>2
  <2>3. \A i \in 1..n, k \in DOMAIN Spaces : w[i] = Spaces[k] <=> s[i] = Spaces[k]
    BY <1>2, <2>1, <2>2, SpacesAre
  <2>4. QED
    BY <2>2, <2>3 DEF Kept
<1>4. CASE Kept(s, Spaces) = {}
  <2>1. IndexNotOfAny(s, Spaces, 0) = NotFound /\ IndexNotOfAny(w, Spaces, 0) = NotFound
    BY <1>3, <1>4, TrimSearches
  <2>2. TrimmedStart(s, Spaces) = <<>> /\ TrimmedStart(w, Spaces) = <<>>
    BY <2>1 DEF TrimmedStart
  <2>3. TextLower(<<>>) = <<>>
    <3>1. <<>> \in Seq(Byte) /\ Len(<<>>) = 0
      OBVIOUS
    <3>2. TextLower(<<>>) \in Seq(Byte) /\ Len(TextLower(<<>>)) = 0
      BY <3>1, TextLowerIs
    <3>3. QED
      BY <3>2, LenZero
  <2>4. QED
    BY <1>2, <2>2, <2>3
<1>5. CASE Kept(s, Spaces) # {}
  <2>1. PICK a \in Kept(s, Spaces) :
            /\ \A i \in Kept(s, Spaces) : a <= i
            /\ IndexNotOfAny(s, Spaces, 0) = a - 1
    BY <1>5, TrimSearches
  <2>2. PICK b \in Kept(s, Spaces) :
            /\ \A i \in Kept(s, Spaces) : b <= i
            /\ IndexNotOfAny(w, Spaces, 0) = b - 1
    BY <1>3, <1>5, TrimSearches
  <2>3. Kept(s, Spaces) \subseteq 1..n
    BY <1>1, KeptIs
  <2>4. a = b
    BY <2>1, <2>2, <2>3
  <2>5. PICK i \in Nat : i = a - 1 /\ i <= n /\ i # NotFound
    BY <2>3 DEF NotFound
  <2>6. TrimmedStart(s, Spaces) = Cut(s, i, n) /\ TrimmedStart(w, Spaces) = Cut(w, i, n)
    BY <1>1, <1>2, <2>1, <2>2, <2>4, <2>5 DEF TrimmedStart, Cut
  <2>7. TextLower(Cut(s, i, n)) = Cut(TextLower(s), i, n)
    BY <1>1, <2>5, LowerCut
  <2>8. QED
    BY <1>2, <2>6, <2>7
<1>6. QED
  BY <1>4, <1>5

\* Nothing is skipped of a text that starts with none of the characters.
LEMMA NothingSkipped ==
    ASSUME NEW s \in Seq(Byte), s # <<>>, NEW set, \A k \in DOMAIN set : s[1] # set[k]
    PROVE  TrimmedStart(s, set) = s
<1>1. PICK n \in Nat : n = Len(s) /\ n # 0
  OBVIOUS
<1>2. 1 \in Kept(s, set) /\ Kept(s, set) \subseteq 1..n
  <2>1. DOMAIN s = 1..n /\ 1 \in 1..n
    BY <1>1
  <2>2. QED
    BY <2>1 DEF Kept
<1>3. PICK a \in Kept(s, set) : (\A i \in Kept(s, set) : a <= i) /\ IndexNotOfAny(s, set, 0) = a - 1
  BY <1>2, TrimSearches
<1>4. a = 1
  BY <1>2, <1>3
<1>5. IndexNotOfAny(s, set, 0) = 0 /\ 0 # NotFound
  BY <1>3, <1>4 DEF NotFound
<1>6. TrimmedStart(s, set) = SubSeq(s, 1, Len(s))
  BY <1>5 DEF TrimmedStart
<1>7. QED
  BY <1>6

LEMMA Within ==
    ASSUME NEW m \in Nat, NEW x \in 0..(m - 1)
    PROVE  x % m = x
OBVIOUS

\* The number of a port is an int.
LEMMA PortIsInt ==
    ASSUME NEW n \in 0..(PortLimit - 1)
    PROVE  IntOf(n) = n
<1>1. PICK i \in Nat, l \in Nat : i = IntLimit /\ l = LongLimit /\ i # 0 /\ n < i /\ i <= l /\ n \in Nat
  BY UriAssumption
<1>2. ~(n >= l) /\ ~(n < -l)
  BY <1>1
<1>3. IntOf(n) = ((n + i) % (2 * i)) - i
  BY <1>1, <1>2 DEF IntOf
<1>4. PICK m \in Nat : m = 2 * i
  BY <1>1
<1>a. PICK x \in 0..(m - 1) : x = n + i
  BY <1>1, <1>4
<1>5. x % m = x
  BY Within
<1>6. QED
  BY <1>1, <1>3, <1>4, <1>a, <1>5

\* The numbers of the first digits, for every number of digits.
IsNumber(f, v, base) == f = [k \in 0..Len(v) |-> IF k = 0 THEN 0 ELSE base * f[k - 1] + v[k]]

LEMMA NumberExists ==
    ASSUME NEW v \in Seq(0..15), NEW base \in {8, 10}
    PROVE  \E f : IsNumber(f, v, base) /\ f \in [0..Len(v) -> Nat]
<1>1. PICK n \in Nat : n = Len(v) /\ \A k \in 1..n : v[k] \in 0..15
  OBVIOUS
<1>2. PICK prev : prev = [k \in 0..n |-> IF k = 0 THEN 0 ELSE k - 1]
  OBVIOUS
<1>3. PICK digit : digit = [k \in 0..n |-> IF k = 0 THEN 0 ELSE v[k]]
  OBVIOUS
<1>4. PICK step : step = [k \in 0..n |-> [x \in Nat |-> base * x + digit[k]]]
  OBVIOUS
<1>5. PICK first : first = [k \in 0..n |-> 0]
  OBVIOUS
<1>6. prev \in [0..n -> Nat]
  BY <1>2
<1>7. first \in [0..n -> Nat]
  BY <1>5
<1>8. \A k \in 0..n : digit[k] \in Nat
  <2>1. ASSUME NEW k \in 0..n PROVE digit[k] \in Nat
    <3>1. k # 0 => k \in 1..n
      OBVIOUS
    <3>2. QED
      BY <1>1, <1>3, <3>1
  <2>2. QED
    BY <2>1
<1>9. step \in [0..n -> [Nat -> Nat]]
  <2>1. ASSUME NEW x \in Nat, NEW d \in Nat PROVE base * x + d \in Nat
    <3>1. CASE base = 8
      BY <3>1
    <3>2. CASE base = 10
      BY <3>2
    <3>3. QED
      BY <3>1, <3>2
  <2>2. ASSUME NEW k \in 0..n PROVE [x \in Nat |-> base * x + digit[k]] \in [Nat -> Nat]
    BY <1>8, <2>1
  <2>3. QED
    BY <1>4, <2>2
<1>10. PICK f : GoesUp(f, n, Nat, prev, step, first)
  BY <1>6, <1>7, <1>9, RecursionUp
<1>11. f \in [0..n -> Nat] /\ \A k \in 0..n : f[k] = IF prev[k] < k THEN step[k][f[prev[k]]] ELSE first[k]
  BY <1>10 DEF GoesUp
<1>12. ASSUME NEW k \in 0..n PROVE f[k] = IF k = 0 THEN 0 ELSE base * f[k - 1] + v[k]
  <2>1. CASE k = 0
    <3>1. ~(prev[k] < k)
      BY <1>2, <2>1
    <3>2. QED
      BY <1>5, <1>11, <2>1, <3>1
  <2>2. CASE k # 0
    <3>1. prev[k] = k - 1 /\ k - 1 < k /\ k - 1 \in 0..n
      BY <1>2, <2>2
    <3>2. f[k] = step[k][f[k - 1]]
      BY <1>11, <3>1
    <3>3. f[k - 1] \in Nat
      BY <1>11, <3>1
    <3>4. step[k] = [x \in Nat |-> base * x + digit[k]]
      BY <1>4
    <3>5. step[k][f[k - 1]] = base * f[k - 1] + digit[k]
      BY <3>3, <3>4
    <3>6. digit[k] = v[k]
      BY <1>3, <2>2
    <3>7. QED
      BY <2>2, <3>2, <3>5, <3>6
  <2>3. QED
    BY <2>1, <2>2
<1>13. IsNumber(f, v, base)
  BY <1>1, <1>11, <1>12 DEF IsNumber
<1>14. QED
  BY <1>1, <1>11, <1>13

LEMMA NumberIs ==
    ASSUME NEW v \in Seq(0..15), NEW base \in {8, 10}, NEW n \in Nat, n = Len(v)
    PROVE  \E f : /\ f \in [0..n -> Nat] /\ NumberOf(v, base) = f[n] /\ f[0] = 0
                  /\ \A k \in 1..n : f[k] = base * f[k - 1] + v[k]
<1>1. PICK f : f = CHOOSE g : IsNumber(g, v, base)
  OBVIOUS
<1>2. \E g : IsNumber(g, v, base)
  BY NumberExists
<1>3. IsNumber(f, v, base)
  BY <1>1, <1>2
<1>4. NumberOf(v, base) = f[n]
  BY <1>1 DEF NumberOf, IsNumber
<1>5. f = [k \in 0..n |-> IF k = 0 THEN 0 ELSE base * f[k - 1] + v[k]]
  BY <1>3, Zenon DEF IsNumber
<1>6. f[0] = 0 /\ \A k \in 1..n : f[k] = base * f[k - 1] + v[k]
  <2>1. 0 \in 0..n /\ \A k \in 1..n : k \in 0..n /\ k # 0
    OBVIOUS
  <2>2. \A k \in 0..n : f[k] = IF k = 0 THEN 0 ELSE base * f[k - 1] + v[k]
    BY <1>5, Zenon
  <2>3. QED
    BY <2>1, <2>2
<1>7. PICK g : IsNumber(g, v, base) /\ g \in [0..n -> Nat]
  BY NumberExists
<1>8. \A k \in 0..n : f[k] = g[k]
  <2>1. g = [k \in 0..n |-> IF k = 0 THEN 0 ELSE base * g[k - 1] + v[k]]
    BY <1>7, Zenon DEF IsNumber
  <2>2. \A k \in 0..n : g[k] = IF k = 0 THEN 0 ELSE base * g[k - 1] + v[k]
    BY <2>1, Zenon
  <2> DEFINE S == {k \in Nat : k \in 0..n => f[k] = g[k]}
  <2>3. 0 \in S
    BY <1>6, <2>2
  <2>4. ASSUME NEW k \in S PROVE k + 1 \in S
    <3>1. ASSUME k + 1 \in 0..n PROVE f[k + 1] = g[k + 1]
      <4>1. k \in 0..n /\ k + 1 \in 1..n /\ (k + 1) - 1 = k /\ k + 1 # 0
        BY <3>1
      <4>2. f[k] = g[k]
        BY <4>1
      <4>3. f[k + 1] = base * f[k] + v[k + 1]
        BY <1>6, <4>1
      <4>4. g[k + 1] = base * g[k] + v[k + 1]
        BY <2>2, <3>1, <4>1
      <4>5. QED
        BY <4>2, <4>3, <4>4
    <3>2. QED
      BY <3>1
  <2>5. S = Nat
    <3>1. S \in SUBSET Nat
      OBVIOUS
    <3> HIDE DEF S
    <3>2. QED
      BY <2>3, <2>4, <3>1, InductionOnNat
  <2>6. QED
    BY <2>5
<1>9. f = g
  BY <1>5, <1>7, <1>8
<1>10. QED
  BY <1>4, <1>6, <1>7, <1>9

\* A sequence of one element, and digits and their values with one more.
LEMMA OneIs ==
    ASSUME NEW S, NEW x \in S
    PROVE  \E o \in Seq(S) : o = <<x>> /\ Len(o) = 1 /\ o[1] = x
<1>1. <<x>> \in Seq(S) /\ Len(<<x>>) = 1 /\ <<x>>[1] = x
  OBVIOUS
<1>2. QED
  BY <1>1

LEMMA AppendDigit ==
    ASSUME NEW s \in Seq(Digits), NEW x \in Digits, NEW n \in Nat, n = Len(s)
    PROVE  /\ s \o <<x>> \in Seq(Digits) /\ Len(s \o <<x>>) = n + 1 /\ (s \o <<x>>)[n + 1] = x
           /\ \A k \in 1..n : (s \o <<x>>)[k] = s[k]
<1>1. PICK o \in Seq(Digits) : o = <<x>> /\ Len(o) = 1 /\ o[1] = x
  BY OneIs, Zenon
<1>2. s \o o \in Seq(Digits) /\ Len(s \o o) = n + 1
  BY <1>1
<1>3. \A k \in 1..n : (s \o o)[k] = s[k]
  BY <1>1
<1>4. (s \o o)[n + 1] = x
  BY <1>1
<1>5. QED
  BY <1>1, <1>2, <1>3, <1>4

LEMMA AppendValue ==
    ASSUME NEW s \in Seq(0..15), NEW x \in 0..15, NEW n \in Nat, n = Len(s)
    PROVE  /\ s \o <<x>> \in Seq(0..15) /\ Len(s \o <<x>>) = n + 1 /\ (s \o <<x>>)[n + 1] = x
           /\ \A k \in 1..n : (s \o <<x>>)[k] = s[k]
<1>1. PICK o \in Seq(0..15) : o = <<x>> /\ Len(o) = 1 /\ o[1] = x
  BY OneIs, Zenon
<1>2. s \o o \in Seq(0..15) /\ Len(s \o o) = n + 1
  BY <1>1
<1>3. \A k \in 1..n : (s \o o)[k] = s[k]
  BY <1>1
<1>4. (s \o o)[n + 1] = x
  BY <1>1
<1>5. QED
  BY <1>1, <1>2, <1>3, <1>4

LEMMA NumberAppend ==
    ASSUME NEW v \in Seq(0..15), NEW x \in 0..15
    PROVE  /\ NumberOf(v, 10) \in Nat
           /\ NumberOf(v \o <<x>>, 10) = 10 * NumberOf(v, 10) + x
<1>1. PICK n \in Nat : n = Len(v)
  OBVIOUS
<1>2. PICK w \in Seq(0..15) : /\ w = v \o <<x>> /\ Len(w) = n + 1 /\ w[n + 1] = x
                              /\ \A k \in 1..n : w[k] = v[k]
  <2>1. /\ v \o <<x>> \in Seq(0..15) /\ Len(v \o <<x>>) = n + 1 /\ (v \o <<x>>)[n + 1] = x
        /\ \A k \in 1..n : (v \o <<x>>)[k] = v[k]
    BY <1>1, AppendValue
  <2>2. QED
    BY <2>1
<1>3. PICK f : /\ f \in [0..n -> Nat] /\ NumberOf(v, 10) = f[n] /\ f[0] = 0
               /\ \A k \in 1..n : f[k] = 10 * f[k - 1] + v[k]
  BY <1>1, NumberIs
<1>4. PICK m \in Nat : m = n + 1
  OBVIOUS
<1>5. PICK g : /\ g \in [0..m -> Nat] /\ NumberOf(w, 10) = g[m] /\ g[0] = 0
               /\ \A k \in 1..m : g[k] = 10 * g[k - 1] + w[k]
  BY <1>2, <1>4, NumberIs
<1>6. \A k \in 0..n : f[k] = g[k]
  <2> DEFINE S == {k \in Nat : k \in 0..n => f[k] = g[k]}
  <2>1. 0 \in S
    BY <1>3, <1>5
  <2>2. ASSUME NEW k \in S PROVE k + 1 \in S
    <3>1. ASSUME k + 1 \in 0..n PROVE f[k + 1] = g[k + 1]
      <4>1. k \in 0..n /\ k + 1 \in 1..n /\ k + 1 \in 1..m /\ (k + 1) - 1 = k
        BY <1>4, <3>1
      <4>2. f[k] = g[k]
        BY <4>1
      <4>3. f[k + 1] = 10 * f[k] + v[k + 1]
        BY <1>3, <4>1
      <4>4. g[k + 1] = 10 * g[k] + w[k + 1]
        BY <1>5, <4>1
      <4>5. w[k + 1] = v[k + 1]
        BY <1>2, <4>1
      <4>6. QED
        BY <4>2, <4>3, <4>4, <4>5
    <3>2. QED
      BY <3>1
  <2>3. S = Nat
    <3>1. S \in SUBSET Nat
      OBVIOUS
    <3> HIDE DEF S
    <3>2. QED
      BY <2>1, <2>2, <3>1, InductionOnNat
  <2>4. QED
    BY <2>3
<1>7. f[n] = g[n] /\ f[n] \in Nat
  BY <1>3, <1>6
<1>8. g[m] = 10 * g[n] + x
  <2>1. m \in 1..m /\ m - 1 = n
    BY <1>4
  <2>2. QED
    BY <1>2, <1>4, <1>5, <2>1
<1>9. QED
  BY <1>2, <1>3, <1>5, <1>7, <1>8

\* The values of the digits of a text.
Values10(d) == [k \in DOMAIN d |-> HexValue(d[k])]

LEMMA DigitIs ==
    ASSUME NEW c \in Digits
    PROVE  c \in Byte /\ HexValue(c) = c - 48 /\ HexValue(c) \in 0..9 /\ c - 48 \in 0..9
<1>1. c \in 48..57
  BY DEF Digits
<1>2. HexValue(c) = c - 48
  BY <1>1 DEF HexValue
<1>3. c \in 0..255 /\ c - 48 \in 0..9
  BY <1>1
<1>4. QED
  BY <1>2, <1>3 DEF Byte

LEMMA ValuesTyped ==
    ASSUME NEW d \in Seq(Digits), NEW n \in Nat, n = Len(d)
    PROVE  /\ Values10(d) \in Seq(0..15) /\ Len(Values10(d)) = n
           /\ \A k \in 1..n : Values10(d)[k] = d[k] - 48
           /\ DigitsNumber(d, 10) = NumberOf(Values10(d), 10)
<1>1. DOMAIN d = 1..n /\ \A k \in 1..n : d[k] \in Digits
  OBVIOUS
<1>2. PICK f : f = Values10(d) /\ f = [k \in 1..n |-> HexValue(d[k])]
  BY <1>1 DEF Values10
<1>3. \A k \in 1..n : HexValue(d[k]) = d[k] - 48 /\ HexValue(d[k]) \in 0..9
  BY <1>1, DigitIs
<1>4. f \in [1..n -> 0..15]
  <2>1. \A k \in 1..n : HexValue(d[k]) \in 0..15
    <3>1. 0..9 \subseteq 0..15
      OBVIOUS
    <3>2. QED
      BY <1>3, <3>1
  <2>2. QED
    BY <1>2, <2>1
<1>5. f \in Seq(0..15) /\ Len(f) = n
  BY <1>4, FunctionIsSeq
<1>6. \A k \in DOMAIN f : f[k] \in 0..9
  BY <1>2, <1>3
<1>7. 0..(10 - 1) = 0..9
  OBVIOUS
<1>8. DigitsNumber(d, 10) = IF \E k \in DOMAIN f : f[k] \notin 0..(10 - 1) THEN NotFound ELSE NumberOf(f, 10)
  BY <1>2, Zenon DEF DigitsNumber, Values10
<1>9. DigitsNumber(d, 10) = NumberOf(f, 10)
  BY <1>6, <1>7, <1>8, Zenon
<1>10. QED
  BY <1>2, <1>3, <1>5, <1>9

LEMMA OneNumber ==
    ASSUME NEW c \in Digits
    PROVE  NumberOf(Values10(<<c>>), 10) = c - 48
<1>1. PICK d \in Seq(Digits) : d = <<c>> /\ Len(d) = 1 /\ d[1] = c
  BY OneIs, Zenon
<1>2. PICK v \in Seq(0..15) : v = Values10(<<c>>) /\ Len(v) = 1 /\ v[1] = c - 48
  <2>1. /\ Values10(d) \in Seq(0..15) /\ Len(Values10(d)) = 1
        /\ \A k \in 1..1 : Values10(d)[k] = d[k] - 48
    <3>1. 1 \in Nat /\ 1 = Len(d)
      BY <1>1
    <3>2. QED
      BY <3>1, ValuesTyped, Zenon
  <2>2. 1 \in 1..1
    OBVIOUS
  <2>3. QED
    BY <1>1, <2>1, <2>2
<1>3. PICK f : /\ f \in [0..1 -> Nat] /\ NumberOf(v, 10) = f[1] /\ f[0] = 0
               /\ \A k \in 1..1 : f[k] = 10 * f[k - 1] + v[k]
  BY <1>2, NumberIs
<1>4. 1 \in 1..1 /\ 1 - 1 = 0
  OBVIOUS
<1>5. f[1] = 10 * f[1 - 1] + v[1]
  BY <1>3, <1>4
<1>6. f[1] = 10 * 0 + (c - 48)
  BY <1>2, <1>3, <1>4, <1>5
<1>7. 10 * 0 + (c - 48) = c - 48
  BY DigitIs
<1>8. QED
  BY <1>2, <1>3, <1>6, <1>7

LEMMA MoreNumber ==
    ASSUME NEW d \in Seq(Digits), NEW c \in Digits
    PROVE  /\ NumberOf(Values10(d), 10) \in Nat
           /\ NumberOf(Values10(d \o <<c>>), 10) = 10 * NumberOf(Values10(d), 10) + (c - 48)
<1>1. PICK n \in Nat : n = Len(d)
  OBVIOUS
<1>2. PICK e \in Seq(Digits) : /\ e = d \o <<c>> /\ Len(e) = n + 1 /\ e[n + 1] = c
                               /\ \A k \in 1..n : e[k] = d[k]
  <2>1. /\ d \o <<c>> \in Seq(Digits) /\ Len(d \o <<c>>) = n + 1 /\ (d \o <<c>>)[n + 1] = c
        /\ \A k \in 1..n : (d \o <<c>>)[k] = d[k]
    BY <1>1, AppendDigit
  <2>2. QED
    BY <2>1
<1>3. PICK m \in Nat : m = n + 1
  OBVIOUS
<1>4. PICK v \in Seq(0..15) : v = Values10(d) /\ Len(v) = n /\ \A k \in 1..n : v[k] = d[k] - 48
  BY <1>1, ValuesTyped
<1>5. PICK w \in Seq(0..15) : w = Values10(e) /\ Len(w) = m /\ \A k \in 1..m : w[k] = e[k] - 48
  BY <1>2, <1>3, ValuesTyped
<1>6. PICK x \in 0..15 : x = c - 48
  <2>1. c - 48 \in 0..15
    BY DEF Digits
  <2>2. QED
    BY <2>1
<1>7. PICK o \in Seq(0..15) : /\ o = v \o <<x>> /\ Len(o) = n + 1 /\ o[n + 1] = x
                              /\ \A k \in 1..n : o[k] = v[k]
  <2>1. /\ v \o <<x>> \in Seq(0..15) /\ Len(v \o <<x>>) = n + 1 /\ (v \o <<x>>)[n + 1] = x
        /\ \A k \in 1..n : (v \o <<x>>)[k] = v[k]
    <3>1. n = Len(v)
      BY <1>4
    <3>2. QED
      BY <3>1, AppendValue, Zenon
  <2>2. QED
    BY <2>1
<1>8. ASSUME NEW k \in 1..m PROVE w[k] = o[k]
  <2>1. CASE k = m
    BY <1>2, <1>3, <1>5, <1>6, <1>7, <2>1
  <2>2. CASE k # m
    <3>1. k \in 1..n
      BY <1>3, <2>2
    <3>2. w[k] = e[k] - 48 /\ e[k] = d[k]
      BY <1>2, <1>5, <3>1
    <3>3. o[k] = v[k] /\ v[k] = d[k] - 48
      BY <1>4, <1>7, <3>1
    <3>4. QED
      BY <3>2, <3>3
  <2>3. QED
    BY <2>1, <2>2
<1>9. w = o
  BY <1>3, <1>5, <1>7, <1>8, SeqsAreEqual
<1>10. NumberOf(v, 10) \in Nat /\ NumberOf(v \o <<x>>, 10) = 10 * NumberOf(v, 10) + x
  BY NumberAppend
<1>11. QED
  BY <1>2, <1>4, <1>5, <1>6, <1>7, <1>9, <1>10

\* The digits of a number begin with no 0, but that of 0, and are read as the number.
IsDecimalOf(d, n) ==
    /\ d \in Seq(Digits) /\ d # <<>> /\ d[1] \in Digits
    /\ n = 0 => d = <<48>>
    /\ n # 0 => d[1] # 48
    /\ NumberOf(Values10(d), 10) = n

LEMMA DecimalLess ==
    ASSUME NEW n \in Nat, n >= 10, NEW m \in Nat, m = n \div 10, IsDecimalOf(Decimal(m), m)
    PROVE  IsDecimalOf(Decimal(n), n)
<1>1. m >= 1 /\ n % 10 \in 0..9 /\ n = 10 * m + (n % 10)
  BY TenthIs
<1>2. PICK c \in Digits : c = (n % 10) + 48 /\ n = 10 * m + (c - 48)
  <2>1. PICK r \in 0..9 : r = n % 10
    BY <1>1
  <2>2. r + 48 \in Digits /\ (r + 48) - 48 = r
    BY DEF Digits
  <2>3. QED
    BY <1>1, <2>1, <2>2
<1>3. PICK e \in Seq(Digits) : e = Decimal(m) /\ e # <<>> /\ e[1] \in Digits /\ e[1] # 48 /\ NumberOf(Values10(e), 10) = m
  BY <1>1 DEF IsDecimalOf
<1>4. Decimal(n) = e \o <<c>>
  <2>1. ~(n < 10)
    OBVIOUS
  <2>2. Decimal(n) = Decimal(n \div 10) \o <<(n % 10) + 48>>
    BY <2>1, DecimalDigits
  <2>3. QED
    BY <1>2, <1>3, <2>2
<1>5. e \o <<c>> \in Seq(Digits) /\ e \o <<c>> # <<>> /\ (e \o <<c>>)[1] = e[1]
  <2>1. PICK l \in Nat : l = Len(e) /\ 1 \in 1..l
    BY <1>3
  <2>2. PICK w \in Seq(Digits) : /\ w = e \o <<c>> /\ Len(w) = l + 1
                                /\ \A k \in 1..l : w[k] = e[k]
    <3>1. /\ e \o <<c>> \in Seq(Digits) /\ Len(e \o <<c>>) = l + 1 /\ (e \o <<c>>)[l + 1] = c
          /\ \A k \in 1..l : (e \o <<c>>)[k] = e[k]
      BY <2>1, AppendDigit
    <3>2. QED
      BY <3>1
  <2>3. w # <<>>
    BY <2>2
  <2>4. QED
    BY <2>1, <2>2, <2>3
<1>6. NumberOf(Values10(e \o <<c>>), 10) = n
  BY <1>2, <1>3, MoreNumber
<1>7. n # 0
  OBVIOUS
<1>8. QED
  BY <1>3, <1>4, <1>5, <1>6, <1>7 DEF IsDecimalOf

LEMMA DecimalReads ==
    ASSUME NEW n \in Nat
    PROVE  IsDecimalOf(Decimal(n), n)
<1> DEFINE S == {k \in Nat : IsDecimalOf(Decimal(k), k)}
<1>1. ASSUME NEW k \in Nat, \A j \in 0..(k - 1) : j \in S PROVE k \in S
  <2>1. CASE k < 10
    <3>1. PICK c \in Digits : c = k + 48 /\ c - 48 = k
      <4>1. k + 48 \in Digits /\ (k + 48) - 48 = k
        BY <2>1 DEF Digits
      <4>2. QED
        BY <4>1
    <3>2. Decimal(k) = <<c>>
      BY <2>1, <3>1, DecimalDigits
    <3>3. NumberOf(Values10(<<c>>), 10) = k
      BY <3>1, OneNumber
    <3>4. <<c>> \in Seq(Digits) /\ <<c>> # <<>> /\ <<c>>[1] = c
      OBVIOUS
    <3>5. (k = 0 => c = 48) /\ (k # 0 => c # 48)
      BY <3>1
    <3>6. IsDecimalOf(<<c>>, k)
      BY <3>3, <3>4, <3>5 DEF IsDecimalOf
    <3>7. QED
      BY <3>2, <3>6
  <2>2. CASE ~(k < 10)
    <3>1. k >= 10
      BY <2>2
    <3>2. PICK m \in Nat : m = k \div 10 /\ m < k
      BY <3>1, TenthIs
    <3>3. m \in S
      BY <1>1, <3>2
    <3>4. IsDecimalOf(Decimal(m), m)
      BY <3>3
    <3>5. IsDecimalOf(Decimal(k), k)
      BY <3>1, <3>2, <3>4, DecimalLess
    <3>6. QED
      BY <3>5
  <2>3. QED
    BY <2>1, <2>2
<1>2. S = Nat
  <2>1. S \in SUBSET Nat
    OBVIOUS
  <2> HIDE DEF S
  <2>2. QED
    BY <1>1, <2>1, StrongInduction
<1>3. QED
  BY <1>2

LEMMA ZeroNumber == UnsignedNumber(<<48>>) = 0
<1>1. <<48>> # <<>> /\ <<48>>[1] = 48 /\ ~(Len(<<48>>) > 1)
  OBVIOUS
<1>2. UnsignedNumber(<<48>>) = DigitsNumber(<<48>>, 8)
  BY <1>1 DEF UnsignedNumber
<1>3. PICK d \in Seq(Digits) : d = <<48>> /\ Len(d) = 1 /\ d[1] = 48
  <2>1. 48 \in Digits
    BY DEF Digits
  <2>2. QED
    BY <2>1, OneIs, Zenon
<1>4. PICK v \in Seq(0..15) : v = Values10(<<48>>) /\ Len(v) = 1 /\ v[1] = 0
  <2>1. /\ Values10(d) \in Seq(0..15) /\ Len(Values10(d)) = 1
        /\ \A k \in 1..1 : Values10(d)[k] = d[k] - 48
    <3>1. 1 \in Nat /\ 1 = Len(d)
      BY <1>3
    <3>2. QED
      BY <3>1, ValuesTyped, Zenon
  <2>2. 1 \in 1..1 /\ 48 - 48 = 0
    OBVIOUS
  <2>3. QED
    BY <1>3, <2>1, <2>2
<1>5. \A k \in DOMAIN v : v[k] \in 0..(8 - 1)
  <2>1. \A k \in DOMAIN v : k = 1
    BY <1>4
  <2>2. 0 \in 0..(8 - 1)
    OBVIOUS
  <2>3. QED
    BY <1>4, <2>1, <2>2
<1>6. DigitsNumber(<<48>>, 8) = IF \E k \in DOMAIN v : v[k] \notin 0..(8 - 1) THEN NotFound ELSE NumberOf(v, 8)
  BY <1>4, Zenon DEF DigitsNumber, Values10
<1>7. PICK f : /\ f \in [0..1 -> Nat] /\ NumberOf(v, 8) = f[1] /\ f[0] = 0
               /\ \A k \in 1..1 : f[k] = 8 * f[k - 1] + v[k]
  BY <1>4, NumberIs
<1>8. f[1] = 0
  <2>1. 1 \in 1..1 /\ 1 - 1 = 0
    OBVIOUS
  <2>2. f[1] = 8 * f[0] + v[1]
    BY <1>7, <2>1
  <2>3. QED
    BY <1>4, <1>7, <2>2
<1>9. QED
  BY <1>2, <1>5, <1>6, <1>7, <1>8

\* A printed port is read as the port, and has no blank, no colon and no mark.
LEMMA PrintedPort ==
    ASSUME NEW n \in Nat
    PROVE  /\ Decimal(n) \in Seq(Byte) /\ Decimal(n) # <<>>
           /\ \A k \in 1..Len(Decimal(n)) : Decimal(n)[k] \in Digits
           /\ n < PortLimit => PortNumber(TrimmedStart(Decimal(n), Spaces)) = n
<1>1. PICK d \in Seq(Digits) : d = Decimal(n) /\ IsDecimalOf(d, n)
  BY DecimalReads DEF IsDecimalOf
<1>2. /\ d # <<>> /\ d[1] \in Digits /\ (n = 0 => d = <<48>>) /\ (n # 0 => d[1] # 48)
      /\ NumberOf(Values10(d), 10) = n
  BY <1>1 DEF IsDecimalOf
<1>3. d \in Seq(Byte) /\ \A k \in 1..Len(d) : d[k] \in Digits
  <2>1. Digits \subseteq Byte
    BY DEF Digits, Byte
  <2>2. QED
    BY <2>1
<1>4. TrimmedStart(d, Spaces) = d
  <2>1. \A k \in DOMAIN Spaces : d[1] # Spaces[k]
    BY <1>2, SpacesAre DEF Digits
  <2>2. QED
    BY <1>2, <1>3, <2>1, NothingSkipped
<1>5. UnsignedNumber(d) # NotFound => PortNumber(d) = IntOf(UnsignedNumber(d))
  <2>1. d[1] \notin {43, 45}
    BY <1>2 DEF Digits
  <2>2. QED
    BY <2>1, Zenon DEF PortNumber
<1>6. UnsignedNumber(d) = n
  <2>1. CASE n = 0
    BY <1>2, <2>1, ZeroNumber
  <2>2. CASE n # 0
    <3>1. UnsignedNumber(d) = DigitsNumber(d, 10)
      BY <1>2, <2>2 DEF UnsignedNumber
    <3>2. DigitsNumber(d, 10) = NumberOf(Values10(d), 10)
      BY ValuesTyped
    <3>3. QED
      BY <1>2, <3>1, <3>2
  <2>3. QED
    BY <2>1, <2>2
<1>7. n < PortLimit => PortNumber(d) = n
  <2>1. SUFFICES ASSUME n < PortLimit PROVE PortNumber(d) = n
    OBVIOUS
  <2>2. n # NotFound
    BY DEF NotFound
  <2>3. n \in 0..(PortLimit - 1)
    BY <2>1, UriAssumption
  <2>4. QED
    BY <1>5, <1>6, <2>2, <2>3, PortIsInt
<1>8. QED
  BY <1>1, <1>2, <1>3, <1>4, <1>7

-----------------------------------------------------------------------------
(* What is known of the components of a text that was accepted.            *)

\* The text of a part in small letters.
LEMMA LowerPart ==
    ASSUME NEW t \in Seq(Byte), NEW i \in Nat, NEW j \in Nat, i <= j, j <= Len(t)
    PROVE  /\ TextLower(Cut(t, i, j)) \in Seq(Byte) /\ Len(TextLower(Cut(t, i, j))) = j - i
           /\ TextLower(TextLower(Cut(t, i, j))) = TextLower(Cut(t, i, j))
           /\ \A C : NoLetters(C) => \A k \in 1..(j - i) :
                  TextLower(Cut(t, i, j))[k] \in C <=> t[i + k] \in C
<1>1. PICK d \in Nat : d = j - i
  OBVIOUS
<1>2. PICK y \in Seq(Byte) : y = Cut(t, i, j) /\ d = Len(y) /\ \A k \in 1..d : y[k] = t[i + k]
  <2>1. /\ Cut(t, i, j) \in Seq(Byte) /\ Len(Cut(t, i, j)) = j - i
        /\ \A k \in 1..(j - i) : Cut(t, i, j)[k] = t[i + k]
    BY CutIs
  <2>2. QED
    BY <1>1, <2>1
<1>3. PICK x \in Seq(Byte) : x = TextLower(y) /\ Len(x) = d /\ \A k \in 1..d : x[k] = Lower(y[k])
  BY <1>2, TextLowerIs
<1>4. TextLower(x) = x
  BY <1>3, TextLowerTwice
<1>5. ASSUME NEW C, NoLetters(C), NEW k \in 1..d PROVE x[k] \in C <=> t[i + k] \in C
  <2>1. y[k] \in Byte /\ y[k] = t[i + k] /\ x[k] = Lower(y[k])
    BY <1>2, <1>3
  <2>2. Lower(y[k]) \in C <=> y[k] \in C
    BY <1>5, <2>1, LowerMember
  <2>3. QED
    BY <2>1, <2>2
<1>6. QED
  BY <1>1, <1>2, <1>3, <1>4, <1>5

LEMMA LowerNone ==
    ASSUME NEW t \in Seq(Byte), NEW i \in Nat, NEW j \in Nat, i <= j, j <= Len(t),
           NEW C, NoLetters(C), NoneIn(t, i, j, C)
    PROVE  NoneOf(TextLower(Cut(t, i, j)), C)
<1>1. PICK d \in Nat : d = j - i
  OBVIOUS
<1>2. PICK x \in Seq(Byte) : /\ x = TextLower(Cut(t, i, j)) /\ Len(x) = d
                             /\ \A k \in 1..d : x[k] \in C <=> t[i + k] \in C
  <2>1. /\ TextLower(Cut(t, i, j)) \in Seq(Byte) /\ Len(TextLower(Cut(t, i, j))) = j - i
        /\ \A k \in 1..(j - i) : TextLower(Cut(t, i, j))[k] \in C <=> t[i + k] \in C
    BY LowerPart, Zenon
  <2>2. QED
    BY <1>1, <2>1
<1>3. \A k \in 1..d : i + k \in (i + 1)..j
  BY <1>1
<1>4. \A k \in 1..d : x[k] \notin C
  BY <1>2, <1>3 DEF NoneIn
<1>5. QED
  BY <1>2, <1>4 DEF NoneOf

\* Where the colons of a host without a port are.
OneColon(x) == \A k \in 2..Len(x) : x[k] # Colon
StartsColon(x) == x # <<>> /\ x[1] = Colon

LEMMA TrimmedHost ==
    ASSUME NEW x \in Seq(Byte), TextLower(x) = x, NEW y, y = Trimmed(x)
    PROVE  /\ y \in Seq(Byte) /\ IsTrim(y) /\ TextLower(y) = y
           /\ \A C : NoneOf(x, C) => NoneOf(y, C)
           /\ OneColon(x) => OneColon(y) /\ (StartsColon(y) => StartsColon(x))
<1>1. PICK n \in Nat : n = Len(x)
  OBVIOUS
<1>2. /\ y \in Seq(Byte) /\ IsTrim(y)
      /\ \E i \in 0..n, j \in 0..n : /\ i <= j /\ y = Cut(x, i, j) /\ \A k \in 1..i : x[k] \in Blank
  BY <1>1, TrimIs
<1>3. PICK i \in 0..n, j \in 0..n : i <= j /\ y = Cut(x, i, j) /\ \A k \in 1..i : x[k] \in Blank
  BY <1>2
<1>4. i \in Nat /\ j \in Nat /\ j <= Len(x)
  BY <1>1
<1>5. TextLower(y) = y
  BY <1>3, <1>4, LowerCut
<1>6. ASSUME NEW C, NoneOf(x, C) PROVE NoneOf(y, C)
  BY <1>3, <1>4, <1>6, NoneOfCut
<1>7. PICK d \in Nat : i + d = j /\ Len(y) = d /\ \A k \in 1..d : y[k] = x[i + k]
  <2>1. PICK d \in Nat : i + d = j
    <3>1. j - i \in Nat /\ i + (j - i) = j
      BY <1>3, <1>4
    <3>2. QED
      BY <3>1
  <2>2. /\ Cut(x, i, j) \in Seq(Byte) /\ Len(Cut(x, i, j)) = d
        /\ \A k \in 1..d : Cut(x, i, j)[k] = x[i + k]
    BY <1>4, <2>1, ByteCut
  <2>3. QED
    BY <1>3, <2>1, <2>2
<1>8. ASSUME OneColon(x) PROVE OneColon(y) /\ (StartsColon(y) => StartsColon(x))
  <2>1. \A k \in 2..n : x[k] # Colon
    BY <1>1, <1>8 DEF OneColon
  <2>2. \A k \in 2..d : i + k \in 2..n
    BY <1>4, <1>7
  <2>3. OneColon(y)
    BY <1>7, <2>1, <2>2 DEF OneColon
  <2>4. ASSUME StartsColon(y) PROVE StartsColon(x)
    <3>1. y # <<>> /\ y[1] = Colon
      BY <2>4 DEF StartsColon
    <3>2. 1 \in 1..d
      BY <1>2, <1>7, <3>1
    <3>3. x[i + 1] = Colon
      BY <1>7, <3>1, <3>2
    <3>4. i = 0
      <4>1. SUFFICES ASSUME i # 0 PROVE FALSE
        OBVIOUS
      <4>2. i + 1 \in 2..n
        BY <1>4, <1>7, <3>2, <4>1
      <4>3. QED
        BY <2>1, <3>3, <4>2
    <3>5. n # 0 /\ x[1] = Colon
      BY <1>7, <3>2, <3>3, <3>4
    <3>6. QED
      BY <1>1, <3>5 DEF StartsColon
  <2>5. QED
    BY <2>3, <2>4
<1>9. QED
  BY <1>2, <1>5, <1>6, <1>8

\* A host with what was no port.
IsWhole(x) ==
    \E d \in 1..Len(x) :
        /\ d < Len(x) /\ x[d + 1] = Colon /\ \A k \in (d + 2)..Len(x) : x[k] # Colon
        /\ Trimmed(Cut(x, 0, d)) # <<>>
        /\ PortNumber(TrimmedStart(Cut(x, d + 1, Len(x)), Spaces)) \notin 0..(PortLimit - 1)

\* What is known of the user info and the host of a structure with this port and these flags,
\* whose scheme ends at m.
UserFits(has, x) == /\ x \in Seq(Byte) /\ NoneOf(x, Marks) /\ NoneOf(x, {AtSign})
                    /\ "userinfo" \notin has => x = <<>>

NumberedHost(has, x, port) == "port" \in has /\ x # <<>> /\ IsTrim(x) /\ port \in 0..(PortLimit - 1)
PlainHost(has, x, port, m) == /\ "port" \notin has /\ port = 0 /\ IsTrim(x) /\ OneColon(x)
                              /\ StartsColon(x) => "userinfo" \in has \/ m = 0
WholeHost(has, x, port) == "port" \notin has /\ port = 0 /\ x # <<>> /\ IsWhole(x)

HostFits(has, x, port, m) ==
    /\ x \in Seq(Byte) /\ TextLower(x) = x /\ NoneOf(x, Marks)
    /\ "userinfo" \notin has => NoneOf(x, {AtSign})
    /\ "host" \in has <=> x # <<>>
    /\ NumberedHost(has, x, port) \/ PlainHost(has, x, port, m) \/ WholeHost(has, x, port)

\* What the parser finds in an authority from a until p, and what it makes of it.
IsPort(number) == number \in 0..(PortLimit - 1)
IsFound(au, t, a, p, at, host, number) ==
    /\ IsAt(at, t, a, p) /\ host = HostText(t, at, p) /\ number = PortAt(t, at, p, host)
    /\ au.has \subseteq AuthorityNames
    /\ "userinfo" \in au.has <=> at.user # NotFound
    /\ "host" \in au.has <=> host # <<>>
    /\ "port" \in au.has <=> IsPort(number)
    /\ au.port = IF IsPort(number) THEN number ELSE 0
    /\ PartOf(au, "userinfo") = IF at.user = NotFound THEN <<>> ELSE Slice(t, a, at.user)
    /\ PartOf(au, "host") = IF host # <<>> /\ at.port # NotFound /\ ~IsPort(number)
                            THEN TextLower(Slice(t, at.host, p)) ELSE host

LEMMA AuthorityFinds ==
    ASSUME NEW t \in Seq(Byte), NEW n \in Nat, n = Len(t), NEW a \in 0..n, NEW p \in a..n, p > a,
           NEW au, IsAuthority(au, t, a, p)
    PROVE  \E at, host, number : IsFound(au, t, a, p, at, host, number)
<1>1. PICK at : at = AuthorityAt(t, a, p)
  OBVIOUS
<1>2. PICK host : host = HostText(t, at, p)
  OBVIOUS
<1>3. PICK number : number = PortAt(t, at, p, host)
  OBVIOUS
<1>4. au = AuthorityOf(t, a, p, at, host, number)
  BY <1>1, <1>2, <1>3, Zenon DEF IsAuthority, Authority
<1>5. PICK isPort : isPort = (number \in 0..(PortLimit - 1))
  OBVIOUS
<1>6. PICK whole : whole = (host # <<>> /\ at.port # NotFound /\ ~isPort)
  OBVIOUS
<1>7. /\ au.has = {"authority"} \cup (IF at.user # NotFound THEN {"userinfo"} ELSE {})
                      \cup (IF host # <<>> THEN {"host"} ELSE {})
                      \cup (IF isPort THEN {"port"} ELSE {})
      /\ au.port = IF isPort THEN number ELSE 0
      /\ DOMAIN au.text = AuthorityNames
      /\ au.text["userinfo"] = IF at.user = NotFound THEN <<>> ELSE Slice(t, a, at.user)
      /\ au.text["host"] = IF whole THEN TextLower(Slice(t, at.host, p)) ELSE host
  BY <1>4, <1>5, <1>6, AuthorityOfIs
<1>8. /\ "userinfo" \in au.has <=> at.user # NotFound
      /\ "host" \in au.has <=> host # <<>>
      /\ "port" \in au.has <=> isPort
      /\ au.has \subseteq AuthorityNames
  BY <1>7 DEF AuthorityNames
<1>9. (isPort <=> IsPort(number)) /\ (whole <=> host # <<>> /\ at.port # NotFound /\ ~IsPort(number))
  BY <1>5, <1>6, Zenon DEF IsPort
<1>10. "userinfo" \in AuthorityNames /\ "host" \in AuthorityNames
  BY DEF AuthorityNames
<1>11. PartOf(au, "userinfo") = IF at.user = NotFound THEN <<>> ELSE Slice(t, a, at.user)
  BY <1>7, <1>10 DEF PartOf
<1>12. PartOf(au, "host") = IF whole THEN TextLower(Slice(t, at.host, p)) ELSE host
  BY <1>7, <1>10 DEF PartOf
<1>13. IsAt(at, t, a, p)
  BY <1>1, AuthorityAtIs
<1>14. IsFound(au, t, a, p, at, host, number)
  BY <1>2, <1>3, <1>7, <1>8, <1>9, <1>11, <1>12, <1>13, Zenon DEF IsFound
<1>15. QED
  BY <1>14

LEMMA UserFitsIs ==
    ASSUME NEW t \in Seq(Byte), NEW n \in Nat, n = Len(t), NEW a \in 0..n, NEW p \in a..n, p > a,
           NoneIn(t, a, p, Marks), NEW au, NEW at, NEW host, NEW number,
           IsFound(au, t, a, p, at, host, number)
    PROVE  UserFits(au.has, PartOf(au, "userinfo"))
<1>1. IsAt(at, t, a, p)
  BY DEF IsFound
<1>2. /\ "userinfo" \in au.has <=> at.user # NotFound
      /\ PartOf(au, "userinfo") = IF at.user = NotFound THEN <<>> ELSE Slice(t, a, at.user)
  BY DEF IsFound
<1>3. CASE at.user = NotFound
  <2>1. PartOf(au, "userinfo") = <<>>
    BY <1>2, <1>3
  <2>2. <<>> \in Seq(Byte) /\ NoneOf(<<>>, Marks) /\ NoneOf(<<>>, {AtSign})
    BY DEF NoneOf
  <2>3. QED
    BY <2>1, <2>2, Zenon DEF UserFits
<1>4. CASE at.user # NotFound
  <2>1. PICK j \in a..(p - 1) : j = at.user /\ \A k \in (a + 1)..j : t[k] # AtSign
    BY <1>1, <1>4 DEF IsAt
  <2>2. a \in Nat /\ j \in Nat /\ a <= j /\ j <= Len(t) /\ j <= p
    BY <2>1
  <2>3. PICK x \in Seq(Byte) : x = PartOf(au, "userinfo") /\ x = Cut(t, a, j)
    BY <1>2, <1>4, <2>1, <2>2, TextCut
  <2>4. NoneIn(t, a, j, Marks) /\ NoneIn(t, a, j, {AtSign})
    BY <2>1, <2>2 DEF NoneIn
  <2>5. NoneOf(x, Marks)
    BY <2>2, <2>3, <2>4, NoneOfCut
  <2>6. NoneOf(x, {AtSign})
    BY <2>2, <2>3, <2>4, NoneOfCut
  <2>7. "userinfo" \in au.has
    BY <1>2, <1>4
  <2>8. QED
    BY <2>3, <2>5, <2>6, <2>7, Zenon DEF UserFits
<1>5. QED
  BY <1>3, <1>4

LEMMA TextCutIs ==
    ASSUME NEW t \in Seq(Byte), NEW i \in Nat, NEW j \in Nat, i <= j, j <= Len(t)
    PROVE  /\ Cut(t, i, j) \in Seq(Byte) /\ Len(Cut(t, i, j)) = j - i
           /\ \A k \in 1..(j - i) : Cut(t, i, j)[k] = t[i + k]
BY CutIs

LEMMA CutInCut ==
    ASSUME NEW t \in Seq(Byte), NEW i \in Nat, NEW j \in Nat, i <= j, j <= Len(t),
           NEW e \in Nat, NEW f \in Nat, e <= f, f <= j - i
    PROVE  Cut(Cut(t, i, j), e, f) = Cut(t, i + e, i + f)
<1>1. PICK l \in Nat : l = j - i
  OBVIOUS
<1>2. PICK y \in Seq(Byte) : y = Cut(t, i, j) /\ Len(y) = l /\ \A k \in 1..l : y[k] = t[i + k]
  <2>1. /\ Cut(t, i, j) \in Seq(Byte) /\ Len(Cut(t, i, j)) = j - i
        /\ \A k \in 1..(j - i) : Cut(t, i, j)[k] = t[i + k]
    BY CutIs
  <2>2. QED
    BY <1>1, <2>1
<1>3. PICK d \in Nat : e + d = f
  <2>1. f - e \in Nat /\ e + (f - e) = f
    OBVIOUS
  <2>2. QED
    BY <2>1
<1>4. PICK z \in Seq(Byte) : z = Cut(y, e, f) /\ Len(z) = d /\ \A k \in 1..d : z[k] = y[e + k]
  <2>1. f <= Len(y)
    BY <1>1, <1>2
  <2>2. /\ Cut(y, e, f) \in Seq(Byte) /\ Len(Cut(y, e, f)) = f - e
        /\ \A k \in 1..(f - e) : Cut(y, e, f)[k] = y[e + k]
    BY <2>1, CutIs
  <2>3. f - e = d
    BY <1>3
  <2>4. QED
    BY <2>2, <2>3
<1>5. PICK p \in Nat, q \in Nat : p = i + e /\ q = i + f /\ p <= q /\ q - p = d /\ q <= Len(t)
  BY <1>1, <1>3
<1>6. PICK x \in Seq(Byte) : x = Cut(t, p, q) /\ Len(x) = d /\ \A k \in 1..d : x[k] = t[p + k]
  <2>1. /\ Cut(t, p, q) \in Seq(Byte) /\ Len(Cut(t, p, q)) = q - p
        /\ \A k \in 1..(q - p) : Cut(t, p, q)[k] = t[p + k]
    <3>1. p <= q /\ q <= Len(t)
      BY <1>5
    <3>2. QED
      BY <3>1, TextCutIs, Zenon
  <2>2. QED
    BY <1>5, <2>1
<1>7. ASSUME NEW k \in 1..d PROVE z[k] = x[k]
  <2>1. e + k \in 1..l /\ i + (e + k) = p + k
    BY <1>1, <1>3, <1>5
  <2>2. y[e + k] = t[p + k]
    BY <1>2, <2>1
  <2>3. QED
    BY <1>4, <1>6, <2>2
<1>8. z = x
  BY <1>4, <1>6, <1>7, SeqsAreEqual
<1>9. QED
  BY <1>2, <1>4, <1>5, <1>6, <1>8

LEMMA TrimmedNothing == Trimmed(<<>>) = <<>> /\ IsTrim(<<>>) /\ TextLower(<<>>) = <<>>
<1>1. <<>> \in Seq(Byte) /\ IsTrim(<<>>)
  BY DEF IsTrim
<1>2. QED
  BY <1>1, TrimKeeps, TextLowerEmpty

\* The parts of a host with what was no port.
LEMMA WholeParts ==
    ASSUME NEW t \in Seq(Byte), NEW h \in Nat, NEW g \in Nat, NEW p \in Nat, h <= g, g < p, p <= Len(t)
    PROVE  /\ Cut(TextLower(Cut(t, h, p)), 0, g - h) = TextLower(Cut(t, h, g))
           /\ Cut(TextLower(Cut(t, h, p)), (g - h) + 1, p - h) = TextLower(Cut(t, g + 1, p))
<1>1. PICK d \in Nat, l \in Nat : d = g - h /\ l = p - h /\ h + d = g /\ h + l = p /\ d < l
  <2>1. g - h \in Nat /\ p - h \in Nat /\ h + (g - h) = g /\ h + (p - h) = p /\ g - h < p - h
    OBVIOUS
  <2>2. QED
    BY <2>1
<1>2. PICK y \in Seq(Byte) : y = Cut(t, h, p) /\ Len(y) = l
  <2>1. h <= p
    OBVIOUS
  <2>2. Cut(t, h, p) \in Seq(Byte) /\ Len(Cut(t, h, p)) = p - h
    BY <2>1, CutIs
  <2>3. QED
    BY <1>1, <2>2
<1>3. 0 \in Nat /\ 0 <= d /\ d <= l /\ d <= p - h /\ d <= Len(y) /\ h <= p
  BY <1>1, <1>2
<1>4. PICK e \in Nat : e = d + 1 /\ e <= l /\ l <= p - h /\ l <= Len(y)
  BY <1>1, <1>2
<1>5. Cut(y, 0, d) = Cut(t, h, g)
  <2>1. Cut(y, 0, d) = Cut(t, h + 0, h + d)
    BY <1>2, <1>3, CutInCut
  <2>2. QED
    BY <1>1, <2>1
<1>6. Cut(y, e, l) = Cut(t, g + 1, p)
  <2>1. e <= l /\ l <= p - h /\ h <= p
    BY <1>3, <1>4
  <2>2. Cut(Cut(t, h, p), e, l) = Cut(t, h + e, h + l)
    BY <2>1, CutInCut
  <2>3. h + e = g + 1
    BY <1>1, <1>4
  <2>4. QED
    BY <1>1, <1>2, <2>2, <2>3
<1>7. TextLower(Cut(y, 0, d)) = Cut(TextLower(y), 0, d)
  BY <1>3, LowerCut
<1>8. TextLower(Cut(y, e, l)) = Cut(TextLower(y), e, l)
  BY <1>4, LowerCut
<1>9. QED
  BY <1>1, <1>2, <1>4, <1>5, <1>6, <1>7, <1>8

LEMMA WholeIs ==
    ASSUME NEW t \in Seq(Byte), NEW h \in Nat, NEW g \in Nat, NEW p \in Nat, h <= g, g < p, p <= Len(t),
           t[g + 1] = Colon, \A k \in (g + 2)..p : t[k] # Colon,
           Trimmed(TextLower(Cut(t, h, g))) # <<>>,
           ~IsPort(PortNumber(TrimmedStart(Cut(t, g + 1, p), Spaces)))
    PROVE  TextLower(Cut(t, h, p)) # <<>> /\ IsWhole(TextLower(Cut(t, h, p)))
<1>1. PICK d \in Nat, l \in Nat : d = g - h /\ l = p - h /\ h + d = g /\ h + l = p /\ d < l /\ h <= p
  <2>1. g - h \in Nat /\ p - h \in Nat /\ h + (g - h) = g /\ h + (p - h) = p /\ g - h < p - h
    OBVIOUS
  <2>2. QED
    BY <2>1
<1>2. PICK x \in Seq(Byte) : /\ x = TextLower(Cut(t, h, p)) /\ Len(x) = l
                             /\ \A C : NoLetters(C) => \A k \in 1..l : x[k] \in C <=> t[h + k] \in C
  <2>1. /\ TextLower(Cut(t, h, p)) \in Seq(Byte) /\ Len(TextLower(Cut(t, h, p))) = p - h
        /\ \A C : NoLetters(C) => \A k \in 1..(p - h) :
               TextLower(Cut(t, h, p))[k] \in C <=> t[h + k] \in C
    <3>1. h <= p
      BY <1>1
    <3>2. QED
      BY <3>1, LowerPart, Zenon
  <2>2. QED
    BY <1>1, <2>1
<1>3. \A k \in 1..l : x[k] = Colon <=> t[h + k] = Colon
  BY <1>2, PlainSets
<1>4. d # 0
  <2>1. SUFFICES ASSUME d = 0 PROVE FALSE
    OBVIOUS
  <2>2. Cut(t, h, g) = <<>>
    BY <1>1, <2>1, CutNone
  <2>3. QED
    BY <2>2, TrimmedNothing
<1>5. d \in 1..Len(x) /\ d < Len(x) /\ x # <<>>
  BY <1>1, <1>2, <1>4
<1>6. x[d + 1] = Colon /\ \A k \in (d + 2)..Len(x) : x[k] # Colon
  <2>1. d + 1 \in 1..l /\ h + (d + 1) = g + 1
    BY <1>1
  <2>2. \A k \in (d + 2)..l : k \in 1..l /\ h + k \in (g + 2)..p
    BY <1>1
  <2>3. QED
    BY <1>2, <1>3, <2>1, <2>2
<1>7. Cut(x, 0, d) = TextLower(Cut(t, h, g)) /\ Cut(x, d + 1, l) = TextLower(Cut(t, g + 1, p))
  <2>1. /\ Cut(TextLower(Cut(t, h, p)), 0, g - h) = TextLower(Cut(t, h, g))
        /\ Cut(TextLower(Cut(t, h, p)), (g - h) + 1, p - h) = TextLower(Cut(t, g + 1, p))
    BY WholeParts
  <2>2. QED
    BY <1>1, <1>2, <2>1
<1>8. PICK y \in Seq(Byte) : y = Cut(t, g + 1, p)
  <2>1. g + 1 \in Nat /\ g + 1 <= p
    OBVIOUS
  <2>2. Cut(t, g + 1, p) \in Seq(Byte)
    BY <2>1, TextCut
  <2>3. QED
    BY <2>2
<1>9. PortNumber(TrimmedStart(TextLower(y), Spaces)) = PortNumber(TrimmedStart(y, Spaces))
  <2>1. TrimmedStart(y, Spaces) \in Seq(Byte)
    BY TrimType
  <2>2. PortNumber(TextLower(TrimmedStart(y, Spaces))) = PortNumber(TrimmedStart(y, Spaces))
    BY <2>1, PortLower
  <2>3. TrimmedStart(TextLower(y), Spaces) = TextLower(TrimmedStart(y, Spaces))
    BY SpacesLower
  <2>4. QED
    BY <2>2, <2>3
<1>10. PortNumber(TrimmedStart(Cut(x, d + 1, Len(x)), Spaces)) \notin 0..(PortLimit - 1)
  BY <1>2, <1>7, <1>8, <1>9, Zenon DEF IsPort
<1>11. Trimmed(Cut(x, 0, d)) # <<>>
  BY <1>7
<1>12. QED
  <2>1. IsWhole(x)
    BY <1>5, <1>6, <1>10, <1>11, Zenon DEF IsWhole
  <2>2. QED
    BY <1>2, <1>5, <2>1

\* Where the host is that the parser looks for first.
LEMMA HostStarts ==
    ASSUME NEW t \in Seq(Byte), NEW n \in Nat, n = Len(t), NEW a \in 0..n, NEW p \in a..n,
           NEW at, IsAt(at, t, a, p)
    PROVE  \E h \in a..p, e \in a..p :
               /\ h = at.host /\ e = HostEnd(at, p) /\ h <= e /\ h \in Nat /\ e \in Nat
               /\ HostText(t, at, p) = Trimmed(TextLower(Cut(t, h, e)))
               /\ Slice(t, at.host, p) = Cut(t, h, p)
               /\ at.user = NotFound => NoneIn(t, h, p, {AtSign})
<1>1. PICK h \in a..p : h = at.host
  BY DEF IsAt
<1>2. PICK e \in h..p : e = HostEnd(at, p)
  <2>1. at.port = NotFound \/ at.port \in h..(p - 1)
    BY <1>1 DEF IsAt
  <2>2. HostEnd(at, p) \in h..p
    BY <2>1 DEF HostEnd
  <2>3. QED
    BY <2>2
<1>3. h \in Nat /\ e \in Nat /\ p \in Nat /\ h <= e /\ e <= Len(t) /\ h <= p /\ p <= Len(t) /\ e \in a..p
  OBVIOUS
<1>4. Slice(t, h, e) = Cut(t, h, e) /\ Slice(t, h, p) = Cut(t, h, p)
  BY <1>3, TextCut
<1>5. HostText(t, at, p) = TrimmedEnd(TrimmedStart(TextLower(Slice(t, h, e)), Blanks), Blanks)
  BY <1>1, <1>2, Zenon DEF HostText, HostEnd
<1>6. at.user = NotFound => NoneIn(t, h, p, {AtSign})
  <2>1. SUFFICES ASSUME at.user = NotFound PROVE NoneIn(t, h, p, {AtSign})
    OBVIOUS
  <2>2. at.user \notin a..(p - 1)
    BY <2>1 DEF NotFound
  <2>3. at.host = a /\ \A k \in (a + 1)..p : t[k] # AtSign
    BY <2>2 DEF IsAt
  <2>4. QED
    BY <1>1, <2>3 DEF NoneIn
<1>7. QED
  BY <1>1, <1>2, <1>3, <1>4, <1>5, <1>6 DEF Trimmed

LEMMA LowerFits ==
    ASSUME NEW t \in Seq(Byte), NEW h \in Nat, NEW e \in Nat, NEW p \in Nat, h <= e, e <= p, p <= Len(t),
           NoneIn(t, h, p, Marks)
    PROVE  /\ TextLower(Cut(t, h, e)) \in Seq(Byte)
           /\ TextLower(TextLower(Cut(t, h, e))) = TextLower(Cut(t, h, e))
           /\ NoneOf(TextLower(Cut(t, h, e)), Marks)
           /\ NoneIn(t, h, p, {AtSign}) => NoneOf(TextLower(Cut(t, h, e)), {AtSign})
<1>1. h <= e /\ e <= Len(t)
  OBVIOUS
<1>2. /\ TextLower(Cut(t, h, e)) \in Seq(Byte)
      /\ TextLower(TextLower(Cut(t, h, e))) = TextLower(Cut(t, h, e))
  BY <1>1, LowerPart, Zenon
<1>3. ASSUME NEW C, NoneIn(t, h, p, C) PROVE NoneIn(t, h, e, C)
  BY <1>3 DEF NoneIn
<1>4. NoneOf(TextLower(Cut(t, h, e)), Marks)
  BY <1>1, <1>3, PlainSets, LowerNone
<1>5. NoneIn(t, h, p, {AtSign}) => NoneOf(TextLower(Cut(t, h, e)), {AtSign})
  BY <1>1, <1>3, PlainSets, LowerNone
<1>6. QED
  BY <1>2, <1>4, <1>5

\* The colons of a text in small letters are those of the text.
LEMMA LowerColons ==
    ASSUME NEW t \in Seq(Byte), NEW h \in Nat, NEW p \in Nat, h <= p, p <= Len(t)
    PROVE  /\ (\A k \in (h + 2)..p : t[k] # Colon) => OneColon(TextLower(Cut(t, h, p)))
           /\ StartsColon(TextLower(Cut(t, h, p))) => h < p /\ t[h + 1] = Colon
<1>1. PICK l \in Nat : l = p - h
  OBVIOUS
<1>2. PICK x \in Seq(Byte) : /\ x = TextLower(Cut(t, h, p)) /\ Len(x) = l
                             /\ \A k \in 1..l : x[k] \in {Colon} <=> t[h + k] \in {Colon}
  <2>1. /\ TextLower(Cut(t, h, p)) \in Seq(Byte) /\ Len(TextLower(Cut(t, h, p))) = p - h
        /\ \A C : NoLetters(C) => \A k \in 1..(p - h) :
               TextLower(Cut(t, h, p))[k] \in C <=> t[h + k] \in C
    BY LowerPart, Zenon
  <2>2. \A k \in 1..(p - h) : TextLower(Cut(t, h, p))[k] \in {Colon} <=> t[h + k] \in {Colon}
    BY <2>1, PlainSets, Zenon
  <2>3. QED
    BY <1>1, <2>1, <2>2
<1>3. ASSUME \A k \in (h + 2)..p : t[k] # Colon PROVE OneColon(x)
  <2>1. \A k \in 2..l : k \in 1..l /\ h + k \in (h + 2)..p
    BY <1>1
  <2>2. QED
    BY <1>2, <1>3, <2>1 DEF OneColon
<1>4. ASSUME StartsColon(x) PROVE h < p /\ t[h + 1] = Colon
  <2>1. x # <<>> /\ x[1] = Colon
    BY <1>4 DEF StartsColon
  <2>2. 1 \in 1..l
    BY <1>2, <2>1
  <2>3. QED
    BY <1>1, <1>2, <2>1, <2>2
<1>5. QED
  BY <1>2, <1>3, <1>4

LEMMA HostFitsIs ==
    ASSUME NEW t \in Seq(Byte), NEW n \in Nat, n = Len(t), NEW a \in 0..n, NEW p \in a..n, p > a,
           NoneIn(t, a, p, Marks), NEW au, NEW at, NEW host, NEW number,
           IsFound(au, t, a, p, at, host, number)
    PROVE  HostFits(au.has, PartOf(au, "host"), au.port, a)
<1>1. /\ IsAt(at, t, a, p) /\ host = HostText(t, at, p) /\ number = PortAt(t, at, p, host)
      /\ "userinfo" \in au.has <=> at.user # NotFound
      /\ "host" \in au.has <=> host # <<>>
      /\ "port" \in au.has <=> IsPort(number)
      /\ au.port = IF IsPort(number) THEN number ELSE 0
      /\ PartOf(au, "host") = IF host # <<>> /\ at.port # NotFound /\ ~IsPort(number)
                              THEN TextLower(Slice(t, at.host, p)) ELSE host
  BY DEF IsFound
<1>2. PICK h \in a..p, e \in a..p :
               /\ h = at.host /\ e = HostEnd(at, p) /\ h <= e /\ h \in Nat /\ e \in Nat
               /\ HostText(t, at, p) = Trimmed(TextLower(Cut(t, h, e)))
               /\ Slice(t, at.host, p) = Cut(t, h, p)
               /\ at.user = NotFound => NoneIn(t, h, p, {AtSign})
  BY <1>1, HostStarts
<1>3. h \in Nat /\ e \in Nat /\ p \in Nat /\ h <= e /\ e <= p /\ p <= p /\ h <= p /\ p <= Len(t)
  BY <1>2
<1>4. NoneIn(t, h, p, Marks)
  BY <1>2 DEF NoneIn
<1>5. PICK x \in Seq(Byte) : /\ x = TextLower(Cut(t, h, e)) /\ TextLower(x) = x /\ NoneOf(x, Marks)
                             /\ NoneIn(t, h, p, {AtSign}) => NoneOf(x, {AtSign})
  BY <1>3, <1>4, LowerFits
<1>6. PICK z \in Seq(Byte) : /\ z = TextLower(Cut(t, h, p)) /\ TextLower(z) = z /\ NoneOf(z, Marks)
                             /\ NoneIn(t, h, p, {AtSign}) => NoneOf(z, {AtSign})
  BY <1>3, <1>4, LowerFits
<1>7. host = Trimmed(x)
  BY <1>1, <1>2, <1>5
<1>8. /\ host \in Seq(Byte) /\ IsTrim(host) /\ TextLower(host) = host
      /\ \A C : NoneOf(x, C) => NoneOf(host, C)
      /\ OneColon(x) => OneColon(host) /\ (StartsColon(host) => StartsColon(x))
  BY <1>5, <1>7, TrimmedHost
<1>9. /\ NoneOf(host, Marks) /\ ("host" \in au.has <=> host # <<>>)
      /\ "userinfo" \notin au.has => NoneOf(host, {AtSign})
  BY <1>1, <1>2, <1>5, <1>8
<1>10. "userinfo" \notin au.has => NoneOf(z, {AtSign})
  BY <1>1, <1>2, <1>6
<1>11. host # <<>> => z # <<>>
  <2>1. SUFFICES ASSUME z = <<>> PROVE host = <<>>
    OBVIOUS
  <2>2. Len(z) = p - h
    <3>1. Len(TextLower(Cut(t, h, p))) = p - h
      BY <1>3, LowerPart, Zenon
    <3>2. QED
      BY <1>6, <3>1
  <2>3. e = h
    BY <1>3, <2>1, <2>2
  <2>4. x = <<>>
    BY <1>3, <1>5, <2>3, CutNone, TextLowerEmpty
  <2>5. QED
    BY <1>7, <2>4, TrimmedNothing
<1>12. CASE IsPort(number)
  <2>1. host # <<>>
    <3>1. SUFFICES ASSUME host = <<>> PROVE FALSE
      OBVIOUS
    <3>2. number = NotFound
      BY <1>1, <3>1 DEF PortAt
    <3>3. QED
      BY <1>12, <3>2, UriAssumption DEF IsPort, NotFound
  <2>2. "port" \in au.has /\ PartOf(au, "host") = host /\ au.port = number
    BY <1>1, <1>12, Zenon
  <2>3. NumberedHost(au.has, host, number)
    BY <1>8, <1>12, <2>1, <2>2, Zenon DEF NumberedHost, IsPort
  <2>4. HostFits(au.has, host, number, a)
    BY <1>8, <1>9, <2>3, Zenon DEF HostFits
  <2>5. QED
    BY <2>2, <2>4
<1>13. CASE ~IsPort(number) /\ host # <<>> /\ at.port # NotFound
  <2>1. "port" \notin au.has /\ au.port = 0 /\ PartOf(au, "host") = z
    BY <1>1, <1>2, <1>6, <1>13, Zenon
  <2>2. e = at.port
    BY <1>2, <1>13 DEF HostEnd
  <2>3. e \in h..(p - 1) /\ t[e + 1] = Colon /\ \A k \in (e + 2)..p : t[k] # Colon
    BY <1>1, <1>2, <1>13, <2>2 DEF IsAt
  <2>4. number = PortNumber(TrimmedStart(Cut(t, e + 1, p), Spaces))
    <3>1. e + 1 \in Nat /\ e + 1 <= p
      BY <1>3, <2>3
    <3>2. Slice(t, e + 1, p) = Cut(t, e + 1, p)
      BY <1>3, <3>1, TextCut
    <3>3. number = PortNumber(TrimmedStart(Slice(t, at.port + 1, p), Spaces))
      BY <1>1, <1>13, Zenon DEF PortAt
    <3>4. QED
      BY <2>2, <3>2, <3>3
  <2>5. e < p
    BY <1>3, <2>3
  <2>6. Trimmed(TextLower(Cut(t, h, e))) # <<>> /\ ~IsPort(PortNumber(TrimmedStart(Cut(t, e + 1, p), Spaces)))
    BY <1>5, <1>7, <1>13, <2>4
  <2>7. TextLower(Cut(t, h, p)) # <<>> /\ IsWhole(TextLower(Cut(t, h, p)))
    BY <1>3, <2>3, <2>5, <2>6, WholeIs
  <2>8. z # <<>> /\ IsWhole(z)
    BY <1>6, <2>7, Zenon
  <2>9. WholeHost(au.has, z, 0)
    BY <2>1, <2>8, Zenon DEF WholeHost
  <2>10. HostFits(au.has, z, 0, a)
    BY <1>1, <1>6, <1>10, <1>13, <2>8, <2>9, Zenon DEF HostFits
  <2>11. QED
    BY <2>1, <2>10
<1>14. CASE ~IsPort(number) /\ (host = <<>> \/ at.port = NotFound)
  <2>1. "port" \notin au.has /\ au.port = 0 /\ PartOf(au, "host") = host
    BY <1>1, <1>14, Zenon
  <2>2. OneColon(host) /\ (StartsColon(host) => "userinfo" \in au.has \/ a = 0)
    <3>1. CASE host = <<>>
      <4>1. Len(host) = 0
        BY <3>1
      <4>2. QED
        BY <3>1, <4>1 DEF OneColon, StartsColon
    <3>2. CASE at.port = NotFound
      <4>1. e = p /\ x = z
        BY <1>2, <1>5, <1>6, <3>2 DEF HostEnd
      <4>2. at.port \notin h..(p - 1)
        BY <1>3, <3>2 DEF NotFound
      <4>3. \/ \A k \in (h + 1)..p : t[k] # Colon
            \/ /\ h < p /\ t[h + 1] = Colon /\ \A k \in (h + 2)..p : t[k] # Colon
               /\ at.user # NotFound \/ h = 0
        BY <1>1, <1>2, <4>2 DEF IsAt
      <4>4. \A k \in (h + 2)..p : t[k] # Colon
        BY <1>3, <4>3
      <4>5. OneColon(x)
        BY <1>3, <1>6, <4>1, <4>4, LowerColons
      <4>6. ASSUME StartsColon(host) PROVE "userinfo" \in au.has \/ a = 0
        <5>1. StartsColon(z)
          BY <1>8, <4>1, <4>5, <4>6
        <5>2. h < p /\ t[h + 1] = Colon
          BY <1>3, <1>6, <5>1, LowerColons
        <5>3. at.user # NotFound \/ h = 0
          BY <1>3, <4>3, <5>2
        <5>4. h = 0 => a = 0
          BY <1>2
        <5>5. QED
          BY <1>1, <5>3, <5>4
      <4>7. QED
        BY <1>8, <4>5, <4>6
    <3>3. QED
      BY <1>14, <3>1, <3>2
  <2>3. PlainHost(au.has, host, 0, a)
    BY <1>8, <2>1, <2>2, Zenon DEF PlainHost
  <2>4. HostFits(au.has, host, 0, a)
    BY <1>8, <1>9, <2>3, Zenon DEF HostFits
  <2>5. QED
    BY <2>1, <2>4
<1>15. QED
  BY <1>12, <1>13, <1>14

LEMMA FitsToo ==
    ASSUME NEW h1, NEW h2, NEW x, NEW y, NEW port, NEW a, NEW m,
           UserFits(h1, x), HostFits(h1, y, port, a),
           "userinfo" \in h1 <=> "userinfo" \in h2, "host" \in h1 <=> "host" \in h2,
           "port" \in h1 <=> "port" \in h2, a = 0 => m = 0
    PROVE  UserFits(h2, x) /\ HostFits(h2, y, port, m)
<1>1. UserFits(h2, x)
  BY Zenon DEF UserFits
<1>2. NumberedHost(h1, y, port) => NumberedHost(h2, y, port)
  BY Zenon DEF NumberedHost
<1>3. PlainHost(h1, y, port, a) => PlainHost(h2, y, port, m)
  BY Zenon DEF PlainHost
<1>4. WholeHost(h1, y, port) => WholeHost(h2, y, port)
  BY Zenon DEF WholeHost
<1>5. HostFits(h2, y, port, m)
  BY <1>2, <1>3, <1>4, Zenon DEF HostFits
<1>6. QED
  BY <1>1, <1>5

\* An empty authority fits as well.
LEMMA NothingFits == UserFits({}, <<>>) /\ \A m : HostFits({}, <<>>, 0, m)
<1>1. <<>> \in Seq(Byte) /\ \A C : NoneOf(<<>>, C)
  BY DEF NoneOf
<1>2. OneColon(<<>>) /\ ~StartsColon(<<>>)
  BY DEF OneColon, StartsColon
<1>3. \A m : PlainHost({}, <<>>, 0, m)
  BY <1>2, TrimmedNothing, Zenon DEF PlainHost
<1>4. \A m : HostFits({}, <<>>, 0, m)
  BY <1>1, <1>3, TrimmedNothing, Zenon DEF HostFits
<1>5. UserFits({}, <<>>)
  BY <1>1, Zenon DEF UserFits
<1>6. QED
  BY <1>4, <1>5

\* The structure w of a text that was accepted.
SchemeFits(has, x) == x \in Seq(Byte) /\ TextLower(x) = x /\ ("scheme" \in has <=> x # <<>>)
PathFits(has, x) == x \in Seq(Byte) /\ ("path" \in has <=> x # <<>>) /\ (x # <<>> => x[1] = Slash)
TextFits(has, c, x) == x \in Seq(Byte) /\ (c \in has <=> x # <<>>)
Fits(w) == /\ w.has \subseteq Components
           /\ w.has \cap {"scheme", "host", "path", "query", "fragment"} # {}
           /\ SchemeFits(w.has, w.text["scheme"])
           /\ UserFits(w.has, w.text["userinfo"])
           /\ HostFits(w.has, w.text["host"], w.port, Len(w.text["scheme"]))
           /\ PathFits(w.has, w.text["path"])
           /\ TextFits(w.has, "query", w.text["query"])
           /\ TextFits(w.has, "fragment", w.text["fragment"])

\* The text of a path, and of what follows a mark, when there is one.
LEMMA PathIs ==
    ASSUME NEW t \in Seq(Byte), NEW p \in Nat, NEW q \in Nat, p < q, q <= Len(t), t[p + 1] = Slash
    PROVE  LET x == <<>> \o Decode(Slice(t, p, q)) IN x \in Seq(Byte) /\ x # <<>> /\ x[1] = Slash
<1>1. PICK y \in Seq(Byte) : y = Cut(t, p + 1, q)
  <2>1. p + 1 \in Nat /\ p + 1 <= q
    OBVIOUS
  <2>2. Cut(t, p + 1, q) \in Seq(Byte)
    BY <2>1, TextCut
  <2>3. QED
    BY <2>2
<1>2. Slice(t, p, q) = <<Slash>> \o y
  <2>1. p <= q /\ p <= p + 1 /\ p + 1 <= q /\ p + 1 \in Nat /\ p < Len(t)
    OBVIOUS
  <2>2. Slice(t, p, q) = Cut(t, p, q)
    BY <2>1, TextCut
  <2>3. Cut(t, p, p + 1) \o Cut(t, p + 1, q) = Cut(t, p, q)
    BY <2>1, TextCuts
  <2>4. Cut(t, p, p + 1) = <<t[p + 1]>>
    BY <2>1, CutOne
  <2>5. QED
    BY <1>1, <2>2, <2>3, <2>4
<1>3. PICK d \in Seq(Byte) : d = Decode(y)
  <2>1. Decode(y) \in Seq(Byte)
    BY DecodeType
  <2>2. QED
    BY <2>1
<1>4. Decode(<<Slash>> \o y) = <<Slash>> \o d
  <2>1. Slash \in Marks
    BY DEF Marks
  <2>2. QED
    BY <1>3, <2>1, DecodeMark
<1>5. PICK o \in Seq(Byte) : o = <<Slash>> /\ Len(o) = 1 /\ o[1] = Slash
  <2>1. <<Slash>> \in Seq(Byte) /\ Len(<<Slash>>) = 1 /\ <<Slash>>[1] = Slash
    BY CharsAre
  <2>2. QED
    BY <2>1
<1>6. o \o d \in Seq(Byte) /\ o \o d # <<>> /\ (o \o d)[1] = Slash
  BY <1>5
<1>7. <<>> \o (o \o d) = o \o d
  BY <1>6, NothingJoins
<1>8. QED
  BY <1>2, <1>4, <1>5, <1>6, <1>7

LEMMA AfterMark ==
    ASSUME NEW t \in Seq(Byte), NEW q \in Nat, NEW f \in Nat, q + 2 <= f, f <= Len(t)
    PROVE  LET x == <<>> \o Decode(Slice(t, q + 1, f)) IN x \in Seq(Byte) /\ x # <<>>
<1>1. q + 1 \in Nat /\ q + 1 <= f
  OBVIOUS
<1>2. PICK y \in Seq(Byte) : y = Slice(t, q + 1, f) /\ y # <<>>
  <2>1. Cut(t, q + 1, f) \in Seq(Byte) /\ Slice(t, q + 1, f) = Cut(t, q + 1, f)
    BY <1>1, TextCut
  <2>2. Len(Cut(t, q + 1, f)) = f - (q + 1)
    BY <1>1, TextCutIs
  <2>3. Len(Cut(t, q + 1, f)) # 0
    BY <2>2
  <2>4. Cut(t, q + 1, f) # <<>>
    BY <2>3
  <2>5. QED
    BY <2>1, <2>4
<1>3. Decode(y) \in Seq(Byte) /\ Decode(y) # <<>>
  BY <1>2, DecodeType, DecodeSome
<1>4. QED
  BY <1>2, <1>3, NothingJoins

LEMMA SchemeFitsIs ==
    ASSUME NEW t \in Seq(Byte), NEW s \in Nat, s <= Len(t)
    PROVE  LET x == TextLower(Slice(t, 0, s))
           IN  x \in Seq(Byte) /\ TextLower(x) = x /\ (s > 0 <=> x # <<>>) /\ Len(x) = s
<1>1. 0 \in Nat /\ 0 <= s /\ s - 0 = s
  OBVIOUS
<1>2. Slice(t, 0, s) = Cut(t, 0, s)
  BY <1>1, TextCut
<1>3. /\ TextLower(Cut(t, 0, s)) \in Seq(Byte) /\ Len(TextLower(Cut(t, 0, s))) = s - 0
      /\ TextLower(TextLower(Cut(t, 0, s))) = TextLower(Cut(t, 0, s))
  BY <1>1, LowerPart
<1>4. PICK x \in Seq(Byte) : x = TextLower(Cut(t, 0, s)) /\ Len(x) = s /\ TextLower(x) = x
  BY <1>1, <1>3
<1>5. s > 0 <=> x # <<>>
  BY <1>4
<1>6. QED
  BY <1>2, <1>4, <1>5

LEMMA AuthorityFits ==
    ASSUME NEW t \in Seq(Byte), NEW n \in Nat, n = Len(t), NEW a \in 0..n, NEW p \in a..n,
           NoneIn(t, a, p, Marks), NEW au, IsAuthority(au, t, a, p)
    PROVE  /\ UserFits(au.has, PartOf(au, "userinfo")) /\ HostFits(au.has, PartOf(au, "host"), au.port, a)
           /\ au.has \subseteq AuthorityNames
<1>1. au.has \subseteq AuthorityNames
  BY AuthorityIs
<1>2. CASE p > a
  <2>1. PICK at, host, number : IsFound(au, t, a, p, at, host, number)
    BY <1>2, AuthorityFinds
  <2>2. UserFits(au.has, PartOf(au, "userinfo"))
    BY <1>2, <2>1, UserFitsIs
  <2>3. HostFits(au.has, PartOf(au, "host"), au.port, a)
    BY <1>2, <2>1, HostFitsIs
  <2>4. QED
    BY <1>1, <2>2, <2>3
<1>3. CASE ~(p > a)
  <2>1. au = NoAuthority
    BY <1>3 DEF IsAuthority
  <2>2. au.has = {} /\ au.port = 0 /\ PartOf(au, "userinfo") = <<>> /\ PartOf(au, "host") = <<>>
    BY <2>1 DEF NoAuthority, PartOf
  <2>3. QED
    BY <1>1, <2>2, NothingFits
<1>4. QED
  BY <1>2, <1>3

LEMMA FlagsAre ==
    ASSUME NEW r, NEW t, NEW s, NEW p, NEW q, NEW f, NEW au, IsParsed(r, t, s, p, q, f, au),
           au.has \subseteq AuthorityNames
    PROVE  /\ r.uri.has \subseteq Components
           /\ "scheme" \in r.uri.has <=> s > 0
           /\ "userinfo" \in r.uri.has <=> "userinfo" \in au.has
           /\ "host" \in r.uri.has <=> "host" \in au.has
           /\ "port" \in r.uri.has <=> "port" \in au.has
           /\ "path" \in r.uri.has <=> q > p
           /\ "query" \in r.uri.has <=> IsQuery(t, q)
           /\ "fragment" \in r.uri.has <=> IsFragment(t, f)
<1>1. PICK has, names : has = r.uri.has /\ names = au.has
  OBVIOUS
<1>2. has = (IF s > 0 THEN {"scheme"} ELSE {}) \cup names
                \cup (IF q > p THEN {"path"} ELSE {})
                \cup (IF IsQuery(t, q) THEN {"query"} ELSE {})
                \cup (IF IsFragment(t, f) THEN {"fragment"} ELSE {})
  BY <1>1 DEF IsParsed
<1>3. names \subseteq {"authority", "userinfo", "host", "port"}
  BY <1>1 DEF AuthorityNames
<1>4. has \subseteq Components
  BY <1>2, <1>3 DEF Components
<1>5. "scheme" \notin names /\ "path" \notin names /\ "query" \notin names /\ "fragment" \notin names
  BY <1>3
<1>6. /\ "scheme" \in has <=> s > 0
      /\ "path" \in has <=> q > p
      /\ "query" \in has <=> IsQuery(t, q)
      /\ "fragment" \in has <=> IsFragment(t, f)
  BY <1>2, <1>5
<1>7. /\ "userinfo" \in has <=> "userinfo" \in names
      /\ "host" \in has <=> "host" \in names
      /\ "port" \in has <=> "port" \in names
  BY <1>2
<1>8. QED
  BY <1>1, <1>4, <1>6, <1>7

LEMMA ParsedFits ==
    ASSUME NEW t \in Seq(Byte), NEW n \in Nat, n = Len(t),
           NEW s \in 0..n, NEW a \in 0..n, NEW p \in 0..n, NEW q \in 0..n, NEW f \in Nat,
           ArePlaces(t, n, s, a, p, q, f), NEW au, IsAuthority(au, t, a, p),
           NEW r, IsParsed(r, t, s, p, q, f, au), r.result = 0
    PROVE  Fits(r.uri)
<1>1. /\ a \in s..n /\ p \in a..n /\ q \in p..n
      /\ IsEndAt(p, t, n, Marks, a)
      /\ q = p \/ (q > p /\ t[p + 1] = Slash)
      /\ CharAt(t, q) = Question => q + 2 <= f
  BY DEF ArePlaces
<1>2. NoneIn(t, a, p, Marks)
  BY <1>1 DEF IsEndAt, NoneIn
<1>3. /\ r.uri.has \cap {"scheme", "host", "path", "query", "fragment"} # {}
      /\ IsFragment(t, f) \/ f = n
  BY DEF IsParsed
<1>4. f <= n /\ (IsFragment(t, f) => f + 2 <= n)
  BY <1>3 DEF IsFragment
<1>5. /\ UserFits(au.has, PartOf(au, "userinfo")) /\ HostFits(au.has, PartOf(au, "host"), au.port, a)
      /\ au.has \subseteq AuthorityNames
  BY <1>1, <1>2, AuthorityFits
<1>6. /\ r.uri.has \subseteq Components
      /\ "scheme" \in r.uri.has <=> s > 0
      /\ "userinfo" \in r.uri.has <=> "userinfo" \in au.has
      /\ "host" \in r.uri.has <=> "host" \in au.has
      /\ "port" \in r.uri.has <=> "port" \in au.has
      /\ "path" \in r.uri.has <=> q > p
      /\ "query" \in r.uri.has <=> IsQuery(t, q)
      /\ "fragment" \in r.uri.has <=> IsFragment(t, f)
  BY <1>5, FlagsAre
<1>7. s \in Nat /\ p \in Nat /\ q \in Nat /\ n \in Nat /\ s <= Len(t) /\ q <= Len(t) /\ n <= Len(t) /\ f <= Len(t)
  BY <1>1, <1>4
<1>8. PICK x : x = r.uri.text["scheme"]
  OBVIOUS
<1>9. x \in Seq(Byte) /\ TextLower(x) = x /\ (s > 0 <=> x # <<>>) /\ Len(x) = s
  <2>1. x = TextLower(Slice(t, 0, s))
    BY <1>8 DEF IsParsed
  <2>2. QED
    BY <1>7, <2>1, SchemeFitsIs
<1>10. SchemeFits(r.uri.has, r.uri.text["scheme"])
  BY <1>6, <1>8, <1>9, Zenon DEF SchemeFits
<1>11. /\ UserFits(r.uri.has, r.uri.text["userinfo"])
       /\ HostFits(r.uri.has, r.uri.text["host"], r.uri.port, Len(r.uri.text["scheme"]))
  <2>1. /\ r.uri.text["userinfo"] = PartOf(au, "userinfo") /\ r.uri.text["host"] = PartOf(au, "host")
        /\ r.uri.port = au.port
    BY DEF IsParsed
  <2>2. a = 0 => Len(x) = 0
    BY <1>1, <1>7, <1>9
  <2>3. UserFits(r.uri.has, PartOf(au, "userinfo")) /\ HostFits(r.uri.has, PartOf(au, "host"), au.port, Len(x))
    BY <1>5, <1>6, <2>2, FitsToo, Zenon
  <2>4. QED
    BY <1>8, <2>1, <2>3
<1>12. PathFits(r.uri.has, r.uri.text["path"])
  <2>1. PICK y : y = r.uri.text["path"] /\ y = <<>> \o Decode(Slice(t, p, q))
    BY DEF IsParsed
  <2>2. CASE q > p
    <3>1. p < q /\ t[p + 1] = Slash
      BY <1>1, <2>2
    <3>2. y \in Seq(Byte) /\ y # <<>> /\ y[1] = Slash
      <4>1. LET z == <<>> \o Decode(Slice(t, p, q)) IN z \in Seq(Byte) /\ z # <<>> /\ z[1] = Slash
        BY <1>7, <3>1, PathIs
      <4>2. QED
        BY <2>1, <4>1
    <3>3. QED
      BY <1>6, <2>1, <2>2, <3>2, Zenon DEF PathFits
  <2>3. CASE q = p
    <3>1. Slice(t, p, p) = Cut(t, p, p)
      BY <1>7, <2>3, TextCut
    <3>2. Cut(t, p, p) = <<>>
      BY <1>7, CutNone
    <3>3. y = <<>>
      BY <2>1, <2>3, <3>1, <3>2, DecodeEmpty, NothingJoins
    <3>4. ~(q > p) /\ <<>> \in Seq(Byte)
      BY <1>7, <2>3
    <3>5. QED
      BY <1>6, <2>1, <3>3, <3>4, Zenon DEF PathFits
  <2>4. QED
    BY <1>1, <2>2, <2>3
<1>13. TextFits(r.uri.has, "query", r.uri.text["query"])
  <2>1. PICK y : /\ y = r.uri.text["query"]
                 /\ y = IF IsQuery(t, q) THEN <<>> \o Decode(Slice(t, q + 1, f)) ELSE <<>>
    BY DEF IsParsed
  <2>2. CASE IsQuery(t, q)
    <3>1. q + 2 <= f
      BY <1>1, <2>2 DEF IsQuery
    <3>2. y \in Seq(Byte) /\ y # <<>>
      BY <1>7, <2>1, <2>2, <3>1, AfterMark
    <3>3. QED
      BY <1>6, <2>1, <2>2, <3>2, Zenon DEF TextFits
  <2>3. CASE ~IsQuery(t, q)
    <3>1. y = <<>> /\ <<>> \in Seq(Byte)
      BY <2>1, <2>3
    <3>2. QED
      BY <1>6, <2>1, <2>3, <3>1, Zenon DEF TextFits
  <2>4. QED
    BY <2>2, <2>3
<1>14. TextFits(r.uri.has, "fragment", r.uri.text["fragment"])
  <2>1. PICK y : /\ y = r.uri.text["fragment"]
                 /\ y = IF IsFragment(t, f) THEN <<>> \o Decode(Slice(t, f + 1, n)) ELSE <<>>
    BY DEF IsParsed
  <2>2. CASE IsFragment(t, f)
    <3>1. f + 2 <= n
      BY <1>4, <2>2
    <3>2. y \in Seq(Byte) /\ y # <<>>
      BY <1>7, <2>1, <2>2, <3>1, AfterMark
    <3>3. QED
      BY <1>6, <2>1, <2>2, <3>2, Zenon DEF TextFits
  <2>3. CASE ~IsFragment(t, f)
    <3>1. y = <<>> /\ <<>> \in Seq(Byte)
      BY <2>1, <2>3
    <3>2. QED
      BY <1>6, <2>1, <2>3, <3>1, Zenon DEF TextFits
  <2>4. QED
    BY <2>2, <2>3
<1>15. QED
  BY <1>3, <1>6, <1>10, <1>11, <1>12, <1>13, <1>14, Zenon DEF Fits

\* What is known of a structure that was accepted.
LEMMA AcceptedFits ==
    ASSUME NEW t \in Seq(Byte), NEW w, IsParse(w, 0, t)
    PROVE  Fits(w)
<1>1. PICK v : w = ParseUri(v, t).uri /\ ParseUri(v, t).result = 0
  BY DEF IsParse
<1>2. PICK r : r = ParseUri(v, t) /\ r.uri = w /\ r.result = 0
  BY <1>1
<1>3. PICK n \in Nat : n = Len(t)
  OBVIOUS
<1>4. PICK s, a, p, q \in 0..n, f \in Nat : ArePlaces(t, n, s, a, p, q, f)
  BY <1>3, PlacesAre
<1>5. PICK au : IsAuthority(au, t, a, p)
  BY DEF IsAuthority
<1>6. IsParsed(r, t, s, p, q, f, au)
  BY <1>2, <1>3, <1>4, <1>5, ParsedIs
<1>7. Fits(r.uri)
  BY <1>2, <1>3, <1>4, <1>5, <1>6, ParsedFits
<1>8. QED
  BY <1>2, <1>7

-----------------------------------------------------------------------------
(* Where the components are in what is printed.                            *)

LEMMA PieceCons ==
    ASSUME NEW s, NEW c \in Byte, NEW x \in Seq(Byte), NEW i \in Nat, NEW j \in Nat, i <= Len(s),
           IsPiece(s, <<c>> \o x, i, j)
    PROVE  i < j /\ s[i + 1] = c /\ IsPiece(s, x, i + 1, j)
<1>1. PICK l \in Nat : l = Len(x)
  OBVIOUS
<1>2. PICK o \in Seq(Byte) : o = <<c>> /\ Len(o) = 1 /\ o[1] = c
  BY OneIs, Zenon
<1>3. PICK y \in Seq(Byte) : y = o \o x
  BY <1>2, TextJoins
<1>4. Len(y) = l + 1 /\ y[1] = c
  BY <1>1, <1>2, <1>3
<1>5. \A k \in 1..l : y[1 + k] = x[k]
  BY <1>1, <1>2, <1>3
<1>6. j \in i..Len(s) /\ l + 1 = j - i /\ \A k \in 1..(j - i) : s[i + k] = y[k]
  BY <1>2, <1>3, <1>4 DEF IsPiece
<1>7. i < j /\ j \in (i + 1)..Len(s) /\ l = j - (i + 1)
  BY <1>6
<1>8. s[i + 1] = c
  <2>1. 1 \in 1..(j - i)
    BY <1>7
  <2>2. QED
    BY <1>4, <1>5, <1>6, <2>1
<1>9. ASSUME NEW k \in 1..(j - (i + 1)) PROVE s[(i + 1) + k] = x[k]
  <2>1. 1 + k \in 1..(j - i) /\ k \in 1..l /\ i + (1 + k) = (i + 1) + k
    BY <1>7
  <2>2. s[i + (1 + k)] = y[1 + k] /\ y[1 + k] = x[k]
    BY <1>4, <1>5, <1>6, <2>1
  <2>3. QED
    BY <2>1, <2>2
<1>10. IsPiece(s, x, i + 1, j)
  BY <1>1, <1>7, <1>9 DEF IsPiece
<1>11. QED
  BY <1>7, <1>8, <1>10

LEMMA PieceEnds ==
    ASSUME NEW s, NEW c \in Byte, NEW x \in Seq(Byte), NEW i \in Nat, NEW j \in Nat,
           IsPiece(s, x \o <<c>>, i, j)
    PROVE  \E d \in Nat : j = d + 1 /\ i <= d /\ s[d + 1] = c /\ IsPiece(s, x, i, d)
<1>1. PICK l \in Nat : l = Len(x)
  OBVIOUS
<1>2. PICK o \in Seq(Byte) : o = <<c>> /\ Len(o) = 1 /\ o[1] = c
  BY OneIs, Zenon
<1>3. PICK y \in Seq(Byte) : y = x \o o /\ Len(y) = l + 1 /\ y[l + 1] = c /\ \A k \in 1..l : y[k] = x[k]
  <2>1. x \o o \in Seq(Byte) /\ Len(x \o o) = l + 1
    BY <1>1, <1>2
  <2>2. (x \o o)[l + 1] = c
    BY <1>1, <1>2
  <2>3. \A k \in 1..l : (x \o o)[k] = x[k]
    BY <1>1, <1>2
  <2>4. QED
    BY <2>1, <2>2, <2>3
<1>4. j \in i..Len(s) /\ l + 1 = j - i /\ \A k \in 1..(j - i) : s[i + k] = y[k]
  BY <1>2, <1>3 DEF IsPiece
<1>5. PICK d \in Nat : d = i + l
  OBVIOUS
<1>6. j = d + 1 /\ i <= d /\ d \in i..Len(s) /\ l = d - i
  BY <1>4, <1>5
<1>7. s[d + 1] = c
  <2>1. l + 1 \in 1..(j - i) /\ i + (l + 1) = d + 1
    BY <1>4, <1>5
  <2>2. QED
    BY <1>3, <1>4, <2>1
<1>8. ASSUME NEW k \in 1..(d - i) PROVE s[i + k] = x[k]
  <2>1. k \in 1..(j - i) /\ k \in 1..l
    BY <1>6
  <2>2. QED
    BY <1>3, <1>4, <2>1
<1>9. IsPiece(s, x, i, d)
  BY <1>1, <1>6, <1>8 DEF IsPiece
<1>10. QED
  BY <1>6, <1>7, <1>9

\* A text that goes on with another.
IsSized(a, m) == a \in Seq(Byte) /\ m \in Nat /\ m = Len(a)
Carries(a, y) == \A x, i, j : IsPiece(a, x, i, j) => IsPiece(y, x, i, j)

LEMMA AnotherPiece ==
    ASSUME NEW a, NEW b \in Seq(Byte), NEW m, IsSized(a, m)
    PROVE  \E n : IsSized(a \o b, n) /\ IsPiece(a \o b, b, m, n) /\ Carries(a, a \o b)
<1>1. a \in Seq(Byte) /\ m \in Nat /\ m = Len(a)
  BY DEF IsSized
<1>2. PICK n \in Nat : n = m + Len(b)
  <2>1. m + Len(b) \in Nat
    BY <1>1
  <2>2. QED
    BY <2>1
<1>3. /\ a \o b \in Seq(Byte) /\ Len(a \o b) = n /\ IsPiece(a \o b, b, m, n)
      /\ \A x, i, j : IsPiece(a, x, i, j) => IsPiece(a \o b, x, i, j)
  BY <1>1, <1>2, PieceJoins
<1>4. IsSized(a \o b, n) /\ IsPiece(a \o b, b, m, n) /\ Carries(a, a \o b)
  BY <1>3 DEF IsSized, Carries
<1>5. QED
  BY <1>4

LEMMA FirstPiece ==
    ASSUME NEW a \in Seq(Byte)
    PROVE  \E m : IsSized(a, m) /\ IsPiece(a, a, 0, m)
<1>1. PICK m \in Nat : m = Len(a)
  OBVIOUS
<1>2. IsPiece(a, a, 0, m)
  BY <1>1 DEF IsPiece
<1>3. IsSized(a, m)
  BY <1>1 DEF IsSized
<1>4. QED
  BY <1>2, <1>3

\* The pieces of a text that is joined from seven.
AreJoined(s, a, b, c, d, x, y, z) ==
    \E m, h, e, k, q, f, n :
        /\ IsPiece(s, a, 0, m) /\ IsPiece(s, b, m, h) /\ IsPiece(s, c, h, e)
        /\ IsPiece(s, d, e, k) /\ IsPiece(s, x, k, q) /\ IsPiece(s, y, q, f)
        /\ IsPiece(s, z, f, n) /\ IsSized(s, n) /\ IsSized(a, m)

LEMMA SevenPieces ==
    ASSUME NEW a \in Seq(Byte), NEW b \in Seq(Byte), NEW c \in Seq(Byte), NEW d \in Seq(Byte),
           NEW x \in Seq(Byte), NEW y \in Seq(Byte), NEW z \in Seq(Byte)
    PROVE  AreJoined(a \o b \o c \o d \o x \o y \o z, a, b, c, d, x, y, z)
<1>1. PICK s : s = a \o b \o c \o d \o x \o y \o z
  OBVIOUS
<1>2. PICK m : IsSized(a, m) /\ IsPiece(a, a, 0, m)
  BY FirstPiece, Zenon
<1>3. PICK s2 : s2 = a \o b
  OBVIOUS
<1>4. PICK h : IsSized(s2, h) /\ IsPiece(s2, b, m, h) /\ Carries(a, s2)
  BY <1>2, <1>3, AnotherPiece, Zenon
<1>5. PICK s3 : s3 = s2 \o c
  OBVIOUS
<1>6. PICK e : IsSized(s3, e) /\ IsPiece(s3, c, h, e) /\ Carries(s2, s3)
  BY <1>4, <1>5, AnotherPiece, Zenon
<1>7. PICK s4 : s4 = s3 \o d
  OBVIOUS
<1>8. PICK k : IsSized(s4, k) /\ IsPiece(s4, d, e, k) /\ Carries(s3, s4)
  BY <1>6, <1>7, AnotherPiece, Zenon
<1>9. PICK s5 : s5 = s4 \o x
  OBVIOUS
<1>10. PICK q : IsSized(s5, q) /\ IsPiece(s5, x, k, q) /\ Carries(s4, s5)
  BY <1>8, <1>9, AnotherPiece, Zenon
<1>11. PICK s6 : s6 = s5 \o y
  OBVIOUS
<1>12. PICK f : IsSized(s6, f) /\ IsPiece(s6, y, q, f) /\ Carries(s5, s6)
  BY <1>10, <1>11, AnotherPiece, Zenon
<1>13. s = s6 \o z
  BY <1>1, <1>3, <1>5, <1>7, <1>9, <1>11, Zenon
<1>14. PICK n : IsSized(s, n) /\ IsPiece(s, z, f, n) /\ Carries(s6, s)
  BY <1>12, <1>13, AnotherPiece, Zenon
<1>15. IsPiece(s, y, q, f)
  BY <1>12, <1>14, Zenon DEF Carries
<1>16. IsPiece(s, x, k, q)
  BY <1>10, <1>12, <1>14, Zenon DEF Carries
<1>17. IsPiece(s, d, e, k)
  BY <1>8, <1>10, <1>12, <1>14, Zenon DEF Carries
<1>18. IsPiece(s, c, h, e)
  BY <1>6, <1>8, <1>10, <1>12, <1>14, Zenon DEF Carries
<1>19. IsPiece(s, b, m, h)
  BY <1>4, <1>6, <1>8, <1>10, <1>12, <1>14, Zenon DEF Carries
<1>20. IsPiece(s, a, 0, m)
  BY <1>2, <1>4, <1>6, <1>8, <1>10, <1>12, <1>14, Zenon DEF Carries
<1>21. AreJoined(s, a, b, c, d, x, y, z)
  BY <1>2, <1>14, <1>15, <1>16, <1>17, <1>18, <1>19, <1>20, Zenon DEF AreJoined
<1>22. QED
  BY <1>1, <1>21

\* What is printed for a component after its mark, or before it.
UserAt(w, s, m, h) ==
    IF "userinfo" \in w.has
    THEN \E d \in Nat : h = d + 1 /\ m <= d /\ s[d + 1] = AtSign /\ IsPiece(s, w.text["userinfo"], m, d)
    ELSE h = m
AfterAt(w, s, c, mark, x, i, j) ==
    IF c \in w.has THEN i < j /\ s[i + 1] = mark /\ IsPiece(s, x, i + 1, j) ELSE j = i

\* The places of the components in the text s that w is printed as.
IsPrint(w, s, m, h, e, k, q, f, n) ==
    /\ n = Len(s) /\ m = Len(w.text["scheme"]) /\ m <= h /\ h <= e /\ e <= k /\ k <= q /\ q <= f /\ f <= n
    /\ IsPiece(s, w.text["scheme"], 0, m) /\ UserAt(w, s, m, h) /\ IsPiece(s, w.text["host"], h, e)
    /\ AfterAt(w, s, "port", Colon, Decimal(w.port), e, k) /\ IsPiece(s, Encode(w.text["path"]), k, q)
    /\ AfterAt(w, s, "query", Question, Encode(w.text["query"]), q, f)
    /\ AfterAt(w, s, "fragment", Hash, Encode(w.text["fragment"]), f, n)

LEMMA PieceNat ==
    ASSUME NEW s, NEW x, NEW i, NEW j, IsPiece(s, x, i, j), NEW n, IsSized(s, n)
    PROVE  i \in Nat /\ j \in Nat /\ i <= j /\ j <= n /\ (x = <<>> => i = j)
<1>1. i \in Nat /\ j \in i..Len(s) /\ Len(x) = j - i
  BY DEF IsPiece
<1>2. n \in Nat /\ n = Len(s)
  BY DEF IsSized
<1>3. x = <<>> => Len(x) = 0
  OBVIOUS
<1>4. QED
  BY <1>1, <1>2, <1>3

LEMMA WrittenPart ==
    ASSUME NEW w, NEW c, NEW x, NEW s, NEW i, NEW j, IsPiece(s, Part(w, c, x), i, j), c \in w.has
    PROVE  IsPiece(s, x, i, j)
<1>1. Part(w, c, x) = x
  BY DEF Part
<1>2. QED
  BY <1>1

LEMMA NoPart ==
    ASSUME NEW w, NEW c, NEW x, NEW s, NEW i, NEW j, NEW n, IsSized(s, n), IsPiece(s, Part(w, c, x), i, j),
           c \notin w.has
    PROVE  j = i
<1>1. Part(w, c, x) = <<>>
  BY DEF Part
<1>2. IsPiece(s, <<>>, i, j)
  BY <1>1
<1>3. i = j
  BY <1>2, PieceNat
<1>4. QED
  BY <1>3

LEMMA WrittenAfter ==
    ASSUME NEW w, NEW c, NEW mark \in Byte, NEW x \in Seq(Byte), NEW s, NEW i, NEW j, NEW n, IsSized(s, n),
           IsPiece(s, Part(w, c, <<mark>> \o x), i, j)
    PROVE  AfterAt(w, s, c, mark, x, i, j)
<1>1. i \in Nat /\ j \in Nat /\ i <= j /\ j <= n /\ n = Len(s)
  BY PieceNat DEF IsSized
<1>3. CASE c \in w.has
  <2>1. IsPiece(s, <<mark>> \o x, i, j)
    BY <1>3, WrittenPart, Zenon
  <2>2. i <= Len(s)
    BY <1>1
  <2>3. i < j /\ s[i + 1] = mark /\ IsPiece(s, x, i + 1, j)
    BY <1>1, <2>1, <2>2, PieceCons
  <2>4. QED
    BY <1>3, <2>3, Zenon DEF AfterAt
<1>4. CASE c \notin w.has
  <2>1. j = i
    BY <1>4, NoPart, Zenon
  <2>2. QED
    BY <1>4, <2>1 DEF AfterAt
<1>5. QED
  BY <1>3, <1>4

\* What a structure that fits holds has these types.
LEMMA FitsType ==
    ASSUME NEW w, Fits(w)
    PROVE  /\ w.port \in Nat
           /\ w.text["scheme"] \in Seq(Byte) /\ w.text["userinfo"] \in Seq(Byte)
           /\ w.text["host"] \in Seq(Byte) /\ w.text["path"] \in Seq(Byte)
           /\ w.text["query"] \in Seq(Byte) /\ w.text["fragment"] \in Seq(Byte)
           /\ "scheme" \in w.has <=> w.text["scheme"] # <<>>
           /\ "userinfo" \notin w.has => w.text["userinfo"] = <<>>
           /\ "host" \in w.has <=> w.text["host"] # <<>>
           /\ "path" \in w.has <=> w.text["path"] # <<>>
           /\ "query" \in w.has <=> w.text["query"] # <<>>
           /\ "fragment" \in w.has <=> w.text["fragment"] # <<>>
<1>1. \/ NumberedHost(w.has, w.text["host"], w.port)
      \/ PlainHost(w.has, w.text["host"], w.port, Len(w.text["scheme"]))
      \/ WholeHost(w.has, w.text["host"], w.port)
  BY Zenon DEF Fits, HostFits
<1>2. w.port \in 0..(PortLimit - 1) \/ w.port = 0
  BY <1>1, Zenon DEF NumberedHost, PlainHost, WholeHost
<1>3. w.port \in Nat
  BY <1>2
<1>4. QED
  BY <1>3, Zenon DEF Fits, SchemeFits, UserFits, HostFits, PathFits, TextFits

LEMMA PrintIs ==
    ASSUME NEW w, Fits(w), NEW s, s = UriString(w)
    PROVE  /\ s \in Seq(Byte)
           /\ \E m, h, e, k, q, f, n \in Nat : IsPrint(w, s, m, h, e, k, q, f, n)
<1>1. /\ w.port \in Nat
      /\ w.text["scheme"] \in Seq(Byte) /\ w.text["userinfo"] \in Seq(Byte)
      /\ w.text["host"] \in Seq(Byte) /\ w.text["path"] \in Seq(Byte)
      /\ w.text["query"] \in Seq(Byte) /\ w.text["fragment"] \in Seq(Byte)
      /\ "scheme" \in w.has <=> w.text["scheme"] # <<>>
      /\ "host" \in w.has <=> w.text["host"] # <<>>
      /\ "path" \in w.has <=> w.text["path"] # <<>>
  BY FitsType
<1>2. PICK x1 : x1 = w.text["scheme"]
  OBVIOUS
<1>3. PICK x2 : x2 = Part(w, "userinfo", w.text["userinfo"] \o <<AtSign>>)
  OBVIOUS
<1>4. PICK x3 : x3 = w.text["host"]
  OBVIOUS
<1>5. PICK x4 : x4 = Part(w, "port", <<Colon>> \o Decimal(w.port))
  OBVIOUS
<1>6. PICK x5 : x5 = Encode(w.text["path"])
  OBVIOUS
<1>7. PICK x6 : x6 = Part(w, "query", <<Question>> \o Encode(w.text["query"]))
  OBVIOUS
<1>8. PICK x7 : x7 = Part(w, "fragment", <<Hash>> \o Encode(w.text["fragment"]))
  OBVIOUS
<1>9. /\ Part(w, "scheme", w.text["scheme"]) = x1 /\ Part(w, "host", w.text["host"]) = x3
      /\ Part(w, "path", Encode(w.text["path"])) = x5
  BY <1>1, <1>2, <1>4, <1>6, EncodeEmpty DEF Part
<1>10. s = x1 \o x2 \o x3 \o x4 \o x5 \o x6 \o x7
  BY <1>3, <1>5, <1>7, <1>8, <1>9, Zenon DEF UriString
<1>11. Decimal(w.port) \in Seq(Byte)
  BY <1>1, PrintedPort
<1>12. Encode(w.text["path"]) \in Seq(Byte)
  BY <1>1, EncodeType
<1>13. Encode(w.text["query"]) \in Seq(Byte)
  BY <1>1, EncodeType
<1>14. Encode(w.text["fragment"]) \in Seq(Byte)
  BY <1>1, EncodeType
<1>15. ASSUME NEW c, NEW x \in Seq(Byte) PROVE Part(w, c, x) \in Seq(Byte)
  <2>1. <<>> \in Seq(Byte)
    OBVIOUS
  <2>2. QED
    BY <2>1 DEF Part
<1>16. <<AtSign>> \in Seq(Byte) /\ <<Colon>> \in Seq(Byte) /\ <<Question>> \in Seq(Byte) /\ <<Hash>> \in Seq(Byte)
  BY CharsAre
<1>17. x2 \in Seq(Byte)
  <2>1. w.text["userinfo"] \o <<AtSign>> \in Seq(Byte)
    BY <1>1, <1>16, TextJoins
  <2>2. QED
    BY <1>3, <1>15, <2>1
<1>18. x4 \in Seq(Byte)
  <2>1. <<Colon>> \o Decimal(w.port) \in Seq(Byte)
    BY <1>11, <1>16, TextJoins
  <2>2. QED
    BY <1>5, <1>15, <2>1
<1>19. x6 \in Seq(Byte)
  <2>1. <<Question>> \o Encode(w.text["query"]) \in Seq(Byte)
    BY <1>13, <1>16, TextJoins
  <2>2. QED
    BY <1>7, <1>15, <2>1
<1>20. x7 \in Seq(Byte)
  <2>1. <<Hash>> \o Encode(w.text["fragment"]) \in Seq(Byte)
    BY <1>14, <1>16, TextJoins
  <2>2. QED
    BY <1>8, <1>15, <2>1
<1>21. x1 \in Seq(Byte) /\ x3 \in Seq(Byte) /\ x5 \in Seq(Byte)
  BY <1>1, <1>2, <1>4, <1>6, <1>12
<1>22. PICK m, h, e, k, q, f, n :
               /\ IsPiece(s, x1, 0, m) /\ IsPiece(s, x2, m, h) /\ IsPiece(s, x3, h, e)
               /\ IsPiece(s, x4, e, k) /\ IsPiece(s, x5, k, q) /\ IsPiece(s, x6, q, f)
               /\ IsPiece(s, x7, f, n) /\ IsSized(s, n) /\ IsSized(x1, m)
  <2>1. AreJoined(x1 \o x2 \o x3 \o x4 \o x5 \o x6 \o x7, x1, x2, x3, x4, x5, x6, x7)
    BY <1>17, <1>18, <1>19, <1>20, <1>21, SevenPieces, Zenon
  <2>2. AreJoined(s, x1, x2, x3, x4, x5, x6, x7)
    BY <1>10, <2>1
  <2>3. QED
    BY <2>2, Zenon DEF AreJoined
<1>23. /\ m \in Nat /\ h \in Nat /\ e \in Nat /\ k \in Nat /\ q \in Nat /\ f \in Nat /\ n \in Nat
       /\ m <= h /\ h <= e /\ e <= k /\ k <= q /\ q <= f /\ f <= n
  <2>1. m \in Nat /\ h \in Nat /\ m <= h
    BY <1>22, PieceNat
  <2>2. e \in Nat /\ h <= e
    BY <1>22, PieceNat
  <2>3. k \in Nat /\ e <= k
    BY <1>22, PieceNat
  <2>4. q \in Nat /\ k <= q
    BY <1>22, PieceNat
  <2>5. f \in Nat /\ q <= f
    BY <1>22, PieceNat
  <2>6. n \in Nat /\ f <= n
    BY <1>22, PieceNat
  <2>7. QED
    BY <2>1, <2>2, <2>3, <2>4, <2>5, <2>6
<1>24. s \in Seq(Byte) /\ n = Len(s) /\ m = Len(w.text["scheme"])
  BY <1>2, <1>22 DEF IsSized
<1>25. UserAt(w, s, m, h)
  <2>1. IsPiece(s, Part(w, "userinfo", w.text["userinfo"] \o <<AtSign>>), m, h) /\ IsSized(s, n)
    BY <1>3, <1>22
  <2>2. CASE "userinfo" \in w.has
    <3>1. IsPiece(s, w.text["userinfo"] \o <<AtSign>>, m, h)
      BY <2>1, <2>2, WrittenPart, Zenon
    <3>2. PICK x : x = w.text["userinfo"]
      OBVIOUS
    <3>3. x \in Seq(Byte) /\ m \in Nat /\ h \in Nat /\ AtSign \in Byte /\ IsPiece(s, x \o <<AtSign>>, m, h)
      BY <1>1, <1>23, <3>1, <3>2, CharsAre
    <3>4. \E d \in Nat : h = d + 1 /\ m <= d /\ s[d + 1] = AtSign /\ IsPiece(s, x, m, d)
      BY <3>3, PieceEnds, Zenon
    <3>5. QED
      BY <2>2, <3>2, <3>4, Zenon DEF UserAt
  <2>3. CASE "userinfo" \notin w.has
    <3>1. h = m
      BY <2>1, <2>3, NoPart, Zenon
    <3>2. QED
      BY <2>3, <3>1, Zenon DEF UserAt
  <2>4. QED
    BY <2>2, <2>3
<1>26. AfterAt(w, s, "port", Colon, Decimal(w.port), e, k)
  BY <1>5, <1>11, <1>22, WrittenAfter, CharsAre, Zenon
<1>27. AfterAt(w, s, "query", Question, Encode(w.text["query"]), q, f)
  BY <1>7, <1>13, <1>22, WrittenAfter, CharsAre, Zenon
<1>28. AfterAt(w, s, "fragment", Hash, Encode(w.text["fragment"]), f, n)
  BY <1>8, <1>14, <1>22, WrittenAfter, CharsAre, Zenon
<1>29. /\ IsPiece(s, w.text["scheme"], 0, m) /\ IsPiece(s, w.text["host"], h, e)
       /\ IsPiece(s, Encode(w.text["path"]), k, q)
  BY <1>2, <1>4, <1>6, <1>22
<1>30. IsPrint(w, s, m, h, e, k, q, f, n)
  BY <1>23, <1>24, <1>25, <1>26, <1>27, <1>28, <1>29 DEF IsPrint
<1>31. QED
  BY <1>23, <1>24, <1>30

-----------------------------------------------------------------------------
(* The marks of what is printed.                                           *)

\* A structure that fits, and where its components are in its print.
IsLaid(w, s, m, h, e, k, q, f, n) ==
    /\ Fits(w) /\ s \in Seq(Byte) /\ IsPrint(w, s, m, h, e, k, q, f, n)
    /\ m \in Nat /\ h \in Nat /\ e \in Nat /\ k \in Nat /\ q \in Nat /\ f \in Nat /\ n \in Nat

LEMMA LaidIs ==
    ASSUME NEW w, NEW s, NEW m, NEW h, NEW e, NEW k, NEW q, NEW f, NEW n,
           IsLaid(w, s, m, h, e, k, q, f, n)
    PROVE  /\ s \in Seq(Byte) /\ m \in Nat /\ h \in Nat /\ e \in Nat /\ k \in Nat /\ q \in Nat
           /\ f \in Nat /\ n \in Nat
           /\ m <= h /\ h <= e /\ e <= k /\ k <= q /\ q <= f /\ f <= n /\ n <= Len(s)
BY DEF IsLaid, IsPrint

\* The characters of an escape.
LEMMA MarksPlain ==
    /\ {Question, Hash} \cap (Digits \cup {Percent} \cup (65..70)) = {}
    /\ {Hash} \cap (Digits \cup {Percent} \cup (65..70)) = {}
    /\ {} \cap (Digits \cup {Percent} \cup (65..70)) = {}
    /\ Marks \cap Digits = {} /\ {Colon} \cap Digits = {} /\ {AtSign} \cap Digits = {}
    /\ AtSign \notin Marks /\ Colon \notin Marks /\ Slash \in Unescaped /\ Colon # AtSign
    /\ Slash \in Marks /\ Question \in Marks /\ Hash \in Marks
    /\ Slash # Question /\ Slash # Hash /\ Question # Hash /\ Slash # Percent
    /\ Slash # 0 /\ Question # 0 /\ Hash # 0
BY DEF Question, Hash, Digits, Percent, Marks, Slash, Colon, AtSign, Unescaped, Letters

LEMMA FragmentLaid ==
    ASSUME NEW w, NEW s, NEW m, NEW h, NEW e, NEW k, NEW q, NEW f, NEW n,
           IsLaid(w, s, m, h, e, k, q, f, n)
    PROVE  /\ "fragment" \in w.has =>
                 /\ f + 1 < n /\ s[f + 1] = Hash
                 /\ IsPiece(s, Encode(w.text["fragment"]), f + 1, n)
           /\ "fragment" \notin w.has => f = n
<1>1. Fits(w) /\ AfterAt(w, s, "fragment", Hash, Encode(w.text["fragment"]), f, n)
  BY DEF IsLaid, IsPrint
<1>2. f \in Nat /\ n \in Nat
  BY LaidIs
<1>3. CASE "fragment" \in w.has
  <2>1. f < n /\ s[f + 1] = Hash /\ IsPiece(s, Encode(w.text["fragment"]), f + 1, n)
    BY <1>1, <1>3 DEF AfterAt
  <2>2. w.text["fragment"] \in Seq(Byte) /\ w.text["fragment"] # <<>>
    BY <1>1, <1>3, FitsType
  <2>3. Encode(w.text["fragment"]) \in Seq(Byte) /\ Encode(w.text["fragment"]) # <<>>
    BY <2>2, EncodeFirst, MarksPlain
  <2>4. f + 1 < n
    <3>1. f + 1 \in Nat
      BY <1>2
    <3>2. QED
      BY <1>2, <2>1, <2>3, <3>1, PieceFirst
  <2>5. QED
    BY <1>3, <2>1, <2>4
<1>4. CASE "fragment" \notin w.has
  BY <1>1, <1>4 DEF AfterAt
<1>5. QED
  BY <1>3, <1>4

LEMMA QueryLaid ==
    ASSUME NEW w, NEW s, NEW m, NEW h, NEW e, NEW k, NEW q, NEW f, NEW n,
           IsLaid(w, s, m, h, e, k, q, f, n)
    PROVE  /\ "query" \in w.has =>
                 /\ q + 2 <= f /\ s[q + 1] = Question
                 /\ IsPiece(s, Encode(w.text["query"]), q + 1, f)
           /\ "query" \notin w.has => q = f
<1>1. Fits(w) /\ AfterAt(w, s, "query", Question, Encode(w.text["query"]), q, f)
  BY DEF IsLaid, IsPrint
<1>2. q \in Nat /\ f \in Nat
  BY LaidIs
<1>3. CASE "query" \in w.has
  <2>1. q < f /\ s[q + 1] = Question /\ IsPiece(s, Encode(w.text["query"]), q + 1, f)
    BY <1>1, <1>3 DEF AfterAt
  <2>2. w.text["query"] \in Seq(Byte) /\ w.text["query"] # <<>>
    BY <1>1, <1>3, FitsType
  <2>3. Encode(w.text["query"]) \in Seq(Byte) /\ Encode(w.text["query"]) # <<>>
    BY <2>2, EncodeFirst, MarksPlain
  <2>4. q + 2 <= f
    <3>1. q + 1 \in Nat
      BY <1>2
    <3>2. q + 1 < f
      BY <1>2, <2>1, <2>3, <3>1, PieceFirst
    <3>3. QED
      BY <1>2, <3>2
  <2>5. QED
    BY <1>3, <2>1, <2>4
<1>4. CASE "query" \notin w.has
  BY <1>1, <1>4 DEF AfterAt
<1>5. QED
  BY <1>3, <1>4

LEMMA PathLaid ==
    ASSUME NEW w, NEW s, NEW m, NEW h, NEW e, NEW k, NEW q, NEW f, NEW n,
           IsLaid(w, s, m, h, e, k, q, f, n)
    PROVE  /\ IsPiece(s, Encode(w.text["path"]), k, q)
           /\ "path" \in w.has => k < q /\ s[k + 1] = Slash
           /\ "path" \notin w.has => k = q
<1>1. Fits(w) /\ IsPiece(s, Encode(w.text["path"]), k, q) /\ PathFits(w.has, w.text["path"])
  BY DEF IsLaid, IsPrint, Fits
<1>2. k \in Nat /\ q \in Nat
  BY LaidIs
<1>3. PICK x : x = w.text["path"]
  OBVIOUS
<1>4. x \in Seq(Byte) /\ ("path" \in w.has <=> x # <<>>) /\ (x # <<>> => x[1] = Slash)
  BY <1>1, <1>3 DEF PathFits
<1>5. Encode(x) \in Seq(Byte)
  BY <1>4, EncodeType
<1>6. CASE "path" \in w.has
  <2>1. x # <<>> /\ x[1] = Slash
    BY <1>4, <1>6
  <2>2. PICK c \in Byte, t \in Seq(Byte) : x[1] = c /\ Encode(x) = Encoded(c) \o Encode(t) /\ Encode(t) \in Seq(Byte)
    BY <1>4, <2>1, EncodeFirst, MarksPlain
  <2>3. c = Slash
    BY <2>1, <2>2
  <2>4. Encoded(c) = <<Slash>>
    BY <2>2, <2>3, EncodedIs, MarksPlain
  <2>5. PICK z \in Seq(Byte) : z = Encode(t)
    BY <2>2
  <2>6. <<Slash>> \o z # <<>> /\ (<<Slash>> \o z)[1] = Slash
    BY <2>5
  <2>7. Encode(x) # <<>> /\ Encode(x)[1] = Slash
    BY <2>2, <2>4, <2>5, <2>6
  <2>8. k < q /\ s[k + 1] = Encode(x)[1]
    BY <1>1, <1>2, <1>3, <1>5, <2>7, PieceFirst
  <2>9. QED
    BY <1>1, <1>6, <2>7, <2>8
<1>7. CASE "path" \notin w.has
  <2>1. Encode(x) = <<>>
    BY <1>4, <1>7, EncodeEmpty
  <2>2. k = q
    BY <1>1, <1>2, <1>3, <1>5, <2>1, PieceFirst
  <2>3. QED
    BY <1>1, <1>7, <2>2
<1>8. QED
  BY <1>6, <1>7

\* What follows the path, the query and the authority.
LEMMA MarksLaid ==
    ASSUME NEW w, NEW s, NEW m, NEW h, NEW e, NEW k, NEW q, NEW f, NEW n,
           IsLaid(w, s, m, h, e, k, q, f, n)
    PROVE  /\ f # n => s[f + 1] = Hash
           /\ q # n => s[q + 1] \in {Question, Hash}
           /\ k # n => s[k + 1] \in Marks
<1>1. q \in Nat /\ f \in Nat /\ n \in Nat
  BY LaidIs
<1>2. f # n => s[f + 1] = Hash
  <2>1. CASE "fragment" \in w.has
    BY <2>1, FragmentLaid
  <2>2. CASE "fragment" \notin w.has
    BY <2>2, FragmentLaid
  <2>3. QED
    BY <2>1, <2>2
<1>3. q # n => s[q + 1] \in {Question, Hash}
  <2>1. CASE "query" \in w.has
    BY <2>1, QueryLaid
  <2>2. CASE "query" \notin w.has
    <3>1. q = f
      BY <2>2, QueryLaid
    <3>2. QED
      BY <1>2, <3>1
  <2>3. QED
    BY <2>1, <2>2
<1>4. k # n => s[k + 1] \in Marks
  <2>1. CASE "path" \in w.has
    BY <2>1, PathLaid, MarksPlain
  <2>2. CASE "path" \notin w.has
    <3>1. k = q
      BY <2>2, PathLaid
    <3>2. QED
      BY <1>3, <3>1 DEF Marks
  <2>3. QED
    BY <2>1, <2>2
<1>5. QED
  BY <1>2, <1>3, <1>4

-----------------------------------------------------------------------------
(* The authority of what is printed.                                       *)

LEMMA NoneInNothing ==
    ASSUME NEW s, NEW i \in Nat, NEW C
    PROVE  NoneIn(s, i, i, C)
BY DEF NoneIn

LEMMA NoneInOne ==
    ASSUME NEW s, NEW i \in Nat, NEW C, s[i + 1] \notin C
    PROVE  NoneIn(s, i, i + 1, C)
BY DEF NoneIn

LEMMA DigitsNone ==
    ASSUME NEW n \in Nat, NEW C, C \cap Digits = {}
    PROVE  Decimal(n) \in Seq(Byte) /\ NoneOf(Decimal(n), C)
<1>1. Decimal(n) \in Seq(Byte) /\ \A k \in 1..Len(Decimal(n)) : Decimal(n)[k] \in Digits
  BY PrintedPort
<1>2. QED
  BY <1>1 DEF NoneOf

LEMMA PortLaid ==
    ASSUME NEW w, NEW s, NEW m, NEW h, NEW e, NEW k, NEW q, NEW f, NEW n,
           IsLaid(w, s, m, h, e, k, q, f, n)
    PROVE  /\ "port" \in w.has =>
                 e < k /\ s[e + 1] = Colon /\ IsPiece(s, Decimal(w.port), e + 1, k) /\ w.port \in Nat
           /\ "port" \notin w.has => e = k
           /\ \A C : C \cap Digits = {} /\ Colon \notin C => NoneIn(s, e, k, C)
           /\ NoneIn(s, e + 1, k, {Colon})
<1>1. Fits(w) /\ AfterAt(w, s, "port", Colon, Decimal(w.port), e, k)
  BY DEF IsLaid, IsPrint
<1>2. e \in Nat /\ k \in Nat /\ e + 1 \in Nat
  BY LaidIs
<1>3. w.port \in Nat
  BY <1>1, FitsType
<1>4. CASE "port" \in w.has
  <2>1. e < k /\ s[e + 1] = Colon /\ IsPiece(s, Decimal(w.port), e + 1, k)
    BY <1>1, <1>4 DEF AfterAt
  <2>2. ASSUME NEW C, C \cap Digits = {} PROVE NoneIn(s, e + 1, k, C)
    <3>1. Decimal(w.port) \in Seq(Byte) /\ NoneOf(Decimal(w.port), C)
      BY <1>3, <2>2, DigitsNone
    <3>2. QED
      BY <1>2, <2>1, <3>1, PieceNone, Zenon
  <2>3. ASSUME NEW C, C \cap Digits = {}, Colon \notin C PROVE NoneIn(s, e, k, C)
    <3>1. NoneIn(s, e + 1, k, C)
      BY <2>2, <2>3
    <3>2. NoneIn(s, e, e + 1, C)
      BY <1>2, <2>1, <2>3, NoneInOne
    <3>3. QED
      BY <1>2, <3>1, <3>2, NoneJoins, Zenon
  <2>4. NoneIn(s, e + 1, k, {Colon})
    BY <2>2, MarksPlain
  <2>5. QED
    BY <1>3, <1>4, <2>1, <2>3, <2>4
<1>5. CASE "port" \notin w.has
  <2>1. e = k
    BY <1>1, <1>5 DEF AfterAt
  <2>2. \A C : NoneIn(s, e, k, C) /\ NoneIn(s, e + 1, k, C)
    BY <1>2, <2>1 DEF NoneIn
  <2>3. QED
    BY <1>5, <2>1, <2>2
<1>6. QED
  BY <1>4, <1>5

LEMMA UserLaid ==
    ASSUME NEW w, NEW s, NEW m, NEW h, NEW e, NEW k, NEW q, NEW f, NEW n,
           IsLaid(w, s, m, h, e, k, q, f, n)
    PROVE  /\ "userinfo" \in w.has =>
                 \E d \in Nat : /\ h = d + 1 /\ m <= d /\ s[d + 1] = AtSign
                                /\ IsPiece(s, w.text["userinfo"], m, d) /\ NoneIn(s, m, d, {AtSign})
           /\ "userinfo" \notin w.has => h = m
           /\ NoneIn(s, m, h, Marks)
<1>1. Fits(w) /\ UserAt(w, s, m, h) /\ UserFits(w.has, w.text["userinfo"])
  BY DEF IsLaid, IsPrint, Fits
<1>2. m \in Nat /\ h \in Nat
  BY LaidIs
<1>3. PICK x : x = w.text["userinfo"]
  OBVIOUS
<1>4. x \in Seq(Byte) /\ NoneOf(x, Marks) /\ NoneOf(x, {AtSign})
  BY <1>1, <1>3 DEF UserFits
<1>5. CASE "userinfo" \in w.has
  <2>1. PICK d \in Nat : h = d + 1 /\ m <= d /\ s[d + 1] = AtSign /\ IsPiece(s, x, m, d)
    BY <1>1, <1>3, <1>5 DEF UserAt
  <2>2. IsPiece(s, x, m, d) /\ m \in Nat /\ d \in Nat /\ s[d + 1] \notin Marks
    BY <1>2, <2>1, MarksPlain
  <2>3. NoneIn(s, m, d, {AtSign})
    BY <1>4, <2>2, PieceNone, Zenon
  <2>4. NoneIn(s, m, d, Marks)
    BY <1>4, <2>2, PieceNone, Zenon
  <2>5. NoneIn(s, d, d + 1, Marks) /\ d + 1 \in Nat
    BY <2>2, NoneInOne
  <2>6. NoneIn(s, m, d + 1, Marks)
    BY <2>2, <2>4, <2>5, NoneJoins, Zenon
  <2>7. QED
    BY <1>3, <1>5, <2>1, <2>3, <2>6
<1>6. CASE "userinfo" \notin w.has
  <2>1. h = m
    BY <1>1, <1>6 DEF UserAt
  <2>2. NoneIn(s, m, h, Marks)
    BY <1>2, <2>1, NoneInNothing
  <2>3. QED
    BY <1>6, <2>1, <2>2
<1>7. QED
  BY <1>5, <1>6

LEMMA HostLaid ==
    ASSUME NEW w, NEW s, NEW m, NEW h, NEW e, NEW k, NEW q, NEW f, NEW n,
           IsLaid(w, s, m, h, e, k, q, f, n)
    PROVE  /\ IsPiece(s, w.text["host"], h, e) /\ w.text["host"] \in Seq(Byte)
           /\ TextLower(w.text["host"]) = w.text["host"]
           /\ NoneIn(s, h, e, Marks)
           /\ "userinfo" \notin w.has => NoneIn(s, h, e, {AtSign})
           /\ "host" \in w.has <=> w.text["host"] # <<>>
<1>1. HostFits(w.has, w.text["host"], w.port, Len(w.text["scheme"])) /\ IsPiece(s, w.text["host"], h, e)
  BY DEF IsLaid, IsPrint, Fits
<1>2. h \in Nat /\ e \in Nat
  BY LaidIs
<1>3. PICK x : x = w.text["host"]
  OBVIOUS
<1>4. /\ x \in Seq(Byte) /\ TextLower(x) = x /\ NoneOf(x, Marks) /\ IsPiece(s, x, h, e)
      /\ "userinfo" \notin w.has => NoneOf(x, {AtSign})
      /\ "host" \in w.has <=> x # <<>>
  BY <1>1, <1>3 DEF HostFits
<1>5. NoneIn(s, h, e, Marks)
  BY <1>2, <1>4, PieceNone, Zenon
<1>6. ASSUME "userinfo" \notin w.has PROVE NoneIn(s, h, e, {AtSign})
  <2>1. NoneOf(x, {AtSign})
    BY <1>4, <1>6
  <2>2. QED
    BY <1>2, <1>4, <2>1, PieceNone, Zenon
<1>7. QED
  BY <1>3, <1>4, <1>5, <1>6

LEMMA AuthorityLaid ==
    ASSUME NEW w, NEW s, NEW m, NEW h, NEW e, NEW k, NEW q, NEW f, NEW n,
           IsLaid(w, s, m, h, e, k, q, f, n)
    PROVE  NoneIn(s, m, k, Marks)
<1>1. m \in Nat /\ h \in Nat /\ e \in Nat /\ k \in Nat
  BY LaidIs
<1>2. NoneIn(s, m, h, Marks)
  BY UserLaid
<1>3. NoneIn(s, h, e, Marks)
  BY HostLaid
<1>4. NoneIn(s, e, k, Marks)
  BY PortLaid, MarksPlain
<1>5. NoneIn(s, m, e, Marks)
  BY <1>1, <1>2, <1>3, NoneJoins, Zenon
<1>6. QED
  BY <1>1, <1>4, <1>5, NoneJoins, Zenon

LEMMA FoundUser ==
    ASSUME NEW w, NEW s, NEW m, NEW h, NEW e, NEW k, NEW q, NEW f, NEW n,
           IsLaid(w, s, m, h, e, k, q, f, n), NEW at, IsAt(at, s, m, k)
    PROVE  /\ at.host = h
           /\ "userinfo" \in w.has => at.user # NotFound /\ Slice(s, m, at.user) = w.text["userinfo"]
           /\ "userinfo" \notin w.has => at.user = NotFound
<1>1. /\ m \in Nat /\ h \in Nat /\ e \in Nat /\ k \in Nat /\ m <= h /\ h <= e /\ e <= k
      /\ s \in Seq(Byte) /\ k <= Len(s)
  BY LaidIs
<1>2. \/ at.user = NotFound /\ at.host = m /\ \A j \in (m + 1)..k : s[j] # AtSign
      \/ /\ at.user \in m..(k - 1) /\ s[at.user + 1] = AtSign /\ at.host = at.user + 1
         /\ \A j \in (m + 1)..at.user : s[j] # AtSign
  BY DEF IsAt
<1>3. CASE "userinfo" \in w.has
  <2>1. PICK d \in Nat : /\ h = d + 1 /\ m <= d /\ s[d + 1] = AtSign
                         /\ IsPiece(s, w.text["userinfo"], m, d) /\ NoneIn(s, m, d, {AtSign})
    BY <1>3, UserLaid
  <2>2. d + 1 \in (m + 1)..k
    BY <1>1, <2>1
  <2>3. /\ at.user \in m..(k - 1) /\ s[at.user + 1] = AtSign /\ at.host = at.user + 1
        /\ \A j \in (m + 1)..at.user : s[j] # AtSign
    BY <1>2, <2>1, <2>2
  <2>4. ~(at.user < d)
    <3>1. SUFFICES ASSUME at.user < d PROVE FALSE
      OBVIOUS
    <3>2. at.user + 1 \in (m + 1)..d
      BY <1>1, <2>3, <3>1
    <3>3. QED
      BY <2>1, <2>3, <3>2 DEF NoneIn
  <2>5. ~(d < at.user)
    <3>1. SUFFICES ASSUME d < at.user PROVE FALSE
      OBVIOUS
    <3>2. d + 1 \in (m + 1)..at.user
      BY <1>1, <2>1, <2>3, <3>1
    <3>3. QED
      BY <2>1, <2>3, <3>2
  <2>6. at.user = d
    BY <1>1, <2>3, <2>4, <2>5
  <2>7. at.host = h /\ at.user # NotFound
    BY <2>1, <2>3, <2>6 DEF NotFound
  <2>8. w.text["userinfo"] \in Seq(Byte)
    BY FitsType DEF IsLaid
  <2>9. Slice(s, m, d) = w.text["userinfo"]
    BY <1>1, <2>1, <2>8, PieceIs
  <2>10. QED
    BY <1>3, <2>6, <2>7, <2>9
<1>4. CASE "userinfo" \notin w.has
  <2>1. h = m
    BY <1>4, UserLaid
  <2>2. NoneIn(s, h, e, {AtSign})
    BY <1>4, HostLaid
  <2>3. NoneIn(s, e, k, {AtSign})
    BY PortLaid, MarksPlain
  <2>4. NoneIn(s, h, k, {AtSign})
    BY <1>1, <2>2, <2>3, NoneJoins, Zenon
  <2>5. ~(at.user \in m..(k - 1) /\ s[at.user + 1] = AtSign)
    <3>1. SUFFICES ASSUME at.user \in m..(k - 1), s[at.user + 1] = AtSign PROVE FALSE
      OBVIOUS
    <3>2. at.user + 1 \in (h + 1)..k
      BY <1>1, <2>1, <3>1
    <3>3. QED
      BY <2>4, <3>1, <3>2 DEF NoneIn
  <2>6. at.user = NotFound /\ at.host = m
    BY <1>2, <2>5
  <2>7. QED
    BY <1>4, <2>1, <2>6
<1>5. QED
  BY <1>3, <1>4

\* The last colon, when it is not where the host starts, is that of the port.
LEMMA LastColon ==
    ASSUME NEW s, NEW a, NEW h \in Nat, NEW g \in Nat, NEW k \in Nat, h < g, g < k, s[g + 1] = Colon,
           NoneIn(s, g + 1, k, {Colon}), NEW at, IsAt(at, s, a, k), at.host = h
    PROVE  at.port = g
<1>1. \/ /\ at.port \in h..(k - 1) /\ s[at.port + 1] = Colon
         /\ \A j \in (at.port + 2)..k : s[j] # Colon
      \/ \A j \in (h + 1)..k : s[j] # Colon
      \/ \A j \in (h + 2)..k : s[j] # Colon
  BY DEF IsAt
<1>2. g + 1 \in (h + 1)..k /\ g + 1 \in (h + 2)..k
  OBVIOUS
<1>3. /\ at.port \in h..(k - 1) /\ s[at.port + 1] = Colon
      /\ \A j \in (at.port + 2)..k : s[j] # Colon
  BY <1>1, <1>2
<1>4. ~(at.port < g)
  <2>1. SUFFICES ASSUME at.port < g PROVE FALSE
    OBVIOUS
  <2>2. g + 1 \in (at.port + 2)..k
    BY <1>3, <2>1
  <2>3. QED
    BY <1>3, <2>2
<1>5. ~(g < at.port)
  <2>1. SUFFICES ASSUME g < at.port PROVE FALSE
    OBVIOUS
  <2>2. at.port + 1 \in ((g + 1) + 1)..k
    BY <1>3, <2>1
  <2>3. QED
    BY <1>3, <2>2 DEF NoneIn
<1>6. QED
  BY <1>3, <1>4, <1>5

\* The authority au has the user info, the host and the port of w.
IsBack(au, w) ==
    /\ "userinfo" \in au.has <=> "userinfo" \in w.has
    /\ "host" \in au.has <=> "host" \in w.has
    /\ "port" \in au.has <=> "port" \in w.has
    /\ au.port = w.port /\ PartOf(au, "userinfo") = w.text["userinfo"]
    /\ PartOf(au, "host") = w.text["host"]

LEMMA NumberedBack ==
    ASSUME NEW w, NEW s, NEW m, NEW h, NEW e, NEW k, NEW q, NEW f, NEW n,
           IsLaid(w, s, m, h, e, k, q, f, n), NumberedHost(w.has, w.text["host"], w.port),
           NEW at, IsAt(at, s, m, k), NEW host, host = HostText(s, at, k),
           NEW number, number = PortAt(s, at, k, host)
    PROVE  host = w.text["host"] /\ host # <<>> /\ number = w.port /\ IsPort(number)
<1>1. /\ m \in Nat /\ h \in Nat /\ e \in Nat /\ k \in Nat /\ m <= h /\ h <= e /\ e <= k
      /\ s \in Seq(Byte) /\ k <= Len(s)
  BY LaidIs
<1>2. PICK x : x = w.text["host"]
  OBVIOUS
<1>3. /\ x \in Seq(Byte) /\ TextLower(x) = x /\ IsPiece(s, x, h, e) /\ x # <<>> /\ IsTrim(x)
      /\ "port" \in w.has /\ w.port \in 0..(PortLimit - 1)
  BY <1>2, HostLaid DEF NumberedHost
<1>4. h < e
  BY <1>1, <1>3, PieceFirst
<1>5. e < k /\ s[e + 1] = Colon /\ IsPiece(s, Decimal(w.port), e + 1, k) /\ w.port \in Nat
  BY <1>3, PortLaid
<1>6. NoneIn(s, e + 1, k, {Colon})
  BY PortLaid
<1>7. at.host = h
  BY FoundUser
<1>8. at.port = e
  BY <1>1, <1>4, <1>5, <1>6, <1>7, LastColon
<1>9. e # NotFound
  BY <1>1 DEF NotFound
<1>10. Slice(s, h, e) = x
  BY <1>1, <1>3, PieceIs
<1>11. host = Trimmed(TextLower(x))
  BY <1>7, <1>8, <1>9, <1>10 DEF HostText, Trimmed
<1>12. host = x
  BY <1>3, <1>11, TrimKeeps
<1>13. Slice(s, e + 1, k) = Decimal(w.port)
  <2>1. e + 1 \in Nat
    BY <1>1
  <2>2. Decimal(w.port) \in Seq(Byte)
    BY <1>5, PrintedPort
  <2>3. QED
    BY <1>1, <1>5, <2>1, <2>2, PieceIs
<1>14. number = PortNumber(TrimmedStart(Decimal(w.port), Spaces))
  BY <1>3, <1>8, <1>9, <1>12, <1>13 DEF PortAt
<1>15. number = w.port
  <2>1. w.port < PortLimit
    BY <1>3, UriAssumption
  <2>2. QED
    BY <1>5, <1>14, <2>1, PrintedPort
<1>16. QED
  BY <1>2, <1>3, <1>12, <1>15 DEF IsPort

LEMMA PlainBack ==
    ASSUME NEW w, NEW s, NEW m, NEW h, NEW e, NEW k, NEW q, NEW f, NEW n,
           IsLaid(w, s, m, h, e, k, q, f, n),
           PlainHost(w.has, w.text["host"], w.port, Len(w.text["scheme"])),
           NEW at, IsAt(at, s, m, k), NEW host, host = HostText(s, at, k),
           NEW number, number = PortAt(s, at, k, host)
    PROVE  host = w.text["host"] /\ at.port = NotFound /\ ~IsPort(number)
<1>1. /\ m \in Nat /\ h \in Nat /\ e \in Nat /\ k \in Nat /\ m <= h /\ h <= e /\ e <= k
      /\ s \in Seq(Byte) /\ k <= Len(s)
  BY LaidIs
<1>2. PICK x : x = w.text["host"]
  OBVIOUS
<1>3. /\ x \in Seq(Byte) /\ TextLower(x) = x /\ IsPiece(s, x, h, e) /\ IsTrim(x)
      /\ "port" \notin w.has /\ OneColon(x)
  BY <1>2, HostLaid DEF PlainHost
<1>4. StartsColon(x) => "userinfo" \in w.has \/ m = 0
  BY <1>2 DEF PlainHost, IsLaid, IsPrint
<1>5. e = k
  BY <1>3, PortLaid
<1>6. at.host = h
  BY FoundUser
<1>7. Len(x) = k - h /\ \A j \in 1..(k - h) : s[h + j] = x[j]
  BY <1>3, <1>5 DEF IsPiece
<1>8. at.port = NotFound
  <2>1. SUFFICES ASSUME at.port # NotFound PROVE FALSE
    OBVIOUS
  <2>2. PICK g : g = at.port
    OBVIOUS
  <2>3. g \in h..(k - 1) /\ s[g + 1] = Colon /\ g # 0 /\ (at.user = NotFound \/ g # h)
    BY <1>6, <2>1, <2>2 DEF IsAt
  <2>4. CASE g = h
    <3>1. 1 \in 1..(k - h) /\ x[1] = Colon
      BY <1>1, <1>7, <2>3, <2>4
    <3>2. StartsColon(x)
      BY <1>3, <1>7, <3>1 DEF StartsColon
    <3>3. "userinfo" \notin w.has
      BY <2>3, <2>4, FoundUser
    <3>4. h = m
      BY <3>3, UserLaid
    <3>5. QED
      BY <1>4, <2>3, <2>4, <3>2, <3>3, <3>4
  <2>5. CASE g # h
    <3>1. (g - h) + 1 \in 2..(k - h) /\ h + ((g - h) + 1) = g + 1 /\ (g - h) + 1 \in 1..(k - h)
      BY <1>1, <2>3, <2>5
    <3>2. s[g + 1] = x[(g - h) + 1]
      BY <1>7, <3>1
    <3>3. x[(g - h) + 1] # Colon
      BY <1>3, <1>7, <3>1 DEF OneColon
    <3>4. QED
      BY <2>3, <3>2, <3>3
  <2>6. QED
    BY <2>4, <2>5
<1>9. Slice(s, h, k) = x
  BY <1>1, <1>3, <1>5, PieceIs
<1>10. host = Trimmed(TextLower(x))
  BY <1>6, <1>8, <1>9 DEF HostText, Trimmed
<1>11. host = x
  BY <1>3, <1>10, TrimKeeps
<1>12. number = NotFound
  BY <1>8 DEF PortAt
<1>13. ~IsPort(number)
  BY <1>12, UriAssumption DEF IsPort, NotFound
<1>14. QED
  BY <1>2, <1>8, <1>11, <1>13

LEMMA WholeBack ==
    ASSUME NEW w, NEW s, NEW m, NEW h, NEW e, NEW k, NEW q, NEW f, NEW n,
           IsLaid(w, s, m, h, e, k, q, f, n), WholeHost(w.has, w.text["host"], w.port),
           NEW at, IsAt(at, s, m, k), NEW host, host = HostText(s, at, k),
           NEW number, number = PortAt(s, at, k, host)
    PROVE  /\ host # <<>> /\ at.port # NotFound /\ ~IsPort(number)
           /\ TextLower(Slice(s, at.host, k)) = w.text["host"]
<1>1. /\ m \in Nat /\ h \in Nat /\ e \in Nat /\ k \in Nat /\ m <= h /\ h <= e /\ e <= k
      /\ s \in Seq(Byte) /\ k <= Len(s)
  BY LaidIs
<1>2. PICK x : x = w.text["host"]
  OBVIOUS
<1>3. /\ x \in Seq(Byte) /\ TextLower(x) = x /\ IsPiece(s, x, h, e)
      /\ "port" \notin w.has /\ IsWhole(x)
  BY <1>2, HostLaid DEF WholeHost
<1>4. e = k
  BY <1>3, PortLaid
<1>5. at.host = h
  BY FoundUser
<1>6. PICK l \in Nat : l = Len(x)
  BY <1>3
<1>7. l = k - h /\ \A j \in 1..(k - h) : s[h + j] = x[j]
  BY <1>3, <1>4, <1>6 DEF IsPiece
<1>8. PICK d \in 1..l :
          /\ d < l /\ x[d + 1] = Colon /\ \A j \in (d + 2)..l : x[j] # Colon
          /\ Trimmed(Cut(x, 0, d)) # <<>>
          /\ PortNumber(TrimmedStart(Cut(x, d + 1, l), Spaces)) \notin 0..(PortLimit - 1)
  BY <1>3, <1>6 DEF IsWhole
<1>9. PICK g \in Nat : g = h + d
  BY <1>1, <1>8
<1>10. h < g /\ g < k /\ d = g - h /\ h <= g /\ g <= k /\ l = k - h /\ d \in Nat /\ d + 1 \in Nat
  BY <1>1, <1>7, <1>8, <1>9
<1>11. s[g + 1] = Colon
  <2>1. d + 1 \in 1..(k - h) /\ h + (d + 1) = g + 1
    BY <1>1, <1>10
  <2>2. QED
    BY <1>7, <1>8, <2>1
<1>12. NoneIn(s, g + 1, k, {Colon})
  <2>1. SUFFICES ASSUME NEW j \in ((g + 1) + 1)..k PROVE s[j] # Colon
    BY DEF NoneIn
  <2>2. j - h \in (d + 2)..l /\ j - h \in 1..(k - h) /\ h + (j - h) = j
    BY <1>1, <1>10
  <2>3. s[j] = x[j - h]
    BY <1>7, <2>2
  <2>4. QED
    BY <1>8, <2>2, <2>3
<1>13. at.port = g /\ g # NotFound
  <2>1. g # NotFound
    BY DEF NotFound
  <2>2. h \in Nat /\ k \in Nat /\ h < g /\ g < k
    BY <1>1, <1>10
  <2>3. at.port = g
    BY <1>5, <1>11, <1>12, <2>2, LastColon
  <2>4. QED
    BY <2>1, <2>3
<1>14. Cut(s, h, k) = x /\ Slice(s, h, k) = x
  BY <1>1, <1>3, <1>4, PieceIs
<1>15. host = Trimmed(Cut(x, 0, d)) /\ host # <<>>
  <2>1. Slice(s, h, g) = Cut(s, h, g)
    BY <1>1, <1>10, TextCut
  <2>2. Cut(Cut(s, h, k), 0, d) = Cut(s, h + 0, h + d)
    <3>1. 0 \in Nat /\ 0 <= d /\ d <= k - h /\ h <= k
      BY <1>1, <1>10
    <3>2. QED
      BY <1>1, <3>1, CutInCut
  <2>3. Slice(s, h, g) = Cut(x, 0, d)
    BY <1>1, <1>9, <1>14, <2>1, <2>2
  <2>4. TextLower(Cut(x, 0, d)) = Cut(TextLower(x), 0, d)
    <3>1. 0 \in Nat /\ d \in Nat /\ 0 <= d /\ d <= Len(x)
      BY <1>1, <1>6, <1>10
    <3>2. QED
      BY <1>3, <3>1, LowerCut, Zenon
  <2>5. host = Trimmed(TextLower(Slice(s, h, g)))
    BY <1>5, <1>13 DEF HostText, Trimmed
  <2>6. QED
    BY <1>3, <1>8, <2>3, <2>4, <2>5
<1>16. number = PortNumber(TrimmedStart(Cut(x, d + 1, l), Spaces))
  <2>1. g + 1 \in Nat /\ g + 1 <= k
    BY <1>1, <1>10
  <2>2. Slice(s, g + 1, k) = Cut(s, g + 1, k)
    BY <1>1, <2>1, TextCut
  <2>3. Cut(Cut(s, h, k), d + 1, l) = Cut(s, h + (d + 1), h + l)
    <3>1. PICK i \in Nat : i = d + 1
      BY <1>10
    <3>2. i <= l /\ l <= k - h /\ h <= k
      BY <1>1, <1>10, <3>1
    <3>3. Cut(Cut(s, h, k), i, l) = Cut(s, h + i, h + l)
      BY <1>1, <3>2, CutInCut
    <3>4. QED
      BY <3>1, <3>3
  <2>4. h + (d + 1) = g + 1 /\ h + l = k
    BY <1>1, <1>10
  <2>5. Slice(s, g + 1, k) = Cut(x, d + 1, l)
    BY <1>14, <2>2, <2>3, <2>4
  <2>6. QED
    BY <1>13, <1>15, <2>5 DEF PortAt
<1>17. ~IsPort(number)
  BY <1>8, <1>16 DEF IsPort
<1>18. TextLower(Slice(s, at.host, k)) = x
  BY <1>3, <1>5, <1>14
<1>19. QED
  BY <1>2, <1>13, <1>15, <1>17, <1>18

LEMMA HostBack ==
    ASSUME NEW w, NEW s, NEW m, NEW h, NEW e, NEW k, NEW q, NEW f, NEW n,
           IsLaid(w, s, m, h, e, k, q, f, n),
           NEW au, NEW at, NEW host, NEW number, IsFound(au, s, m, k, at, host, number)
    PROVE  IsBack(au, w)
<1>1. /\ IsAt(at, s, m, k) /\ host = HostText(s, at, k) /\ number = PortAt(s, at, k, host)
      /\ "userinfo" \in au.has <=> at.user # NotFound
      /\ "host" \in au.has <=> host # <<>>
      /\ "port" \in au.has <=> IsPort(number)
      /\ au.port = IF IsPort(number) THEN number ELSE 0
      /\ PartOf(au, "userinfo") = IF at.user = NotFound THEN <<>> ELSE Slice(s, m, at.user)
      /\ PartOf(au, "host") = IF host # <<>> /\ at.port # NotFound /\ ~IsPort(number)
                              THEN TextLower(Slice(s, at.host, k)) ELSE host
  BY DEF IsFound
<1>2. /\ "userinfo" \in w.has => at.user # NotFound /\ Slice(s, m, at.user) = w.text["userinfo"]
      /\ "userinfo" \notin w.has => at.user = NotFound
  BY <1>1, FoundUser
<1>3. "userinfo" \notin w.has => w.text["userinfo"] = <<>>
  BY FitsType DEF IsLaid
<1>4. /\ "userinfo" \in au.has <=> "userinfo" \in w.has
      /\ PartOf(au, "userinfo") = w.text["userinfo"]
  BY <1>1, <1>2, <1>3
<1>5. "host" \in w.has <=> w.text["host"] # <<>>
  BY HostLaid
<1>6. \/ NumberedHost(w.has, w.text["host"], w.port)
      \/ PlainHost(w.has, w.text["host"], w.port, Len(w.text["scheme"]))
      \/ WholeHost(w.has, w.text["host"], w.port)
  BY DEF IsLaid, Fits, HostFits
<1>7. /\ "host" \in au.has <=> "host" \in w.has
      /\ "port" \in au.has <=> "port" \in w.has
      /\ au.port = w.port /\ PartOf(au, "host") = w.text["host"]
  <2>1. CASE NumberedHost(w.has, w.text["host"], w.port)
    <3>1. host = w.text["host"] /\ host # <<>> /\ number = w.port /\ IsPort(number)
      BY <1>1, <2>1, NumberedBack
    <3>2. "port" \in w.has
      BY <2>1 DEF NumberedHost
    <3>3. QED
      BY <1>1, <1>5, <3>1, <3>2
  <2>2. CASE PlainHost(w.has, w.text["host"], w.port, Len(w.text["scheme"]))
    <3>1. host = w.text["host"] /\ at.port = NotFound /\ ~IsPort(number)
      BY <1>1, <2>2, PlainBack
    <3>2. "port" \notin w.has /\ w.port = 0
      BY <2>2 DEF PlainHost
    <3>3. QED
      BY <1>1, <1>5, <3>1, <3>2
  <2>3. CASE WholeHost(w.has, w.text["host"], w.port)
    <3>1. /\ host # <<>> /\ at.port # NotFound /\ ~IsPort(number)
          /\ TextLower(Slice(s, at.host, k)) = w.text["host"]
      BY <1>1, <2>3, WholeBack
    <3>2. "port" \notin w.has /\ w.port = 0 /\ w.text["host"] # <<>>
      BY <2>3 DEF WholeHost
    <3>3. QED
      BY <1>1, <1>5, <3>1, <3>2
  <2>4. QED
    BY <1>6, <2>1, <2>2, <2>3
<1>8. QED
  BY <1>4, <1>7 DEF IsBack

-----------------------------------------------------------------------------
(* What is printed is parsed again.                                        *)

LEMMA LaidLen ==
    ASSUME NEW w, NEW s, NEW m, NEW h, NEW e, NEW k, NEW q, NEW f, NEW n,
           IsLaid(w, s, m, h, e, k, q, f, n)
    PROVE  n = Len(s) /\ m = Len(w.text["scheme"]) /\ IsPiece(s, w.text["scheme"], 0, m)
BY DEF IsLaid, IsPrint

\* An authority that is not printed is none.
LEMMA NoneLaid ==
    ASSUME NEW w, NEW s, NEW m, NEW h, NEW e, NEW k, NEW q, NEW f, NEW n,
           IsLaid(w, s, m, h, e, k, q, f, n), m = k
    PROVE  /\ "userinfo" \notin w.has /\ "host" \notin w.has /\ "port" \notin w.has
           /\ w.text["userinfo"] = <<>> /\ w.text["host"] = <<>> /\ w.port = 0
<1>1. /\ m \in Nat /\ h \in Nat /\ e \in Nat /\ k \in Nat /\ m <= h /\ h <= e /\ e <= k
      /\ s \in Seq(Byte) /\ k <= Len(s)
  BY LaidIs
<1>2. m = h /\ h = e /\ e = k
  BY <1>1
<1>3. "userinfo" \notin w.has
  <2>1. SUFFICES ASSUME "userinfo" \in w.has PROVE FALSE
    OBVIOUS
  <2>2. PICK d \in Nat : h = d + 1 /\ m <= d
    BY <2>1, UserLaid
  <2>3. QED
    BY <1>1, <1>2, <2>2
<1>4. w.text["userinfo"] = <<>>
  BY <1>3, FitsType DEF IsLaid
<1>5. w.text["host"] = <<>>
  <2>1. IsPiece(s, w.text["host"], h, e) /\ w.text["host"] \in Seq(Byte)
    BY HostLaid
  <2>2. QED
    BY <1>1, <1>2, <2>1, PieceFirst
<1>6. "host" \notin w.has
  BY <1>5, HostLaid
<1>7. "port" \notin w.has
  <2>1. "port" \in w.has => e < k
    BY PortLaid
  <2>2. QED
    BY <1>1, <1>2, <2>1
<1>8. w.port = 0
  <2>1. \/ NumberedHost(w.has, w.text["host"], w.port)
        \/ PlainHost(w.has, w.text["host"], w.port, Len(w.text["scheme"]))
        \/ WholeHost(w.has, w.text["host"], w.port)
    BY DEF IsLaid, Fits, HostFits
  <2>2. QED
    BY <1>7, <2>1, Zenon DEF NumberedHost, PlainHost, WholeHost
<1>9. QED
  BY <1>3, <1>4, <1>5, <1>6, <1>7, <1>8

\* The path is not taken for an authority.
LEMMA NoSlashes ==
    ASSUME NEW w, NEW s, NEW m, NEW h, NEW e, NEW k, NEW q, NEW f, NEW n,
           IsLaid(w, s, m, h, e, k, q, f, n),
           ~(w.has \cap {"userinfo", "host"} = {} /\ DoubleSlash(w.text["path"], 0))
    PROVE  ~DoubleSlash(s, m)
<1>1. /\ m \in Nat /\ k \in Nat /\ q \in Nat /\ n \in Nat /\ m <= k /\ k <= q /\ q <= n
      /\ s \in Seq(Byte) /\ n = Len(s)
  BY LaidIs, LaidLen
<1>2. SUFFICES ASSUME DoubleSlash(s, m) PROVE FALSE
  OBVIOUS
<1>3. m + 2 <= n /\ s[m + 1] = Slash /\ s[m + 2] = Slash
  BY <1>1, <1>2 DEF DoubleSlash
<1>4. m = k
  <2>1. SUFFICES ASSUME m # k PROVE FALSE
    OBVIOUS
  <2>2. m + 1 \in (m + 1)..k
    BY <1>1, <2>1
  <2>3. NoneIn(s, m, k, Marks)
    BY AuthorityLaid
  <2>4. QED
    BY <1>3, <2>2, <2>3, MarksPlain DEF NoneIn
<1>5. ~DoubleSlash(w.text["path"], 0)
  <2>1. "userinfo" \notin w.has /\ "host" \notin w.has
    BY <1>4, NoneLaid
  <2>2. w.has \cap {"userinfo", "host"} = {}
    BY <2>1
  <2>3. QED
    BY <2>2
<1>6. q # n => s[q + 1] # Slash
  BY MarksLaid, MarksPlain
<1>7. CASE "path" \notin w.has
  <2>1. k = q
    BY <1>7, PathLaid
  <2>2. QED
    BY <1>1, <1>3, <1>4, <1>6, <2>1
<1>8. CASE "path" \in w.has
  <2>1. PICK x : x = w.text["path"]
    OBVIOUS
  <2>2. x \in Seq(Byte) /\ x # <<>> /\ x[1] = Slash
    BY <1>8, <2>1 DEF IsLaid, Fits, PathFits
  <2>3. PICK c \in Byte, t \in Seq(Byte) :
            /\ x = <<c>> \o t /\ x[1] = c /\ Encode(x) = Encoded(c) \o Encode(t) /\ Encode(t) \in Seq(Byte)
    BY <2>2, EncodeFirst, MarksPlain
  <2>4. Encoded(c) = <<Slash>>
    BY <2>2, <2>3, EncodedIs, MarksPlain
  <2>5. PICK z \in Seq(Byte) : z = Encode(t)
    BY <2>3
  <2>6. IsPiece(s, Encode(x), k, q)
    BY <2>1, PathLaid
  <2>7. IsPiece(s, <<Slash>> \o z, k, q)
    BY <2>3, <2>4, <2>5, <2>6
  <2>8. IsPiece(s, z, k + 1, q) /\ k < q
    <3>1. k <= Len(s) /\ Slash \in Byte
      BY <1>1, CharsAre
    <3>2. QED
      BY <1>1, <2>7, <3>1, PieceCons
  <2>9. k + 1 \in Nat /\ (k + 1) + 1 = m + 2
    BY <1>1, <1>4
  <2>10. CASE t = <<>>
    <3>1. z = <<>>
      BY <2>5, <2>10, EncodeEmpty
    <3>2. k + 1 = q
      BY <1>1, <2>8, <2>9, <3>1, PieceFirst
    <3>3. QED
      BY <1>1, <1>3, <1>4, <1>6, <3>2
  <2>11. CASE t # <<>>
    <3>1. z # <<>> /\ (z[1] = t[1] \/ z[1] = Percent)
      BY <2>3, <2>5, <2>11, EncodeFirst, MarksPlain
    <3>2. s[m + 2] = z[1]
      BY <1>1, <2>8, <2>9, <3>1, PieceFirst
    <3>3. t[1] = Slash
      BY <1>3, <3>1, <3>2, MarksPlain
    <3>4. 2 <= Len(x) /\ x[2] = t[1]
      BY <2>3, <2>11
    <3>5. DoubleSlash(x, 0)
      BY <2>2, <3>3, <3>4 DEF DoubleSlash
    <3>6. QED
      BY <1>5, <2>1, <3>5
  <2>12. QED
    BY <2>10, <2>11
<1>9. QED
  BY <1>7, <1>8

LEMMA PathBack ==
    ASSUME NEW w, NEW s, NEW m, NEW h, NEW e, NEW k, NEW q, NEW f, NEW n,
           IsLaid(w, s, m, h, e, k, q, f, n), NoneOf(w.text["path"], {Question, Hash})
    PROVE  PathStart(s, m) = k /\ PathEnd(s, k) = q
<1>1. /\ m \in Nat /\ k \in Nat /\ q \in Nat /\ n \in Nat /\ m <= k /\ k <= q /\ q <= n
      /\ s \in Seq(Byte) /\ n = Len(s)
  BY LaidIs, LaidLen
<1>2. /\ k # n => s[k + 1] \in Marks
      /\ q # n => s[q + 1] \in {Question, Hash}
  BY MarksLaid
<1>3. PathStart(s, m) = k
  <2>1. NoneIn(s, m, k, Marks)
    BY AuthorityLaid
  <2>2. IsEndAt(k, s, n, Marks, m)
    BY <1>1, <1>2, <2>1 DEF IsEndAt, NoneIn
  <2>3. m \in 0..n
    BY <1>1
  <2>4. EndAt(s, <<Slash, Question, Hash>>, m) = k
    BY <1>1, <2>2, <2>3, EndAtMeets, MarksAre
  <2>5. QED
    BY <2>4 DEF PathStart
<1>4. CASE "path" \in w.has
  <2>1. k < q /\ s[k + 1] = Slash
    BY <1>4, PathLaid
  <2>2. CharAt(s, k) = Slash
    BY <1>1, <2>1, CharAtIs
  <2>3. PICK x \in Seq(Byte) : x = Encode(w.text["path"]) /\ NoneOf(x, {Question, Hash})
    <3>1. w.text["path"] \in Seq(Byte)
      BY FitsType DEF IsLaid
    <3>2. QED
      BY <3>1, EncodeNone, EncodeType, MarksPlain
  <2>4. NoneIn(s, k, q, {Question, Hash})
    <3>1. IsPiece(s, x, k, q)
      BY <2>3, PathLaid
    <3>2. QED
      BY <1>1, <2>3, <3>1, PieceNone
  <2>5. IsEndAt(q, s, n, {Question, Hash}, k + 1)
    <3>1. q \in (k + 1)..n
      BY <1>1, <2>1
    <3>2. \A j \in ((k + 1) + 1)..q : s[j] \notin {Question, Hash}
      BY <1>1, <2>4 DEF NoneIn
    <3>3. QED
      BY <1>2, <3>1, <3>2 DEF IsEndAt
  <2>6. k + 1 \in 0..n
    BY <1>1, <2>1
  <2>7. EndAt(s, <<Question, Hash>>, k + 1) = q
    BY <1>1, <2>5, <2>6, EndAtMeets, MarksAre
  <2>8. QED
    BY <1>3, <2>2, <2>7 DEF PathEnd
<1>5. CASE "path" \notin w.has
  <2>1. k = q
    BY <1>5, PathLaid
  <2>2. CharAt(s, k) # Slash
    <3>1. CASE k = n
      BY <1>1, <3>1, CharAtIs, MarksPlain
    <3>2. CASE k # n
      <4>1. s[k + 1] # Slash /\ k < n
        BY <1>1, <1>2, <2>1, <3>2, MarksPlain
      <4>2. QED
        BY <1>1, <4>1, CharAtIs
    <3>3. QED
      BY <3>1, <3>2
  <2>3. QED
    BY <1>3, <2>1, <2>2 DEF PathEnd
<1>6. QED
  BY <1>4, <1>5

LEMMA QueryBack ==
    ASSUME NEW w, NEW s, NEW m, NEW h, NEW e, NEW k, NEW q, NEW f, NEW n,
           IsLaid(w, s, m, h, e, k, q, f, n),
           \A j \in 2..Len(w.text["query"]) : w.text["query"][j] \notin {Hash}
    PROVE  QueryEnd(s, q) = f /\ (IsQuery(s, q) <=> "query" \in w.has)
<1>1. /\ q \in Nat /\ f \in Nat /\ n \in Nat /\ q <= f /\ f <= n
      /\ s \in Seq(Byte) /\ n = Len(s)
  BY LaidIs, LaidLen
<1>2. f # n => s[f + 1] = Hash
  BY MarksLaid
<1>3. CASE "query" \in w.has
  <2>1. q + 2 <= f /\ s[q + 1] = Question /\ IsPiece(s, Encode(w.text["query"]), q + 1, f)
    BY <1>3, QueryLaid
  <2>2. CharAt(s, q) = Question
    <3>1. q < n
      BY <1>1, <2>1
    <3>2. QED
      BY <1>1, <2>1, <3>1, CharAtIs
  <2>3. PICK x \in Seq(Byte) : x = Encode(w.text["query"]) /\ \A j \in 2..Len(x) : x[j] \notin {Hash}
    <3>1. w.text["query"] \in Seq(Byte) /\ w.text["query"] # <<>>
      BY <1>3, FitsType DEF IsLaid
    <3>2. QED
      BY <3>1, EncodeFirst, MarksPlain
  <2>4. Len(x) = f - (q + 1) /\ \A j \in 1..(f - (q + 1)) : s[(q + 1) + j] = x[j]
    BY <2>1, <2>3 DEF IsPiece
  <2>5. ASSUME NEW j \in ((q + 2) + 1)..f PROVE s[j] \notin {Hash}
    <3>1. PICK i \in Nat : i = j - (q + 1) /\ i \in 2..(f - (q + 1)) /\ i \in 1..(f - (q + 1)) /\ (q + 1) + i = j
      BY <1>1
    <3>2. s[j] = x[i]
      BY <2>4, <3>1
    <3>3. x[i] \notin {Hash}
      BY <2>3, <2>4, <3>1
    <3>4. QED
      BY <3>2, <3>3
  <2>6. IsEndAt(f, s, n, {Hash}, q + 2)
    <3>1. f \in (q + 2)..n
      BY <1>1, <2>1
    <3>2. QED
      BY <1>2, <2>5, <3>1 DEF IsEndAt
  <2>7. q + 2 \in 0..n /\ ~(q + 2 > Len(s))
    BY <1>1, <2>1
  <2>8. EndAt(s, <<Hash>>, q + 2) = f
    BY <1>1, <2>6, <2>7, EndAtMeets, MarksAre
  <2>9. QED
    BY <1>3, <2>2, <2>7, <2>8 DEF QueryEnd, IsQuery
<1>4. CASE "query" \notin w.has
  <2>1. q = f
    BY <1>4, QueryLaid
  <2>2. CharAt(s, q) # Question
    <3>1. CASE q = n
      BY <1>1, <3>1, CharAtIs, MarksPlain
    <3>2. CASE q # n
      <4>1. s[q + 1] # Question /\ q < n
        BY <1>1, <1>2, <2>1, <3>2, MarksPlain
      <4>2. QED
        BY <1>1, <4>1, CharAtIs
    <3>3. QED
      BY <3>1, <3>2
  <2>3. QED
    BY <1>4, <2>1, <2>2 DEF QueryEnd, IsQuery
<1>5. QED
  BY <1>3, <1>4

LEMMA FragmentBack ==
    ASSUME NEW w, NEW s, NEW m, NEW h, NEW e, NEW k, NEW q, NEW f, NEW n,
           IsLaid(w, s, m, h, e, k, q, f, n)
    PROVE  IsFragment(s, f) <=> "fragment" \in w.has
<1>1. f \in Nat /\ n \in Nat /\ f <= n /\ s \in Seq(Byte) /\ n = Len(s)
  BY LaidIs, LaidLen
<1>2. CASE "fragment" \in w.has
  <2>1. f + 1 < n /\ s[f + 1] = Hash /\ f < n
    BY <1>1, <1>2, FragmentLaid
  <2>2. CharAt(s, f) = Hash
    BY <1>1, <2>1, CharAtIs
  <2>3. QED
    BY <1>1, <1>2, <2>1, <2>2 DEF IsFragment
<1>3. CASE "fragment" \notin w.has
  <2>1. f = n
    BY <1>3, FragmentLaid
  <2>2. QED
    BY <1>1, <1>3, <2>1 DEF IsFragment
<1>4. QED
  BY <1>2, <1>3

\* A structure that has the components of w, whatever its authority is.
IsSame(x, w) ==
    /\ x.has \ {"authority"} = w.has \ {"authority"} /\ x.port = w.port
    /\ \A c \in Components \ {"authority", "port"} : x.text[c] = w.text[c]

LEMMA SameIs ==
    ASSUME NEW x, NEW w, x.has \subseteq Components, w.has \subseteq Components, x.port = w.port,
           \A c \in Components \ {"authority"} : c \in x.has <=> c \in w.has,
           \A c \in Components \ {"authority", "port"} : x.text[c] = w.text[c]
    PROVE  IsSame(x, w)
<1>1. x.has \ {"authority"} = w.has \ {"authority"}
  OBVIOUS
<1>2. QED
  BY <1>1 DEF IsSame

\* What a component that is escaped is parsed into.
LEMMA EscapedBack ==
    ASSUME NEW s \in Seq(Byte), NEW x \in Seq(Byte), NEW i \in Nat, NEW j \in Nat,
           IsPiece(s, Encode(x), i, j)
    PROVE  <<>> \o Decode(Slice(s, i, j)) = x
<1>1. PICK y \in Seq(Byte) : y = Encode(x)
  BY EncodeType
<1>2. Slice(s, i, j) = y
  BY <1>1, PieceIs
<1>3. Decode(y) = x
  BY <1>1, DecodeOfEncode
<1>4. QED
  BY <1>2, <1>3, NothingJoins

LEMMA PartsBack ==
    ASSUME NEW w, NEW s, NEW m, NEW h, NEW e, NEW k, NEW q, NEW f, NEW n,
           IsLaid(w, s, m, h, e, k, q, f, n),
           NEW au, IsAuthority(au, s, m, k)
    PROVE  IsBack(au, w) /\ au.has \subseteq AuthorityNames
<1>1. /\ m \in Nat /\ k \in Nat /\ n \in Nat /\ m <= k /\ k <= n /\ s \in Seq(Byte) /\ n = Len(s)
      /\ m \in 0..n /\ k \in m..n
  BY LaidIs, LaidLen
<1>2. au.has \subseteq AuthorityNames
  BY <1>1, AuthorityIs
<1>3. CASE k > m
  <2>1. PICK at, host, number : IsFound(au, s, m, k, at, host, number)
    BY <1>1, <1>3, AuthorityFinds
  <2>2. QED
    BY <1>2, <2>1, HostBack
<1>4. CASE ~(k > m)
  <2>1. au = NoAuthority
    BY <1>4 DEF IsAuthority
  <2>2. au.has = {} /\ au.port = 0 /\ PartOf(au, "userinfo") = <<>> /\ PartOf(au, "host") = <<>>
    BY <2>1 DEF NoAuthority, PartOf
  <2>3. m = k
    BY <1>1, <1>4
  <2>4. /\ "userinfo" \notin w.has /\ "host" \notin w.has /\ "port" \notin w.has
        /\ w.text["userinfo"] = <<>> /\ w.text["host"] = <<>> /\ w.port = 0
    BY <2>3, NoneLaid
  <2>5. IsBack(au, w)
    BY <2>2, <2>4 DEF IsBack
  <2>6. QED
    BY <1>2, <2>5
<1>5. QED
  BY <1>3, <1>4

\* The texts and the flags of what is parsed.
LEMMA TextsBack ==
    ASSUME NEW w, NEW s, NEW m, NEW h, NEW e, NEW k, NEW q, NEW f, NEW n,
           IsLaid(w, s, m, h, e, k, q, f, n), NEW au, IsBack(au, w), au.has \subseteq AuthorityNames,
           IsQuery(s, q) <=> "query" \in w.has,
           NEW r, IsParsed(r, s, m, k, q, f, au)
    PROVE  r.result = 0 /\ IsSame(r.uri, w)
<1>1. /\ s \in Seq(Byte) /\ m \in Nat /\ k \in Nat /\ q \in Nat /\ f \in Nat /\ n \in Nat
      /\ m <= k /\ k <= q /\ q <= f /\ f <= n
  BY LaidIs
<1>2. n = Len(s) /\ m = Len(w.text["scheme"]) /\ IsPiece(s, w.text["scheme"], 0, m)
  BY LaidLen
<1>3. Fits(w)
  BY DEF IsLaid
<1>4. /\ w.text["scheme"] \in Seq(Byte) /\ w.text["path"] \in Seq(Byte)
      /\ w.text["query"] \in Seq(Byte) /\ w.text["fragment"] \in Seq(Byte)
      /\ "scheme" \in w.has <=> w.text["scheme"] # <<>>
      /\ "query" \in w.has <=> w.text["query"] # <<>>
      /\ "fragment" \in w.has <=> w.text["fragment"] # <<>>
  BY <1>3, FitsType
<1>5. IsFragment(s, f) <=> "fragment" \in w.has
  BY FragmentBack
<1>6. /\ r.uri.has \subseteq Components
      /\ "scheme" \in r.uri.has <=> m > 0
      /\ "userinfo" \in r.uri.has <=> "userinfo" \in au.has
      /\ "host" \in r.uri.has <=> "host" \in au.has
      /\ "port" \in r.uri.has <=> "port" \in au.has
      /\ "path" \in r.uri.has <=> q > k
      /\ "query" \in r.uri.has <=> IsQuery(s, q)
      /\ "fragment" \in r.uri.has <=> IsFragment(s, f)
  BY FlagsAre
<1>7. /\ "userinfo" \in au.has <=> "userinfo" \in w.has
      /\ "host" \in au.has <=> "host" \in w.has
      /\ "port" \in au.has <=> "port" \in w.has
      /\ au.port = w.port /\ PartOf(au, "userinfo") = w.text["userinfo"]
      /\ PartOf(au, "host") = w.text["host"]
  BY DEF IsBack
<1>8. m > 0 <=> "scheme" \in w.has
  <2>1. PICK x \in Seq(Byte) : x = w.text["scheme"]
    BY <1>4
  <2>2. m = Len(x) /\ ("scheme" \in w.has <=> x # <<>>)
    BY <1>2, <1>4, <2>1
  <2>3. QED
    BY <2>2
<1>9. q > k <=> "path" \in w.has
  <2>1. "path" \in w.has => k < q
    BY PathLaid
  <2>2. "path" \notin w.has => k = q
    BY PathLaid
  <2>3. QED
    BY <1>1, <2>1, <2>2
<1>10. \A c \in Components \ {"authority"} : c \in r.uri.has <=> c \in w.has
  <2>1. SUFFICES ASSUME NEW c \in Components \ {"authority"} PROVE c \in r.uri.has <=> c \in w.has
    OBVIOUS
  <2>2. \/ c = "scheme" \/ c = "userinfo" \/ c = "host" \/ c = "port" \/ c = "path" \/ c = "query"
        \/ c = "fragment"
    BY <2>1, ComponentsAre
  <2>3. QED
    BY <1>5, <1>6, <1>7, <1>8, <1>9, <2>2
<1>11. r.uri.text["scheme"] = w.text["scheme"]
  <2>1. r.uri.text["scheme"] = TextLower(Slice(s, 0, m))
    BY DEF IsParsed
  <2>2. Slice(s, 0, m) = w.text["scheme"]
    BY <1>1, <1>2, <1>4, PieceIs
  <2>3. TextLower(w.text["scheme"]) = w.text["scheme"]
    BY <1>3 DEF Fits, SchemeFits
  <2>4. QED
    BY <2>1, <2>2, <2>3
<1>12. r.uri.text["userinfo"] = w.text["userinfo"] /\ r.uri.text["host"] = w.text["host"]
  BY <1>7 DEF IsParsed
<1>13. r.uri.text["path"] = w.text["path"]
  <2>1. r.uri.text["path"] = <<>> \o Decode(Slice(s, k, q))
    BY DEF IsParsed
  <2>2. IsPiece(s, Encode(w.text["path"]), k, q)
    BY PathLaid
  <2>3. QED
    BY <1>1, <1>4, <2>1, <2>2, EscapedBack
<1>14. r.uri.text["query"] = w.text["query"]
  <2>1. r.uri.text["query"] = IF IsQuery(s, q) THEN <<>> \o Decode(Slice(s, q + 1, f)) ELSE <<>>
    BY DEF IsParsed
  <2>2. CASE "query" \in w.has
    <3>1. IsPiece(s, Encode(w.text["query"]), q + 1, f) /\ q + 1 \in Nat
      BY <1>1, <2>2, QueryLaid
    <3>2. <<>> \o Decode(Slice(s, q + 1, f)) = w.text["query"]
      BY <1>1, <1>4, <3>1, EscapedBack
    <3>3. QED
      BY <2>1, <2>2, <3>2
  <2>3. CASE "query" \notin w.has
    BY <1>4, <2>1, <2>3
  <2>4. QED
    BY <2>2, <2>3
<1>15. r.uri.text["fragment"] = w.text["fragment"]
  <2>1. r.uri.text["fragment"] = IF IsFragment(s, f) THEN <<>> \o Decode(Slice(s, f + 1, Len(s)))
                                 ELSE <<>>
    BY DEF IsParsed
  <2>2. CASE "fragment" \in w.has
    <3>1. IsPiece(s, Encode(w.text["fragment"]), f + 1, n) /\ f + 1 \in Nat
      BY <1>1, <2>2, FragmentLaid
    <3>2. <<>> \o Decode(Slice(s, f + 1, n)) = w.text["fragment"]
      BY <1>1, <1>4, <3>1, EscapedBack
    <3>3. QED
      BY <1>2, <1>5, <2>1, <2>2, <3>2
  <2>3. CASE "fragment" \notin w.has
    BY <1>4, <1>5, <2>1, <2>3
  <2>4. QED
    BY <2>2, <2>3
<1>16. \A c \in Components \ {"authority", "port"} : r.uri.text[c] = w.text[c]
  <2>1. SUFFICES ASSUME NEW c \in Components \ {"authority", "port"} PROVE r.uri.text[c] = w.text[c]
    OBVIOUS
  <2>2. \/ c = "scheme" \/ c = "userinfo" \/ c = "host" \/ c = "path" \/ c = "query" \/ c = "fragment"
    BY <2>1, ComponentsAre
  <2>3. QED
    BY <1>11, <1>12, <1>13, <1>14, <1>15, <2>2
<1>17. r.uri.port = w.port
  BY <1>7 DEF IsParsed
<1>18. w.has \subseteq Components /\ w.has \cap {"scheme", "host", "path", "query", "fragment"} # {}
  BY <1>3 DEF Fits
<1>19. IsSame(r.uri, w)
  BY <1>6, <1>10, <1>16, <1>17, <1>18, SameIs
<1>20. r.uri.has \cap {"scheme", "host", "path", "query", "fragment"} # {}
  <2>1. PICK c \in {"scheme", "host", "path", "query", "fragment"} : c \in w.has
    BY <1>18
  <2>2. c \in Components \ {"authority"}
    BY <1>18, <2>1
  <2>3. c \in r.uri.has
    BY <1>10, <2>1, <2>2
  <2>4. QED
    BY <2>1, <2>3
<1>21. IsFragment(s, f) \/ f = Len(s)
  BY <1>2, <1>5, FragmentLaid
<1>22. r.result = 0
  BY <1>20, <1>21 DEF IsParsed
<1>23. QED
  BY <1>19, <1>22

\* What is printed for w is read as something else.
IsMisread(w, s) ==
    \/ SchemeEnd(s) # Len(w.text["scheme"])
    \/ w.has \cap {"userinfo", "host"} = {} /\ DoubleSlash(w.text["path"], 0)
    \/ IndexOfAny(w.text["path"], <<Question, Hash>>, 0) # NotFound
    \/ IndexOfAny(w.text["query"], <<Hash>>, 1) # NotFound

LEMMA PlacesBack ==
    ASSUME NEW w, NEW s, NEW m, NEW h, NEW e, NEW k, NEW q, NEW f, NEW n,
           IsLaid(w, s, m, h, e, k, q, f, n), ~IsMisread(w, s)
    PROVE  /\ SchemeEnd(s) = m /\ AuthorityStart(s, m) = m /\ PathStart(s, m) = k
           /\ PathEnd(s, k) = q /\ QueryEnd(s, q) = f
           /\ IsQuery(s, q) <=> "query" \in w.has
<1>1. /\ SchemeEnd(s) = Len(w.text["scheme"])
      /\ ~(w.has \cap {"userinfo", "host"} = {} /\ DoubleSlash(w.text["path"], 0))
      /\ IndexOfAny(w.text["path"], <<Question, Hash>>, 0) = NotFound
      /\ IndexOfAny(w.text["query"], <<Hash>>, 1) = NotFound
  BY Zenon DEF IsMisread
<1>2. SchemeEnd(s) = m
  BY <1>1, LaidLen
<1>3. AuthorityStart(s, m) = m
  <2>1. ~DoubleSlash(s, m)
    BY <1>1, NoSlashes
  <2>2. QED
    BY <2>1 DEF AuthorityStart
<1>4. PICK x \in Seq(Byte) : x = w.text["path"]
  BY FitsType DEF IsLaid
<1>5. NoneOf(x, {Question, Hash})
  <2>1. PICK l \in Nat : l = Len(x)
    OBVIOUS
  <2>2. 0 \in 0..l
    BY <2>1
  <2>3. \A j \in (0 + 1)..l : x[j] \notin {Question, Hash}
    BY <1>1, <1>4, <2>1, <2>2, AnyIs, MarksAre
  <2>4. QED
    BY <2>1, <2>3 DEF NoneOf
<1>6. PathStart(s, m) = k /\ PathEnd(s, k) = q
  BY <1>4, <1>5, PathBack
<1>7. PICK y \in Seq(Byte) : y = w.text["query"]
  BY FitsType DEF IsLaid
<1>8. \A j \in 2..Len(y) : y[j] \notin {Hash}
  <2>1. PICK l \in Nat : l = Len(y)
    OBVIOUS
  <2>2. CASE l = 0
    BY <2>1, <2>2
  <2>3. CASE l # 0
    <3>1. 1 \in 0..l
      BY <2>3
    <3>2. \A j \in (1 + 1)..l : y[j] \notin {Hash}
      BY <1>1, <1>7, <2>1, <3>1, AnyIs, MarksAre
    <3>3. QED
      BY <2>1, <3>2
  <2>4. QED
    BY <2>2, <2>3
<1>9. QueryEnd(s, q) = f /\ (IsQuery(s, q) <=> "query" \in w.has)
  BY <1>7, <1>8, QueryBack
<1>10. QED
  BY <1>2, <1>3, <1>6, <1>9

LEMMA PrintedBack ==
    ASSUME NEW w, Fits(w), NEW s, s = UriString(w), ~IsMisread(w, s),
           NEW x, NEW code, IsParse(x, code, s)
    PROVE  code = 0 /\ IsSame(x, w)
<1>1. s \in Seq(Byte)
  BY PrintIs
<1>2. PICK m, h, e, k, q, f, n \in Nat : IsPrint(w, s, m, h, e, k, q, f, n)
  BY PrintIs
<1>3. IsLaid(w, s, m, h, e, k, q, f, n)
  BY <1>1, <1>2 DEF IsLaid
<1>4. n = Len(s)
  BY <1>3, LaidLen
<1>5. /\ SchemeEnd(s) = m /\ AuthorityStart(s, m) = m /\ PathStart(s, m) = k
      /\ PathEnd(s, k) = q /\ QueryEnd(s, q) = f
      /\ IsQuery(s, q) <=> "query" \in w.has
  BY <1>3, PlacesBack
<1>6. m \in 0..n /\ k \in 0..n /\ q \in 0..n
  BY <1>3, LaidIs
<1>7. ArePlaces(s, n, m, m, k, q, f)
  <2>1. PICK m1, a1, k1, q1 \in 0..n, f1 \in Nat : ArePlaces(s, n, m1, a1, k1, q1, f1)
    BY <1>1, <1>4, PlacesAre
  <2>2. /\ m1 = SchemeEnd(s) /\ a1 = AuthorityStart(s, m1)
        /\ k1 = PathStart(s, a1) /\ q1 = PathEnd(s, k1) /\ f1 = QueryEnd(s, q1)
    BY <2>1 DEF ArePlaces
  <2>3. m1 = m /\ a1 = m /\ k1 = k /\ q1 = q /\ f1 = f
    BY <1>5, <2>2
  <2>4. QED
    BY <2>1, <2>3
<1>8. PICK au : IsAuthority(au, s, m, k)
  BY DEF IsAuthority
<1>9. IsBack(au, w) /\ au.has \subseteq AuthorityNames
  BY <1>3, <1>8, PartsBack
<1>10. PICK v : x = ParseUri(v, s).uri /\ code = ParseUri(v, s).result
  BY DEF IsParse
<1>11. PICK r : r = ParseUri(v, s)
  OBVIOUS
<1>12. IsParsed(r, s, m, k, q, f, au)
  BY <1>1, <1>4, <1>6, <1>7, <1>8, <1>11, ParsedIs
<1>13. r.result = 0 /\ IsSame(r.uri, w)
  BY <1>3, <1>5, <1>9, <1>12, TextsBack
<1>14. QED
  BY <1>10, <1>11, <1>13

\* Whatever was accepted and printed is accepted again, with the same components, unless its
\* print is misread: the escapes of the path, the query and the fragment are undone, and the
\* user info, the host and the port are found where they were put.
THEOREM PrintedCorrect == UriSpec => []PrintedParsesBack
<1>1. UriInv => PrintedParsesBack
  <2>1. SUFFICES ASSUME UriInv, NEW v \in before
                 PROVE  IsMisread(v, given) \/ (result = 0 /\ IsSame(u, v))
    BY Zenon DEF PrintedParsesBack, IsMisread, IsSame
  <2>2. /\ result # -1 /\ given = UriString(v)
        /\ \E t \in Seq(Byte) : IsParse(v, 0, t)
    BY <2>1 DEF UriInv
  <2>3. IsParse(u, result, given)
    BY <2>1, <2>2 DEF UriInv
  <2>4. Fits(v)
    BY <2>2, AcceptedFits
  <2>5. QED
    BY <2>2, <2>3, <2>4, PrintedBack
<1>2. QED
  BY <1>1, UriAlways, PTL
=============================================================================
