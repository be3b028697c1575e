------------------------------- MODULE Base64 -------------------------------
(***************************************************************************)
(* src/shared/base64.c.  A user encodes and decodes in the same two areas  *)
(* of memory, of which the functions may use the first dst_len bytes: what *)
(* earlier calls have written stays there.  Characters are the numbers of  *)
(* their bytes.  A text that is decoded ends with a 0 and is ASCII: the    *)
(* code indexes its table with a char, which is negative from 128 on.      *)
(***************************************************************************)
EXTENDS Integers, Sequences, SequencesExt

CONSTANTS Plain,      \* sequences of bytes users encode
          Codes,      \* texts users decode
          Room,       \* how many bytes each area of memory has
          Unset,      \* what is in memory that was never written
          MaxCodings  \* bound: calls

ASSUME Base64Assumption == /\ Plain \subseteq Seq(0..255) /\ Codes \subseteq Seq(1..127)
                           /\ \A c \in Codes : Len(c) < Room
                           /\ Room \in Nat /\ Unset \notin 0..255 /\ MaxCodings \in Nat

VARIABLES text,     \* the area the encoder writes to and the decoder reads
          bytes,    \* the area the decoder writes to
          coded,    \* history: the bytes text was encoded from, if it was
          outcome,  \* history: the last call, its dst_len, what it returned
          codings   \* history: how many calls there were

base64Vars == <<text, bytes, coded, outcome, codings>>

Padding == 61  \* BASE64_PADDING
Illegal == 255 \* BASE64_ILLEGAL_VALUE

\* BASE64_VALUE_TO_CHAR
ValueToChar(v) == IF v < 26 THEN v + 65            \* 'A'..'Z'
                  ELSE IF v < 52 THEN v - 26 + 97  \* 'a'..'z'
                  ELSE IF v < 62 THEN v - 52 + 48  \* '0'..'9'
                  ELSE IF v = 62 THEN 43 ELSE 47   \* '+', '/'

\* BASE64_CHAR_TO_VALUE
CharToValue(c) == IF c \in 65..90 THEN c - 65
                  ELSE IF c \in 97..122 THEN c - 97 + 26
                  ELSE IF c \in 48..57 THEN c - 48 + 52
                  ELSE IF c = 43 THEN 62 ELSE IF c = 47 THEN 63 ELSE Illegal

\* memory with src written at its start
Overwritten(memory, src) == [i \in DOMAIN memory |-> IF i \in DOMAIN src THEN src[i] ELSE memory[i]]

\* The characters up to the 0.
CString(memory) == LET end == CHOOSE i \in DOMAIN memory : /\ memory[i] = 0
                                                           /\ \A j \in 1..(i - 1) : memory[j] # 0
                   IN  SubSeq(memory, 1, end - 1)

-----------------------------------------------------------------------------
(* base64_encode *)

\* The four characters of the bytes from i on, of which there is at least one.
Quad(src, i) ==
    LET byte(k) == IF i + k <= Len(src) THEN src[i + k] ELSE 0
    IN  <<ValueToChar(byte(0) \div 4),
          ValueToChar((byte(0) % 4) * 16 + byte(1) \div 16),
          IF i + 1 > Len(src) THEN Padding ELSE ValueToChar((byte(1) % 16) * 4 + byte(2) \div 64),
          IF i + 2 > Len(src) THEN Padding ELSE ValueToChar(byte(2) % 64)>>

Quads(n) == (n + 2) \div 3

\* Mutant of EncodeFits: there is no room for the 0.
EncodeFitsWithout(n, dstLen) == Quads(n) * 4 <= dstLen

EncodeFits(n, dstLen) == Quads(n) * 4 + 1 <= dstLen

Encoding(src) == FlattenSeq([q \in 1..Quads(Len(src)) |-> Quad(src, 3 * q - 2)]) \o <<0>>

-----------------------------------------------------------------------------
(* base64_decode *)

\* Mutant of LegalBlock: padding can be followed by a character.
LegalBlockLoose(block, last) ==
    LET legal(k) == CharToValue(block[k]) # Illegal
    IN  legal(1) /\ legal(2) /\ \A k \in {3, 4} : legal(k) \/ (last /\ block[k] = Padding)

\* Whether a block of four characters, the last one or not, is decoded.
LegalBlock(block, last) ==
    LET legal(k) == CharToValue(block[k]) # Illegal
    IN  /\ legal(1) /\ legal(2)
        /\ \/ ~last /\ legal(3) /\ legal(4)
           \/ last /\ block[3] = Padding /\ block[4] = Padding
           \/ last /\ legal(3) /\ (block[4] = Padding \/ legal(4))

Triple(block) == LET value(k) == IF block[k] = Padding THEN 0 ELSE CharToValue(block[k])
                 IN  <<value(1) * 4 + value(2) \div 16,
                       (value(2) % 16) * 16 + value(3) \div 4,
                       (value(3) % 4) * 64 + value(4)>>

BlockOf(src, k) == SubSeq(src, 4 * k - 3, 4 * k)

DecodeFits(src, dstLen) == Len(src) % 4 = 0 /\ (Len(src) \div 4) * 3 <= dstLen

\* How many blocks are decoded before the first that is not legal.
LegalBlocks(src) ==
    LET n == Len(src) \div 4
        good[k \in 0..n] == IF k = n \/ ~LegalBlock(BlockOf(src, k + 1), k + 1 = n) THEN k
                            ELSE good[k + 1]
    IN  good[0]

-----------------------------------------------------------------------------
NotCoded == <<Unset>>

Base64Init == /\ \E c \in Codes : text = Overwritten([i \in 1..Room |-> Unset], c \o <<0>>)
              /\ bytes = [i \in 1..Room |-> Unset]
              /\ coded = NotCoded
              /\ outcome = [call |-> "none", dstLen |-> 0, result |-> 0]
              /\ codings = 0

Returns(call, dstLen, result) ==
    /\ codings < MaxCodings
    /\ outcome' = [call |-> call, dstLen |-> dstLen, result |-> result]
    /\ codings' = codings + 1

Encodes(src, dstLen) ==
    /\ \/ /\ EncodeFits(Len(src), dstLen)
          /\ text' = Overwritten(text, Encoding(src))
          /\ coded' = src
          /\ Returns("encode", dstLen, 0)
       \/ /\ ~EncodeFits(Len(src), dstLen)
          /\ UNCHANGED <<text, coded>>
          /\ Returns("encode", dstLen, 1)
    /\ UNCHANGED bytes

Decodes(dstLen) ==
    LET src == CString(text)
        blocks == IF DecodeFits(src, dstLen) THEN LegalBlocks(src) ELSE 0
    IN  /\ bytes' = Overwritten(bytes, FlattenSeq([k \in 1..blocks |-> Triple(BlockOf(src, k))]))
        /\ Returns("decode", dstLen, IF DecodeFits(src, dstLen) /\ 4 * blocks = Len(src) THEN 0 ELSE 1)
        /\ UNCHANGED <<text, coded>>

Base64Done == codings = MaxCodings /\ UNCHANGED base64Vars

Base64Next == \/ \E src \in Plain, dstLen \in 0..Room : Encodes(src, dstLen)
              \/ \E dstLen \in 0..Room : Decodes(dstLen)
              \/ Base64Done

Base64Spec == Base64Init /\ [][Base64Next]_base64Vars

-----------------------------------------------------------------------------
(* Properties.                                                             *)

Base64TypeOK == /\ text \in Seq(0..255 \cup {Unset}) /\ Len(text) = Room
                /\ bytes \in Seq(0..255 \cup {Unset}) /\ Len(bytes) = Room
                /\ outcome.result \in {0, 1} /\ codings \in 0..MaxCodings

\* What was encoded is decoded into the same bytes, over whatever the areas held, and no
\* decoder with room for the blocks refuses it.
DecodeGivesWhatWasEncoded ==
    outcome.call = "decode" /\ coded # NotCoded =>
        /\ outcome.result = 0 <=> outcome.dstLen >= 3 * Quads(Len(coded))
        /\ outcome.result = 0 => SubSeq(bytes, 1, Len(coded)) = coded

\* The decoder accepts exactly the texts of RFC 4648, section 4, that it has room for: whole
\* blocks of the alphabet, with padding in the last one or two places of the text only.
DecodesExactlyBase64 ==
    outcome.call = "decode" =>
        LET src == CString(text)
            pads == {i \in DOMAIN src : src[i] = Padding}
        IN  outcome.result = 0 <=>
                /\ Len(src) % 4 = 0
                /\ pads \in {{}, {Len(src)}, {Len(src) - 1, Len(src)}}
                /\ \A i \in DOMAIN src \ pads : \E v \in 0..63 : ValueToChar(v) = src[i]
                /\ (3 * Len(src)) \div 4 <= outcome.dstLen

\* The decoder returns what was encoded, and accepts base64 and nothing else, whatever an
\* earlier call of either function has left in memory.
DecoderIsExact == DecodeGivesWhatWasEncoded /\ DecodesExactlyBase64

\* Neither function writes beyond the dst_len bytes it is given, the 0 included.
WritesStayInside ==
    [][\A i \in (outcome'.dstLen + 1)..Room : text'[i] = text[i] /\ bytes'[i] = bytes[i]]_base64Vars
=============================================================================
