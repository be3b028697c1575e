----------------------------- MODULE UriEscapes -----------------------------
(***************************************************************************)
(* The percent-encoding of src/shared/uri.c: uri_append_encoded_cstr_len   *)
(* and uri_append_decoded_cstr_len, which append to a string a text that   *)
(* may be part of that string.  Characters are the numbers of their bytes. *)
(***************************************************************************)
EXTENDS StringSearch, SequencesExt

CONSTANTS PlainTexts,  \* what the string holds at first
          MaxEscaped   \* bound: characters in it

ASSUME EscapesAssumption == PlainTexts \subseteq Seq(1..255) /\ MaxEscaped \in Nat

VARIABLES appended,  \* the text of dst
          wanted     \* history: what it is to hold

escapeVars == <<appended, wanted>>

Percent == 37
Letters == (65..90) \cup (97..122)
Digits == 48..57

\* RFC 3986's reserved and unreserved: ! # $ & ' ( ) * + , - . / : ; = ? @ [ ] _ ~
Unescaped == Letters \cup Digits \cup (38..47) \cup {33, 35, 36, 58, 59, 61, 63, 64, 91, 93, 95, 126}

HexValue(c) == IF c \in Digits THEN c - 48
               ELSE IF c \in 97..102 THEN c - 87
               ELSE IF c \in 65..70 THEN c - 55 ELSE NotFound

HexDigit(v) == IF v < 10 THEN v + 48 ELSE v + 55

\* Whether the "%" at i begins an escape; if not it stands for itself.
Escape(s, i) == /\ s[i + 1] = Percent /\ i + 2 < Len(s)
                /\ HexValue(s[i + 2]) # NotFound /\ HexValue(s[i + 3]) # NotFound

Decode(s) ==
    LET decoded[i \in 0..Len(s)] ==
            IF i = Len(s) THEN <<>>
            ELSE IF Escape(s, i)
            THEN <<16 * HexValue(s[i + 2]) + HexValue(s[i + 3])>> \o decoded[i + 3]
            ELSE <<s[i + 1]>> \o decoded[i + 1]
    IN  decoded[0]

Encoded(c) == IF c \in Unescaped THEN <<c>>
              ELSE <<Percent, HexDigit(c \div 16), HexDigit(c % 16)>>

Encode(s) == FlattenSeq([k \in DOMAIN s |-> Encoded(s[k])])

-----------------------------------------------------------------------------
(* A source inside the memory of dst: its first character is at position i *)
(* of dst, or it is empty and i is where dst's 0 is.                       *)

\* Mutant of IsCopied: the first character of dst is taken for one of another string.
IsCopiedInside(i) == i > 0 /\ i < Len(appended)

\* Whether the source is copied before anything is appended.
IsCopied(i) == i >= 0 /\ i < Len(appended)

\* What the loop then reads.  Every append reallocates dst: after the first one a source
\* that is still in dst's old memory is whatever is there, a 0 here.
SourceRead(i) == LET src == SubSeq(appended, i + 1, Len(appended))
                 IN  IF IsCopied(i) THEN src
                     ELSE [k \in DOMAIN src |-> IF k = 1 THEN src[k] ELSE 0]

EscapesInit == appended \in PlainTexts /\ wanted = appended

Appended(text, meant) == /\ Len(text) <= MaxEscaped
                         /\ appended' = text
                         /\ wanted' = meant

AppendsDecoded(i) == Appended(appended \o Decode(SourceRead(i)),
                              wanted \o Decode(SubSeq(wanted, i + 1, Len(wanted))))

AppendsEncoded(i) == Appended(appended \o Encode(SourceRead(i)),
                              wanted \o Encode(SubSeq(wanted, i + 1, Len(wanted))))

EscapesDone == Len(appended) > 1 /\ UNCHANGED escapeVars

EscapesNext == \/ \E i \in 0..Len(appended) : AppendsDecoded(i) \/ AppendsEncoded(i)
               \/ EscapesDone

EscapesSpec == EscapesInit /\ [][EscapesNext]_escapeVars

-----------------------------------------------------------------------------
(* Properties.                                                             *)

EscapesTypeOK == appended \in Seq(0..255) /\ wanted \in Seq(0..255)

\* Decoding undoes encoding, for every text: one with percent signs, with escapes and with
\* halves of escapes in it, and with bytes beyond ASCII, whose char is negative.
DecodeUndoesEncode == Decode(Encode(appended)) = appended

\* A part of a string that is decoded or encoded onto the end of that string is what it
\* was before the string's memory moved (the copy that uri.c:18 makes).
OwnTextIsCopied == appended = wanted

\* Both, of every string that appends of escaped and unescaped texts, its own parts among
\* them, can make.
EscapesAreExact == DecodeUndoesEncode /\ OwnTextIsCopied
=============================================================================
