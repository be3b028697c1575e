---------------------------- MODULE StringSearch ----------------------------
(***************************************************************************)
(* The functions of src/shared/string.c that look at a string and change   *)
(* nothing.  A text is the sequence of the characters before the           *)
(* terminating 0, each the number 0..255 of its byte; positions count from *)
(* 0 as in the code.  A loop is a recursive function of its index.  -1 is  *)
(* the size_t that the code returns as -1.                                 *)
(***************************************************************************)
EXTENDS Integers, Sequences

NotFound == -1

\* The loops of the searches: the first hit from one index to another.
Upwards(hits, from, to) ==
    LET scan[i \in from..(to + 1)] == IF i > to THEN NotFound
                                      ELSE IF i \in hits THEN i ELSE scan[i + 1]
    IN  IF from > to THEN NotFound ELSE scan[from]

Downwards(hits, from) ==
    LET scan[i \in -1..from] == IF i = -1 THEN NotFound
                                ELSE IF i \in hits THEN i ELSE scan[i - 1]
    IN  scan[from]

\* memcmp of find with the text at i: beyond the text is its 0, which is no character.
MatchesAt(s, find, i) == i + Len(find) <= Len(s) /\ SubSeq(s, i + 1, i + Len(find)) = find

OneOf(s, set, i) == \E k \in DOMAIN set : set[k] = s[i + 1]

\* What a loop over the positions of s finds: find, a member of set, another character.
Matches(s, find) == {i \in 0..Len(s) : MatchesAt(s, find, i)}
Members(s, set) == {i \in 0..(Len(s) - 1) : OneOf(s, set, i)}
Others(s, set) == (0..(Len(s) - 1)) \ Members(s, set)

Clamped(start, last) == IF start > last THEN last ELSE start

\* Mutant of IndexOf: the last place a match can be is not looked at.
IndexOfShort(s, find, start) ==
    IF Len(find) > Len(s) \/ Len(find) = 0 THEN NotFound
    ELSE Upwards(Matches(s, find), start, Len(s) - Len(find) - 1)

\* string_index_of_str, string_index_of_cstr
IndexOf(s, find, start) ==
    IF Len(find) > Len(s) \/ Len(find) = 0 THEN NotFound
    ELSE Upwards(Matches(s, find), start, Len(s) - Len(find))

\* string_reverse_index_of_str, string_reverse_index_of_cstr
ReverseIndexOf(s, find, start) ==
    IF Len(find) > Len(s) \/ Len(find) = 0 THEN NotFound
    ELSE Downwards(Matches(s, find), Clamped(start, Len(s) - Len(find)))

\* string_index_of_any_cstr, and string_index_of_char, whose set is one character
IndexOfAny(s, set, start) == Upwards(Members(s, set), start, Len(s) - 1)

\* string_index_not_of_any_cstr
IndexNotOfAny(s, set, start) == Upwards(Others(s, set), start, Len(s) - 1)

\* string_reverse_index_of_any_cstr, string_reverse_index_of_char
ReverseIndexOfAny(s, set, start) == Downwards(Members(s, set), Clamped(start, Len(s) - 1))

\* string_reverse_index_not_of_any_cstr
ReverseIndexNotOfAny(s, set, start) == Downwards(Others(s, set), Clamped(start, Len(s) - 1))

\* The characters string_trim_start_any_of_cstr and string_trim_end_any_of_cstr leave.
TrimmedStart(s, set) == LET i == IndexNotOfAny(s, set, 0)
                        IN  IF i = NotFound THEN <<>> ELSE SubSeq(s, i + 1, Len(s))
TrimmedEnd(s, set) == SubSeq(s, 1, ReverseIndexNotOfAny(s, set, Len(s)) + 1)

Blanks == <<32, 9>>  \* " \t"

-----------------------------------------------------------------------------
(* string_split: the index pairs of the pieces of s from start on.  delim  *)
(* is not empty (the code would not end) and start is in the string.       *)

\* In place of the pair that the code counts and does not write.
Unwritten == <<0, -1>>

\* Mutant of SplitEnds: a piece that is full to the limit does not end the loop.
SplitEndsLate(count, max) == max > 0 /\ count >= max

\* Whether the loop ends after its count-th piece; max = 0 for no limit.
SplitEnds(count, max) == max > 0 /\ count + 1 >= max

\* Where the loop finds the delimiter from there on: the last place it can be is left out.
NextDelimiter(s, delim, from) == Upwards(Matches(s, delim), from, Len(s) - Len(delim) - 1)

\* The piece after the last delimiter the loop has found, if there is one.
LastPiece(s, from, count, max) ==
    IF from >= Len(s) THEN <<>>
    ELSE <<IF max = 0 \/ count < max THEN <<from, Len(s)>> ELSE Unwritten>>

\* The loop from there on, where f gives the pieces that follow.
PiecesFrom(s, delim, max, f, from, count) ==
    LET i == NextDelimiter(s, delim, from)
    IN  IF i = NotFound THEN LastPiece(s, from, count, max)
        ELSE <<<<from, i>>>> \o (IF SplitEnds(count + 1, max)
                                 THEN LastPiece(s, i + Len(delim), count + 1, max)
                                 ELSE f[i + Len(delim)][count + 1])

Split(s, start, delim, max) ==
    LET pieces[from \in 0..Len(s)] ==
            [count \in Nat |-> PiecesFrom(s, delim, max, pieces, from, count)]
    IN  IF Len(delim) > Len(s) - start THEN <<<<start, Len(s)>>>> ELSE pieces[start][0]

\* The characters of one of its pieces.
Piece(s, pair) == SubSeq(s, pair[1] + 1, pair[2])

-----------------------------------------------------------------------------
(* string_compare_cstr_len *)

\* char is signed.
SignedChar(n) == ((n + 128) % 256) - 128

\* tolower of <ctype.h>, and the loop of string_tolower
Lower(c) == IF c \in 65..90 THEN c + 32 ELSE c

\* The loop of string_toupper.
Upper(c) == IF c \in 97..122 THEN c - 32 ELSE c

\* What two characters differ by: a char, so that a difference of 128 or more wraps.
Differ(a, b, sensitive) ==
    SignedChar(SignedChar(IF sensitive THEN a ELSE Lower(a))
                   - SignedChar(IF sensitive THEN b ELSE Lower(b)))

Compare(a, b, sensitive) ==
    LET shorter == IF Len(a) < Len(b) THEN Len(a) ELSE Len(b)
        differences == {i \in 0..(shorter - 1) : Differ(a[i + 1], b[i + 1], sensitive) # 0}
        at == Upwards(differences, 0, shorter - 1)
    IN  IF at = NotFound THEN Len(a) - Len(b) ELSE Differ(a[at + 1], b[at + 1], sensitive)

-----------------------------------------------------------------------------
(* What a search, a split and a comparison of a and b promise.             *)

FirstOf(S) == IF S = {} THEN NotFound ELSE CHOOSE i \in S : \A j \in S : i <= j
LastOf(S) == IF S = {} THEN NotFound ELSE CHOOSE i \in S : \A j \in S : i >= j

FindsExactly(s, t, start) ==
    LET matches == {i \in Matches(s, t) : t # <<>>}
        From(S) == FirstOf({i \in S : i >= start})
        Until(S) == LastOf({i \in S : i <= start})
    IN  /\ IndexOf(s, t, start) = From(matches)
        /\ ReverseIndexOf(s, t, start) = Until(matches)
        /\ IndexOfAny(s, t, start) = From(Members(s, t))
        /\ IndexNotOfAny(s, t, start) = From(Others(s, t))
        /\ ReverseIndexOfAny(s, t, start) = Until(Members(s, t))
        /\ ReverseIndexNotOfAny(s, t, start) = Until(Others(s, t))

\* The pieces follow each other with the delimiter between them, as many as the limit
\* allows.  Only the last may contain it: beyond the limit, or as its last characters.
SplitsExactly(s, start, delim, max) ==
    LET p == Split(s, start, delim, max)
        n == Len(delim)
        Inside(k) == {i \in p[k][1]..(p[k][2] - 1) : MatchesAt(s, delim, i)}
    IN  /\ Len(p) = 0 => start = Len(s)
        /\ max > 0 => Len(p) <= max
        /\ Len(p) > 0 =>
              /\ p[1][1] = start /\ p[Len(p)][2] = Len(s)
              /\ \A k \in 1..(Len(p) - 1) : /\ Inside(k) = {}
                                            /\ MatchesAt(s, delim, p[k][2])
                                            /\ p[k + 1][1] = p[k][2] + n
              /\ Len(p) = max \/ Inside(Len(p)) \subseteq {Len(s) - n}

\* a before b in the order of a dictionary.
Before(a, b) == \E i \in 0..Len(a) : /\ i < Len(b) /\ SubSeq(a, 1, i) = SubSeq(b, 1, i)
                                     /\ i = Len(a) \/ a[i + 1] < b[i + 1]

\* Zero for equal strings only; the sign is their order when all characters are ASCII.
ComparesExactly(a, b, sensitive) ==
    LET form(s) == IF sensitive THEN s ELSE [i \in DOMAIN s |-> Lower(s[i])]
        ascii == \A s \in {a, b} : \A i \in DOMAIN s : s[i] < 128
        result == Compare(a, b, sensitive)
    IN  /\ result = 0 <=> form(a) = form(b)
        /\ ascii => /\ result < 0 <=> Before(form(a), form(b))
                    /\ result > 0 <=> Before(form(b), form(a))
=============================================================================
