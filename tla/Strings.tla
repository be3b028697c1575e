------------------------------ MODULE Strings ------------------------------
(***************************************************************************)
(* string of src/shared/string.c: a buffer that holds the characters and a *)
(* terminating 0, which counts in the buffer's length.  Two strings are    *)
(* changed by calls of the functions of string.h; value is what they are   *)
(* to hold, as sequences of characters.                                    *)
(*                                                                         *)
(* A string is not appended to itself, nor set to itself, as a whole: the  *)
(* code then copies its terminator over the start of what it copies.       *)
(* memcpy onto an overlapping range of the same buffer, in                 *)
(* string_set_substr, gives what glibc's gives, the outcome of memmove.    *)
(***************************************************************************)
EXTENDS BufferStream, StringSearch

CONSTANTS Texts,      \* what the strings hold at first: of s, and of t
          Chars,      \* characters and sets of characters users pass
          MaxLength,  \* bound: characters in a string
          MaxEdits    \* bound: calls

ASSUME StringAssumption == /\ \A x \in {"s", "t"} : Texts[x] \subseteq Seq(1..255)
                           /\ Chars \subseteq 1..255
                           /\ MaxLength \in Nat /\ MaxEdits \in Nat

VARIABLES str,    \* the buffers of the strings s and t
          value,  \* history: what each of them holds
          edits   \* history: how many calls there were

stringVars == <<str, value, edits>>

\* string_get_length, and the characters
StringLength(b) == b.length - 1
Text(b) == SubSeq(b.data, 1, StringLength(b))

\* The length becomes n and the terminator is written: string_clear with 0.
Terminated(b, n) == [SetLength(b, n + 1) EXCEPT !.data[n + 1] = 0]

\* string_init_cstr_len; string_init is the one of no characters.
StringOf(c) == Terminated(AppendBytes(SetCapacity(EmptyBuffer, Len(c) + 1), c), Len(c))

\* string_set_length
Filling(b, n, fill) ==
    LET grown == SetLength(b, n + 1)
    IN  Terminated([grown EXCEPT !.data = [i \in DOMAIN @ |-> IF i \in (StringLength(b) + 1)..n
                                                              THEN fill ELSE @[i]]], n)

\* What string_append_* share: room for n characters and a 0, the old terminator chopped
\* off, and bytes after the characters.
Appending(b, n, bytes) ==
    AppendBytes(SetLength(SetCapacity(b, StringLength(b) + n + 1), StringLength(b)), bytes)

\* string_append_str, which copies the other's terminator, and string_append_cstr
AppendString(b, other) == Appending(b, StringLength(other), Contents(other))

\* string_append_cstr_len
AppendChars(b, c) == Terminated(Appending(b, Len(c), c), StringLength(b) + Len(c))

\* string_append_cstrf of a text c: the capacity is not cut to what is needed.
AppendFormatted(b, c) ==
    AppendBytes(SetLength(EnsureCapacity(b, StringLength(b) + Len(c) + 1), StringLength(b)),
                Append(c, 0))

\* The range of src that the code takes for start and end, which may be beyond it.
Taken(src, start, end) ==
    SubSeq(src.data, start + 1, IF end > StringLength(src) THEN StringLength(src) ELSE end)

NoRange(src, start, end) == start >= end \/ start >= StringLength(src)

\* string_append_substr
AppendSubstr(b, src, start, end) ==
    IF NoRange(src, start, end) THEN b ELSE AppendChars(b, Taken(src, start, end))

\* Mutant of MoveSubstr: the terminator is left where it was.
MoveSubstrOpen(b, start, end) ==
    IF NoRange(b, start, end) THEN b
    ELSE SetLength(WriteAt(b, 0, Taken(b, start, end)), Len(Taken(b, start, end)) + 1)

\* string_set_substr of a string to a range of itself, which an empty range leaves alone
MoveSubstr(b, start, end) ==
    IF NoRange(b, start, end) THEN b
    ELSE Terminated(WriteAt(b, 0, Taken(b, start, end)), Len(Taken(b, start, end)))

\* string_set_substr of dst, which is src itself or not
SetSubstr(b, src, inPlace, start, end) ==
    IF inPlace THEN MoveSubstr(b, start, end) ELSE AppendSubstr(Terminated(b, 0), src, start, end)

\* string_trim_start_any_of_cstr, string_trim_end_any_of_cstr
TrimStart(b, src, inPlace, set) ==
    LET i == IndexNotOfAny(Text(src), set, 0)
    IN  IF i = NotFound THEN Terminated(b, 0) ELSE SetSubstr(b, src, inPlace, i, StringLength(src))

TrimEnd(b, src, inPlace, set) ==
    LET i == ReverseIndexNotOfAny(Text(src), set, StringLength(src))
    IN  IF i = NotFound THEN Terminated(b, 0) ELSE SetSubstr(b, src, inPlace, 0, i + 1)

\* string_trim_any_of_cstr: the second trim is in place.
Trim(b, src, inPlace, set) ==
    LET started == TrimStart(b, src, inPlace, set) IN TrimEnd(started, started, TRUE, set)

\* The characters of a text in the other case.
InCase(text, upper) == [i \in DOMAIN text |-> IF upper THEN Upper(text[i]) ELSE Lower(text[i])]

\* string_tolower, string_toupper
Recased(b, src, inPlace, upper) ==
    LET sized == IF inPlace THEN b ELSE Filling(b, StringLength(src), 0)
    IN  WriteAt(sized, 0, InCase(Text(src), upper))

-----------------------------------------------------------------------------
StringInit == /\ \E a \in Texts["s"], b \in Texts["t"] : value = [s |-> a, t |-> b]
              /\ str = [x \in {"s", "t"} |-> StringOf(value[x])]
              /\ edits = 0

\* A call that makes the buffer of x be b, and its value text.
Becomes(x, b, text) == /\ edits < MaxEdits
                       /\ Len(text) <= MaxLength
                       /\ str' = [str EXCEPT ![x] = b]
                       /\ value' = [value EXCEPT ![x] = text]
                       /\ edits' = edits + 1

\* The characters of a text from start until end, both of them cut to the text.
Between(text, start, end) == SubSeq(text, start + 1, IF end > Len(text) THEN Len(text) ELSE end)

\* The text without the members of set at its start, and at its end.
Stripped(text, set) ==
    LET kept == {i \in DOMAIN text : \A k \in DOMAIN set : text[i] # set[k]}
    IN  [start |-> SubSeq(text, FirstOf(kept), IF kept = {} THEN -2 ELSE Len(text)),
         end |-> SubSeq(text, 1, LastOf(kept)),
         both |-> SubSeq(text, FirstOf(kept), IF kept = {} THEN -2 ELSE LastOf(kept))]

Resizes(x, n, c) ==
    Becomes(x, Filling(str[x], n, c),
            [i \in 1..n |-> IF i <= Len(value[x]) THEN value[x][i] ELSE c])

Appends(x, y) == x # y /\ Becomes(x, AppendString(str[x], str[y]), value[x] \o value[y])

\* string_set_str
Sets(x, y) == x # y /\ Becomes(x, AppendString(Terminated(str[x], 0), str[y]), value[y])

\* string_append_cstr_len and string_append_cstrf of a character
AppendsChar(x, c) == \/ Becomes(x, AppendChars(str[x], <<c>>), Append(value[x], c))
                     \/ Becomes(x, AppendFormatted(str[x], <<c>>), Append(value[x], c))

\* string_set_cstr_len, string_set_cstrf
SetsChar(x, c) == \/ Becomes(x, AppendChars(Terminated(str[x], 0), <<c>>), <<c>>)
                  \/ Becomes(x, WriteAt(SetLength(str[x], 2), 0, <<c, 0>>), <<c>>)

AppendsSubstr(x, y, i, j) == Becomes(x, AppendSubstr(str[x], str[y], i, j),
                                     value[x] \o Between(value[y], i, j))

\* x becomes the portion of y, as string.h says.  An empty portion of x itself does not
\* become x (string.c:159-161): nothing is claimed of that call, and value goes on from the
\* text that it leaves.
SetsSubstr(x, y, i, j) ==
    LET b == SetSubstr(str[x], str[y], x = y, i, j)
        portion == Between(value[y], i, j)
    IN  Becomes(x, b, IF x = y /\ portion = <<>> THEN Text(b) ELSE portion)

Trims(x, y, set) ==
    \/ Becomes(x, TrimStart(str[x], str[y], x = y, set), Stripped(value[y], set).start)
    \/ Becomes(x, TrimEnd(str[x], str[y], x = y, set), Stripped(value[y], set).end)
    \/ Becomes(x, Trim(str[x], str[y], x = y, set), Stripped(value[y], set).both)

Recases(x, y, upper) == Becomes(x, Recased(str[x], str[y], x = y, upper), InCase(value[y], upper))

StringsDone == edits = MaxEdits /\ UNCHANGED stringVars

StringNext ==
    \/ \E x \in {"s", "t"}, y \in {"s", "t"}, i, j \in 0..(MaxLength + 1) :
          AppendsSubstr(x, y, i, j) \/ SetsSubstr(x, y, i, j)
    \/ \E x \in {"s", "t"}, y \in {"s", "t"} : Appends(x, y) \/ Sets(x, y)
    \/ \E x \in {"s", "t"}, y \in {"s", "t"}, upper \in BOOLEAN : Recases(x, y, upper)
    \/ \E x \in {"s", "t"}, c \in Chars, n \in 0..MaxLength :
          Resizes(x, n, c) \/ AppendsChar(x, c) \/ SetsChar(x, c)
    \/ \E x \in {"s", "t"}, y \in {"s", "t"}, c, d \in Chars : Trims(x, y, <<c, d>>)
    \/ StringsDone

StringSpec == StringInit /\ [][StringNext]_stringVars

-----------------------------------------------------------------------------
(* Properties.                                                             *)

StringTypeOK == /\ \A x \in {"s", "t"} : str[x].length \in 1..Len(str[x].data)
                /\ \A x \in {"s", "t"} : value[x] \in Seq(1..255)
                /\ edits \in 0..MaxEdits

\* After any calls each string holds what they say, terminated where its length says, with
\* nothing of an earlier, longer text and nothing that was never written: the functions of
\* string.c that cut, move and grow a buffer in place.  What string_set_substr makes of a
\* string and an empty portion of itself is left out: it is only terminated.
StringsAreValues == \A x \in {"s", "t"} : Contents(str[x]) = Append(value[x], 0)

\* Every search of string.c for the text or the characters of one string in the other
\* returns the first or the last match from where it starts, and -1 only without one.
\* string_compare_* tell equal strings, in either mode, and order those of ASCII.
SearchesAreExact ==
    /\ \A start \in 0..(MaxLength + 1) : FindsExactly(Text(str["s"]), Text(str["t"]), start)
    /\ \A sensitive \in BOOLEAN : ComparesExactly(Text(str["s"]), Text(str["t"]), sensitive)

\* string_split gives pieces that with their delimiters make the text, no more than its
\* limit, and overlooks the delimiter only at the very end of the text (a limit of one
\* aside, for which it counts two).
SplitIsExact == \A start \in 0..Len(Text(str["s"])), max \in {0, 2, 3} :
                    Text(str["t"]) # <<>> => SplitsExactly(Text(str["s"]), start, Text(str["t"]), max)
=============================================================================
