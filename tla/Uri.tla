-------------------------------- MODULE Uri --------------------------------
(***************************************************************************)
(* The parser and the printer of src/shared/uri.c, on a uri structure that *)
(* is parsed into again and again.  A text to parse ends with the 0 of its *)
(* string, as that of uri_parse_str and uri_parse_cstr does.               *)
(***************************************************************************)
EXTENDS UriEscapes

CONSTANTS FirstTexts, \* texts a structure is parsed from first
          UriTexts,   \* texts it is parsed from then
          PortLimit,  \* 65536: the first number that is no port
          IntLimit,   \* 2^31 and 2^63: the first numbers that are no int and no long
          LongLimit,
          MaxParses   \* bound: calls of the parser on other texts than a printed one

ASSUME UriAssumption == /\ FirstTexts \cup UriTexts \subseteq Seq(1..255)
                        /\ IntLimit \in Nat \ {0} /\ PortLimit \in 0..IntLimit
                        /\ LongLimit \in Nat /\ IntLimit <= LongLimit
                        /\ MaxParses \in Nat

VARIABLES u,       \* the structure
          given,   \* history: the text it was last parsed from
          result,  \* history: what the parser returned: 0, 1, or -1 when not called
          before,  \* history: the structure before, when given is what it was printed as
          parses   \* history: how many calls of the parser there were

uriVars == <<u, given, result, before, parses>>

Components == {"scheme", "authority", "userinfo", "host", "port", "path", "query", "fragment"}

\* uri_init: has, the has_ flags that are set, the strings, and the number of the port
EmptyUri == [has |-> {}, text |-> [c \in Components |-> <<>>], port |-> 0]

\* The characters : / ? # @, and those of a scheme after its first
Colon == 58
Slash == 47
Question == 63
Hash == 35
AtSign == 64
SchemeChars == Letters \cup {43, 45, 46}

-----------------------------------------------------------------------------
(* uri_parse_cstr_len.  Positions count from 0; those of a text of n       *)
(* characters end at n.                                                    *)

\* The characters from i until j, where the 0 at the end can be read as well.
Slice(t, i, j) == SubSeq(Append(t, 0), i + 1, j)
CharAt(t, i) == IF i < Len(t) THEN t[i + 1] ELSE 0

\* The first of the characters in set from i on, the end if there is none.
EndAt(t, set, i) == LET at == IndexOfAny(t, set, i) IN IF at = NotFound THEN Len(t) ELSE at

DoubleSlash(t, i) == i + 2 <= Len(t) /\ t[i + 1] = Slash /\ t[i + 2] = Slash

\* Where the scheme ends, which has its ":" or "://"; 0 for no scheme.
SchemeEnd(t) ==
    LET ends == {i \in 1..(Len(t) - 1) : t[i + 1] \notin SchemeChars}
        colon == Upwards(ends, 1, Len(t) - 1)
    IN  IF CharAt(t, 0) \notin Letters \/ colon = NotFound THEN 0
        ELSE IF t[colon + 1] # Colon THEN 0
        ELSE IF DoubleSlash(t, colon + 1) THEN colon + 3 ELSE colon + 1

\* The number whose digits have these values.
NumberOf(values, base) ==
    LET number[k \in 0..Len(values)] == IF k = 0 THEN 0 ELSE base * number[k - 1] + values[k]
    IN  number[Len(values)]

\* The number that a text of digits is; NotFound for none.
DigitsNumber(digits, base) ==
    LET values == [k \in DOMAIN digits |-> HexValue(digits[k])]
    IN  IF \E k \in DOMAIN values : values[k] \notin 0..(base - 1) THEN NotFound
        ELSE NumberOf(values, base)

\* "%i": the base is that of the prefix.
UnsignedNumber(s) == IF s = <<>> THEN NotFound
                     ELSE IF s[1] # 48 THEN DigitsNumber(s, 10)
                     ELSE IF Len(s) > 1 /\ s[2] \in {88, 120} THEN DigitsNumber(SubSeq(s, 3, Len(s)), 16)
                     ELSE DigitsNumber(s, 8)

\* What "%i" stores for a number: the nearest long, cut to an int.
IntOf(z) ==
    LET long == IF z >= LongLimit THEN LongLimit - 1 ELSE IF z < -LongLimit THEN -LongLimit ELSE z
    IN  ((long + IntLimit) % (2 * IntLimit)) - IntLimit

\* sscanf with "%i" of a whole text that starts with no white space; NotFound for no number.
PortNumber(s) ==
    LET signed == s # <<>> /\ s[1] \in {43, 45}
        number == UnsignedNumber(IF signed THEN Tail(s) ELSE s)
    IN  IF number = NotFound THEN NotFound
        ELSE IntOf(IF signed /\ s[1] = 45 THEN -number ELSE number)

\* The white space that sscanf skips.
Spaces == <<32, 9, 10, 11, 12, 13>>

TextLower(s) == [k \in DOMAIN s |-> Lower(s[k])]

\* Where the parts of the authority are, from its first position to its last.
AuthorityAt(t, start, end) ==
    LET within == SubSeq(t, 1, end)
        user == IndexOfAny(within, <<AtSign>>, start)
        last == ReverseIndexOfAny(within, <<Colon>>, end)
        hostStart == IF user = NotFound THEN start ELSE user + 1
        port == IF last < hostStart \/ last = 0 \/ (user # NotFound /\ last = hostStart)
                THEN NotFound ELSE last
    IN  [user |-> user, host |-> hostStart, port |-> port]

HostText(t, at, end) ==
    LET named == TextLower(Slice(t, at.host, IF at.port = NotFound THEN end ELSE at.port))
    IN  TrimmedEnd(TrimmedStart(named, Blanks), Blanks)

PortAt(t, at, end, host) == IF host = <<>> \/ at.port = NotFound THEN NotFound
                            ELSE PortNumber(TrimmedStart(Slice(t, at.port + 1, end), Spaces))

\* The strings of an authority; a port that is no number is of the host.
AuthorityOf(t, start, end, at, host, number) ==
    LET isPort == number \in 0..(PortLimit - 1)
        whole == host # <<>> /\ at.port # NotFound /\ ~isPort
    IN  [has |-> {"authority"} \cup (IF at.user # NotFound THEN {"userinfo"} ELSE {})
                     \cup (IF host # <<>> THEN {"host"} ELSE {})
                     \cup (IF isPort THEN {"port"} ELSE {}),
         text |-> [authority |-> Slice(t, start, end),
                   userinfo |-> IF at.user = NotFound THEN <<>> ELSE Slice(t, start, at.user),
                   host |-> IF whole THEN TextLower(Slice(t, at.host, end)) ELSE host,
                   port |-> IF isPort THEN Slice(t, at.port + 1, end) ELSE <<>>],
         port |-> IF isPort THEN number ELSE 0]

\* An authority that is not empty.
Authority(t, start, end) ==
    LET at == AuthorityAt(t, start, end)
        host == HostText(t, at, end)
    IN  AuthorityOf(t, start, end, at, host, PortAt(t, at, end, host))

NoAuthority == [has |-> {}, text |-> [c \in {} |-> <<>>], port |-> 0]

\* Mutant of Cleared: the strings keep what they held.
ClearedFlags(v) == [v EXCEPT !.has = {}]

\* What the parser does to the structure first.
Cleared(v) == EmptyUri

\* Where the authority starts after a scheme that ends at i, the path after an authority from
\* i on, and what follows a path and a query that start at i.
AuthorityStart(t, i) == IF DoubleSlash(t, i) THEN i + 2 ELSE i
PathStart(t, i) == EndAt(t, <<Slash, Question, Hash>>, i)
PathEnd(t, i) == IF CharAt(t, i) = Slash THEN EndAt(t, <<Question, Hash>>, i + 1) ELSE i

\* A query's first character is not looked at.
QueryEnd(t, i) == IF CharAt(t, i) # Question THEN i
                  ELSE IF i + 2 > Len(t) THEN i + 2 ELSE EndAt(t, <<Hash>>, i + 2)

\* The structure v after a parse of t whose path, query and fragment are at at, and what the
\* parser returns.
Structure(v, t, at, authority) ==
    LET isQuery == CharAt(t, at.query) = Question
        isFragment == CharAt(t, at.fragment) = Hash /\ at.fragment + 1 < Len(t)
        has == (IF at.scheme > 0 THEN {"scheme"} ELSE {}) \cup authority.has
                   \cup (IF at.query > at.path THEN {"path"} ELSE {})
                   \cup (IF isQuery THEN {"query"} ELSE {})
                   \cup (IF isFragment THEN {"fragment"} ELSE {})
        old == Cleared(v).text
        text == [c \in Components |->
                    CASE c = "scheme" -> TextLower(Slice(t, 0, at.scheme))
                      [] c \in DOMAIN authority.text -> authority.text[c]
                      [] c = "path" -> old[c] \o Decode(Slice(t, at.path, at.query))
                      [] c = "query" /\ isQuery ->
                            old[c] \o Decode(Slice(t, at.query + 1, at.fragment))
                      [] c = "fragment" /\ isFragment ->
                            old[c] \o Decode(Slice(t, at.fragment + 1, Len(t)))
                      [] OTHER -> old[c]]
    IN  [uri |-> [has |-> has, text |-> text, port |-> authority.port],
         result |-> IF /\ has \cap {"scheme", "host", "path", "query", "fragment"} # {}
                       /\ isFragment \/ at.fragment = Len(t)
                    THEN 0 ELSE 1]

ParseUri(v, t) ==
    LET scheme == SchemeEnd(t)
        start == AuthorityStart(t, scheme)
        path == PathStart(t, start)
        query == PathEnd(t, path)
    IN  Structure(v, t, [scheme |-> scheme, path |-> path, query |-> query,
                         fragment |-> QueryEnd(t, query)],
                  IF path > start THEN Authority(t, start, path) ELSE NoAuthority)

-----------------------------------------------------------------------------
(* uri_append_to_string *)

Decimal(n) == LET digits[k \in 0..n] == IF k < 10 THEN <<k + 48>>
                                        ELSE digits[k \div 10] \o <<(k % 10) + 48>>
              IN  digits[n]

Part(v, c, text) == IF c \in v.has THEN text ELSE <<>>

\* Mutant of UriString: the path and what follows are written as they are.
UriStringRaw(v) ==
    Part(v, "scheme", v.text["scheme"])
        \o Part(v, "userinfo", v.text["userinfo"] \o <<AtSign>>)
        \o Part(v, "host", v.text["host"])
        \o Part(v, "port", <<Colon>> \o Decimal(v.port))
        \o Part(v, "path", v.text["path"])
        \o Part(v, "query", <<Question>> \o v.text["query"])
        \o Part(v, "fragment", <<Hash>> \o v.text["fragment"])

UriString(v) ==
    Part(v, "scheme", v.text["scheme"])
        \o Part(v, "userinfo", v.text["userinfo"] \o <<AtSign>>)
        \o Part(v, "host", v.text["host"])
        \o Part(v, "port", <<Colon>> \o Decimal(v.port))
        \o Part(v, "path", Encode(v.text["path"]))
        \o Part(v, "query", <<Question>> \o Encode(v.text["query"]))
        \o Part(v, "fragment", <<Hash>> \o Encode(v.text["fragment"]))

-----------------------------------------------------------------------------
UriInit == u = EmptyUri /\ given = <<>> /\ result = -1 /\ before = {} /\ parses = 0

ParsesFrom(t) == /\ LET parsed == ParseUri(u, t) IN u' = parsed.uri /\ result' = parsed.result
            /\ given' = t

UserParses == /\ parses < MaxParses
              /\ \E t \in IF parses = 0 THEN FirstTexts ELSE UriTexts : ParsesFrom(t)
              /\ before' = {}
              /\ parses' = parses + 1

\* The structure is printed, and parsed again from that, last of all.
UserReparses == /\ result = 0 /\ before = {}
                /\ ParsesFrom(UriString(u))
                /\ before' = {u}
                /\ parses' = MaxParses

UriDone == parses = MaxParses /\ UNCHANGED uriVars

UriNext == UserParses \/ UserReparses \/ UriDone

UriSpec == UriInit /\ [][UriNext]_uriVars

-----------------------------------------------------------------------------
(* Properties.                                                             *)

UriTypeOK == /\ u.has \subseteq Components /\ u.port \in 0..(PortLimit - 1)
             /\ \A c \in Components : u.text[c] \in Seq(0..255)
             /\ result \in -1..1 /\ parses \in 0..MaxParses

\* A text that is accepted is its components, up to case and escapes, whatever was parsed
\* into the structure before: no character is dropped (but "//"), none is in two of them,
\* and nothing of an earlier text is left in a component.  An authority with a host is its
\* user info, its host and its port, but for blanks.
ComponentsAreTheText ==
    result = 0 =>
        LET Marked(c, mark) == Part(u, c, <<mark>> \o u.text[c])
            rest == u.text["path"] \o Marked("query", Question) \o Marked("fragment", Hash)
            user == Part(u, "userinfo", u.text["userinfo"] \o <<AtSign>>)
        IN  /\ \E slashes \in {<<>>, <<Slash, Slash>>} :
                  TextLower(Decode(given)) =
                      TextLower(Decode(u.text["scheme"] \o slashes \o u.text["authority"]) \o rest)
            /\ "host" \in u.has /\ IndexOfAny(given, Blanks, 0) = NotFound =>
                  TextLower(u.text["authority"]) =
                      TextLower(user \o u.text["host"] \o Marked("port", Colon))

\* What the printer writes is parsed into the same components, unless a component holds
\* what begins a later one, which the printer does not escape, or the authority, whose
\* "//" it does not write, is taken for a scheme or the path for an authority.
PrintedParsesBack ==
    \A v \in before :
        LET Has(c, set, i) == IndexOfAny(v.text[c], set, i) # NotFound
            misread == \/ SchemeEnd(given) # Len(v.text["scheme"])
                       \/ v.has \cap {"userinfo", "host"} = {} /\ DoubleSlash(v.text["path"], 0)
                       \/ Has("path", <<Question, Hash>>, 0) \/ Has("query", <<Hash>>, 1)
        IN  misread \/ /\ result = 0
                       /\ u.has \ {"authority"} = v.has \ {"authority"}
                       /\ u.port = v.port
                       /\ \A c \in Components \ {"authority", "port"} : u.text[c] = v.text[c]
=============================================================================
