----------------------------- MODULE HttpLines -----------------------------
(***************************************************************************)
(* How http_request_parse of src/shared/http.c takes apart a line of a     *)
(* head: what HttpRequest leaves to the words, name and values of a line.  *)
(* A line is the sequence of its characters without the CRLF.              *)
(***************************************************************************)
EXTENDS StringSearch, SequencesExt

CONSTANTS FirstLines, \* request lines received
          FieldLines   \* header lines received

ASSUME LinesAssumption == FirstLines \cup FieldLines \subseteq Seq(1..255)

VARIABLES line,   \* the line that is parsed
          parsed  \* what it is parsed into, and whether as the first line or as a header

lineVars == <<line, parsed>>

Space == 32
Separator == <<58>>  \* ":"
Comma == <<44>>

\* name and values: of a header, or the method and the uri of a request line.
Rejected(kind) == [kind |-> kind, ok |-> FALSE, name |-> <<>>, values |-> <<>>]

-----------------------------------------------------------------------------
(* The request line.  The found_ flags are set one after the other: phase  *)
(* is how many of them are, 1 and 2 for the method, 3 and 4 for the uri, 5 *)
(* and 6 for the protocol version.                                         *)

\* Mutant of NextPhase: the end of the line does not end the version.
NextPhaseOpen(phase, isSpace, isLast) ==
    IF phase \in {0, 2, 4} /\ ~isSpace THEN phase + 1
    ELSE IF phase \in {1, 3, 5} /\ isSpace THEN phase + 1 ELSE phase

\* The phase after a character.  The version ends at the end of the line only if it began
\* before the last character.
NextPhase(phase, isSpace, isLast) ==
    IF phase \in {0, 2, 4} /\ ~isSpace THEN phase + 1
    ELSE IF phase \in {1, 3, 5} /\ (isSpace \/ (phase = 5 /\ isLast)) THEN phase + 1 ELSE phase

\* The phases after each character.
Phases(t) == LET after[j \in 0..Len(t)] ==
                     IF j = 0 THEN 0
                     ELSE NextPhase(after[j - 1], t[j] = Space, j = Len(t))
             IN  after

WordIn(t, phase) == LET at == {j \in DOMAIN t : Phases(t)[j] = phase}
                    IN  SubSeq(t, FirstOf(at), LastOf(at))

ParseRequestLine(t) == IF Phases(t)[Len(t)] = 6
                       THEN [Rejected("request") EXCEPT !.ok = TRUE, !.name = WordIn(t, 1),
                                                        !.values = <<WordIn(t, 3)>>]
                       ELSE Rejected("request")

-----------------------------------------------------------------------------
(* A header line.                                                          *)

\* The values of rest from start on: split off one by one at a comma.
ValuesFrom(rest) ==
    LET values[start \in 0..Len(rest)] ==
            LET pieces == Split(rest, start, Comma, 2)
            IN  <<Piece(rest, pieces[1])>>
                    \o (IF Len(pieces) = 2 THEN values[pieces[2][1]] ELSE <<>>)
    IN  values[0]

ParseHeaderLine(t) ==
    LET pieces == Split(t, 0, Separator, 2)
    IN  IF Len(pieces) # 2 THEN Rejected("header")
        ELSE [kind |-> "header", ok |-> TRUE, name |-> Piece(t, pieces[1]),
              values |-> ValuesFrom(TrimmedStart(Piece(t, pieces[2]), Blanks))]

-----------------------------------------------------------------------------
LinesInit == line = <<>> /\ parsed = Rejected("none")

LinesNext == \/ /\ parsed.kind = "none"
                /\ \/ \E t \in FirstLines : line' = t /\ parsed' = ParseRequestLine(t)
                   \/ \E t \in FieldLines : line' = t /\ parsed' = ParseHeaderLine(t)
             \/ parsed.kind # "none" /\ UNCHANGED lineVars

LinesSpec == LinesInit /\ [][LinesNext]_lineVars
-----------------------------------------------------------------------------
(* Properties.                                                             *)

LinesTypeOK == /\ line \in Seq(1..255) /\ parsed.name \in Seq(1..255)
               /\ parsed.values \in Seq(Seq(1..255))

\* A request line is accepted exactly when spaces separate three words of it, with
\* something more after the third's first character; its first two are method and uri.
RequestLineIsThreeWords ==
    parsed.kind = "request" =>
        LET Word(i, j) == i < j /\ \A k \in (i + 1)..j : line[k] # Space
            Gap(i, j) == \A k \in (i + 1)..j : line[k] = Space
            places == 0..Len(line)
            IsThree(Fits(_, _, _, _)) ==
                \E a \in places : Gap(0, a) /\ \E b \in places : Word(a, b) /\
                    \E c \in places : b < c /\ Gap(b, c) /\ \E d \in places : Word(c, d) /\
                        \E e \in places : /\ d < e /\ Gap(d, e)
                                          /\ e + 2 <= Len(line) /\ line[e + 1] # Space
                                          /\ Fits(a, b, c, d)
        IN  IF parsed.ok
            THEN IsThree(LAMBDA a, b, c, d : /\ parsed.name = SubSeq(line, a + 1, b)
                                             /\ parsed.values = <<SubSeq(line, c + 1, d)>>)
            ELSE ~IsThree(LAMBDA a, b, c, d : TRUE)

\* A header line is accepted exactly when its first ":" is not its last character.  What is
\* before it is the name; the values, with commas between them, are what is after it and
\* its blanks, and no value has a comma but the last, at its end.
HeaderLineIsNameAndValues ==
    parsed.kind = "header" =>
        LET colon == FirstOf({i \in DOMAIN line : line[i] = 58})
            rest == TrimmedStart(SubSeq(line, colon + 1, Len(line)), Blanks)
            more == Tail(parsed.values)
            joined == Head(parsed.values) \o FlattenSeq([k \in DOMAIN more |-> Comma \o more[k]])
        IN  /\ parsed.ok <=> colon \in 1..(Len(line) - 1)
            /\ parsed.ok => /\ parsed.name = SubSeq(line, 1, colon - 1)
                            /\ joined = rest
                            /\ \A k \in DOMAIN parsed.values : \A i \in DOMAIN parsed.values[k] :
                                  parsed.values[k][i] = 44 =>
                                      k = Len(parsed.values) /\ i = Len(parsed.values[k])

\* Every line of a head is accepted or rejected, and taken apart, as the two say: the
\* flags of the request line's loop and the splits of the header line.
LinesAreTakenApart == RequestLineIsThreeWords /\ HeaderLineIsNameAndValues
=============================================================================
