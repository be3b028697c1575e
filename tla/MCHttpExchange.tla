--------------------------- MODULE MCHttpExchange ---------------------------
(* Instances of HttpExchange for TLC. *)
EXTENDS HttpExchange, TLC, SequencesExt

\* The lines of a head, for the messages below.
RequestLine == [text |-> <<"other", "CR">>, words |-> TRUE, name |-> NoName, values |-> <<>>]
ShortLine == [RequestLine EXCEPT !.words = FALSE]
Header(name, values) == [text |-> <<"other">>, words |-> FALSE, name |-> name, values |-> values]
NoColon == Header(NoName, <<>>)
Blank == [text |-> <<>>, words |-> FALSE, name |-> NoName, values |-> <<>>]

Message(lines, content) ==
    LET text == [k \in 1..Len(lines) |-> lines[k].text \o <<"CR", "LF">>]
        start(k) == Len(FlattenSeq(SubSeq(text, 1, k - 1)))
    IN  [bytes |-> FlattenSeq(text) \o content,
         lines |-> [k \in 1..Len(lines) |->
                       [from |-> start(k), to |-> start(k) + Len(lines[k].text),
                        words |-> lines[k].words, name |-> lines[k].name,
                        values |-> lines[k].values]]]

Length(n) == Header("Content-Length", <<n>>)
Host == Header("Host", <<1, 2>>)

\* A body that looks like a line of a head.
LineBody == <<"other", "CR", "LF", "other">>

MCMessages == {Message(<<RequestLine, Host, Host, Blank>>, <<>>),
               Message(<<RequestLine, Length(0), Blank>>, <<>>),
               Message(<<RequestLine, Length(4), Blank>>, LineBody),
               Message(<<RequestLine, Host, Length(1), Blank>>, <<"other">>),
               \* not whole requests: more and fewer bytes than declared, two lengths, no
               \* number, no colon, no request line, no end of the head
               Message(<<RequestLine, Length(1), Blank>>, LineBody),
               Message(<<RequestLine, Blank>>, LineBody),
               Message(<<RequestLine, Length(4), Blank>>, <<"other">>),
               Message(<<RequestLine, Length(1), Length(1), Blank>>, <<"other">>),
               Message(<<RequestLine, Length(NotANumber), Blank>>, <<>>),
               Message(<<RequestLine, NoColon, Blank>>, <<>>),
               Message(<<ShortLine, Host, Blank>>, <<>>),
               Message(<<Blank>>, <<>>),
               Message(<<RequestLine, Host>>, <<>>),
               \* a head that is longer than what is read of one
               Message(<<RequestLine, Length(1), Host, Host, Blank>>, <<"other">>)}

MCNames == {"Content-Length", "Host"}

MCStatuses == {204}

\* "1", a text that starts with no number, and one that goes on after it, as "1x"
MCResponseValues == {Printed(1), [scanned |-> -1, exact |-> FALSE],
                     [scanned |-> 1, exact |-> FALSE]}
=============================================================================
