---------------------------- MODULE MCSequential ----------------------------
(***************************************************************************)
(* The sequential components that share nothing, checked in one run: a     *)
(* behaviour is a behaviour of one of them while the others stay in an     *)
(* initial state.                                                          *)
(***************************************************************************)
EXTENDS MCHttpExchange, MCStreams, Strings, HttpLines, Base64, Uri

VARIABLE component  \* the one that runs

sequentialVars == <<vars, streamVars, stringVars, lineVars, base64Vars, escapeVars, uriVars>>

\* 'A', 'a' and a byte beyond ASCII
MCTexts == [s |-> BoundedSeq({65, 97}, 4), t |-> BoundedSeq({65, 97}, 2) \cup {<<200>>}]

\* ' ', 'a', ':' and ','
MCRequestLines == BoundedSeq({32, 97}, 9)
MCHeaderLines == BoundedSeq({32, 97, 58, 44}, 5)

MCPlain == UNION {[1..n -> {0, 255}] : n \in 0..2}
               \cup {<<99, 180, 23>>, <<255, 255, 255, 255>>, <<1, 2, 3, 4, 5, 6>>, <<251, 240>>}

\* blocks of 'A', '=' and '!', of 'z' and '/'; two blocks; no whole block
MCCodes == LET blocks == [1..4 -> {65, 61}]
               first == <<65, 65, 65, 65>>
           IN  [1..4 -> {65, 61, 33}] \cup [1..4 -> {47, 122}] \cup BoundedSeq({65}, 6)
                   \cup {b \o <<65, 65, 65, 61>> : b \in blocks} \cup {first \o b : b \in blocks}

\* '%', '4', 'a', ' ' and a byte beyond ASCII
MCPlainTexts == BoundedSeq({37, 52, 97, 32, 200}, 3)

\* "a://b@c:1/d?e#f"
MCFirstTexts == {<<>>, <<97, 58, 47, 47, 98, 64, 99, 58, 49, 47, 100, 63, 101, 35, 102>>}

\* Of A : / @ ? # 1; authorities of a : @ 1 0 - and ' '; paths with escapes of / ? and "%2";
\* "/%2541", whose path is "/%41"; "//a:0X1", whose port is 1, as it is of "//a:\n1" and of
\* "//a:33" and "//a:-31" with an int of five bits; "//a:66", which is no long of seven
MCUriTexts == BoundedSeq({65, 58, 47, 64, 63, 35, 49}, 4)
                  \cup BoundedSeq({97, 58, 64, 49, 48, 45, 32}, 4)
                  \cup {<<47>> \o t : t \in BoundedSeq({37, 50, 51, 70, 35}, 4)}
                  \cup {<<47, 37, 50, 53, 52, 49>>} \cup
                  {<<47, 47, 97, 58>> \o t : t \in {<<48, 88, 49>>, <<10, 49>>, <<51, 51>>,
                                                 <<45, 51, 49>>, <<54, 54>>}}

SequentialInit ==
    /\ component \in {"exchange", "streams", "strings", "lines", "base64", "escapes", "uri"}
    /\ Init /\ (component = "exchange" \/ msg = Message(<<Blank>>, <<>>))
    /\ StreamInit /\ (component = "streams" \/ (input = <<>> /\ source = "buffer"))
    /\ StringInit /\ (component = "strings" \/ value = [s |-> <<>>, t |-> <<>>])
    /\ LinesInit
    /\ Base64Init /\ (component = "base64" \/ CString(text) = <<>>)
    /\ EscapesInit /\ (component = "escapes" \/ appended = <<>>)
    /\ UriInit

SequentialNext ==
    /\ \/ /\ component = "exchange" /\ Next
          /\ UNCHANGED <<streamVars, stringVars, lineVars, base64Vars, escapeVars, uriVars>>
       \/ /\ component = "streams" /\ StreamNext
          /\ UNCHANGED <<vars, stringVars, lineVars, base64Vars, escapeVars, uriVars>>
       \/ /\ component = "strings" /\ StringNext
          /\ UNCHANGED <<vars, streamVars, lineVars, base64Vars, escapeVars, uriVars>>
       \/ /\ component = "lines" /\ LinesNext
          /\ UNCHANGED <<vars, streamVars, stringVars, base64Vars, escapeVars, uriVars>>
       \/ /\ component = "base64" /\ Base64Next
          /\ UNCHANGED <<vars, streamVars, stringVars, lineVars, escapeVars, uriVars>>
       \/ /\ component = "escapes" /\ EscapesNext
          /\ UNCHANGED <<vars, streamVars, stringVars, lineVars, base64Vars, uriVars>>
       \/ /\ component = "uri" /\ UriNext
          /\ UNCHANGED <<vars, streamVars, stringVars, lineVars, base64Vars, escapeVars>>
    /\ UNCHANGED component

SequentialSpec == SequentialInit /\ [][SequentialNext]_<<sequentialVars, component>>

\* Each variable of each component has its type.
SequentialTypeOK == /\ TypeOK /\ StreamTypeOK /\ StringTypeOK /\ LinesTypeOK
                    /\ Base64TypeOK /\ EscapesTypeOK /\ UriTypeOK
=============================================================================
