---------------------------- MODULE HttpResponse ----------------------------
(***************************************************************************)
(* http_response of src/shared/http.c: the handler sets its status, adds   *)
(* headers and writes to its body, in any order; http_response_write makes *)
(* Content-Length right and writes it to the connection.  One structure is *)
(* used for one response after another.                                    *)
(*                                                                         *)
(* A byte of the body is the number of the response it was written for.    *)
(***************************************************************************)
EXTENDS HttpHeaders, BufferStream, Integers

CONSTANTS ResponseNames,   \* the names of headers the handler sets
          ResponseValues,  \* the values it gives them
          Statuses,        \* the status codes it sets
          MaxBody          \* bound: the length of a body

\* The value of a header: the number sscanf reads at its start with "%zu", -1 if there is none,
\* and whether the value is no more than that number, as "%zu" prints it.
HeaderText == [scanned : Nat \union {-1}, exact : BOOLEAN]

ASSUME ResponseAssumption == /\ ResponseValues \subseteq HeaderText
                             /\ Statuses \subseteq Nat
                             /\ MaxBody \in Nat

VARIABLES status,            \* response->status_code
          response_headers,  \* response->headers
          body,              \* response->body_buffer
          position,          \* of response->body_stream
          wire,              \* what the connection has been sent
          asked              \* history: the values the handler has given to each name, in order

responseVars == <<status, response_headers, body, position, wire, asked>>

NothingAsked == [name \in ResponseNames |-> <<>>]

NoWire == [status |-> 0, headers |-> <<>>, body |-> <<>>, complete |-> FALSE]

ResponseTypeOK == /\ status \in Nat
                  /\ response_headers \in HeadersOf(ResponseNames \union {"Content-Length"}, HeaderText)
                  /\ body \in BuffersOf(Nat) /\ body.length <= MaxBody
                  /\ position \in 0..body.length
                  /\ wire.complete \in BOOLEAN
                  /\ asked \in [ResponseNames -> Seq(ResponseValues)]

ResponseInit == /\ status = 200
                /\ response_headers = NoHeaders
                /\ body = EmptyBuffer
                /\ position = 0
                /\ wire = NoWire
                /\ asked = NothingAsked

\* A new connection.
ResponseBegin == /\ wire' = NoWire
                 /\ UNCHANGED <<status, response_headers, body, position, asked>>

\* Mutant of ResponseClear: the position of the stream is not reset.
ResponseClearKeepsPosition(code) ==
    /\ status' = code
    /\ response_headers' = HeadersClear(response_headers)
    /\ body' = BufferClear(body)
    /\ asked' = NothingAsked
    /\ UNCHANGED <<position, wire>>

\* http_response_clear, and the status that is set next.
ResponseClear(code) == /\ status' = code
                       /\ response_headers' = HeadersClear(response_headers)
                       /\ body' = BufferClear(body)
                       /\ position' = PositionIn(BufferClear(body), 0)
                       /\ asked' = NothingAsked
                       /\ UNCHANGED wire

-----------------------------------------------------------------------------
(* What a handler does with the structure.                                 *)

SetStatus(code) == /\ status' = code
                   /\ UNCHANGED <<response_headers, body, position, wire, asked>>

AddHeader(name, v) == /\ response_headers' = HeadersAppend(response_headers, name, v)
                      /\ asked' = [asked EXCEPT ![name] = Append(@, v)]
                      /\ UNCHANGED <<status, body, position, wire>>

\* stream_write to the body, of k bytes that belong to response n.
WriteBody(k, n) == /\ position + k <= MaxBody
                   /\ body' = WriteAt(body, position, [i \in 1..k |-> n])
                   /\ position' = position + k
                   /\ UNCHANGED <<status, response_headers, wire, asked>>

SeekBody(pos) == /\ position' = PositionIn(body, pos)
                 /\ UNCHANGED <<status, response_headers, body, wire, asked>>

-----------------------------------------------------------------------------
(* http_response_write.                                                    *)

Printed(n) == [scanned |-> n, exact |-> TRUE]

\* Mutant of FixContentLength: a header that has one value is not looked at.
FixContentLengthMissing(hs, n) ==
    LET ensured == HeadersEnsure(hs, "Content-Length")
        at == HeadersGet(ensured, "Content-Length")
    IN  IF Len(HeaderValues(ensured, at)) = 1 THEN ensured
        ELSE HeaderAppend(HeaderClear(ensured, at), at, Printed(n))

\* The headers with one Content-Length, from whose value n is scanned: one that starts with n
\* is kept, whatever follows the number.
FixContentLength(hs, n) ==
    LET ensured == HeadersEnsure(hs, "Content-Length")
        at == HeadersGet(ensured, "Content-Length")
        values == HeaderValues(ensured, at)
    IN  IF Len(values) = 1 /\ values[1].scanned = n THEN ensured
        ELSE HeaderAppend(HeaderClear(ensured, at), at, Printed(n))

\* The status line, each header, the separator and the body are written; the k-th of
\* these writes, if there is one, fails and is the last.
WriteResponse(k) ==
    LET fixed == FixContentLength(response_headers, body.length)
        sent == SubSeq(fixed.slots, 1, fixed.length)
        all == fixed.length + 3
    IN  /\ k \in 1..(all + 1)
        /\ response_headers' = fixed
        /\ wire' = [status |-> IF k > 1 THEN status ELSE 0,
                    headers |-> SubSeq(sent, 1, IF k < 2 THEN 0 ELSE
                                                IF k - 2 > fixed.length THEN fixed.length ELSE k - 2),
                    body |-> IF k > all THEN Contents(body) ELSE <<>>,
                    complete |-> k > all]
        /\ UNCHANGED <<status, body, position, asked>>

-----------------------------------------------------------------------------
(* Properties.                                                             *)

\* Where a name is among the headers on the wire.
OnWire(name) == {i \in 1..Len(wire.headers) : wire.headers[i].name = name}

\* Whether the handler set the header of that name to v and to nothing else.
OnlyAsked(name, v) == name \in ResponseNames /\ asked[name] = <<v>>

\* A response that is sent has one Content-Length with one value, from which the length of
\* the body that follows is scanned, wherever the handler left the stream.  It is exactly
\* that length, unless it is the one value that the handler gave it (http.c:530-550).
ContentLengthIsRight ==
    wire.complete => \E i \in OnWire("Content-Length") :
                        LET values == wire.headers[i].values
                        IN  /\ OnWire("Content-Length") = {i}
                            /\ Len(values) = 1
                            /\ values[1].scanned = Len(wire.body)
                            /\ values[1].exact \/ OnlyAsked("Content-Length", values[1])

\* What http.c says of the fix-up, "check to see if the content length header is already set
\* to the correct value": the value that is sent is the length of the body and no more.
ContentLengthIsExact ==
    wire.complete => \A i \in OnWire("Content-Length") :
                        wire.headers[i].values = <<Printed(Len(wire.body))>>

\* The headers that are sent are those set for this response, each name once and with
\* all its values in order, though the slots have been used before.
HeadersAreAsked ==
    \A i \in 1..Len(wire.headers) :
        LET h == wire.headers[i]
        IN  /\ OnWire(h.name) = {i}
            /\ h.name # "Content-Length" => h.values = asked[h.name] /\ h.values # <<>>

\* Every byte of a body that is sent was written for this response (number n): none is
\* left from an earlier one or never written.
BodyIsFresh(n) == \A i \in 1..Len(wire.body) : wire.body[i] = n
=============================================================================
