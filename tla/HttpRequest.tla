---------------------------- MODULE HttpRequest ----------------------------
(***************************************************************************)
(* http_request_parse of src/shared/http.c: a loop that reads what the     *)
(* socket has, at most CHUNK_READ_SIZE bytes at a time, and looks for the  *)
(* line ends in what it has read so far.  How the bytes of a request are   *)
(* split over the reads is up to the network.  One http_request is used    *)
(* for one request after another.                                          *)
(*                                                                         *)
(* A byte is CR, LF or any other.  What a line says is data of the message:*)
(* whether it has the three words of a request line, or the name and the   *)
(* values of a header.  A value is a length, or NotANumber.                *)
(***************************************************************************)
EXTENDS HttpHeaders, Integers

CONSTANTS Messages,   \* what clients send
          Names,      \* the names of headers
          Chunk,      \* CHUNK_READ_SIZE
          MaxRead     \* MAX_SOCKET_READ_SIZE_IN_CHUNKS * CHUNK_READ_SIZE

NotANumber == -1
NoName == "no colon"

Bytes == {"CR", "LF", "other"}

\* The line in bytes from..to-1 (counted from 0), without its line end.
Lines == [from : Nat, to : Nat, words : BOOLEAN, name : Names \union {NoName},
          values : Seq(Nat \union {NotANumber})]

ASSUME SizeAssumption == Chunk \in Nat \ {0} /\ MaxRead \in Nat \ {0}
VARIABLES msg,                      \* what the client sends on the connection
          read,                     \* how much of it is in read_buf
          ended,                    \* a read has returned 0 or an error
          parsing,                  \* where http_request_parse is
          end_of_last_line,
          found_request_line,
          found_end_of_header,
          start_of_body,
          max_read_length,
          expected_content_length,
          headers                   \* request->headers

scanVars == <<end_of_last_line, found_request_line, found_end_of_header, start_of_body,
              max_read_length, expected_content_length, headers>>
requestVars == <<msg, read, ended, parsing, scanVars>>

RequestTypeOK == /\ msg \in Messages
                 /\ read \in 0..Len(msg.bytes)
                 /\ ended \in BOOLEAN
                 /\ parsing \in {"idle", "read", "scan", "accepted", "rejected"}
                 /\ end_of_last_line \in 0..Len(msg.bytes)
                 /\ found_request_line \in BOOLEAN
                 /\ found_end_of_header \in BOOLEAN
                 /\ start_of_body \in 0..Len(msg.bytes)
                 /\ max_read_length \in Nat
                 /\ expected_content_length \in Nat
                 /\ headers \in HeadersOf(Names, Nat \union {NotANumber})

RequestInit == /\ msg \in Messages
               /\ read = 0
               /\ ended = FALSE
               /\ parsing = "idle"
               /\ end_of_last_line = 0
               /\ found_request_line = FALSE
               /\ found_end_of_header = FALSE
               /\ start_of_body = 0
               /\ max_read_length = MaxRead
               /\ expected_content_length = 0
               /\ headers = NoHeaders

\* A connection on which the client sends m; http_request_parse is called.
ParseBegin(m) == /\ msg' = m
                 /\ read' = 0
                 /\ ended' = FALSE
                 /\ parsing' = "read"
                 /\ end_of_last_line' = 0
                 /\ found_request_line' = FALSE
                 /\ found_end_of_header' = FALSE
                 /\ start_of_body' = 0
                 /\ max_read_length' = MaxRead
                 /\ expected_content_length' = 0
                 /\ headers' = HeadersClear(headers)

-----------------------------------------------------------------------------
(* The outer loop.                                                         *)

\* Mutant of Read: the scan goes on with the bytes of this read only.
ReadForgets(n) == /\ parsing = "read"
                  /\ read < max_read_length
                  /\ n \in 1..Chunk
                  /\ read + n <= Len(msg.bytes)
                  /\ read' = read + n
                  /\ parsing' = IF found_request_line /\ found_end_of_header THEN "read" ELSE "scan"
                  /\ end_of_last_line' = read
                  /\ UNCHANGED <<msg, ended, found_request_line, found_end_of_header, start_of_body,
                                 max_read_length, expected_content_length, headers>>

\* stream_read_buffer returns n bytes.
Read(n) == /\ parsing = "read"
           /\ read < max_read_length
           /\ n \in 1..Chunk
           /\ read + n <= Len(msg.bytes)
           /\ read' = read + n
           /\ parsing' = IF found_request_line /\ found_end_of_header THEN "read" ELSE "scan"
           /\ UNCHANGED <<msg, ended, scanVars>>

ReadFails == /\ parsing = "read"
             /\ read < max_read_length
             /\ parsing' = "rejected"
             /\ ended' = TRUE
             /\ UNCHANGED <<msg, read, scanVars>>

\* What http_request_parse returns after the loop.
Result == IF found_end_of_header /\ read - start_of_body = expected_content_length
          THEN "accepted" ELSE "rejected"

\* The client has closed its side: stream_read_buffer returns 0.
ReadEnd == /\ parsing = "read"
           /\ read < max_read_length
           /\ parsing' = Result
           /\ ended' = TRUE
           /\ UNCHANGED <<msg, read, scanVars>>

ReadEnough == /\ parsing = "read"
              /\ read >= max_read_length
              /\ parsing' = Result
              /\ UNCHANGED <<msg, read, ended, scanVars>>

-----------------------------------------------------------------------------
(* The inner loop, one line per step.                                      *)

At(i) == msg.bytes[i + 1]

\* The line ends in what has been read and not yet scanned.
LineEnds == {i \in end_of_last_line..(read - 2) : At(i) = "CR" /\ At(i + 1) = "LF"}

IsNextLineEnd(i) == i \in LineEnds /\ \A j \in LineEnds : i <= j

NoSuchLine == [from |-> 0, to |-> 0, words |-> FALSE, name |-> NoName, values |-> <<>>]

\* What the line from end_of_last_line to i says.
LineTo(i) == LET found == {k \in 1..Len(msg.lines) : /\ msg.lines[k].from = end_of_last_line
                                                     /\ msg.lines[k].to = i}
             IN  IF found = {} THEN NoSuchLine ELSE msg.lines[CHOOSE k \in found : TRUE]

ScanNothing == /\ parsing = "scan"
               /\ LineEnds = {}
               /\ parsing' = "read"
               /\ UNCHANGED <<msg, read, ended, scanVars>>

Reject == parsing' = "rejected" /\ UNCHANGED <<msg, read, ended, scanVars>>

ScanRequestLine(i) ==
    /\ parsing = "scan"
    /\ IsNextLineEnd(i)
    /\ ~found_request_line
    /\ \/ ~LineTo(i).words /\ Reject
       \/ /\ LineTo(i).words
          /\ found_request_line' = TRUE
          /\ end_of_last_line' = i + 2
          /\ UNCHANGED <<msg, read, ended, parsing, found_end_of_header, start_of_body,
                         max_read_length, expected_content_length, headers>>

ScanHeader(i) ==
    /\ parsing = "scan"
    /\ IsNextLineEnd(i)
    /\ found_request_line /\ i # end_of_last_line
    /\ \/ LineTo(i).name = NoName /\ Reject
       \/ /\ LineTo(i).name # NoName
          /\ LET ensured == HeadersEnsure(headers, LineTo(i).name)
                 at == HeadersGet(ensured, LineTo(i).name)
             IN  headers' = [ensured EXCEPT !.slots[at].values = @ \o LineTo(i).values]
          /\ end_of_last_line' = i + 2
          /\ UNCHANGED <<msg, read, ended, parsing, found_request_line, found_end_of_header,
                         start_of_body, max_read_length, expected_content_length>>

\* Mutant of ReadUpTo: the loop asks for one byte more than the body has.
ReadUpToMore(i, n) == i + n + 3

\* max_read_length once the line that ends the header is found at i.
ReadUpTo(i, n) == i + n

\* The empty line: Content-Length says how much is left to read.
ScanEndOfHeader(i) ==
    LET lengths == ValuesOf(headers, "Content-Length")
    IN  /\ parsing = "scan"
        /\ IsNextLineEnd(i)
        /\ found_request_line /\ i = end_of_last_line
        /\ \/ /\ HeadersGet(headers, "Content-Length") # 0
              /\ Len(lengths) # 1 \/ lengths[1] = NotANumber
              /\ Reject
           \/ /\ \/ /\ HeadersGet(headers, "Content-Length") = 0
                    /\ expected_content_length' = 0
                    /\ max_read_length' = read
                 \/ /\ Len(lengths) = 1 /\ lengths[1] # NotANumber
                    /\ expected_content_length' = lengths[1]
                    /\ max_read_length' = ReadUpTo(i, lengths[1])
              /\ found_end_of_header' = TRUE
              /\ start_of_body' = i + 2
              /\ parsing' = "read"
              /\ UNCHANGED <<msg, read, ended, end_of_last_line, found_request_line, headers>>

Parse == \/ \E n \in 1..Chunk : Read(n)
         \/ ReadFails \/ ReadEnd \/ ReadEnough \/ ScanNothing
         \/ \E i \in LineEnds : ScanRequestLine(i) \/ ScanHeader(i) \/ ScanEndOfHeader(i)

-----------------------------------------------------------------------------
(* What a request is, without reads: the lines of a message are those of   *)
(* its head, and an empty line ends the head.                              *)

LineEndsAt(m, i) == /\ i + 2 <= Len(m.bytes)
                    /\ m.bytes[i + 1] = "CR" /\ m.bytes[i + 2] = "LF"

\* Where the k-th line starts.
LineStart(m, k) == IF k = 1 THEN 0 ELSE m.lines[k - 1].to + 2

\* The k-th line ends at the first line end after its start.  A line that is empty says
\* nothing; a header that has a name has a value.
IsLine(m, k) == LET line == m.lines[k]
                IN  /\ line.from = LineStart(m, k) /\ line.from <= line.to
                    /\ LineEndsAt(m, line.to)
                    /\ \A i \in line.from..(line.to - 1) : ~LineEndsAt(m, i)
                    /\ line.from = line.to => line.name = NoName /\ ~line.words
                    /\ line.name # NoName => line.values # <<>>

HasHead(m) == m.lines # <<>> /\ m.lines[Len(m.lines)].from = m.lines[Len(m.lines)].to

HeadLength(m) == m.lines[Len(m.lines)].to + 2

HeaderLines(m) == 2..(Len(m.lines) - 1)

\* The lines of a message are the lines of its bytes up to the first empty one, or all.
LinesOfHead(m) ==
    /\ \A k \in 1..Len(m.lines) : IsLine(m, k)
    /\ \A k \in 1..(Len(m.lines) - 1) : m.lines[k].from # m.lines[k].to
    /\ HasHead(m) \/ \A i \in LineStart(m, Len(m.lines) + 1)..Len(m.bytes) : ~LineEndsAt(m, i)

ASSUME MessageAssumption ==
    /\ \A m \in Messages : /\ m.bytes \in Seq(Bytes) /\ m.lines \in Seq(Lines)
                           /\ LinesOfHead(m)
    /\ "Content-Length" \in Names /\ NoName \notin Names

\* The values given for a name in the lines up to the k-th, in their order.
ValuesTo(m, name) ==
    LET upTo[k \in 1..Len(m.lines)] ==
            IF k = 1 THEN <<>>
            ELSE IF m.lines[k].name = name THEN upTo[k - 1] \o m.lines[k].values ELSE upTo[k - 1]
    IN  upTo

ValuesIn(m, name) == ValuesTo(m, name)[Len(m.lines)]

ContentLength(m) == IF ValuesIn(m, "Content-Length") = <<>> THEN 0
                    ELSE ValuesIn(m, "Content-Length")[1]

\* The first n bytes of m are one whole request.
WholeRequest(m, n) ==
    /\ HasHead(m)
    /\ Len(m.lines) > 1 /\ m.lines[1].words
    /\ \A k \in HeaderLines(m) : m.lines[k].name # NoName
    /\ Len(ValuesIn(m, "Content-Length")) <= 1
    /\ ContentLength(m) # NotANumber
    /\ n = HeadLength(m) + ContentLength(m)

-----------------------------------------------------------------------------
(* Properties.                                                             *)

\* http_request_parse succeeds only for a whole request, and its headers are those of
\* this request's lines: however the reads split them, and whatever the request that
\* used the structure before has left in its slots.
AcceptedIsWhole ==
    parsing = "accepted" =>
        /\ WholeRequest(msg, read)
        /\ start_of_body = HeadLength(msg)
        /\ \A name \in Names : ValuesOf(headers, name) = ValuesIn(msg, name)

\* The client sends one whole request, which the head of at most MaxRead bytes begins, and
\* keeps its side of the connection open.
SendsWhole == WholeRequest(msg, Len(msg.bytes)) /\ HeadLength(msg) <= MaxRead /\ ~ended

\* A client that has sent its whole request waits for the response: http_request_parse
\* does not read again once it has all the bytes.
NeverWaitsForMore == parsing = "read" /\ SendsWhole /\ read = Len(msg.bytes)
                         => read >= max_read_length

\* A whole request is rejected only when a read ends one or two bytes before the end
\* of its body: line ends are found wherever the reads split them.
RejectedOnlyIfCut ==
    parsing = "rejected" /\ SendsWhole =>
        /\ read \in {Len(msg.bytes) - 2, Len(msg.bytes) - 1}
        /\ read >= HeadLength(msg)

\* http.c:268-269, "either way we know exactly how many more bytes to read": a whole
\* request is read to its end and accepted.
WholeIsAccepted == SendsWhole => parsing # "rejected"
=============================================================================
