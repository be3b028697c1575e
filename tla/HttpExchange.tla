---------------------------- MODULE HttpExchange ----------------------------
(***************************************************************************)
(* http_server_task of src/shared/http.c as one task_data sees it, which   *)
(* serves one connection after another: the request is parsed, the handler *)
(* fills in the response, or a response with status 400 or 500 replaces    *)
(* it, and the response is written.  HttpServer has the threads and the    *)
(* descriptors of this and abstracts the messages; here the messages are   *)
(* followed and a task_data has one user.                                  *)
(***************************************************************************)
EXTENDS HttpRequest, HttpResponse

CONSTANTS MaxExchanges,  \* bound: how many connections are served
          MaxOps         \* bound: what a handler does before it returns

ASSUME ExchangeAssumption == MaxExchanges \in Nat /\ MaxOps \in Nat

VARIABLES step,      \* where http_server_task is
          exchange,  \* the number of the connection
          ops        \* how much its handler has done

vars == <<requestVars, responseVars, step, exchange, ops>>

Init == /\ RequestInit
        /\ ResponseInit
        /\ step = "idle"
        /\ exchange = 0
        /\ ops = 0

\* A connection is given to the task_data, and a worker starts http_server_task.
Begin(m) == /\ step = "idle"
            /\ exchange < MaxExchanges
            /\ ParseBegin(m)
            /\ ResponseBegin
            /\ step' = "parse"
            /\ exchange' = exchange + 1
            /\ ops' = 0

ParseStep == /\ step = "parse"
             /\ Parse
             /\ UNCHANGED <<responseVars, step, exchange, ops>>

\* Mutant of Parsed: the response to a request that is rejected is not cleared.
ParsedKeeps == /\ step = "parse"
               /\ \/ parsing = "accepted" /\ ResponseClear(200) /\ step' = "handle"
                  \/ parsing = "rejected" /\ SetStatus(400) /\ step' = "write"
               /\ UNCHANGED <<requestVars, exchange, ops>>

Parsed == /\ step = "parse"
          /\ \/ parsing = "accepted" /\ ResponseClear(200) /\ step' = "handle"
             \/ parsing = "rejected" /\ ResponseClear(400) /\ step' = "write"
          /\ UNCHANGED <<requestVars, exchange, ops>>

\* One thing the handler does to the response.
HandlerActs == /\ step = "handle"
               /\ ops < MaxOps
               /\ \/ \E code \in Statuses : SetStatus(code)
                  \/ \E name \in ResponseNames, v \in ResponseValues : AddHeader(name, v)
                  \/ \E k \in 1..MaxBody : WriteBody(k, exchange)
                  \/ \E pos \in 0..MaxBody : SeekBody(pos)
               /\ ops' = ops + 1
               /\ UNCHANGED <<requestVars, step, exchange>>

HandlerReturns == /\ step = "handle"
                  /\ step' = "write"
                  /\ UNCHANGED <<requestVars, responseVars, exchange, ops>>

HandlerFails == /\ step = "handle"
                /\ step' = "write"
                /\ ResponseClear(500)
                /\ UNCHANGED <<requestVars, exchange, ops>>

\* http_server_finalize_task
Finalize == /\ step = "write"
            /\ \E k \in 1..(response_headers.length + 5) : WriteResponse(k)
            /\ step' = "idle"
            /\ UNCHANGED <<requestVars, exchange, ops>>

Done == step = "idle" /\ exchange = MaxExchanges /\ UNCHANGED vars

Next == \/ \E m \in Messages : Begin(m)
        \/ ParseStep \/ Parsed
        \/ HandlerActs \/ HandlerReturns \/ HandlerFails
        \/ Finalize
        \/ Done

Spec == Init /\ [][Next]_vars

-----------------------------------------------------------------------------
(* Properties, with those of HttpRequest and HttpResponse.                 *)

\* Each variable has its type.
TypeOK == /\ RequestTypeOK
          /\ ResponseTypeOK
          /\ step \in {"idle", "parse", "handle", "write"}
          /\ exchange \in 0..MaxExchanges
          /\ ops \in 0..MaxOps

\* A response that is sent carries no byte of an earlier exchange.  A request that was
\* not accepted is answered with 400, and a response with 400 or 500, unless the handler
\* chose that status itself, has no body and no headers of the handler.
ResponseIsFresh ==
    /\ BodyIsFresh(exchange)
    /\ (wire.complete /\ parsing = "rejected") => wire.status = 400
    /\ (wire.complete /\ wire.status \in {400, 500} \ Statuses)
           => (wire.body = <<>> /\ Len(wire.headers) = 1)
=============================================================================
