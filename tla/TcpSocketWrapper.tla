-------------------------- MODULE TcpSocketWrapper --------------------------
(***************************************************************************)
(* src/shared/tcp_socket_wrapper.c: a listening socket and a thread that   *)
(* waits for connections with select() and hands each descriptor it        *)
(* accepts to a callback.  The thread polls the flag running twice a       *)
(* second; worker-style wakeups are not used.                              *)
(*                                                                         *)
(* This module has the actions of the wrapper; HttpServer composes them    *)
(* with the server whose callback it is.  The kernel's side (the backlog   *)
(* of the listening socket, the table of descriptors) is modelled from     *)
(* how the code uses it: a descriptor closed by one thread may be handed   *)
(* out again by the next accept().                                         *)
(***************************************************************************)
EXTENDS Naturals

CONSTANTS Conns,   \* the connections clients make
          Fds,     \* the descriptors accept() can return
          NoOne    \* no connection, no descriptor

ASSUME ConnectionAssumption == NoOne \notin Conns \union Fds

VARIABLES running,   \* sock_wrap->running
          socket,    \* sock_wrap->socket: "closed" (0) or "open" and listening
          thread,    \* where tcp_socket_wrapper_thread is
          current,   \* its local accepted_socket
          arrived,   \* the connections clients have made
          backlog,   \* those the kernel holds for accept()
          fd         \* the connection each descriptor refers to

tcpVars == <<running, socket, thread, current, arrived, backlog, fd>>

ThreadPCs == {"unborn", "while", "select", "accept", "callback", "exited"}

TcpTypeOK == /\ running \in BOOLEAN
             /\ socket \in {"closed", "open"}
             /\ thread \in ThreadPCs
             /\ current \in Fds \union {NoOne}
             /\ arrived \subseteq Conns /\ backlog \subseteq arrived
             /\ fd \in [Fds -> Conns \union {NoOne}]

TcpInit == /\ running = FALSE
           /\ socket = "closed"
           /\ thread = "unborn"
           /\ current = NoOne
           /\ arrived = {}
           /\ backlog = {}
           /\ fd = [f \in Fds |-> NoOne]

\* A client connects while the socket listens.
ClientConnects(c) == /\ socket = "open"
                     /\ c \notin arrived
                     /\ arrived' = arrived \union {c}
                     /\ backlog' = backlog \union {c}
                     /\ UNCHANGED <<running, socket, thread, current, fd>>

-----------------------------------------------------------------------------
(* tcp_socket_wrapper_thread.                                              *)

\* Mutant of ThreadLoop: running is not looked at.
ThreadLoopForever == /\ thread = "while"
                     /\ thread' = "select"
                     /\ UNCHANGED <<running, socket, current, arrived, backlog, fd>>

\* while (sock_wrap->running)
ThreadLoop == /\ thread = "while"
              /\ thread' = IF running THEN "select" ELSE "exited"
              /\ UNCHANGED <<running, socket, current, arrived, backlog, fd>>

\* select() returns 0 after half a second, or -1 when a signal arrives.
SelectTimesOut == /\ thread = "select"
                  /\ thread' = "while"
                  /\ UNCHANGED <<running, socket, current, arrived, backlog, fd>>

SelectReady == /\ thread = "select"
               /\ backlog # {}
               /\ thread' = "accept"
               /\ UNCHANGED <<running, socket, current, arrived, backlog, fd>>

\* accept() returns -1 (no descriptor is left, or the client is gone), or the
\* address of the client is of an unknown family and the descriptor is closed.
AcceptFails == /\ thread = "accept"
               /\ thread' = "while"
               /\ \/ UNCHANGED backlog
                  \/ \E c \in backlog : backlog' = backlog \ {c}
               /\ UNCHANGED <<running, socket, current, arrived, fd>>

\* The kernel hands out a descriptor that is not in use; the callback is called.
Accept(c, f) == /\ thread = "accept"
                /\ c \in backlog
                /\ fd[f] = NoOne
                /\ backlog' = backlog \ {c}
                /\ fd' = [fd EXCEPT ![f] = c]
                /\ current' = f
                /\ thread' = "callback"
                /\ UNCHANGED <<running, socket, arrived>>

CallbackReturns == /\ thread = "callback"
                   /\ thread' = "while"
                   /\ current' = NoOne
                   /\ UNCHANGED <<running, socket, arrived, backlog>>

-----------------------------------------------------------------------------
(* tcp_socket_wrapper_init and tcp_socket_wrapper_dealloc.                 *)

\* socket(), bind() and listen() succeed, and so does pthread_create().
TcpStart == /\ running' = TRUE
            /\ socket' = "open"
            /\ thread' = "while"
            /\ UNCHANGED <<current, arrived, backlog, fd>>

TcpStop == /\ running' = FALSE
           /\ UNCHANGED <<socket, thread, current, arrived, backlog, fd>>

\* Mutant of TcpJoin: the thread is not joined.
TcpJoinDetached == /\ socket' = "closed"
                   /\ backlog' = {}
                   /\ UNCHANGED <<running, thread, current, arrived, fd>>

\* pthread_join(), then close(): the kernel resets the connections not accepted.
TcpJoin == /\ thread = "exited"
           /\ socket' = "closed"
           /\ backlog' = {}
           /\ UNCHANGED <<running, thread, current, arrived, fd>>
=============================================================================
