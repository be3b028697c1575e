---------------------------- MODULE MCHttpServer ----------------------------
(* Instances of HttpServer for TLC. *)
EXTENDS HttpServer, TLC

\* Connections, descriptors and task_data are interchangeable (safety runs only).
Symmetry == Permutations(Conns) \union Permutations(Fds) \union Permutations(Datas)
=============================================================================
