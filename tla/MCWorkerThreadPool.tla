------------------------- MODULE MCWorkerThreadPool -------------------------
(* Instances of WorkerThreadPool for TLC. *)
EXTENDS WorkerThreadPool, TLC

\* Threads and task addresses are interchangeable (safety runs only).
Symmetry == Permutations(Workers) \union Permutations(Clients) \union Permutations(Tasks)
=============================================================================
