------------------------------ MODULE MCStreams ------------------------------
(* Instances of Streams for TLC. *)
EXTENDS Streams

MCInputs == {<<>>, <<1, 2, 3, 4, 5>>}
=============================================================================
