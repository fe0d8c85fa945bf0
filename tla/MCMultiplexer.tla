--------------------------- MODULE MCMultiplexer ----------------------------
(* Instances of Multiplexer for TLC. *)
EXTENDS Multiplexer

McListeners == <<4, 5>>
=============================================================================
