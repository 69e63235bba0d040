---------------------------- MODULE MCLoopAttach ----------------------------
(* Three houses, one of them with a sized layer. *)
EXTENDS LoopAttach

CONSTANTS h1, h2, h3
=============================================================================
