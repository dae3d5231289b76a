----------------------------- MODULE MCReadPiece -----------------------------
(* A small instance of ReadPiece for TLC: two nodes, two contents, two
   attempts, every operation, and records that change meanwhile. *)
EXTENDS ReadPiece
=============================================================================
