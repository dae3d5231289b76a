---------------------------- MODULE MCStorePiece ----------------------------
(* A small instance of StorePiece for TLC: two nodes, three attempts, every
   kind of content, sizes from nothing to one chunk over the limit. *)
EXTENDS StorePiece
=============================================================================
