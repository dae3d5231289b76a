--------------------------- MODULE MCFileStorage ---------------------------
(* A small instance of FileStorage for TLC. *)
EXTENDS FileStorage
=============================================================================
