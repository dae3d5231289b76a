--------------------------- MODULE MCFileDownload ---------------------------
(* A small instance of FileDownload for TLC: a content of two chunks, and a
   node that may send up to three messages, of right, wrong, too few and too
   many chunks, with proofs anywhere between. *)
EXTENDS FileDownload

CONSTANTS b1, b2

MCCid == <<b1, b2>>
=============================================================================
