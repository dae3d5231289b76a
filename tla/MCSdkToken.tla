----------------------------- MODULE MCSdkToken -----------------------------
(* A small instance of SdkToken for TLC: three calls, two accounts and a
   switch of the user. *)
EXTENDS SdkToken
=============================================================================
