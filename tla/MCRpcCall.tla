------------------------------ MODULE MCRpcCall ------------------------------
(* A small instance of RpcCall for TLC: every kind of call, two codes a node
   fails with, two chunks and two messages. *)
EXTENDS RpcCall
=============================================================================
