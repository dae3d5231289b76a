--------------------------- MODULE MCBalancedNode ---------------------------
(* A small instance of BalancedNode for TLC: three nodes, six attempts (the
   default), two retryable codes and four router faults. *)
EXTENDS BalancedNode
=============================================================================
