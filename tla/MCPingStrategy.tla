--------------------------- MODULE MCPingStrategy ---------------------------
(* A small instance of PingStrategy for TLC: three nodes of one cluster, one of each
   mode, the storage node with a priority of its own; an operation is offered
   all of them, or those a retry has not excluded. *)
EXTENDS PingStrategy

CONSTANTS full, storage, cache

MCNodes == {full, storage, cache}
MCMode == (full :> "Full") @@ (storage :> "Storage") @@ (cache :> "Cache")
MCOwnPriority == [n \in MCNodes |-> IF n = storage THEN 0 ELSE None]
MCOffers == {MCNodes, {full, storage}}
=============================================================================
