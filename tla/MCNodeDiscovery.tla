--------------------------- MODULE MCNodeDiscovery ---------------------------
(* A small instance of NodeDiscovery for TLC: two operations at a time, one
   bucket, two nodes that may share an address, and a chain that changes. *)
EXTENDS NodeDiscovery, TLC

(* Nothing tells two calls, nodes, clusters or addresses apart: the
   configuration of StaticStrategy has every address. *)
Symmetry == Permutations(Calls) \cup Permutations(Nodes)
            \cup Permutations(Clusters) \cup Permutations(Urls)
=============================================================================
