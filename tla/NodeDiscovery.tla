---------------------------- MODULE NodeDiscovery ----------------------------
(***************************************************************************)
(* Router.getNode up to the choice of a node: the nodes a bucket is served *)
(* by, as BlockchainStrategy finds them (a query for the bucket, a query   *)
(* for all nodes, and two caches every operation of the router shares), or *)
(* StaticStrategy is configured with them.                                 *)
(*                                                                         *)
(* The chain is external, and changes while the queries run: node          *)
(* providers and cluster managers send the calls that the pallets of       *)
(* packages/blockchain build.  A query is answered with what the chain has *)
(* at one moment, and answers may come back in another order.              *)
(*                                                                         *)
(* Which of the nodes is chosen is PingStrategy's, the token the router    *)
(* waits for is SdkToken's.                                                *)
(***************************************************************************)
EXTENDS Integers, FiniteSets

CONSTANTS
    Calls,       \* getNode calls that run at the same time
    Buckets, Clusters, Nodes,
    Urls,        \* grpcUrl of a node: its identity for the router
    Configured,  \* nodes of the configuration, for StaticStrategy
    None,        \* no cluster, nothing cached
    Missing,     \* the chain has no such bucket
    MaxStarts,   \* bound: getNode calls in a behaviour
    MaxChanges   \* bound: changes of the chain in a behaviour

ASSUME DiscoveryAssumption ==
    /\ Configured \subseteq Urls
    /\ None \notin Clusters /\ Missing \notin Clusters \cup {None}
    /\ MaxStarts \in Nat /\ MaxChanges \in Nat

VARIABLES
    bucketOn,      \* chain: cluster of each bucket, or Missing
    clusterOf,     \* chain: cluster of each node, or None
    url,           \* chain: where each node is, by its properties
    bucketCache,   \* cluster of the buckets seen so far, or None
    clusterNodes,  \* nodes of the clusters seen so far, or None
    strategy,      \* "blockchain" | "static"
    pc,            \* per call: "idle", or what it does next
    bucket, exclude, cluster, nodes, \* per call
    answer,        \* per call: <<>>, or what the chain answered
    outcome,       \* per call: the last outcome
    existed,       \* history, per call: the bucket existed when it started
    past,          \* history, per cluster: the node lists it had
    starts, changes

chain == <<bucketOn, clusterOf, url, changes, past>>
caches == <<bucketCache, clusterNodes>>
call == <<pc, bucket, exclude, cluster, nodes, answer, outcome, existed, starts>>
discoveryVars == <<chain, caches, strategy, call>>

Found(u) == [state |-> "found", node |-> u]
Rejected(reason) == [state |-> reason, node |-> None]

(* listStorageNodes: every node with its cluster and its decoded properties. *)
Listed == {[cluster |-> clusterOf[n], url |-> url[n]] : n \in Nodes}

(* The filter and mapNodeProps of getClusterNodes. *)
NodesOf(list, c) == {node.url : node \in {l \in list : l.cluster = c}}

-----------------------------------------------------------------------------
InitDiscovery ==
    /\ bucketOn \in [Buckets -> Clusters \cup {Missing}]
    /\ clusterOf \in [Nodes -> Clusters \cup {None}]
    /\ url \in [Nodes -> Urls]
    /\ bucketCache = [b \in Buckets |-> None]
    /\ clusterNodes = [c \in Clusters |-> None]
    /\ strategy \in {"blockchain", "static"}
    /\ pc = [k \in Calls |-> "idle"]
    /\ bucket = [k \in Calls |-> None]
    /\ exclude = [k \in Calls |-> {}]
    /\ cluster = [k \in Calls |-> None]
    /\ nodes = [k \in Calls |-> {}]
    /\ answer = [k \in Calls |-> <<>>]
    /\ outcome = [k \in Calls |-> Rejected("none yet")]
    /\ existed = [k \in Calls |-> FALSE]
    /\ past = [c \in Clusters |-> {NodesOf(Listed, c)}]
    /\ starts = 0 /\ changes = 0

Go(k, where) ==
    /\ pc' = [pc EXCEPT ![k] = where]
    /\ answer' = [answer EXCEPT ![k] = <<>>]

Settle(k, o) ==
    /\ Go(k, "idle")
    /\ outcome' = [outcome EXCEPT ![k] = o]
    /\ cluster' = [cluster EXCEPT ![k] = None]
    /\ nodes' = [nodes EXCEPT ![k] = {}]

(* router.getNode: the caller says which nodes it has tried; isReady is
   awaited. *)
BeginGetNode(k, b, tried) ==
    /\ pc[k] = "idle" /\ starts < MaxStarts
    /\ starts' = starts + 1
    /\ Go(k, "bucket")
    /\ bucket' = [bucket EXCEPT ![k] = b]
    /\ exclude' = [exclude EXCEPT ![k] = tried]
    /\ existed' = [existed EXCEPT ![k] = bucketOn[b] # Missing]
    /\ UNCHANGED <<chain, caches, strategy, cluster, nodes, outcome>>

UseBucket(k, c) ==
    \/ /\ c = Missing
       /\ Settle(k, Rejected("no bucket"))
    \/ /\ c # Missing
       /\ cluster' = [cluster EXCEPT ![k] = c]
       /\ Go(k, "nodes") /\ UNCHANGED <<nodes, outcome>>

UseNodes(k, list) ==
    /\ nodes' = [nodes EXCEPT ![k] = list]
    /\ Go(k, "choose")

GetBucket(k) ==
    /\ pc[k] = "bucket"
    /\ \/ /\ strategy = "static"
          /\ UseNodes(k, Configured) /\ UNCHANGED <<cluster, outcome>>
       \/ /\ strategy = "blockchain" /\ bucketCache[bucket[k]] = None
          /\ Go(k, "bucket asked") /\ UNCHANGED <<cluster, nodes, outcome>>
       \/ /\ strategy = "blockchain" /\ bucketCache[bucket[k]] # None
          /\ UseBucket(k, bucketCache[bucket[k]])
    /\ UNCHANGED <<chain, caches, strategy, bucket, exclude, existed, starts>>

(* A missing bucket is not remembered. *)
BucketArrives_MissingToo(k) ==
    /\ pc[k] = "bucket asked" /\ answer[k] # <<>>
    /\ UseBucket(k, answer[k][1])
    /\ bucketCache' = [bucketCache EXCEPT ![bucket[k]] = answer[k][1]]
    /\ UNCHANGED <<chain, clusterNodes, strategy, bucket, exclude, existed, starts>>

BucketArrives(k) ==
    /\ pc[k] = "bucket asked" /\ answer[k] # <<>>
    /\ UseBucket(k, answer[k][1])
    /\ bucketCache' = [bucketCache EXCEPT
           ![bucket[k]] = IF answer[k][1] = Missing THEN @ ELSE answer[k][1]]
    /\ UNCHANGED <<chain, clusterNodes, strategy, bucket, exclude, existed, starts>>

GetClusterNodes(k) ==
    /\ pc[k] = "nodes"
    /\ \/ /\ clusterNodes[cluster[k]] = None
          /\ Go(k, "nodes asked") /\ UNCHANGED nodes
       \/ /\ clusterNodes[cluster[k]] # None
          /\ UseNodes(k, clusterNodes[cluster[k]])
    /\ UNCHANGED <<chain, caches, strategy, bucket, exclude, cluster, outcome,
                   existed, starts>>

(* Whoever asked has the last word: an answer replaces what another call has
   cached meanwhile. *)
NodesArrive_OfAnyCluster(k) ==
    /\ pc[k] = "nodes asked" /\ answer[k] # <<>>
    /\ clusterNodes' = [clusterNodes EXCEPT ![cluster[k]] = {l.url : l \in answer[k][1]}]
    /\ UseNodes(k, NodesOf(answer[k][1], cluster[k]))
    /\ UNCHANGED <<chain, bucketCache, strategy, bucket, exclude, cluster, outcome,
                   existed, starts>>

NodesArrive(k) ==
    /\ pc[k] = "nodes asked" /\ answer[k] # <<>>
    /\ clusterNodes' = [clusterNodes EXCEPT ![cluster[k]] = NodesOf(answer[k][1], cluster[k])]
    /\ UseNodes(k, clusterNodes'[cluster[k]])
    /\ UNCHANGED <<chain, bucketCache, strategy, bucket, exclude, cluster, outcome,
                   existed, starts>>

(* External: the chain answers a query, or the query fails. *)
ChainAnswers(k) ==
    /\ answer[k] = <<>>
    /\ \/ pc[k] = "bucket asked" /\ answer' = [answer EXCEPT ![k] = <<bucketOn[bucket[k]]>>]
       \/ pc[k] = "nodes asked" /\ answer' = [answer EXCEPT ![k] = <<Listed>>]
    /\ UNCHANGED <<chain, caches, strategy, pc, bucket, exclude, cluster, nodes, outcome,
                   existed, starts>>

QueryFails(k) ==
    /\ pc[k] \in {"bucket asked", "nodes asked"}
    /\ Settle(k, Rejected("chain"))
    /\ UNCHANGED <<chain, caches, strategy, bucket, exclude, existed, starts>>

(* getNodes refuses an empty list, the router one without a node to offer. *)
Remaining(k) == nodes[k] \ exclude[k]

Choose(k) ==
    /\ pc[k] = "choose"
    /\ \/ \E u \in Remaining(k) : Settle(k, Found(u))
       \/ Remaining(k) = {} /\ Settle(k, Rejected("no node"))
    /\ UNCHANGED <<chain, caches, strategy, bucket, exclude, existed, starts>>

-----------------------------------------------------------------------------
(* External: what the calls of the pallets do on the chain. *)
Change ==
    /\ changes < MaxChanges
    /\ changes' = changes + 1
    /\ past' = [c \in Clusters |->
           past[c] \cup {{url'[n] : n \in {m \in Nodes : clusterOf'[m] = c}}}]
    /\ UNCHANGED <<caches, strategy, call>>

CreateBucket(b, c) ==
    /\ bucketOn[b] = Missing
    /\ bucketOn' = [bucketOn EXCEPT ![b] = c]
    /\ UNCHANGED <<clusterOf, url>> /\ Change

AddStorageNodeToCluster(n, c) ==
    /\ clusterOf[n] = None
    /\ clusterOf' = [clusterOf EXCEPT ![n] = c]
    /\ UNCHANGED <<bucketOn, url>> /\ Change

RemoveStorageNodeFromCluster(n) ==
    /\ clusterOf[n] # None
    /\ clusterOf' = [clusterOf EXCEPT ![n] = None]
    /\ UNCHANGED <<bucketOn, url>> /\ Change

SetStorageNodeProps(n, u) ==
    /\ url[n] # u
    /\ url' = [url EXCEPT ![n] = u]
    /\ UNCHANGED <<bucketOn, clusterOf>> /\ Change

ChainChanges ==
    \/ \E b \in Buckets, c \in Clusters : CreateBucket(b, c)
    \/ \E n \in Nodes, c \in Clusters : AddStorageNodeToCluster(n, c)
    \/ \E n \in Nodes : RemoveStorageNodeFromCluster(n)
    \/ \E n \in Nodes, u \in Urls : SetStorageNodeProps(n, u)

CallStep(k) ==
    \/ GetBucket(k)
    \/ BucketArrives(k)
    \/ GetClusterNodes(k)
    \/ NodesArrive(k)
    \/ QueryFails(k)
    \/ Choose(k)

NextDiscovery ==
    \/ ChainChanges
    \/ \E k \in Calls :
           \/ \E b \in Buckets, tried \in SUBSET Urls : BeginGetNode(k, b, tried)
           \/ CallStep(k)
           \/ ChainAnswers(k)

DiscoverySpec == InitDiscovery /\ [][NextDiscovery]_discoveryVars

-----------------------------------------------------------------------------
(* The nodes of a cluster, cached or used, are all those it had at one moment
   and no others: never a mixture of two moments or of two clusters, however
   the queries of concurrent operations and the changes of the chain overlap
   (BlockchainStrategy.ts:57-70). *)
NodesOfOneMoment ==
    /\ \A c \in Clusters : clusterNodes[c] # None => clusterNodes[c] \in past[c]
    /\ strategy = "blockchain" =>
           \A k \in Calls :
               /\ pc[k] = "choose" => nodes[k] \in past[bucketOn[bucket[k]]]
               /\ outcome[k].state = "found" /\ pc[k] = "idle" =>
                      /\ outcome[k].node \notin exclude[k]
                      /\ \E list \in past[bucketOn[bucket[k]]] : outcome[k].node \in list

(* A bucket is reported missing only if it was not there when getNode was
   called: a bucket created after a failed call is found by the next one
   (BlockchainStrategy.ts:79-84, where nothing is cached). *)
MissingIsNotKept ==
    \A k \in Calls :
        pc[k] = "idle" /\ outcome[k].state = "no bucket" => ~existed[k]
=============================================================================
