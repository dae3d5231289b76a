---------------------------- MODULE PingStrategy ----------------------------
(***************************************************************************)
(* Choosing a node by ping (packages/ddc/src/routing/PingStrategy.ts, on   *)
(* top of NodeTypeStrategy, RandomStrategy's shuffle and BaseStrategy).    *)
(* The map of pings is shared by every operation that runs on a router;    *)
(* everything else is local to one call of marshalNodes + selectNode.      *)
(*                                                                         *)
(* marshalNodes reads the map, awaits, and reads it again, so a call takes *)
(* three steps, and the background pings are a fourth; the steps of other  *)
(* calls and the ends of pings come in between.  A ping is external: it    *)
(* takes some time or fails, AbortSignal.timeout at the latest.            *)
(***************************************************************************)
EXTENDS Integers, FiniteSetsExt, SequencesExt

CONSTANTS
    Nodes,
    Mode,           \* mode of each node: "Full" | "Storage" | "Cache"
    OwnPriority,    \* `priority` of each node's configuration, or None
    SslNodes,       \* nodes with SSL
    SslRequired,    \* the SDK runs in a page served by HTTPS
    Offers,         \* sets of nodes an operation may be offered
    Calls,          \* operations that run at the same time
    Threshold,      \* PING_THRESHOLD
    ThresholdInc,   \* PING_THRESHOLD_INC
    LatencyGroup,   \* PING_LATENCY_GROUP
    AbortTimeout,   \* PING_ABORT_TIMEOUT, the longest latency
    None

ASSUME PingAssumption ==
    /\ IsFiniteSet(Nodes) /\ SslNodes \subseteq Nodes /\ SslRequired \in BOOLEAN
    /\ Mode \in [Nodes -> {"Full", "Storage", "Cache"}]
    /\ OwnPriority \in [Nodes -> Nat \cup {None}] /\ None \notin Nat
    /\ Offers \subseteq SUBSET Nodes
    /\ Threshold \in Nat /\ ThresholdInc \in Nat
    /\ LatencyGroup \in Nat \ {0} /\ AbortTimeout \in Nat
    /\ None \notin Nodes

VARIABLES
    ping,       \* per node: "none" | "pending" | "resolved" | "rejected"
    latency,    \* per node, 0 when undefined
    fetches,    \* history: requests sent to each node
    pc,         \* per call: "idle" | "filtering" | "awaiting" | "selected"
    operation,  \* per call: "read" | "store"
    pinged,     \* per call: pingedNodes, read from the map at the start
    order,      \* per call: allOperationNodes, shuffled and sorted by priority
    awaited,    \* per call: pings it waits for
    later,      \* per call: toPingAsync
    selected    \* per call: the node selected, or None

map == <<ping, latency, fetches>>
calls == <<pc, operation, pinged, order, awaited, later, selected>>
vars == <<map, calls>>

-----------------------------------------------------------------------------
(* priorityMap: read operations and store operations have two rows. *)
Applicable(op, n) ==
    /\ op = "store" => Mode[n] # "Cache"
    /\ SslRequired => n \in SslNodes     \* BaseStrategy.web

Priority(op, n) ==
    IF OwnPriority[n] # None THEN OwnPriority[n]
    ELSE IF Mode[n] = "Storage" THEN 2 ELSE 1

(* super.marshalNodes of shuffled nodes: any order that respects priority. *)
OrdersOf_Unsorted(op, nodes) ==
    SetToSeqs({n \in nodes : Applicable(op, n)})

OrdersOf(op, nodes) ==
    {s \in SetToSeqs({n \in nodes : Applicable(op, n)}) :
        \A i, j \in DOMAIN s : i < j => Priority(op, s[i]) <= Priority(op, s[j])}

(* nodesMap.has *)
Known(n) == ping[n] # "none"

(* getPingedNodes, filtered for the operation *)
PingedNodes_AllModes(op) == {n \in Nodes : ping[n] \notin {"none", "rejected"}}

PingedNodes(op) ==
    {n \in Nodes : ping[n] \notin {"none", "rejected"} /\ Applicable(op, n)}

(* notPingedNodes, and its first k *)
NotPinged(s) == {i \in DOMAIN s : ~Known(s[i])}

FirstNotPinged(s, k) ==
    {s[i] : i \in {j \in NotPinged(s) : Cardinality(NotPinged(s) \cap 1..j) <= k}}

(* enqueuePing of each node: a node of the map is not pinged again. *)
EnqueuePings(nodes) ==
    LET new == {n \in nodes : ~Known(n)}
    IN  /\ ping' = [n \in Nodes |-> IF n \in new THEN "pending" ELSE ping[n]]
        /\ fetches' = [n \in Nodes |-> fetches[n] + (IF n \in new THEN 1 ELSE 0)]

(* The level of a node without a latency is Infinity, and so is that of a
   latency of 0 ms, which is falsy. *)
Infinity == AbortTimeout + 1

Level(n) ==
    IF latency[n] = 0 THEN Infinity
    ELSE (latency[n] + LatencyGroup - 1) \div LatencyGroup

(* The first node of the nodes sorted by level; the sort is stable. *)
FirstByLevel(s) ==
    IF s = <<>> THEN None
    ELSE s[CHOOSE i \in DOMAIN s :
              \A j \in DOMAIN s : \/ Level(s[i]) < Level(s[j])
                                  \/ Level(s[i]) = Level(s[j]) /\ i <= j]

-----------------------------------------------------------------------------
Init ==
    /\ ping = [n \in Nodes |-> "none"]
    /\ latency = [n \in Nodes |-> 0]
    /\ fetches = [n \in Nodes |-> 0]
    /\ pc = [c \in Calls |-> "idle"]
    /\ operation = [c \in Calls |-> "read"]
    /\ pinged = [c \in Calls |-> {}]
    /\ order = [c \in Calls |-> <<>>]
    /\ awaited = [c \in Calls |-> {}]
    /\ later = [c \in Calls |-> {}]
    /\ selected = [c \in Calls |-> None]

(* The call reads the pinged nodes and shuffles the offered ones. *)
Begin(c) ==
    /\ pc[c] = "idle"
    /\ \E op \in {"read", "store"}, offer \in Offers : \E s \in OrdersOf(op, offer) :
           /\ operation' = [operation EXCEPT ![c] = op]
           /\ order' = [order EXCEPT ![c] = s]
           /\ pinged' = [pinged EXCEPT ![c] = PingedNodes(op)]
    /\ pc' = [pc EXCEPT ![c] = "filtering"]
    /\ selected' = [selected EXCEPT ![c] = None]
    /\ UNCHANGED <<map, awaited, later>>

(* After the awaits the nodes not in the map are found; some are pinged now,
   some later.  A ping that is in the map already is not waited for: what
   enqueuePing returns for it is the record, not its promise. *)
Enqueue(c) ==
    /\ pc[c] = "filtering"
    /\ LET toPingSync == FirstNotPinged(order[c], Threshold - Cardinality(pinged[c]))
       IN  /\ EnqueuePings(toPingSync)
           /\ awaited' = [awaited EXCEPT ![c] = toPingSync]
           /\ later' = [later EXCEPT ![c] = FirstNotPinged(order[c], ThresholdInc)]
    /\ pc' = [pc EXCEPT ![c] = "awaiting"]
    /\ UNCHANGED <<latency, operation, pinged, order, selected>>

(* A ping ends. *)
PingResolves(n, time) ==
    /\ ping[n] = "pending"
    /\ ping' = [ping EXCEPT ![n] = "resolved"]
    /\ latency' = [latency EXCEPT ![n] = time]
    /\ UNCHANGED <<fetches, calls>>

PingRejects_KeepsTime(n) ==
    /\ ping[n] = "pending"
    /\ ping' = [ping EXCEPT ![n] = "rejected"]
    /\ latency' = [latency EXCEPT ![n] = 1]
    /\ UNCHANGED <<fetches, calls>>

PingRejects(n) ==
    /\ ping[n] = "pending"
    /\ ping' = [ping EXCEPT ![n] = "rejected"]
    /\ UNCHANGED <<latency, fetches, calls>>

Select_AllOrNothing(c) ==
    /\ pc[c] = "awaiting"
    /\ \A n \in awaited[c] : ping[n] # "pending"
    /\ selected' = [selected EXCEPT ![c] = FirstByLevel(order[c])]
    /\ pc' = [pc EXCEPT ![c] = IF \A n \in awaited[c] : ping[n] = "resolved"
                                THEN "selected" ELSE "idle"]
    /\ UNCHANGED <<map, operation, pinged, order, awaited, later>>

(* The pings the call waits for are settled: it sorts and selects. *)
Select(c) ==
    /\ pc[c] = "awaiting"
    /\ \A n \in awaited[c] : ping[n] # "pending"
    /\ selected' = [selected EXCEPT ![c] = FirstByLevel(order[c])]
    /\ pc' = [pc EXCEPT ![c] = "selected"]
    /\ UNCHANGED <<map, operation, pinged, order, awaited, later>>

(* The timer of the background pings fires. *)
PingInBackground(c) ==
    /\ pc[c] = "selected"
    /\ EnqueuePings(later[c])
    /\ pc' = [pc EXCEPT ![c] = "idle"]
    /\ operation' = [operation EXCEPT ![c] = "read"]
    /\ pinged' = [pinged EXCEPT ![c] = {}]
    /\ order' = [order EXCEPT ![c] = <<>>]
    /\ awaited' = [awaited EXCEPT ![c] = {}]
    /\ later' = [later EXCEPT ![c] = {}]
    /\ selected' = [selected EXCEPT ![c] = None]
    /\ UNCHANGED latency

CallStep(c) == Enqueue(c) \/ Select(c) \/ PingInBackground(c)

PingEnds(n) == PingRejects(n) \/ \E time \in 0..AbortTimeout : PingResolves(n, time)

Next ==
    \/ \E c \in Calls : Begin(c) \/ CallStep(c)
    \/ \E n \in Nodes : PingEnds(n)

Spec == Init /\ [][Next]_vars

(* The event loop runs what is ready, and a ping is aborted at its timeout. *)
FairSpec ==
    /\ Spec
    /\ \A c \in Calls : WF_vars(CallStep(c))
    /\ \A n \in Nodes : WF_vars(PingEnds(n))

-----------------------------------------------------------------------------
TypeOK ==
    /\ ping \in [Nodes -> {"none", "pending", "resolved", "rejected"}]
    /\ latency \in [Nodes -> 0..AbortTimeout]
    /\ fetches \in [Nodes -> Nat]
    /\ pc \in [Calls -> {"idle", "filtering", "awaiting", "selected"}]
    /\ operation \in [Calls -> {"read", "store"}]
    /\ pinged \in [Calls -> SUBSET Nodes]
    /\ order \in [Calls -> Seq(Nodes)]
    /\ awaited \in [Calls -> SUBSET Nodes]
    /\ later \in [Calls -> SUBSET Nodes]
    /\ selected \in [Calls -> Nodes \cup {None}]

(* However many operations overlap, and whatever they read before an await, a
   node is sent one ping in the life of the router (PingStrategy.ts:61-77). *)
PingedOnce == \A n \in Nodes : fetches[n] <= 1

(* An operation goes on only when enough nodes that can serve it have been
   pinged, or all the nodes it was offered, although it counted the pinged
   nodes before it looked for the others (PingStrategy.ts:81-89; constants.ts:69:
   the "minimum number of nodes to ping before any DDC operation"). *)
EnoughPinged ==
    \A c \in Calls :
        pc[c] \in {"awaiting", "selected"} =>
            \/ Cardinality({n \in Nodes : Known(n) /\ Applicable(operation[c], n)})
                   >= Threshold
            \/ \A i \in DOMAIN order[c] : Known(order[c][i])

Selects(c) == pc[c] = "awaiting" /\ pc'[c] = "selected"

(* A node whose ping failed, or was never made, is selected only when no node
   of the operation answered in measurable time: "Keep nodes without ping at
   the end for fallback scenarios" (PingStrategy.ts:94-116), the first
   operation, whose pings it awaited itself, included.  A test expects the
   opposite of a node with a configured priority: see PreferredIsFirst. *)
UnresponsiveIsLast ==
    [][\A c \in Calls :
         Selects(c) /\ (\E i \in DOMAIN order[c] : ping[order[c][i]] = "resolved"
                                                   /\ latency[order[c][i]] > 0)
             => ping[selected'[c]] = "resolved"]_vars

(* Of the nodes about as fast as the selected one, none has a better priority
   for the operation: the sort by latency keeps the order of the sort by mode. *)
BestOfItsLevel ==
    [][\A c \in Calls :
         Selects(c) =>
             \A i \in DOMAIN order[c] :
                 Level(order[c][i]) = Level(selected'[c])
                     => Priority(operation[c], selected'[c])
                            <= Priority(operation[c], order[c][i])]_vars

(* Every operation gets its selection. *)
CallSelects ==
    \A c \in Calls : (pc[c] = "filtering") ~> (pc[c] = "selected")

(* Not kept by the code (README, section 4). Claimed by
   tests/specs/Routing.spec.ts:197 ("Should be selected first", of an
   unreachable node with the priority 0) and :203 ("Should fallback to this
   node from the unreachable one"): the priority a node is configured with
   decides, whether it answers or not. *)
PreferredIsFirst ==
    [][\A c \in Calls :
         Selects(c) =>
             \A i \in DOMAIN order[c] :
                 OwnPriority[order[c][i]] # None =>
                     Priority(operation[c], selected'[c])
                         <= OwnPriority[order[c][i]]]_vars

(* Not kept by the code (README, section 4). Claimed by PingStrategy.ts:87
   ("Include already pinged nodes to make sure they are settled"): no ping
   counted by the operation is pending when it selects. *)
CountedAreSettled ==
    [][\A c \in Calls :
         Selects(c) => \A n \in pinged[c] : ping[n] # "pending"]_vars
=============================================================================
