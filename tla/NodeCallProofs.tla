--------------------------- MODULE NodeCallProofs ---------------------------
(***************************************************************************)
(* Theorems of PingStrategy, which chooses a node, for any set of nodes,   *)
(* any number of operations at the same time and any thresholds and        *)
(* latencies; and of RpcCall, one call to the node, for any codes and any  *)
(* number of chunks and messages.                                          *)
(*                                                                         *)
(* Of PingStrategy, OneFetch ties the history of requests to the map;      *)
(* Counted says that what an operation counted before its awaits is still  *)
(* pinged and applicable; Sorted that its order respects the priorities;   *)
(* AwaitedKnown that nobody else can ping what an operation waits for, so  *)
(* what it waits for only becomes less.                                    *)
(*                                                                         *)
(* Of RpcCall, Silent says that nothing is settled before the node, the    *)
(* socket or the timer has said something; Refused that a streaming call   *)
(* refused in its headers has no other way to go on than to report that;   *)
(* Reported that no promise is rejected with a code of its own.  Arrived   *)
(* relates what has come to the promises, and WaitsForNothingLost says     *)
(* that when a call is over its method has what it waits for.              *)
(***************************************************************************)
EXTENDS PingStrategy, RpcCall, TLAPS, FiniteSetTheorems, WellFoundedInduction,
        SequenceTheorems

(* A non-empty set of numbers has a least one. *)
LEMMA LeastNumber ==
    ASSUME NEW T, T \subseteq Nat, T # {}
    PROVE  \E x \in T : \A y \in T : x <= y
<1>1. \E x \in T : \A y \in T : ~ (<<y, x>> \in OpToRel(<, Nat))
  BY NatLessThanWellFounded, WFMin
<1>2. PICK x \in T : \A y \in T : ~ (<<y, x>> \in OpToRel(<, Nat))
  BY <1>1
<1>3. ASSUME NEW y \in T PROVE x <= y
  <2>1. x \in Nat /\ y \in Nat
    OBVIOUS
  <2>2. ~(y < x)
    BY <1>2, <2>1 DEF OpToRel
  <2>3. QED
    BY <2>1, <2>2
<1>4. QED
  BY <1>3

(* An order of the nodes is a sequence of nodes, each one once, sorted by
   priority. *)
LEMMA OrdersAreSequences ==
    ASSUME NEW op, NEW nodes, nodes \subseteq Nodes, NEW s \in OrdersOf(op, nodes)
    PROVE  /\ s \in Seq(Nodes)
           /\ \A i, j \in DOMAIN s : i # j => s[i] # s[j]
           /\ \A i, j \in DOMAIN s : i < j => Priority(op, s[i]) <= Priority(op, s[j])
           /\ \A i \in DOMAIN s : Applicable(op, s[i])
<1> DEFINE App == {n \in nodes : Applicable(op, n)}
           D == 1..Cardinality(App)
<1>1. /\ s \in [D -> App]
      /\ \A i, j \in D : i # j => s[i] # s[j]
      /\ \A i, j \in DOMAIN s : i < j => Priority(op, s[i]) <= Priority(op, s[j])
  BY DEF OrdersOf, SetToSeqs
<1>2. IsFiniteSet(App)
  BY PingAssumption, FS_Subset
<1>3. Cardinality(App) \in Nat
  BY <1>2, FS_CardinalityType
<1>4. s \in Seq(App)
  <2> HIDE DEF App
  <2> QED BY <1>1, <1>3
<1>5. s \in Seq(Nodes)
  BY <1>4, <1>1, <1>3
<1>6. \A i \in DOMAIN s : Applicable(op, s[i])
  BY <1>1
<1>7. QED
  BY <1>1, <1>5, <1>6

LEMMA FirstNotPingedType ==
    ASSUME NEW s \in Seq(Nodes), NEW k
    PROVE  FirstNotPinged(s, k) \subseteq Nodes
<1>1. \A i \in DOMAIN s : s[i] \in Nodes
  OBVIOUS
<1>2. QED
  BY <1>1 DEF FirstNotPinged, NotPinged

-----------------------------------------------------------------------------
(* Levels. *)
LEMMA Division ==
    ASSUME NEW a \in Nat, NEW g \in Nat \ {0}
    PROVE  /\ a \div g \in Nat
           /\ g * (a \div g) <= a
BY SMT

LEMMA CeilingIsSmaller ==
    ASSUME NEW l \in Nat \ {0}, NEW g \in Nat \ {0}
    PROVE  /\ (l + g - 1) \div g \in Nat
           /\ (l + g - 1) \div g <= l
<1> DEFINE a == l + g - 1
           q == a \div g
<1>1. a \in Nat
  OBVIOUS
<1>2. q \in Nat /\ g * q <= a
  BY <1>1, Division
<1> HIDE DEF q
<1>3. CASE q > l
  <2>1. g * q >= g * (l + 1)
    BY <1>2, <1>3, SMT
  <2>2. g * (l + 1) >= l + g
    BY SMT
  <2>3. QED
    BY <2>1, <2>2, <1>2
<1>4. QED
  BY <1>2, <1>3 DEF q

LEMMA LevelType ==
    ASSUME latency \in [Nodes -> 0..AbortTimeout], NEW n \in Nodes
    PROVE  /\ Level(n) \in Nat
           /\ latency[n] > 0 => Level(n) < Infinity
           /\ Level(n) < Infinity => latency[n] > 0
<1>1. latency[n] \in 0..AbortTimeout /\ AbortTimeout \in Nat /\ LatencyGroup \in Nat \ {0}
  BY PingAssumption
<1>2. CASE latency[n] = 0
  BY <1>1, <1>2 DEF Level, Infinity
<1>3. CASE latency[n] # 0
  <2>1. latency[n] \in Nat \ {0}
    BY <1>1, <1>3
  <2>2. /\ (latency[n] + LatencyGroup - 1) \div LatencyGroup \in Nat
        /\ (latency[n] + LatencyGroup - 1) \div LatencyGroup <= latency[n]
    BY <1>1, <2>1, CeilingIsSmaller
  <2>3. Level(n) = (latency[n] + LatencyGroup - 1) \div LatencyGroup
    BY <1>3 DEF Level
  <2>4. QED
    BY <1>1, <2>1, <2>2, <2>3 DEF Infinity
<1>4. QED
  BY <1>2, <1>3

(* The selected node is the first of those of the lowest level. *)
LEMMA FirstByLevelIsLowest ==
    ASSUME latency \in [Nodes -> 0..AbortTimeout], NEW s \in Seq(Nodes), s # <<>>
    PROVE  \E i \in DOMAIN s :
              /\ FirstByLevel(s) = s[i]
              /\ \A j \in DOMAIN s : \/ Level(s[i]) < Level(s[j])
                                     \/ Level(s[i]) = Level(s[j]) /\ i <= j
<1> DEFINE Lowest(i) == \A j \in DOMAIN s : \/ Level(s[i]) < Level(s[j])
                                            \/ Level(s[i]) = Level(s[j]) /\ i <= j
           Levels == {Level(s[i]) : i \in DOMAIN s}
<1>1. \A i \in DOMAIN s : s[i] \in Nodes /\ i \in Nat
  OBVIOUS
<1>2. \A i \in DOMAIN s : Level(s[i]) \in Nat
  BY <1>1, LevelType
<1>3. DOMAIN s # {}
  <2>1. Len(s) # 0 /\ Len(s) \in Nat
    BY EmptySeq
  <2>2. 1 \in DOMAIN s
    BY <2>1
  <2>3. QED
    BY <2>2
<1>4. PICK l \in Levels : \A k \in Levels : l <= k
  <2>1. Levels \subseteq Nat /\ Levels # {}
    BY <1>2, <1>3
  <2> HIDE DEF Levels
  <2>2. QED
    BY <2>1, LeastNumber
<1> DEFINE Firsts == {i \in DOMAIN s : Level(s[i]) = l}
<1>5. PICK i \in Firsts : \A k \in Firsts : i <= k
  <2>1. Firsts \subseteq Nat /\ Firsts # {}
    BY <1>1, <1>4
  <2> HIDE DEF Firsts
  <2>2. QED
    BY <2>1, LeastNumber
<1>6. Lowest(i)
  <2> SUFFICES ASSUME NEW j \in DOMAIN s
               PROVE  \/ Level(s[i]) < Level(s[j])
                      \/ Level(s[i]) = Level(s[j]) /\ i <= j
    OBVIOUS
  <2>1. i \in DOMAIN s /\ Level(s[i]) = l /\ l <= Level(s[j])
    BY <1>4, <1>5
  <2>2. Level(s[j]) = l => i <= j
    BY <1>5
  <2>3. l \in Nat /\ Level(s[j]) \in Nat
    BY <1>2, <1>4
  <2>4. QED
    BY <2>1, <2>2, <2>3
<1>7. i \in DOMAIN s
  BY <1>5
<1> DEFINE m == CHOOSE k \in DOMAIN s : Lowest(k)
<1>8. m \in DOMAIN s /\ Lowest(m)
  <2> HIDE DEF Lowest
  <2> QED BY <1>6, <1>7
<1>9. FirstByLevel(s) = s[m]
  BY DEF FirstByLevel
<1>10. QED
  BY <1>8, <1>9

-----------------------------------------------------------------------------
(* Every map entry has its one request, and a latency only when resolved. *)
OneFetch ==
    \A n \in Nodes :
        /\ ping[n] = "none" => fetches[n] = 0
        /\ fetches[n] <= 1
        /\ latency[n] > 0 => ping[n] = "resolved"

(* The order of a call is sorted for its operation. *)
Sorted ==
    \A c \in Calls :
        /\ \A i, j \in DOMAIN order[c] : i # j => order[c][i] # order[c][j]
        /\ \A i, j \in DOMAIN order[c] :
               i < j => Priority(operation[c], order[c][i])
                            <= Priority(operation[c], order[c][j])
        /\ \A i \in DOMAIN order[c] : Applicable(operation[c], order[c][i])

(* What a call counted is pinged and applicable as long as it is counted. *)
Counted ==
    \A c \in Calls :
        pinged[c] \subseteq {n \in Nodes : Known(n) /\ Applicable(operation[c], n)}

PInv == TypeOK /\ OneFetch /\ Sorted /\ Counted

LEMMA InitPInv == Init => PInv
<1> SUFFICES ASSUME Init PROVE PInv
  OBVIOUS
<1>1. TypeOK
  <2>1. <<>> \in Seq(Nodes)
    OBVIOUS
  <2>2. AbortTimeout \in Nat
    BY PingAssumption
  <2>3. QED
    BY <2>1, <2>2 DEF Init, TypeOK
<1>2. OneFetch
  BY DEF Init, OneFetch
<1>3. Sorted
  BY DEF Init, Sorted
<1>4. Counted
  BY DEF Init, Counted
<1>5. QED
  BY <1>1, <1>2, <1>3, <1>4 DEF PInv

(* Pinging a set of nodes only adds to the map. *)
LEMMA EnqueuePingsKeeps ==
    ASSUME TypeOK, OneFetch, NEW nodes, nodes \subseteq Nodes, EnqueuePings(nodes),
           latency' = latency
    PROVE  /\ ping' \in [Nodes -> {"none", "pending", "resolved", "rejected"}]
           /\ fetches' \in [Nodes -> Nat]
           /\ OneFetch'
           /\ \A n \in Nodes : Known(n) => Known(n)'
           /\ \A n \in nodes : Known(n)'
<1>1. ping' = [n \in Nodes |-> IF n \in nodes /\ ~Known(n) THEN "pending" ELSE ping[n]]
  BY DEF EnqueuePings
<1>2. fetches' = [n \in Nodes |-> fetches[n] + (IF n \in nodes /\ ~Known(n) THEN 1 ELSE 0)]
  BY DEF EnqueuePings
<1>3. \A n \in Nodes : fetches[n] \in Nat /\ ping[n] \in {"none", "pending", "resolved", "rejected"}
  BY DEF TypeOK
<1>4. ping' \in [Nodes -> {"none", "pending", "resolved", "rejected"}]
  BY <1>1, <1>3
<1>5. fetches' \in [Nodes -> Nat]
  BY <1>2, <1>3
<1>6. \A n \in Nodes : Known(n) => Known(n)'
  BY <1>1 DEF Known
<1>7. \A n \in nodes : Known(n)'
  BY <1>1 DEF Known
<1>8. OneFetch'
  <2> SUFFICES ASSUME NEW n \in Nodes
               PROVE  /\ ping'[n] = "none" => fetches'[n] = 0
                      /\ fetches'[n] <= 1
                      /\ latency'[n] > 0 => ping'[n] = "resolved"
    BY DEF OneFetch
  <2>1. CASE n \in nodes /\ ~Known(n)
    <3>1. ping'[n] = "pending" /\ fetches'[n] = fetches[n] + 1
      BY <2>1, <1>1, <1>2
    <3>2. ping[n] = "none" /\ fetches[n] = 0 /\ ~(latency[n] > 0)
      BY <2>1 DEF Known, OneFetch
    <3>3. QED
      BY <3>1, <3>2
  <2>2. CASE ~(n \in nodes /\ ~Known(n))
    <3>1. ping'[n] = ping[n] /\ fetches'[n] = fetches[n]
      BY <2>2, <1>1, <1>2, <1>3
    <3>2. QED
      BY <3>1 DEF OneFetch
  <2>3. QED
    BY <2>1, <2>2
<1>9. QED
  BY <1>4, <1>5, <1>6, <1>7, <1>8

LEMMA NextPInv == PInv /\ [Next]_vars => PInv'
<1> SUFFICES ASSUME PInv, [Next]_vars PROVE PInv'
  OBVIOUS
<1> USE DEF PInv
<1>1. ASSUME NEW c \in Calls, Begin(c) PROVE PInv'
  <2>0. PICK op \in {"read", "store"}, offer \in Offers :
           \E s \in OrdersOf(op, offer) :
               /\ operation' = [operation EXCEPT ![c] = op]
               /\ order' = [order EXCEPT ![c] = s]
               /\ pinged' = [pinged EXCEPT ![c] = PingedNodes(op)]
    BY <1>1 DEF Begin
  <2>1. PICK s \in OrdersOf(op, offer) :
           /\ operation' = [operation EXCEPT ![c] = op]
           /\ order' = [order EXCEPT ![c] = s]
           /\ pinged' = [pinged EXCEPT ![c] = PingedNodes(op)]
    BY <2>0
  <2>2. offer \subseteq Nodes
    BY PingAssumption
  <2>3. /\ s \in Seq(Nodes)
        /\ \A i, j \in DOMAIN s : i # j => s[i] # s[j]
        /\ \A i, j \in DOMAIN s : i < j => Priority(op, s[i]) <= Priority(op, s[j])
        /\ \A i \in DOMAIN s : Applicable(op, s[i])
    BY <2>2, OrdersAreSequences
  <2>4. PingedNodes(op) \subseteq {n \in Nodes : Known(n) /\ Applicable(op, n)}
    BY DEF PingedNodes, Known
  <2>5. UNCHANGED <<ping, latency, fetches, awaited, later>>
        /\ pc' = [pc EXCEPT ![c] = "filtering"]
        /\ selected' = [selected EXCEPT ![c] = None]
    BY <1>1 DEF Begin, map
  <2>6. TypeOK'
    BY <2>1, <2>3, <2>4, <2>5 DEF TypeOK
  <2>7. OneFetch'
    BY <2>5 DEF OneFetch
  <2>8. Sorted'
    <3> SUFFICES ASSUME NEW d \in Calls
                 PROVE  /\ \A i, j \in DOMAIN order'[d] : i # j => order'[d][i] # order'[d][j]
                        /\ \A i, j \in DOMAIN order'[d] :
                               i < j => Priority(operation'[d], order'[d][i])
                                            <= Priority(operation'[d], order'[d][j])
                        /\ \A i \in DOMAIN order'[d] : Applicable(operation'[d], order'[d][i])
      BY DEF Sorted, Applicable, Priority
    <3>1. CASE d = c
      <4>1. order'[d] = s /\ operation'[d] = op
        BY <2>1, <3>1 DEF TypeOK
      <4>2. QED
        BY <4>1, <2>3
    <3>2. CASE d # c
      <4>1. order'[d] = order[d] /\ operation'[d] = operation[d]
        BY <2>1, <3>2 DEF TypeOK
      <4>2. QED
        BY <4>1 DEF Sorted
    <3>3. QED
      BY <3>1, <3>2
  <2>9. Counted'
    <3> SUFFICES ASSUME NEW d \in Calls
                 PROVE  pinged'[d] \subseteq {n \in Nodes : Known(n) /\ Applicable(operation'[d], n)}
      BY <2>5 DEF Counted, Known, Applicable
    <3>1. CASE d = c
      BY <2>1, <2>4, <3>1 DEF TypeOK
    <3>2. CASE d # c
      BY <2>1, <3>2 DEF TypeOK, Counted
    <3>3. QED
      BY <3>1, <3>2
  <2>10. QED
    BY <2>6, <2>7, <2>8, <2>9
<1>2. ASSUME NEW c \in Calls, Enqueue(c) PROVE PInv'
  <2> DEFINE sync == FirstNotPinged(order[c], Threshold - Cardinality(pinged[c]))
  <2>1. order[c] \in Seq(Nodes)
    BY DEF TypeOK
  <2>2. sync \subseteq Nodes /\ FirstNotPinged(order[c], ThresholdInc) \subseteq Nodes
    BY <2>1, FirstNotPingedType
  <2>3. /\ EnqueuePings(sync)
        /\ awaited' = [awaited EXCEPT ![c] = sync]
        /\ later' = [later EXCEPT ![c] = FirstNotPinged(order[c], ThresholdInc)]
        /\ pc' = [pc EXCEPT ![c] = "awaiting"]
        /\ UNCHANGED <<latency, operation, pinged, order, selected>>
    BY <1>2 DEF Enqueue
  <2> HIDE DEF sync
  <2>4. /\ ping' \in [Nodes -> {"none", "pending", "resolved", "rejected"}]
        /\ fetches' \in [Nodes -> Nat]
        /\ OneFetch'
        /\ \A n \in Nodes : Known(n) => Known(n)'
    BY <2>2, <2>3, EnqueuePingsKeeps
  <2>5. TypeOK'
    BY <2>2, <2>3, <2>4 DEF TypeOK
  <2>6. Sorted'
    BY <2>3 DEF Sorted, Priority, Applicable
  <2>7. Counted'
    BY <2>3, <2>4 DEF Counted, Applicable
  <2>8. QED
    BY <2>4, <2>5, <2>6, <2>7
<1>3. ASSUME NEW c \in Calls, Select(c) PROVE PInv'
  <2>1. FirstByLevel(order[c]) \in Nodes \cup {None}
    <3>1. CASE order[c] = <<>>
      BY <3>1 DEF FirstByLevel
    <3>2. CASE order[c] # <<>>
      <4>1. order[c] \in Seq(Nodes) /\ latency \in [Nodes -> 0..AbortTimeout]
        BY DEF TypeOK
      <4>2. PICK i \in DOMAIN order[c] : FirstByLevel(order[c]) = order[c][i]
        BY <3>2, <4>1, FirstByLevelIsLowest
      <4>3. QED
        BY <4>1, <4>2
    <3>3. QED
      BY <3>1, <3>2
  <2>2. /\ selected' = [selected EXCEPT ![c] = FirstByLevel(order[c])]
        /\ pc' = [pc EXCEPT ![c] = "selected"]
        /\ UNCHANGED <<map, operation, pinged, order, awaited, later>>
    BY <1>3 DEF Select
  <2>3. TypeOK'
    BY <2>1, <2>2 DEF TypeOK, map
  <2>4. QED
    BY <2>2, <2>3 DEF map, OneFetch, Sorted, Counted, Known, Priority, Applicable
<1>4. ASSUME NEW c \in Calls, PingInBackground(c) PROVE PInv'
  <2>1. EnqueuePings(later[c]) /\ latency' = latency /\ later[c] \subseteq Nodes
    BY <1>4 DEF PingInBackground, TypeOK
  <2>2. /\ ping' \in [Nodes -> {"none", "pending", "resolved", "rejected"}]
        /\ fetches' \in [Nodes -> Nat]
        /\ OneFetch'
        /\ \A n \in Nodes : Known(n) => Known(n)'
    BY <2>1, EnqueuePingsKeeps
  <2>3. <<>> \in Seq(Nodes)
    OBVIOUS
  <2>4. TypeOK'
    BY <1>4, <2>1, <2>2, <2>3 DEF TypeOK, PingInBackground
  <2>5. /\ operation' = [operation EXCEPT ![c] = "read"]
        /\ pinged' = [pinged EXCEPT ![c] = {}]
        /\ order' = [order EXCEPT ![c] = <<>>]
    BY <1>4 DEF PingInBackground
  <2>6. Sorted'
    <3> SUFFICES ASSUME NEW d \in Calls
                 PROVE  /\ \A i, j \in DOMAIN order'[d] : i # j => order'[d][i] # order'[d][j]
                        /\ \A i, j \in DOMAIN order'[d] :
                               i < j => Priority(operation'[d], order'[d][i])
                                            <= Priority(operation'[d], order'[d][j])
                        /\ \A i \in DOMAIN order'[d] : Applicable(operation'[d], order'[d][i])
      BY DEF Sorted, Applicable, Priority
    <3>1. CASE d = c
      BY <2>5, <3>1 DEF TypeOK
    <3>2. CASE d # c
      <4>1. order'[d] = order[d] /\ operation'[d] = operation[d]
        BY <2>5, <3>2 DEF TypeOK
      <4>2. QED
        BY <4>1 DEF Sorted
    <3>3. QED
      BY <3>1, <3>2
  <2>7. Counted'
    <3> SUFFICES ASSUME NEW d \in Calls
                 PROVE  pinged'[d] \subseteq {n \in Nodes : Known(n)' /\ Applicable(operation'[d], n)}
      BY DEF Counted, Applicable
    <3>1. CASE d = c
      BY <2>5, <3>1 DEF TypeOK
    <3>2. CASE d # c
      BY <2>2, <2>5, <3>2 DEF TypeOK, Counted
    <3>3. QED
      BY <3>1, <3>2
  <2>8. QED
    BY <2>2, <2>4, <2>6, <2>7
<1>5. ASSUME NEW n \in Nodes, PingEnds(n) PROVE PInv'
  <2>1. PICK time \in 0..AbortTimeout : PingResolves(n, time) \/ PingRejects(n)
    <3>1. 0 \in 0..AbortTimeout
      BY PingAssumption
    <3>2. QED
      BY <1>5, <3>1 DEF PingEnds
  <2>2. /\ ping[n] = "pending"
        /\ UNCHANGED <<fetches, calls>>
        /\ \/ /\ ping' = [ping EXCEPT ![n] = "resolved"]
              /\ latency' = [latency EXCEPT ![n] = time]
           \/ /\ ping' = [ping EXCEPT ![n] = "rejected"]
              /\ latency' = latency
    BY <2>1 DEF PingResolves, PingRejects
  <2>3. TypeOK'
    BY <2>2, ZenonT(40) DEF TypeOK, calls
  <2>4. OneFetch'
    <3> SUFFICES ASSUME NEW m \in Nodes
                 PROVE  /\ ping'[m] = "none" => fetches'[m] = 0
                        /\ fetches'[m] <= 1
                        /\ latency'[m] > 0 => ping'[m] = "resolved"
      BY DEF OneFetch
    <3>1. fetches' = fetches /\ fetches[m] <= 1
      BY <2>2 DEF OneFetch
    <3>2. CASE m # n
      <4>1. ping'[m] = ping[m] /\ latency'[m] = latency[m]
        BY <2>2, <3>2 DEF TypeOK
      <4>2. QED
        BY <3>1, <4>1 DEF OneFetch
    <3>3. CASE m = n
      <4>1. ~(latency[n] > 0)
        BY <2>2 DEF OneFetch
      <4>2. \/ ping'[n] = "resolved"
            \/ ping'[n] = "rejected" /\ latency' = latency
        BY <2>2 DEF TypeOK
      <4>3. QED
        BY <3>1, <3>3, <4>1, <4>2
    <3>4. QED
      BY <3>2, <3>3
  <2>5. Sorted'
    BY <2>2 DEF calls, Sorted, Priority, Applicable
  <2>6. \A m \in Nodes : Known(m) => Known(m)'
    BY <2>2 DEF Known, TypeOK
  <2>7. Counted'
    BY <2>2, <2>6 DEF calls, Counted, Applicable
  <2>8. QED
    BY <2>3, <2>4, <2>5, <2>7
<1>6. CASE UNCHANGED vars
  BY <1>6 DEF vars, map, calls, TypeOK, OneFetch, Sorted, Counted, Known, Priority, Applicable
<1>7. QED
  BY <1>1, <1>2, <1>3, <1>4, <1>5, <1>6 DEF Next, CallStep

(* The type invariant of the map of pings and of the calls. *)
THEOREM TypeCorrect == Spec => []TypeOK
<1>1. PInv => TypeOK
  BY DEF PInv
<1>2. QED
  BY InitPInv, NextPInv, <1>1, PTL DEF Spec

(* A node is sent one ping, however many operations overlap. *)
THEOREM NodesArePingedOnce == Spec => []PingedOnce
<1>1. PInv => PingedOnce
  BY DEF PInv, OneFetch, PingedOnce
<1>2. QED
  BY InitPInv, NextPInv, <1>1, PTL DEF Spec

-----------------------------------------------------------------------------
(* Either every node of the sequence that is not in the map is among the first
   k of them, or those are at least k. *)
LEMMA FirstNotPingedIsEnough ==
    ASSUME NEW s \in Seq(Nodes), \A i, j \in DOMAIN s : i # j => s[i] # s[j], NEW k \in Int
    PROVE  \/ \A i \in DOMAIN s : Known(s[i]) \/ s[i] \in FirstNotPinged(s, k)
           \/ Cardinality(FirstNotPinged(s, k)) >= k
<1> DEFINE N == NotPinged(s)
           Upto(j) == N \cap 1..j
           Beyond == {j \in N : ~(Cardinality(Upto(j)) <= k)}
           F == FirstNotPinged(s, k)
<1>1. N \subseteq DOMAIN s /\ DOMAIN s = 1..Len(s) /\ Len(s) \in Nat
  BY DEF NotPinged
<1>2. \A i \in DOMAIN s : s[i] \in Nodes
  OBVIOUS
<1>3. F = {s[i] : i \in {j \in N : Cardinality(Upto(j)) <= k}}
  BY DEF FirstNotPinged
<1>4. CASE Beyond = {}
  <2>1. \A i \in DOMAIN s : ~Known(s[i]) => i \in N
    BY DEF NotPinged
  <2>2. QED
    BY <1>3, <1>4, <2>1
<1>5. CASE Beyond # {}
  <2>1. PICK m \in Beyond : \A j \in Beyond : m <= j
    <3>1. Beyond \subseteq Nat
      BY <1>1
    <3> HIDE DEF Beyond
    <3>2. QED
      BY <3>1, <1>5, LeastNumber
  <2>2. m \in N /\ m \in Nat /\ m >= 1 /\ ~(Cardinality(Upto(m)) <= k)
    BY <1>1, <2>1
  <2> DEFINE A == Upto(m - 1)
  <2>3. IsFiniteSet(A)
    <3>1. IsFiniteSet(1..(m - 1))
      BY <2>2, FS_Interval
    <3>2. QED
      BY <3>1, FS_Subset
  <2>4. Cardinality(A) >= k
    <3>1. Upto(m) = A \cup {m} /\ m \notin A
      BY <2>2
    <3>2. Cardinality(A) \in Nat
      BY <2>3, FS_CardinalityType
    <3> HIDE DEF A, Upto
    <3>3. Cardinality(Upto(m)) = Cardinality(A) + 1
      BY <2>3, <3>1, FS_AddElement
    <3>4. QED
      BY <2>2, <3>2, <3>3
  <2>5. \A j \in A : s[j] \in F
    <3> SUFFICES ASSUME NEW j \in A PROVE s[j] \in F
      OBVIOUS
    <3>1. j \in N /\ j < m
      BY <2>2
    <3>2. j \notin Beyond
      <4>1. j \in Nat
        BY <1>1, <3>1
      <4>2. j \in Beyond => m <= j
        BY <2>1
      <4>3. QED
        BY <2>2, <3>1, <4>1, <4>2
    <3>3. Cardinality(Upto(j)) <= k
      BY <3>1, <3>2
    <3>4. QED
      BY <1>3, <3>1, <3>3
  <2>6. IsFiniteSet(F)
    BY FirstNotPingedType, PingAssumption, FS_Subset
  <2> DEFINE f == [j \in A |-> s[j]]
  <2>7. f \in Injection(A, F)
    <3>1. A \subseteq DOMAIN s
      BY <1>1
    <3> HIDE DEF A, F
    <3>2. f \in [A -> F]
      BY <2>5
    <3>3. IsInjective(f)
      BY <3>1 DEF IsInjective
    <3>4. QED
      BY <3>2, <3>3 DEF Injection
  <2>8. Cardinality(A) <= Cardinality(F)
    <3> HIDE DEF A, F, f
    <3> QED BY <2>6, <2>7, FS_Injection
  <2>9. Cardinality(A) \in Nat /\ Cardinality(F) \in Nat
    BY <2>3, <2>6, FS_CardinalityType
  <2> HIDE DEF A, F
  <2>10. Cardinality(F) >= k
    BY <2>4, <2>8, <2>9
  <2>11. QED
    BY <2>10 DEF F
<1>6. QED
  BY <1>4, <1>5

(* Pinged nodes that can serve an operation. *)
Served(op) == {n \in Nodes : Known(n) /\ Applicable(op, n)}

LEMMA ServedIsFinite ==
    ASSUME NEW op
    PROVE  IsFiniteSet(Served(op)) /\ Cardinality(Served(op)) \in Nat
<1>1. IsFiniteSet(Served(op))
  BY PingAssumption, FS_Subset DEF Served
<1>2. QED
  BY <1>1, FS_CardinalityType

(* The nodes a call counted and those it pings itself are enough. *)
LEMMA EnqueueIsEnough ==
    ASSUME PInv, NEW c \in Calls, Enqueue(c)
    PROVE  \/ Cardinality(Served(operation[c])') >= Threshold
           \/ (\A i \in DOMAIN order[c] : Known(order[c][i]))'
<1> DEFINE k == Threshold - Cardinality(pinged[c])
           sync == FirstNotPinged(order[c], k)
           op == operation[c]
<1>1. /\ order[c] \in Seq(Nodes) /\ pinged[c] \subseteq Served(op)
      /\ \A i, j \in DOMAIN order[c] : i # j => order[c][i] # order[c][j]
      /\ \A i \in DOMAIN order[c] : Applicable(op, order[c][i])
  BY DEF PInv, TypeOK, Sorted, Counted, Served
<1>2. IsFiniteSet(pinged[c]) /\ Cardinality(pinged[c]) \in Nat
  BY <1>1, ServedIsFinite, FS_Subset, FS_CardinalityType
<1>3. k \in Int /\ Threshold \in Nat
  BY <1>2, PingAssumption
<1>4. sync \subseteq Nodes
  BY <1>1, FirstNotPingedType
<1>5. EnqueuePings(sync) /\ latency' = latency /\ operation' = operation
  BY DEF Enqueue
<1>6. /\ \A n \in Nodes : Known(n) => Known(n)'
      /\ \A n \in sync : Known(n)'
  <2> HIDE DEF sync
  <2> QED BY <1>4, <1>5, EnqueuePingsKeeps DEF PInv
<1>7. CASE \A i \in DOMAIN order[c] : Known(order[c][i]) \/ order[c][i] \in sync
  <2>1. \A i \in DOMAIN order[c] : order[c][i] \in Nodes
    BY <1>1
  <2>2. order' = order
    BY DEF Enqueue
  <2> HIDE DEF sync
  <2>3. QED
    BY <1>6, <1>7, <2>1, <2>2 DEF Known
<1>8. CASE Cardinality(sync) >= k
  <2>1. sync \cap pinged[c] = {}
    BY <1>1 DEF FirstNotPinged, NotPinged, Served
  <2>2. \A n \in sync : Applicable(op, n)
    BY <1>1 DEF FirstNotPinged, NotPinged
  <2>3. IsFiniteSet(sync) /\ Cardinality(sync) \in Nat
    <3> HIDE DEF sync
    <3>1. IsFiniteSet(sync)
      BY <1>4, PingAssumption, FS_Subset
    <3>2. QED
      BY <3>1, FS_CardinalityType
  <2> HIDE DEF sync
  <2>4. Cardinality(pinged[c] \cup sync) = Cardinality(pinged[c]) + Cardinality(sync)
    <3>1. pinged[c] \cap sync = {}
      BY <2>1
    <3>2. Cardinality(pinged[c] \cap sync) = 0
      BY <3>1, FS_EmptySet
    <3>3. Cardinality(pinged[c] \cup sync)
             = Cardinality(pinged[c]) + Cardinality(sync) - Cardinality(pinged[c] \cap sync)
      BY <1>2, <2>3, FS_Union
    <3>4. QED
      BY <1>2, <2>3, <3>2, <3>3
  <2>5. pinged[c] \cup sync \subseteq Served(op)'
    <3>1. \A n \in Nodes : Applicable(op, n) <=> Applicable(op, n)'
      BY <1>5 DEF Applicable
    <3>2. QED
      BY <1>1, <1>4, <1>5, <1>6, <2>2 DEF Served, Applicable
  <2>6. IsFiniteSet(Served(op)') /\ Cardinality(Served(op)') \in Nat
    <3>1. Served(op)' \subseteq Nodes
      BY DEF Served
    <3>2. IsFiniteSet(Served(op)')
      BY <3>1, PingAssumption, FS_Subset
    <3>3. QED
      BY <3>2, FS_CardinalityType
  <2>7. Cardinality(pinged[c] \cup sync) <= Cardinality(Served(op)')
    <3> DEFINE S == Served(op)'
               T == pinged[c] \cup sync
    <3>1. IsFiniteSet(S) /\ T \in SUBSET S
      BY <2>5, <2>6
    <3> HIDE DEF S, T
    <3>2. Cardinality(T) <= Cardinality(S)
      BY <3>1, FS_Subset
    <3>3. QED
      BY <3>2 DEF S, T
  <2>8. Cardinality(Served(op)') >= Threshold
    <3> HIDE DEF op
    <3> QED BY <1>2, <1>3, <1>8, <2>3, <2>4, <2>6, <2>7
  <2>9. QED
    BY <2>8
<1>9. QED
  <2> HIDE DEF sync, k
  <2>1. \/ \A i \in DOMAIN order[c] : Known(order[c][i]) \/ order[c][i] \in sync
        \/ Cardinality(sync) >= k
    BY <1>1, <1>3, FirstNotPingedIsEnough DEF sync
  <2>2. QED
    BY <1>7, <1>8, <2>1

Enough ==
    \A c \in Calls :
        pc[c] \in {"awaiting", "selected"} =>
            \/ Cardinality(Served(operation[c])) >= Threshold
            \/ \A i \in DOMAIN order[c] : Known(order[c][i])

(* What a call has is kept by a step that leaves its operation and order, and
   only adds to the map. *)
LEMMA EnoughIsKept ==
    ASSUME TypeOK, NEW c \in Calls,
           \A n \in Nodes : Known(n) => Known(n)',
           operation'[c] = operation[c], order'[c] = order[c],
           \/ Cardinality(Served(operation[c])) >= Threshold
           \/ \A i \in DOMAIN order[c] : Known(order[c][i])
    PROVE  \/ Cardinality(Served(operation[c])') >= Threshold
           \/ (\A i \in DOMAIN order[c] : Known(order[c][i]))'
<1>1. CASE Cardinality(Served(operation[c])) >= Threshold
  <2> DEFINE S == Served(operation[c])
             T == Served(operation[c])'
  <2>1. S \subseteq T
    BY DEF Served, Applicable
  <2>2. T \subseteq Nodes /\ S \subseteq Nodes
    BY DEF Served
  <2> HIDE DEF S, T
  <2>3. IsFiniteSet(T) /\ IsFiniteSet(S)
    BY <2>2, PingAssumption, FS_Subset
  <2>4. Cardinality(T) \in Nat /\ Cardinality(S) \in Nat /\ Cardinality(S) <= Cardinality(T)
    BY <2>1, <2>3, FS_Subset, FS_CardinalityType
  <2>5. Cardinality(T) >= Threshold
    BY <1>1, <2>4, PingAssumption DEF S
  <2>6. QED
    BY <2>5 DEF T
<1>2. CASE \A i \in DOMAIN order[c] : Known(order[c][i])
  <2>1. \A i \in DOMAIN order[c] : order[c][i] \in Nodes
    BY DEF TypeOK
  <2>2. QED
    BY <1>2, <2>1 DEF Known
<1>3. QED
  BY <1>1, <1>2

(* The map only grows. *)
LEMMA MapGrows ==
    ASSUME PInv, [Next]_vars
    PROVE  \A n \in Nodes : Known(n) => Known(n)'
<1>1. ASSUME NEW nodes, nodes \subseteq Nodes, EnqueuePings(nodes)
      PROVE  \A n \in Nodes : Known(n) => Known(n)'
  BY <1>1 DEF EnqueuePings, Known
<1>2. ASSUME NEW c \in Calls, Enqueue(c)
      PROVE  \A n \in Nodes : Known(n) => Known(n)'
  <2>1. order[c] \in Seq(Nodes)
    BY DEF PInv, TypeOK
  <2>2. FirstNotPinged(order[c], Threshold - Cardinality(pinged[c])) \subseteq Nodes
    BY <2>1, FirstNotPingedType
  <2>3. QED
    BY <1>1, <1>2, <2>2 DEF Enqueue
<1>3. ASSUME NEW c \in Calls, PingInBackground(c)
      PROVE  \A n \in Nodes : Known(n) => Known(n)'
  BY <1>1, <1>3 DEF PingInBackground, PInv, TypeOK
<1>4. ASSUME NEW c \in Calls, Begin(c) \/ Select(c)
      PROVE  \A n \in Nodes : Known(n) => Known(n)'
  BY <1>4 DEF Begin, Select, map, Known
<1>5. ASSUME NEW n \in Nodes, PingEnds(n)
      PROVE  \A m \in Nodes : Known(m) => Known(m)'
  BY <1>5 DEF PingEnds, PingResolves, PingRejects, Known, PInv, TypeOK
<1>6. CASE UNCHANGED vars
  BY <1>6 DEF vars, map, Known
<1>7. QED
  BY <1>2, <1>3, <1>4, <1>5, <1>6 DEF Next, CallStep

LEMMA NextEnough == PInv /\ Enough /\ [Next]_vars => Enough'
<1> SUFFICES ASSUME PInv, Enough, [Next]_vars, NEW c \in Calls,
                    pc'[c] \in {"awaiting", "selected"}
             PROVE  \/ Cardinality(Served(operation[c])') >= Threshold
                    \/ (\A i \in DOMAIN order[c] : Known(order[c][i]))'
  BY DEF Enough
<1>1. \A n \in Nodes : Known(n) => Known(n)'
  BY MapGrows
<1>2. TypeOK
  BY DEF PInv
<1>3. CASE Enqueue(c)
  <2>1. order' = order /\ operation' = operation
    BY <1>3 DEF Enqueue
  <2>2. QED
    BY <1>3, <2>1, EnqueueIsEnough
<1>4. CASE ~Enqueue(c)
  <2>1. /\ pc[c] \in {"awaiting", "selected"}
        /\ operation'[c] = operation[c] /\ order'[c] = order[c]
    <3>1. ASSUME NEW d \in Calls, Begin(d)
          PROVE  /\ pc[c] \in {"awaiting", "selected"}
                 /\ operation'[c] = operation[c] /\ order'[c] = order[c]
      BY <3>1, <1>2 DEF Begin, TypeOK
    <3>2. ASSUME NEW d \in Calls, Enqueue(d)
          PROVE  /\ pc[c] \in {"awaiting", "selected"}
                 /\ operation'[c] = operation[c] /\ order'[c] = order[c]
      BY <3>2, <1>2, <1>4 DEF Enqueue, TypeOK
    <3>3. ASSUME NEW d \in Calls, Select(d)
          PROVE  /\ pc[c] \in {"awaiting", "selected"}
                 /\ operation'[c] = operation[c] /\ order'[c] = order[c]
      BY <3>3, <1>2 DEF Select, TypeOK
    <3>4. ASSUME NEW d \in Calls, PingInBackground(d)
          PROVE  /\ pc[c] \in {"awaiting", "selected"}
                 /\ operation'[c] = operation[c] /\ order'[c] = order[c]
      BY <3>4, <1>2 DEF PingInBackground, TypeOK
    <3>5. ASSUME NEW n \in Nodes, PingEnds(n)
          PROVE  /\ pc[c] \in {"awaiting", "selected"}
                 /\ operation'[c] = operation[c] /\ order'[c] = order[c]
      BY <3>5 DEF PingEnds, PingResolves, PingRejects, calls
    <3>6. CASE UNCHANGED vars
      BY <3>6 DEF vars, calls
    <3>7. QED
      BY <3>1, <3>2, <3>3, <3>4, <3>5, <3>6 DEF Next, CallStep
  <2>2. \/ Cardinality(Served(operation[c])) >= Threshold
        \/ \A i \in DOMAIN order[c] : Known(order[c][i])
    BY <2>1 DEF Enough
  <2>3. operation'[c] = operation[c] /\ order'[c] = order[c]
    BY <2>1
  <2>4. QED
    BY ONLY <1>1, <1>2, <2>2, <2>3, EnoughIsKept, c \in Calls
<1>5. QED
  BY <1>3, <1>4

(* An operation goes on only when enough nodes that can serve it are pinged,
   or all it was offered: the count read before the awaits never misleads it. *)
THEOREM OperationsPingEnough == Spec => []EnoughPinged
<1>1. Init => Enough
  BY DEF Init, Enough
<1>2. Enough => EnoughPinged
  BY DEF Enough, EnoughPinged, Served
<1>3. QED
  BY InitPInv, NextPInv, NextEnough, <1>1, <1>2, PTL DEF Spec

-----------------------------------------------------------------------------
(* What a call still waits for. *)
Waits(c) == {n \in awaited[c] : ping[n] = "pending"}

(* What a call waits for is in the map, so nobody pings it again. *)
AwaitedKnown ==
    \A c \in Calls : pc[c] = "awaiting" => \A n \in awaited[c] : Known(n)

WaitsOnlyShrink ==
    \A c \in Calls :
        pc[c] = "awaiting" /\ pc'[c] = "awaiting" => Waits(c)' \subseteq Waits(c)

(* A ping that has ended is not begun again. *)
LEMMA PingsGoOneWay ==
    ASSUME PInv, [Next]_vars
    PROVE  \A n \in Nodes : ping'[n] = "pending" => ping[n] \in {"none", "pending"}
<1>1. ASSUME NEW nodes, EnqueuePings(nodes)
      PROVE  \A n \in Nodes : ping'[n] = "pending" => ping[n] \in {"none", "pending"}
  BY <1>1 DEF EnqueuePings, Known
<1>2. ASSUME NEW c \in Calls, Enqueue(c) \/ PingInBackground(c)
      PROVE  \A n \in Nodes : ping'[n] = "pending" => ping[n] \in {"none", "pending"}
  BY <1>1, <1>2 DEF Enqueue, PingInBackground
<1>3. ASSUME NEW c \in Calls, Begin(c) \/ Select(c)
      PROVE  \A n \in Nodes : ping'[n] = "pending" => ping[n] \in {"none", "pending"}
  BY <1>3 DEF Begin, Select, map
<1>4. ASSUME NEW n \in Nodes, PingEnds(n)
      PROVE  \A m \in Nodes : ping'[m] = "pending" => ping[m] \in {"none", "pending"}
  BY <1>4 DEF PingEnds, PingResolves, PingRejects, PInv, TypeOK
<1>5. CASE UNCHANGED vars
  BY <1>5 DEF vars, map
<1>6. QED
  BY <1>2, <1>3, <1>4, <1>5 DEF Next, CallStep

(* What a call that waits is left with after a step of anybody. *)
LEMMA AwaitedIsKept ==
    ASSUME PInv, [Next]_vars, NEW c \in Calls, pc'[c] = "awaiting", ~Enqueue(c)
    PROVE  pc[c] = "awaiting" /\ awaited'[c] = awaited[c]
<1>1. TypeOK
  BY DEF PInv
<1>2. ASSUME NEW d \in Calls, Begin(d)
      PROVE  pc[c] = "awaiting" /\ awaited'[c] = awaited[c]
  BY <1>1, <1>2 DEF Begin, TypeOK
<1>3. ASSUME NEW d \in Calls, Enqueue(d)
      PROVE  pc[c] = "awaiting" /\ awaited'[c] = awaited[c]
  BY <1>1, <1>3 DEF Enqueue, TypeOK
<1>4. ASSUME NEW d \in Calls, Select(d)
      PROVE  pc[c] = "awaiting" /\ awaited'[c] = awaited[c]
  BY <1>1, <1>4 DEF Select, TypeOK
<1>5. ASSUME NEW d \in Calls, PingInBackground(d)
      PROVE  pc[c] = "awaiting" /\ awaited'[c] = awaited[c]
  BY <1>1, <1>5 DEF PingInBackground, TypeOK
<1>6. ASSUME NEW n \in Nodes, PingEnds(n)
      PROVE  pc[c] = "awaiting" /\ awaited'[c] = awaited[c]
  BY <1>6 DEF PingEnds, PingResolves, PingRejects, calls
<1>7. CASE UNCHANGED vars
  BY <1>7 DEF vars, calls
<1>8. QED
  BY <1>2, <1>3, <1>4, <1>5, <1>6, <1>7 DEF Next, CallStep

LEMMA NextAwaitedKnown == PInv /\ AwaitedKnown /\ [Next]_vars => AwaitedKnown'
<1> SUFFICES ASSUME PInv, AwaitedKnown, [Next]_vars, NEW c \in Calls, pc'[c] = "awaiting",
                    NEW n \in awaited'[c]
             PROVE  Known(n)'
  BY DEF AwaitedKnown
<1>1. CASE Enqueue(c)
  <2> DEFINE now == FirstNotPinged(order[c], Threshold - Cardinality(pinged[c]))
  <2>1. now \subseteq Nodes
    BY FirstNotPingedType DEF PInv, TypeOK
  <2>2. EnqueuePings(now) /\ latency' = latency /\ awaited' = [awaited EXCEPT ![c] = now]
    BY <1>1 DEF Enqueue
  <2> HIDE DEF now
  <2>3. \A m \in now : Known(m)'
    BY <2>1, <2>2, EnqueuePingsKeeps DEF PInv
  <2>4. awaited'[c] = now
    BY <2>2 DEF PInv, TypeOK
  <2>5. QED
    BY <2>3, <2>4
<1>2. CASE ~Enqueue(c)
  <2>1. pc[c] = "awaiting" /\ awaited'[c] = awaited[c]
    BY <1>2, AwaitedIsKept
  <2>2. Known(n) /\ n \in Nodes
    BY <2>1 DEF AwaitedKnown, PInv, TypeOK
  <2>3. QED
    BY <2>2, MapGrows
<1>3. QED
  BY <1>1, <1>2

(* The safety half of CallSelects, for any number of operations: what a call
   waits for only becomes less.  Each ping it waits for ends once and for all,
   and no other operation, which may begin and ping at any time, makes it wait
   for more or again (PingStrategy.ts:61-89). *)
THEOREM CallsWaitForLess == Spec => [][WaitsOnlyShrink]_vars
<1>1. Init => AwaitedKnown
  BY DEF Init, AwaitedKnown
<1>2. ASSUME PInv, AwaitedKnown, Next
      PROVE  WaitsOnlyShrink
  <2> SUFFICES ASSUME NEW c \in Calls, pc[c] = "awaiting", pc'[c] = "awaiting",
                      NEW n \in awaited'[c], ping'[n] = "pending"
               PROVE  n \in awaited[c] /\ ping[n] = "pending"
    BY DEF WaitsOnlyShrink, Waits
  <2>1. ~Enqueue(c)
    BY DEF Enqueue
  <2>2. awaited'[c] = awaited[c]
    BY <1>2, <2>1, AwaitedIsKept
  <2>3. n \in Nodes /\ Known(n)
    BY <1>2, <2>2 DEF AwaitedKnown, PInv, TypeOK
  <2>4. ping[n] \in {"none", "pending"}
    BY <1>2, <2>3, PingsGoOneWay
  <2>5. QED
    BY <2>2, <2>3, <2>4 DEF Known
<1>3. QED
  BY InitPInv, NextPInv, NextAwaitedKnown, <1>1, <1>2, PTL DEF Spec

-----------------------------------------------------------------------------
(* A call that selects takes the first node of the lowest level. *)
LEMMA SelectsLowest ==
    ASSUME PInv, [Next]_vars, NEW c \in Calls, Selects(c), order[c] # <<>>
    PROVE  \E i \in DOMAIN order[c] :
              /\ selected'[c] = order[c][i]
              /\ \A j \in DOMAIN order[c] :
                     \/ Level(order[c][i]) < Level(order[c][j])
                     \/ Level(order[c][i]) = Level(order[c][j]) /\ i <= j
<1>1. Select(c)
  <2>1. pc[c] = "awaiting" /\ pc'[c] = "selected"
    BY DEF Selects
  <2>2. \A d \in Calls : ~Begin(d) /\ ~Enqueue(d) /\ ~PingInBackground(d)
    BY <2>1 DEF Begin, Enqueue, PingInBackground, PInv, TypeOK
  <2>3. \A n \in Nodes : ~PingEnds(n)
    BY <2>1 DEF PingEnds, PingResolves, PingRejects, calls
  <2>4. ~(UNCHANGED vars)
    BY <2>1 DEF vars, calls
  <2>5. PICK d \in Calls : Select(d)
    BY <2>2, <2>3, <2>4 DEF Next, CallStep
  <2>6. d = c
    BY <2>1, <2>5 DEF Select, PInv, TypeOK
  <2>7. QED
    BY <2>5, <2>6
<1>2. selected'[c] = FirstByLevel(order[c])
  BY <1>1 DEF Select, PInv, TypeOK
<1>3. order[c] \in Seq(Nodes) /\ latency \in [Nodes -> 0..AbortTimeout]
  BY DEF PInv, TypeOK
<1>4. QED
  BY <1>2, <1>3, FirstByLevelIsLowest

(* A node that did not answer in measurable time is selected only when no node
   of the operation did. *)
THEOREM UnresponsiveNodesAreLast == Spec => UnresponsiveIsLast
<1>1. ASSUME PInv, [Next]_vars, NEW c \in Calls, Selects(c), NEW i \in DOMAIN order[c],
             ping[order[c][i]] = "resolved", latency[order[c][i]] > 0
      PROVE  ping[selected'[c]] = "resolved"
  <2>1. order[c] # <<>>
    OBVIOUS
  <2>2. PICK m \in DOMAIN order[c] :
           /\ selected'[c] = order[c][m]
           /\ \A j \in DOMAIN order[c] :
                  \/ Level(order[c][m]) < Level(order[c][j])
                  \/ Level(order[c][m]) = Level(order[c][j]) /\ m <= j
    BY <1>1, <2>1, SelectsLowest
  <2>3. /\ order[c][i] \in Nodes /\ order[c][m] \in Nodes
        /\ latency \in [Nodes -> 0..AbortTimeout]
    BY <1>1 DEF PInv, TypeOK
  <2>4. /\ Level(order[c][i]) \in Nat /\ Level(order[c][m]) \in Nat
        /\ Level(order[c][i]) < Infinity
        /\ Level(order[c][m]) < Infinity => latency[order[c][m]] > 0
    BY <1>1, <2>3, LevelType
  <2>5. Level(order[c][m]) < Infinity
    BY <2>2, <2>4, PingAssumption DEF Infinity
  <2>6. QED
    BY <1>1, <2>2, <2>3, <2>4, <2>5 DEF PInv, OneFetch
<1>2. PInv /\ [Next]_vars
        => \A c \in Calls :
              Selects(c) /\ (\E i \in DOMAIN order[c] : ping[order[c][i]] = "resolved"
                                                        /\ latency[order[c][i]] > 0)
                  => ping[selected'[c]] = "resolved"
  BY <1>1
<1>3. QED
  BY InitPInv, NextPInv, <1>2, PTL DEF Spec, UnresponsiveIsLast

(* Within the level of the selected node no node of the operation has a better
   priority. *)
THEOREM BestOfLevelIsSelected == Spec => BestOfItsLevel
<1>1. ASSUME PInv, [Next]_vars, NEW c \in Calls, Selects(c), NEW j \in DOMAIN order[c],
             Level(order[c][j]) = Level(selected'[c])
      PROVE  Priority(operation[c], selected'[c]) <= Priority(operation[c], order[c][j])
  <2>1. order[c] # <<>> /\ order[c] \in Seq(Nodes)
    BY <1>1 DEF PInv, TypeOK
  <2>2. PICK m \in DOMAIN order[c] :
           /\ selected'[c] = order[c][m]
           /\ \A k \in DOMAIN order[c] :
                  \/ Level(order[c][m]) < Level(order[c][k])
                  \/ Level(order[c][m]) = Level(order[c][k]) /\ m <= k
    BY <1>1, <2>1, SelectsLowest
  <2>3. Level(order[c][m]) \in Nat
    <3>1. order[c][m] \in Nodes /\ latency \in [Nodes -> 0..AbortTimeout]
      BY <1>1 DEF PInv, TypeOK
    <3>2. QED
      BY <3>1, LevelType
  <2>4. m <= j
    BY <1>1, <2>2, <2>3
  <2>5. Priority(operation[c], order[c][m]) \in Nat
    BY <2>1, PingAssumption DEF Priority
  <2>6. QED
    BY <1>1, <2>1, <2>2, <2>4, <2>5 DEF PInv, Sorted
<1>2. PInv /\ [Next]_vars
        => \A c \in Calls :
             Selects(c) =>
                 \A i \in DOMAIN order[c] :
                     Level(order[c][i]) = Level(selected'[c])
                         => Priority(operation[c], selected'[c])
                                <= Priority(operation[c], order[c][i])
  BY <1>1
<1>3. QED
  BY InitPInv, NextPInv, <1>2, PTL DEF Spec, BestOfItsLevel

-----------------------------------------------------------------------------
(* One call. *)
Promised == {Open, Ok, Cancelled, Lost} \cup Codes

RpcTypeOK ==
    /\ kind \in {"unary", "clientStreaming", "duplex"}
    /\ socket \in {"open", "headed", "ended", "closed"}
    /\ inHeaders \in Codes \cup {Ok}
    /\ header \in Promised /\ message \in Promised /\ status \in Promised
    /\ trailer \in Promised /\ stream \in Promised
    /\ queued \in Nat /\ sent \in 0..MaxChunks /\ arrived \in Nat
    /\ timer \in {"none", "armed", "stopped", "fired"}
    /\ caller \in {"headers", "sending", "reading", "response", "done"}
    /\ outcome \in Promised
    /\ told \subseteq Codes \cup {Cancelled, Lost}

(* Before the headers nothing is settled, and the method is where it began. *)
Silent ==
    socket = "open" =>
        /\ inHeaders = Ok /\ arrived = 0
        /\ {header, message, status, trailer, stream, outcome} = {Open}
        /\ kind # "unary" => caller = "headers"

(* A timer runs only while the call is silent, and fires only then. *)
Timed ==
    /\ timer = "armed" => socket = "open" /\ kind # "unary"
    /\ timer = "fired" => socket = "closed" /\ header = Cancelled /\ arrived = 0

(* A call that is refused in its headers is at them, or has reported them. *)
Refused ==
    kind # "unary" /\ inHeaders # Ok =>
        /\ header = inHeaders
        /\ caller \in {"headers", "done"}
        /\ IsFailure(outcome) => outcome = inHeaders

(* A code a promise is rejected with was given by somebody. *)
Reported ==
    \A p \in {header, message, status, trailer, stream, outcome} :
        IsFailure(p) => p \in told

(* What has come is in the promise it is for, and nothing else is settled
   before the end. *)
Arrived ==
    /\ socket \in {"open", "headed"} =>
           {status, trailer, stream} = {Open} /\ (kind = "unary" => header = Open)
    /\ kind # "unary" /\ socket = "headed" => header # Open
    /\ kind = "clientStreaming" /\ arrived > 0 => message # Open
    /\ kind = "duplex" => caller \in {"headers", "reading", "done"}
    /\ kind = "unary" => caller \in {"response", "done"}

(* When a call is over, the promise its method waits for, or will wait for,
   is settled; only a message that should have come with an OK may be missing. *)
WaitsForNothingLost ==
    socket \in {"ended", "closed"} =>
        /\ caller = "headers" => header # Open
        /\ kind = "duplex" => stream # Open
        /\ kind # "duplex" => message # Open \/ (status = Ok /\ arrived = 0)
        /\ kind = "unary" => {header, status, trailer} = {Ok}

CallInv ==
    RpcTypeOK /\ Silent /\ Timed /\ Refused /\ Reported /\ Arrived /\ WaitsForNothingLost

-----------------------------------------------------------------------------
LEMMA CodesDiffer ==
    /\ Open \notin Codes /\ Ok \notin Codes /\ Cancelled \notin Codes
    /\ Open # Ok /\ Open # Cancelled /\ Open # Lost
    /\ Ok # Cancelled /\ Ok # Lost /\ Cancelled # Lost
BY RpcAssumption DEF Open, Ok, Cancelled, Lost

LEMMA InitCallInv == InitCall => CallInv
<1> SUFFICES ASSUME InitCall PROVE CallInv
  OBVIOUS
<1>1. kind \in {"unary", "clientStreaming", "duplex"}
  BY DEF InitCall, Kinds, FileApiClient, DagApiClient, CnsApiClient
<1>2. RpcTypeOK
  BY <1>1, RpcAssumption DEF InitCall, RpcTypeOK, Promised
<1>3. Silent /\ Timed /\ Refused /\ Reported /\ Arrived /\ WaitsForNothingLost
  BY <1>1, CodesDiffer DEF InitCall, Silent, Timed, Refused, Reported, Arrived,
     WaitsForNothingLost, IsFailure
<1>4. QED BY <1>2, <1>3 DEF CallInv

LEMMA NextCallInv == CallInv /\ [NextCall]_callVars => CallInv'
<1> SUFFICES ASSUME CallInv, [NextCall]_callVars PROVE CallInv'
  OBVIOUS
<1> USE CodesDiffer
<1>1. CASE UNCHANGED callVars
  BY <1>1 DEF CallInv, RpcTypeOK, Silent, Timed, Refused, Reported, Arrived,
     WaitsForNothingLost, callVars, promises, IsFailure
<1>2. ASSUME NEW s \in Codes \cup {Ok}, OnHeaders(s) PROVE CallInv'
  <2>1. /\ socket = "open" /\ socket' = "headed" /\ inHeaders' = s
        /\ header' = IF kind = "unary" THEN Open ELSE s
        /\ told' = IF s = Ok THEN told ELSE told \cup {s}
        /\ timer' = IF timer = "armed" /\ header' # Open THEN "stopped" ELSE timer
        /\ UNCHANGED <<kind, message, status, trailer, stream, queued, caller,
                       outcome, sent, arrived>>
        /\ {message, status, trailer, stream, outcome} = {Open}
    BY <1>2 DEF OnHeaders, StopTimer, Pending, CallInv, Silent
  <2>2. RpcTypeOK'
    BY <2>1 DEF CallInv, RpcTypeOK, Promised
  <2>3. Silent'
    BY <2>1 DEF Silent
  <2>4. Timed'
    BY <2>1 DEF CallInv, Timed, RpcTypeOK, Silent
  <2>5. Refused' /\ Reported'
    BY <2>1 DEF CallInv, Silent, Refused, Reported, IsFailure
  <2>6. Arrived' /\ WaitsForNothingLost'
    BY <2>1 DEF CallInv, RpcTypeOK, Silent, Arrived, WaitsForNothingLost
  <2>7. QED BY <2>2, <2>3, <2>4, <2>5, <2>6 DEF CallInv
<1>3. CASE OnMessage
  <2>1. RpcTypeOK'
    BY <1>3 DEF OnMessage, CallInv, RpcTypeOK, Promised, Pending
  <2>2. Silent' /\ Timed' /\ Refused' /\ Reported'
    BY <1>3 DEF OnMessage, CallInv, RpcTypeOK, Silent, Timed, Refused, Reported,
       Pending, IsFailure
  <2>3. Arrived' /\ WaitsForNothingLost'
    BY <1>3 DEF OnMessage, CallInv, RpcTypeOK, Silent, Arrived, WaitsForNothingLost, Pending
  <2>4. QED BY <2>1, <2>2, <2>3 DEF CallInv
<1>4. ASSUME NEW code \in Codes \cup {Ok, Lost}, OnEnd(code) PROVE CallInv'
  <2>1. /\ socket \in {"open", "headed"} /\ socket' = "ended"
        /\ UNCHANGED <<kind, inHeaders, queued, caller, outcome, sent, arrived>>
        /\ timer' = IF timer = "armed" /\ header' # Open THEN "stopped" ELSE timer
        /\ header' \in {header, Ok, code} /\ (header # Open => header' = header)
        /\ message' \in {message, Ok, code} /\ status' \in {status, Ok, code}
        /\ trailer' \in {trailer, Ok, code} /\ stream' \in {stream, Ok, code}
        /\ told' \in {told, told \cup {code}} /\ (code = Ok => told' = told)
        /\ code \notin told' => {header', message', status', trailer', stream'} \subseteq
               {header, message, status, trailer, stream, Ok}
    <3>1. CASE StreamEnds(code)
      BY <1>4, <3>1 DEF OnEnd, StreamEnds, EmitError, StopTimer, Pending
    <3>2. CASE UnaryEnds(code)
      BY <1>4, <3>2 DEF OnEnd, UnaryEnds, StopTimer, Pending
    <3>3. QED BY <1>4, <3>1, <3>2 DEF OnEnd
  <2>2. RpcTypeOK'
    BY <2>1 DEF CallInv, RpcTypeOK, Promised
  <2>3. timer = "armed" => header' # Open
    BY <1>4 DEF OnEnd, StreamEnds, UnaryEnds, EmitError, Pending, CallInv, Timed, Silent
  <2>4. Silent' /\ Timed'
    BY <2>1, <2>3 DEF CallInv, RpcTypeOK, Silent, Timed
  <2>5. Refused'
    BY <2>1 DEF CallInv, Refused, IsFailure, RpcTypeOK
  <2>6. Reported'
    BY <2>1 DEF CallInv, Reported, IsFailure
  <2>7. Arrived'
    BY <2>1 DEF CallInv, Arrived
  <2>8. WaitsForNothingLost'
    <3>1. CASE StreamEnds(code)
      BY <1>4, <3>1 DEF OnEnd, StreamEnds, EmitError, Pending, CallInv, RpcTypeOK, Arrived,
         Silent, WaitsForNothingLost
    <3>2. CASE UnaryEnds(code)
      BY <1>4, <3>2 DEF OnEnd, UnaryEnds, Pending, CallInv, RpcTypeOK, Arrived, Silent,
         WaitsForNothingLost
    <3>3. QED BY <1>4, <3>1, <3>2 DEF OnEnd
  <2>9. QED BY <2>2, <2>4, <2>5, <2>6, <2>7, <2>8 DEF CallInv
<1>5. CASE TimerFires
  <2>1. /\ socket = "open" /\ socket' = "closed" /\ timer' = "fired"
        /\ {header', message', status', trailer', stream'} = {Cancelled}
        /\ told' = told \cup {Cancelled}
        /\ inHeaders = Ok /\ arrived = 0 /\ outcome = Open
        /\ UNCHANGED <<kind, inHeaders, queued, caller, outcome, sent, arrived>>
    BY <1>5 DEF TimerFires, EmitError, Pending, CallInv, Timed, Silent
  <2>2. RpcTypeOK'
    BY <2>1 DEF CallInv, RpcTypeOK, Promised
  <2>3. Silent' /\ Timed' /\ Refused' /\ Reported'
    BY <2>1 DEF Silent, Timed, Refused, Reported, IsFailure
  <2>4. Arrived' /\ WaitsForNothingLost'
    BY <1>5, <2>1 DEF CallInv, Timed, RpcTypeOK, Silent, Arrived, WaitsForNothingLost,
       TimerFires, EmitError, Pending
  <2>5. QED BY <2>2, <2>3, <2>4 DEF CallInv
<1>6. CASE CallerStep
  <2>1. /\ UNCHANGED <<kind, socket, inHeaders, promises, timer, arrived, told>>
        /\ caller # "done"
        /\ outcome' \in {outcome, header, message, status, stream, Ok}
        /\ outcome' # outcome => caller' = "done"
    BY <1>6 DEF CallerStep, AwaitHeaders, SendChunk, CompleteRequests, AwaitResponse,
       ReadMessage, Settles, Moves
  <2>2. RpcTypeOK'
    <3>1. /\ queued' \in Nat /\ sent' \in 0..MaxChunks
          /\ caller' \in {"headers", "sending", "reading", "response", "done"}
      BY <1>6, RpcAssumption DEF CallerStep, AwaitHeaders, SendChunk, CompleteRequests,
         AwaitResponse, ReadMessage, Settles, Moves, CallInv, RpcTypeOK
    <3>2. QED BY <2>1, <3>1 DEF CallInv, RpcTypeOK, Promised, promises
  <2>3. Silent'
    BY <1>6, <2>1 DEF CallerStep, AwaitHeaders, SendChunk, CompleteRequests, AwaitResponse,
       ReadMessage, Settles, Moves, CallInv, Silent, RpcTypeOK, promises, IsFailure
  <2>4. Timed'
    BY <2>1 DEF CallInv, Timed, promises
  <2>5. Refused'
    BY <1>6, <2>1 DEF CallerStep, AwaitHeaders, SendChunk, CompleteRequests, AwaitResponse,
       ReadMessage, Settles, Moves, CallInv, Refused, promises, IsFailure
  <2>6. Reported'
    BY <2>1 DEF CallInv, Reported, promises, IsFailure
  <2>7. Arrived' /\ WaitsForNothingLost'
    BY <1>6, <2>1 DEF CallerStep, AwaitHeaders, SendChunk, CompleteRequests, AwaitResponse,
       ReadMessage, Settles, Moves, CallInv, RpcTypeOK, Arrived, WaitsForNothingLost, promises
  <2>8. QED BY <2>2, <2>3, <2>4, <2>5, <2>6, <2>7 DEF CallInv
<1>7. QED
  BY <1>1, <1>2, <1>3, <1>4, <1>5, <1>6 DEF NextCall, NodeStep

(* The types of a call's promises, its timer and its method. *)
THEOREM CallTypeCorrect == CallSpec => []RpcTypeOK
<1>1. CallInv => RpcTypeOK
  BY DEF CallInv
<1>2. QED BY InitCallInv, NextCallInv, <1>1, PTL DEF CallSpec

(* A status the node gives in place of an answer is what the caller of a
   stream gets, and no failure is made up. *)
THEOREM StatusesAreReported == CallSpec => []NodeStatusIsReported
<1>1. CallInv => NodeStatusIsReported
  BY DEF CallInv, Reported, Refused, NodeStatusIsReported
<1>2. QED BY InitCallInv, NextCallInv, <1>1, PTL DEF CallSpec

(* The timer never cancels a call whose headers have come. *)
THEOREM AnswersBeatTheTimer == CallSpec => []AnsweredIsNotTimedOut
<1>1. CallInv => AnsweredIsNotTimedOut
  BY DEF CallInv, Timed, AnsweredIsNotTimedOut
<1>2. QED BY InitCallInv, NextCallInv, <1>1, PTL DEF CallSpec

(* The safety part of EndReachesCaller: no method is left to wait for a
   promise that nobody will settle. *)
THEOREM NothingIsLostAtTheEnd == CallSpec => []WaitsForNothingLost
<1>1. CallInv => WaitsForNothingLost
  BY DEF CallInv
<1>2. QED BY InitCallInv, NextCallInv, <1>1, PTL DEF CallSpec
-----------------------------------------------------------------------------
(* Why a call comes to an end: the socket, the timer and the method each go
   one way, and what they work on is used up. *)
CallLeft ==
    queued + (MaxChunks - sent)
    + (CASE socket = "open" -> 2 [] socket = "headed" -> 1 [] OTHER -> 0)
    + (IF timer = "armed" THEN 1 ELSE 0)
    + (CASE caller = "headers" -> 3 [] caller \in {"sending", "reading"} -> 2
         [] caller = "response" -> 1 [] OTHER -> 0)

CallAdvances ==
    \/ arrived' = arrived + 1 /\ CallLeft' <= CallLeft + 1
    \/ arrived' = arrived /\ CallLeft' < CallLeft

LEMMA CallLeftIsNat == CallInv => CallLeft \in Nat
  BY RpcAssumption DEF CallInv, RpcTypeOK, CallLeft

LEMMA CallStepIsProgress ==
    ASSUME CallInv, [NextCall]_callVars
    PROVE  UNCHANGED callVars \/ CallAdvances
<1>t. /\ queued \in Nat /\ sent \in 0..MaxChunks /\ arrived \in Nat /\ MaxChunks \in Nat
  BY RpcAssumption DEF CallInv, RpcTypeOK
<1>1. ASSUME NEW s, OnHeaders(s) PROVE CallAdvances
  BY <1>t, <1>1 DEF OnHeaders, StopTimer, CallLeft, CallAdvances
<1>2. CASE OnMessage
  <2>1. /\ arrived' = arrived + 1 /\ queued' \in {queued, queued + 1}
        /\ UNCHANGED <<socket, timer, caller, sent>>
    BY <1>2 DEF OnMessage
  <2>2. QED BY <1>t, <2>1 DEF CallLeft, CallAdvances
<1>3. ASSUME NEW code, OnEnd(code) PROVE CallAdvances
  BY <1>t, <1>3 DEF OnEnd, StopTimer, CallLeft, CallAdvances
<1>4. CASE TimerFires
  BY <1>t, <1>4 DEF TimerFires, CallLeft, CallAdvances
<1>5. CASE CallerStep
  <2>1. /\ UNCHANGED <<socket, timer, arrived>>
    BY <1>5 DEF CallerStep, AwaitHeaders, SendChunk, CompleteRequests, AwaitResponse,
       ReadMessage, Settles, Moves
  <2>2. CASE AwaitHeaders \/ CompleteRequests \/ AwaitResponse
    BY <1>t, <2>1, <2>2 DEF AwaitHeaders, CompleteRequests, AwaitResponse, Settles,
       Moves, CallLeft, CallAdvances
  <2>3. CASE SendChunk \/ ReadMessage
    BY <1>t, <2>1, <2>3 DEF SendChunk, ReadMessage, Settles, Moves, CallLeft, CallAdvances
  <2>4. QED BY <1>5, <2>2, <2>3 DEF CallerStep
<1>6. QED BY <1>1, <1>2, <1>3, <1>4, <1>5 DEF NextCall, NodeStep

(* The safety half of NoCallHangs, without any bound on the node: a message
   adds at most one step, and every other event of the socket, the timer or
   the method uses one up.  With NothingIsLostAtTheEnd: a call goes on until
   it is over, and then its method has what it waits for. *)
THEOREM CallsRunOut == CallSpec => [](CallLeft \in Nat) /\ [][CallAdvances]_callVars
<1>1. CallInv /\ [NextCall]_callVars => [CallAdvances]_callVars
  BY CallStepIsProgress
<1>2. QED BY <1>1, InitCallInv, NextCallInv, CallLeftIsNat, PTL DEF CallSpec
=============================================================================
