------------------------------ MODULE ReadPiece ------------------------------
(***************************************************************************)
(* Reading through BalancedNode: readPiece, getDagNode, getCnsRecord and   *)
(* resolveName, the bodies of withRetry opened up.  One attempt resolves   *)
(* the name on its node (CnsApi.getRecord), then asks the same node for    *)
(* the content (FileApi.getFile, DagApi.getNode) and validates it.         *)
(*                                                                         *)
(* A CID is the content it addresses.  The nodes are external: each has    *)
(* records of its own, which other clients change while an operation runs, *)
(* and may answer with any content.                                        *)
(***************************************************************************)
EXTENDS BalancedNode

CONSTANTS
    Contents,
    Name,         \* a CNS name: what is not a CID
    Undefined,    \* an answer without what was asked for
    NoResult,     \* RpcError UNKNOWN with the message "no result"
    NameUnknown,  \* "Cannot resolve CNS name"
    HashMismatch, \* "Received content is not valid"
    MaxWrites     \* bound: changes of records in a behaviour

ASSUME ReadPieceAssumption ==
    /\ Name \notin Contents /\ Undefined \notin Contents /\ None \notin Contents
    /\ NoResult \in RetryableErrors
    /\ {NameUnknown, HashMismatch} \subseteq FatalErrors
    /\ NameUnknown # HashMismatch
    /\ MaxWrites \in Nat

VARIABLES
    what, ref, path, \* operation, CID or Name, whether a path goes with it
    authenticate,    \* the option of the APIs
    stage,    \* where the attempt is: "none" | "resolving" | "fetching"
    cid,      \* the CID the attempt works with, or None
    answer,   \* the node's answer on its way: <<>> or <<what it says>>
    result,   \* what the operation resolved with
    recordOf, \* content each node has under the name, or None
    writes,   \* history: changes of records so far
    seen      \* history: what the node had under the name during the attempt

query == <<what, ref, path, authenticate>>
readVars == <<query, stage, cid, answer, result, recordOf, writes, seen>>
allReadVars == <<vars, readVars>>

(* The operations, by what they resolve with: a piece, a DAG node, a record
   or the CID of a name. *)
Operations == {"piece", "node", "record", "cid"}

Result(c, content) == [cid |-> c, content |-> content]
Nothing == Result(None, Undefined)

-----------------------------------------------------------------------------
InitRead ==
    /\ Init
    /\ what \in Operations
    /\ ref \in Contents \cup {Name}
    /\ what = "record" => ref = Name
    /\ path \in BOOLEAN
    /\ path => what = "node"
    /\ authenticate \in BOOLEAN
    /\ stage = "none"
    /\ cid = None
    /\ answer = <<>>
    /\ result = Nothing
    /\ recordOf \in [Eligible -> Contents \cup {None}]
    /\ writes = 0
    /\ seen = {}

(* The operation resolves with r. *)
Succeed(r) ==
    /\ NodeSucceeds
    /\ result' = r
    /\ stage' = "none"
    /\ answer' = <<>>

(* The attempt throws e. *)
Throw(e) ==
    /\ NodeFails(e)
    /\ stage' = "none"
    /\ answer' = <<>>
    /\ UNCHANGED <<cid, result>>

Proceed(where) ==
    /\ stage' = where
    /\ answer' = <<>>
    /\ UNCHANGED <<vars, result>>

(* The attempt has its node and its token; a CID needs no resolution. *)
BeginAttempt_ResolvedOnce ==
    /\ pc = "calling" /\ stage = "none"
    /\ seen' = {recordOf[node]}
    /\ \/ ref = Name /\ cid = None /\ cid' = None /\ Proceed("resolving")
       \/ ref = Name /\ cid # None /\ UNCHANGED cid /\ Proceed("fetching")
       \/ ref # Name /\ what # "cid" /\ cid' = ref /\ Proceed("fetching")
       \/ ref # Name /\ what = "cid" /\ cid' = ref /\ Succeed(Result(ref, Undefined))
    /\ UNCHANGED <<query, recordOf, writes>>

BeginAttempt ==
    /\ pc = "calling" /\ stage = "none"
    /\ seen' = {recordOf[node]}
    /\ \/ ref = Name /\ cid' = None /\ Proceed("resolving")
       \/ ref # Name /\ what # "cid" /\ cid' = ref /\ Proceed("fetching")
       \/ ref # Name /\ what = "cid" /\ cid' = ref /\ Succeed(Result(ref, Undefined))
    /\ UNCHANGED <<query, recordOf, writes>>

(* External: the node looks the name up, or the content; what it sends for a
   CID or a path need not fit it. *)
NodeAnswers ==
    /\ answer = <<>>
    /\ \/ stage = "resolving" /\ answer' = <<recordOf[node]>>
       \/ /\ stage = "fetching"
          /\ \E content \in Contents \cup {Undefined} : answer' = <<content>>
    /\ UNCHANGED <<vars, query, stage, cid, result, recordOf, writes, seen>>

(* getRecord has what it resolves with: c, or None for a name without a
   (signed) record. *)
Resolved(c) ==
    \/ what = "record" /\ Succeed(Result(c, Undefined)) /\ UNCHANGED cid
    \/ what # "record" /\ c = None /\ Throw(NameUnknown)
    \/ what = "cid" /\ c # None /\ cid' = c /\ Succeed(Result(c, Undefined))
    \/ what \in {"piece", "node"} /\ c # None /\ cid' = c /\ Proceed("fetching")

RecordArrives ==
    /\ stage = "resolving"
    /\ answer # <<>>
    /\ Resolved(answer[1])
    /\ UNCHANGED <<query, recordOf, writes, seen>>

(* The error that says that there is no record, and no other. *)
IsNotFound_AnyOfItsCode(e) == e \in RetryableErrors

IsNotFound(e) == e = NoResult

(* The validator compares the hash of what has come, if it is enabled: it is
   not for a path, whose CID is not known. *)
Valid_WhenThere(content) ==
    authenticate /\ ~path /\ content # Undefined => content = cid

Valid(content) == authenticate /\ ~path => content = cid

(* The headers of a file have come, and the stream is handed on; or a DAG node
   has, and is validated first. *)
ContentArrives ==
    /\ stage = "fetching"
    /\ answer # <<>>
    /\ \/ /\ what = "piece" \/ Valid(answer[1])
          /\ Succeed(Result(cid, answer[1]))
          /\ UNCHANGED cid
       \/ what = "node" /\ ~Valid(answer[1]) /\ Throw(HashMismatch)
    /\ UNCHANGED <<query, recordOf, writes, seen>>

(* The call fails: the node refuses it, the connection is lost or the timer
   of the transport fires.  A node that has no record says NoResult. *)
ReadFails(e) ==
    /\ stage # "none"
    /\ e = NoResult => stage = "resolving" /\ None \in seen
    /\ \/ stage = "resolving" /\ IsNotFound(e) /\ Resolved(None)
       \/ ~(stage = "resolving" /\ IsNotFound(e)) /\ Throw(e)
    /\ UNCHANGED <<query, recordOf, writes, seen>>

(* External: another client, or the replication between nodes, changes what a
   node has under the name. *)
RecordChanges(n) ==
    /\ writes < MaxWrites
    /\ writes' = writes + 1
    /\ \E c \in Contents : recordOf' = [recordOf EXCEPT ![n] = c]
    /\ seen' = IF stage # "none" THEN seen \cup {recordOf'[node]} ELSE seen
    /\ UNCHANGED <<vars, query, stage, cid, answer, result>>

ChooseReadNode ==
    /\ \/ \E n \in Eligible : RouterSelects(n)
       \/ \E e \in RouterErrors : RouterFails(e)
    /\ UNCHANGED readVars

ReadAgain == Retry /\ UNCHANGED readVars

ReadStep ==
    \/ ChooseReadNode
    \/ ReadAgain
    \/ BeginAttempt
    \/ RecordArrives
    \/ ContentArrives
    \/ \E e \in (RetryableErrors \cup FatalErrors) \ {NameUnknown, HashMismatch} :
           ReadFails(e)

ReadIdle == Settled /\ UNCHANGED readVars

NextRead ==
    \/ ReadStep
    \/ NodeAnswers
    \/ \E n \in Eligible : RecordChanges(n)
    \/ ReadIdle

ReadSpec == InitRead /\ [][NextRead]_allReadVars

-----------------------------------------------------------------------------
ReadTypeOK ==
    /\ what \in Operations /\ ref \in Contents \cup {Name}
    /\ path \in BOOLEAN /\ authenticate \in BOOLEAN
    /\ stage \in {"none", "resolving", "fetching"}
    /\ stage # "none" => pc = "calling" /\ node \in Eligible
    /\ cid \in Contents \cup {None}
    /\ answer \in {<<>>} \cup {<<c>> : c \in Contents \cup {None, Undefined}}
    /\ result \in [cid : Contents \cup {None}, content : Contents \cup {None, Undefined}]
    /\ recordOf \in [Eligible -> Contents \cup {None}]
    /\ writes \in Nat
    /\ seen \subseteq Contents \cup {None}

IsFulfilled == outcome.state = "fulfilled"

(* A DAG node that was asked for by CID and is handed to the caller under
   `authenticate` is the node of that CID, and it is there, whatever the nodes
   answered and however many of them were asked (DagApi.ts:116-137); a CID the
   caller gave is the CID of the response. *)
ContentFitsCid ==
    IsFulfilled =>
        /\ what = "node" /\ authenticate /\ ~path => result.content = result.cid
        /\ ref # Name => result.cid = ref

(* A name is resolved by the node that is then asked for the content: the CID
   of a response is one that node had for the name during that attempt, not
   one an earlier attempt, or another node, gave (StorageNode.ts:279, 322). *)
NameIsOfTheAttempt ==
    IsFulfilled /\ ref = Name /\ what # "record" => result.cid \in seen

(* "There is no such name" is said only of a node that had no record for it:
   neither an error of the same code nor a lost connection counts as one
   (CnsApi.ts:166-182). *)
MissingIsMissing ==
    \/ IsFulfilled /\ what = "record" /\ result.cid = None
    \/ outcome = Rejected(NameUnknown)
    => None \in seen
=============================================================================
