----------------------------- MODULE StorePiece -----------------------------
(***************************************************************************)
(* Storing a piece (or a DAG node, or a multipart piece) under an optional *)
(* name through BalancedNode: the body of withRetry opened up.  It extends *)
(* BalancedNode, whose actions choose the node and run the next attempt,   *)
(* with what one attempt does: BalancedNode.storePiece clones the piece,   *)
(* StorageNode.storePiece sends it with FileApi.putRawPiece (metadata,     *)
(* headers, content chunk by chunk, answer) and then stores the CNS record *)
(* on the same node.                                                       *)
(*                                                                         *)
(* A content is a sequence of chunks 1..total, and a CID is the content it *)
(* addresses.  The nodes are external: a request that has been completed   *)
(* is applied at any later time, or never, and an error can reach the      *)
(* client whether or not the node has applied, or will apply, the request. *)
(***************************************************************************)
EXTENDS BalancedNode

CONSTANTS
    Kinds,          \* contents considered, a subset of ContentKinds
    MaxTotal,       \* bound: chunks of a content
    MaxPieceSize,   \* MAX_PIECE_SIZE, in chunks
    StreamLocked,   \* Piece.from and getReader refuse a locked stream
    BadSize         \* no size, or above MAX_PIECE_SIZE

(* "bytes":         a Uint8Array
   "iterable":      anything else that is iterated anew each time
   "contentStream": a stream made by createContentStream
   "inputStream":   any other ReadableStream
   "iterator":      a one-shot (async) iterable
   "unary":         no stream: a DAG node, or the parts of a multipart piece *)
ContentKinds ==
    {"bytes", "iterable", "contentStream", "inputStream", "iterator", "unary"}

ASSUME StorePieceAssumption ==
    /\ Kinds \subseteq ContentKinds
    /\ MaxTotal \in Nat /\ MaxPieceSize \in Nat
    /\ {StreamLocked, BadSize} \subseteq FatalErrors

VARIABLES
    kind, total, named, \* what the caller stores
    sized,      \* the size it goes by is a size a piece can have
    body,       \* where the attempt is: "none" | "headers" | "sending" | "answer" | "naming"
    cursor,     \* chunks taken from the content the attempt reads
    sent,       \* chunks the attempt has sent
    locked,     \* a reader holds the content stream
    prefetched, \* chunks the body stream of the caller's piece has taken
    inflight,   \* completed requests not (yet) applied by their node
    pieces,     \* contents stored by each node
    records     \* contents the name was given to on each node

input == <<kind, total, named, sized>>
client == <<body, cursor, sent, locked, prefetched>>
servers == <<inflight, pieces, records>>
storeVars == <<input, client, servers>>
allVars == <<vars, storeVars>>

Whole == [i \in 1..total |-> i]

Request(n, what, content) == [node |-> n, what |-> what, content |-> content]

-----------------------------------------------------------------------------
(* What putRawPiece compares with MAX_PIECE_SIZE: the length of bytes, and of
   everything else the size the caller declares, whatever its length is.  The
   calls without a stream are not measured. *)
SizeGiven ==
    /\ sized \in BOOLEAN
    /\ kind = "bytes" => sized = (total \in 1..MaxPieceSize)
    /\ kind = "unary" => sized = TRUE

(* The caller has made the piece: its own body stream pulls the first chunk
   of a one-shot content as soon as it exists, and locks an input stream. *)
InitStore ==
    /\ Init
    /\ kind \in Kinds
    /\ total \in 0..MaxTotal
    /\ named \in BOOLEAN
    /\ SizeGiven
    /\ body = "none"
    /\ prefetched = IF kind = "iterator" /\ total > 0 THEN 1 ELSE 0
    /\ cursor = prefetched
    /\ sent = <<>>
    /\ locked = (kind = "inputStream")
    /\ inflight = {}
    /\ pieces = [n \in Eligible |-> {}]
    /\ records = [n \in Eligible |-> {}]

(* It pulls a second one while nobody reads it: one waits in the stream, one
   in the transform behind it. *)
Prefetch ==
    /\ kind = "iterator"
    /\ prefetched = 1
    /\ cursor < total
    /\ cursor' = cursor + 1
    /\ prefetched' = 2
    /\ UNCHANGED <<vars, input, body, sent, locked, servers>>

(* Piece.from makes a piece of the same content: bytes and an iterable are
   read anew, a stream or an iterator goes on where it is. *)
CursorOfClone == IF kind \in {"bytes", "iterable"} THEN 0 ELSE cursor

CloneThrows == kind = "contentStream" /\ locked

SizeThrows == ~sized

(* The attempt begins: the piece is cloned whatever the attempt, the token
   and the activity request are made, and the call is opened. *)
OpenStream ==
    /\ pc = "calling" /\ body = "none"
    /\ kind # "unary"
    /\ ~CloneThrows /\ ~SizeThrows
    /\ cursor' = CursorOfClone
    /\ sent' = <<>>
    /\ body' = "headers"
    /\ UNCHANGED <<vars, input, locked, prefetched, servers>>

OpenUnary ==
    /\ pc = "calling" /\ body = "none"
    /\ kind = "unary"
    /\ sent' = Whole
    /\ inflight' = inflight \cup {Request(node, "piece", Whole)}
    /\ body' = "answer"
    /\ UNCHANGED <<vars, input, cursor, locked, prefetched, pieces, records>>

(* Errors of the client's own: never an RpcError, so never retried. *)
OpenThrows ==
    /\ body = "none"
    /\ \/ CloneThrows /\ NodeFails(StreamLocked)
       \/ ~CloneThrows /\ SizeThrows /\ NodeFails(BadSize)
    /\ UNCHANGED storeVars

(* The headers are there: a reader of the clone's body is taken.  The clone
   of a content stream is that stream itself. *)
HeadersArrive ==
    /\ body = "headers"
    /\ locked' = (locked \/ kind = "contentStream")
    /\ body' = "sending"
    /\ UNCHANGED <<vars, input, cursor, sent, prefetched, servers>>

SendChunk ==
    /\ body = "sending"
    /\ kind # "inputStream"
    /\ Len(sent) < MaxPieceSize
    /\ cursor < total
    /\ sent' = Append(sent, cursor + 1)
    /\ cursor' = cursor + 1
    /\ UNCHANGED <<vars, input, body, locked, prefetched, servers>>

(* The clone of an input stream cannot get a reader: the stream is read by
   the body of the caller's piece. *)
ReadThrows ==
    /\ body = "sending"
    /\ kind = "inputStream"
    /\ NodeFails(StreamLocked)
    /\ body' = "none"
    /\ UNCHANGED <<input, cursor, sent, locked, prefetched, servers>>

(* Nothing is left, or the limit is reached: the reader is released and the
   request completed.  What is left of a content that is longer than a piece
   is not sent, and no error says so. *)
FinishSending ==
    /\ body = "sending"
    /\ kind # "inputStream"
    /\ cursor = total \/ Len(sent) >= MaxPieceSize
    /\ locked' = FALSE
    /\ inflight' = inflight \cup {Request(node, "piece", sent)}
    /\ body' = "answer"
    /\ UNCHANGED <<vars, input, cursor, sent, prefetched, pieces, records>>

(* External: the node applies a completed request. *)
NodeApplies(r) ==
    /\ inflight' = inflight \ {r}
    /\ \/ /\ r.what = "piece"
          /\ pieces' = [pieces EXCEPT ![r.node] = @ \cup {r.content}]
          /\ UNCHANGED records
       \/ /\ r.what = "name"
          /\ records' = [records EXCEPT ![r.node] = @ \cup {r.content}]
          /\ UNCHANGED pieces
    /\ UNCHANGED <<vars, input, client>>

(* The node answers with the CID; a name is given to it on the same node. *)
PieceStored_NameFirst ==
    /\ body = "answer"
    /\ \/ /\ named
          /\ inflight' = inflight \cup {Request(node, "name", sent)}
          /\ body' = "naming"
          /\ UNCHANGED vars
       \/ /\ ~named
          /\ Request(node, "piece", sent) \notin inflight
          /\ NodeSucceeds
          /\ body' = "none"
          /\ UNCHANGED inflight
    /\ UNCHANGED <<input, cursor, sent, locked, prefetched, pieces, records>>

PieceStored ==
    /\ body = "answer"
    /\ Request(node, "piece", sent) \notin inflight
    /\ \/ /\ named
          /\ inflight' = inflight \cup {Request(node, "name", sent)}
          /\ body' = "naming"
          /\ UNCHANGED vars
       \/ /\ ~named
          /\ NodeSucceeds
          /\ body' = "none"
          /\ UNCHANGED inflight
    /\ UNCHANGED <<input, cursor, sent, locked, prefetched, pieces, records>>

NameStored ==
    /\ body = "naming"
    /\ Request(node, "name", sent) \notin inflight
    /\ NodeSucceeds
    /\ body' = "none"
    /\ UNCHANGED <<input, cursor, sent, locked, prefetched, servers>>

(* The call fails while it is open: the node refuses it, the connection is
   lost, or the transport times it out.  A reader taken is not released. *)
CallFails_Unlocks(e) ==
    /\ body # "none"
    /\ NodeFails(e)
    /\ body' = "none"
    /\ locked' = FALSE
    /\ UNCHANGED <<input, cursor, sent, prefetched, servers>>

CallFails(e) ==
    /\ body # "none"
    /\ NodeFails(e)
    /\ body' = "none"
    /\ UNCHANGED <<input, cursor, sent, locked, prefetched, servers>>

(* The actions of BalancedNode around the attempts. *)
ChooseNode ==
    /\ \/ \E n \in Eligible : RouterSelects(n)
       \/ \E e \in RouterErrors : RouterFails(e)
    /\ UNCHANGED storeVars

NextAttempt == Retry /\ UNCHANGED storeVars

ClientStep ==
    \/ ChooseNode
    \/ NextAttempt
    \/ OpenStream
    \/ OpenUnary
    \/ OpenThrows
    \/ HeadersArrive
    \/ SendChunk
    \/ ReadThrows
    \/ FinishSending
    \/ PieceStored
    \/ NameStored
    \/ \E e \in (RetryableErrors \cup FatalErrors) \ {StreamLocked, BadSize} :
           CallFails(e)

Idle == Settled /\ UNCHANGED storeVars

NextStore ==
    \/ ClientStep
    \/ Prefetch
    \/ \E r \in inflight : NodeApplies(r)
    \/ Idle

StoreSpec == InitStore /\ [][NextStore]_allVars

(* Every open call ends, and the client goes on.  That a call ends is an
   assumption about the node and the connection: once the headers have come,
   no timer of the SDK bounds it.  Nothing makes a node apply a request. *)
StoreFairSpec == StoreSpec /\ WF_allVars(ClientStep)

(* TimeoutInterceptor: a stream is timed until its headers come, and a unary
   call (a DAG node, a manifest, a CNS record) until it is answered. *)
TimesOut(e) ==
    /\ body \in {"headers", "naming"} \/ kind = "unary"
    /\ e \in RetryableErrors
    /\ CallFails(e)

(* What happens whatever the node does. *)
OwnStep ==
    \/ ChooseNode
    \/ NextAttempt
    \/ OpenStream
    \/ OpenUnary
    \/ OpenThrows
    \/ ReadThrows
    \/ FinishSending
    \/ \E e \in RetryableErrors : TimesOut(e)

TimersSpec == StoreSpec /\ WF_allVars(OwnStep)

-----------------------------------------------------------------------------
StoreTypeOK ==
    /\ kind \in Kinds /\ total \in 0..MaxTotal /\ named \in BOOLEAN
    /\ sized \in BOOLEAN
    /\ body \in {"none", "headers", "sending", "answer", "naming"}
    /\ body # "none" => pc = "calling" /\ node \in Eligible
    /\ cursor \in 0..total
    /\ sent \in Seq(Nat)
    /\ locked \in BOOLEAN
    /\ prefetched \in 0..2
    /\ \A r \in inflight : /\ r.node \in Eligible
                           /\ r.what \in {"piece", "name"}
                           /\ r.content \in Seq(Nat)
    /\ pieces \in [Eligible -> SUBSET Seq(Nat)]
    /\ records \in [Eligible -> SUBSET Seq(Nat)]

(* A node that has a record for the name has the piece the record names: the
   record is sent to the node that stored the piece, after it said so
   (StorageNode.ts:174-203), whatever failed, was repeated or comes late. *)
NoDanglingName == \A n \in Eligible : records[n] \subseteq pieces[n]

(* Whenever and wherever a content that can be read anew is stored, it is
   stored whole, if it fits a piece: each attempt sends a clone of its own
   (BalancedNode.ts:187-193, Piece.ts:127-133), even when an earlier attempt
   stopped in the middle.  Bytes that do not fit are not stored. *)
ReadAnew ==
    \/ kind \in {"bytes", "unary"}
    \/ kind = "iterable" /\ total <= MaxPieceSize

ReadAnewStoredWhole ==
    ReadAnew => \A n \in Eligible : pieces[n] \subseteq {Whole}

(* A content stream that fits a piece is stored whole or not at all, or (when
   the answer to a complete transfer was an error) empty: no attempt sends the
   rest of a stream another attempt began, as the failed one still holds the
   lock. *)
ReadOnce == kind = "contentStream" /\ total <= MaxPieceSize

NoPartialStream ==
    ReadOnce => \A n \in Eligible : pieces[n] \subseteq {Whole, <<>>}

(* No retry, lost answer or late node leaves a part of a content stored under
   a CID of its own, for every content whose attempts can all be given the
   same bytes, and that is not longer than a piece. *)
NothingPartialIsStored == ReadAnewStoredWhole /\ NoPartialStream

(* When the caller is told the CID, the node asked last has the piece, and
   the name (StorageNode.ts:193-206). *)
FulfilledIsStored ==
    outcome.state = "fulfilled" =>
        /\ sent \in pieces[node]
        /\ named => sent \in records[node]

(* Not kept by the code (README, section 4). Claimed by BalancedNode.ts:189:
   the piece is cloned "if it is a piece and this is not the first attempt",
   so the first attempt sends the body of the caller's piece: the whole
   content. *)
FirstAttemptSendsThePiece ==
    (attempt = 1 /\ body = "answer") => sent = Whole

(* Not kept by the code (README, section 4). Claimed by FileApi.ts:123: "Will
   throw an error if the size of the raw piece cannot be determined, or if it
   exceeds the maximum size", so a content that is longer than a piece is not
   stored. *)
OverlongIsRefused ==
    kind # "unary" /\ total > MaxPieceSize =>
        \A n \in Eligible : pieces[n] = {}

(* Not kept by the code (README, section 4). Claimed by
   TimeoutInterceptor.ts:60 ("adds a timeout to all RPC calls") and
   constants.ts:38 ("inactivity timeout for gRPC requests"): a call nobody
   answers ends. *)
SilentCallEnds == (body = "answer") ~> (body # "answer")
=============================================================================
