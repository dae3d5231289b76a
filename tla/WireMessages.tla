---------------------------- MODULE WireMessages ----------------------------
(***************************************************************************)
(* The protobuf messages of the node APIs and what the generated classes of*)
(* packages/ddc/src/grpc write and read.  Every class is the same code     *)
(* over another list of fields, so a class is its list of fields, and      *)
(* internalBinaryWrite, internalBinaryRead and create are operators over it.*)
(*                                                                         *)
(* A scalar is Zero (the default its type has) or a small value, an absent *)
(* field is None, a repeated one a sequence.  A oneof is the group of the  *)
(* "case" fields of its message.  What is written are the items of each    *)
(* field, in the order of the class, and last those of the fields it does  *)
(* not know; tags and lengths are left out.                                *)
(*                                                                         *)
(* The state machine is one message on its way: the sender writes it, the  *)
(* receiver reads it item by item.  A storage node runs other generated    *)
(* code, which may write fields in another order, a packed field unpacked, *)
(* and fields this version does not know: an item can be read when those   *)
(* before it of its own field have been.                                   *)
(*                                                                         *)
(* A message inside a message is written and read by the code of its class.*)
(* Encode, Decode and IsNested stand for that code: a configuration closes *)
(* the recursion by giving them the meaning of Write, Read and IsMessage.  *)
(***************************************************************************)
EXTENDS Integers, SequencesExt, DescriptorMessages

CONSTANTS
    Zero, None,
    UnknownNo,   \* number of a field only newer versions of the schema have
    Encode(_, _), Decode(_, _, _), IsNested(_, _, _)

-----------------------------------------------------------------------------
(* The fields of the classes of the node APIs, in the order each writes them. *)
AuthToken == <<Message(1, "signature", "Signature"), Message(2, "payload", "Payload")>>
Payload == <<Message(1, "prev", "AuthToken"), Optional(2, "subject"),
             Optional(3, "canDelegate"), Optional(4, "bucketId"),
             Packed(5, "operations"), Optional(6, "expiresAt"),
             Optional(7, "pieceCid")>>
Signature == <<Plain(1, "algorithm"), Plain(2, "signer"), Plain(3, "value")>>

CnsPutRequest == <<Plain(1, "bucketId"), Message(2, "record", "Record")>>
CnsPutResponse == <<>>
CnsGetRequest == <<Plain(1, "bucketId"), Plain(2, "name")>>
CnsGetResponse == <<Message(1, "record", "Record")>>
Record == <<Message(1, "signature", "Signature"), Plain(2, "cid"),
            Plain(3, "name"), Optional(4, "ttl")>>

DagPutRequest == <<Plain(1, "bucketId"), Message(2, "node", "Node"), Optional(3, "cid")>>
DagPutResponse == <<Plain(1, "cid")>>
DagGetRequest == <<Plain(1, "bucketId"), Plain(2, "cid"), Optional(3, "path")>>
DagGetResponse == <<Message(1, "node", "Node")>>
Node == <<Plain(1, "data"), Messages(2, "links", "Link"), Messages(3, "tags", "Tag")>>
Link == <<Plain(1, "cid"), Plain(2, "name"), Plain(3, "size")>>
Tag == <<Plain(1, "key"), Plain(2, "value")>>

PutRawPieceRequest == <<Case(1, "metadata", "PutRawPieceRequest_Metadata"),
                        Case(2, "content", "PutRawPieceRequest_Content")>>
PutRawPieceRequest_Metadata ==
    <<Plain(1, "bucketId"), Optional(2, "cid"), Optional(3, "offset"),
      Plain(4, "isMultipart"), Plain(5, "size")>>
PutRawPieceRequest_Content == <<Plain(1, "data")>>
PutRawPieceResponse == <<Plain(1, "cid")>>
PutMultiPartPieceRequest ==
    <<Plain(1, "bucketId"), Optional(2, "cid"), Plain(3, "totalSize"),
      Plain(4, "partSize"), Repeated(5, "partHashes")>>
PutMultiPartPieceResponse == <<Plain(1, "cid")>>
GetFileRequest == <<Case(1, "request", "GetFileRequest_Request"),
                    Case(2, "ack", "ActivityAcknowledgment")>>
GetFileRequest_Request ==
    <<Plain(1, "cid"), Plain(2, "bucketId"),
      Message(3, "range", "GetFileRequest_Request_Range"), Plain(4, "authenticate")>>
GetFileRequest_Request_Range == <<Plain(1, "start"), Plain(2, "end")>>
GetFileResponse == <<Case(1, "proof", "GetFileResponse_Proof"), Case(2, "data", "scalar")>>
GetFileResponse_Proof == <<Repeated(1, "proof")>>

ActivityRecord ==
    <<Message(1, "upstream", "ActivityFulfillment"),
      Messages(2, "downstream", "ActivityFulfillment"),
      Plain(3, "timestamp"), Message(10, "signature", "Signature")>>
ActivityRequest ==
    <<Message(1, "parentRequest", "ActivityRequest"), Plain(2, "requestId"),
      Plain(3, "requestType"), Plain(4, "contentType"), Plain(5, "bucketId"),
      Plain(6, "id"), Plain(7, "offset"), Plain(8, "size"),
      Plain(9, "timestamp"), Message(10, "signature", "Signature")>>
ActivityAcknowledgment ==
    <<Plain(1, "requestId"), Plain(2, "bytesStoredOrDelivered"),
      Plain(3, "timestamp"), Message(4, "signature", "Signature")>>
ActivityFulfillment == <<Message(1, "request", "ActivityRequest"),
                         Message(2, "ack", "ActivityAcknowledgment")>>

NodeApiSchema ==
    [AuthToken |-> AuthToken, Payload |-> Payload, Signature |-> Signature,
     CnsPutRequest |-> CnsPutRequest, CnsPutResponse |-> CnsPutResponse,
     CnsGetRequest |-> CnsGetRequest, CnsGetResponse |-> CnsGetResponse,
     Record |-> Record,
     DagPutRequest |-> DagPutRequest, DagPutResponse |-> DagPutResponse,
     DagGetRequest |-> DagGetRequest, DagGetResponse |-> DagGetResponse,
     Node |-> Node, Link |-> Link, Tag |-> Tag,
     PutRawPieceRequest |-> PutRawPieceRequest,
     PutRawPieceRequest_Metadata |-> PutRawPieceRequest_Metadata,
     PutRawPieceRequest_Content |-> PutRawPieceRequest_Content,
     PutRawPieceResponse |-> PutRawPieceResponse,
     PutMultiPartPieceRequest |-> PutMultiPartPieceRequest,
     PutMultiPartPieceResponse |-> PutMultiPartPieceResponse,
     GetFileRequest |-> GetFileRequest,
     GetFileRequest_Request |-> GetFileRequest_Request,
     GetFileRequest_Request_Range |-> GetFileRequest_Request_Range,
     GetFileResponse |-> GetFileResponse,
     GetFileResponse_Proof |-> GetFileResponse_Proof,
     ActivityRecord |-> ActivityRecord, ActivityRequest |-> ActivityRequest,
     ActivityAcknowledgment |-> ActivityAcknowledgment,
     ActivityFulfillment |-> ActivityFulfillment]

Types == DOMAIN NodeApiSchema \cup DOMAIN DescriptorSchema
Schema == [T \in Types |-> IF T \in DOMAIN NodeApiSchema THEN NodeApiSchema[T]
                                                       ELSE DescriptorSchema[T]]

Fields(T) == ToSet(Schema[T])
Names(T) == {f.name : f \in Fields(T)}
Cases(T) == {f.name : f \in {g \in Fields(T) : g.rule = "case"}}

(* protoc numbers and names the fields of a class apart; every signature is a
   Signature. *)
ASSUME SchemaAssumption ==
    \A T \in Types :
        /\ Schema[T] \in Seq(Fields(T))
        /\ \A i, j \in DOMAIN Schema[T] :
               Schema[T][i].no = Schema[T][j].no \/ Schema[T][i].name = Schema[T][j].name
                   => i = j
        /\ \A f \in Fields(T) :
               /\ f.no # UnknownNo /\ f.name # "unknown"
               /\ f.rule \in {"plain", "optional", "packed", "unpacked", "case"}
               /\ f.kind \in Types \cup {"scalar"}
               /\ f.rule \in {"plain", "packed"} => f.kind = "scalar"
               /\ f.name = "signature" => f = Message(f.no, f.name, "Signature")

-----------------------------------------------------------------------------
Absent(f) == CASE f.rule = "plain" -> Zero
               [] f.rule \in {"optional", "case"} -> None
               [] OTHER -> <<>>

(* create(): every field has its default; "unknown" holds what the
   UnknownFieldHandler keeps beside the message. *)
Create(T) ==
    [n \in Names(T) \cup {"unknown"} |->
        IF n = "unknown" THEN <<>>
        ELSE Absent(CHOOSE f \in Fields(T) : f.name = n)]

Item(no, value) == [no |-> no, value |-> value]

(* A packed field holds its values in one item. *)
Run(no, values) == Item(no, [run |-> values])

ItemOf(f, e) == Item(f.no, IF f.kind = "scalar" THEN e ELSE Encode(f.kind, e))

(* internalBinaryWrite: a plain field that has its default is not written, an
   optional one is whenever it is set; unknown fields come last. *)
Written(f, v) ==
    IF v = Absent(f) THEN <<>>
    ELSE CASE f.rule = "packed" -> <<Run(f.no, v)>>
           [] f.rule = "unpacked" -> [k \in DOMAIN v |-> ItemOf(f, v[k])]
           [] OTHER -> <<ItemOf(f, v)>>

UnknownPlace(T) == Len(Schema[T]) + 1
Places(T) == 1..UnknownPlace(T)

Write(T, m) ==
    [i \in Places(T) |-> IF i = UnknownPlace(T) THEN m.unknown
                         ELSE Written(Schema[T][i], m[Schema[T][i].name])]

(* UnknownFieldHandler.onRead, the default of readUnknownField. *)
KeepUnknown_Drops(m, item) == m

KeepUnknown(m, item) == [m EXCEPT !.unknown = Append(@, item)]

(* Reading a case sets body to it, and the case it had is gone. *)
SetCase(T, m, name, value) ==
    [n \in DOMAIN m |-> IF n = name THEN value
                        ELSE IF n \in Cases(T) THEN None ELSE m[n]]

(* What an item holds: a message is read into the one already there. *)
Content(f, m, item) ==
    IF f.kind = "scalar" THEN item.value
    ELSE Decode(f.kind,
                IF f.rule # "unpacked" /\ m[f.name] # None THEN m[f.name]
                                                           ELSE Create(f.kind),
                item.value)

(* internalBinaryRead, one turn of its loop: a repeated field is appended to. *)
ReadField(T, f, m, item) ==
    CASE f.rule = "packed" -> [m EXCEPT ![f.name] = @ \o item.value.run]
      [] f.rule = "unpacked" -> [m EXCEPT ![f.name] = Append(@, Content(f, m, item))]
      [] f.rule = "case" -> SetCase(T, m, f.name, Content(f, m, item))
      [] OTHER -> [m EXCEPT ![f.name] = Content(f, m, item)]

ReadItem(T, m, item) ==
    IF \E f \in Fields(T) : f.no = item.no
    THEN ReadField(T, CHOOSE f \in Fields(T) : f.no = item.no, m, item)
    ELSE KeepUnknown(m, item)

(* The loop, over the items of one field and over the fields. *)
ReadItems(T, m, items) ==
    LET read[k \in 0..Len(items)] ==
            IF k = 0 THEN m ELSE ReadItem(T, read[k - 1], items[k])
    IN  read[Len(items)]

Read(T, m, wire) ==
    LET read[i \in 0..UnknownPlace(T)] ==
            IF i = 0 THEN m ELSE ReadItems(T, read[i - 1], wire[i])
    IN  read[UnknownPlace(T)]

FromBinary(T, wire) == Read(T, Create(T), wire)

-----------------------------------------------------------------------------
(* What a variable of a message class can hold.  Messages are finite: one of
   depth d has messages of smaller depth inside. *)
IsSequence(s) == s \in Seq(ToSet(s))

IsPart(f, e, d) == f.kind = "scalar" \/ \E c \in 0..(d - 1) : IsNested(f.kind, e, c)

IsValue(f, v, d) ==
    CASE f.rule = "packed" -> IsSequence(v)
      [] f.rule = "unpacked" -> IsSequence(v) /\ \A k \in DOMAIN v : IsPart(f, v[k], d)
      [] OTHER -> v = Absent(f) \/ IsPart(f, v, d)

IsMessage(T, m, d) ==
    /\ m = [n \in Names(T) \cup {"unknown"} |-> m[n]]
    /\ \A f \in Fields(T) : IsValue(f, m[f.name], d)
    /\ \A c1, c2 \in Cases(T) : m[c1] # None /\ m[c2] # None => c1 = c2
    /\ IsSequence(m.unknown)
    /\ \A k \in DOMAIN m.unknown : m.unknown[k].no = UnknownNo

-----------------------------------------------------------------------------
(* createSignature: the value of a signature is who signed what.  toBinary of
   the message as it is, a signature it may already have included. *)
Signed_WithPlaceholder(T, m, account) ==
    LET s == [Create("Signature") EXCEPT !.signer = account]
    IN  [m EXCEPT !.signature = [s EXCEPT
            !.value = [by |-> account, over |-> Write(T, [m EXCEPT !.signature = s])]]]

Signed(T, m, account) ==
    [m EXCEPT !.signature = [Create("Signature") EXCEPT
        !.signer = account, !.value = [by |-> account, over |-> Write(T, m)]]]

(* External: the receiver takes the signature away, writes the rest again and
   compares it with what the signer has signed. *)
Verifies(T, m) ==
    /\ m.signature # None
    /\ m.signature.value = [by |-> m.signature.signer,
                            over |-> Write(T, [m EXCEPT !.signature = None])]

-----------------------------------------------------------------------------
VARIABLES
    type,      \* class of the message on its way
    message,   \* what the sender wrote
    rest,      \* the items not read yet of each field, and the unknown ones
    target     \* what the receiver has read so far

wireVars == <<type, message, rest, target>>

Sends(T, m) ==
    /\ type' = T
    /\ message' = m
    /\ rest' = Write(T, m)
    /\ target' = Create(T)

(* The next item of any field. *)
ReadNext ==
    \E i \in Places(type) :
        /\ rest[i] # <<>>
        /\ target' = ReadItem(type, target, Head(rest[i]))
        /\ rest' = [rest EXCEPT ![i] = Tail(@)]
        /\ UNCHANGED <<type, message>>

(* The sender has written a packed field as several runs, or unpacked. *)
SplitRun ==
    \E i \in DOMAIN Schema[type] :
        LET f == Schema[type][i]
            values == Head(rest[i]).value.run
        IN  /\ f.rule = "packed" /\ rest[i] # <<>>
            /\ Len(values) > 1
            /\ rest' = [rest EXCEPT ![i] =
                   <<Run(f.no, <<Head(values)>>), Run(f.no, Tail(values))>> \o Tail(@)]
            /\ UNCHANGED <<type, message, target>>

Arrived == \A i \in Places(type) : rest[i] = <<>>

(* Whatever the order and the form a node writes a message in, with fields
   this version does not know among them, the SDK reads the message that was
   sent: no field is lost, mixed up with another case of its oneof, or left at
   a default (the generated internalBinaryRead and internalBinaryWrite). *)
MessageSurvives == Arrived => target = message

(* A signature still verifies after the message has travelled: what the
   receiver writes again is what was signed, unknown fields included
   (createSignature.ts:12-26 and its callers sign toBinary()). *)
SignatureSurvives ==
    Arrived /\ "signature" \in Names(type) /\ message.signature # None
        => Verifies(type, target)
=============================================================================
