---------------------------- MODULE FileDownload ----------------------------
(***************************************************************************)
(* The content stream of FileApi.getFile (packages/ddc/src/FileApi,        *)
(* validators, streams/createStream.ts) from the moment the headers have   *)
(* come: a generator consumes the responses of the node, yields the data,  *)
(* acknowledges what was delivered and validates it, and a ReadableStream  *)
(* with a queue of one chunk stands between the generator and the reader.  *)
(*                                                                         *)
(* A CID is the sequence of chunks it addresses: contents have the same    *)
(* hash when they are the same sequence, and chunks stand for bytes.  The  *)
(* node is external and sends whatever it likes.                           *)
(***************************************************************************)
EXTENDS Naturals, Sequences, SequencesExt

CONSTANTS
    Chunks,         \* data a message can carry
    Cid,            \* the content asked for
    MaxMessages     \* bound: messages of the node

ASSUME FileDownloadAssumption ==
    /\ Cid \in Seq(Chunks)
    /\ MaxMessages \in Nat

VARIABLES
    options,    \* what the call was made with
    call,       \* the call, as the node left it: "open" | "ended" | "broken"
    sent,       \* history: data the node sent
    messages,   \* history: number of messages the node sent
    inbox,      \* call.responses: messages not consumed yet
    generator,  \* "waiting" | "yielded" | "counted" | "acknowledged" |
                \* "finishing" | "done" | "failed"
    chunk,      \* the data message the generator is at, as a sequence
    bytesStoredOrDelivered,
    hashed,     \* what the validator has seen
    isProved,
    acks,       \* acknowledgments sent, in order
    stream,     \* the reader's side: "readable" | "closed" | "errored" | "cancelled"
    queue,      \* chunks in the stream
    read        \* chunks the reader has taken

node == <<call, sent, messages>>
reading == <<chunk, bytesStoredOrDelivered, hashed, isProved, acks>>
vars == <<options, node, inbox, generator, reading, stream, queue, read>>

Data(c) == [kind |-> "data", data |-> c]
Proof(empty) == [kind |-> "proof", empty |-> empty]
Messages == {Data(c) : c \in Chunks} \cup {Proof(e) : e \in BOOLEAN}

(* A full file is validated by its hash unless the node has sent a proof. *)
NotHashed == isProved \/ options.range

-----------------------------------------------------------------------------
Init ==
    /\ options \in [authenticate : BOOLEAN, range : BOOLEAN, enableAcks : BOOLEAN]
    /\ call = "open"
    /\ sent = <<>>
    /\ messages = 0
    /\ inbox = <<>>
    /\ generator = "waiting"
    /\ chunk = <<>>
    /\ bytesStoredOrDelivered = 0
    /\ hashed = <<>>
    /\ isProved = FALSE
    /\ acks = <<>>
    /\ stream = "readable"
    /\ queue = <<>>
    /\ read = <<>>

(* External: the node sends a message, ends the call, or the call breaks. *)
NodeSends(m) ==
    /\ call = "open"
    /\ messages < MaxMessages
    /\ messages' = messages + 1
    /\ inbox' = Append(inbox, m)
    /\ sent' = IF m.kind = "data" THEN Append(sent, m.data) ELSE sent
    /\ UNCHANGED <<options, call, generator, reading, stream, queue, read>>

CallEnds ==
    /\ call = "open"
    /\ call' \in {"ended", "broken"}
    /\ UNCHANGED <<options, sent, messages, inbox, generator, reading, stream,
                   queue, read>>

(* pull: the generator's value goes into the queue of the stream; a stream
   that was cancelled meanwhile takes nothing. *)
Enqueue(c) ==
    queue' = IF stream = "readable" THEN Append(queue, c) ELSE queue

(* The generator takes a data message and yields it. *)
TakeData_CountsFirst ==
    /\ generator = "waiting"
    /\ inbox # <<>> /\ Head(inbox).kind = "data"
    /\ inbox' = Tail(inbox)
    /\ chunk' = <<Head(inbox).data>>
    /\ Enqueue(Head(inbox).data)
    /\ bytesStoredOrDelivered' = bytesStoredOrDelivered + 1
    /\ acks' = IF options.enableAcks THEN Append(acks, bytesStoredOrDelivered') ELSE acks
    /\ generator' = "yielded"
    /\ UNCHANGED <<options, node, hashed, isProved, stream, read>>

TakeData ==
    /\ generator = "waiting"
    /\ inbox # <<>> /\ Head(inbox).kind = "data"
    /\ inbox' = Tail(inbox)
    /\ chunk' = <<Head(inbox).data>>
    /\ Enqueue(Head(inbox).data)
    /\ generator' = "yielded"
    /\ UNCHANGED <<options, node, bytesStoredOrDelivered, hashed, isProved,
                   acks, stream, read>>

(* The next pull resumes it, when the queue is empty again. *)
Resume ==
    /\ generator = "yielded"
    /\ stream = "readable" /\ queue = <<>>
    /\ bytesStoredOrDelivered' = bytesStoredOrDelivered + Len(chunk)
    /\ generator' = "counted"
    /\ UNCHANGED <<options, node, inbox, chunk, hashed, isProved, acks, stream,
                   queue, read>>

(* The acknowledgment is signed, and sent without waiting for it. *)
Acknowledge ==
    /\ generator = "counted"
    /\ acks' = IF options.enableAcks THEN Append(acks, bytesStoredOrDelivered) ELSE acks
    /\ generator' = "acknowledged"
    /\ UNCHANGED <<options, node, inbox, chunk, bytesStoredOrDelivered, hashed,
                   isProved, stream, queue, read>>

(* validator.update *)
Update_NotAwaited ==
    /\ generator = "acknowledged"
    /\ hashed' \in {hashed, IF options.authenticate THEN hashed \o chunk ELSE hashed}
    /\ chunk' = <<>>
    /\ generator' = "waiting"
    /\ UNCHANGED <<options, node, inbox, bytesStoredOrDelivered, isProved, acks,
                   stream, queue, read>>

Update ==
    /\ generator = "acknowledged"
    /\ hashed' = IF options.authenticate THEN hashed \o chunk ELSE hashed
    /\ chunk' = <<>>
    /\ generator' = "waiting"
    /\ UNCHANGED <<options, node, inbox, bytesStoredOrDelivered, isProved, acks,
                   stream, queue, read>>

(* validator.prove: the proof itself is not verified. *)
TakeProof ==
    /\ generator = "waiting"
    /\ inbox # <<>> /\ Head(inbox).kind = "proof"
    /\ inbox' = Tail(inbox)
    /\ isProved' = ~Head(inbox).empty
    /\ UNCHANGED <<options, node, generator, chunk, bytesStoredOrDelivered,
                   hashed, acks, stream, queue, read>>

(* The generator throws: the stream is errored and its queue is emptied. *)
Fail_Silently ==
    /\ generator' = "failed"
    /\ UNCHANGED <<stream, queue>>

Fail ==
    /\ generator' = "failed"
    /\ stream' = IF stream = "readable" THEN "errored" ELSE stream
    /\ queue' = IF stream = "readable" THEN <<>> ELSE queue

(* The responses end with the error of the call. *)
TakeError ==
    /\ generator = "waiting"
    /\ inbox = <<>> /\ call = "broken"
    /\ Fail
    /\ UNCHANGED <<options, node, inbox, reading, read>>

(* The responses are over: the requests are completed. *)
TakeEnd_Early ==
    /\ generator = "waiting"
    /\ call = "ended"
    /\ generator' = "finishing"
    /\ UNCHANGED <<options, node, inbox, reading, stream, queue, read>>

TakeEnd ==
    /\ generator = "waiting"
    /\ inbox = <<>> /\ call = "ended"
    /\ generator' = "finishing"
    /\ UNCHANGED <<options, node, inbox, reading, stream, queue, read>>

(* Signing an acknowledgment, or completing the requests, throws. *)
OwnError ==
    /\ \/ generator = "counted" /\ options.enableAcks
       \/ generator = "finishing"
    /\ Fail
    /\ UNCHANGED <<options, node, inbox, reading, read>>

(* validator.validate, and the end of the generator. *)
Validate ==
    /\ generator = "finishing"
    /\ IF options.authenticate /\ ~NotHashed /\ hashed # Cid
        THEN Fail
        ELSE /\ generator' = "done"
             /\ stream' = IF stream = "readable" THEN "closed" ELSE stream
             /\ UNCHANGED queue
    /\ UNCHANGED <<options, node, inbox, reading, read>>

(* The reader takes a chunk, or loses interest: nothing tells the call. *)
Read ==
    /\ stream = "readable" /\ queue # <<>>
    /\ read' = Append(read, Head(queue))
    /\ queue' = Tail(queue)
    /\ UNCHANGED <<options, node, inbox, generator, reading, stream>>

Cancel ==
    /\ stream = "readable"
    /\ stream' = "cancelled"
    /\ queue' = <<>>
    /\ UNCHANGED <<options, node, inbox, generator, reading, read>>

GeneratorStep ==
    \/ TakeData
    \/ Resume
    \/ Acknowledge
    \/ Update
    \/ TakeProof
    \/ TakeError
    \/ TakeEnd
    \/ OwnError
    \/ Validate

NodeStep == CallEnds \/ \E m \in Messages : NodeSends(m)

Over ==
    /\ stream # "readable"
    /\ UNCHANGED vars

Next == NodeStep \/ GeneratorStep \/ Read \/ Cancel \/ Over

Spec == Init /\ [][Next]_vars

(* The generator runs when it can and the reader goes on reading.  That the
   call ends is an assumption about the node and the connection: no timer of
   the SDK bounds a call after its headers. *)
FairSpec ==
    /\ Spec
    /\ WF_vars(GeneratorStep)
    /\ WF_vars(Read)
    /\ WF_vars(CallEnds)

-----------------------------------------------------------------------------
TypeOK ==
    /\ options \in [authenticate : BOOLEAN, range : BOOLEAN, enableAcks : BOOLEAN]
    /\ call \in {"open", "ended", "broken"}
    /\ sent \in Seq(Chunks)
    /\ messages \in 0..MaxMessages
    /\ inbox \in Seq(Messages)
    /\ generator \in {"waiting", "yielded", "counted", "acknowledged",
                      "finishing", "done", "failed"}
    /\ chunk \in Seq(Chunks) /\ Len(chunk) <= 1
    /\ bytesStoredOrDelivered \in Nat
    /\ hashed \in Seq(Chunks)
    /\ isProved \in BOOLEAN
    /\ acks \in Seq(Nat)
    /\ stream \in {"readable", "closed", "errored", "cancelled"}
    /\ queue \in Seq(Chunks) /\ Len(queue) <= 1
    /\ read \in Seq(Chunks)

(* An acknowledgment is the reader's receipt: no acknowledgment counts a byte
   the reader has not taken, whatever the stream has prefetched
   (FileApi.ts:283-297). *)
AcknowledgedWasRead == \A i \in DOMAIN acks : acks[i] <= Len(read)

(* What was read is a beginning of what the node sent, and a reader that sees
   the end has read it all: nothing is lost, repeated or swapped between the
   responses, the generator and the queue (FileApi.ts:281-283,
   createStream.ts:96-106). *)
ReadIsSent ==
    /\ IsPrefix(read, sent)
    /\ stream = "closed" => read = sent

(* With authentication, and without a range or a proof, a reader that sees the
   end has read the content of the CID, whatever the node sent: every chunk is
   validated, the last one and an absent one too (FileApi.ts:314-323,
   FileValidator.ts:26-32). *)
EndIsAuthentic ==
    (stream = "closed" /\ options.authenticate /\ ~NotHashed) => read = Cid

(* At the end everything that was read is acknowledged. *)
EndIsAcknowledged ==
    (stream = "closed" /\ options.enableAcks /\ read # <<>>) => Last(acks) = Len(read)

(* The stream of a call that ends does not stay open. *)
StreamEnds == <>(stream # "readable")
=============================================================================
