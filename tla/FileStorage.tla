---------------------------- MODULE FileStorage ----------------------------
(***************************************************************************)
(* One call of FileStorage.store (packages/file-storage/src/FileStorage.ts) *)
(* and the transform withChunkSize it cuts a large file with               *)
(* (packages/ddc/src/streams/createStream.ts).  Bytes are numbered by      *)
(* their place in the body, so a misplaced, lost or repeated byte shows.   *)
(*                                                                         *)
(* The body is external: it delivers its bytes in chunks of any size.  A   *)
(* piece is stored by BalancedNode.storePiece, which resolves or rejects.  *)
(* The transform runs only while the loop over the parts waits for one     *)
(* (its readable side buffers nothing), and the parts it has enqueued but  *)
(* the loop has not taken are kept here at the front of `buffer`.          *)
(***************************************************************************)
EXTENDS Integers, Sequences

CONSTANTS
    MinBufferSize,      \* MIN_BUFFER_SIZE
    MaxBufferSize,      \* MAX_BUFFER_SIZE, which is also MAX_PIECE_SIZE
    DefaultBufferSize,  \* DEFAULT_BUFFER_SIZE
    MaxTotal,           \* bound: bytes of a file
    MaxChunk,           \* bound: bytes the body delivers at once
    None

ASSUME SizesAssumption ==
    /\ MinBufferSize \in Nat \ {0} /\ MaxBufferSize \in Nat
    /\ DefaultBufferSize \in MinBufferSize..MaxBufferSize
    /\ MaxTotal \in Nat /\ MaxChunk \in Nat

VARIABLES
    size, total,    \* bytes declared by the file and bytes of its body
    maxBufferSize,  \* the option, 0 when it is absent
    pc,             \* "start" | "reading" | "storingPart" | "storingManifest"
                    \* | "collecting" | "storingWhole" | "done"
    arrived,        \* bytes taken from the body
    buffer,         \* bytes taken and not yet handed to the loop
    current,        \* the part, or the whole content, being stored
    offset,
    parts,          \* the pieces stored: where they start, and their bytes
    manifest,       \* the multipart piece stored, or None
    outcome         \* "pending" | "fulfilled" | "rejected"

inputs == <<size, total, maxBufferSize>>
vars == <<inputs, pc, arrived, buffer, current, offset, parts, manifest, outcome>>

Bytes(from, n) == [i \in 1..n |-> from + i]

Part(from, data) == [offset |-> from, data |-> data]

-----------------------------------------------------------------------------
(* options?.maxBufferSize || DEFAULT_BUFFER_SIZE *)
PartSize == IF maxBufferSize = 0 THEN DefaultBufferSize ELSE maxBufferSize

(* Math.pow(2, Math.ceil(Math.log2(n))), of a positive n *)
CeilToPowerOf2(n) ==
    LET powers == {2^k : k \in 0..n}
    IN  CHOOSE p \in powers : p >= n /\ \A q \in powers : q >= n => p <= q

Init ==
    /\ size \in 0..MaxTotal
    /\ total \in 0..MaxTotal
    /\ maxBufferSize \in 0..(MaxBufferSize + 1)
    /\ pc = "start"
    /\ arrived = 0
    /\ buffer = <<>>
    /\ current = <<>>
    /\ offset = 0
    /\ parts = <<>>
    /\ manifest = None
    /\ outcome = "pending"

(* The size declared by the file decides how it is stored. *)
Start ==
    /\ pc = "start"
    /\ PartSize \in MinBufferSize..MaxBufferSize
    /\ pc' = IF size > PartSize THEN "reading" ELSE "collecting"
    /\ UNCHANGED <<inputs, arrived, buffer, current, offset, parts, manifest, outcome>>

Reject ==
    /\ pc' = "done"
    /\ outcome' = "rejected"
    /\ UNCHANGED <<inputs, arrived, buffer, current, offset, parts, manifest>>

StartThrows ==
    /\ pc = "start"
    /\ PartSize \notin MinBufferSize..MaxBufferSize
    /\ Reject

(* The body delivers k bytes. *)
BodyArrives_Eagerly(k) ==
    /\ pc \in {"reading", "storingPart", "collecting"}
    /\ arrived + k <= total
    /\ buffer' = buffer \o Bytes(arrived, k)
    /\ arrived' = arrived + k
    /\ UNCHANGED <<inputs, pc, current, offset, parts, manifest, outcome>>

BodyArrives(k) ==
    /\ \/ pc = "reading" /\ Len(buffer) < PartSize
       \/ pc = "collecting"
    /\ arrived + k <= total
    /\ buffer' = buffer \o Bytes(arrived, k)
    /\ arrived' = arrived + k
    /\ UNCHANGED <<inputs, pc, current, offset, parts, manifest, outcome>>

(* transform: a part is sliced off as soon as there are enough bytes. *)
CutPart_OneOff ==
    /\ pc = "reading"
    /\ Len(buffer) >= PartSize
    /\ current' = SubSeq(buffer, 1, PartSize)
    /\ buffer' = SubSeq(buffer, PartSize + 2, Len(buffer))
    /\ pc' = "storingPart"
    /\ UNCHANGED <<inputs, arrived, offset, parts, manifest, outcome>>

CutPart ==
    /\ pc = "reading"
    /\ Len(buffer) >= PartSize
    /\ current' = SubSeq(buffer, 1, PartSize)
    /\ buffer' = SubSeq(buffer, PartSize + 1, Len(buffer))
    /\ pc' = "storingPart"
    /\ UNCHANGED <<inputs, arrived, offset, parts, manifest, outcome>>

(* flush: what is left when the body ends is the last part. *)
FlushPart ==
    /\ pc = "reading"
    /\ arrived = total
    /\ Len(buffer) \in 1..(PartSize - 1)
    /\ current' = buffer
    /\ buffer' = <<>>
    /\ pc' = "storingPart"
    /\ UNCHANGED <<inputs, arrived, offset, parts, manifest, outcome>>

(* storePiece resolves with the CID of the part. *)
PartStored ==
    /\ pc = "storingPart"
    /\ parts' = Append(parts, Part(offset, current))
    /\ offset' = offset + Len(current)
    /\ current' = <<>>
    /\ pc' = "reading"
    /\ UNCHANGED <<inputs, arrived, buffer, manifest, outcome>>

(* The stream of parts ends without its last bytes when flush is missing. *)
EndOfBody_NoFlush ==
    /\ pc = "reading"
    /\ arrived = total
    /\ Len(buffer) < PartSize
    /\ pc' = "storingManifest"
    /\ UNCHANGED <<inputs, arrived, buffer, current, offset, parts, manifest, outcome>>

EndOfBody ==
    /\ pc = "reading"
    /\ arrived = total
    /\ buffer = <<>>
    /\ pc' = "storingManifest"
    /\ UNCHANGED <<inputs, arrived, buffer, current, offset, parts, manifest, outcome>>

(* The multipart piece: the parts, the size the file declared, and the part
   size FileApi.putMultipartPiece rounds up. *)
ManifestStored ==
    /\ pc = "storingManifest"
    /\ manifest' = [parts |-> parts, totalSize |-> size,
                    partSize |-> CeilToPowerOf2(PartSize)]
    /\ pc' = "done"
    /\ outcome' = "fulfilled"
    /\ UNCHANGED <<inputs, arrived, buffer, current, offset, parts>>

(* A small file is collected, and stored as one piece. *)
BodyCollected ==
    /\ pc = "collecting"
    /\ arrived = total
    /\ total \in 1..MaxBufferSize
    /\ current' = buffer
    /\ buffer' = <<>>
    /\ pc' = "storingWhole"
    /\ UNCHANGED <<inputs, arrived, offset, parts, manifest, outcome>>

(* A piece of no size, or above MAX_PIECE_SIZE, is refused. *)
PieceSizeThrows ==
    /\ pc = "collecting"
    /\ arrived = total
    /\ total \notin 1..MaxBufferSize
    /\ Reject

WholeStored ==
    /\ pc = "storingWhole"
    /\ parts' = Append(parts, Part(0, current))
    /\ current' = <<>>
    /\ pc' = "done"
    /\ outcome' = "fulfilled"
    /\ UNCHANGED <<inputs, arrived, buffer, offset, manifest>>

StorePieceRejects_Repeats ==
    /\ pc \in {"storingPart", "storingManifest", "storingWhole"}
    /\ pc' = IF pc = "storingPart" THEN "reading" ELSE pc
    /\ buffer' = current \o buffer
    /\ current' = <<>>
    /\ UNCHANGED <<inputs, arrived, offset, parts, manifest, outcome>>

(* storePiece rejects after its retries: so does the store, and the parts
   stored so far stay where they are. *)
StorePieceRejects ==
    /\ pc \in {"storingPart", "storingManifest", "storingWhole"}
    /\ Reject

(* The body of the file fails. *)
BodyFails ==
    /\ pc \in {"reading", "collecting"}
    /\ arrived < total
    /\ Reject

Settled == pc = "done" /\ UNCHANGED vars

Step ==
    \/ Start
    \/ StartThrows
    \/ \E k \in 1..MaxChunk : BodyArrives(k)
    \/ CutPart
    \/ FlushPart
    \/ PartStored
    \/ EndOfBody
    \/ ManifestStored
    \/ BodyCollected
    \/ PieceSizeThrows
    \/ WholeStored
    \/ StorePieceRejects
    \/ BodyFails

Next == Step \/ Settled

Spec == Init /\ [][Next]_vars

(* The body delivers or ends, and BalancedNode settles what it is asked. *)
FairSpec == Spec /\ WF_vars(Step)

-----------------------------------------------------------------------------
PartRecord == [offset : Nat, data : Seq(Nat)]

TypeOK ==
    /\ size \in Nat /\ total \in Nat /\ maxBufferSize \in Nat
    /\ pc \in {"start", "reading", "storingPart", "storingManifest",
               "collecting", "storingWhole", "done"}
    /\ arrived \in 0..total
    /\ buffer \in Seq(Nat)
    /\ current \in Seq(Nat)
    /\ offset \in Nat
    /\ parts \in Seq(PartRecord)
    /\ outcome \in {"pending", "fulfilled", "rejected"}
    /\ (pc = "done") <=> (outcome # "pending")
    /\ pc \notin {"start", "done"} => PartSize \in MinBufferSize..MaxBufferSize

(* Every piece holds the bytes of the body at its offset, and it starts where
   the piece before it ends: whatever the sizes of the chunks, no byte is
   lost, repeated or out of place (createStream.ts:36-51, FileStorage.ts:121-129). *)
PartsTileTheBody ==
    \A i \in DOMAIN parts :
        /\ parts[i].data = Bytes(parts[i].offset, Len(parts[i].data))
        /\ parts[i].offset =
               IF i = 1 THEN 0 ELSE parts[i - 1].offset + Len(parts[i - 1].data)

(* Only the last part of a file is shorter than the part size, so a reader
   finds byte b in part b \div PartSize. *)
OnlyLastPartIsShort ==
    size > PartSize =>
        \A i \in DOMAIN parts :
            /\ Len(parts[i].data) \in 1..PartSize
            /\ Len(parts[i].data) < PartSize => i = Len(parts) /\ arrived = total

(* A store that resolves has stored the whole body, and a large file is
   complete in the manifest; if the file told its size, so does the manifest. *)
FulfilledIsWhole ==
    outcome = "fulfilled" =>
        /\ IF parts = <<>>
               THEN total = 0
               ELSE total = parts[Len(parts)].offset + Len(parts[Len(parts)].data)
        /\ size > PartSize => manifest.parts = parts
        /\ size = total /\ size > PartSize =>
               manifest.totalSize = parts[Len(parts)].offset + Len(parts[Len(parts)].data)

(* A large file is never held whole: less than a part waits in the transform
   while the next chunk comes, and none comes while a part is being stored. *)
HeldIsBounded ==
    size > PartSize /\ MaxChunk > 0 =>
        Len(buffer) + Len(current) <= (PartSize - 1) + MaxChunk

(* The store is settled in the end. *)
StoreSettles == <>(outcome # "pending")
=============================================================================
