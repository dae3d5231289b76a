------------------------- MODULE FileDownloadProofs -------------------------
(***************************************************************************)
(* Theorems of FileDownload, for any content, any messages of the node and *)
(* any interleaving of the node, the generator and the reader.             *)
(*                                                                         *)
(* Place says where the chunk the generator is at can be; Balance relates  *)
(* what was counted and hashed to what the reader has or will get; Receipt *)
(* that the last acknowledgment is the count.  Together they are inductive.*)
(***************************************************************************)
EXTENDS FileDownload, TLAPS, SequenceTheorems

(* Outside a delivery there is no chunk, and outside a yield nothing is in the
   queue; the stream is closed by the end of the generator. *)
Place ==
    /\ generator \in {"waiting", "finishing", "done"} => chunk = <<>>
    /\ generator \in {"yielded", "counted", "acknowledged"} => Len(chunk) = 1
    /\ queue # <<>> => stream = "readable" /\ generator = "yielded" /\ queue = chunk
    /\ stream = "closed" => generator = "done"
    /\ generator = "done" => stream # "readable"
    /\ generator = "failed" => stream \notin {"readable", "closed"}

(* What was counted, and hashed, is what the reader has, except for the chunk
   that is being delivered. *)
Balance ==
    /\ bytesStoredOrDelivered <= Len(read)
    /\ stream \in {"readable", "closed"} =>
           /\ generator = "yielded" => bytesStoredOrDelivered + 1 = Len(read) + Len(queue)
           /\ generator # "yielded" => bytesStoredOrDelivered = Len(read)
           /\ options.authenticate => hashed \o chunk = read \o queue

(* The last acknowledgment is the count. *)
Receipt ==
    /\ \A i \in DOMAIN acks : acks[i] <= bytesStoredOrDelivered
    /\ options.enableAcks /\ bytesStoredOrDelivered > 0
          /\ generator \notin {"counted", "failed"} =>
           /\ acks # <<>>
           /\ acks[Len(acks)] = bytesStoredOrDelivered

DInv == TypeOK /\ Place /\ Balance /\ Receipt

LEMMA InitDInv == Init => DInv
<1> SUFFICES ASSUME Init PROVE DInv
  OBVIOUS
<1>1. TypeOK
  <2>1. /\ <<>> \in Seq(Chunks) /\ <<>> \in Seq(Messages) /\ <<>> \in Seq(Nat)
        /\ Len(<<>>) = 0
    OBVIOUS
  <2>2. 0 \in 0..MaxMessages
    BY FileDownloadAssumption
  <2>3. /\ sent \in Seq(Chunks) /\ chunk \in Seq(Chunks) /\ hashed \in Seq(Chunks)
        /\ read \in Seq(Chunks) /\ queue \in Seq(Chunks)
        /\ inbox \in Seq(Messages) /\ acks \in Seq(Nat)
        /\ Len(chunk) <= 1 /\ Len(queue) <= 1
    BY <2>1 DEF Init
  <2>4. bytesStoredOrDelivered \in Nat /\ messages \in 0..MaxMessages
    BY <2>2 DEF Init
  <2>5. QED
    BY <2>3, <2>4 DEF Init, TypeOK
<1>2. Place /\ Balance /\ Receipt
  BY DEF Init, Place, Balance, Receipt
<1>3. QED
  BY <1>1, <1>2 DEF DInv

LEMMA NextDInv == DInv /\ [Next]_vars => DInv'
<1> SUFFICES ASSUME DInv, [Next]_vars PROVE DInv'
  OBVIOUS
<1> USE DEF DInv
<1>1. ASSUME NEW m \in Messages, NodeSends(m) PROVE DInv'
  <2>1. m.kind = "data" => m.data \in Chunks
    BY DEF Messages, Data, Proof
  <2>2. TypeOK'
    BY <1>1, <2>1, FileDownloadAssumption DEF NodeSends, TypeOK, reading
  <2>3. Place' /\ Balance' /\ Receipt'
    BY <1>1 DEF NodeSends, reading, Place, Balance, Receipt
  <2>4. QED
    BY <2>2, <2>3
<1>2. CASE CallEnds
  <2>1. /\ call' \in {"ended", "broken"}
        /\ UNCHANGED <<options, sent, messages, inbox, generator, reading, stream, queue, read>>
    BY <1>2 DEF CallEnds
  <2>2. TypeOK'
    BY <2>1 DEF TypeOK, reading
  <2>3. Place' /\ Balance' /\ Receipt'
    BY <2>1 DEF reading, Place, Balance, Receipt
  <2>4. QED
    BY <2>2, <2>3
<1>3. CASE TakeData
  <2>1. inbox \in Seq(Messages) /\ inbox # <<>>
    BY <1>3 DEF TakeData, TypeOK
  <2>2. Head(inbox) \in Messages /\ Tail(inbox) \in Seq(Messages)
    BY <2>1
  <2>3. Head(inbox).data \in Chunks
    BY <1>3, <2>2 DEF TakeData, Messages, Data, Proof
  <2> DEFINE c == Head(inbox).data
  <2>4. /\ generator = "waiting" /\ generator' = "yielded"
        /\ chunk = <<>> /\ queue = <<>>
        /\ chunk' = <<c>> /\ inbox' = Tail(inbox)
        /\ queue' = IF stream = "readable" THEN <<c>> ELSE <<>>
        /\ stream # "closed" /\ stream' = stream
        /\ UNCHANGED <<options, call, sent, messages, bytesStoredOrDelivered, hashed,
                       isProved, acks, read>>
    <3>1. /\ generator = "waiting" /\ generator' = "yielded"
          /\ chunk' = <<c>> /\ inbox' = Tail(inbox)
          /\ queue' = IF stream = "readable" THEN Append(queue, c) ELSE queue
          /\ UNCHANGED <<options, node, bytesStoredOrDelivered, hashed, isProved,
                         acks, stream, read>>
      BY <1>3 DEF TakeData, Enqueue
    <3>2. chunk = <<>> /\ queue = <<>> /\ stream # "closed"
      BY <3>1 DEF Place
    <3>3. Append(<<>>, c) = <<c>>
      OBVIOUS
    <3>4. QED
      BY <3>1, <3>2, <3>3 DEF node
  <2> HIDE DEF c
  <2>5. TypeOK'
    BY <2>2, <2>3, <2>4 DEF TypeOK, c
  <2>6. Place'
    BY <2>4 DEF Place
  <2>7. Balance'
    <3>1. hashed \in Seq(Chunks) /\ read \in Seq(Chunks) /\ bytesStoredOrDelivered \in Nat
      BY DEF TypeOK
    <3>2. bytesStoredOrDelivered' <= Len(read')
      BY <2>4 DEF Balance
    <3>3. CASE stream' = "readable"
      <4>1. Len(queue') = 1 /\ chunk' = queue'
        BY <2>4, <3>3
      <4>2. bytesStoredOrDelivered = Len(read)
        BY <2>4, <3>3 DEF Balance
      <4>3. options.authenticate => hashed = read
        BY <2>4, <3>1, <3>3 DEF Balance
      <4>4. QED
        BY <2>4, <3>2, <4>1, <4>2, <4>3 DEF Balance
    <3>4. QED
      BY <2>4, <3>2, <3>3 DEF Balance
  <2>8. Receipt'
    BY <2>4 DEF Receipt
  <2>9. QED
    BY <2>5, <2>6, <2>7, <2>8
<1>4. CASE Resume
  <2>1. /\ generator = "yielded" /\ stream = "readable" /\ queue = <<>> /\ Len(chunk) = 1
        /\ generator' = "counted"
        /\ bytesStoredOrDelivered' = bytesStoredOrDelivered + 1
        /\ UNCHANGED <<options, node, inbox, chunk, hashed, isProved, acks, stream,
                       queue, read>>
    BY <1>4 DEF Resume, Place
  <2>2. bytesStoredOrDelivered + 1 = Len(read) + 0
    BY <2>1 DEF Balance
  <2>3. TypeOK'
    <3>1. bytesStoredOrDelivered' \in Nat
      BY <2>1 DEF TypeOK
    <3>2. QED
      BY <2>1, <3>1 DEF TypeOK, node
  <2>4. Place'
    BY <2>1 DEF Place
  <2>5. Balance'
    BY <2>1, <2>2 DEF Balance, TypeOK
  <2>6. Receipt'
    BY <2>1 DEF Receipt, TypeOK
  <2>7. QED
    BY <2>3, <2>4, <2>5, <2>6
<1>5. CASE Acknowledge
  <2>1. /\ generator = "counted" /\ generator' = "acknowledged"
        /\ acks' = IF options.enableAcks THEN Append(acks, bytesStoredOrDelivered) ELSE acks
        /\ UNCHANGED <<options, node, inbox, chunk, bytesStoredOrDelivered, hashed,
                       isProved, stream, queue, read>>
    BY <1>5 DEF Acknowledge
  <2>2. acks \in Seq(Nat) /\ bytesStoredOrDelivered \in Nat
    BY DEF TypeOK
  <2>3. acks' \in Seq(Nat)
    BY <2>1, <2>2
  <2>4. TypeOK'
    BY <2>1, <2>3 DEF TypeOK, node
  <2>5. Place' /\ Balance'
    BY <2>1 DEF Place, Balance
  <2>6. Receipt'
    <3>1. CASE options.enableAcks
      <4>1. /\ Len(acks') = Len(acks) + 1 /\ Len(acks) \in Nat
            /\ acks'[Len(acks')] = bytesStoredOrDelivered
            /\ \A i \in 1..Len(acks) : acks'[i] = acks[i]
        BY <2>1, <2>2, <3>1
      <4>2. \A i \in DOMAIN acks' : i \in 1..Len(acks) \/ i = Len(acks')
        BY <2>3, <4>1
      <4>3. \A i \in DOMAIN acks' : acks'[i] <= bytesStoredOrDelivered
        BY <2>2, <4>1, <4>2 DEF Receipt
      <4>4. acks' # <<>>
        BY <4>1
      <4>5. QED
        BY <2>1, <4>1, <4>3, <4>4 DEF Receipt
    <3>2. CASE ~options.enableAcks
      BY <2>1, <3>2 DEF Receipt
    <3>3. QED
      BY <3>1, <3>2
  <2>7. QED
    BY <2>4, <2>5, <2>6
<1>6. CASE Update
  <2>1. /\ generator = "acknowledged" /\ generator' = "waiting"
        /\ hashed' = IF options.authenticate THEN hashed \o chunk ELSE hashed
        /\ chunk' = <<>> /\ queue = <<>>
        /\ UNCHANGED <<options, node, inbox, bytesStoredOrDelivered, isProved, acks,
                       stream, queue, read>>
    BY <1>6 DEF Update, Place
  <2>2. /\ hashed \in Seq(Chunks) /\ chunk \in Seq(Chunks) /\ read \in Seq(Chunks)
        /\ hashed \o chunk \in Seq(Chunks)
    BY DEF TypeOK
  <2>3. TypeOK'
    BY <2>1, <2>2 DEF TypeOK, node
  <2>4. Place'
    BY <2>1 DEF Place
  <2>5. Balance'
    <3>1. hashed' \o chunk' = hashed'
      BY <2>1, <2>2
    <3>2. QED
      BY <2>1, <3>1 DEF Balance
  <2>6. Receipt'
    BY <2>1 DEF Receipt
  <2>7. QED
    BY <2>3, <2>4, <2>5, <2>6
<1>7. CASE TakeProof
  <2>1. inbox \in Seq(Messages) /\ inbox # <<>>
    BY <1>7 DEF TakeProof, TypeOK
  <2>2. Tail(inbox) \in Seq(Messages) /\ inbox' = Tail(inbox)
    BY <1>7, <2>1 DEF TakeProof
  <2>3. isProved' \in BOOLEAN
    BY <1>7 DEF TakeProof
  <2>4. TypeOK'
    BY <1>7, <2>2, <2>3 DEF TakeProof, TypeOK, node
  <2>5. Place' /\ Balance' /\ Receipt'
    BY <1>7 DEF TakeProof, Place, Balance, Receipt
  <2>6. QED
    BY <2>4, <2>5
<1>8. ASSUME Fail, generator \notin {"done"}, UNCHANGED <<options, node, inbox, reading, read>>
      PROVE  DInv'
  <2>1. TypeOK'
    <3>1. <<>> \in Seq(Chunks) /\ Len(<<>>) = 0
      OBVIOUS
    <3>2. queue' \in Seq(Chunks) /\ Len(queue') <= 1
      BY <1>8, <3>1 DEF Fail, TypeOK
    <3>3. QED
      BY <1>8, <3>2 DEF Fail, TypeOK, node, reading
  <2>2. Place'
    <3>1. CASE stream = "readable"
      BY <1>8, <3>1 DEF Fail, Place, reading
    <3>2. CASE stream # "readable"
      <4>1. stream' = stream /\ queue' = queue /\ generator' = "failed"
        BY <1>8, <3>2 DEF Fail
      <4>2. queue = <<>>
        BY <3>2 DEF Place
      <4>3. QED
        BY <1>8, <3>2, <4>1, <4>2 DEF Place, reading
    <3>3. QED
      BY <3>1, <3>2
  <2>3. Balance' /\ Receipt'
    BY <1>8 DEF Fail, Place, Balance, Receipt, reading, TypeOK
  <2>4. QED
    BY <2>1, <2>2, <2>3
<1>9. CASE TakeError \/ OwnError
  BY <1>8, <1>9 DEF TakeError, OwnError
<1>10. CASE TakeEnd
  <2>1. TypeOK'
    BY <1>10 DEF TakeEnd, TypeOK, node, reading
  <2>2. Place' /\ Balance' /\ Receipt'
    BY <1>10 DEF TakeEnd, Place, Balance, Receipt, reading
  <2>3. QED
    BY <2>1, <2>2
<1>11. CASE Validate
  <2>1. CASE Fail
    BY <1>8, <1>11, <2>1 DEF Validate
  <2>2. CASE ~Fail
    <3>1. /\ generator = "finishing" /\ generator' = "done"
          /\ stream' = IF stream = "readable" THEN "closed" ELSE stream
          /\ UNCHANGED <<options, node, inbox, reading, read, queue>>
      BY <1>11, <2>2 DEF Validate
    <3>2. TypeOK'
      BY <3>1 DEF TypeOK, node, reading
    <3>3. Place' /\ Balance' /\ Receipt'
      BY <3>1 DEF Place, Balance, Receipt, reading
    <3>4. QED
      BY <3>2, <3>3
  <2>3. QED
    BY <2>1, <2>2
<1>12. CASE Read
  <2>1. /\ stream = "readable" /\ queue # <<>> /\ generator = "yielded" /\ queue = chunk
        /\ read' = Append(read, Head(queue)) /\ queue' = Tail(queue)
        /\ UNCHANGED <<options, node, inbox, generator, reading, stream>>
    BY <1>12 DEF Read, Place
  <2>2. queue \in Seq(Chunks) /\ Len(queue) = 1 /\ read \in Seq(Chunks)
    BY <2>1 DEF TypeOK, Place
  <2>3. /\ Head(queue) \in Chunks /\ queue' = <<>> /\ Len(queue') = 0
        /\ read' \in Seq(Chunks) /\ Len(read') = Len(read) + 1
        /\ read' \o queue' = read \o queue
    BY <2>1, <2>2
  <2>4. TypeOK'
    <3>1. queue' \in Seq(Chunks) /\ Len(queue') <= 1
      BY <2>3
    <3>2. QED
      BY <2>1, <2>3, <3>1 DEF TypeOK, node, reading
  <2>5. Place'
    BY <2>1, <2>3 DEF Place, reading
  <2>6. Balance'
    <3>1. bytesStoredOrDelivered \in Nat /\ Len(read) \in Nat
      BY <2>2 DEF TypeOK
    <3>2. bytesStoredOrDelivered + 1 = Len(read) + Len(queue)
      BY <2>1 DEF Balance
    <3>3. bytesStoredOrDelivered = Len(read)
      BY <2>2, <3>1, <3>2
    <3>4. bytesStoredOrDelivered' = bytesStoredOrDelivered
      BY <2>1 DEF reading
    <3>5. /\ bytesStoredOrDelivered' + 1 = Len(read') + Len(queue')
          /\ bytesStoredOrDelivered' <= Len(read')
      BY ONLY <2>3, <3>1, <3>3, <3>4
    <3>6. options.authenticate => hashed \o chunk = read \o queue
      BY <2>1 DEF Balance
    <3>7. QED
      BY <2>1, <2>3, <3>5, <3>6 DEF Balance, reading
  <2>7. Receipt'
    BY <2>1 DEF Receipt, reading
  <2>8. QED
    BY <2>4, <2>5, <2>6, <2>7
<1>13. CASE Cancel
  <2>1. TypeOK'
    BY <1>13 DEF Cancel, TypeOK, node, reading
  <2>2. Place' /\ Balance' /\ Receipt'
    BY <1>13 DEF Cancel, Place, Balance, Receipt, reading
  <2>3. QED
    BY <2>1, <2>2
<1>14. CASE UNCHANGED vars
  <2>1. TypeOK'
    BY <1>14 DEF vars, node, reading, TypeOK
  <2>2. Place' /\ Balance' /\ Receipt'
    BY <1>14 DEF vars, reading, Place, Balance, Receipt
  <2>3. QED
    BY <2>1, <2>2
<1>15. QED
  BY <1>1, <1>2, <1>3, <1>4, <1>5, <1>6, <1>7, <1>9, <1>10, <1>11, <1>12, <1>13, <1>14
     DEF Next, NodeStep, GeneratorStep, Over

(* The types, and the bound of one on the chunk and the queue. *)
THEOREM TypeCorrect == Spec => []TypeOK
<1>1. DInv => TypeOK
  BY DEF DInv
<1>2. QED
  BY InitDInv, NextDInv, <1>1, PTL DEF Spec

(* No acknowledgment counts a byte the reader has not taken. *)
THEOREM AcknowledgmentsAreReceipts == Spec => []AcknowledgedWasRead
<1>1. DInv => AcknowledgedWasRead
  BY DEF DInv, TypeOK, Balance, Receipt, AcknowledgedWasRead
<1>2. QED
  BY InitDInv, NextDInv, <1>1, PTL DEF Spec

(* At the end of a stream everything that was read is acknowledged. *)
THEOREM EndsAreAcknowledged == Spec => []EndIsAcknowledged
<1>1. DInv => EndIsAcknowledged
  <2> SUFFICES ASSUME DInv, stream = "closed", options.enableAcks, read # <<>>
               PROVE  Last(acks) = Len(read)
    BY DEF EndIsAcknowledged
  <2>1. read \in Seq(Chunks) /\ Len(read) > 0
    BY EmptySeq DEF DInv, TypeOK
  <2>2. generator = "done" /\ bytesStoredOrDelivered = Len(read)
    BY DEF DInv, Place, Balance
  <2>3. acks[Len(acks)] = bytesStoredOrDelivered
    BY <2>1, <2>2 DEF DInv, Receipt
  <2>4. QED
    BY <2>2, <2>3 DEF Last
<1>2. QED
  BY InitDInv, NextDInv, <1>1, PTL DEF Spec

(* A stream is closed only after the hash of what was read was compared with
   the content asked for, unless a proof or a range excuses it. *)
Vouched ==
    stream = "closed" /\ options.authenticate /\ ~NotHashed => hashed = Cid

(* With authentication, and without a range or a proof, a reader that sees the
   end has read the content of the CID, whatever the node sent. *)
THEOREM EndsAreAuthentic == Spec => []EndIsAuthentic
<1>1. Init => Vouched
  BY DEF Init, Vouched
<1>2. DInv /\ Vouched /\ [Next]_vars => Vouched'
  <2> SUFFICES ASSUME DInv, Vouched, [Next]_vars PROVE Vouched'
    OBVIOUS
  <2>1. CASE Validate
    <3>1. CASE Fail
      BY <2>1, <3>1 DEF Validate, Fail, Vouched, NotHashed, reading, DInv, Place
    <3>2. CASE ~Fail
      BY <2>1, <3>2 DEF Validate, Vouched, NotHashed, reading
    <3>3. QED
      BY <3>1, <3>2
  <2>2. CASE stream' # "closed"
    BY <2>2 DEF Vouched
  <2>3. CASE stream = "closed" /\ UNCHANGED <<options, hashed, isProved>>
    BY <2>3 DEF Vouched, NotHashed
  <2>4. CASE ~Validate /\ stream' = "closed"
    <3>1. stream = "closed"
      BY <2>4 DEF Next, NodeStep, NodeSends, CallEnds, GeneratorStep, TakeData, Resume,
         Acknowledge, Update, TakeProof, TakeError, TakeEnd, OwnError, Fail, Read, Cancel,
         Over, vars, reading
    <3>2. generator = "done"
      BY <3>1 DEF DInv, Place
    <3>3. UNCHANGED <<options, hashed, isProved>>
      BY <2>4, <3>2 DEF Next, NodeStep, NodeSends, CallEnds, GeneratorStep, TakeData,
         Resume, Acknowledge, Update, TakeProof, TakeError, TakeEnd, OwnError, Read,
         Cancel, Over, vars, reading
    <3>4. QED
      BY <2>3, <3>1, <3>3
  <2>5. QED
    BY <2>1, <2>2, <2>4
<1>3. DInv /\ Vouched => EndIsAuthentic
  <2> SUFFICES ASSUME DInv, Vouched, stream = "closed", options.authenticate, ~NotHashed
               PROVE  read = Cid
    BY DEF EndIsAuthentic
  <2>1. chunk = <<>> /\ queue = <<>>
    BY DEF DInv, Place
  <2>2. hashed \o <<>> = read \o <<>>
    BY <2>1 DEF DInv, Balance
  <2>3. hashed \in Seq(Chunks) /\ read \in Seq(Chunks)
    BY DEF DInv, TypeOK
  <2>4. hashed = read
    BY <2>2, <2>3
  <2>5. QED
    BY <2>4 DEF Vouched
<1>4. QED
  BY InitDInv, NextDInv, <1>1, <1>2, <1>3, PTL DEF Spec
-----------------------------------------------------------------------------
(* `want` is the data of the messages `in`, in order: `f` says which message
   each chunk came with. *)
Places(f, in, want) ==
    /\ \A i \in 1..Len(want) : f[i] \in 1..Len(in) /\ in[f[i]] = Data(want[i])
    /\ \A i, j \in 1..Len(want) : i < j => f[i] < f[j]
    /\ \A k \in 1..Len(in) : in[k].kind = "data" => \E i \in 1..Len(want) : f[i] = k

Carries(in, want) == \E f \in [1..Len(want) -> Nat] : Places(f, in, want)

LEMMA CarriesNothing == Carries(<<>>, <<>>)
<1> DEFINE f == [i \in 1..0 |-> 0]
<1>1. f \in [1..Len(<<>>) -> Nat] /\ Places(f, <<>>, <<>>)
  BY DEF Places
<1>2. QED BY <1>1 DEF Carries

(* A message without data adds nothing, one with data adds its chunk. *)
LEMMA CarriesAppend ==
    ASSUME NEW in \in Seq(Messages), NEW want \in Seq(Chunks), Carries(in, want),
           NEW m \in Messages
    PROVE  /\ m.kind # "data" => Carries(Append(in, m), want)
           /\ m.kind = "data" => Carries(Append(in, m), Append(want, m.data))
<1>1. PICK f \in [1..Len(want) -> Nat] : Places(f, in, want)
  BY DEF Carries
<1> DEFINE more == Append(in, m)
<1>2. /\ Len(more) = Len(in) + 1 /\ Len(in) \in Nat
      /\ \A k \in 1..Len(in) : more[k] = in[k]
      /\ more[Len(in) + 1] = m
  BY AppendProperties
<1> HIDE DEF more
<1>3. ASSUME m.kind # "data" PROVE Carries(more, want)
  <2>1. \A i \in 1..Len(want) : f[i] \in 1..Len(more) /\ more[f[i]] = Data(want[i])
    BY <1>1, <1>2 DEF Places
  <2>2. \A k \in 1..Len(more) : more[k].kind = "data" => k \in 1..Len(in)
    BY <1>2, <1>3
  <2>3. Places(f, more, want)
    BY <1>1, <1>2, <2>1, <2>2 DEF Places
  <2>4. QED BY <2>3 DEF Carries
<1>4. ASSUME m.kind = "data" PROVE Carries(more, Append(want, m.data))
  <2> DEFINE longer == Append(want, m.data)
             g == [i \in 1..Len(longer) |-> IF i <= Len(want) THEN f[i] ELSE Len(in) + 1]
  <2>1. m.data \in Chunks /\ m = Data(m.data)
    BY <1>4 DEF Messages, Data, Proof
  <2>2. /\ Len(longer) = Len(want) + 1 /\ Len(want) \in Nat
        /\ \A i \in 1..Len(want) : longer[i] = want[i]
        /\ longer[Len(want) + 1] = m.data
    BY <2>1, AppendProperties
  <2> HIDE DEF longer
  <2>3. /\ g \in [1..Len(longer) -> Nat]
        /\ \A i \in 1..Len(want) : g[i] = f[i]
        /\ g[Len(want) + 1] = Len(in) + 1
    BY <1>2, <2>2
  <2> HIDE DEF g
  <2>4. \A i \in 1..Len(longer) : g[i] \in 1..Len(more) /\ more[g[i]] = Data(longer[i])
    BY <1>1, <1>2, <2>1, <2>2, <2>3, SMTT(30) DEF Places
  <2>5. ASSUME NEW i \in 1..Len(longer), NEW j \in 1..Len(longer), i < j
        PROVE  g[i] < g[j]
    <3>1. i \in 1..Len(want) /\ g[i] = f[i] /\ f[i] \in 1..Len(in)
      BY <1>1, <2>2, <2>3, <2>5 DEF Places
    <3>2. CASE j = Len(want) + 1
      BY <1>2, <2>3, <3>1, <3>2
    <3>3. CASE j \in 1..Len(want)
      BY <1>1, <2>3, <2>5, <3>1, <3>3 DEF Places
    <3>4. QED BY <2>2, <3>2, <3>3
  <2>6. ASSUME NEW k \in 1..Len(more), more[k].kind = "data"
        PROVE  \E i \in 1..Len(longer) : g[i] = k
    <3>1. CASE k = Len(in) + 1
      BY <2>2, <2>3, <3>1
    <3>2. CASE k \in 1..Len(in)
      <4>1. PICK i \in 1..Len(want) : f[i] = k
        BY <1>1, <1>2, <2>6, <3>2 DEF Places
      <4>2. QED BY <2>2, <2>3, <4>1
    <3>3. QED BY <1>2, <3>1, <3>2
  <2>7. Places(g, more, longer)
    BY <2>4, <2>5, <2>6 DEF Places
  <2>8. QED BY <2>3, <2>7 DEF Carries, longer
<1>5. QED BY <1>3, <1>4 DEF more

(* The first message is that of the first chunk, or it carries none. *)
LEMMA CarriesTail ==
    ASSUME NEW in \in Seq(Messages), NEW want \in Seq(Chunks), Carries(in, want),
           in # <<>>
    PROVE  /\ Head(in).kind # "data" => Carries(Tail(in), want)
           /\ Head(in).kind = "data" => /\ want # <<>> /\ Head(want) = Head(in).data
                                        /\ Carries(Tail(in), Tail(want))
<1>1. PICK f \in [1..Len(want) -> Nat] : Places(f, in, want)
  BY DEF Carries
<1> DEFINE less == Tail(in)
<1>2. /\ Len(in) \in Nat \ {0} /\ Len(less) = Len(in) - 1
      /\ \A k \in 1..Len(less) : less[k] = in[k + 1]
      /\ Head(in) = in[1] /\ in[1] \in Messages
  BY HeadTailProperties, LenProperties, EmptySeq
<1> HIDE DEF less
<1>3. ASSUME in[1].kind # "data" PROVE Carries(less, want)
  <2> DEFINE g == [i \in 1..Len(want) |-> f[i] - 1]
  <2>1. ASSUME NEW i \in 1..Len(want) PROVE f[i] # 1 /\ f[i] \in 1..Len(in)
    <3>1. in[f[i]] = Data(want[i]) /\ f[i] \in 1..Len(in)
      BY <1>1 DEF Places
    <3>2. in[f[i]].kind = "data"
      BY <3>1 DEF Data
    <3>3. QED BY <1>3, <3>1, <3>2
  <2>2. g \in [1..Len(want) -> Nat] /\ \A i \in 1..Len(want) : g[i] = f[i] - 1
    BY <1>2, <2>1
  <2> HIDE DEF g
  <2>3. \A i \in 1..Len(want) : g[i] \in 1..Len(less) /\ less[g[i]] = Data(want[i])
    BY <1>1, <1>2, <2>1, <2>2 DEF Places
  <2>4. \A i, j \in 1..Len(want) : i < j => g[i] < g[j]
    BY <1>1, <2>1, <2>2 DEF Places
  <2>5. ASSUME NEW k \in 1..Len(less), less[k].kind = "data"
        PROVE  \E i \in 1..Len(want) : g[i] = k
    <3>1. k + 1 \in 1..Len(in) /\ in[k + 1].kind = "data"
      BY <1>2, <2>5
    <3>2. PICK i \in 1..Len(want) : f[i] = k + 1
      BY <1>1, <3>1 DEF Places
    <3>3. QED BY <2>2, <3>2
  <2>6. Places(g, less, want)
    BY <2>3, <2>4, <2>5 DEF Places
  <2>7. QED BY <2>2, <2>6 DEF Carries
<1>4. ASSUME in[1].kind = "data"
      PROVE  want # <<>> /\ Head(want) = in[1].data /\ Carries(less, Tail(want))
  <2>1. PICK first \in 1..Len(want) : f[first] = 1
    BY <1>1, <1>2, <1>4 DEF Places
  <2>2. Len(want) \in Nat /\ 1 \in 1..Len(want)
    BY <2>1, LenProperties
  <2>3. first = 1
    BY <1>1, <1>2, <2>1, <2>2 DEF Places
  <2>4. want # <<>> /\ Head(want) = want[1]
    BY <2>2, EmptySeq
  <2>5. in[1] = Data(want[1])
    BY <1>1, <2>1, <2>2, <2>3 DEF Places
  <2> DEFINE shorter == Tail(want)
             g == [i \in 1..Len(shorter) |-> f[i + 1] - 1]
  <2>6. /\ Len(shorter) = Len(want) - 1
        /\ \A i \in 1..Len(shorter) : shorter[i] = want[i + 1]
    BY <2>4, HeadTailProperties
  <2> HIDE DEF shorter
  <2>7. \A i \in 1..Len(shorter) : /\ i + 1 \in 1..Len(want)
                                   /\ f[i + 1] \in 2..Len(in)
    BY <1>1, <1>2, <2>1, <2>2, <2>3, <2>6 DEF Places
  <2>8. g \in [1..Len(shorter) -> Nat] /\ \A i \in 1..Len(shorter) : g[i] = f[i + 1] - 1
    BY <1>2, <2>7
  <2> HIDE DEF g
  <2>9. ASSUME NEW i \in 1..Len(shorter)
        PROVE  g[i] \in 1..Len(less) /\ less[g[i]] = Data(shorter[i])
    <3>1. /\ i + 1 \in 1..Len(want) /\ f[i + 1] \in 2..Len(in)
          /\ in[f[i + 1]] = Data(want[i + 1])
      BY <1>1, <2>7 DEF Places
    <3>2. g[i] = f[i + 1] - 1 /\ g[i] \in 1..Len(less) /\ g[i] + 1 = f[i + 1]
      BY <1>2, <2>8, <3>1
    <3>3. less[g[i]] = in[f[i + 1]]
      BY <1>2, <3>2
    <3>4. QED BY <2>6, <3>1, <3>2, <3>3
  <2>10. \A i, j \in 1..Len(shorter) : i < j => g[i] < g[j]
    BY <1>1, <1>2, <2>2, <2>7, <2>8, SMTT(30) DEF Places
  <2>11. ASSUME NEW k \in 1..Len(less), less[k].kind = "data"
         PROVE  \E i \in 1..Len(shorter) : g[i] = k
    <3>1. k + 1 \in 1..Len(in) /\ in[k + 1].kind = "data"
      BY <1>2, <2>11
    <3>2. PICK i \in 1..Len(want) : f[i] = k + 1
      BY <1>1, <3>1 DEF Places
    <3>3. i # 1
      BY <2>1, <2>3, <3>2
    <3>4. i - 1 \in 1..Len(shorter) /\ (i - 1) + 1 = i
      BY <2>2, <2>6, <3>3
    <3>5. g[i - 1] = f[i] - 1
      BY <2>8, <3>4
    <3>6. QED BY <3>2, <3>4, <3>5
  <2>12. Places(g, less, shorter)
    BY <2>9, <2>10, <2>11 DEF Places
  <2>13. QED BY <2>4, <2>5, <2>8, <2>12 DEF Carries, Data, shorter
<1>5. QED BY <1>2, <1>3, <1>4 DEF less
(* What was sent is what was read, what is in the queue, and what is still to
   come with the messages of the inbox; a reader that left takes no more. *)
Transit ==
    /\ \E want \in Seq(Chunks) :
           /\ sent = (read \o queue) \o want
           /\ stream \in {"readable", "closed"} => Carries(inbox, want)
    /\ generator \in {"finishing", "done"} => inbox = <<>> /\ call = "ended"

LEMMA TransitInit == Init => Transit
<1> SUFFICES ASSUME Init PROVE Transit
  OBVIOUS
<1>1. <<>> \in Seq(Chunks) /\ sent = (read \o queue) \o <<>>
  BY ConcatEmptySeq DEF Init
<1>2. QED BY <1>1, CarriesNothing DEF Init, Transit

LEMMA TransitSends ==
    ASSUME DInv, Transit, NEW m \in Messages, NodeSends(m)
    PROVE  Transit'
<1>1. PICK want \in Seq(Chunks) :
          /\ sent = (read \o queue) \o want
          /\ stream \in {"readable", "closed"} => Carries(inbox, want)
  BY DEF Transit
<1>2. /\ inbox' = Append(inbox, m) /\ call = "open"
      /\ UNCHANGED <<call, generator, read, queue, stream>>
      /\ inbox \in Seq(Messages) /\ read \o queue \in Seq(Chunks)
  BY ConcatProperties DEF NodeSends, DInv, TypeOK
<1>3. CASE m.kind # "data"
  <2>1. sent' = sent
    BY <1>3 DEF NodeSends
  <2>2. QED BY <1>1, <1>2, <1>3, <2>1, CarriesAppend DEF Transit
<1>4. CASE m.kind = "data"
  <2>1. m.data \in Chunks /\ sent' = Append(sent, m.data) /\ sent \in Seq(Chunks)
    BY <1>4 DEF NodeSends, Messages, Data, Proof, DInv, TypeOK
  <2>2. Append(want, m.data) \in Seq(Chunks) /\ <<m.data>> \in Seq(Chunks)
    BY <2>1, AppendProperties
  <2>3. sent' = (read \o queue) \o Append(want, m.data)
    <3> DEFINE got == read \o queue
               more == <<m.data>>
    <3>1. sent' = (got \o want) \o more
      BY <1>1, <2>1, AppendIsConcat
    <3>2. got \in Seq(Chunks) /\ more \in Seq(Chunks)
      BY <1>2, <2>2
    <3>3. Append(want, m.data) = want \o more
      BY <2>1, AppendIsConcat
    <3> HIDE DEF got, more
    <3>4. (got \o want) \o more = got \o (want \o more)
      BY <3>2, ConcatAssociative
    <3>5. sent' = got \o Append(want, m.data)
      BY <3>1, <3>3, <3>4
    <3>6. QED BY <3>5 DEF got
  <2>4. QED BY <1>1, <1>2, <1>4, <2>2, <2>3, CarriesAppend DEF Transit
<1>5. QED BY <1>3, <1>4

LEMMA TransitTakes ==
    ASSUME DInv, Transit, TakeData
    PROVE  Transit'
<1>1. PICK want \in Seq(Chunks) :
          /\ sent = (read \o queue) \o want
          /\ stream \in {"readable", "closed"} => Carries(inbox, want)
  BY DEF Transit
<1>2. /\ inbox \in Seq(Messages) /\ inbox # <<>> /\ Head(inbox).kind = "data"
      /\ inbox' = Tail(inbox) /\ generator' = "yielded" /\ queue = <<>>
      /\ stream # "closed" /\ read \in Seq(Chunks)
      /\ UNCHANGED <<sent, read, stream>>
  BY DEF TakeData, DInv, TypeOK, Place, node
<1>3. CASE stream = "readable"
  <2>1. /\ want # <<>> /\ Head(want) = Head(inbox).data
        /\ Carries(inbox', Tail(want))
    BY <1>1, <1>2, <1>3, CarriesTail
  <2>2. queue' = <<Head(want)>> /\ Head(want) \in Chunks /\ Tail(want) \in Seq(Chunks)
    BY <1>2, <1>3, <2>1, HeadTailProperties DEF TakeData, Enqueue
  <2>3. want = queue' \o Tail(want) /\ queue' \in Seq(Chunks)
    BY <2>1, <2>2
  <2>4. read \o queue = read
    BY <1>2, ConcatEmptySeq
  <2>5. sent' = (read' \o queue') \o Tail(want)
    <3> DEFINE first == queue'
               rest == Tail(want)
    <3>1. sent' = read \o (first \o rest)
      BY <1>1, <1>2, <2>3, <2>4
    <3>2. first \in Seq(Chunks) /\ rest \in Seq(Chunks)
      BY <2>2, <2>3
    <3> HIDE DEF first, rest
    <3>3. (read \o first) \o rest = read \o (first \o rest)
      BY <1>2, <3>2, ConcatAssociative, SMTT(30)
    <3>4. sent' = (read \o first) \o rest
      BY <3>1, <3>3
    <3>5. QED BY <1>2, <3>4 DEF first, rest
  <2>6. QED BY <1>2, <2>1, <2>2, <2>5 DEF Transit
<1>4. CASE stream # "readable"
  <2>1. queue' = queue
    BY <1>4 DEF TakeData, Enqueue
  <2>2. QED BY <1>1, <1>2, <1>4, <2>1 DEF Transit
<1>5. QED BY <1>3, <1>4

(* When the stream ends without its end, what was in the queue is not read. *)
LEMMA TransitStops ==
    ASSUME DInv, Transit, queue' = <<>>, stream' \notin {"readable", "closed"},
           UNCHANGED <<sent, read>>,
           generator' \in {"finishing", "done"} =>
               generator \in {"finishing", "done"} /\ UNCHANGED <<inbox, call>>
    PROVE  Transit'
<1>1. PICK want \in Seq(Chunks) : sent = (read \o queue) \o want
  BY DEF Transit
<1>2. read \in Seq(Chunks) /\ queue \in Seq(Chunks)
  BY DEF DInv, TypeOK
<1>3. queue \o want \in Seq(Chunks)
  BY <1>2, ConcatProperties
<1>4. sent = read \o (queue \o want)
  BY <1>1, <1>2, ConcatAssociative
<1>5. read' \o queue' = read
  BY <1>2, ConcatEmptySeq
<1>6. QED BY <1>3, <1>4, <1>5 DEF Transit

LEMMA FailStops ==
    ASSUME DInv, Transit, Fail, generator # "done", UNCHANGED <<sent, read>>
    PROVE  Transit'
<1>1. queue' = <<>> /\ stream' \notin {"readable", "closed"} /\ generator' = "failed"
  BY DEF Fail, DInv, Place, TypeOK
<1>2. QED BY <1>1, TransitStops

LEMMA TransitStep ==
    ASSUME DInv, Transit, [Next]_vars
    PROVE  Transit'
<1>1. ASSUME NEW m \in Messages, NodeSends(m) PROVE Transit'
  BY <1>1, TransitSends
<1>2. CASE TakeData
  BY <1>2, TransitTakes
<1>3. CASE CallEnds
  <2>1. generator \notin {"finishing", "done"}
    BY <1>3 DEF CallEnds, Transit
  <2>2. QED BY <1>3, <2>1 DEF CallEnds, Transit
<1>4. CASE Resume \/ Acknowledge \/ Update \/ UNCHANGED vars
  <2>1. /\ UNCHANGED <<sent, inbox, stream, queue, read>>
        /\ generator' \in {"finishing", "done"} => UNCHANGED <<generator, call>>
    BY <1>4 DEF Resume, Acknowledge, Update, vars, node
  <2>2. QED BY <2>1 DEF Transit
<1>5. CASE TakeProof
  <2>1. /\ inbox \in Seq(Messages) /\ inbox # <<>> /\ Head(inbox).kind = "proof"
        /\ inbox' = Tail(inbox) /\ generator' = "waiting"
        /\ UNCHANGED <<sent, stream, queue, read>>
    BY <1>5 DEF TakeProof, DInv, TypeOK, node
  <2>2. PICK want \in Seq(Chunks) :
            /\ sent = (read \o queue) \o want
            /\ stream \in {"readable", "closed"} => Carries(inbox, want)
    BY DEF Transit
  <2>3. stream \in {"readable", "closed"} => Carries(Tail(inbox), want)
    BY <2>1, <2>2, CarriesTail
  <2>4. QED BY <2>1, <2>2, <2>3 DEF Transit
<1>6. CASE TakeEnd
  BY <1>6 DEF TakeEnd, Transit, node
<1>7. CASE TakeError \/ OwnError
  BY <1>7, FailStops DEF TakeError, OwnError, node
<1>8. CASE Validate
  <2>1. CASE Fail
    BY <1>8, <2>1, FailStops DEF Validate, node
  <2>2. CASE /\ generator' = "done" /\ UNCHANGED queue
             /\ stream' = IF stream = "readable" THEN "closed" ELSE stream
    <3>1. /\ generator = "finishing" /\ UNCHANGED <<sent, read, inbox, call>>
      BY <1>8 DEF Validate, node
    <3>2. QED BY <2>2, <3>1 DEF Transit
  <2>3. QED BY <1>8, <2>1, <2>2 DEF Validate
<1>9. CASE Read
  <2>1. /\ queue = chunk /\ Len(chunk) = 1 /\ queue \in Seq(Chunks)
        /\ read \in Seq(Chunks)
    BY <1>9 DEF Read, DInv, Place, TypeOK
  <2>2. queue = <<Head(queue)>> /\ Tail(queue) = <<>> /\ Head(queue) \in Chunks
    <3>1. queue # <<>> /\ Len(queue) = 1
      BY <1>9, <2>1 DEF Read
    <3>2. /\ Head(queue) \in Chunks /\ Tail(queue) \in Seq(Chunks)
          /\ Len(Tail(queue)) = 0
      BY <2>1, <3>1, HeadTailProperties
    <3>3. Tail(queue) = <<>>
      BY <3>2, EmptySeq
    <3>4. queue[1] = Head(queue)
      BY <2>1, <3>1
    <3>5. /\ <<Head(queue)>> \in Seq(Chunks) /\ Len(<<Head(queue)>>) = 1
          /\ <<Head(queue)>>[1] = Head(queue)
      BY <3>2
    <3>6. queue = <<Head(queue)>>
      BY <2>1, <3>1, <3>4, <3>5, SeqEqual
    <3>7. QED BY <3>2, <3>3, <3>6
  <2>3. read' = read \o queue /\ queue' = <<>>
    BY <1>9, <2>1, <2>2, AppendIsConcat DEF Read
  <2>4. read' \o queue' = read \o queue
    BY <2>1, <2>3, ConcatProperties, ConcatEmptySeq
  <2>5. QED BY <1>9, <2>4 DEF Read, node, Transit
<1>10. CASE Cancel
  <2>1. /\ queue' = <<>> /\ stream' = "cancelled"
        /\ UNCHANGED <<sent, read, generator, inbox, call>>
    BY <1>10 DEF Cancel, node
  <2>2. QED BY <2>1, TransitStops
<1>11. QED
  BY <1>1, <1>2, <1>3, <1>4, <1>5, <1>6, <1>7, <1>8, <1>9, <1>10
  DEF Next, NodeStep, GeneratorStep, Over

(* Nothing is lost, repeated or swapped between the responses, the generator,
   the queue and the reader: what was read is a beginning of what was sent, and
   all of it at the end. *)
THEOREM ReadsAreSent == Spec => []ReadIsSent
<1>1. DInv /\ Transit => ReadIsSent
  <2> SUFFICES ASSUME DInv, Transit PROVE ReadIsSent
    OBVIOUS
  <2>1. PICK want \in Seq(Chunks) :
            /\ sent = (read \o queue) \o want
            /\ stream \in {"readable", "closed"} => Carries(inbox, want)
    BY DEF Transit
  <2>2. read \in Seq(Chunks) /\ queue \in Seq(Chunks)
    BY DEF DInv, TypeOK
  <2> DEFINE rest == queue \o want
  <2>3. rest \in Seq(Chunks) /\ sent = read \o rest
    <3>1. queue \o want \in Seq(Chunks)
      BY <2>2, ConcatProperties
    <3>2. (read \o queue) \o want = read \o (queue \o want)
      BY <2>2, ConcatAssociative
    <3>3. QED BY <2>1, <3>1, <3>2
  <2> HIDE DEF rest
  <2>4. IsPrefix(read, sent)
    <3>1. Len(read) <= Len(sent)
      BY <2>2, <2>3, ConcatProperties, LenProperties
    <3>2. SubSeq(sent, 1, Len(read)) = SubSeq(read, 1, Len(read))
      BY <2>2, <2>3, SubSeqOfConcat1, SubSeqFull
    <3>3. QED BY <3>1, <3>2 DEF IsPrefix
  <2>5. ASSUME stream = "closed" PROVE read = sent
    <3>1. queue = <<>> /\ inbox = <<>> /\ Carries(<<>>, want)
      BY <2>1, <2>5 DEF DInv, Place, Transit
    <3>2. want = <<>>
      <4>1. PICK f \in [1..Len(want) -> Nat] : Places(f, <<>>, want)
        BY <3>1 DEF Carries
      <4>2. Len(want) \in Nat /\ (Len(want) > 0 => 1 \in 1..Len(want))
        BY LenProperties
      <4>3. ~(1 \in 1..Len(want))
        BY <4>1 DEF Places
      <4>4. QED BY <4>2, <4>3, EmptySeq
    <3>3. QED BY <2>1, <2>2, <3>1, <3>2, ConcatEmptySeq
  <2>6. QED BY <2>4, <2>5 DEF ReadIsSent
<1>2. QED BY InitDInv, NextDInv, TransitInit, TransitStep, <1>1, PTL DEF Spec
-----------------------------------------------------------------------------
(* Why a download comes to an end once the node has stopped sending: a data
   message takes four steps of the generator and one of the reader. *)
GeneratorLeft ==
    CASE generator = "yielded" -> 5 [] generator = "counted" -> 4
      [] generator = "acknowledged" -> 3 [] generator = "waiting" -> 2
      [] generator = "finishing" -> 1 [] OTHER -> 0

DownloadLeft ==
    5 * Len(inbox) + Len(queue)
    + GeneratorLeft
    + (IF call = "open" THEN 1 ELSE 0)
    + (IF stream = "readable" THEN 1 ELSE 0)

DownloadAdvances ==
    \/ messages' = messages + 1 /\ DownloadLeft' = DownloadLeft + 5
    \/ messages' = messages /\ DownloadLeft' < DownloadLeft

LEMMA DownloadLeftIsNat == DInv => DownloadLeft \in Nat
<1> SUFFICES ASSUME DInv PROVE DownloadLeft \in Nat
  OBVIOUS
<1>1. Len(inbox) \in Nat /\ Len(queue) \in Nat
  BY DEF DInv, TypeOK
<1>2. QED BY <1>1 DEF DownloadLeft, GeneratorLeft

(* Nothing is in the queue but during a yield, so failing costs nothing. *)
LEMMA DownloadStepIsProgress ==
    ASSUME DInv, [Next]_vars
    PROVE  UNCHANGED vars \/ DownloadAdvances
<1>t. /\ inbox \in Seq(Messages) /\ queue \in Seq(Chunks)
      /\ Len(inbox) \in Nat /\ Len(queue) \in Nat
  BY DEF DInv, TypeOK
<1>q. generator # "yielded" => queue = <<>>
  BY DEF DInv, Place
<1>1. ASSUME NEW m \in Messages, NodeSends(m) PROVE DownloadAdvances
  <2>1. Len(inbox') = Len(inbox) + 1
    BY <1>t, <1>1 DEF NodeSends
  <2>2. QED BY <1>t, <1>1, <2>1 DEF NodeSends, DownloadLeft, GeneratorLeft, DownloadAdvances
<1>2. CASE CallEnds
  BY <1>t, <1>2 DEF CallEnds, DownloadLeft, GeneratorLeft, DownloadAdvances
<1>3. CASE TakeData
  <2>1. Len(inbox') = Len(inbox) - 1 /\ messages' = messages
    BY <1>t, <1>3 DEF TakeData, node
  <2>2. Len(queue) = 0 /\ Len(queue') \in Nat /\ Len(queue') <= 1
    BY <1>t, <1>q, <1>3 DEF TakeData, Enqueue
  <2>3. /\ GeneratorLeft = 2 /\ GeneratorLeft' = 5
        /\ UNCHANGED <<call, stream>>
    BY <1>3 DEF TakeData, node, GeneratorLeft
  <2>4. QED BY <1>t, <2>1, <2>2, <2>3 DEF DownloadLeft, DownloadAdvances
<1>4. CASE Resume \/ Acknowledge \/ Update \/ TakeEnd
  BY <1>t, <1>4 DEF Resume, Acknowledge, Update, TakeEnd, node, DownloadLeft,
                    GeneratorLeft, DownloadAdvances
<1>5. CASE TakeProof
  <2>1. Len(inbox') = Len(inbox) - 1
    BY <1>t, <1>5 DEF TakeProof
  <2>2. QED BY <1>t, <1>5, <2>1 DEF TakeProof, node, DownloadLeft, GeneratorLeft, DownloadAdvances
<1>6. ASSUME Fail, generator \in {"waiting", "counted", "finishing"},
             UNCHANGED <<node, inbox>>
      PROVE  DownloadAdvances
  <2>1. queue = <<>> /\ queue' = <<>>
    BY <1>q, <1>6 DEF Fail
  <2>2. QED BY <1>t, <1>6, <2>1 DEF Fail, node, DownloadLeft, GeneratorLeft, DownloadAdvances
<1>7. CASE TakeError \/ OwnError
  BY <1>6, <1>7 DEF TakeError, OwnError
<1>8. CASE Validate
  <2>1. CASE Fail
    BY <1>6, <1>8, <2>1 DEF Validate
  <2>2. CASE ~Fail
    BY <1>t, <1>8, <2>2 DEF Validate, node, DownloadLeft, GeneratorLeft, DownloadAdvances
  <2>3. QED BY <2>1, <2>2
<1>9. CASE Read
  <2>1. Len(queue') = Len(queue) - 1
    BY <1>t, <1>9 DEF Read
  <2>2. QED BY <1>t, <1>9, <2>1 DEF Read, node, DownloadLeft, GeneratorLeft, DownloadAdvances
<1>10. CASE Cancel
  <2>1. Len(queue') = 0
    BY <1>10 DEF Cancel
  <2>2. QED BY <1>t, <1>10, <2>1 DEF Cancel, node, DownloadLeft, GeneratorLeft, DownloadAdvances
<1>11. QED BY <1>1, <1>2, <1>3, <1>4, <1>5, <1>7, <1>8, <1>9, <1>10
           DEF Next, NodeStep, GeneratorStep, Over

(* The safety half of StreamEnds, without any bound on the node: a message
   adds at most five steps, and every other step of the node, the generator or
   the reader uses one up, so the generator and the queue of one chunk never
   keep each other busy (FileApi.ts:281-323, createStream.ts:96-106). *)
THEOREM DownloadsRunOut ==
    Spec => [](DownloadLeft \in Nat) /\ [][DownloadAdvances]_vars
<1>1. DInv /\ [Next]_vars => [DownloadAdvances]_vars
  BY DownloadStepIsProgress
<1>2. QED BY <1>1, InitDInv, NextDInv, DownloadLeftIsNat, PTL DEF Spec
=============================================================================
