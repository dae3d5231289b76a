------------------------- MODULE FileStorageProofs -------------------------
(* Proofs about FileStorage.store, for every size of file, of part and of
   chunk. *)
EXTENDS FileStorage, SequenceTheorems, TLAPS

(* Bytes(from, n) is a sequence of n numbers. *)
LEMMA BytesProperties ==
    ASSUME NEW from \in Nat, NEW n \in Nat
    PROVE  /\ Bytes(from, n) \in Seq(Nat)
           /\ Len(Bytes(from, n)) = n
           /\ DOMAIN Bytes(from, n) = 1..n
           /\ \A i \in 1..n : Bytes(from, n)[i] = from + i
  BY DEF Bytes

(* Bytes that follow one another make one run of bytes. *)
LEMMA BytesConcat ==
    ASSUME NEW from \in Nat, NEW m \in Nat, NEW k \in Nat
    PROVE  Bytes(from, m) \o Bytes(from + m, k) = Bytes(from, m + k)
<1> DEFINE s == Bytes(from, m)
           t == Bytes(from + m, k)
           u == Bytes(from, m + k)
<1>0. from + m \in Nat /\ m + k \in Nat
  OBVIOUS
<1>1. /\ s \in Seq(Nat) /\ Len(s) = m /\ \A i \in 1..m : s[i] = from + i
      /\ t \in Seq(Nat) /\ Len(t) = k /\ \A i \in 1..k : t[i] = from + m + i
      /\ u \in Seq(Nat) /\ Len(u) = m + k /\ \A i \in 1..(m + k) : u[i] = from + i
  BY <1>0, BytesProperties
<1> HIDE DEF s, t, u
<1>2. /\ s \o t \in Seq(Nat) /\ Len(s \o t) = m + k
      /\ \A i \in 1..(m + k) : (s \o t)[i] = IF i <= m THEN s[i] ELSE t[i - m]
  BY <1>1, ConcatProperties, ZenonT(40)
<1>3. ASSUME NEW i \in 1..(m + k) PROVE (s \o t)[i] = u[i]
  <2>1. CASE i <= m
    BY <1>1, <1>2, <2>1
  <2>2. CASE i > m
    <3> DEFINE j == i - m
    <3>1. j \in 1..k /\ from + m + j = from + i
      BY <2>2
    <3>2. (s \o t)[i] = t[j]
      BY <1>2, <2>2
    <3>3. u[i] = from + i
      BY <1>1
    <3> HIDE DEF j
    <3>4. t[j] = from + m + j
      BY <1>1, <3>1
    <3>5. QED BY <3>1, <3>2, <3>3, <3>4
  <2>3. i <= m \/ i > m
    OBVIOUS
  <2>4. QED BY <2>1, <2>2, <2>3
<1>4. s \o t = u
  BY <1>1, <1>2, <1>3, SeqEqual
<1>5. QED BY <1>4 DEF s, t, u

(* A run of bytes cut in two gives two runs of bytes. *)
LEMMA BytesCut ==
    ASSUME NEW from \in Nat, NEW n \in Nat, NEW p \in 1..n
    PROVE  /\ SubSeq(Bytes(from, n), 1, p) = Bytes(from, p)
           /\ SubSeq(Bytes(from, n), p + 1, n) = Bytes(from + p, n - p)
<1> DEFINE s == Bytes(from, n)
<1>1. s \in Seq(Nat) /\ Len(s) = n /\ \A i \in 1..n : s[i] = from + i
  BY BytesProperties
<1> HIDE DEF s
<1>2. SubSeq(s, 1, p) = Bytes(from, p)
  <2> DEFINE x == SubSeq(s, 1, p)
             y == Bytes(from, p)
  <2>1. /\ x \in Seq(Nat)
        /\ Len(x) = IF 1 <= p THEN p - 1 + 1 ELSE 0
        /\ \A i \in 1..(p - 1 + 1) : x[i] = s[1 + i - 1]
    <3>1. \A i \in 1..p : s[i] \in Nat
      BY <1>1
    <3>2. QED BY <3>1, SubSeqProperties
  <2>2. y \in Seq(Nat) /\ Len(y) = p /\ \A i \in 1..p : y[i] = from + i
    BY BytesProperties
  <2> HIDE DEF x, y
  <2>3. Len(x) = p /\ \A i \in 1..p : x[i] = y[i]
    BY <1>1, <2>1, <2>2
  <2>4. x = y
    BY <2>1, <2>2, <2>3, SeqEqual
  <2>5. QED BY <2>4 DEF x, y
<1>3. SubSeq(s, p + 1, n) = Bytes(from + p, n - p)
  <2> DEFINE x == SubSeq(s, p + 1, n)
             y == Bytes(from + p, n - p)
  <2>1. /\ x \in Seq(Nat)
        /\ Len(x) = IF p + 1 <= n THEN n - (p + 1) + 1 ELSE 0
        /\ \A i \in 1..(n - (p + 1) + 1) : x[i] = s[(p + 1) + i - 1]
    <3>1. \A i \in (p + 1)..n : s[i] \in Nat
      BY <1>1
    <3>2. QED BY <3>1, SubSeqProperties
  <2>2. /\ y \in Seq(Nat) /\ Len(y) = n - p
        /\ \A i \in 1..(n - p) : y[i] = from + p + i
    <3>1. from + p \in Nat /\ n - p \in Nat
      OBVIOUS
    <3>2. QED BY <3>1, BytesProperties
  <2> HIDE DEF x, y
  <2>3. Len(x) = n - p /\ \A i \in 1..(n - p) : x[i] = y[i]
    BY <1>1, <2>1, <2>2
  <2>4. x = y
    BY <2>1, <2>2, <2>3, SeqEqual
  <2>5. QED BY <2>4 DEF x, y
<1>4. QED BY <1>2, <1>3 DEF s

-----------------------------------------------------------------------------
(* The inductive invariant: while the store runs, the bytes that arrived are
   the stored parts, then the part being stored, then the buffer. *)
Cut == offset + Len(current)

HeldInv ==
    pc # "done" =>
        /\ Cut <= arrived
        /\ buffer = Bytes(Cut, arrived - Cut)
        /\ current = Bytes(offset, Len(current))

EndOfParts ==
    IF parts = <<>> THEN 0
    ELSE parts[Len(parts)].offset + Len(parts[Len(parts)].data)

OffsetInv == pc # "done" => offset = EndOfParts

PathInv ==
    /\ pc \in {"reading", "storingPart", "storingManifest"} => size > PartSize
    /\ pc \in {"collecting", "storingWhole"} => size <= PartSize
    /\ pc \in {"start", "collecting", "storingWhole"} => parts = <<>> /\ offset = 0
    /\ pc \in {"start", "reading", "collecting", "storingManifest"} => current = <<>>
    /\ pc \in {"storingManifest", "storingWhole"} => arrived = total /\ buffer = <<>>
    /\ pc = "start" => arrived = 0
    /\ pc = "storingWhole" => Len(current) = total

(* The part being stored, and the last one stored, may be short only when the
   body has ended and nothing is left. *)
ShortInv ==
    /\ pc = "storingPart" =>
           /\ Len(current) \in 1..PartSize
           /\ Len(current) < PartSize => arrived = total /\ buffer = <<>>
           /\ \A i \in DOMAIN parts : Len(parts[i].data) = PartSize
    /\ pc = "reading" /\ (arrived < total \/ buffer # <<>>) =>
           \A i \in DOMAIN parts : Len(parts[i].data) = PartSize

IInv == /\ TypeOK /\ HeldInv /\ OffsetInv /\ PathInv /\ ShortInv
        /\ PartsTileTheBody /\ OnlyLastPartIsShort /\ FulfilledIsWhole
        /\ HeldIsBounded

LEMMA InitIInv == Init => IInv
  BY EmptySeq, SizesAssumption
  DEF Init, IInv, TypeOK, HeldInv, Cut, Bytes, OffsetInv, EndOfParts, PathInv,
      ShortInv, PartsTileTheBody, OnlyLastPartIsShort, FulfilledIsWhole,
      HeldIsBounded, PartSize

(* A store that ends without storing anything more keeps the invariant. *)
LEMMA RejectKeeps == IInv /\ pc # "done" /\ Reject => IInv'
  BY DEF Reject, inputs, IInv, TypeOK, HeldInv, OffsetInv, PathInv, ShortInv,
         PartsTileTheBody, OnlyLastPartIsShort, FulfilledIsWhole,
         HeldIsBounded, PartSize

(* Bytes that arrive go behind the ones that wait. *)
LEMMA ArriveKeeps ==
    ASSUME IInv, NEW k \in 1..MaxChunk, BodyArrives(k) PROVE IInv'
<1> DEFINE c == Cut
           waiting == arrived - c
           more == waiting + k
<1>1. /\ k \in Nat /\ k > 0 /\ k <= MaxChunk /\ MaxChunk \in Nat
      /\ arrived \in Nat /\ c \in Nat /\ c <= arrived
      /\ waiting \in Nat /\ arrived = c + waiting
      /\ more \in Nat /\ more = waiting + k
      /\ buffer = Bytes(c, waiting)
      /\ buffer \in Seq(Nat) /\ current \in Seq(Nat) /\ Len(current) \in Nat
  BY SizesAssumption DEF BodyArrives, IInv, HeldInv, TypeOK, Cut
<1>2. /\ UNCHANGED <<size, total, maxBufferSize, PartSize>>
      /\ UNCHANGED <<pc, current, offset, parts, manifest, outcome>>
      /\ arrived' = arrived + k /\ arrived' \in 0..total /\ Cut' = c
      /\ EndOfParts' = EndOfParts
      /\ buffer' = buffer \o Bytes(arrived, k)
      /\ arrived' - c = more /\ c <= arrived'
  BY <1>1 DEF BodyArrives, inputs, PartSize, IInv, TypeOK, Cut, EndOfParts
<1>3. /\ pc \in {"reading", "collecting"}
      /\ pc = "reading" => Len(buffer) < PartSize /\ Len(current) = 0
      /\ pc \in {"reading", "collecting"} => PartSize \in Nat
  BY SizesAssumption DEF BodyArrives, IInv, PathInv, TypeOK
<1> HIDE DEF c, waiting, more
<1>4. buffer' = Bytes(c, more)
  <2>1. Bytes(c, waiting) \o Bytes(arrived, k) = Bytes(c, more)
    <3>1. Bytes(c, waiting) \o Bytes(c + waiting, k) = Bytes(c, waiting + k)
      <4>1. c \in Nat /\ waiting \in Nat /\ k \in Nat
        BY <1>1
      <4>2. QED BY ONLY <4>1, BytesConcat, Zenon
    <3>2. QED BY <1>1, <3>1
  <2>2. QED BY <1>1, <1>2, <2>1
<1>5. /\ buffer' \in Seq(Nat) /\ Len(buffer') = more
      /\ Len(buffer) = waiting
  BY <1>1, <1>4, BytesProperties
<1>7. HeldInv'
  <2>1. current' = Bytes(offset', Len(current'))
    BY <1>2, <1>3 DEF IInv, HeldInv
  <2>2. QED BY <1>2, <1>4, <2>1 DEF HeldInv
<1>8. TypeOK'
  BY <1>2, <1>5 DEF IInv, TypeOK
<1>9. OffsetInv' /\ PathInv'
  BY <1>2, <1>3 DEF IInv, OffsetInv, PathInv
<1>10. arrived < total /\ arrived # total
  BY <1>1, <1>2 DEF IInv, TypeOK
<1>11. ShortInv' /\ OnlyLastPartIsShort'
  <2>1. \A i \in DOMAIN parts : Len(parts[i].data) = PartSize
    BY <1>3, <1>10 DEF IInv, ShortInv, PathInv
  <2>2. ShortInv'
    BY <1>2, <1>3, <2>1 DEF ShortInv
  <2>3. PartSize \in 1..PartSize /\ ~(PartSize < PartSize)
    BY <1>3, SizesAssumption DEF IInv, TypeOK
  <2>4. OnlyLastPartIsShort'
    BY <1>2, <2>1, <2>3 DEF OnlyLastPartIsShort
  <2>5. QED BY <2>2, <2>4
<1>12. PartsTileTheBody' /\ FulfilledIsWhole'
  BY <1>2, <1>3 DEF IInv, TypeOK, PartsTileTheBody, FulfilledIsWhole
<1>13. HeldIsBounded'
  <2> DEFINE p == PartSize
             b == Len(buffer')
             d == Len(current')
  <2>1. CASE pc = "reading"
    <3>1. d = 0 /\ b = waiting + k /\ waiting < p /\ p \in Nat /\ PartSize' = p
      BY <1>1, <1>2, <1>3, <1>5, <2>1
    <3> HIDE DEF p, b, d
    <3>2. b + d <= (p - 1) + MaxChunk
      BY <1>1, <3>1
    <3>3. QED BY <1>2, <3>2 DEF HeldIsBounded, p, b, d
  <2>2. CASE pc = "collecting"
    <3>1. size <= PartSize /\ size \in Nat /\ PartSize \in Nat
      BY <1>3, <2>2 DEF IInv, PathInv, TypeOK
    <3>2. QED BY <1>2, <3>1 DEF HeldIsBounded
  <2>3. QED BY <1>3, <2>1, <2>2
<1>14. QED BY <1>7, <1>8, <1>9, <1>11, <1>12, <1>13 DEF IInv

(* The size of a part is a positive number once the store has started. *)
LEMMA PartSizeIsPositive ==
    IInv /\ pc \notin {"start", "done"} => PartSize \in Nat /\ PartSize > 0
  BY SizesAssumption DEF IInv, TypeOK

(* An accepted store starts with nothing read. *)
LEMMA StartKeeps == IInv /\ Start => IInv'
  BY SizesAssumption
  DEF Start, inputs, IInv, TypeOK, HeldInv, Cut, OffsetInv, EndOfParts, PathInv,
      ShortInv, PartsTileTheBody, OnlyLastPartIsShort, FulfilledIsWhole,
      HeldIsBounded, PartSize

(* The part cut off is the run of bytes at the offset, and the rest follows. *)
LEMMA CutKeeps == ASSUME IInv, CutPart PROVE IInv'
<1> DEFINE p == PartSize
           w == arrived - offset
<1>1. /\ offset \in Nat /\ arrived \in Nat /\ current = <<>> /\ size > p
      /\ p \in Nat /\ p > 0
      /\ pc = "reading" /\ Len(buffer) >= p
  BY PartSizeIsPositive DEF CutPart, IInv, TypeOK, PathInv
<1>2. w \in Nat /\ buffer = Bytes(offset, w) /\ Len(buffer) = w
  <2>1. Cut = offset
    BY <1>1 DEF Cut
  <2>2. w \in Nat /\ buffer = Bytes(offset, w)
    BY <1>1, <2>1 DEF IInv, HeldInv
  <2>3. QED BY <1>1, <2>2, BytesProperties
<1>3. p \in 1..w /\ w - p \in Nat /\ offset + p \in Nat
  BY <1>1, <1>2
<1>4. /\ UNCHANGED <<size, total, maxBufferSize, PartSize>>
      /\ UNCHANGED <<arrived, offset, parts, manifest, outcome>>
      /\ EndOfParts' = EndOfParts
      /\ pc' = "storingPart"
      /\ current' = SubSeq(buffer, 1, p) /\ buffer' = SubSeq(buffer, p + 1, w)
  BY <1>2 DEF CutPart, inputs, PartSize, EndOfParts
<1> HIDE DEF p
<1>5. current' = Bytes(offset, p) /\ buffer' = Bytes(offset + p, w - p)
  BY <1>1, <1>2, <1>3, <1>4, BytesCut
<1>6. /\ current' \in Seq(Nat) /\ Len(current') = p
      /\ buffer' \in Seq(Nat) /\ Len(buffer') = w - p
  BY <1>1, <1>3, <1>5, BytesProperties
<1>7. HeldInv'
  <2>1. /\ Cut' = offset + p /\ Cut' <= arrived'
        /\ arrived' - Cut' = w - p
    BY <1>1, <1>2, <1>3, <1>4, <1>6 DEF Cut
  <2>2. QED BY <1>4, <1>5, <1>6, <2>1 DEF HeldInv
<1>8. TypeOK'
  BY <1>1, <1>4, <1>6 DEF IInv, TypeOK
<1>9. OffsetInv' /\ PathInv'
  BY <1>1, <1>4 DEF IInv, OffsetInv, PathInv, p
<1>10. ShortInv' /\ OnlyLastPartIsShort'
  <2>1. \A i \in DOMAIN parts : Len(parts[i].data) = p
    <3>1. buffer # <<>>
      BY <1>1
    <3>2. QED BY <1>1, <3>1 DEF IInv, ShortInv, p
  <2>2. p \in 1..p /\ ~(p < p)
    BY <1>1
  <2>3. PartSize' = p
    BY <1>4 DEF p
  <2>4. QED BY <1>4, <1>6, <2>1, <2>2, <2>3 DEF ShortInv, OnlyLastPartIsShort
<1>11. PartsTileTheBody' /\ FulfilledIsWhole'
  BY <1>1, <1>4 DEF IInv, TypeOK, PartsTileTheBody, FulfilledIsWhole
<1>12. HeldIsBounded'
  <2>1. Len(buffer') + Len(current') = Len(buffer) + Len(current)
    BY <1>1, <1>2, <1>3, <1>6
  <2>2. QED BY <1>4, <2>1 DEF IInv, HeldIsBounded
<1>13. QED BY <1>7, <1>8, <1>9, <1>10, <1>11, <1>12 DEF IInv

(* The last part is what is left. *)
LEMMA FlushKeeps == ASSUME IInv, FlushPart PROVE IInv'
<1> DEFINE p == PartSize
           w == arrived - offset
<1>1. /\ offset \in Nat /\ arrived \in Nat /\ current = <<>> /\ size > p
      /\ p \in Nat /\ p > 0 /\ buffer \in Seq(Nat)
      /\ pc = "reading" /\ Len(buffer) \in 1..(p - 1) /\ arrived = total
  BY PartSizeIsPositive DEF FlushPart, IInv, TypeOK, PathInv
<1>2. w \in Nat /\ buffer = Bytes(offset, w) /\ Len(buffer) = w
  <2>1. Cut = offset
    BY <1>1 DEF Cut
  <2>2. w \in Nat /\ buffer = Bytes(offset, w)
    BY <1>1, <2>1 DEF IInv, HeldInv
  <2>3. QED BY <1>1, <2>2, BytesProperties
<1>3. /\ UNCHANGED <<size, total, maxBufferSize, PartSize>>
      /\ UNCHANGED <<arrived, offset, parts, manifest, outcome>>
      /\ EndOfParts' = EndOfParts
      /\ pc' = "storingPart"
      /\ current' = buffer /\ buffer' = <<>>
  BY DEF FlushPart, inputs, PartSize, EndOfParts
<1>4. HeldInv'
  <2>1. Cut' = arrived' /\ Cut' <= arrived' /\ arrived' - Cut' = 0
    BY <1>1, <1>2, <1>3 DEF Cut
  <2>2. buffer' = Bytes(Cut', 0)
    BY <1>3 DEF Bytes
  <2>3. current' = Bytes(offset', Len(current'))
    BY <1>2, <1>3
  <2>4. QED BY <2>1, <2>2, <2>3 DEF HeldInv
<1>5. TypeOK'
  BY <1>1, <1>3, EmptySeq DEF IInv, TypeOK
<1>6. OffsetInv' /\ PathInv'
  BY <1>1, <1>3 DEF IInv, OffsetInv, PathInv
<1> HIDE DEF p
<1>7. ShortInv' /\ OnlyLastPartIsShort'
  <2>1. \A i \in DOMAIN parts : Len(parts[i].data) = p
    <3>1. buffer # <<>>
      BY <1>1
    <3>2. QED BY <1>1, <3>1 DEF IInv, ShortInv, p
  <2>2. p \in 1..p /\ ~(p < p) /\ Len(current') \in 1..p
    BY <1>1, <1>3
  <2>3. PartSize' = p
    BY <1>3 DEF p
  <2>4. QED BY <1>1, <1>3, <2>1, <2>2, <2>3 DEF ShortInv, OnlyLastPartIsShort
<1>8. PartsTileTheBody' /\ FulfilledIsWhole'
  BY <1>1, <1>3 DEF IInv, TypeOK, PartsTileTheBody, FulfilledIsWhole
<1>9. HeldIsBounded'
  <2>1. Len(buffer') + Len(current') = Len(buffer) + Len(current)
    BY <1>1, <1>3
  <2>2. QED BY <1>3, <2>1 DEF IInv, HeldIsBounded
<1>10. QED BY <1>4, <1>5, <1>6, <1>7, <1>8, <1>9 DEF IInv

(* A stored part takes its place behind the ones before it. *)
LEMMA PartStoredKeeps == ASSUME IInv, PartStored PROVE IInv'
<1> DEFINE p == PartSize
           new == Part(offset, current)
           n == Len(parts)
<1>1. /\ offset \in Nat /\ arrived \in Nat /\ current \in Seq(Nat)
      /\ Len(current) \in 1..p /\ size > p
      /\ p \in Nat /\ p > 0 /\ buffer \in Seq(Nat)
      /\ pc = "storingPart" /\ parts \in Seq(PartRecord) /\ n \in Nat
      /\ Len(current) < p => arrived = total /\ buffer = <<>>
      /\ \A i \in DOMAIN parts : Len(parts[i].data) = p
      /\ DOMAIN parts = 1..n
      /\ current = Bytes(offset, Len(current))
      /\ offset = EndOfParts
  BY PartSizeIsPositive
  DEF PartStored, IInv, TypeOK, PathInv, ShortInv, HeldInv, OffsetInv
<1>2. /\ UNCHANGED <<size, total, maxBufferSize, PartSize>>
      /\ UNCHANGED <<arrived, buffer, manifest, outcome>>
      /\ pc' = "reading" /\ current' = <<>>
      /\ offset' = offset + Len(current)
      /\ parts' = Append(parts, new)
  BY DEF PartStored, inputs, PartSize
<1>3. new \in PartRecord /\ new.offset = offset /\ new.data = current
  BY <1>1 DEF Part, PartRecord
<1> HIDE DEF p, new
<1>4. /\ parts' \in Seq(PartRecord) /\ Len(parts') = n + 1
      /\ DOMAIN parts' = 1..(n + 1) /\ parts'[n + 1] = new
      /\ \A i \in 1..n : parts'[i] = parts[i]
      /\ parts' # <<>>
  <2>1. /\ parts' \in Seq(PartRecord) /\ Len(parts') = n + 1
        /\ parts'[n + 1] = new
        /\ \A i \in 1..n : parts'[i] = parts[i]
    BY <1>1, <1>2, <1>3, AppendProperties
  <2>2. DOMAIN parts' = 1..(n + 1)
    BY <2>1
  <2>3. parts' # <<>>
    BY <1>1, <2>1
  <2>4. QED BY <2>1, <2>2, <2>3
<1>5. HeldInv'
  <2>1. Cut' = Cut /\ Len(current') = 0
    BY <1>1, <1>2 DEF Cut
  <2>2. current' = Bytes(offset', 0)
    BY <1>2 DEF Bytes
  <2>3. QED BY <1>1, <1>2, <2>1, <2>2 DEF IInv, HeldInv
<1>6. TypeOK'
  BY <1>1, <1>2, <1>4, EmptySeq DEF IInv, TypeOK
<1>7. OffsetInv' /\ PathInv'
  <2>1. EndOfParts' = offset + Len(current)
    BY <1>2, <1>3, <1>4 DEF EndOfParts
  <2>2. PathInv'
    BY <1>1, <1>2 DEF PathInv, p
  <2>3. QED BY <1>2, <2>1, <2>2 DEF OffsetInv
<1>8. ShortInv'
  <2>1. ASSUME arrived < total \/ buffer # <<>>, NEW i \in 1..(n + 1)
        PROVE  Len(parts'[i].data) = p
    <3>1. Len(current) = p
      BY <1>1, <2>1 DEF IInv, TypeOK
    <3>2. CASE i \in 1..n
      BY <1>1, <1>4, <3>2
    <3>3. CASE i = n + 1
      BY <1>3, <1>4, <3>1, <3>3
    <3>4. i \in 1..n \/ i = n + 1
      BY <1>1
    <3>5. QED BY <3>2, <3>3, <3>4
  <2>2. QED BY <1>2, <1>4, <2>1 DEF ShortInv, p
<1>9. OnlyLastPartIsShort'
  <2>1. ASSUME NEW i \in 1..(n + 1)
        PROVE  /\ Len(parts'[i].data) \in 1..p
               /\ Len(parts'[i].data) < p => i = n + 1 /\ arrived = total
    <3>1. CASE i \in 1..n
      <4>1. Len(parts'[i].data) = p
        BY <1>1, <1>4, <3>1
      <4>2. QED BY <1>1, <4>1
    <3>2. CASE i = n + 1
      BY <1>1, <1>3, <1>4, <3>2
    <3>3. i \in 1..n \/ i = n + 1
      BY <1>1
    <3>4. QED BY <3>1, <3>2, <3>3
  <2>2. QED BY <1>2, <1>4, <2>1 DEF OnlyLastPartIsShort, p
<1>10. PartsTileTheBody'
  <2>1. ASSUME NEW i \in 1..(n + 1)
        PROVE  /\ parts'[i].data = Bytes(parts'[i].offset, Len(parts'[i].data))
               /\ parts'[i].offset =
                     IF i = 1 THEN 0
                     ELSE parts'[i - 1].offset + Len(parts'[i - 1].data)
    <3>1. CASE i \in 1..n
      <4>1. parts'[i] = parts[i] /\ (i # 1 => parts'[i - 1] = parts[i - 1])
        <5>1. i # 1 => i - 1 \in 1..n
          BY <1>1, <3>1
        <5>2. QED BY <1>4, <3>1, <5>1
      <4>2. QED BY <1>1, <3>1, <4>1 DEF IInv, PartsTileTheBody
    <3>2. CASE i = n + 1
      <4>1. parts'[i].data = Bytes(parts'[i].offset, Len(parts'[i].data))
        BY <1>1, <1>3, <1>4, <3>2
      <4>2. CASE n = 0
        BY <1>1, <1>3, <1>4, <3>2, <4>2 DEF EndOfParts
      <4>3. CASE n > 0
        <5>1. parts # <<>> /\ i - 1 = n /\ i # 1 /\ n \in 1..n
          BY <1>1, <3>2, <4>3
        <5>2. parts'[i - 1] = parts[n] /\ parts'[i].offset = EndOfParts
          BY <1>1, <1>3, <1>4, <3>2, <5>1
        <5>3. QED BY <4>1, <5>1, <5>2 DEF EndOfParts
      <4>4. QED BY <1>1, <4>1, <4>2, <4>3
    <3>3. i \in 1..n \/ i = n + 1
      BY <1>1
    <3>4. QED BY <3>1, <3>2, <3>3
  <2>2. QED BY <1>4, <2>1 DEF PartsTileTheBody
<1>11. FulfilledIsWhole'
  BY <1>1, <1>2 DEF IInv, TypeOK, FulfilledIsWhole
<1>12. HeldIsBounded'
  <2> DEFINE b == Len(buffer)
             d == Len(current)
             r == (PartSize - 1) + MaxChunk
  <2>1. b \in Nat /\ d \in Nat /\ r \in Int /\ Len(buffer') = b
        /\ Len(current') = 0 /\ r' = r
    BY <1>1, <1>2, SizesAssumption DEF p
  <2>2. size > PartSize /\ MaxChunk > 0 => b + d <= r
    BY DEF IInv, HeldIsBounded
  <2> HIDE DEF b, d, r
  <2>3. size > PartSize /\ MaxChunk > 0 => b + 0 <= r
    BY <2>1, <2>2
  <2>4. QED BY <1>2, <2>1, <2>3 DEF HeldIsBounded, r
<1>13. QED BY <1>5, <1>6, <1>7, <1>8, <1>9, <1>10, <1>11, <1>12 DEF IInv

(* Nothing is left when the parts have ended. *)
LEMMA EndKeeps == IInv /\ EndOfBody => IInv'
  BY DEF EndOfBody, inputs, IInv, TypeOK, HeldInv, Cut, OffsetInv, EndOfParts,
         PathInv, ShortInv, PartsTileTheBody, OnlyLastPartIsShort,
         FulfilledIsWhole, HeldIsBounded, PartSize

(* The manifest lists parts that end where the body ends. *)
LEMMA ManifestKeeps == ASSUME IInv, ManifestStored PROVE IInv'
<1>1. EndOfParts = total
  <2>1. /\ pc = "storingManifest" /\ arrived = total /\ buffer = <<>>
        /\ current = <<>> /\ offset \in Nat /\ arrived \in Nat
        /\ offset = EndOfParts
    BY DEF ManifestStored, IInv, TypeOK, PathInv, OffsetInv
  <2>2. Cut = offset
    BY <2>1 DEF Cut
  <2>3. arrived - offset \in Nat /\ <<>> = Bytes(offset, arrived - offset)
    BY <2>1, <2>2 DEF IInv, HeldInv
  <2>4. Len(Bytes(offset, arrived - offset)) = arrived - offset
    BY <2>1, <2>3, BytesProperties
  <2>5. arrived - offset = 0
    BY <2>3, <2>4
  <2>6. QED BY <2>1, <2>5
<1>2. /\ UNCHANGED <<size, total, maxBufferSize, PartSize>>
      /\ UNCHANGED <<arrived, buffer, current, offset, parts, EndOfParts>>
      /\ pc = "storingManifest" /\ pc' = "done" /\ outcome' = "fulfilled"
      /\ manifest'.parts = parts /\ manifest'.totalSize = size
  BY DEF ManifestStored, inputs, PartSize, EndOfParts
<1>3. FulfilledIsWhole'
  <2>1. size = total /\ size > PartSize => parts # <<>>
    <3>1. PartSize \in Nat /\ PartSize > 0 /\ total \in Nat
      BY <1>2, PartSizeIsPositive DEF IInv, TypeOK
    <3>2. parts = <<>> => total = 0
      BY <1>1 DEF EndOfParts
    <3>3. QED BY <3>1, <3>2
  <2>2. QED BY <1>1, <1>2, <2>1 DEF FulfilledIsWhole, EndOfParts
<1>4. TypeOK' /\ HeldInv' /\ OffsetInv' /\ PathInv' /\ ShortInv'
  BY <1>2 DEF IInv, TypeOK, HeldInv, OffsetInv, PathInv, ShortInv
<1>5. PartsTileTheBody' /\ OnlyLastPartIsShort' /\ HeldIsBounded'
  BY <1>2 DEF IInv, PartsTileTheBody, OnlyLastPartIsShort, HeldIsBounded
<1>6. QED BY <1>3, <1>4, <1>5 DEF IInv

(* A small file that has been collected is its body. *)
LEMMA CollectedKeeps == ASSUME IInv, BodyCollected PROVE IInv'
<1>1. /\ pc = "collecting" /\ arrived = total /\ offset = 0 /\ current = <<>>
      /\ parts = <<>> /\ buffer \in Seq(Nat) /\ total \in Nat
      /\ size <= PartSize /\ PartSize \in Nat /\ size \in Nat
  BY PartSizeIsPositive DEF BodyCollected, IInv, TypeOK, PathInv
<1>2. buffer = Bytes(0, total) /\ Len(buffer) = total
  <2>1. Cut = 0 /\ total - 0 = total
    BY <1>1 DEF Cut
  <2>2. buffer = Bytes(0, total)
    BY <1>1, <2>1 DEF IInv, HeldInv
  <2>3. QED BY <1>1, <2>2, BytesProperties
<1>3. /\ UNCHANGED <<size, total, maxBufferSize, PartSize>>
      /\ UNCHANGED <<arrived, offset, parts, manifest, outcome, EndOfParts>>
      /\ pc' = "storingWhole" /\ current' = buffer /\ buffer' = <<>>
  BY DEF BodyCollected, inputs, PartSize, EndOfParts
<1>4. HeldInv'
  <2>1. Cut' = arrived' /\ Cut' <= arrived' /\ arrived' - Cut' = 0
    BY <1>1, <1>2, <1>3 DEF Cut
  <2>2. buffer' = Bytes(Cut', 0)
    BY <1>3 DEF Bytes
  <2>3. current' = Bytes(offset', Len(current'))
    BY <1>1, <1>2, <1>3
  <2>4. QED BY <2>1, <2>2, <2>3 DEF HeldInv
<1>5. TypeOK'
  BY <1>1, <1>3, EmptySeq DEF IInv, TypeOK
<1>6. OffsetInv' /\ PathInv' /\ ShortInv'
  BY <1>1, <1>2, <1>3 DEF IInv, OffsetInv, PathInv, ShortInv
<1>7. PartsTileTheBody' /\ FulfilledIsWhole'
  BY <1>1, <1>3 DEF IInv, TypeOK, PartsTileTheBody, FulfilledIsWhole
<1>8. OnlyLastPartIsShort' /\ HeldIsBounded'
  BY <1>1, <1>3 DEF OnlyLastPartIsShort, HeldIsBounded
<1>9. QED BY <1>4, <1>5, <1>6, <1>7, <1>8 DEF IInv

(* A small file is one part, from the first byte to the last. *)
LEMMA WholeKeeps == ASSUME IInv, WholeStored PROVE IInv'
<1> DEFINE new == Part(0, current)
<1>1. /\ pc = "storingWhole" /\ offset = 0 /\ parts = <<>>
      /\ Len(current) = total /\ current = Bytes(0, total)
      /\ current \in Seq(Nat) /\ total \in Nat
      /\ size <= PartSize /\ PartSize \in Nat /\ size \in Nat
  BY PartSizeIsPositive DEF WholeStored, IInv, TypeOK, PathInv, HeldInv
<1>2. /\ UNCHANGED <<size, total, maxBufferSize, PartSize>>
      /\ UNCHANGED <<arrived, buffer, offset, manifest>>
      /\ pc' = "done" /\ outcome' = "fulfilled" /\ current' = <<>>
      /\ parts' = Append(parts, new)
  BY DEF WholeStored, inputs, PartSize
<1>3. new \in PartRecord /\ new.offset = 0 /\ new.data = current
  BY <1>1 DEF Part, PartRecord
<1> HIDE DEF new
<1>4. /\ parts' \in Seq(PartRecord) /\ Len(parts') = 1 /\ DOMAIN parts' = 1..1
      /\ parts'[1] = new /\ parts' # <<>>
  BY <1>1, <1>2, <1>3
<1>5. TypeOK'
  BY <1>1, <1>2, <1>4, EmptySeq DEF IInv, TypeOK
<1>6. HeldInv' /\ OffsetInv' /\ PathInv' /\ ShortInv'
  BY <1>2 DEF HeldInv, OffsetInv, PathInv, ShortInv
<1>7. PartsTileTheBody'
  BY <1>1, <1>3, <1>4 DEF PartsTileTheBody
<1>8. FulfilledIsWhole'
  BY <1>1, <1>2, <1>3, <1>4 DEF FulfilledIsWhole
<1>9. OnlyLastPartIsShort' /\ HeldIsBounded'
  BY <1>1, <1>2 DEF OnlyLastPartIsShort, HeldIsBounded
<1>10. QED BY <1>5, <1>6, <1>7, <1>8, <1>9 DEF IInv

-----------------------------------------------------------------------------
(* The invariant holds in every reachable state. *)
LEMMA Invariant == Spec => []IInv
<1>1. ASSUME IInv, [Next]_vars PROVE IInv'
  <2>1. CASE Start
    BY <1>1, <2>1, StartKeeps
  <2>2. CASE StartThrows \/ PieceSizeThrows \/ StorePieceRejects \/ BodyFails
    <3>1. pc # "done" /\ Reject
      BY <2>2 DEF StartThrows, PieceSizeThrows, StorePieceRejects, BodyFails
    <3>2. QED BY <1>1, <3>1, RejectKeeps
  <2>3. CASE \E k \in 1..MaxChunk : BodyArrives(k)
    BY <1>1, <2>3, ArriveKeeps
  <2>4. CASE CutPart
    BY <1>1, <2>4, CutKeeps
  <2>5. CASE FlushPart
    BY <1>1, <2>5, FlushKeeps
  <2>6. CASE PartStored
    BY <1>1, <2>6, PartStoredKeeps
  <2>7. CASE EndOfBody
    BY <1>1, <2>7, EndKeeps
  <2>8. CASE ManifestStored
    BY <1>1, <2>8, ManifestKeeps
  <2>9. CASE BodyCollected
    BY <1>1, <2>9, CollectedKeeps
  <2>10. CASE WholeStored
    BY <1>1, <2>10, WholeKeeps
  <2>11. CASE UNCHANGED vars
    BY <1>1, <2>11
    DEF vars, inputs, IInv, TypeOK, HeldInv, Cut, OffsetInv, EndOfParts, PathInv,
        ShortInv, PartsTileTheBody, OnlyLastPartIsShort, FulfilledIsWhole,
        HeldIsBounded, PartSize
  <2>12. QED
    BY <1>1, <2>1, <2>2, <2>3, <2>4, <2>5, <2>6, <2>7, <2>8, <2>9, <2>10, <2>11
    DEF Next, Step, Settled
<1>2. QED BY <1>1, InitIInv, PTL DEF Spec

(* The types of a store, whatever size was declared and whatever arrives. *)
THEOREM TypeCorrect == Spec => []TypeOK
<1>1. IInv => TypeOK
  BY DEF IInv
<1>2. QED BY <1>1, Invariant, PTL

(* Whatever the sizes of the chunks and of the parts, the parts of a file hold
   its bytes, each at its offset, without a gap or an overlap. *)
THEOREM PartsTile == Spec => []PartsTileTheBody
<1>1. IInv => PartsTileTheBody
  BY DEF IInv
<1>2. QED BY <1>1, Invariant, PTL

(* Only the last part of a large file is shorter than the part size. *)
THEOREM ShortPartIsLast == Spec => []OnlyLastPartIsShort
<1>1. IInv => OnlyLastPartIsShort
  BY DEF IInv
<1>2. QED BY <1>1, Invariant, PTL

(* A store that resolves has stored the body to its last byte. *)
THEOREM StoredWhole == Spec => []FulfilledIsWhole
<1>1. IInv => FulfilledIsWhole
  BY DEF IInv
<1>2. QED BY <1>1, Invariant, PTL

(* A large file is never held whole: at most a part and a chunk are. *)
THEOREM BoundedMemory == Spec => []HeldIsBounded
<1>1. IInv => HeldIsBounded
  BY DEF IInv
<1>2. QED BY <1>1, Invariant, PTL
-----------------------------------------------------------------------------
(* Why a store comes to an end: a byte is taken from the body once, goes from
   the buffer into one part, and from there into the cluster. *)
StagesLeft ==
    CASE pc = "start" -> 3
      [] pc \in {"reading", "storingPart", "collecting"} -> 2
      [] pc \in {"storingManifest", "storingWhole"} -> 1
      [] OTHER -> 0

StoreLeft == 3 * (total - arrived) + 2 * Len(buffer) + Len(current) + StagesLeft

LEMMA StoreLeftIsNat == IInv => StoreLeft \in Nat
<1> SUFFICES ASSUME IInv PROVE StoreLeft \in Nat
  OBVIOUS
<1>1. /\ total - arrived \in Nat /\ Len(buffer) \in Nat /\ Len(current) \in Nat
  BY DEF IInv, TypeOK
<1>2. QED BY <1>1 DEF StoreLeft, StagesLeft

LEMMA StoreStepIsProgress ==
    ASSUME IInv, [Next]_vars
    PROVE  UNCHANGED vars \/ StoreLeft' < StoreLeft
<1>t. /\ total \in Nat /\ arrived \in Nat /\ arrived <= total
      /\ Len(buffer) \in Nat /\ Len(current) \in Nat
      /\ buffer \in Seq(Nat) /\ current \in Seq(Nat)
  BY DEF IInv, TypeOK
<1>s. StagesLeft \in 0..3
  BY DEF StagesLeft
<1>1. CASE Start
  BY <1>t, <1>1 DEF Start, inputs, StoreLeft, StagesLeft
<1>2. CASE StartThrows \/ PieceSizeThrows \/ StorePieceRejects \/ BodyFails
  <2>1. Reject /\ StagesLeft > 0 /\ StagesLeft' = 0
    BY <1>2 DEF StartThrows, PieceSizeThrows, StorePieceRejects, BodyFails, Reject,
                StagesLeft
  <2>2. QED BY <1>t, <1>s, <2>1 DEF Reject, inputs, StoreLeft
<1>3. ASSUME NEW k \in 1..MaxChunk, BodyArrives(k) PROVE StoreLeft' < StoreLeft
  <2>1. k \in Nat /\ k > 0 /\ arrived + k <= total
    BY <1>3, SizesAssumption DEF BodyArrives
  <2>2. Len(buffer') = Len(buffer) + k
    <3>1. Bytes(arrived, k) \in Seq(Nat) /\ Len(Bytes(arrived, k)) = k
      BY <1>t, <2>1, BytesProperties
    <3>2. buffer' = buffer \o Bytes(arrived, k)
      BY <1>3 DEF BodyArrives
    <3>3. QED BY <1>t, <2>1, <3>1, <3>2, ConcatProperties
  <2>3. arrived' = arrived + k /\ UNCHANGED <<total, current, StagesLeft>>
    BY <1>3 DEF BodyArrives, inputs, StagesLeft
  <2>4. QED BY <1>t, <1>s, <2>1, <2>2, <2>3 DEF StoreLeft
<1>4. CASE CutPart
  <2>1. PartSize \in Nat /\ PartSize > 0 /\ current = <<>>
    BY <1>4, PartSizeIsPositive DEF CutPart, IInv, PathInv
  <2>2. /\ Len(current') = PartSize
        /\ Len(buffer') = Len(buffer) - PartSize
    BY <1>t, <1>4, <2>1 DEF CutPart
  <2>3. Len(current) = 0 /\ UNCHANGED <<total, arrived, StagesLeft>>
    BY <1>4, <2>1 DEF CutPart, inputs, StagesLeft
  <2>4. QED BY <1>t, <1>s, <2>1, <2>2, <2>3 DEF StoreLeft
<1>5. CASE FlushPart
  <2>1. Len(buffer) > 0 /\ current = <<>> /\ Len(buffer') = 0
    BY <1>t, <1>5, PartSizeIsPositive DEF FlushPart, IInv, PathInv
  <2>2. QED BY <1>t, <1>5, <2>1 DEF FlushPart, inputs, StoreLeft, StagesLeft
<1>6. CASE PartStored
  <2>1. Len(current) > 0 /\ Len(current') = 0
    BY <1>t, <1>6, PartSizeIsPositive DEF PartStored, IInv, ShortInv
  <2>2. QED BY <1>t, <1>6, <2>1 DEF PartStored, inputs, StoreLeft, StagesLeft
<1>7. CASE EndOfBody
  BY <1>t, <1>7 DEF EndOfBody, inputs, StoreLeft, StagesLeft
<1>8. CASE ManifestStored
  BY <1>t, <1>8 DEF ManifestStored, inputs, StoreLeft, StagesLeft
<1>9. CASE BodyCollected
  <2>1. current = <<>> /\ Len(buffer') = 0
    BY <1>9 DEF BodyCollected, IInv, PathInv
  <2>2. QED BY <1>t, <1>9, <2>1 DEF BodyCollected, inputs, StoreLeft, StagesLeft
<1>10. CASE WholeStored
  <2>1. Len(current') = 0
    BY <1>10 DEF WholeStored
  <2>2. QED BY <1>t, <1>10, <2>1 DEF WholeStored, inputs, StoreLeft, StagesLeft
<1>11. QED BY <1>1, <1>2, <1>3, <1>4, <1>5, <1>6, <1>7, <1>8, <1>9, <1>10
           DEF Next, Step, Settled

(* The safety half of StoreSettles, for every size of body, part and chunk:
   each step of a store moves bytes on or ends it, so that no sequence of
   chunk and part sizes makes the transform and the loop over the parts wait
   for each other for ever. *)
THEOREM FileStoresRunOut ==
    Spec => [](StoreLeft \in Nat) /\ [][StoreLeft' < StoreLeft]_vars
<1>1. IInv /\ [Next]_vars => [StoreLeft' < StoreLeft]_vars
  BY StoreStepIsProgress
<1>2. QED BY <1>1, Invariant, StoreLeftIsNat, PTL DEF Spec
=============================================================================
