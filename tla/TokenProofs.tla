----------------------------- MODULE TokenProofs -----------------------------
(***************************************************************************)
(* Theorems of WireMessages and AccessToken.                               *)
(***************************************************************************)
EXTENDS AccessToken, SequenceTheorems, WellFoundedInduction, TLAPS

(* The recursion through the messages inside a message, and through the links
   of a chain, is closed, as a configuration does it: a message of some depth is
   written, read and checked as any other, whatever it is inside of.  And None,
   the absent message, is no message. *)
Closed ==
    /\ \A d \in Nat : \A T \in Types : \A m :
           /\ IsNested(T, m, d) <=> IsMessage(T, m, d)
           /\ IsMessage(T, m, d) =>
                  /\ m # None
                  /\ Encode(T, m) = Write(T, m)
                  /\ Decode(T, Create(T), Write(T, m)) = FromBinary(T, Write(T, m))
    /\ \A d \in Nat : \A token :
           IsMessage("AuthToken", token, d) =>
               /\ \A n \in Nat : \A strict \in BOOLEAN :
                      PrevHolds(token, n, strict) <=> ChainHolds(token, n, strict)
               /\ \A name \in Restrictions :
                      PrevMentions(token, name) <=> Mentions(token, name)

(* A message that is written and read is the same again. *)
Survives(T, m) == Read(T, Create(T), Write(T, m)) = m

-----------------------------------------------------------------------------
(* Sequences and numbers. *)
LEMMA LeastNumber ==
    ASSUME NEW T, T \subseteq Nat, T # {}
    PROVE  \E x \in T : \A y \in T : x <= y
<1>1. \E x \in T : \A y \in T : ~ (<<y, x>> \in OpToRel(<, Nat))
  BY NatLessThanWellFounded, WFMin
<1>2. PICK x \in T : \A y \in T : ~ (<<y, x>> \in OpToRel(<, Nat))
  BY <1>1
<1>3. ASSUME NEW y \in T PROVE x <= y
  <2>1. x \in Nat /\ y \in Nat
    OBVIOUS
  <2>2. ~(y < x)
    BY <1>2, <2>1 DEF OpToRel
  <2>3. QED
    BY <2>1, <2>2
<1>4. QED
  BY <1>3

LEMMA SequenceFacts ==
    ASSUME NEW s, IsSequence(s)
    PROVE  /\ s \in Seq(ToSet(s)) /\ Len(s) \in Nat /\ DOMAIN s = 1..Len(s)
           /\ s # <<>> <=> Len(s) > 0
           /\ SubSeq(s, 1, Len(s)) = s
<1>1. s \in Seq(ToSet(s))
  BY DEF IsSequence
<1>2. Len(s) \in Nat /\ DOMAIN s = 1..Len(s)
  BY <1>1, LenProperties
<1>3. s # <<>> <=> Len(s) > 0
  BY <1>1, EmptySeq
<1>4. SubSeq(s, 1, Len(s)) = s
  BY <1>1, SubSeqFull
<1>5. QED
  BY <1>1, <1>2, <1>3, <1>4

LEMMA SeqIsSequence ==
    ASSUME NEW S, NEW s \in Seq(S)
    PROVE  IsSequence(s)
<1>1. Len(s) \in Nat /\ DOMAIN s = 1..Len(s) /\ s \in [1..Len(s) -> S]
  BY LenProperties
<1>2. s \in [1..Len(s) -> ToSet(s)]
  BY <1>1 DEF ToSet
<1>3. s \in Seq(ToSet(s))
  BY <1>1, <1>2, SeqDef
<1>4. QED
  BY <1>3 DEF IsSequence

LEMMA FunctionIsSequence ==
    ASSUME NEW n \in Nat, NEW s, s = [i \in 1..n |-> s[i]]
    PROVE  IsSequence(s) /\ Len(s) = n
<1>1. DOMAIN s = 1..n
  OBVIOUS
<1>2. s \in [1..n -> ToSet(s)]
  BY <1>1 DEF ToSet
<1>3. s \in Seq(ToSet(s))
  BY <1>2, SeqDef
<1>4. Len(s) = n
  BY <1>1, <1>3, LenProperties
<1>5. QED
  BY <1>3, <1>4 DEF IsSequence

(* A queue of what comes after the first n of a sequence. *)
LEMMA QueueFacts ==
    ASSUME NEW s, IsSequence(s), NEW n \in Nat, n < Len(s)
    PROVE  LET q == SubSeq(s, n + 1, Len(s))
           IN  /\ q # <<>> /\ Head(q) = s[n + 1]
               /\ Tail(q) = SubSeq(s, n + 2, Len(s))
<1>1. s \in Seq(ToSet(s)) /\ Len(s) \in Nat
  BY SequenceFacts
<1>2. n + 1 \in 1..Len(s) /\ Len(s) \in (n + 1)..Len(s)
  BY <1>1
<1>3. /\ Head(SubSeq(s, n + 1, Len(s))) = s[n + 1]
      /\ Tail(SubSeq(s, n + 1, Len(s))) = SubSeq(s, (n + 1) + 1, Len(s))
  BY <1>1, <1>2, HeadTailOfSubSeq
<1>4. \A i \in (n + 1)..Len(s) : s[i] \in ToSet(s)
  BY <1>1, ElementOfSeq
<1>5. /\ SubSeq(s, n + 1, Len(s)) \in Seq(ToSet(s))
      /\ Len(SubSeq(s, n + 1, Len(s))) = Len(s) - n
  <2>1. /\ SubSeq(s, n + 1, Len(s)) \in Seq(ToSet(s))
        /\ Len(SubSeq(s, n + 1, Len(s))) =
               IF n + 1 <= Len(s) THEN Len(s) - (n + 1) + 1 ELSE 0
    BY <1>1, <1>4, SubSeqProperties
  <2>2. QED
    BY <2>1, <1>1
<1>6. SubSeq(s, n + 1, Len(s)) # <<>>
  <2>1. IsSequence(SubSeq(s, n + 1, Len(s)))
    BY <1>5, SeqIsSequence
  <2>2. SubSeq(s, n + 1, Len(s)) # <<>> <=> Len(SubSeq(s, n + 1, Len(s))) > 0
    BY <2>1, SequenceFacts
  <2>3. QED
    BY <2>2, <1>5, <1>1
<1>7. (n + 1) + 1 = n + 2
  OBVIOUS
<1>8. QED
  BY <1>3, <1>6, <1>7

LEMMA QueueEnds ==
    ASSUME NEW s, IsSequence(s), NEW n \in 0..Len(s), SubSeq(s, n + 1, Len(s)) = <<>>
    PROVE  n = Len(s)
<1>1. Len(s) \in Nat
  BY SequenceFacts
<1>2. ~ (n < Len(s))
  BY QueueFacts
<1>3. QED
  BY <1>1, <1>2

(* One more, and one run more, of a sequence. *)
LEMMA OneMore ==
    ASSUME NEW s, IsSequence(s), NEW n \in Nat, n < Len(s)
    PROVE  Append(SubSeq(s, 1, n), s[n + 1]) = SubSeq(s, 1, n + 1)
<1>1. s \in Seq(ToSet(s)) /\ Len(s) \in Nat
  BY SequenceFacts
<1>2. 1 \in 1..Len(s) /\ n + 1 \in 1..Len(s)
  BY <1>1
<1>3. SubSeq(s, 1, n + 1) = SubSeq(s, 1, (n + 1) - 1) \o <<s[n + 1]>>
  BY <1>1, <1>2, SubSeqRecursiveSecond
<1>4. (n + 1) - 1 = n
  OBVIOUS
<1>5. SubSeq(s, 1, n) \in Seq(ToSet(s))
  <2>1. \A i \in 1..n : s[i] \in ToSet(s)
    BY <1>1, ElementOfSeq
  <2>2. QED
    BY <2>1, SubSeqProperties
<1>6. Append(SubSeq(s, 1, n), s[n + 1]) = SubSeq(s, 1, n) \o <<s[n + 1]>>
  BY <1>1, <1>2, <1>5, AppendIsConcat, ElementOfSeq
<1>7. QED
  BY <1>3, <1>4, <1>6

LEMMA RunMore ==
    ASSUME NEW s, IsSequence(s), NEW n \in Nat, NEW k \in Nat, n <= k, k <= Len(s)
    PROVE  SubSeq(s, 1, n) \o SubSeq(s, n + 1, k) = SubSeq(s, 1, k)
<1>1. s \in Seq(ToSet(s)) /\ Len(s) \in Nat
  BY SequenceFacts
<1>2. 1 \in 1..(Len(s) + 1) /\ n \in (1 - 1)..Len(s) /\ k \in n..Len(s)
  BY <1>1
<1>3. QED
  BY <1>1, <1>2, ConcatAdjacentSubSeq
-----------------------------------------------------------------------------
(* A class and its fields. *)
LEMMA ClassFacts ==
    ASSUME NEW T \in Types
    PROVE  /\ Len(Schema[T]) \in Nat /\ DOMAIN Schema[T] = 1..Len(Schema[T])
           /\ Places(T) = DOMAIN Schema[T] \cup {UnknownPlace(T)}
           /\ UnknownPlace(T) \in Nat /\ UnknownPlace(T) \notin DOMAIN Schema[T]
           /\ Places(T) = 1..UnknownPlace(T)
           /\ "unknown" \notin Names(T)
<1>1. Schema[T] \in Seq(Fields(T))
  BY SchemaAssumption
<1>2. Len(Schema[T]) \in Nat /\ DOMAIN Schema[T] = 1..Len(Schema[T])
  BY <1>1, LenProperties
<1>3. /\ Places(T) = DOMAIN Schema[T] \cup {UnknownPlace(T)}
      /\ UnknownPlace(T) \in Nat /\ UnknownPlace(T) \notin DOMAIN Schema[T]
      /\ Places(T) = 1..UnknownPlace(T)
  BY <1>2 DEF Places, UnknownPlace
<1>4. "unknown" \notin Names(T)
  BY SchemaAssumption DEF Names
<1>5. QED
  BY <1>2, <1>3, <1>4

LEMMA FieldFacts ==
    ASSUME NEW T \in Types, NEW i \in DOMAIN Schema[T]
    PROVE  LET f == Schema[T][i]
           IN  /\ f \in Fields(T) /\ f.name \in Names(T)
               /\ f.no # UnknownNo /\ f.name # "unknown"
               /\ f.rule \in {"plain", "optional", "packed", "unpacked", "case"}
               /\ f.kind \in Types \/ f.kind = "scalar"
               /\ f.rule \in {"plain", "packed"} => f.kind = "scalar"
               /\ (CHOOSE g \in Fields(T) : g.no = f.no) = f
               /\ (CHOOSE g \in Fields(T) : g.name = f.name) = f
               /\ f.name \in Cases(T) <=> f.rule = "case"
<1> DEFINE f == Schema[T][i]
<1>1. f \in Fields(T) /\ f.name \in Names(T)
  BY DEF Fields, Names, ToSet
<1>2. ASSUME NEW g \in Fields(T), g.no = f.no \/ g.name = f.name
      PROVE  g = f
  <2>1. PICK j \in DOMAIN Schema[T] : g = Schema[T][j]
    BY DEF Fields, ToSet
  <2>2. Schema[T][j].no = Schema[T][i].no \/ Schema[T][j].name = Schema[T][i].name
    BY <1>2, <2>1
  <2>3. j = i
    BY <2>2, SchemaAssumption
  <2>4. QED
    BY <2>1, <2>3
<1>3. (CHOOSE g \in Fields(T) : g.no = f.no) = f
  BY <1>1, <1>2
<1>4. (CHOOSE g \in Fields(T) : g.name = f.name) = f
  BY <1>1, <1>2
<1>5. f.name \in Cases(T) <=> f.rule = "case"
  BY <1>1, <1>2 DEF Cases
<1>6. /\ f.no # UnknownNo /\ f.name # "unknown"
      /\ f.rule \in {"plain", "optional", "packed", "unpacked", "case"}
      /\ f.kind \in Types \/ f.kind = "scalar"
      /\ f.rule \in {"plain", "packed"} => f.kind = "scalar"
  BY <1>1, SchemaAssumption
<1>7. QED
  BY <1>1, <1>3, <1>4, <1>5, <1>6

LEMMA FieldOfName ==
    ASSUME NEW T \in Types, NEW n \in Names(T)
    PROVE  \E i \in DOMAIN Schema[T] : Schema[T][i].name = n
BY DEF Names, Fields, ToSet

LEMMA FieldsDiffer ==
    ASSUME NEW T \in Types, NEW i \in DOMAIN Schema[T], NEW j \in DOMAIN Schema[T],
           i # j
    PROVE  Schema[T][i].name # Schema[T][j].name
BY SchemaAssumption

(* A new message has the default of each field. *)
LEMMA CreateFacts ==
    ASSUME NEW T \in Types
    PROVE  /\ Create(T) = [n \in Names(T) \cup {"unknown"} |-> Create(T)[n]]
           /\ Create(T).unknown = <<>>
           /\ \A i \in DOMAIN Schema[T] :
                  Create(T)[Schema[T][i].name] = Absent(Schema[T][i])
<1>1. Create(T) = [n \in Names(T) \cup {"unknown"} |-> Create(T)[n]]
  BY DEF Create
<1>2. Create(T).unknown = <<>>
  BY DEF Create
<1>3. ASSUME NEW i \in DOMAIN Schema[T]
      PROVE  Create(T)[Schema[T][i].name] = Absent(Schema[T][i])
  <2>1. /\ Schema[T][i].name \in Names(T) /\ Schema[T][i].name # "unknown"
        /\ (CHOOSE g \in Fields(T) : g.name = Schema[T][i].name) = Schema[T][i]
    BY FieldFacts
  <2>2. QED
    BY <2>1 DEF Create
<1>4. QED
  BY <1>1, <1>2, <1>3

-----------------------------------------------------------------------------
(* A message half read.  Of each field the first values are read, and what is
   left of what was written is in its queue. *)
Half(f, v, w, q) ==
    CASE f.rule = "packed" ->
            \E n \in 0..Len(v) :
                /\ w = SubSeq(v, 1, n)
                /\ \/ n = Len(v) /\ q = <<>>
                   \/ n < Len(v) /\ q = <<Run(f.no, SubSeq(v, n + 1, Len(v)))>>
                   \/ /\ n + 1 < Len(v)
                      /\ q = <<Run(f.no, SubSeq(v, n + 1, n + 1)),
                               Run(f.no, SubSeq(v, n + 2, Len(v)))>>
      [] f.rule = "unpacked" ->
            \E n \in 0..Len(v) :
                /\ w = SubSeq(v, 1, n)
                /\ q = SubSeq(Written(f, v), n + 1, Len(v))
      [] OTHER ->
            \/ q = <<>> /\ w = v
            \/ q = <<ItemOf(f, v)>> /\ w = Absent(f) /\ v # Absent(f)

HalfUnknown(v, w, q) ==
    \E n \in 0..Len(v) : w = SubSeq(v, 1, n) /\ q = SubSeq(v, n + 1, Len(v))

HalfRead(T, m, t, queues) ==
    /\ t = [n \in Names(T) \cup {"unknown"} |-> t[n]]
    /\ queues = [i \in Places(T) |-> queues[i]]
    /\ \A i \in DOMAIN Schema[T] :
          Half(Schema[T][i], m[Schema[T][i].name], t[Schema[T][i].name], queues[i])
    /\ HalfUnknown(m.unknown, t.unknown, queues[UnknownPlace(T)])

(* The messages of smaller depth, which are those inside one of depth d, read
   back. *)
SmallerSurvive(d) ==
    \A c \in 0..(d - 1) : \A U \in Types : \A e : IsMessage(U, e, c) => Survives(U, e)

(* What is read of an item is what it was written for. *)
LEMMA ContentComesBack ==
    ASSUME Closed, NEW T \in Types, NEW i \in DOMAIN Schema[T], NEW d \in Nat,
           SmallerSurvive(d), NEW e, IsPart(Schema[T][i], e, d), NEW t,
           \/ Schema[T][i].rule = "unpacked"
           \/ t[Schema[T][i].name] = None
           \/ Schema[T][i].kind = "scalar"
    PROVE  Content(Schema[T][i], t, ItemOf(Schema[T][i], e)) = e
<1> DEFINE f == Schema[T][i]
<1>1. CASE f.kind = "scalar"
  BY <1>1 DEF Content, ItemOf, Item
<1>2. CASE f.kind # "scalar"
  <2>1. f.kind \in Types
    BY <1>2, FieldFacts
  <2>2. PICK c \in 0..(d - 1) : IsNested(f.kind, e, c)
    BY <1>2 DEF IsPart
  <2>3. c \in Nat /\ IsMessage(f.kind, e, c)
    BY <2>1, <2>2 DEF Closed
  <2>4. Read(f.kind, Create(f.kind), Write(f.kind, e)) = e
    BY <2>1, <2>2, <2>3 DEF SmallerSurvive, Survives
  <2>5. /\ Encode(f.kind, e) = Write(f.kind, e)
        /\ Decode(f.kind, Create(f.kind), Write(f.kind, e))
               = Read(f.kind, Create(f.kind), Write(f.kind, e))
    BY <2>1, <2>3 DEF Closed, FromBinary
  <2>6. ItemOf(f, e).value = Write(f.kind, e)
    BY <1>2, <2>5 DEF ItemOf, Item
  <2>7. Content(f, t, ItemOf(f, e)) = Decode(f.kind, Create(f.kind), Write(f.kind, e))
    BY <1>2, <2>6 DEF Content
  <2>8. QED
    BY <2>4, <2>5, <2>7
<1>3. QED
  BY <1>1, <1>2

(* What a field holds after one more of its items. *)
NewValue(f, t, item) ==
    CASE f.rule = "packed" -> t[f.name] \o item.value.run
      [] f.rule = "unpacked" -> Append(t[f.name], Content(f, t, item))
      [] OTHER -> Content(f, t, item)

LEMMA WrittenIsSequence ==
    ASSUME NEW f, NEW v, NEW d, IsValue(f, v, d)
    PROVE  /\ IsSequence(Written(f, v))
           /\ f.rule = "unpacked" =>
                /\ Len(Written(f, v)) = Len(v)
                /\ \A k \in 1..Len(v) : Written(f, v)[k] = ItemOf(f, v[k])
<1>1. CASE f.rule = "unpacked"
  <2>1. IsSequence(v)
    BY <1>1 DEF IsValue
  <2>2. Len(v) \in Nat /\ DOMAIN v = 1..Len(v) /\ (v # <<>> <=> Len(v) > 0)
    BY <2>1, SequenceFacts
  <2>3. Absent(f) = <<>>
    BY <1>1 DEF Absent
  <2>4. CASE v = <<>>
    <3>1. Written(f, v) = <<>>
      BY <2>3, <2>4 DEF Written
    <3>2. Len(v) = 0
      BY <2>2, <2>4
    <3>3. IsSequence(<<>>) /\ Len(<<>>) = 0
      BY <2>1, <2>4, <3>2
    <3>4. QED
      BY <3>1, <3>2, <3>3
  <2>5. CASE v # <<>>
    <3>1. Written(f, v) = [k \in 1..Len(v) |-> ItemOf(f, v[k])]
      BY <1>1, <2>2, <2>3, <2>5 DEF Written
    <3>2. Written(f, v) = [k \in 1..Len(v) |-> Written(f, v)[k]]
      BY <3>1
    <3>3. IsSequence(Written(f, v)) /\ Len(Written(f, v)) = Len(v)
      BY <2>2, <3>2, FunctionIsSequence
    <3>4. QED
      BY <3>1, <3>3
  <2>6. QED
    BY <2>4, <2>5
<1>2. CASE f.rule # "unpacked"
  <2>1. \E x : Written(f, v) = <<>> \/ Written(f, v) = <<x>>
    BY <1>2 DEF Written
  <2>2. IsSequence(<<>>)
    BY EmptySeq, SeqIsSequence
  <2>3. ASSUME NEW x PROVE IsSequence(<<x>>)
    <3>1. <<x>> \in Seq({x})
      OBVIOUS
    <3>2. QED
      BY <3>1, SeqIsSequence
  <2>4. QED
    BY <1>2, <2>1, <2>2, <2>3
<1>3. QED
  BY <1>1, <1>2

(* Half of a field, and one more of its items: the packed, the repeated and
   the single ones. *)
LEMMA PackedStep ==
    ASSUME NEW f, f.rule = "packed", NEW v, IsSequence(v), NEW t, NEW q, q # <<>>,
           Half(f, v, t[f.name], q)
    PROVE  Head(q).no = f.no /\ Half(f, v, NewValue(f, t, Head(q)), Tail(q))
<1>1. PICK n \in 0..Len(v) :
          /\ t[f.name] = SubSeq(v, 1, n)
          /\ \/ n = Len(v) /\ q = <<>>
             \/ n < Len(v) /\ q = <<Run(f.no, SubSeq(v, n + 1, Len(v)))>>
             \/ /\ n + 1 < Len(v)
                /\ q = <<Run(f.no, SubSeq(v, n + 1, n + 1)),
                         Run(f.no, SubSeq(v, n + 2, Len(v)))>>
  BY DEF Half
<1>2. Len(v) \in Nat
  BY SequenceFacts
<1>3. CASE n < Len(v) /\ q = <<Run(f.no, SubSeq(v, n + 1, Len(v)))>>
  <2>1. Head(q) = Run(f.no, SubSeq(v, n + 1, Len(v))) /\ Tail(q) = <<>>
    BY <1>3
  <2>2. Head(q).value.run = SubSeq(v, n + 1, Len(v))
    BY <2>1 DEF Run, Item
  <2>3. NewValue(f, t, Head(q)) = SubSeq(v, 1, Len(v))
    <3>1. NewValue(f, t, Head(q)) = t[f.name] \o Head(q).value.run
      BY DEF NewValue
    <3>2. SubSeq(v, 1, n) \o SubSeq(v, n + 1, Len(v)) = SubSeq(v, 1, Len(v))
      <4>1. n \in Nat /\ n <= Len(v) /\ Len(v) <= Len(v)
        BY <1>2
      <4>2. QED
        BY <1>2, <4>1, RunMore
    <3>3. QED
      BY <1>1, <2>2, <3>1, <3>2
  <2>4. Half(f, v, NewValue(f, t, Head(q)), Tail(q))
    <3>1. Len(v) \in 0..Len(v)
      BY <1>2
    <3>2. NewValue(f, t, Head(q)) = SubSeq(v, 1, Len(v)) /\ Tail(q) = <<>>
      BY <2>1, <2>3
    <3>3. QED
      BY <3>1, <3>2 DEF Half
  <2>5. QED
    BY <2>1, <2>4 DEF Run, Item
<1>4. CASE /\ n + 1 < Len(v)
           /\ q = <<Run(f.no, SubSeq(v, n + 1, n + 1)),
                    Run(f.no, SubSeq(v, n + 2, Len(v)))>>
  <2>1. /\ Head(q) = Run(f.no, SubSeq(v, n + 1, n + 1))
        /\ Tail(q) = <<Run(f.no, SubSeq(v, n + 2, Len(v)))>>
    BY <1>4
  <2>2. Head(q).value.run = SubSeq(v, n + 1, n + 1)
    BY <2>1 DEF Run, Item
  <2>3. NewValue(f, t, Head(q)) = SubSeq(v, 1, n + 1)
    <3>1. NewValue(f, t, Head(q)) = t[f.name] \o Head(q).value.run
      BY DEF NewValue
    <3>2. SubSeq(v, 1, n) \o SubSeq(v, n + 1, n + 1) = SubSeq(v, 1, n + 1)
      BY <1>2, <1>4, RunMore
    <3>3. QED
      BY <1>1, <2>2, <3>1, <3>2
  <2>4. n + 1 \in 0..Len(v) /\ n + 1 < Len(v) /\ (n + 1) + 1 = n + 2
    BY <1>2, <1>4
  <2>5. Half(f, v, NewValue(f, t, Head(q)), Tail(q))
    BY <2>1, <2>3, <2>4 DEF Half
  <2>6. QED
    BY <2>1, <2>5 DEF Run, Item
<1>5. QED
  BY <1>1, <1>3, <1>4

LEMMA RepeatedStep ==
    ASSUME Closed, NEW T \in Types, NEW i \in DOMAIN Schema[T],
           Schema[T][i].rule = "unpacked", NEW d \in Nat, SmallerSurvive(d),
           NEW v, IsValue(Schema[T][i], v, d), NEW t, NEW q, q # <<>>,
           Half(Schema[T][i], v, t[Schema[T][i].name], q)
    PROVE  /\ Head(q).no = Schema[T][i].no
           /\ Half(Schema[T][i], v, NewValue(Schema[T][i], t, Head(q)), Tail(q))
<1> DEFINE f == Schema[T][i]
           s == Written(f, v)
<1>1. IsSequence(v) /\ \A k \in DOMAIN v : IsPart(f, v[k], d)
  BY DEF IsValue
<1>2. Len(v) \in Nat /\ DOMAIN v = 1..Len(v)
  BY <1>1, SequenceFacts
<1>3. /\ IsSequence(s) /\ Len(s) = Len(v)
      /\ \A k \in 1..Len(v) : s[k] = ItemOf(f, v[k])
  BY WrittenIsSequence
<1> HIDE DEF s
<1>4. PICK n \in 0..Len(v) :
          t[f.name] = SubSeq(v, 1, n) /\ q = SubSeq(s, n + 1, Len(v))
  BY DEF Half, s
<1>5. n \in Nat /\ n < Len(s)
  <2>1. n # Len(v)
    <3> SUFFICES ASSUME n = Len(v) PROVE FALSE
      OBVIOUS
    <3>1. n + 1 \in Int /\ Len(v) \in Int /\ Len(v) < n + 1
      BY <1>2
    <3>2. SubSeq(s, n + 1, Len(v)) = <<>>
      BY <3>1, SubSeqEmpty
    <3>3. QED
      BY <3>2, <1>4
  <2>2. Len(v) \in Nat
    BY <1>2
  <2>3. n \in Nat /\ n < Len(v)
    BY <2>1, <2>2
  <2>4. QED
    BY <2>3, <1>3
<1>6. /\ Head(q) = s[n + 1]
      /\ Tail(q) = SubSeq(s, n + 2, Len(v))
  BY <1>3, <1>4, <1>5, QueueFacts
<1>7. n + 1 \in 1..Len(v) /\ n + 1 \in DOMAIN v
  BY <1>2, <1>3, <1>5
<1>8. Head(q) = ItemOf(f, v[n + 1])
  BY <1>3, <1>6, <1>7
<1>9. Content(f, t, Head(q)) = v[n + 1]
  <2>1. IsPart(f, v[n + 1], d)
    BY <1>1, <1>7
  <2>2. QED
    BY <2>1, <1>8, ContentComesBack
<1>10. NewValue(f, t, Head(q)) = SubSeq(v, 1, n + 1)
  <2>1. NewValue(f, t, Head(q)) = Append(t[f.name], Content(f, t, Head(q)))
    BY DEF NewValue
  <2>2. Append(SubSeq(v, 1, n), v[n + 1]) = SubSeq(v, 1, n + 1)
    BY <1>1, <1>3, <1>5, OneMore
  <2>3. QED
    BY <2>1, <2>2, <1>4, <1>9
<1>11. Half(f, v, NewValue(f, t, Head(q)), Tail(q))
  <2>1. n + 1 \in 0..Len(v) /\ (n + 1) + 1 = n + 2
    BY <1>2, <1>7
  <2>2. QED
    BY <2>1, <1>6, <1>10 DEF Half, s
<1>12. Head(q).no = f.no
  BY <1>8 DEF ItemOf, Item
<1>13. QED
  BY <1>11, <1>12

LEMMA SingleStep ==
    ASSUME Closed, NEW T \in Types, NEW i \in DOMAIN Schema[T],
           Schema[T][i].rule \notin {"packed", "unpacked"},
           NEW d \in Nat, SmallerSurvive(d),
           NEW v, IsValue(Schema[T][i], v, d), NEW t, NEW q, q # <<>>,
           Half(Schema[T][i], v, t[Schema[T][i].name], q)
    PROVE  /\ Head(q).no = Schema[T][i].no
           /\ Half(Schema[T][i], v, NewValue(Schema[T][i], t, Head(q)), Tail(q))
<1> DEFINE f == Schema[T][i]
<1>1. q = <<ItemOf(f, v)>> /\ t[f.name] = Absent(f) /\ v # Absent(f)
  BY DEF Half
<1>2. Head(q) = ItemOf(f, v) /\ Tail(q) = <<>>
  BY <1>1
<1>3. IsPart(f, v, d)
  BY <1>1 DEF IsValue
<1>4. f.kind = "scalar" \/ t[f.name] = None
  <2>1. /\ f.rule \in {"plain", "optional", "packed", "unpacked", "case"}
        /\ f.rule \in {"plain", "packed"} => f.kind = "scalar"
    BY FieldFacts
  <2>2. f.kind # "scalar" => f.rule \in {"optional", "case"}
    BY <2>1
  <2>3. f.kind # "scalar" => Absent(f) = None
    BY <2>2 DEF Absent
  <2>4. QED
    BY <1>1, <2>3
<1>5. Content(f, t, Head(q)) = v
  BY <1>2, <1>3, <1>4, ContentComesBack
<1>6. NewValue(f, t, Head(q)) = v
  BY <1>5 DEF NewValue
<1>7. Half(f, v, NewValue(f, t, Head(q)), Tail(q))
  BY <1>2, <1>6 DEF Half
<1>8. QED
  BY <1>2, <1>7 DEF ItemOf, Item

LEMMA HalfStep ==
    ASSUME Closed, NEW T \in Types, NEW i \in DOMAIN Schema[T],
           NEW d \in Nat, SmallerSurvive(d),
           NEW v, IsValue(Schema[T][i], v, d), NEW t, NEW q, q # <<>>,
           Half(Schema[T][i], v, t[Schema[T][i].name], q)
    PROVE  /\ Head(q).no = Schema[T][i].no
           /\ Half(Schema[T][i], v, NewValue(Schema[T][i], t, Head(q)), Tail(q))
<1>1. CASE Schema[T][i].rule = "packed"
  <2>1. IsSequence(v)
    BY <1>1 DEF IsValue
  <2>2. QED
    BY <1>1, <2>1, PackedStep
<1>2. CASE Schema[T][i].rule = "unpacked"
  BY <1>2, RepeatedStep
<1>3. CASE Schema[T][i].rule \notin {"packed", "unpacked"}
  BY <1>3, SingleStep
<1>4. QED
  BY <1>1, <1>2, <1>3

(* A field of which nothing is left, and one of which nothing is read. *)
LEMMA HalfEnds ==
    ASSUME NEW f, NEW d, NEW v, IsValue(f, v, d), NEW w, Half(f, v, w, <<>>)
    PROVE  w = v
<1>1. CASE f.rule = "packed"
  <2>1. IsSequence(v)
    BY <1>1 DEF IsValue
  <2>2. PICK n \in 0..Len(v) : w = SubSeq(v, 1, n) /\ n = Len(v)
    BY <1>1 DEF Half
  <2>3. QED
    BY <2>1, <2>2, SequenceFacts
<1>2. CASE f.rule = "unpacked"
  <2>1. IsSequence(v)
    BY <1>2 DEF IsValue
  <2>2. IsSequence(Written(f, v)) /\ Len(Written(f, v)) = Len(v)
    BY <1>2, WrittenIsSequence
  <2>3. PICK n \in 0..Len(v) :
            w = SubSeq(v, 1, n) /\ <<>> = SubSeq(Written(f, v), n + 1, Len(v))
    BY <1>2 DEF Half
  <2>4. n = Len(v)
    BY <2>2, <2>3, QueueEnds
  <2>5. QED
    BY <2>1, <2>3, <2>4, SequenceFacts
<1>3. CASE f.rule \notin {"packed", "unpacked"}
  BY <1>3 DEF Half
<1>4. QED
  BY <1>1, <1>2, <1>3

LEMMA EmptySubSeq ==
    ASSUME NEW s, IsSequence(s)
    PROVE  SubSeq(s, 1, 0) = <<>> /\ SubSeq(s, 0 + 1, Len(s)) = s
<1>1. SubSeq(s, 1, Len(s)) = s
  BY SequenceFacts
<1>2. SubSeq(s, 1, 0) = <<>>
  BY SubSeqEmpty
<1>3. QED
  BY <1>1, <1>2

LEMMA HalfStarts ==
    ASSUME NEW f, NEW d, NEW v, IsValue(f, v, d)
    PROVE  Half(f, v, Absent(f), Written(f, v))
<1>1. CASE f.rule = "packed"
  <2>1. IsSequence(v) /\ Absent(f) = <<>>
    BY <1>1 DEF IsValue, Absent
  <2>2. Len(v) \in Nat /\ (v # <<>> <=> Len(v) > 0)
    BY <2>1, SequenceFacts
  <2>3. <<>> = SubSeq(v, 1, 0) /\ SubSeq(v, 0 + 1, Len(v)) = v
    BY <2>1, EmptySubSeq
  <2>4. CASE v = <<>>
    <3>1. Written(f, v) = <<>> /\ 0 = Len(v) /\ 0 \in 0..Len(v)
      BY <2>1, <2>2, <2>4 DEF Written
    <3>2. QED
      BY <1>1, <2>1, <2>3, <3>1 DEF Half
  <2>5. CASE v # <<>>
    <3>1. Written(f, v) = <<Run(f.no, v)>> /\ 0 < Len(v) /\ 0 \in 0..Len(v)
      BY <1>1, <2>1, <2>2, <2>5 DEF Written
    <3>2. QED
      BY <1>1, <2>1, <2>3, <3>1 DEF Half
  <2>6. QED
    BY <2>4, <2>5
<1>2. CASE f.rule = "unpacked"
  <2>1. IsSequence(v) /\ Absent(f) = <<>>
    BY <1>2 DEF IsValue, Absent
  <2>2. IsSequence(Written(f, v)) /\ Len(Written(f, v)) = Len(v)
    BY <1>2, WrittenIsSequence
  <2>3. SubSeq(Written(f, v), 0 + 1, Len(v)) = Written(f, v)
    BY <2>2, EmptySubSeq
  <2>4. <<>> = SubSeq(v, 1, 0)
    BY <2>1, EmptySubSeq
  <2>5. 0 \in 0..Len(v)
    BY <2>1, SequenceFacts
  <2>6. QED
    BY <1>2, <2>1, <2>3, <2>4, <2>5 DEF Half
<1>3. CASE f.rule \notin {"packed", "unpacked"}
  <2>1. CASE v = Absent(f)
    BY <1>3, <2>1 DEF Half, Written
  <2>2. CASE v # Absent(f)
    <3>1. Written(f, v) = <<ItemOf(f, v)>>
      BY <1>3, <2>2 DEF Written
    <3>2. QED
      BY <1>3, <2>2, <3>1 DEF Half
  <2>3. QED
    BY <2>1, <2>2
<1>4. QED
  BY <1>1, <1>2, <1>3

LEMMA UnknownStep ==
    ASSUME NEW v, IsSequence(v), NEW w, NEW q, q # <<>>, HalfUnknown(v, w, q)
    PROVE  /\ HalfUnknown(v, Append(w, Head(q)), Tail(q))
           /\ \E k \in DOMAIN v : Head(q) = v[k]
<1>1. Len(v) \in Nat /\ DOMAIN v = 1..Len(v) /\ v \in Seq(ToSet(v))
  BY SequenceFacts
<1>2. PICK n \in 0..Len(v) : w = SubSeq(v, 1, n) /\ q = SubSeq(v, n + 1, Len(v))
  BY DEF HalfUnknown
<1>3. n \in Nat /\ n < Len(v)
  <2>1. n # Len(v)
    <3> SUFFICES ASSUME n = Len(v) PROVE FALSE
      OBVIOUS
    <3>1. n + 1 \in Int /\ Len(v) \in Int /\ Len(v) < n + 1
      BY <1>1
    <3>2. SubSeq(v, n + 1, Len(v)) = <<>>
      BY <3>1, SubSeqEmpty
    <3>3. QED
      BY <3>2, <1>2
  <2>2. Len(v) \in Nat
    BY <1>1
  <2>3. n \in Nat /\ n < Len(v)
    BY <2>1, <2>2
  <2>4. QED
    BY <2>3
<1>4. Head(q) = v[n + 1] /\ Tail(q) = SubSeq(v, n + 2, Len(v))
  BY <1>2, <1>3, QueueFacts
<1>5. Append(w, Head(q)) = SubSeq(v, 1, n + 1)
  BY <1>2, <1>3, <1>4, OneMore
<1>6. n + 1 \in 0..Len(v) /\ (n + 1) + 1 = n + 2 /\ n + 1 \in DOMAIN v
  BY <1>1, <1>3
<1>7. HalfUnknown(v, Append(w, Head(q)), Tail(q))
  BY <1>4, <1>5, <1>6 DEF HalfUnknown
<1>8. QED
  BY <1>4, <1>6, <1>7

LEMMA UnknownEnds ==
    ASSUME NEW v, IsSequence(v), NEW w, HalfUnknown(v, w, <<>>)
    PROVE  w = v
<1>1. PICK n \in 0..Len(v) : w = SubSeq(v, 1, n) /\ <<>> = SubSeq(v, n + 1, Len(v))
  BY DEF HalfUnknown
<1>2. n = Len(v)
  BY <1>1, QueueEnds
<1>3. QED
  BY <1>1, <1>2, SequenceFacts

LEMMA UnknownStarts ==
    ASSUME NEW v, IsSequence(v)
    PROVE  HalfUnknown(v, <<>>, v)
<1>1. <<>> = SubSeq(v, 1, 0) /\ v = SubSeq(v, 0 + 1, Len(v))
  BY EmptySubSeq
<1>2. 0 \in 0..Len(v)
  BY SequenceFacts
<1>3. QED
  BY <1>1, <1>2 DEF HalfUnknown

-----------------------------------------------------------------------------
(* A message, and one more of its items. *)
LEMMA HalfReadStarts ==
    ASSUME NEW T \in Types, NEW m, NEW d, IsMessage(T, m, d)
    PROVE  HalfRead(T, m, Create(T), Write(T, m))
<1>1. Create(T) = [n \in Names(T) \cup {"unknown"} |-> Create(T)[n]]
  BY CreateFacts
<1>2. Write(T, m) = [i \in Places(T) |-> Write(T, m)[i]]
  BY DEF Write
<1>3. ASSUME NEW i \in DOMAIN Schema[T]
      PROVE  Half(Schema[T][i], m[Schema[T][i].name], Create(T)[Schema[T][i].name],
                  Write(T, m)[i])
  <2>1. Create(T)[Schema[T][i].name] = Absent(Schema[T][i])
    BY CreateFacts
  <2>2. i \in Places(T) /\ i # UnknownPlace(T)
    BY ClassFacts
  <2>3. Write(T, m)[i] = Written(Schema[T][i], m[Schema[T][i].name])
    BY <2>2 DEF Write
  <2>4. IsValue(Schema[T][i], m[Schema[T][i].name], d)
    BY FieldFacts DEF IsMessage
  <2>5. QED
    BY <2>1, <2>3, <2>4, HalfStarts
<1>4. HalfUnknown(m.unknown, Create(T).unknown, Write(T, m)[UnknownPlace(T)])
  <2>1. UnknownPlace(T) \in Places(T)
    BY ClassFacts
  <2>2. Write(T, m)[UnknownPlace(T)] = m.unknown
    BY <2>1 DEF Write
  <2>3. Create(T).unknown = <<>>
    BY CreateFacts
  <2>4. IsSequence(m.unknown)
    BY DEF IsMessage
  <2>5. QED
    BY <2>2, <2>3, <2>4, UnknownStarts
<1>5. QED
  BY <1>1, <1>2, <1>3, <1>4 DEF HalfRead

LEMMA HalfReadEnds ==
    ASSUME NEW T \in Types, NEW m, NEW d, IsMessage(T, m, d), NEW t, NEW queues,
           HalfRead(T, m, t, queues), \A i \in Places(T) : queues[i] = <<>>
    PROVE  t = m
<1>1. ASSUME NEW i \in DOMAIN Schema[T]
      PROVE  t[Schema[T][i].name] = m[Schema[T][i].name]
  <2>1. queues[i] = <<>>
    BY ClassFacts
  <2>2. Half(Schema[T][i], m[Schema[T][i].name], t[Schema[T][i].name], <<>>)
    BY <2>1 DEF HalfRead
  <2>3. IsValue(Schema[T][i], m[Schema[T][i].name], d)
    BY FieldFacts DEF IsMessage
  <2>4. QED
    BY <2>2, <2>3, HalfEnds
<1>2. t.unknown = m.unknown
  <2>1. queues[UnknownPlace(T)] = <<>>
    BY ClassFacts
  <2>2. HalfUnknown(m.unknown, t.unknown, <<>>)
    BY <2>1 DEF HalfRead
  <2>3. IsSequence(m.unknown)
    BY DEF IsMessage
  <2>4. QED
    BY <2>2, <2>3, UnknownEnds
<1>3. \A n \in Names(T) \cup {"unknown"} : t[n] = m[n]
  BY <1>1, <1>2, FieldOfName
<1>4. /\ t = [n \in Names(T) \cup {"unknown"} |-> t[n]]
      /\ m = [n \in Names(T) \cup {"unknown"} |-> m[n]]
  BY DEF HalfRead, IsMessage
<1>5. QED
  BY <1>3, <1>4

(* What reading an item of a field does to a message. *)
HasFields(T, t) == t = [n \in Names(T) \cup {"unknown"} |-> t[n]]

Updates(T, f, t, item, r) ==
    /\ HasFields(T, r)
    /\ r[f.name] = NewValue(f, t, item)
    /\ r.unknown = t.unknown
    /\ \A n \in Names(T) \ {f.name} :
          r[n] = IF f.rule = "case" /\ n \in Cases(T) THEN None ELSE t[n]

LEMMA ReadFieldUpdates ==
    ASSUME NEW T \in Types, NEW i \in DOMAIN Schema[T], NEW item, NEW t,
           HasFields(T, t), item.no = Schema[T][i].no
    PROVE  Updates(T, Schema[T][i], t, item, ReadItem(T, t, item))
<1> DEFINE f == Schema[T][i]
           r == ReadItem(T, t, item)
           N == Names(T) \cup {"unknown"}
<1>1. /\ f \in Fields(T) /\ f.name \in Names(T) /\ f.name # "unknown"
      /\ (CHOOSE g \in Fields(T) : g.no = f.no) = f
  BY FieldFacts
<1>2. r = ReadField(T, f, t, item)
  BY <1>1 DEF ReadItem
<1>3. f.name \in N /\ "unknown" \in N /\ DOMAIN t = N /\ t = [n \in N |-> t[n]]
  BY <1>1 DEF HasFields
<1>4. "unknown" \notin Names(T) /\ Cases(T) \subseteq Names(T)
  BY ClassFacts DEF Cases, Names
<1>5. CASE f.rule = "case"
  <2>1. r = SetCase(T, t, f.name, Content(f, t, item))
    BY <1>2, <1>5 DEF ReadField
  <2>2. r = [n \in N |-> IF n = f.name THEN Content(f, t, item)
                          ELSE IF n \in Cases(T) THEN None ELSE t[n]]
    BY <2>1, <1>3 DEF SetCase
  <2>3. NewValue(f, t, item) = Content(f, t, item)
    BY <1>5 DEF NewValue
  <2>4. QED
    BY <1>1, <1>3, <1>4, <1>5, <2>2, <2>3 DEF Updates, HasFields
<1>6. CASE f.rule # "case"
  <2>1. r = [t EXCEPT ![f.name] = NewValue(f, t, item)]
    BY <1>2, <1>3, <1>6 DEF ReadField, NewValue
  <2>2. r = [n \in N |-> IF n = f.name THEN NewValue(f, t, item) ELSE t[n]]
    BY <2>1, <1>3
  <2>3. QED
    BY <1>1, <1>3, <1>4, <1>6, <2>2 DEF Updates, HasFields
<1>7. QED
  BY <1>5, <1>6

LEMMA ReadKnown ==
    ASSUME Closed, NEW T \in Types, NEW d \in Nat, SmallerSurvive(d),
           NEW m, IsMessage(T, m, d), NEW t, NEW queues, HalfRead(T, m, t, queues),
           NEW i \in DOMAIN Schema[T], queues[i] # <<>>
    PROVE  HalfRead(T, m, ReadItem(T, t, Head(queues[i])),
                    [queues EXCEPT ![i] = Tail(@)])
<1> DEFINE f == Schema[T][i]
           item == Head(queues[i])
           r == ReadItem(T, t, item)
           left == [queues EXCEPT ![i] = Tail(@)]
<1>1. /\ t = [n \in Names(T) \cup {"unknown"} |-> t[n]]
      /\ queues = [j \in Places(T) |-> queues[j]]
      /\ \A j \in DOMAIN Schema[T] :
            Half(Schema[T][j], m[Schema[T][j].name], t[Schema[T][j].name], queues[j])
      /\ HalfUnknown(m.unknown, t.unknown, queues[UnknownPlace(T)])
  BY DEF HalfRead
<1>2. \A j \in DOMAIN Schema[T] :
          IsValue(Schema[T][j], m[Schema[T][j].name], d)
  BY FieldFacts DEF IsMessage
<1>3. i \in Places(T) /\ UnknownPlace(T) \in Places(T) /\ UnknownPlace(T) # i
  BY ClassFacts
<1>4. item.no = f.no /\ Half(f, m[f.name], NewValue(f, t, item), Tail(queues[i]))
  BY <1>1, <1>2, HalfStep
<1>5. /\ r = [n \in Names(T) \cup {"unknown"} |-> r[n]]
      /\ r[f.name] = NewValue(f, t, item)
      /\ r.unknown = t.unknown
      /\ \A n \in Names(T) \ {f.name} :
             r[n] = IF f.rule = "case" /\ n \in Cases(T) THEN None ELSE t[n]
  <2>1. HasFields(T, t) /\ item.no = Schema[T][i].no
    BY <1>1, <1>4 DEF HasFields
  <2>2. Updates(T, Schema[T][i], t, item, r)
    BY <2>1, ReadFieldUpdates
  <2> HIDE DEF r, item
  <2>3. QED
    BY <2>2 DEF Updates, HasFields
<1>6. /\ left = [j \in Places(T) |-> left[j]]
      /\ left[i] = Tail(queues[i])
      /\ \A j \in Places(T) : j # i => left[j] = queues[j]
  BY <1>1, <1>3
<1> HIDE DEF r, left, item
<1>7. ASSUME NEW j \in DOMAIN Schema[T]
      PROVE  Half(Schema[T][j], m[Schema[T][j].name], r[Schema[T][j].name], left[j])
  <2> DEFINE g == Schema[T][j]
  <2>1. CASE j = i
    BY <2>1, <1>4, <1>5, <1>6
  <2>2. CASE j # i
    <3>1. g.name \in Names(T) \ {f.name} /\ j \in Places(T)
      BY <2>2, FieldFacts, FieldsDiffer, ClassFacts
    <3>2. left[j] = queues[j]
      BY <1>6, <2>2, <3>1
    <3>3. CASE ~(f.rule = "case" /\ g.name \in Cases(T))
      <4>1. r[g.name] = t[g.name]
        BY <1>5, <3>1, <3>3
      <4>2. Half(g, m[g.name], t[g.name], queues[j])
        BY <1>1
      <4>3. QED
        BY <4>1, <4>2, <3>2
    <3>4. CASE f.rule = "case" /\ g.name \in Cases(T)
      <4>1. r[g.name] = None
        BY <1>5, <3>1, <3>4
      <4>2. f.name \in Cases(T) /\ f.name # g.name /\ g.rule = "case"
        BY <3>1, <3>4, FieldFacts
      <4>3. m[f.name] # None
        <5>1. Half(f, m[f.name], t[f.name], queues[i])
          BY <1>1
        <5>2. m[f.name] # Absent(f)
          BY <5>1, <3>4 DEF Half
        <5>3. QED
          BY <5>2, <3>4 DEF Absent
      <4>4. m[g.name] = None
        BY <3>4, <4>2, <4>3 DEF IsMessage
      <4>5. Half(g, m[g.name], t[g.name], queues[j])
        BY <1>1
      <4>6. Absent(g) = None
        BY <4>2 DEF Absent
      <4>7. queues[j] = <<>> /\ t[g.name] = m[g.name]
        BY <4>2, <4>4, <4>5, <4>6 DEF Half
      <4>8. r[g.name] = t[g.name]
        BY <4>1, <4>4, <4>7
      <4>9. QED
        BY <4>5, <4>8, <3>2
    <3>5. QED
      BY <3>3, <3>4
  <2>3. QED
    BY <2>1, <2>2
<1>8. HalfUnknown(m.unknown, r.unknown, left[UnknownPlace(T)])
  BY <1>1, <1>3, <1>5, <1>6
<1>9. HalfRead(T, m, r, left)
  BY <1>5, <1>6, <1>7, <1>8 DEF HalfRead
<1>10. QED
  BY <1>9 DEF r, left, item

LEMMA ReadUnknown ==
    ASSUME NEW T \in Types, NEW d,
           NEW m, IsMessage(T, m, d), NEW t, NEW queues, HalfRead(T, m, t, queues),
           queues[UnknownPlace(T)] # <<>>
    PROVE  HalfRead(T, m, ReadItem(T, t, Head(queues[UnknownPlace(T)])),
                    [queues EXCEPT ![UnknownPlace(T)] = Tail(@)])
<1> DEFINE i == UnknownPlace(T)
           item == Head(queues[i])
           r == ReadItem(T, t, item)
           left == [queues EXCEPT ![i] = Tail(@)]
<1>1. /\ t = [n \in Names(T) \cup {"unknown"} |-> t[n]]
      /\ queues = [j \in Places(T) |-> queues[j]]
      /\ \A j \in DOMAIN Schema[T] :
            Half(Schema[T][j], m[Schema[T][j].name], t[Schema[T][j].name], queues[j])
      /\ HalfUnknown(m.unknown, t.unknown, queues[i])
  BY DEF HalfRead
<1>2. /\ IsSequence(m.unknown)
      /\ \A k \in DOMAIN m.unknown : m.unknown[k].no = UnknownNo
  BY DEF IsMessage
<1>3. /\ HalfUnknown(m.unknown, Append(t.unknown, item), Tail(queues[i]))
      /\ \E k \in DOMAIN m.unknown : item = m.unknown[k]
  BY <1>1, <1>2, UnknownStep
<1>4. item.no = UnknownNo
  BY <1>2, <1>3
<1>5. r = [t EXCEPT !.unknown = Append(@, item)]
  <2>1. ~ \E f \in Fields(T) : f.no = item.no
    BY <1>4, SchemaAssumption
  <2>2. QED
    BY <2>1 DEF ReadItem, KeepUnknown
<1>6. /\ r = [n \in Names(T) \cup {"unknown"} |-> r[n]]
      /\ r.unknown = Append(t.unknown, item)
      /\ \A n \in Names(T) : n # "unknown" => r[n] = t[n]
  BY <1>1, <1>5
<1>7. i \in Places(T) /\ \A j \in DOMAIN Schema[T] : j \in Places(T) /\ j # i
  BY ClassFacts
<1>8. /\ left = [j \in Places(T) |-> left[j]]
      /\ left[i] = Tail(queues[i])
      /\ \A j \in Places(T) : j # i => left[j] = queues[j]
  BY <1>1, <1>7
<1> HIDE DEF r, left, item, i
<1>9. ASSUME NEW j \in DOMAIN Schema[T]
      PROVE  Half(Schema[T][j], m[Schema[T][j].name], r[Schema[T][j].name], left[j])
  <2>1. Schema[T][j].name \in Names(T) /\ Schema[T][j].name # "unknown"
    BY FieldFacts
  <2>2. r[Schema[T][j].name] = t[Schema[T][j].name] /\ left[j] = queues[j]
    BY <2>1, <1>6, <1>7, <1>8
  <2>3. QED
    BY <1>1, <2>2
<1>10. HalfUnknown(m.unknown, r.unknown, left[i])
  BY <1>3, <1>6, <1>8
<1>11. HalfRead(T, m, r, left)
  BY <1>6, <1>8, <1>9, <1>10 DEF HalfRead, i
<1>12. QED
  BY <1>11 DEF r, left, item, i

LEMMA HalfReadStep ==
    ASSUME Closed, NEW T \in Types, NEW d \in Nat, SmallerSurvive(d),
           NEW m, IsMessage(T, m, d), NEW t, NEW queues, HalfRead(T, m, t, queues),
           NEW i \in Places(T), queues[i] # <<>>
    PROVE  HalfRead(T, m, ReadItem(T, t, Head(queues[i])),
                    [queues EXCEPT ![i] = Tail(@)])
<1>1. i \in DOMAIN Schema[T] \/ i = UnknownPlace(T)
  BY ClassFacts
<1>2. CASE i \in DOMAIN Schema[T]
  BY <1>2, ReadKnown
<1>3. CASE i = UnknownPlace(T)
  BY <1>3, ReadUnknown
<1>4. QED
  BY <1>1, <1>2, <1>3

-----------------------------------------------------------------------------
(* The two loops of a reader.  A recursive function that is defined on 0..n
   exists. *)
LEMMA ReadItemsLoop ==
    ASSUME NEW T, NEW m, NEW items, Len(items) \in Nat
    PROVE  \E read : /\ DOMAIN read = 0..Len(items)
                     /\ read[0] = m
                     /\ \A k \in 1..Len(items) :
                           read[k] = ReadItem(T, read[k - 1], items[k])
                     /\ ReadItems(T, m, items) = read[Len(items)]
<1> DEFINE Loop(n, g) ==
               g = [k \in 0..n |-> IF k = 0 THEN m ELSE ReadItem(T, g[k - 1], items[k])]
           None_(n) == ~ \E g : Loop(n, g)
           Bad == {n \in Nat : None_(n)}
<1>1. \E g : Loop(0, g)
  <2>1. Loop(0, [k \in 0..0 |-> m])
    OBVIOUS
  <2>2. QED
    BY <2>1
<1>2. ASSUME NEW n \in Nat, NEW g, Loop(n, g)
      PROVE  \E h : Loop(n + 1, h)
  <2> DEFINE h == [k \in 0..(n + 1) |->
                     IF k <= n THEN g[k] ELSE ReadItem(T, g[n], items[n + 1])]
  <2>1. ASSUME NEW k \in 0..(n + 1)
        PROVE  h[k] = IF k = 0 THEN m ELSE ReadItem(T, h[k - 1], items[k])
    <3>1. CASE k = 0
      <4>1. 0 \in 0..n /\ g[0] = m
        BY <1>2
      <4>2. QED
        BY <3>1, <4>1
    <3>2. CASE k # 0 /\ k <= n
      <4>1. k \in 0..n /\ k - 1 \in 0..(n + 1) /\ k - 1 <= n
        BY <3>2
      <4>2. g[k] = ReadItem(T, g[k - 1], items[k])
        BY <1>2, <3>2, <4>1
      <4>3. h[k] = g[k] /\ h[k - 1] = g[k - 1]
        BY <3>2, <4>1
      <4>4. QED
        BY <3>2, <4>2, <4>3
    <3>3. CASE k = n + 1
      <4>1. n \in 0..(n + 1) /\ ~(n + 1 <= n) /\ (n + 1) - 1 = n /\ n + 1 # 0
        OBVIOUS
      <4>2. h[n + 1] = ReadItem(T, g[n], items[n + 1]) /\ h[n] = g[n]
        BY <4>1
      <4>3. QED
        BY <3>3, <4>1, <4>2
    <3>4. QED
      BY <3>1, <3>2, <3>3
  <2>2. DOMAIN h = 0..(n + 1)
    OBVIOUS
  <2>3. h = [k \in 0..(n + 1) |-> h[k]]
    OBVIOUS
  <2> HIDE DEF h
  <2>4. Loop(n + 1, h)
    BY <2>1, <2>2, <2>3
  <2>5. QED
    BY <2>4
<1>3. \A n \in Nat : \E g : Loop(n, g)
  <2> SUFFICES ASSUME Bad # {} PROVE FALSE
    BY DEF Bad
  <2>1. PICK n \in Bad : \A k \in Bad : n <= k
    BY LeastNumber
  <2>2. n \in Nat /\ n # 0
    BY <1>1, <2>1
  <2>3. n - 1 \in Nat /\ n - 1 \notin Bad /\ (n - 1) + 1 = n
    <3>1. n - 1 \in Nat /\ (n - 1) + 1 = n /\ ~ (n <= n - 1)
      BY <2>2
    <3>2. n - 1 \notin Bad
      BY <2>1, <3>1
    <3>3. QED
      BY <3>1, <3>2
  <2>4. PICK g : Loop(n - 1, g)
    BY <2>3
  <2>5. \E h : Loop((n - 1) + 1, h)
    BY <1>2, <2>3, <2>4
  <2>6. QED
    BY <2>1, <2>3, <2>5
<1> HIDE DEF Loop
<1> DEFINE read == CHOOSE g : Loop(Len(items), g)
<1>4. Loop(Len(items), read)
  BY <1>3
<1>5. ReadItems(T, m, items) = read[Len(items)]
  BY DEF ReadItems, Loop
<1> HIDE DEF read
<1>6. /\ DOMAIN read = 0..Len(items)
      /\ \A k \in 0..Len(items) :
            read[k] = IF k = 0 THEN m ELSE ReadItem(T, read[k - 1], items[k])
  BY <1>4 DEF Loop
<1>7. read[0] = m
  BY <1>6
<1>8. \A k \in 1..Len(items) : read[k] = ReadItem(T, read[k - 1], items[k])
  BY <1>6
<1>9. QED
  BY <1>5, <1>6, <1>7, <1>8
LEMMA ReadLoop ==
    ASSUME NEW T \in Types, NEW m, NEW wire
    PROVE  \E read : /\ DOMAIN read = 0..UnknownPlace(T)
                     /\ read[0] = m
                     /\ \A k \in 1..UnknownPlace(T) :
                           read[k] = ReadItems(T, read[k - 1], wire[k])
                     /\ Read(T, m, wire) = read[UnknownPlace(T)]
<1> DEFINE Loop(n, g) ==
               g = [k \in 0..n |-> IF k = 0 THEN m ELSE ReadItems(T, g[k - 1], wire[k])]
           None_(n) == ~ \E g : Loop(n, g)
           Bad == {n \in Nat : None_(n)}
<1>1. \E g : Loop(0, g)
  <2>1. Loop(0, [k \in 0..0 |-> m])
    OBVIOUS
  <2>2. QED
    BY <2>1
<1>2. ASSUME NEW n \in Nat, NEW g, Loop(n, g)
      PROVE  \E h : Loop(n + 1, h)
  <2> DEFINE h == [k \in 0..(n + 1) |->
                     IF k <= n THEN g[k] ELSE ReadItems(T, g[n], wire[n + 1])]
  <2>1. ASSUME NEW k \in 0..(n + 1)
        PROVE  h[k] = IF k = 0 THEN m ELSE ReadItems(T, h[k - 1], wire[k])
    <3>1. CASE k = 0
      <4>1. 0 \in 0..n /\ g[0] = m
        BY <1>2
      <4>2. QED
        BY <3>1, <4>1
    <3>2. CASE k # 0 /\ k <= n
      <4>1. k \in 0..n /\ k - 1 \in 0..(n + 1) /\ k - 1 <= n
        BY <3>2
      <4>2. g[k] = ReadItems(T, g[k - 1], wire[k])
        BY <1>2, <3>2, <4>1
      <4>3. h[k] = g[k] /\ h[k - 1] = g[k - 1]
        BY <3>2, <4>1
      <4>4. QED
        BY <3>2, <4>2, <4>3
    <3>3. CASE k = n + 1
      <4>1. n \in 0..(n + 1) /\ ~(n + 1 <= n) /\ (n + 1) - 1 = n /\ n + 1 # 0
        OBVIOUS
      <4>2. h[n + 1] = ReadItems(T, g[n], wire[n + 1]) /\ h[n] = g[n]
        BY <4>1
      <4>3. QED
        BY <3>3, <4>1, <4>2
    <3>4. QED
      BY <3>1, <3>2, <3>3
  <2>2. DOMAIN h = 0..(n + 1)
    OBVIOUS
  <2>3. h = [k \in 0..(n + 1) |-> h[k]]
    OBVIOUS
  <2> HIDE DEF h
  <2>4. Loop(n + 1, h)
    BY <2>1, <2>2, <2>3
  <2>5. QED
    BY <2>4
<1>3. \A n \in Nat : \E g : Loop(n, g)
  <2> SUFFICES ASSUME Bad # {} PROVE FALSE
    BY DEF Bad
  <2>1. PICK n \in Bad : \A k \in Bad : n <= k
    BY LeastNumber
  <2>2. n \in Nat /\ n # 0
    BY <1>1, <2>1
  <2>3. n - 1 \in Nat /\ n - 1 \notin Bad /\ (n - 1) + 1 = n
    <3>1. n - 1 \in Nat /\ (n - 1) + 1 = n /\ ~ (n <= n - 1)
      BY <2>2
    <3>2. n - 1 \notin Bad
      BY <2>1, <3>1
    <3>3. QED
      BY <3>1, <3>2
  <2>4. PICK g : Loop(n - 1, g)
    BY <2>3
  <2>5. \E h : Loop((n - 1) + 1, h)
    BY <1>2, <2>3, <2>4
  <2>6. QED
    BY <2>1, <2>3, <2>5
<1> HIDE DEF Loop
<1> DEFINE read == CHOOSE g : Loop(UnknownPlace(T), g)
<1>4. Loop(UnknownPlace(T), read)
  BY <1>3, ClassFacts
<1>5. Read(T, m, wire) = read[UnknownPlace(T)]
  BY DEF Read, Loop
<1> HIDE DEF read
<1>6. /\ DOMAIN read = 0..UnknownPlace(T)
      /\ \A k \in 0..UnknownPlace(T) :
            read[k] = IF k = 0 THEN m ELSE ReadItems(T, read[k - 1], wire[k])
  BY <1>4 DEF Loop
<1>7. read[0] = m
  BY <1>6, ClassFacts
<1>8. \A k \in 1..UnknownPlace(T) : read[k] = ReadItems(T, read[k - 1], wire[k])
  BY <1>6
<1>9. QED
  BY <1>5, <1>6, <1>7, <1>8

LEMMA HalfReadItems ==
    ASSUME Closed, NEW T \in Types, NEW d \in Nat, SmallerSurvive(d),
           NEW m, IsMessage(T, m, d), NEW t, NEW queues, HalfRead(T, m, t, queues),
           NEW i \in Places(T), IsSequence(queues[i])
    PROVE  HalfRead(T, m, ReadItems(T, t, queues[i]), [queues EXCEPT ![i] = <<>>])
<1> DEFINE q == queues[i]
           N == Len(q)
           After(k) == [queues EXCEPT ![i] = SubSeq(q, k + 1, N)]
<1>1. N \in Nat /\ SubSeq(q, 0 + 1, N) = q /\ SubSeq(q, N + 1, N) = <<>>
  <2>1. N \in Nat
    BY SequenceFacts
  <2>2. N + 1 \in Int /\ N \in Int /\ N < N + 1
    BY <2>1
  <2>3. SubSeq(q, N + 1, N) = <<>>
    BY <2>2, SubSeqEmpty
  <2>4. QED
    BY <2>1, <2>3, EmptySubSeq
<1>2. PICK read : /\ read[0] = t
                  /\ \A k \in 1..N : read[k] = ReadItem(T, read[k - 1], q[k])
                  /\ ReadItems(T, t, q) = read[N]
  <2>1. Len(q) \in Nat
    BY <1>1
  <2> HIDE DEF q
  <2>2. QED
    BY <2>1, ReadItemsLoop
<1>3. queues = [j \in Places(T) |-> queues[j]]
  BY DEF HalfRead
<1> DEFINE Bad == {k \in 0..N : ~ HalfRead(T, m, read[k], After(k))}
<1>4. Bad = {}
  <2> SUFFICES ASSUME Bad # {} PROVE FALSE
    OBVIOUS
  <2>1. Bad \subseteq Nat
    BY <1>1
  <2>2. PICK n \in Bad : \A k \in Bad : n <= k
    <3> HIDE DEF Bad
    <3> QED BY <2>1, LeastNumber
  <2>3. n \in 0..N /\ ~ HalfRead(T, m, read[n], After(n))
    BY <2>2
  <2>4. n # 0
    <3>1. After(0) = queues
      BY <1>1, <1>3
    <3>2. HalfRead(T, m, read[0], After(0))
      BY <1>2, <3>1
    <3>3. QED
      BY <2>3, <3>2
  <2>5. n - 1 \in 0..N /\ n - 1 \in Nat /\ n - 1 < N /\ n \in 1..N
    BY <1>1, <2>3, <2>4
  <2>6. HalfRead(T, m, read[n - 1], After(n - 1))
    <3>1. ~ (n <= n - 1)
      BY <2>5
    <3>2. n - 1 \notin Bad
      BY <2>2, <3>1
    <3>3. QED
      BY <2>5, <3>2
  <2>7. After(n - 1)[i] = SubSeq(q, (n - 1) + 1, N)
    BY <1>3
  <2>8. /\ SubSeq(q, (n - 1) + 1, N) # <<>>
        /\ Head(SubSeq(q, (n - 1) + 1, N)) = q[(n - 1) + 1]
        /\ Tail(SubSeq(q, (n - 1) + 1, N)) = SubSeq(q, (n - 1) + 2, N)
    BY <2>5, QueueFacts
  <2>9. (n - 1) + 1 = n /\ (n - 1) + 2 = n + 1
    BY <2>5
  <2>10. read[n] = ReadItem(T, read[n - 1], Head(After(n - 1)[i]))
    BY <1>2, <2>5, <2>7, <2>8, <2>9
  <2>11. [After(n - 1) EXCEPT ![i] = Tail(@)] = After(n)
    BY <1>3, <2>7, <2>8, <2>9
  <2>12. After(n - 1)[i] # <<>>
    BY <2>7, <2>8
  <2>13. HalfRead(T, m, ReadItem(T, read[n - 1], Head(After(n - 1)[i])),
                  [After(n - 1) EXCEPT ![i] = Tail(@)])
    <3> HIDE DEF After
    <3> QED BY <2>6, <2>12, HalfReadStep
  <2>14. QED
    <3> HIDE DEF After
    <3> QED BY <2>3, <2>10, <2>11, <2>13
<1>5. HalfRead(T, m, read[N], After(N))
  <2>1. N \in 0..N
    BY <1>1
  <2> HIDE DEF N, After
  <2>2. QED
    BY <1>4, <2>1
<1>6. QED
  BY <1>1, <1>2, <1>5

LEMMA MessageComesBack ==
    ASSUME Closed, NEW T \in Types, NEW d \in Nat, SmallerSurvive(d),
           NEW m, IsMessage(T, m, d)
    PROVE  Survives(T, m)
<1> DEFINE w == Write(T, m)
           N == UnknownPlace(T)
           After(k) == [j \in Places(T) |-> IF j <= k THEN <<>> ELSE w[j]]
<1>1. N \in Nat /\ Places(T) = 1..N
  BY ClassFacts
<1>2. PICK read : /\ read[0] = Create(T)
                  /\ \A k \in 1..N : read[k] = ReadItems(T, read[k - 1], w[k])
                  /\ Read(T, Create(T), w) = read[N]
  BY ReadLoop
<1>3. HalfRead(T, m, Create(T), w)
  BY HalfReadStarts
<1>4. w = [j \in Places(T) |-> w[j]]
  BY <1>3 DEF HalfRead
<1>5. ASSUME NEW j \in Places(T) PROVE IsSequence(w[j])
  <2>1. CASE j = N
    <3>1. w[j] = m.unknown
      BY <2>1 DEF Write
    <3>2. QED
      BY <3>1 DEF IsMessage
  <2>2. CASE j # N
    <3>1. j \in DOMAIN Schema[T]
      BY <2>2, ClassFacts
    <3>2. w[j] = Written(Schema[T][j], m[Schema[T][j].name])
      BY <2>2 DEF Write
    <3>3. IsValue(Schema[T][j], m[Schema[T][j].name], d)
      BY <3>1, FieldFacts DEF IsMessage
    <3>4. QED
      BY <3>2, <3>3, WrittenIsSequence
  <2>3. QED
    BY <2>1, <2>2
<1> HIDE DEF w
<1> DEFINE Bad == {k \in 0..N : ~ HalfRead(T, m, read[k], After(k))}
<1>6. Bad = {}
  <2> SUFFICES ASSUME Bad # {} PROVE FALSE
    OBVIOUS
  <2>1. Bad \subseteq Nat
    BY <1>1
  <2>2. PICK n \in Bad : \A k \in Bad : n <= k
    <3> HIDE DEF Bad
    <3> QED BY <2>1, LeastNumber
  <2>3. n \in 0..N /\ ~ HalfRead(T, m, read[n], After(n))
    BY <2>2
  <2>4. n # 0
    <3>1. \A j \in Places(T) : ~(j <= 0)
      BY <1>1
    <3>2. After(0) = w
      BY <1>4, <3>1
    <3>3. HalfRead(T, m, read[0], After(0))
      BY <1>2, <1>3, <3>2
    <3>4. QED
      BY <2>3, <3>3
  <2>5. n - 1 \in 0..N /\ n \in Nat /\ n \in 1..N /\ n \in Places(T)
    BY <1>1, <2>3, <2>4
  <2>6. HalfRead(T, m, read[n - 1], After(n - 1))
    <3>1. ~ (n <= n - 1)
      BY <2>5
    <3>2. n - 1 \notin Bad
      BY <2>2, <3>1
    <3>3. QED
      BY <2>5, <3>2
  <2>7. After(n - 1)[n] = w[n]
    <3>1. ~ (n <= n - 1)
      BY <2>5
    <3>2. QED
      BY <2>5, <3>1
  <2>8. [After(n - 1) EXCEPT ![n] = <<>>] = After(n)
    <3>1. \A j \in Places(T) : j # n => (j <= n - 1 <=> j <= n)
      BY <1>1, <2>5
    <3>2. n <= n
      BY <2>5
    <3>3. QED
      BY <2>5, <3>1, <3>2
  <2>9. HalfRead(T, m, ReadItems(T, read[n - 1], After(n - 1)[n]),
                 [After(n - 1) EXCEPT ![n] = <<>>])
    <3>1. IsSequence(After(n - 1)[n])
      BY <1>5, <2>5, <2>7
    <3> HIDE DEF After
    <3> QED BY <2>5, <2>6, <3>1, HalfReadItems
  <2>10. read[n] = ReadItems(T, read[n - 1], w[n])
    BY <1>2, <2>5
  <2>11. QED
    <3> HIDE DEF After
    <3> QED BY <2>3, <2>7, <2>8, <2>9, <2>10
<1>7. HalfRead(T, m, read[N], After(N))
  BY <1>1, <1>6
<1>8. \A j \in Places(T) : After(N)[j] = <<>>
  BY <1>1
<1>9. read[N] = m
  <2> HIDE DEF After
  <2> QED BY <1>7, <1>8, HalfReadEnds
<1>10. QED
  BY <1>2, <1>9 DEF Survives, w

(* By induction on the depth, every message survives: the codec is the
   identity. *)
THEOREM EveryMessageReadsBack ==
    ASSUME Closed
    PROVE  \A d \in Nat : \A T \in Types : \A m :
               IsMessage(T, m, d) => Read(T, Create(T), Write(T, m)) = m
<1> DEFINE Bad == {d \in Nat : \E T \in Types : \E m :
                                    IsMessage(T, m, d) /\ ~ Survives(T, m)}
<1>1. Bad = {}
  <2> SUFFICES ASSUME Bad # {} PROVE FALSE
    OBVIOUS
  <2>1. PICK d \in Bad : \A c \in Bad : d <= c
    <3>1. Bad \subseteq Nat
      OBVIOUS
    <3> HIDE DEF Bad
    <3> QED BY <3>1, LeastNumber
  <2>2. d \in Nat /\ \E T \in Types : \E m : IsMessage(T, m, d) /\ ~ Survives(T, m)
    BY <2>1
  <2>3. SmallerSurvive(d)
    <3> SUFFICES ASSUME NEW c \in 0..(d - 1), NEW U \in Types, NEW e, IsMessage(U, e, c)
                 PROVE  Survives(U, e)
      BY DEF SmallerSurvive
    <3>1. c \in Nat /\ ~(d <= c)
      BY <2>2
    <3>2. c \notin Bad
      BY <2>1, <3>1
    <3>3. QED
      BY <3>1, <3>2
  <2>4. QED
    BY <2>2, <2>3, MessageComesBack
<1>2. QED
  BY <1>1 DEF Survives

-----------------------------------------------------------------------------
(* A packed field of which the sender makes several runs. *)
LEMMA HalfSplits ==
    ASSUME NEW f, f.rule = "packed", NEW v, IsSequence(v), NEW w, NEW q, q # <<>>,
           Half(f, v, w, q), Len(Head(q).value.run) > 1
    PROVE  Half(f, v, w, <<Run(f.no, <<Head(Head(q).value.run)>>),
                           Run(f.no, Tail(Head(q).value.run))>> \o Tail(q))
<1>1. PICK n \in 0..Len(v) :
          /\ w = SubSeq(v, 1, n)
          /\ \/ n = Len(v) /\ q = <<>>
             \/ n < Len(v) /\ q = <<Run(f.no, SubSeq(v, n + 1, Len(v)))>>
             \/ /\ n + 1 < Len(v)
                /\ q = <<Run(f.no, SubSeq(v, n + 1, n + 1)),
                         Run(f.no, SubSeq(v, n + 2, Len(v)))>>
  BY DEF Half
<1>2. Len(v) \in Nat /\ v \in Seq(ToSet(v)) /\ n \in Nat
  BY SequenceFacts
<1>3. CASE n < Len(v) /\ q = <<Run(f.no, SubSeq(v, n + 1, Len(v)))>>
  <2> DEFINE values == SubSeq(v, n + 1, Len(v))
  <2>1. Head(q).value.run = values /\ Tail(q) = <<>>
    BY <1>3 DEF Run, Item
  <2>2. Head(values) = v[n + 1] /\ Tail(values) = SubSeq(v, n + 2, Len(v))
    BY <1>2, <1>3, QueueFacts
  <2>3. n + 1 < Len(v)
    <3>1. \A i \in (n + 1)..Len(v) : v[i] \in ToSet(v)
      BY <1>2, ElementOfSeq
    <3>2. n + 1 \in Int /\ Len(v) \in Int
      BY <1>2
    <3>3. Len(values) = IF n + 1 <= Len(v) THEN Len(v) - (n + 1) + 1 ELSE 0
      BY <3>1, <3>2, SubSeqProperties
    <3>4. Len(values) > 1
      BY <2>1
    <3>5. QED
      BY <3>3, <3>4, <1>2
  <2>4. <<v[n + 1]>> = SubSeq(v, n + 1, n + 1)
    <3>1. n + 1 \in 1..Len(v) /\ n + 1 \in (n + 1)..Len(v) /\ (n + 1) - 1 = n
      BY <1>2, <1>3
    <3>2. SubSeq(v, n + 1, n + 1) = SubSeq(v, n + 1, (n + 1) - 1) \o <<v[n + 1]>>
      BY <1>2, <3>1, SubSeqRecursiveSecond
    <3>3. SubSeq(v, n + 1, (n + 1) - 1) = <<>>
      <4>1. n + 1 \in Int /\ (n + 1) - 1 \in Int /\ (n + 1) - 1 < n + 1
        BY <1>2
      <4>2. QED
        BY <4>1, SubSeqEmpty
    <3>4. <<v[n + 1]>> \in Seq({v[n + 1]})
      OBVIOUS
    <3>5. <<>> \o <<v[n + 1]>> = <<v[n + 1]>>
      BY <3>4, ConcatEmptySeq
    <3>6. QED
      BY <3>2, <3>3, <3>5
  <2> DEFINE two == <<Run(f.no, <<Head(values)>>), Run(f.no, Tail(values))>>
  <2>5. two \o Tail(q) = two
    <3>1. two \in Seq({Run(f.no, <<Head(values)>>), Run(f.no, Tail(values))})
      <4>1. ASSUME NEW a, NEW b PROVE <<a, b>> \in Seq({a, b})
        OBVIOUS
      <4>2. QED
        BY <4>1
    <3> HIDE DEF two
    <3>2. two \o <<>> = two
      BY <3>1, ConcatEmptySeq
    <3>3. QED
      BY <3>2, <2>1
  <2>6. two = <<Run(f.no, SubSeq(v, n + 1, n + 1)), Run(f.no, SubSeq(v, n + 2, Len(v)))>>
    BY <2>2, <2>4
  <2>7. Half(f, v, w, two)
    <3> HIDE DEF two
    <3>1. n \in 0..Len(v)
      BY <1>1
    <3>2. QED
      BY <3>1, <1>1, <2>3, <2>6 DEF Half
  <2>8. QED
    BY <2>1, <2>5, <2>7
<1>4. ~ (/\ n + 1 < Len(v)
         /\ q = <<Run(f.no, SubSeq(v, n + 1, n + 1)),
                  Run(f.no, SubSeq(v, n + 2, Len(v)))>>)
  <2> SUFFICES ASSUME n + 1 < Len(v),
                      q = <<Run(f.no, SubSeq(v, n + 1, n + 1)),
                            Run(f.no, SubSeq(v, n + 2, Len(v)))>>
               PROVE  FALSE
    OBVIOUS
  <2>1. Head(q).value.run = SubSeq(v, n + 1, n + 1)
    BY DEF Run, Item
  <2>2. \A i \in (n + 1)..(n + 1) : v[i] \in ToSet(v)
    <3>1. \A i \in (n + 1)..(n + 1) : i \in 1..Len(v)
      BY <1>2
    <3>2. QED
      BY <1>2, <3>1, ElementOfSeq
  <2>3. n + 1 \in Int
    BY <1>2
  <2>4. Len(SubSeq(v, n + 1, n + 1)) =
            IF n + 1 <= n + 1 THEN (n + 1) - (n + 1) + 1 ELSE 0
    BY <2>2, <2>3, SubSeqProperties
  <2>5. Len(SubSeq(v, n + 1, n + 1)) = 1
    BY <2>3, <2>4
  <2>6. Len(SubSeq(v, n + 1, n + 1)) > 1
    BY <2>1
  <2>7. QED
    BY <2>5, <2>6
<1>5. QED
  BY <1>1, <1>3, <1>4

LEMMA HalfReadSplits ==
    ASSUME NEW T \in Types, NEW d, NEW m, IsMessage(T, m, d), NEW t, NEW queues,
           HalfRead(T, m, t, queues), NEW i \in DOMAIN Schema[T],
           Schema[T][i].rule = "packed", queues[i] # <<>>,
           Len(Head(queues[i]).value.run) > 1
    PROVE  HalfRead(T, m, t,
               [queues EXCEPT ![i] =
                   <<Run(Schema[T][i].no, <<Head(Head(queues[i]).value.run)>>),
                     Run(Schema[T][i].no, Tail(Head(queues[i]).value.run))>> \o Tail(@)])
<1> DEFINE f == Schema[T][i]
           new == <<Run(f.no, <<Head(Head(queues[i]).value.run)>>),
                    Run(f.no, Tail(Head(queues[i]).value.run))>> \o Tail(queues[i])
           left == [queues EXCEPT ![i] = new]
<1>1. /\ t = [n \in Names(T) \cup {"unknown"} |-> t[n]]
      /\ queues = [j \in Places(T) |-> queues[j]]
      /\ \A j \in DOMAIN Schema[T] :
            Half(Schema[T][j], m[Schema[T][j].name], t[Schema[T][j].name], queues[j])
      /\ HalfUnknown(m.unknown, t.unknown, queues[UnknownPlace(T)])
  BY DEF HalfRead
<1>2. Half(f, m[f.name], t[f.name], new)
  <2>1. IsSequence(m[f.name])
    <3>1. IsValue(f, m[f.name], d)
      BY FieldFacts DEF IsMessage
    <3>2. QED
      BY <3>1 DEF IsValue
  <2>2. Half(f, m[f.name], t[f.name], queues[i])
    BY <1>1
  <2>3. QED
    BY <2>1, <2>2, HalfSplits
<1>3. UnknownPlace(T) # i /\ i \in Places(T) /\ UnknownPlace(T) \in Places(T)
      /\ DOMAIN Schema[T] \subseteq Places(T)
  BY ClassFacts
<1> HIDE DEF new
<1>4. /\ left = [j \in Places(T) |-> left[j]] /\ left[i] = new
      /\ \A j \in Places(T) : j # i => left[j] = queues[j]
  BY <1>1, <1>3
<1> HIDE DEF left
<1>5. \A j \in DOMAIN Schema[T] :
          Half(Schema[T][j], m[Schema[T][j].name], t[Schema[T][j].name], left[j])
  BY <1>1, <1>2, <1>3, <1>4
<1>6. HalfUnknown(m.unknown, t.unknown, left[UnknownPlace(T)])
  BY <1>1, <1>3, <1>4
<1>7. HalfRead(T, m, t, left)
  BY <1>1, <1>4, <1>5, <1>6 DEF HalfRead
<1>8. QED
  BY <1>7 DEF left, new

-----------------------------------------------------------------------------
(* The classes a token is made of. *)
LEMMA TokenClasses ==
    /\ {"AuthToken", "Payload", "Signature"} \subseteq Types
    /\ Schema["AuthToken"] = AuthToken
    /\ Schema["Payload"] = Payload
    /\ Schema["Signature"] = Signature
<1>1. {"AuthToken", "Payload", "Signature"} \subseteq DOMAIN NodeApiSchema
  BY DEF NodeApiSchema
<1>2. /\ NodeApiSchema["AuthToken"] = AuthToken
      /\ NodeApiSchema["Payload"] = Payload
      /\ NodeApiSchema["Signature"] = Signature
  BY DEF NodeApiSchema
<1>3. {"AuthToken", "Payload", "Signature"} \subseteq Types
  BY <1>1 DEF Types
<1>4. QED
  BY <1>1, <1>2, <1>3 DEF Schema

LEMMA AuthTokenFields ==
    /\ Fields("AuthToken") = {Message(1, "signature", "Signature"),
                              Message(2, "payload", "Payload")}
    /\ Names("AuthToken") = {"signature", "payload"}
    /\ Cases("AuthToken") = {}
<1>1. Fields("AuthToken") = {Message(1, "signature", "Signature"),
                             Message(2, "payload", "Payload")}
  <2>1. Schema["AuthToken"] = AuthToken
    BY TokenClasses
  <2>2. QED
    BY <2>1 DEF Fields, ToSet, AuthToken
<1>2. Names("AuthToken") = {"signature", "payload"}
  <2>1. /\ Message(1, "signature", "Signature").name = "signature"
        /\ Message(2, "payload", "Payload").name = "payload"
    BY DEF Message, Field
  <2>2. QED
    BY <2>1, <1>1 DEF Names
<1>3. Cases("AuthToken") = {}
  BY <1>1 DEF Cases, Message, Field
<1>4. QED
  BY <1>1, <1>2, <1>3

LEMMA PayloadFields ==
    /\ Fields("Payload") =
          {Message(1, "prev", "AuthToken"), Optional(2, "subject"),
           Optional(3, "canDelegate"), Optional(4, "bucketId"), Packed(5, "operations"),
           Optional(6, "expiresAt"), Optional(7, "pieceCid")}
    /\ Names("Payload") = {"prev", "subject", "canDelegate", "bucketId", "operations",
                           "expiresAt", "pieceCid"}
    /\ Cases("Payload") = {}
<1>1. Fields("Payload") =
          {Message(1, "prev", "AuthToken"), Optional(2, "subject"),
           Optional(3, "canDelegate"), Optional(4, "bucketId"), Packed(5, "operations"),
           Optional(6, "expiresAt"), Optional(7, "pieceCid")}
  <2>1. Schema["Payload"] = Payload
    BY TokenClasses
  <2>2. QED
    BY <2>1 DEF Fields, ToSet, Payload
<1>2. Names("Payload") = {"prev", "subject", "canDelegate", "bucketId", "operations",
                          "expiresAt", "pieceCid"}
  <2>1. /\ Message(1, "prev", "AuthToken").name = "prev"
        /\ Optional(2, "subject").name = "subject"
        /\ Optional(3, "canDelegate").name = "canDelegate"
        /\ Optional(4, "bucketId").name = "bucketId"
        /\ Packed(5, "operations").name = "operations"
        /\ Optional(6, "expiresAt").name = "expiresAt"
        /\ Optional(7, "pieceCid").name = "pieceCid"
    BY DEF Message, Optional, Packed, Field
  <2>2. QED
    BY <2>1, <1>1 DEF Names
<1>3. Cases("Payload") = {}
  BY <1>1 DEF Cases, Message, Optional, Packed, Field
<1>4. QED
  BY <1>1, <1>2, <1>3

LEMMA SignatureFields ==
    /\ Fields("Signature") = {Plain(1, "algorithm"), Plain(2, "signer"), Plain(3, "value")}
    /\ Names("Signature") = {"algorithm", "signer", "value"}
    /\ Cases("Signature") = {}
<1>1. Fields("Signature") = {Plain(1, "algorithm"), Plain(2, "signer"), Plain(3, "value")}
  <2>1. Schema["Signature"] = Signature
    BY TokenClasses
  <2>2. QED
    BY <2>1 DEF Fields, ToSet, Signature
<1>2. Names("Signature") = {"algorithm", "signer", "value"}
  <2>1. /\ Plain(1, "algorithm").name = "algorithm"
        /\ Plain(2, "signer").name = "signer"
        /\ Plain(3, "value").name = "value"
    BY DEF Plain, Field
  <2>2. QED
    BY <2>1, <1>1 DEF Names
<1>3. Cases("Signature") = {}
  BY <1>1 DEF Cases, Plain, Field
<1>4. QED
  BY <1>1, <1>2, <1>3

-----------------------------------------------------------------------------
(* Signing: the result is a message whose signature verifies. *)
SignatureBy(T, m, account) ==
    [Create("Signature") EXCEPT
        !.signer = account, !.value = [by |-> account, over |-> Write(T, m)]]

LEMMA SignatureFacts ==
    ASSUME NEW T, NEW m, NEW account
    PROVE  LET s == SignatureBy(T, m, account)
           IN  /\ IsMessage("Signature", s, 0)
               /\ s.signer = account
               /\ s.value = [by |-> account, over |-> Write(T, m)]
<1> DEFINE s == SignatureBy(T, m, account)
           N == {"algorithm", "signer", "value", "unknown"}
<1>1. Names("Signature") \cup {"unknown"} = N
  BY SignatureFields
<1>2. /\ Create("Signature") = [n \in N |-> Create("Signature")[n]]
      /\ Create("Signature").unknown = <<>>
  BY <1>1, CreateFacts, TokenClasses
<1>3. /\ s = [n \in N |-> s[n]] /\ s.signer = account
      /\ s.value = [by |-> account, over |-> Write(T, m)]
      /\ s.unknown = <<>>
  BY <1>2 DEF SignatureBy
<1> HIDE DEF s
<1>4. \A f \in Fields("Signature") : IsValue(f, s[f.name], 0)
  BY SignatureFields DEF IsValue, IsPart, Plain, Field
<1>5. IsSequence(s.unknown) /\ DOMAIN s.unknown = {}
  <2>1. IsSequence(<<>>)
    BY EmptySeq, SeqIsSequence
  <2>2. Len(<<>>) = 0 /\ DOMAIN <<>> = 1..Len(<<>>)
    BY <2>1, SequenceFacts
  <2>3. QED
    BY <2>1, <2>2, <1>3
<1>6. IsMessage("Signature", s, 0)
  BY <1>1, <1>3, <1>4, <1>5, SignatureFields DEF IsMessage
<1>7. QED
  BY <1>3, <1>6 DEF s

LEMMA SignedFacts ==
    ASSUME Closed, NEW T \in Types, "signature" \in Names(T), NEW m, HasFields(T, m),
           m.signature = None, NEW account
    PROVE  LET s == Signed(T, m, account)
           IN  /\ HasFields(T, s)
               /\ s.signature = SignatureBy(T, m, account)
               /\ s.signature.signer = account
               /\ \A n \in Names(T) \cup {"unknown"} : n # "signature" => s[n] = m[n]
               /\ Verifies(T, s)
<1> DEFINE s == Signed(T, m, account)
           g == SignatureBy(T, m, account)
           N == Names(T) \cup {"unknown"}
<1>1. m = [n \in N |-> m[n]] /\ "signature" \in N
  BY DEF HasFields
<1>2. s = [m EXCEPT !.signature = g]
  BY DEF Signed, SignatureBy
<1>3. /\ IsMessage("Signature", g, 0) /\ g.signer = account
      /\ g.value = [by |-> account, over |-> Write(T, m)]
  BY SignatureFacts
<1>4. g # None
  BY <1>3, TokenClasses DEF Closed
<1> HIDE DEF g, s
<1>5. /\ s = [n \in N |-> s[n]] /\ s.signature = g
      /\ \A n \in N : n # "signature" => s[n] = m[n]
  BY <1>1, <1>2
<1>6. [s EXCEPT !.signature = None] = m
  <2>1. [s EXCEPT !.signature = None] = [n \in N |-> IF n = "signature" THEN None ELSE s[n]]
    BY <1>5
  <2>2. \A n \in N : (IF n = "signature" THEN None ELSE s[n]) = m[n]
    BY <1>5
  <2>3. QED
    BY <2>1, <2>2, <1>1
<1>7. Verifies(T, s)
  BY <1>3, <1>4, <1>5, <1>6 DEF Verifies
<1>8. QED
  BY <1>3, <1>5, <1>7 DEF g, s, HasFields

LEMMA DeeperValue ==
    ASSUME NEW f, NEW v, NEW d \in Nat, IsValue(f, v, d)
    PROVE  IsValue(f, v, d + 1)
<1>1. \A e : IsPart(f, e, d) => IsPart(f, e, d + 1)
  <2> SUFFICES ASSUME NEW e, IsPart(f, e, d), f.kind # "scalar"
               PROVE  IsPart(f, e, d + 1)
    BY DEF IsPart
  <2>1. PICK c \in 0..(d - 1) : IsNested(f.kind, e, c)
    BY DEF IsPart
  <2>2. c \in 0..((d + 1) - 1)
    BY <2>1
  <2>3. QED
    BY <2>1, <2>2 DEF IsPart
<1>2. CASE f.rule = "packed"
  BY <1>2 DEF IsValue
<1>3. CASE f.rule = "unpacked"
  BY <1>1, <1>3 DEF IsValue
<1>4. CASE f.rule \notin {"packed", "unpacked"}
  BY <1>1, <1>4 DEF IsValue
<1>5. QED
  BY <1>2, <1>3, <1>4

LEMMA SignedIsMessage ==
    ASSUME Closed, NEW T \in Types, "signature" \in Names(T), NEW d \in Nat,
           NEW m, IsMessage(T, m, d), m.signature = None, NEW account
    PROVE  IsMessage(T, Signed(T, m, account), d + 1)
<1> DEFINE s == Signed(T, m, account)
           g == SignatureBy(T, m, account)
           N == Names(T) \cup {"unknown"}
<1>1. HasFields(T, m)
  BY DEF HasFields, IsMessage
<1>2. /\ HasFields(T, s) /\ s.signature = g
      /\ \A n \in N : n # "signature" => s[n] = m[n]
  BY <1>1, SignedFacts
<1>3. IsMessage("Signature", g, 0)
  BY SignatureFacts
<1> HIDE DEF s, g
<1>4. "signature" \notin Cases(T) /\ Cases(T) \subseteq Names(T)
  BY SchemaAssumption DEF Cases, Names, Message, Field
<1>5. "unknown" \notin Names(T)
  BY ClassFacts
<1>6. s.unknown = m.unknown
  BY <1>2, <1>5
<1>7. ASSUME NEW f \in Fields(T)
      PROVE  IsValue(f, s[f.name], d + 1)
  <2>1. CASE f.name = "signature"
    <3>1. f.rule = "optional" /\ f.kind = "Signature"
      BY <2>1, SchemaAssumption DEF Message, Field
    <3>2. IsNested("Signature", g, 0)
      BY <1>3, TokenClasses DEF Closed
    <3>3. 0 \in 0..((d + 1) - 1)
      OBVIOUS
    <3>4. IsPart(f, g, d + 1)
      BY <3>1, <3>2, <3>3 DEF IsPart
    <3>5. QED
      BY <1>2, <2>1, <3>1, <3>4 DEF IsValue
  <2>2. CASE f.name # "signature"
    <3>1. s[f.name] = m[f.name]
      BY <1>2, <2>2 DEF Names
    <3>2. IsValue(f, m[f.name], d)
      BY DEF IsMessage
    <3>3. QED
      BY <3>1, <3>2, DeeperValue
  <2>3. QED
    BY <2>1, <2>2
<1>8. \A c1, c2 \in Cases(T) : s[c1] # None /\ s[c2] # None => c1 = c2
  <2>1. \A c \in Cases(T) : s[c] = m[c]
    BY <1>2, <1>4
  <2>2. QED
    BY <2>1 DEF IsMessage
<1>9. /\ IsSequence(s.unknown)
      /\ \A k \in DOMAIN s.unknown : s.unknown[k].no = UnknownNo
  BY <1>6 DEF IsMessage
<1>10. IsMessage(T, s, d + 1)
  BY <1>2, <1>7, <1>8, <1>9 DEF IsMessage, HasFields
<1>11. QED
  BY <1>10 DEF s

-----------------------------------------------------------------------------
(* A token that is signed and says what it is for. *)
IsToken(t, d) ==
    /\ IsMessage("AuthToken", t, d)
    /\ Verifies("AuthToken", t)
    /\ HasFields("Payload", t.payload)
    /\ t.payload.unknown = <<>>
    /\ IsSequence(t.payload.operations)
    /\ t.payload.canDelegate \in BOOLEAN
    /\ t.payload.expiresAt \in Nat

IsParams(params) ==
    /\ IsSequence(params.operations)
    /\ params.canDelegate \in BOOLEAN \cup {None}
    /\ params.expiresAt \in Nat \cup {None}

(* What the constructor makes of its parameters. *)
CanDelegate(params) == IF params.canDelegate = None THEN FALSE ELSE params.canDelegate
ExpiresAt(params) == IF params.expiresAt = None THEN DefaultExpiry ELSE params.expiresAt

IsPayload(p, params, prev) ==
    /\ HasFields("Payload", p)
    /\ p.prev = prev /\ p.subject = params.subject /\ p.operations = params.operations
    /\ p.bucketId = params.bucketId /\ p.pieceCid = params.pieceCid
    /\ p.canDelegate = CanDelegate(params) /\ p.expiresAt = ExpiresAt(params)
    /\ p.unknown = <<>>

LEMMA NewTokenFacts ==
    ASSUME NEW params, NEW prev
    PROVE  LET t == NewToken(params, prev)
           IN  /\ HasFields("AuthToken", t)
               /\ t.signature = None /\ t.unknown = <<>>
               /\ IsPayload(t.payload, params, prev)
<1> DEFINE c == Create("Payload")
           p == [c EXCEPT
                    !.prev = prev,
                    !.subject = params.subject,
                    !.operations = params.operations,
                    !.bucketId = params.bucketId,
                    !.pieceCid = params.pieceCid,
                    !.canDelegate = CanDelegate(params),
                    !.expiresAt = ExpiresAt(params)]
           N == {"prev", "subject", "canDelegate", "bucketId", "operations", "expiresAt",
                 "pieceCid", "unknown"}
<1>1. Names("Payload") \cup {"unknown"} = N
  BY PayloadFields
<1>2. c = [n \in N |-> c[n]] /\ c.unknown = <<>>
  <2>1. /\ c = [n \in Names("Payload") \cup {"unknown"} |-> c[n]]
        /\ c.unknown = <<>>
    BY CreateFacts, TokenClasses
  <2>2. QED
    BY <2>1, <1>1
<1>3. IsPayload(p, params, prev)
  <2> HIDE DEF c
  <2>1. /\ p = [n \in N |-> p[n]]
        /\ p.prev = prev /\ p.subject = params.subject
        /\ p.operations = params.operations
        /\ p.bucketId = params.bucketId /\ p.pieceCid = params.pieceCid
        /\ p.canDelegate = CanDelegate(params) /\ p.expiresAt = ExpiresAt(params)
        /\ p.unknown = <<>>
    BY <1>2
  <2> HIDE DEF p, N
  <2>2. QED
    BY <1>1, <2>1 DEF IsPayload, HasFields
<1> DEFINE a == Create("AuthToken")
           M == {"signature", "payload", "unknown"}
<1>4. Names("AuthToken") \cup {"unknown"} = M
  BY AuthTokenFields
<1>5. a = [n \in M |-> a[n]] /\ a.unknown = <<>> /\ a.signature = None
  <2>1. /\ a = [n \in Names("AuthToken") \cup {"unknown"} |-> a[n]]
        /\ a.unknown = <<>>
        /\ \A i \in DOMAIN Schema["AuthToken"] :
              a[Schema["AuthToken"][i].name] = Absent(Schema["AuthToken"][i])
    BY CreateFacts, TokenClasses
  <2>2. /\ 1 \in DOMAIN Schema["AuthToken"]
        /\ Schema["AuthToken"][1] = Message(1, "signature", "Signature")
    BY TokenClasses DEF AuthToken
  <2>3. /\ Message(1, "signature", "Signature").name = "signature"
        /\ Absent(Message(1, "signature", "Signature")) = None
    BY DEF Message, Field, Absent
  <2> HIDE DEF a
  <2>4. a.signature = None
    BY <2>1, <2>2, <2>3
  <2>5. QED
    BY <2>1, <2>4, <1>4
<1>6. NewToken(params, prev) = [a EXCEPT !.payload = p]
  BY DEF NewToken, CanDelegate, ExpiresAt
<1> HIDE DEF a, p
<1>7. LET t == [a EXCEPT !.payload = p]
      IN  /\ t = [n \in M |-> t[n]] /\ t.payload = p
          /\ t.signature = None /\ t.unknown = <<>>
  BY <1>5
<1>8. QED
  BY <1>3, <1>4, <1>6, <1>7 DEF HasFields

LEMMA PayloadIsMessage ==
    ASSUME Closed, NEW d \in Nat, NEW params, IsParams(params), NEW prev,
           prev = None \/ IsMessage("AuthToken", prev, d),
           NEW p, IsPayload(p, params, prev)
    PROVE  IsMessage("Payload", p, d + 1)
<1>1. p = [n \in Names("Payload") \cup {"unknown"} |-> p[n]]
  BY DEF IsPayload, HasFields
<1>2. ASSUME NEW f \in Fields("Payload")
      PROVE  IsValue(f, p[f.name], d + 1)
  <2>1. CASE f.kind = "scalar" /\ f.rule \notin {"packed", "unpacked"}
    BY <2>1 DEF IsValue, IsPart
  <2>2. CASE f = Packed(5, "operations")
    <3>1. f.rule = "packed" /\ f.name = "operations"
      BY <2>2 DEF Packed, Field
    <3>2. IsSequence(p.operations)
      BY DEF IsPayload, IsParams
    <3>3. QED
      BY <3>1, <3>2 DEF IsValue
  <2>3. CASE f = Message(1, "prev", "AuthToken")
    <3>1. f.rule = "optional" /\ f.name = "prev" /\ f.kind = "AuthToken"
      BY <2>3 DEF Message, Field
    <3>2. p.prev = prev
      BY DEF IsPayload
    <3>3. CASE prev = None
      BY <3>1, <3>2, <3>3 DEF IsValue, Absent
    <3>4. CASE IsMessage("AuthToken", prev, d)
      <4>1. IsNested("AuthToken", prev, d)
        BY <3>4, TokenClasses DEF Closed
      <4>2. d \in 0..((d + 1) - 1)
        OBVIOUS
      <4>3. IsPart(f, prev, d + 1)
        BY <3>1, <4>1, <4>2 DEF IsPart
      <4>4. QED
        BY <3>1, <3>2, <4>3 DEF IsValue
    <3>5. QED
      BY <3>3, <3>4
  <2>4. \A no, name : /\ Optional(no, name).kind = "scalar"
                     /\ Optional(no, name).rule = "optional"
    BY DEF Optional, Field
  <2>5. \/ f = Message(1, "prev", "AuthToken") \/ f = Packed(5, "operations")
        \/ \E no, name : f = Optional(no, name)
    BY PayloadFields
  <2>6. QED
    BY <2>1, <2>2, <2>3, <2>4, <2>5
<1>3. IsSequence(p.unknown) /\ DOMAIN p.unknown = {}
  <2>1. p.unknown = <<>>
    BY DEF IsPayload
  <2>2. IsSequence(<<>>)
    BY EmptySeq, SeqIsSequence
  <2>3. Len(<<>>) = 0 /\ DOMAIN <<>> = 1..Len(<<>>)
    BY <2>2, SequenceFacts
  <2>4. QED
    BY <2>1, <2>2, <2>3
<1>4. QED
  BY <1>1, <1>2, <1>3, PayloadFields DEF IsMessage

LEMMA NewTokenIsMessage ==
    ASSUME Closed, NEW d \in Nat, NEW params, IsParams(params), NEW prev,
           prev = None \/ IsMessage("AuthToken", prev, d)
    PROVE  IsMessage("AuthToken", NewToken(params, prev), d + 2)
<1> DEFINE t == NewToken(params, prev)
<1>1. /\ HasFields("AuthToken", t)
      /\ t.signature = None /\ t.unknown = <<>>
      /\ IsPayload(t.payload, params, prev)
  BY NewTokenFacts
<1> HIDE DEF t
<1>2. IsMessage("Payload", t.payload, d + 1)
  BY <1>1, PayloadIsMessage
<1>3. ASSUME NEW f \in Fields("AuthToken")
      PROVE  IsValue(f, t[f.name], d + 2)
  <2>1. CASE f = Message(1, "signature", "Signature")
    <3>1. f.rule = "optional" /\ f.name = "signature"
      BY <2>1 DEF Message, Field
    <3>2. QED
      BY <1>1, <3>1 DEF IsValue, Absent
  <2>2. CASE f = Message(2, "payload", "Payload")
    <3>1. f.rule = "optional" /\ f.name = "payload" /\ f.kind = "Payload"
      BY <2>2 DEF Message, Field
    <3>2. IsNested("Payload", t.payload, d + 1)
      BY <1>2, TokenClasses DEF Closed
    <3>3. d + 1 \in 0..((d + 2) - 1)
      OBVIOUS
    <3>4. IsPart(f, t.payload, d + 2)
      BY <3>1, <3>2, <3>3 DEF IsPart
    <3>5. QED
      BY <3>1, <3>4 DEF IsValue
  <2>3. QED
    BY <2>1, <2>2, AuthTokenFields
<1>4. IsSequence(t.unknown) /\ DOMAIN t.unknown = {}
  <2>1. IsSequence(<<>>)
    BY EmptySeq, SeqIsSequence
  <2>2. Len(<<>>) = 0 /\ DOMAIN <<>> = 1..Len(<<>>)
    BY <2>1, SequenceFacts
  <2>3. QED
    BY <1>1, <2>1, <2>2
<1>5. IsMessage("AuthToken", t, d + 2)
  BY <1>1, <1>3, <1>4, AuthTokenFields DEF IsMessage, HasFields
<1>6. QED
  BY <1>5 DEF t

(* A new token, signed. *)
LEMMA SignedTokenFacts ==
    ASSUME Closed, NEW d \in Nat, NEW params, IsParams(params), NEW prev,
           prev = None \/ IsMessage("AuthToken", prev, d), NEW account
    PROVE  LET t == Sign(NewToken(params, prev), account)
           IN  /\ IsToken(t, d + 3)
               /\ IsPayload(t.payload, params, prev)
               /\ Signer(t) = account
<1> DEFINE n == NewToken(params, prev)
           t == Sign(n, account)
<1>1. /\ HasFields("AuthToken", n) /\ n.signature = None
      /\ IsPayload(n.payload, params, prev)
  BY NewTokenFacts
<1>2. IsMessage("AuthToken", n, d + 2)
  BY NewTokenIsMessage
<1> HIDE DEF n
<1>3. "AuthToken" \in Types /\ "signature" \in Names("AuthToken")
      /\ "payload" \in Names("AuthToken") \cup {"unknown"}
  BY TokenClasses, AuthTokenFields
<1>4. /\ t.signature.signer = account
      /\ \A x \in Names("AuthToken") \cup {"unknown"} : x # "signature" => t[x] = n[x]
      /\ Verifies("AuthToken", t)
  BY <1>1, <1>3, SignedFacts DEF Sign
<1>5. t.payload = n.payload
  BY <1>3, <1>4
<1>6. IsMessage("AuthToken", t, d + 3)
  <2>1. IsMessage("AuthToken", t, (d + 2) + 1)
    BY <1>1, <1>2, <1>3, SignedIsMessage DEF Sign
  <2>2. (d + 2) + 1 = d + 3
    OBVIOUS
  <2>3. QED
    BY <2>1, <2>2
<1> HIDE DEF t
<1>7. IsPayload(t.payload, params, prev)
  BY <1>1, <1>5
<1>8. /\ IsSequence(t.payload.operations)
      /\ t.payload.canDelegate \in BOOLEAN
      /\ t.payload.expiresAt \in Nat
  <2>1. CanDelegate(params) \in BOOLEAN
    BY DEF IsParams, CanDelegate
  <2>2. ExpiresAt(params) \in Nat
    BY AccessTokenAssumption DEF IsParams, ExpiresAt
  <2>3. QED
    BY <1>7, <2>1, <2>2 DEF IsPayload, IsParams
<1>9. IsToken(t, d + 3)
  BY <1>4, <1>6, <1>7, <1>8 DEF IsToken, IsPayload
<1>10. QED
  BY <1>4, <1>7, <1>9 DEF t, n, Signer

(* A token is handed over as it is. *)
LEMMA HandedOverIsSame ==
    ASSUME Closed, NEW d \in Nat, NEW t, IsToken(t, d)
    PROVE  HandedOver(t) = t
<1>1. Read("AuthToken", Create("AuthToken"), Write("AuthToken", t)) = t
  BY EveryMessageReadsBack, TokenClasses DEF IsToken
<1>2. QED
  BY <1>1 DEF HandedOver, FromBinary

LEMMA TokenIsSomething ==
    ASSUME Closed, NEW d \in Nat, NEW t, IsToken(t, d)
    PROVE  t # None
BY TokenClasses DEF IsToken, Closed

(* The parameters AuthToken.from makes a token of. *)
FromParams(token) ==
    [subject |-> None, operations |-> token.payload.operations,
     bucketId |-> token.payload.bucketId, pieceCid |-> token.payload.pieceCid,
     expiresAt |-> token.payload.expiresAt, canDelegate |-> token.payload.canDelegate]

LinkBefore(token) == IF Subject(token) # None THEN token ELSE None

LEMMA FromFacts ==
    ASSUME Closed, NEW d \in Nat, NEW t, IsToken(t, d), NEW account
    PROVE  LET r == Sign(From(t), account)
           IN  /\ IsToken(r, d + 3)
               /\ IsPayload(r.payload, FromParams(t), LinkBefore(t))
               /\ Signer(r) = account
               /\ r.payload.canDelegate = t.payload.canDelegate
               /\ r.payload.expiresAt = t.payload.expiresAt
<1>1. From(t) = NewToken(FromParams(t), LinkBefore(t))
  BY DEF From, FromParams, LinkBefore
<1>2. IsParams(FromParams(t))
  BY DEF IsToken, IsParams, FromParams
<1>3. LinkBefore(t) = None \/ IsMessage("AuthToken", LinkBefore(t), d)
  BY DEF LinkBefore, IsToken
<1>4. /\ IsToken(Sign(From(t), account), d + 3)
      /\ IsPayload(Sign(From(t), account).payload, FromParams(t), LinkBefore(t))
      /\ Signer(Sign(From(t), account)) = account
  BY <1>1, <1>2, <1>3, SignedTokenFacts
<1>5. None \notin BOOLEAN /\ None \notin Nat
  BY AccessTokenAssumption
<1>6. /\ CanDelegate(FromParams(t)) = t.payload.canDelegate
      /\ ExpiresAt(FromParams(t)) = t.payload.expiresAt
  BY <1>5 DEF IsToken, FromParams, CanDelegate, ExpiresAt
<1>7. QED
  BY <1>4, <1>6 DEF IsPayload

(* What is asked for with a token is what the token grants. *)
LEMMA FromGrantsTheSame ==
    ASSUME Closed, NEW d \in Nat, NEW t, IsToken(t, d), NEW account
    PROVE  Grants(Sign(From(t), account)) = Grants(t)
<1> DEFINE r == Sign(From(t), account)
           p == t.payload
           q == r.payload
           N == {"prev", "subject", "canDelegate", "bucketId", "operations", "expiresAt",
                 "pieceCid", "unknown"}
<1>1. /\ IsPayload(q, FromParams(t), LinkBefore(t))
      /\ q.canDelegate = p.canDelegate /\ q.expiresAt = p.expiresAt
  BY FromFacts
<1>2. HasFields("Payload", p) /\ p.unknown = <<>>
  BY DEF IsToken
<1>3. Names("Payload") \cup {"unknown"} = N
  BY PayloadFields
<1>4. q = [n \in N |-> q[n]] /\ p = [n \in N |-> p[n]]
  BY <1>1, <1>2, <1>3 DEF IsPayload, HasFields
<1>5. /\ q.operations = p.operations /\ q.bucketId = p.bucketId
      /\ q.pieceCid = p.pieceCid /\ q.unknown = p.unknown
      /\ q.canDelegate = p.canDelegate /\ q.expiresAt = p.expiresAt
  BY <1>1, <1>2 DEF IsPayload, FromParams
<1>6. Grants(r) = [q EXCEPT !.prev = None, !.subject = None]
  BY DEF Grants
<1>7. Grants(t) = [p EXCEPT !.prev = None, !.subject = None]
  BY DEF Grants
<1> HIDE DEF p, q, r
<1>8. [q EXCEPT !.prev = None, !.subject = None]
          = [p EXCEPT !.prev = None, !.subject = None]
  <2>1. [q EXCEPT !.prev = None, !.subject = None]
            = [n \in N |-> IF n \in {"prev", "subject"} THEN None ELSE q[n]]
    BY <1>4
  <2>2. [p EXCEPT !.prev = None, !.subject = None]
            = [n \in N |-> IF n \in {"prev", "subject"} THEN None ELSE p[n]]
    BY <1>4
  <2>3. \A n \in N : n \notin {"prev", "subject"} => q[n] = p[n]
    BY <1>5
  <2>4. QED
    BY <2>1, <2>2, <2>3
<1>9. QED
  BY <1>6, <1>7, <1>8 DEF r

(* A chain of k links holds wherever chains may be that long, however strict
   the node is. *)
HoldsFrom(token, k) ==
    \A n \in Nat : \A strict \in BOOLEAN : n >= k => ChainHolds(token, n, strict)

LEMMA PrevHoldsFrom ==
    ASSUME Closed, NEW d \in Nat, NEW t, IsToken(t, d), NEW k \in Nat,
           HoldsFrom(t, k), NEW n \in Nat, n >= k, NEW strict \in BOOLEAN
    PROVE  PrevHolds(t, n, strict)
<1>1. ChainHolds(t, n, strict)
  BY DEF HoldsFrom
<1>2. IsMessage("AuthToken", t, d)
  BY DEF IsToken
<1>3. QED
  BY <1>1, <1>2 DEF Closed

(* The token of a request, of a chain of k links that holds: it holds with one
   link more, if it needs one, and is not too long. *)
AcceptedAs(t, account, k) ==
    /\ Subject(t) \in {None, Signer(t)} /\ k <= DepthLimit =>
           \A strict \in BOOLEAN : Accepts(RequestToken(t, account), strict)
    /\ Subject(t) \notin {None, Signer(t)} /\ Subject(t) = account
       /\ k + 1 <= DepthLimit =>
           \A strict \in BOOLEAN :
               (strict => \A name \in Restrictions : t.payload[name] = None) =>
                   Accepts(RequestToken(t, account), strict)

LEMMA RequestFacts ==
    ASSUME Closed, NEW d \in Nat, NEW t, IsToken(t, d), NEW account
    PROVE  /\ \E c \in Nat : IsToken(RequestToken(t, account), c)
           /\ Grants(RequestToken(t, account)) = Grants(t)
           /\ \A k \in Nat : HoldsFrom(t, k) => AcceptedAs(t, account, k)
<1>1. CASE IsSigned(t)
  <2>1. RequestToken(t, account) = t
    BY <1>1 DEF RequestToken
  <2>2. Subject(t) \in {None, Signer(t)}
    BY <1>1 DEF IsSigned
  <2>3. ASSUME NEW k \in Nat, HoldsFrom(t, k) PROVE AcceptedAs(t, account, k)
    <3>1. DepthLimit \in Nat
      BY AccessTokenAssumption
    <3>2. k <= DepthLimit => \A strict \in BOOLEAN : ChainHolds(t, DepthLimit, strict)
      BY <2>3, <3>1 DEF HoldsFrom
    <3>3. QED
      BY <2>1, <2>2, <3>2 DEF AcceptedAs, Accepts
  <2>4. QED
    BY <2>1, <2>3
<1>2. CASE ~ IsSigned(t)
  <2> DEFINE r == Sign(From(t), account)
  <2>1. RequestToken(t, account) = r
    BY <1>2 DEF RequestToken
  <2>2. /\ IsToken(r, d + 3)
        /\ IsPayload(r.payload, FromParams(t), LinkBefore(t))
        /\ Signer(r) = account
        /\ r.payload.canDelegate = t.payload.canDelegate
        /\ r.payload.expiresAt = t.payload.expiresAt
    BY FromFacts
  <2>3. Grants(r) = Grants(t)
    BY FromGrantsTheSame
  <2> HIDE DEF r
  <2>4. Subject(t) # None /\ Subject(t) # Signer(t)
    <3>1. t.signature # None
      BY DEF IsToken, Verifies
    <3>2. QED
      BY <1>2, <3>1 DEF IsSigned
  <2>5. /\ r.payload.prev = t /\ Subject(r) = None
        /\ r.payload.operations = t.payload.operations
        /\ r.payload.bucketId = t.payload.bucketId
        /\ r.payload.pieceCid = t.payload.pieceCid
    BY <2>2, <2>4 DEF IsPayload, FromParams, LinkBefore, Subject
  <2>6. ASSUME NEW k \in Nat, HoldsFrom(t, k), Subject(t) = account,
               k + 1 <= DepthLimit, NEW strict \in BOOLEAN,
               strict => \A name \in Restrictions : t.payload[name] = None
        PROVE  Accepts(r, strict)
    <3>1. t # None
      BY TokenIsSomething
    <3>2. /\ DepthLimit \in Nat /\ DepthLimit - 1 \in Nat /\ DepthLimit > 0
          /\ DepthLimit - 1 >= k
      BY <2>6, AccessTokenAssumption
    <3>3. PrevHolds(t, DepthLimit - 1, strict)
      BY <2>6, <3>2, PrevHoldsFrom
    <3>4. Narrower(r.payload, t.payload)
      BY <2>2, <2>5 DEF Narrower, IsToken
    <3>5. MentionsAnew(r, t, strict)
      BY <2>5, <2>6 DEF MentionsAnew, Restrictions
    <3>6. Verifies("AuthToken", r)
      BY <2>2 DEF IsToken
    <3>7. Signer(r) = Subject(t)
      BY <2>2, <2>6
    <3>8. ChainHolds(r, DepthLimit, strict)
      BY <2>5, <3>1, <3>2, <3>3, <3>4, <3>5, <3>6, <3>7 DEF ChainHolds
    <3>9. QED
      BY <2>5, <3>8 DEF Accepts
  <2>7. \A k \in Nat : HoldsFrom(t, k) => AcceptedAs(t, account, k)
    BY <2>1, <2>4, <2>6 DEF AcceptedAs
  <2>8. d + 3 \in Nat
    OBVIOUS
  <2>9. QED
    BY <2>1, <2>2, <2>3, <2>7, <2>8
<1>3. QED
  BY <1>1, <1>2

-----------------------------------------------------------------------------
(* The message on its way: what is read and what is left make up what was
   written, and its signature, if it has one, is over it. *)
OnItsWay ==
    /\ type \in Types
    /\ \E d \in Nat : IsMessage(type, message, d)
    /\ HalfRead(type, message, target, rest)
    /\ "signature" \in Names(type) /\ message.signature # None => Verifies(type, message)

(* The token: it is one from the first grant on, the rules of the chain hold
   while every link was allowed, and what a user sends is made of it. *)
Token ==
    /\ stage \in {"issue", "held", "used"}
    /\ narrowed \in BOOLEAN
    /\ stage # "used" => user = None
    /\ stage = "held" \/ user # None => \E d \in Nat : IsToken(access, d)
    /\ stage = "held" \/ user # None => links \in Nat
    /\ (stage = "held" \/ user # None) /\ narrowed => HoldsFrom(access, links)
    /\ user # None => type = "AuthToken" /\ message = RequestToken(access, user)

AccessInv == OnItsWay /\ Token

(* A new message on its way. *)
LEMMA SentIsOnItsWay ==
    ASSUME NEW T \in Types, NEW m, NEW d, IsMessage(T, m, d)
    PROVE  HalfRead(T, m, Create(T), Write(T, m))
BY HalfReadStarts

LEMMA AccessInit ==
    ASSUME Closed, Init
    PROVE  AccessInv
<1>1. /\ access = None /\ user = None /\ narrowed = TRUE
      /\ rest = Write(type, message) /\ target = Create(type)
  BY DEF Init
<1>2. CASE stage = "issue" /\ type = "AuthToken" /\ message = Create(type)
  <2>1. type \in Types /\ HasFields(type, message)
    BY <1>2, TokenClasses, CreateFacts DEF HasFields
  <2>2. message.unknown = <<>>
    BY <1>2, TokenClasses, CreateFacts
  <2>3. IsSequence(<<>>) /\ DOMAIN <<>> = {}
    <3>1. IsSequence(<<>>)
      BY EmptySeq, SeqIsSequence
    <3>2. Len(<<>>) = 0 /\ DOMAIN <<>> = 1..Len(<<>>)
      BY <3>1, SequenceFacts
    <3>3. QED
      BY <3>1, <3>2
  <2>4. ASSUME NEW f \in Fields("AuthToken")
        PROVE  message[f.name] = Absent(f) /\ f.rule = "optional"
    <3>1. \E i \in DOMAIN Schema["AuthToken"] : f = Schema["AuthToken"][i]
      BY DEF Fields, ToSet
    <3>2. message[f.name] = Absent(f)
      BY <1>2, <3>1, TokenClasses, CreateFacts
    <3>3. f.rule = "optional"
      BY AuthTokenFields DEF Message, Field
    <3>4. QED
      BY <3>2, <3>3
  <2>5. \A f \in Fields("AuthToken") : IsValue(f, message[f.name], 0)
    BY <2>4 DEF IsValue
  <2>6. IsMessage(type, message, 0)
    BY <1>2, <2>1, <2>2, <2>3, <2>5, AuthTokenFields DEF IsMessage, HasFields
  <2>7. HalfRead(type, message, target, rest)
    BY <1>1, <2>1, <2>6, SentIsOnItsWay
  <2>8. message.signature = None
    <3>1. Message(1, "signature", "Signature") \in Fields("AuthToken")
      BY AuthTokenFields
    <3>2. /\ Message(1, "signature", "Signature").name = "signature"
          /\ Absent(Message(1, "signature", "Signature")) = None
      BY DEF Message, Field, Absent
    <3>3. QED
      BY <2>4, <3>1, <3>2
  <2>9. OnItsWay
    BY <2>1, <2>6, <2>7, <2>8 DEF OnItsWay
  <2>10. QED
    BY <1>1, <1>2, <2>9 DEF AccessInv, Token
<1>3. CASE /\ stage = "used" /\ type \in Types
           /\ \E m \in Sent(type) :
                 \/ message = m
                 \/ "signature" \in Names(type) /\ message = Signed(type, m, Owner)
  <2>1. PICK m \in Sent(type) :
            \/ message = m
            \/ "signature" \in Names(type) /\ message = Signed(type, m, Owner)
    BY <1>3
  <2>2. /\ IsMessage(type, m, MaxDepth) /\ MaxDepth \in Nat
        /\ "signature" \in Names(type) => m.signature = None
    BY <1>3, SentAssumption, AccessTokenAssumption
  <2>3. /\ \E d \in Nat : IsMessage(type, message, d)
        /\ "signature" \in Names(type) /\ message.signature # None
              => Verifies(type, message)
    <3>1. CASE message = m
      BY <2>2, <3>1
    <3>2. CASE "signature" \in Names(type) /\ message = Signed(type, m, Owner)
      <4>1. HasFields(type, m)
        BY <2>2 DEF IsMessage, HasFields
      <4>2. Verifies(type, message)
        BY <1>3, <2>2, <3>2, <4>1, SignedFacts
      <4>3. IsMessage(type, message, MaxDepth + 1)
        BY <1>3, <2>2, <3>2, SignedIsMessage
      <4>4. MaxDepth + 1 \in Nat
        BY <2>2
      <4>5. QED
        BY <4>2, <4>3, <4>4
    <3>3. QED
      BY <2>1, <3>1, <3>2
  <2>4. HalfRead(type, message, target, rest)
    BY <1>1, <1>3, <2>3, SentIsOnItsWay
  <2>5. QED
    BY <1>1, <1>3, <2>3, <2>4 DEF AccessInv, OnItsWay, Token
<1>4. QED
  BY <1>2, <1>3 DEF Init

LEMMA AllSmallerSurvive ==
    ASSUME Closed, NEW d \in Nat
    PROVE  SmallerSurvive(d)
<1>1. \A c \in 0..(d - 1) : c \in Nat
  OBVIOUS
<1>2. \A c \in Nat : \A U \in Types : \A e :
          IsMessage(U, e, c) => Read(U, Create(U), Write(U, e)) = e
  BY EveryMessageReadsBack
<1>3. QED
  BY <1>1, <1>2 DEF SmallerSurvive, Survives

LEMMA ParamsFacts ==
    ASSUME NEW params \in Params
    PROVE  IsParams(params)
<1>1. PICK l \in Limits :
          params.operations = l.operations /\ params.expiresAt = l.expiresAt
  BY SMT DEF Params
<1>2. IsSequence(l.operations) /\ l.expiresAt \in Nat \cup {None}
  BY AccessTokenAssumption
<1>3. params.canDelegate \in CanDelegates
  BY SMT DEF Params
<1>4. params.canDelegate \in BOOLEAN \cup {None}
  BY <1>3 DEF CanDelegates
<1>5. QED
  BY <1>1, <1>2, <1>4 DEF IsParams

(* A grant is the first link of a chain. *)
LEMMA GrantStep ==
    ASSUME Closed, AccessInv, NEW params \in Params, Grant(params)
    PROVE  AccessInv'
<1> DEFINE t == Sign(NewToken(params, None), Owner)
<1>1. /\ stage = "issue" /\ access' = t /\ stage' = "held" /\ links' = 1
      /\ UNCHANGED <<type, message, rest, target, user, narrowed>>
  BY DEF Grant, wireVars
<1>2. IsToken(t, 0 + 3) /\ IsPayload(t.payload, params, None) /\ Signer(t) = Owner
  BY ParamsFacts, SignedTokenFacts
<1> HIDE DEF t
<1>3. HoldsFrom(t, 1)
  <2>1. ASSUME NEW n \in Nat, n >= 1, NEW strict \in BOOLEAN
        PROVE  ChainHolds(t, n, strict)
    BY <1>2, <2>1 DEF ChainHolds, IsToken, IsPayload
  <2>2. QED
    BY <2>1 DEF HoldsFrom
<1>4. OnItsWay'
  BY <1>1 DEF AccessInv, OnItsWay
<1>5. user' = None /\ narrowed' \in BOOLEAN
  BY <1>1 DEF AccessInv, Token
<1>6. \E d \in Nat : IsToken(access', d)
  <2>1. 0 + 3 \in Nat
    OBVIOUS
  <2>2. QED
    BY <1>1, <1>2, <2>1
<1>7. Token'
  BY <1>1, <1>3, <1>5, <1>6 DEF Token
<1>8. QED
  BY <1>4, <1>7 DEF AccessInv

(* The next link of a chain is signed over the one before, which was read as it
   was written. *)
LEMMA DelegateStep ==
    ASSUME Closed, AccessInv, NEW account \in Users, NEW params \in Params,
           Delegate(account, params)
    PROVE  AccessInv'
<1> DEFINE next == Sign(NewToken(params, access), account)
<1>1. stage = "held"
  BY DEF Delegate
<1>2. PICK d \in Nat : IsToken(access, d)
  BY <1>1 DEF AccessInv, Token
<1>3. HandedOver(access) = access
  BY <1>2, HandedOverIsSame
<1>4. /\ access' = next /\ stage' = stage /\ links' = links + 1
      /\ UNCHANGED <<type, message, rest, target, user>>
      /\ narrowed' = (narrowed /\ Narrows(account, access, next))
  BY <1>3 DEF Delegate, wireVars
<1>5. IsToken(next, d + 3) /\ IsPayload(next.payload, params, access)
      /\ Signer(next) = account
  <2>1. IsMessage("AuthToken", access, d)
    BY <1>2 DEF IsToken
  <2>2. QED
    BY <2>1, ParamsFacts, SignedTokenFacts
<1> HIDE DEF next
<1>6. links \in Nat
  BY <1>1 DEF AccessInv, Token
<1>7. ASSUME narrowed' PROVE HoldsFrom(next, links + 1)
  <2>1. narrowed /\ Narrows(account, access, next)
    BY <1>4, <1>7
  <2>2. access # None
    BY <1>2, TokenIsSomething
  <2>3. HoldsFrom(access, links)
    BY <1>1, <2>1 DEF AccessInv, Token
  <2>4. Verifies("AuthToken", next) /\ next.payload.prev = access
    BY <1>5 DEF IsToken, IsPayload
  <2>5. ASSUME NEW strict \in BOOLEAN PROVE MentionsAnew(next, access, strict)
    <3>1. \A name \in Restrictions : PrevMentions(access, name) <=> Mentions(access, name)
      BY <1>2 DEF IsToken, Closed
    <3>2. QED
      BY <2>1, <3>1 DEF MentionsAnew, Narrows
  <2>6. access.payload.canDelegate = TRUE
    BY <1>2, <2>1 DEF IsToken, Narrows
  <2>7. ASSUME NEW n \in Nat, n >= links + 1, NEW strict \in BOOLEAN
        PROVE  ChainHolds(next, n, strict)
    <3>1. n - 1 \in Nat /\ n - 1 >= links /\ n > 0
      BY <1>6, <2>7
    <3>2. PrevHolds(access, n - 1, strict)
      BY <1>2, <1>6, <2>3, <3>1, PrevHoldsFrom
    <3>3. QED
      BY <1>5, <2>1, <2>2, <2>4, <2>5, <2>6, <3>1, <3>2 DEF ChainHolds, Narrows
  <2>8. QED
    BY <2>7 DEF HoldsFrom
<1>8. OnItsWay'
  BY <1>4 DEF AccessInv, OnItsWay
<1>9. user' = None /\ stage' = "held" /\ narrowed' \in BOOLEAN
  BY <1>1, <1>4 DEF AccessInv, Token
<1>10. \E c \in Nat : IsToken(access', c)
  <2>1. d + 3 \in Nat
    OBVIOUS
  <2>2. QED
    BY <1>4, <1>5, <2>1
<1>11. links' \in Nat
  BY <1>4, <1>6
<1>12. Token'
  BY <1>4, <1>7, <1>9, <1>10, <1>11 DEF Token
<1>13. QED
  BY <1>8, <1>12 DEF AccessInv

(* What is sent with a request is a token, too. *)
LEMMA UseStep ==
    ASSUME Closed, AccessInv, NEW account \in Users, Use(account)
    PROVE  AccessInv'
<1> DEFINE r == RequestToken(access, account)
<1>1. stage = "held"
  BY DEF Use
<1>2. PICK d \in Nat : IsToken(access, d)
  BY <1>1 DEF AccessInv, Token
<1>3. HandedOver(access) = access
  BY <1>2, HandedOverIsSame
<1>4. /\ stage' = "used" /\ user' = account /\ access' = access
      /\ narrowed' = narrowed /\ links' = links
      /\ type' = "AuthToken" /\ message' = r
      /\ rest' = Write("AuthToken", r) /\ target' = Create("AuthToken")
  BY <1>3 DEF Use, Sends
<1>5. PICK c \in Nat : IsToken(r, c)
  BY <1>2, RequestFacts
<1> HIDE DEF r
<1>6. IsMessage("AuthToken", r, c) /\ Verifies("AuthToken", r)
  BY <1>5 DEF IsToken
<1>7. HalfRead("AuthToken", r, Create("AuthToken"), Write("AuthToken", r))
  BY <1>6, TokenClasses, SentIsOnItsWay
<1>8. OnItsWay'
  BY <1>4, <1>6, <1>7, TokenClasses DEF OnItsWay
<1>9. (narrowed => HoldsFrom(access, links)) /\ narrowed \in BOOLEAN /\ links \in Nat
  BY <1>1 DEF AccessInv, Token
<1>10. Token'
  BY <1>2, <1>4, <1>9 DEF Token, r
<1>11. QED
  BY <1>8, <1>10 DEF AccessInv

LEMMA ReadingStep ==
    ASSUME Closed, AccessInv, Reading
    PROVE  AccessInv'
<1>1. /\ ReadNext \/ SplitRun
      /\ UNCHANGED <<stage, access, user, links, narrowed, type, message>>
  BY DEF Reading, ReadNext, SplitRun, tokenVars
<1>2. /\ type \in Types
      /\ HalfRead(type, message, target, rest)
  BY DEF AccessInv, OnItsWay
<1>3. PICK d \in Nat : IsMessage(type, message, d)
  BY DEF AccessInv, OnItsWay
<1>4. HalfRead(type, message, target', rest')
  <2>1. CASE ReadNext
    <3>1. PICK i \in Places(type) :
              /\ rest[i] # <<>>
              /\ target' = ReadItem(type, target, Head(rest[i]))
              /\ rest' = [rest EXCEPT ![i] = Tail(@)]
      BY <2>1 DEF ReadNext
    <3>2. HalfRead(type, message, ReadItem(type, target, Head(rest[i])),
                   [rest EXCEPT ![i] = Tail(@)])
      BY <1>2, <1>3, <3>1, AllSmallerSurvive, HalfReadStep
    <3>3. QED
      BY <3>1, <3>2
  <2>2. CASE SplitRun
    <3>1. PICK i \in DOMAIN Schema[type] :
              /\ Schema[type][i].rule = "packed" /\ rest[i] # <<>>
              /\ Len(Head(rest[i]).value.run) > 1
              /\ rest' = [rest EXCEPT ![i] =
                     <<Run(Schema[type][i].no, <<Head(Head(rest[i]).value.run)>>),
                       Run(Schema[type][i].no, Tail(Head(rest[i]).value.run))>> \o Tail(@)]
              /\ target' = target
      BY <2>2 DEF SplitRun
    <3>2. HalfRead(type, message, target,
               [rest EXCEPT ![i] =
                     <<Run(Schema[type][i].no, <<Head(Head(rest[i]).value.run)>>),
                       Run(Schema[type][i].no, Tail(Head(rest[i]).value.run))>> \o Tail(@)])
      BY <1>2, <1>3, <3>1, HalfReadSplits
    <3>3. QED
      BY <3>1, <3>2
  <2>3. QED
    BY <1>1, <2>1, <2>2
<1>5. OnItsWay'
  BY <1>1, <1>4 DEF AccessInv, OnItsWay
<1>6. Token'
  BY <1>1 DEF AccessInv, Token
<1>7. QED
  BY <1>5, <1>6 DEF AccessInv

LEMMA AccessStep ==
    ASSUME Closed, AccessInv, [Next]_allVars
    PROVE  AccessInv'
<1>1. CASE \E params \in Params : Grant(params)
  BY <1>1, GrantStep
<1>2. CASE \E account \in Users, params \in Params : Delegate(account, params)
  BY <1>2, DelegateStep
<1>3. CASE \E account \in Users : Use(account)
  BY <1>3, UseStep
<1>4. CASE Reading
  BY <1>4, ReadingStep
<1>5. CASE UNCHANGED allVars
  <2>1. UNCHANGED <<type, message, rest, target, stage, access, user, links,
                   narrowed>>
    BY <1>5 DEF allVars, wireVars, tokenVars
  <2>2. OnItsWay'
    BY <2>1 DEF AccessInv, OnItsWay
  <2>3. Token'
    BY <2>1 DEF AccessInv, Token
  <2>4. QED
    BY <2>2, <2>3 DEF AccessInv
<1>6. QED
  BY <1>1, <1>2, <1>3, <1>4, <1>5 DEF Next

(* While a message travels, what has been read of each of its fields and what
   is left of it make up what was written; and every token handed over is a
   signed one, whose chain holds while each delegation was allowed. *)
THEOREM AlwaysOnItsWay ==
    ASSUME Closed
    PROVE  Spec => []AccessInv
<1>1. Init => AccessInv
  BY AccessInit
<1>2. AccessInv /\ [Next]_allVars => AccessInv'
  BY AccessStep
<1>3. QED
  BY <1>1, <1>2, PTL DEF Spec

LEMMA ArrivedIsSent ==
    ASSUME AccessInv, Arrived
    PROVE  target = message
<1>1. type \in Types /\ HalfRead(type, message, target, rest)
  BY DEF AccessInv, OnItsWay
<1>2. PICK d \in Nat : IsMessage(type, message, d)
  BY DEF AccessInv, OnItsWay
<1>3. \A i \in Places(type) : rest[i] = <<>>
  BY DEF Arrived
<1>4. QED
  BY <1>1, <1>2, <1>3, HalfReadEnds

(* For every class of the node APIs and every message of it: whatever the order
   and the form a node writes it in, the SDK reads the message that was sent. *)
THEOREM MessagesSurvive ==
    ASSUME Closed
    PROVE  Spec => []MessageSurvives
<1>1. AccessInv => MessageSurvives
  BY ArrivedIsSent DEF MessageSurvives
<1>2. QED
  BY <1>1, AlwaysOnItsWay, PTL

(* Every signature still verifies when its message has arrived. *)
THEOREM SignaturesSurvive ==
    ASSUME Closed
    PROVE  Spec => []SignatureSurvives
<1>1. AccessInv => SignatureSurvives
  BY ArrivedIsSent DEF SignatureSurvives, AccessInv, OnItsWay
<1>2. QED
  BY <1>1, AlwaysOnItsWay, PTL

(* However long the chain: when each delegation was made by the account the
   token was for and added nothing, the node accepts what that account sends,
   up to the length it takes; and a strict one, if the restrictions of the token
   need not be repeated. *)
THEOREM GrantsWork ==
    ASSUME Closed
    PROVE  Spec => []GrantWorks
<1>1. ASSUME AccessInv PROVE GrantWorks
  <2> SUFFICES ASSUME Entitled
               PROVE  /\ Accepts(target, FALSE)
                      /\ SentAsItIs \/ Unrestricted => Accepts(target, TRUE)
    BY DEF GrantWorks
  <2>1. user # None /\ target = message
    BY <1>1, ArrivedIsSent DEF Entitled, TokenUsed
  <2>2. PICK d \in Nat : IsToken(access, d)
    BY <1>1, <2>1 DEF AccessInv, Token
  <2>3. HoldsFrom(access, links) /\ links \in Nat /\ message = RequestToken(access, user)
    BY <1>1, <2>1 DEF AccessInv, Token, Entitled
  <2>4. AcceptedAs(access, user, links)
    BY <2>2, <2>3, RequestFacts
  <2>5. CASE SentAsItIs
    <3>1. links <= DepthLimit
      BY <2>5 DEF Entitled, LinksSent
    <3>2. QED
      BY <2>1, <2>3, <2>4, <2>5, <3>1 DEF AcceptedAs, SentAsItIs
  <2>6. CASE ~SentAsItIs
    <3>1. links + 1 <= DepthLimit
      BY <2>6 DEF Entitled, LinksSent
    <3>2. Subject(access) = user /\ Subject(access) \notin {None, Signer(access)}
      BY <2>6 DEF Entitled, SentAsItIs
    <3>3. QED
      BY <2>1, <2>3, <2>4, <2>6, <3>1, <3>2 DEF AcceptedAs, Unrestricted
  <2>7. QED
    BY <2>5, <2>6
<1>2. QED
  BY <1>1, AlwaysOnItsWay, PTL

(* However long the chain and whoever sends it: the token of a request grants
   what the token handed over grants. *)
THEOREM UsesAddNothing ==
    ASSUME Closed
    PROVE  Spec => []UseAddsNothing
<1>1. ASSUME AccessInv PROVE UseAddsNothing
  <2> SUFFICES ASSUME TokenUsed PROVE Grants(target) = Grants(access)
    BY DEF UseAddsNothing
  <2>1. user # None /\ target = message
    BY <1>1, ArrivedIsSent DEF TokenUsed
  <2>2. PICK d \in Nat : IsToken(access, d)
    BY <1>1, <2>1 DEF AccessInv, Token
  <2>3. message = RequestToken(access, user)
    BY <1>1, <2>1 DEF AccessInv, Token
  <2>4. Grants(RequestToken(access, user)) = Grants(access)
    BY <2>2, RequestFacts
  <2>5. QED
    BY <2>1, <2>3, <2>4
<1>2. QED
  BY <1>1, AlwaysOnItsWay, PTL
=============================================================================
