---------------------------- MODULE MCAccessToken ----------------------------
(* A small instance of AccessToken for TLC: two users, two links before the
   token is used, and every message of the node APIs with any of its fields. *)
EXTENDS AccessToken

CONSTANT MaxFields  \* bound: fields of a descriptor that are set

Get == 2
Put == 1
Limit(operations, bucketId, pieceCid, expiresAt) ==
    [operations |-> operations, bucketId |-> bucketId, pieceCid |-> pieceCid,
     expiresAt |-> expiresAt]

(* Restricted to a bucket or a piece or to none, for longer or shorter, with
   the same privileges or fewer. *)
MCLimits ==
    {Limit(<<Get, Put>>, 1, None, None), Limit(<<Get>>, 1, None, 1),
     Limit(<<Get, Put>>, None, None, None), Limit(<<Get>>, None, None, 1),
     Limit(<<Get>>, None, 1, 1)}

(* The messages inside a message, and the link before a link, are written,
   read and checked as any other. *)
NestedWrite(T, m) == LET wire == Write(T, m) IN wire
NestedRead(T, m, wire) == LET read == Read(T, m, wire) IN read
NestedIsMessage(T, m, d) == LET is == IsMessage(T, m, d) IN is
PrevChainHolds(token, n, strict) == LET holds == ChainHolds(token, n, strict) IN holds
PrevChainMentions(token, name) == LET mentions == Mentions(token, name) IN mentions

(* A sample of a message of each class: some of its fields set, to values
   that are not their defaults. *)
Sample(T, set) ==
    [n \in DOMAIN Create(T) |->
        IF n = "unknown" \/ n \notin set THEN Create(T)[n]
        ELSE LET f == CHOOSE g \in Fields(T) : g.name = n
                 small == IF f.kind = "scalar" THEN 1
                          ELSE [Create(f.kind) EXCEPT !.unknown = <<Item(UnknownNo, 1)>>]
             IN  IF f.rule \in {"packed", "unpacked"}
                 THEN <<small, IF f.kind = "scalar" THEN 2 ELSE Create(f.kind)>>
                 ELSE small]

(* Any fields of a message of the node APIs, a few of a descriptor; the
   signature comes later. *)
FieldSets(T) ==
    IF T \in DOMAIN NodeApiSchema THEN SUBSET (Names(T) \ {"signature"})
    ELSE UNION {kSubset(n, Names(T)) : n \in 0..MaxFields}

Samples(T) ==
    {[Sample(T, set) EXCEPT !.unknown = more] :
        set \in {s \in FieldSets(T) : Cardinality(s \cap Cases(T)) <= 1},
        more \in {<<>>, <<Item(UnknownNo, 1)>>}}
=============================================================================
