---------------------------- MODULE TransferProofs ----------------------------
(***************************************************************************)
(* Theorems of Transfer, for any tree of files and any number of commands. *)
(*                                                                         *)
(* The walk of an upload is followed from both ends: what is still to      *)
(* visit leads only to visible files, and every visible file that was      *)
(* there all the time is linked already or is still to be come to          *)
(* (Walking).  A link is a file of which blocks have been read, or is      *)
(* stored and was read from that file (Linked), so a root is stored after  *)
(* what it leads to.  A download goes on with something its source stood   *)
(* for while it ran (Fetching), and saves the links of one root (Saving),  *)
(* however the names move on.                                              *)
(***************************************************************************)
EXTENDS Transfer, SequenceTheorems, TLAPS

LinkMaps == UNION {[D -> RawCids] : D \in SUBSET Files}
Readings == [type : {"reading"}, size : 0..MaxBlocks, got : Bodies, kept : Contents \cup {None}]
Linkings == UNION {[D -> RawCids \cup Readings] : D \in SUBSET Files}
Savings == UNION {[D -> Cids] : D \in SUBSET (Files \cup {"body"})}

Places == {"idle", "walking", "sending", "resolving", "reading dir", "reading file", "saving",
           "done", "failed"}
Kinds == {"none", "upload dir", "upload file", "download", "read"}

TransferTypeOK ==
    /\ local \in [Files -> Contents \cup {None}]
    /\ stored \subseteq Cids
    /\ names \in [Names -> Cids \cup {None}]
    /\ pc \in [Commands -> Places]
    /\ job \in [Commands -> [kind : Kinds, of : Files \cup Dirs \cup Names \cup Cids \cup {None},
                             name : Names \cup {None}]]
    /\ todo \in [Commands -> Seq(SUBSET (Files \cup Dirs))]
    /\ links \in [Commands -> Linkings]
    /\ saved \in [Commands -> Savings]
    /\ result \in [Commands -> Cids \cup {None}]
    /\ uris \subseteq [cid : Cids, name : Names \cup {None}]
    /\ stoodFor \in [Commands -> SUBSET (Cids \cup {None})]
    /\ had \in [Commands -> [Files -> SUBSET (Contents \cup {None})]]
    /\ starts \in 0..MaxStarts /\ changes \in 0..MaxChanges

(* A root that can be found leads to stored files. *)
StoredWhole ==
    \A cid \in stored : cid.type = "dag-node" => \A f \in DOMAIN cid.links : cid.links[f] \in stored

(* The entries of all levels of a walk. *)
Entries(levels) == UNION {levels[i] : i \in DOMAIN levels}

Walking(k) ==
    pc[k] = "walking" =>
        /\ job[k].kind = "upload dir"
        /\ Entries(todo[k]) \ Hidden \subseteq Within(Children[Source])
        /\ DOMAIN links[k] \subseteq Visible
        /\ \A f \in Visible : None \notin had[k][f] =>
               f \in DOMAIN links[k] \cup Within(Entries(todo[k]))

(* A file of which one more block has been read. *)
BlockRead(k, f) ==
    [links[k][f] EXCEPT !.got =
        Append(links[k][f].got, InStream(k, f)[Len(links[k][f].got) + 1])]

(* What has been read of a file, of whose contents these were seen. *)
ReadingFrom(file, contents) ==
    /\ InPlace(file.got, contents)
    /\ file.kept # None => file.kept \in contents
    /\ \A c \in contents \ {None} : contents = {c} => file.size = Len(c)

(* A link is being read, or leads to stored content that was. *)
Linked(k) ==
    /\ pc[k] = "sending" => job[k].kind = "upload file" /\ DOMAIN links[k] \subseteq {job[k].of}
    /\ pc[k] \in {"walking", "sending"} =>
           \A f \in DOMAIN links[k] :
               \/ links[k][f] \in Readings /\ ReadingFrom(links[k][f], had[k][f])
               \/ links[k][f] \in stored \cap RawCids /\ ReadFrom(links[k][f], had[k][f])

Complete(k) ==
    /\ pc[k] = "done" /\ job[k].kind = "upload dir" =>
        /\ result[k] \in stored
        /\ DOMAIN result[k].links \subseteq Visible
        /\ \A f \in DOMAIN result[k].links : ReadFrom(result[k].links[f], had[k][f])
        /\ \A f \in Visible : None \notin had[k][f] => f \in DOMAIN result[k].links
    /\ pc[k] = "done" /\ job[k].kind = "upload file" =>
        result[k] \in stored /\ ReadFrom(result[k], had[k][job[k].of])

(* What is there now is among what was there. *)
Watching(k) == Running(k) => \A f \in Files : local[f] \in had[k][f]

(* What a source stands for now is among what it stood for. *)
Fetching(k) ==
    pc[k] \in {"resolving", "reading dir", "reading file", "saving"} =>
        /\ job[k].kind = "download" /\ job[k].of \in Names \cup Cids
        /\ Resolved(job[k].of) \in stoodFor[k]
        /\ pc[k] # "resolving" => Resolved(job[k].of) # None /\ result[k] \in stoodFor[k]
        /\ pc[k] \in {"resolving", "reading dir"} => saved[k] = <<>>

Saving(k) ==
    pc[k] = "saving" =>
        /\ \E cid \in stoodFor[k] \ {None} : cid.type = "dag-node" /\ links[k] = cid.links
        /\ \A f \in DOMAIN saved[k] : f \in DOMAIN links[k] /\ saved[k][f] = links[k][f]

Fetched(k) ==
    pc[k] = "done" /\ job[k].kind = "download" =>
        /\ result[k] \in stoodFor[k]
        /\ \E cid \in stoodFor[k] \ {None} :
               \/ cid.type = "dag-node" /\ saved[k] = cid.links
               \/ saved[k] = Body(cid)

ReadBack(k) == pc[k] = "done" /\ job[k].kind = "read" => result[k] = job[k].of

CommandInv(k) ==
    /\ Walking(k) /\ Linked(k) /\ Complete(k) /\ Watching(k)
    /\ Fetching(k) /\ Saving(k) /\ Fetched(k) /\ ReadBack(k)

TransferInv == TransferTypeOK /\ StoredWhole /\ \A k \in Commands : CommandInv(k)

-----------------------------------------------------------------------------
(* What a CID is made of, and what it is not. *)
LEMMA BodyFacts ==
    /\ \A b \in Bodies : /\ Len(b) \in 0..MaxBlocks /\ DOMAIN b = 1..Len(b)
                         /\ b \in [1..Len(b) -> Blocks] /\ b \in Seq(Blocks)
    /\ \A n \in 0..MaxBlocks : \A b \in [1..n -> Blocks] : b \in Bodies /\ Len(b) = n
    /\ <<>> \in Bodies /\ None \notin Contents
  <1>1. MaxBlocks \in Nat
    BY TransferAssumption
  <1>2. ASSUME NEW n \in 0..MaxBlocks, NEW b \in [1..n -> Blocks]
        PROVE  b \in Bodies /\ Len(b) = n /\ b \in Seq(Blocks)
    <2>1. n \in Nat /\ b \in Bodies
      BY <1>1 DEF Bodies
    <2>2. b \in Seq(Blocks)
      BY <2>1, SeqDef
    <2>3. Len(b) = n
      BY <2>1, <2>2, LenProperties
    <2>4. QED
      BY <2>1, <2>2, <2>3
  <1>3. ASSUME NEW b \in Bodies
        PROVE  /\ Len(b) \in 0..MaxBlocks /\ DOMAIN b = 1..Len(b)
               /\ b \in [1..Len(b) -> Blocks] /\ b \in Seq(Blocks)
    <2>1. PICK n \in 0..MaxBlocks : b \in [1..n -> Blocks]
      BY DEF Bodies
    <2>2. Len(b) = n /\ b \in Seq(Blocks)
      BY <1>2, <2>1
    <2>3. QED
      BY <2>1, <2>2
  <1>4. <<>> \in Bodies
    <2>1. 0 \in 0..MaxBlocks /\ <<>> \in [1..0 -> Blocks]
      BY <1>1
    <2>2. QED
      BY <1>2, <2>1
  <1>5. QED
    BY <1>2, <1>3, <1>4, TransferAssumption

LEMMA RawFacts ==
    /\ \A b \in Bodies, n \in 0..MaxBlocks :
          Raw(b, n) \in RawCids /\ Raw(b, n).type = "raw" /\ Raw(b, n).body = b
    /\ \A c \in Contents : Whole(c) \in RawCids /\ Whole(c) = Raw(c, Len(c))
    /\ \A cid \in RawCids : cid.type = "raw"
    /\ \A file \in Readings : file.type = "reading" /\ file \notin RawCids
  <1>1. \A cid \in RawCids : cid.type = "raw"
    BY SMT DEF RawCids, Raw
  <1>2. ASSUME NEW b \in Bodies, NEW n \in 0..MaxBlocks
        PROVE  Raw(b, n) \in RawCids /\ Raw(b, n).type = "raw" /\ Raw(b, n).body = b
    <2>1. Raw(b, n) \in RawCids
      BY DEF RawCids
    <2>2. QED
      BY <2>1 DEF Raw
  <1>3. ASSUME NEW c \in Contents PROVE Whole(c) \in RawCids /\ Whole(c) = Raw(c, Len(c))
    <2>1. c \in Bodies /\ Len(c) \in 0..MaxBlocks
      BY BodyFacts, TransferAssumption
    <2>2. QED
      BY <1>2, <2>1 DEF Whole
  <1>4. \A file \in Readings : file.type = "reading" /\ file \notin RawCids
    BY <1>1 DEF Readings
  <1>5. QED
    BY <1>1, <1>2, <1>3, <1>4

(* A file that is read, and what becomes of it. *)
LEMMA ReadingFacts ==
    /\ \A n \in 0..MaxBlocks :
          /\ Reading(n) \in Readings /\ Reading(n).size = n /\ Reading(n).got = <<>>
          /\ Reading(n).kept = None
    /\ \A file \in Readings, b \in Bodies :
          /\ [file EXCEPT !.got = b] \in Readings
          /\ [file EXCEPT !.got = b].got = b /\ [file EXCEPT !.got = b].size = file.size
          /\ [file EXCEPT !.got = b].kept = file.kept
    /\ \A file \in Readings, c \in Contents :
          /\ [file EXCEPT !.kept = c] \in Readings
          /\ [file EXCEPT !.kept = c].got = file.got /\ [file EXCEPT !.kept = c].size = file.size
          /\ [file EXCEPT !.kept = c].kept = c
  BY BodyFacts DEF Readings, Reading

(* More contents are seen of a file that was there. *)
LEMMA SeenGrows ==
    ASSUME NEW A, NEW B, A \subseteq B, A # {}
    PROVE  /\ \A file : ReadingFrom(file, A) => ReadingFrom(file, B)
           /\ \A cid : ReadFrom(cid, A) => ReadFrom(cid, B)
  <1>1. \A body : InPlace(body, A) => InPlace(body, B)
    BY DEF InPlace
  <1>2. \A c : B = {c} => A = {c}
    OBVIOUS
  <1>3. QED
    BY <1>1, <1>2 DEF ReadingFrom, ReadFrom

LEMMA DagFacts ==
    ASSUME NEW data \in {"cli", "other"}, NEW ls \in LinkMaps
    PROVE  /\ Dag(data, ls) \in Cids /\ Dag(data, ls).type = "dag-node"
           /\ Dag(data, ls).data = data /\ Dag(data, ls).links = ls
  <1>1. Dag(data, ls) \in {Dag(d, l) : d \in {"cli", "other"}, l \in LinkMaps}
    OBVIOUS
  <1>2. Dag(data, ls) \in Cids
    BY <1>1 DEF Cids, LinkMaps
  <1>3. QED
    BY <1>2 DEF Dag

LEMMA CidFacts ==
    /\ RawCids \subseteq Cids
    /\ \A cid \in Cids : cid.type = "dag-node" => cid.links \in LinkMaps
    /\ None \notin Cids /\ Names \cap Cids = {} /\ (Files \cup Dirs) \cap Cids = {}
  <1>1. ASSUME NEW cid \in Cids, cid.type = "dag-node" PROVE cid.links \in LinkMaps
    <2>1. cid \notin RawCids
      BY <1>1, RawFacts
    <2>2. PICK data \in {"cli", "other"}, ls \in LinkMaps : cid = Dag(data, ls)
      BY <2>1 DEF Cids, LinkMaps
    <2>3. QED
      BY <2>2, DagFacts
  <1>2. RawCids \subseteq Cids
    BY DEF Cids
  <1>3. QED
    BY <1>1, <1>2, CidAssumption

(* Maps of files, and what is added to one. *)
LEMMA MapFacts ==
    /\ \A ls \in Linkings : /\ DOMAIN ls \in SUBSET Files
                            /\ ls \in [DOMAIN ls -> RawCids \cup Readings]
    /\ \A ls \in LinkMaps : DOMAIN ls \in SUBSET Files /\ ls \in [DOMAIN ls -> RawCids]
    /\ \A map \in Savings : DOMAIN map \in SUBSET (Files \cup {"body"}) /\ map \in [DOMAIN map -> Cids]
    /\ LinkMaps \subseteq Linkings
    /\ \A ls \in Linkings : (\A f \in DOMAIN ls : ls[f] \in RawCids) => ls \in LinkMaps
  <1>1. \A ls \in Linkings : /\ DOMAIN ls \in SUBSET Files
                             /\ ls \in [DOMAIN ls -> RawCids \cup Readings]
    BY DEF Linkings
  <1>2. \A ls \in LinkMaps : DOMAIN ls \in SUBSET Files /\ ls \in [DOMAIN ls -> RawCids]
    BY DEF LinkMaps
  <1>3. \A map \in Savings : DOMAIN map \in SUBSET (Files \cup {"body"}) /\ map \in [DOMAIN map -> Cids]
    BY DEF Savings
  <1>4. ASSUME NEW ls \in Linkings, \A f \in DOMAIN ls : ls[f] \in RawCids PROVE ls \in LinkMaps
    <2>1. ls \in [DOMAIN ls -> RawCids]
      BY <1>1, <1>4
    <2>2. QED
      BY <1>1, <2>1 DEF LinkMaps
  <1>5. ASSUME NEW ls \in LinkMaps PROVE ls \in Linkings
    <2>1. ls \in [DOMAIN ls -> RawCids \cup Readings]
      BY <1>2
    <2>2. QED
      BY <1>2, <2>1 DEF Linkings
  <1>6. QED
    BY <1>1, <1>2, <1>3, <1>4, <1>5

LEMMA EmptyMap == DOMAIN <<>> = {} /\ <<>> \in LinkMaps /\ <<>> \in Linkings /\ <<>> \in Savings
  <1>1. DOMAIN <<>> = {}
    OBVIOUS
  <1>2. <<>> \in [{} -> RawCids] /\ <<>> \in [{} -> Cids]
    OBVIOUS
  <1>3. <<>> \in LinkMaps /\ <<>> \in Savings
    BY <1>2 DEF LinkMaps, Savings
  <1>4. QED
    BY <1>1, <1>3, MapFacts

LEMMA WithFacts ==
    ASSUME NEW map, NEW path, NEW value
    PROVE  /\ DOMAIN With(map, path, value) = DOMAIN map \cup {path}
           /\ \A p \in DOMAIN map : With(map, path, value)[p] = map[p]
           /\ path \notin DOMAIN map => With(map, path, value)[path] = value
  BY DEF With

LEMMA WithLink ==
    ASSUME NEW ls \in Linkings, NEW f \in Files, NEW v \in RawCids \cup Readings
    PROVE  With(ls, f, v) \in Linkings
  <1>1. DOMAIN ls \cup {f} \in SUBSET Files /\ ls \in [DOMAIN ls -> RawCids \cup Readings]
    BY MapFacts
  <1>2. With(ls, f, v) \in [DOMAIN ls \cup {f} -> RawCids \cup Readings]
    BY <1>1 DEF With
  <1>3. QED
    BY <1>1, <1>2 DEF Linkings

LEMMA WithSaved ==
    ASSUME NEW map \in Savings, NEW f \in Files, NEW v \in Cids
    PROVE  With(map, f, v) \in Savings
  <1>1. DOMAIN map \cup {f} \in SUBSET (Files \cup {"body"}) /\ map \in [DOMAIN map -> Cids]
    BY MapFacts
  <1>2. With(map, f, v) \in [DOMAIN map \cup {f} -> Cids]
    BY <1>1 DEF With
  <1>3. QED
    BY <1>1, <1>2 DEF Savings

(* A link that changes is a link still. *)
LEMMA LinkSet ==
    ASSUME NEW ls \in Linkings, NEW f \in DOMAIN ls, NEW v \in RawCids \cup Readings
    PROVE  /\ [ls EXCEPT ![f] = v] \in Linkings /\ DOMAIN [ls EXCEPT ![f] = v] = DOMAIN ls
           /\ \A g \in DOMAIN ls : [ls EXCEPT ![f] = v][g] = IF g = f THEN v ELSE ls[g]
  <1>1. DOMAIN ls \in SUBSET Files /\ ls \in [DOMAIN ls -> RawCids \cup Readings]
    BY MapFacts
  <1>2. [ls EXCEPT ![f] = v] \in [DOMAIN ls -> RawCids \cup Readings]
    BY <1>1
  <1>3. QED
    BY <1>1, <1>2 DEF Linkings

-----------------------------------------------------------------------------
(* The entries of a walk, level by level. *)
LEMMA PushedEntries ==
    ASSUME NEW set \in SUBSET (Files \cup Dirs), NEW levels \in Seq(SUBSET (Files \cup Dirs))
    PROVE  /\ <<set>> \o levels \in Seq(SUBSET (Files \cup Dirs))
           /\ Entries(<<set>> \o levels) = set \cup Entries(levels)
  <1> DEFINE all == <<set>> \o levels
  <1>1. all \in Seq(SUBSET (Files \cup Dirs)) /\ Len(all) = Len(levels) + 1 /\ all[1] = set
    OBVIOUS
  <1>2. \A i \in 1..Len(levels) : all[i + 1] = levels[i]
    OBVIOUS
  <1>3. DOMAIN all = 1..Len(levels) + 1 /\ DOMAIN levels = 1..Len(levels) /\ Len(levels) \in Nat
    BY <1>1
  <1>4. ASSUME NEW i \in DOMAIN all PROVE all[i] \subseteq set \cup Entries(levels)
    <2>1. CASE i = 1
      BY <2>1, <1>1
    <2>2. CASE i # 1
      <3>1. i - 1 \in 1..Len(levels) /\ (i - 1) + 1 = i
        BY <2>2, <1>3
      <3>2. all[i] = levels[i - 1]
        BY <1>2, <3>1
      <3>3. QED
        BY <3>1, <3>2, <1>3 DEF Entries
    <2>3. QED
      BY <2>1, <2>2
  <1>5. set \subseteq Entries(all)
    <2>1. 1 \in DOMAIN all
      BY <1>3
    <2>2. QED
      BY <2>1, <1>1 DEF Entries
  <1>6. ASSUME NEW i \in DOMAIN levels PROVE levels[i] \subseteq Entries(all)
    <2>1. i + 1 \in DOMAIN all /\ all[i + 1] = levels[i]
      BY <1>2, <1>3
    <2>2. QED
      BY <2>1 DEF Entries
  <1>7. Entries(all) \subseteq set \cup Entries(levels)
    BY <1>4 DEF Entries
  <1>8. Entries(levels) \subseteq Entries(all)
    BY <1>6 DEF Entries
  <1>9. QED
    BY <1>1, <1>5, <1>7, <1>8

LEMMA PoppedEntries ==
    ASSUME NEW levels \in Seq(SUBSET (Files \cup Dirs)), levels # <<>>
    PROVE  /\ Head(levels) \in SUBSET (Files \cup Dirs)
           /\ Tail(levels) \in Seq(SUBSET (Files \cup Dirs))
           /\ Entries(levels) = Head(levels) \cup Entries(Tail(levels))
  <1>1. Head(levels) \in SUBSET (Files \cup Dirs) /\ Tail(levels) \in Seq(SUBSET (Files \cup Dirs))
    BY EmptySeq, HeadTailProperties
  <1>2. levels = <<Head(levels)>> \o Tail(levels)
    OBVIOUS
  <1>3. QED
    BY <1>1, <1>2, PushedEntries

LEMMA OneLevel ==
    ASSUME NEW set \in SUBSET (Files \cup Dirs)
    PROVE  <<set>> \in Seq(SUBSET (Files \cup Dirs)) /\ Entries(<<set>>) = set
  BY DEF Entries

LEMMA NoEntries == Entries(<<>>) = {}
  BY DEF Entries

LEMMA EntriesType ==
    ASSUME NEW levels \in Seq(SUBSET (Files \cup Dirs)) PROVE Entries(levels) \subseteq Files \cup Dirs
  <1>1. \A i \in DOMAIN levels : levels[i] \in SUBSET (Files \cup Dirs)
    OBVIOUS
  <1>2. QED
    BY <1>1 DEF Entries

(* What a walk comes to, when an entry of it is taken. *)
LEMMA WithinStart ==
    ASSUME NEW E \in SUBSET (Files \cup Dirs)
    PROVE  E \ Hidden \subseteq Within(E) /\ Within(E) \subseteq Files \cup Dirs
  BY DEF Within

LEMMA WithinGrows ==
    ASSUME NEW E \in SUBSET (Files \cup Dirs), NEW F \in SUBSET (Files \cup Dirs),
           E \ Hidden \subseteq Within(F)
    PROVE  Within(E) \subseteq Within(F)
  BY DEF Within

LEMMA WithinMonotone ==
    ASSUME NEW E \in SUBSET (Files \cup Dirs), NEW F \in SUBSET (Files \cup Dirs),
           E \ Hidden \subseteq F
    PROVE  Within(E) \subseteq Within(F)
  BY WithinStart, WithinGrows

LEMMA WithinChildren ==
    ASSUME NEW E \in SUBSET (Files \cup Dirs), NEW d \in Dirs, d \in Within(E)
    PROVE  Children[d] \ Hidden \subseteq Within(E)
  <1>1. Children[d] \subseteq Files \cup Dirs
    BY TransferAssumption
  <1>2. ASSUME NEW e \in Children[d] \ Hidden, NEW set \in SUBSET (Files \cup Dirs),
               E \ Hidden \subseteq set, Closed(set)
        PROVE  e \in set
    <2>1. d \in set \cap Dirs
      BY <1>2 DEF Within
    <2>2. QED
      BY <1>2, <2>1 DEF Closed
  <1>3. QED
    BY <1>1, <1>2 DEF Within

LEMMA WithinNothing == Within({}) = {}
  <1>1. Closed({})
    BY DEF Closed
  <1>2. QED
    BY <1>1 DEF Within

(* A file that is not among those taken away is come to as before. *)
LEMMA WithoutFiles ==
    ASSUME NEW E \in SUBSET (Files \cup Dirs), NEW A \in SUBSET Files, NEW f \in Within(E), f \notin A
    PROVE  f \in Within(E \ A)
  <1>1. f \in Files \cup Dirs
    BY DEF Within
  <1>2. ASSUME NEW set \in SUBSET (Files \cup Dirs), (E \ A) \ Hidden \subseteq set, Closed(set)
        PROVE  f \in set
    <2>1. set \cup A \in SUBSET (Files \cup Dirs) /\ E \ Hidden \subseteq set \cup A
      BY <1>2
    <2>2. (set \cup A) \cap Dirs = set \cap Dirs
      BY TransferAssumption
    <2>3. Closed(set \cup A)
      BY <1>2, <2>2 DEF Closed
    <2>4. f \in set \cup A
      BY <2>1, <2>3 DEF Within
    <2>5. QED
      BY <2>4
  <1>3. QED
    BY <1>1, <1>2 DEF Within

(* What is under a directory is come to through what the directory holds. *)
LEMMA WithoutDir ==
    ASSUME NEW E \in SUBSET (Files \cup Dirs), NEW d \in Dirs, NEW f \in Within(E), f \in Files
    PROVE  f \in Within((E \ {d}) \cup Children[d])
  <1>1. ASSUME NEW set \in SUBSET (Files \cup Dirs),
               ((E \ {d}) \cup Children[d]) \ Hidden \subseteq set, Closed(set)
        PROVE  f \in set
    <2>1. set \cup {d} \in SUBSET (Files \cup Dirs) /\ E \ Hidden \subseteq set \cup {d}
      BY <1>1
    <2>2. Children[d] \ Hidden \subseteq set
      BY <1>1
    <2>3. Closed(set \cup {d})
      BY <1>1, <2>2 DEF Closed
    <2>4. f \in set \cup {d}
      BY <2>1, <2>3 DEF Within
    <2>5. f # d
      BY TransferAssumption
    <2>6. QED
      BY <2>4, <2>5
  <1>2. QED
    BY <1>1 DEF Within

-----------------------------------------------------------------------------
(* Names and URIs. *)
LEMMA UriFacts ==
    ASSUME NEW cid \in Cids, NEW name \in Names \cup {None}
    PROVE  /\ NewUri(cid, name) \in [cid : Cids, name : Names \cup {None}]
           /\ NewUri(cid, name).cid = cid /\ CidOrName(NewUri(cid, name)) = cid
  BY CidFacts DEF NewUri, CidOrName

LEMMA ResolvedFacts ==
    ASSUME TransferTypeOK
    PROVE  /\ \A cid \in Cids : Resolved(cid) = cid
           /\ \A n \in Names : Resolved(n) = names[n]
           /\ \A source \in Names \cup Cids : Resolved(source) \in Cids \cup {None}
  BY CidFacts DEF TransferTypeOK, Resolved

(* The second resolution of a download is of the same source. *)
LEMMA ReadCidFacts ==
    ASSUME TransferTypeOK, NEW k \in Commands, job[k].of \in Names \cup Cids
    PROVE  ReadCid(k) = Resolved(job[k].of)
  <1>1. None \notin Names /\ None \notin Cids
    BY TransferAssumption, CidFacts
  <1>2. CidOrName(NewUri(job[k].of, None)) = job[k].of
    BY <1>1 DEF CidOrName, NewUri
  <1>3. QED
    BY <1>2 DEF ReadCid

LEMMA ListingType == ASSUME NEW d \in Dirs
                     PROVE  Listing(d) \in SUBSET (Files \cup Dirs) /\ Listing(d) \subseteq Children[d]
  BY TransferAssumption DEF Listing

LEMMA EarlierFacts ==
    /\ Earlier \in Cids /\ Earlier.type = "dag-node" /\ Foreign \in Cids /\ Foreign.links = <<>>
    /\ Earlier.links \in LinkMaps /\ DOMAIN Earlier.links = DOMAIN Uploaded
  <1> DEFINE ls == [f \in DOMAIN Uploaded |-> Whole(Uploaded[f])]
  <1>1. ls \in [DOMAIN Uploaded -> RawCids]
    BY TransferAssumption, RawFacts
  <1>2. ls \in LinkMaps
    BY <1>1, TransferAssumption DEF LinkMaps
  <1>3. Earlier = Dag("cli", ls)
    BY DEF Earlier
  <1>4. /\ Earlier \in Cids /\ Earlier.type = "dag-node" /\ Earlier.links = ls
    <2> HIDE DEF ls
    <2>1. QED
      BY <1>2, <1>3, DagFacts
  <1>5. Foreign \in Cids /\ Foreign.links = <<>>
    BY EmptyMap, DagFacts DEF Foreign
  <1>6. QED
    BY <1>2, <1>4, <1>5

-----------------------------------------------------------------------------
(* Types. *)
LEMMA TypeInit == Init => TransferTypeOK
  <1> SUFFICES ASSUME Init PROVE TransferTypeOK
    OBVIOUS
  <1>1. /\ local \in [Files -> Contents \cup {None}]
        /\ pc \in [Commands -> Places]
        /\ todo \in [Commands -> Seq(SUBSET (Files \cup Dirs))]
        /\ result \in [Commands -> Cids \cup {None}]
        /\ stoodFor \in [Commands -> SUBSET (Cids \cup {None})]
        /\ had \in [Commands -> [Files -> SUBSET (Contents \cup {None})]]
        /\ starts \in 0..MaxStarts /\ changes \in 0..MaxChanges
    BY TransferAssumption DEF Init, Places
  <1>2. /\ links \in [Commands -> Linkings] /\ saved \in [Commands -> Savings]
    BY EmptyMap DEF Init
  <1>3. job \in [Commands -> [kind : Kinds, of : Files \cup Dirs \cup Names \cup Cids \cup {None},
                              name : Names \cup {None}]]
    BY DEF Init, Kinds
  <1>4. names \in [Names -> Cids \cup {None}]
    BY EarlierFacts DEF Init
  <1>5. stored \subseteq Cids
    <2>1. \A f \in DOMAIN Uploaded : Earlier.links[f] \in RawCids
      BY EarlierFacts, MapFacts
    <2>2. QED
      BY <2>1, EarlierFacts, CidFacts DEF Init
  <1>6. uris \subseteq [cid : Cids, name : Names \cup {None}]
    BY EarlierFacts, UriFacts DEF Init
  <1>7. QED
    BY <1>1, <1>2, <1>3, <1>4, <1>5, <1>6 DEF TransferTypeOK

(* The types of what a command starts with. *)
LEMMA TypeBegin ==
    ASSUME TransferTypeOK, NEW k \in Commands, NEW kind \in Kinds,
           NEW of \in Files \cup Dirs \cup Names \cup Cids, NEW name \in Names \cup {None},
           Begin(k, kind, of, name)
    PROVE  /\ UNCHANGED <<local, stored, names, uris, changes>> /\ starts' \in 0..MaxStarts
           /\ job' \in [Commands -> [kind : Kinds, of : Files \cup Dirs \cup Names \cup Cids \cup {None},
                                     name : Names \cup {None}]]
           /\ saved' \in [Commands -> Savings]
           /\ stoodFor' \in [Commands -> SUBSET (Cids \cup {None})]
           /\ had' \in [Commands -> [Files -> SUBSET (Contents \cup {None})]]
  <1>1. UNCHANGED <<local, stored, names, uris, changes>>
    BY DEF Begin, cluster
  <1>2. starts' \in 0..MaxStarts
    BY TransferAssumption DEF TransferTypeOK, Begin
  <1>3. job' \in [Commands -> [kind : Kinds, of : Files \cup Dirs \cup Names \cup Cids \cup {None},
                               name : Names \cup {None}]]
    BY DEF TransferTypeOK, Begin
  <1>4. saved' \in [Commands -> Savings]
    BY EmptyMap DEF TransferTypeOK, Begin
  <1>5. stoodFor' \in [Commands -> SUBSET (Cids \cup {None})]
    <2>1. (IF of \in Files \cup Dirs THEN {} ELSE {Resolved(of)}) \subseteq Cids \cup {None}
      BY ResolvedFacts
    <2>2. QED
      BY <2>1 DEF TransferTypeOK, Begin
  <1>6. had' \in [Commands -> [Files -> SUBSET (Contents \cup {None})]]
    BY DEF TransferTypeOK, Begin
  <1>7. QED
    BY <1>1, <1>2, <1>3, <1>4, <1>5, <1>6

(* The types of what a store leaves. *)
LEMMA TypeStore ==
    ASSUME TransferTypeOK, NEW k \in Commands, NEW cid \in Cids, NEW name \in Names \cup {None},
           Store(k, cid, name), UNCHANGED job
    PROVE  /\ stored' = stored \cup {cid} /\ stored' \subseteq Cids
           /\ names' \in [Names -> Cids \cup {None}]
           /\ uris' \subseteq [cid : Cids, name : Names \cup {None}]
           /\ result' \in [Commands -> Cids \cup {None}]
           /\ pc' \in [Commands -> Places]
           /\ stoodFor' \in [Commands -> SUBSET (Cids \cup {None})]
  <1>1. stored' = stored \cup {cid} /\ stored' \subseteq Cids
    BY DEF TransferTypeOK, Store
  <1>2. names' \in [Names -> Cids \cup {None}]
    BY DEF TransferTypeOK, Store
  <1>3. uris' \subseteq [cid : Cids, name : Names \cup {None}]
    BY UriFacts DEF TransferTypeOK, Store
  <1>4. result' \in [Commands -> Cids \cup {None}]
    BY UriFacts DEF TransferTypeOK, Store
  <1>5. pc' \in [Commands -> Places]
    BY DEF TransferTypeOK, Store, Go, Places
  <1>6. stoodFor' \in [Commands -> SUBSET (Cids \cup {None})]
    <2>1. \A j \in Commands : job[j].of \in Names => names'[job[j].of] \in Cids \cup {None}
      BY <1>2
    <2>2. stoodFor' = [j \in Commands |->
                          IF Running(j) /\ job[j].of \in Names THEN stoodFor[j] \cup {names'[job[j].of]}
                          ELSE stoodFor[j]]
      BY DEF Store, Watch
    <2>3. QED
      BY <2>1, <2>2 DEF TransferTypeOK
  <1>7. QED
    BY <1>1, <1>2, <1>3, <1>4, <1>5, <1>6

(* A command that fails. *)
LEMMA TypeFail ==
    ASSUME TransferTypeOK, NEW k \in Commands, Fail(k), UNCHANGED <<local, history, starts, changes>>
    PROVE  TransferTypeOK'
  <1>1. pc' \in [Commands -> Places]
    BY DEF TransferTypeOK, Fail, Go, Places
  <1>2. /\ links' \in [Commands -> Linkings] /\ saved' \in [Commands -> Savings]
    BY EmptyMap DEF TransferTypeOK, Fail, Forget
  <1>3. /\ todo' \in [Commands -> Seq(SUBSET (Files \cup Dirs))]
        /\ result' \in [Commands -> Cids \cup {None}]
    BY DEF TransferTypeOK, Fail, Forget
  <1>4. QED
    BY <1>1, <1>2, <1>3 DEF TransferTypeOK, Fail, history, cluster

(* What a file that is there is sent as. *)
LEMMA SentFacts ==
    ASSUME TransferTypeOK, NEW f \in Files, local[f] # None
    PROVE  /\ local[f] \in Contents /\ local[f] \in Bodies /\ Sent(f) \in Readings
           /\ Sent(f).size = Len(local[f]) /\ Sent(f).got = <<>> /\ Sent(f).kept = None
           /\ \A contents : (\A c \in contents \ {None} : contents = {c} => c = local[f])
                             => ReadingFrom(Sent(f), contents)
  <1>1. local[f] \in Contents /\ local[f] \in Bodies /\ Len(local[f]) \in 0..MaxBlocks
    BY TransferAssumption, BodyFacts DEF TransferTypeOK
  <1>2. /\ Sent(f) \in Readings /\ Sent(f).size = Len(local[f]) /\ Sent(f).got = <<>>
        /\ Sent(f).kept = None
    BY <1>1, ReadingFacts DEF Sent
  <1>3. \A contents : InPlace(<<>>, contents)
    BY EmptyMap DEF InPlace
  <1>4. QED
    BY <1>1, <1>2, <1>3 DEF ReadingFrom

(* What a file is read from is one of its contents. *)
LEMMA StreamFacts ==
    ASSUME TransferTypeOK, NEW k \in Commands, NEW f \in Files, Sending(k, f), InStream(k, f) # None
    PROVE  /\ f \in DOMAIN links[k] /\ links[k] \in Linkings /\ links[k][f] \in Readings
           /\ InStream(k, f) \in Contents /\ InStream(k, f) \in Bodies
           /\ links[k][f].got \in Bodies /\ links[k][f].size \in 0..MaxBlocks
  <1>1. f \in DOMAIN links[k] /\ links[k] \in Linkings /\ links[k][f].type = "reading"
    BY DEF Sending, TransferTypeOK
  <1>2. links[k][f] \in Readings
    BY <1>1, MapFacts, RawFacts
  <1>3. InStream(k, f) \in Contents
    BY <1>2 DEF InStream, Readings, TransferTypeOK
  <1>4. QED
    BY <1>1, <1>2, <1>3, TransferAssumption DEF Readings

(* One lemma for each kind of step. *)
LEMMA TypeUploads ==
    ASSUME TransferTypeOK, NEW k \in Commands, NEW n \in Names \cup {None},
           UploadDir(k, n) \/ \E f \in Files : UploadFile(k, f, n)
    PROVE  TransferTypeOK'
  <1>1. CASE UploadDir(k, n)
    <2>1. Begin(k, "upload dir", Source, n) /\ Source \in Dirs
      BY <1>1, TransferAssumption DEF UploadDir
    <2>2. /\ UNCHANGED <<local, stored, names, uris, changes>> /\ starts' \in 0..MaxStarts
          /\ job' \in [Commands -> [kind : Kinds, of : Files \cup Dirs \cup Names \cup Cids \cup {None},
                                    name : Names \cup {None}]]
          /\ saved' \in [Commands -> Savings]
          /\ stoodFor' \in [Commands -> SUBSET (Cids \cup {None})]
          /\ had' \in [Commands -> [Files -> SUBSET (Contents \cup {None})]]
      BY <2>1, TypeBegin DEF Kinds
    <2>3. <<Listing(Source)>> \in Seq(SUBSET (Files \cup Dirs))
      BY <2>1, ListingType, OneLevel
    <2>4. todo' \in [Commands -> Seq(SUBSET (Files \cup Dirs))]
      BY <1>1, <2>3 DEF UploadDir, TransferTypeOK
    <2>5. links' \in [Commands -> Linkings]
      BY <1>1, EmptyMap DEF UploadDir, TransferTypeOK
    <2>6. result' \in [Commands -> Cids \cup {None}] /\ pc' \in [Commands -> Places]
      BY <1>1 DEF UploadDir, TransferTypeOK, Go, Places
    <2>7. QED
      BY <2>2, <2>4, <2>5, <2>6 DEF TransferTypeOK
  <1>2. ASSUME NEW f \in Files, UploadFile(k, f, n) PROVE TransferTypeOK'
    <2>1. Begin(k, "upload file", f, n)
      BY <1>2 DEF UploadFile
    <2>2. /\ UNCHANGED <<local, stored, names, uris, changes>> /\ starts' \in 0..MaxStarts
          /\ job' \in [Commands -> [kind : Kinds, of : Files \cup Dirs \cup Names \cup Cids \cup {None},
                                    name : Names \cup {None}]]
          /\ saved' \in [Commands -> Savings]
          /\ stoodFor' \in [Commands -> SUBSET (Cids \cup {None})]
          /\ had' \in [Commands -> [Files -> SUBSET (Contents \cup {None})]]
      BY <2>1, TypeBegin DEF Kinds
    <2>3. [p \in {f} |-> Sent(f)] \in Linkings
      <3>1. Sent(f) \in Readings
        BY <1>2, SentFacts DEF UploadFile
      <3>2. [p \in {f} |-> Sent(f)] \in [{f} -> RawCids \cup Readings]
        BY <3>1
      <3>3. QED
        BY <3>2 DEF Linkings
    <2>4. todo' \in [Commands -> Seq(SUBSET (Files \cup Dirs))]
      <3>1. todo' = [todo EXCEPT ![k] = <<>>]
        BY <1>2 DEF UploadFile
      <3>2. QED
        BY <3>1 DEF TransferTypeOK
    <2>5. links' \in [Commands -> Linkings]
      BY <1>2, <2>3 DEF UploadFile, TransferTypeOK
    <2>6. result' \in [Commands -> Cids \cup {None}] /\ pc' \in [Commands -> Places]
      BY <1>2 DEF UploadFile, TransferTypeOK, Go, Places
    <2>7. QED
      BY <2>2, <2>4, <2>5, <2>6 DEF TransferTypeOK
  <1>3. QED
    BY <1>1, <1>2

LEMMA TypeReads ==
    ASSUME TransferTypeOK, NEW k \in Commands,
           (\E source \in Names \cup stored : Download(k, source)) \/ (\E uri \in uris : ReadUri(k, uri))
    PROVE  TransferTypeOK'
  <1>1. ASSUME NEW source \in Names \cup stored, Download(k, source) PROVE TransferTypeOK'
    <2>1. Begin(k, "download", source, None) /\ source \in Names \cup Cids
      BY <1>1 DEF Download, TransferTypeOK
    <2>2. /\ UNCHANGED <<local, stored, names, uris, changes>> /\ starts' \in 0..MaxStarts
          /\ job' \in [Commands -> [kind : Kinds, of : Files \cup Dirs \cup Names \cup Cids \cup {None},
                                    name : Names \cup {None}]]
          /\ saved' \in [Commands -> Savings]
          /\ stoodFor' \in [Commands -> SUBSET (Cids \cup {None})]
          /\ had' \in [Commands -> [Files -> SUBSET (Contents \cup {None})]]
      BY <2>1, TypeBegin DEF Kinds
    <2>3. links' \in [Commands -> Linkings]
      BY <1>1, EmptyMap DEF Download, TransferTypeOK
    <2>4. result' \in [Commands -> Cids \cup {None}] /\ pc' \in [Commands -> Places] /\ UNCHANGED todo
      BY <1>1 DEF Download, TransferTypeOK, Go, Places
    <2>5. QED
      BY <2>2, <2>3, <2>4 DEF TransferTypeOK
  <1>2. ASSUME NEW uri \in uris, ReadUri(k, uri) PROVE TransferTypeOK'
    <2>1. uri \in [cid : Cids, name : Names \cup {None}]
      BY <1>2 DEF TransferTypeOK
    <2>2. Begin(k, "read", uri.cid, uri.name) /\ uri.cid \in Cids /\ uri.name \in Names \cup {None}
      BY <1>2, <2>1 DEF ReadUri
    <2>3. /\ UNCHANGED <<local, stored, names, uris, changes>> /\ starts' \in 0..MaxStarts
          /\ job' \in [Commands -> [kind : Kinds, of : Files \cup Dirs \cup Names \cup Cids \cup {None},
                                    name : Names \cup {None}]]
          /\ saved' \in [Commands -> Savings]
          /\ stoodFor' \in [Commands -> SUBSET (Cids \cup {None})]
          /\ had' \in [Commands -> [Files -> SUBSET (Contents \cup {None})]]
      BY <2>2, TypeBegin DEF Kinds
    <2>4. CidOrName(uri) \in Cids
      BY <2>2, CidFacts DEF CidOrName
    <2>5. result' \in [Commands -> Cids \cup {None}]
      BY <1>2, <2>4, ResolvedFacts DEF ReadUri, TransferTypeOK
    <2>6. pc' \in [Commands -> Places] /\ UNCHANGED <<todo, links>>
      BY <1>2 DEF ReadUri, TransferTypeOK, Go, Places
    <2>7. QED
      BY <2>3, <2>5, <2>6 DEF TransferTypeOK
  <1>3. QED
    BY <1>1, <1>2

LEMMA TypeWalk ==
    ASSUME TransferTypeOK, NEW k \in Commands,
           (\E entry \in Files \cup Dirs : Visit(k, entry)) \/ Return(k)
    PROVE  TransferTypeOK'
  <1>1. ASSUME NEW entry \in Files \cup Dirs, Visit(k, entry) PROVE TransferTypeOK'
    <2> DEFINE rest == <<Head(todo[k]) \ {entry}>> \o Tail(todo[k])
    <2>1. todo[k] \in Seq(SUBSET (Files \cup Dirs)) /\ todo[k] # <<>>
      BY <1>1 DEF Visit, TransferTypeOK
    <2>2. rest \in Seq(SUBSET (Files \cup Dirs))
      BY <2>1, PoppedEntries, PushedEntries
    <2>3. entry \in Dirs => <<Listing(entry)>> \o rest \in Seq(SUBSET (Files \cup Dirs))
      BY <2>2, ListingType, PushedEntries
    <2>4. /\ todo' = [todo EXCEPT ![k] = rest] \/ todo' = [todo EXCEPT ![k] = <<Listing(entry)>> \o rest]
          /\ todo' = [todo EXCEPT ![k] = rest] \/ entry \in Dirs
      BY <1>1 DEF Visit
    <2>5. todo' \in [Commands -> Seq(SUBSET (Files \cup Dirs))]
      <3> HIDE DEF rest
      <3>1. QED
        BY <2>2, <2>3, <2>4 DEF TransferTypeOK
    <2>6. entry \in Files /\ local[entry] # None => With(links[k], entry, Sent(entry)) \in Linkings
      BY WithLink, SentFacts DEF TransferTypeOK
    <2>7. \/ links' = links
          \/ /\ entry \in Files /\ local[entry] # None
             /\ links' = [links EXCEPT ![k] = With(links[k], entry, Sent(entry))]
      BY <1>1 DEF Visit
    <2>8. links' \in [Commands -> Linkings]
      BY <2>6, <2>7 DEF TransferTypeOK
    <2>9. UNCHANGED <<local, cluster, pc, job, saved, result, history, starts, changes>>
      BY <1>1 DEF Visit
    <2>10. QED
      BY <2>5, <2>8, <2>9 DEF TransferTypeOK, cluster, history
  <1>2. CASE Return(k)
    <2>1. Tail(todo[k]) \in Seq(SUBSET (Files \cup Dirs))
      BY <1>2, PoppedEntries DEF Return, TransferTypeOK
    <2>2. todo' \in [Commands -> Seq(SUBSET (Files \cup Dirs))]
      BY <1>2, <2>1 DEF Return, TransferTypeOK
    <2>3. QED
      BY <1>2, <2>2 DEF Return, TransferTypeOK, cluster, history
  <1>3. QED
    BY <1>1, <1>2

LEMMA TypeReadBlock ==
    ASSUME TransferTypeOK, NEW k \in Commands, NEW f \in Files, ReadBlock(k, f)
    PROVE  /\ TransferTypeOK'
           /\ links' = [links EXCEPT ![k] = [links[k] EXCEPT ![f] = BlockRead(k, f)]]
           /\ BlockRead(k, f) \in Readings /\ f \in DOMAIN links[k] /\ links[k][f] \in Readings
           /\ BlockRead(k, f).size = links[k][f].size /\ BlockRead(k, f).kept = links[k][f].kept
           /\ \A i \in DOMAIN BlockRead(k, f).got :
                 \/ /\ i \in DOMAIN links[k][f].got
                    /\ BlockRead(k, f).got[i] = links[k][f].got[i]
                 \/ /\ i \in DOMAIN InStream(k, f)
                    /\ BlockRead(k, f).got[i] = InStream(k, f)[i]
  <1> DEFINE got == links[k][f].got
             c == InStream(k, f)
             more == Append(got, c[Len(got) + 1])
  <1>1. /\ Sending(k, f) /\ c # None /\ Len(got) < Len(c)
        /\ links' = [links EXCEPT ![k][f].got = more]
        /\ UNCHANGED <<local, cluster, pc, job, todo, saved, result, history, starts, changes>>
    BY DEF ReadBlock
  <1>2. /\ f \in DOMAIN links[k] /\ links[k] \in Linkings /\ links[k][f] \in Readings
        /\ c \in Bodies /\ got \in Bodies
    BY <1>1, StreamFacts
  <1>3. /\ Len(got) \in Nat /\ Len(c) \in 0..MaxBlocks /\ MaxBlocks \in Nat
        /\ got \in Seq(Blocks) /\ DOMAIN got = 1..Len(got)
        /\ DOMAIN c = 1..Len(c) /\ c \in [1..Len(c) -> Blocks]
    BY <1>2, BodyFacts, TransferAssumption
  <1>4. Len(got) + 1 \in 1..Len(c) /\ Len(got) + 1 \in 0..MaxBlocks
    BY <1>1, <1>3
  <1>5. c[Len(got) + 1] \in Blocks
    BY <1>3, <1>4
  <1>6. /\ more \in Seq(Blocks) /\ Len(more) = Len(got) + 1
        /\ \A i \in 1..Len(got) : more[i] = got[i]
        /\ more[Len(got) + 1] = c[Len(got) + 1]
    <2> HIDE DEF got, c
    <2>1. QED
      BY <1>3, <1>5, AppendProperties
  <1>7. DOMAIN more = 1..(Len(got) + 1) /\ more \in [1..(Len(got) + 1) -> Blocks]
    <2> HIDE DEF got, c, more
    <2>1. QED
      BY <1>6, LenProperties
  <1>8. more \in Bodies
    <2> HIDE DEF got, c, more
    <2>1. QED
      BY <1>4, <1>7, BodyFacts
  <1>9. BlockRead(k, f) = [links[k][f] EXCEPT !.got = more]
    BY DEF BlockRead
  <1> HIDE DEF more
  <1>10. /\ BlockRead(k, f) \in Readings /\ BlockRead(k, f).got = more
         /\ BlockRead(k, f).size = links[k][f].size /\ BlockRead(k, f).kept = links[k][f].kept
    BY <1>2, <1>8, <1>9, ReadingFacts
  <1>11. links' = [links EXCEPT ![k] = [links[k] EXCEPT ![f] = BlockRead(k, f)]]
    BY <1>1, <1>9
  <1>12. links' \in [Commands -> Linkings]
    <2>1. [links[k] EXCEPT ![f] = BlockRead(k, f)] \in Linkings
      BY <1>2, <1>10, LinkSet
    <2>2. QED
      BY <1>11, <2>1 DEF TransferTypeOK
  <1>13. TransferTypeOK'
    BY <1>1, <1>12 DEF TransferTypeOK, cluster, history
  <1>14. ASSUME NEW i \in DOMAIN more
         PROVE  \/ i \in DOMAIN got /\ more[i] = got[i]
                \/ i \in DOMAIN c /\ more[i] = c[i]
    <2> HIDE DEF got, c
    <2>1. i \in 1..Len(got) \/ i = Len(got) + 1
      BY <1>3, <1>7
    <2>2. QED
      BY <1>3, <1>4, <1>6, <2>1
  <1>15. QED
    BY <1>2, <1>10, <1>11, <1>13, <1>14

LEMMA TypeFileStored ==
    ASSUME TransferTypeOK, NEW k \in Commands, NEW f \in Files, FileStored(k, f)
    PROVE  /\ TransferTypeOK' /\ f \in DOMAIN links[k]
           /\ CidOf(links[k][f]) \in RawCids /\ CidOf(links[k][f]) \in Cids
           /\ links' = [links EXCEPT ![k] = [links[k] EXCEPT ![f] = CidOf(links[k][f])]]
  <1> DEFINE cid == CidOf(links[k][f])
  <1>1. /\ f \in DOMAIN links[k] /\ links[k] \in Linkings
        /\ links[k][f].got \in Bodies /\ links[k][f].size \in 0..MaxBlocks
    BY StreamFacts DEF FileStored
  <1>2. cid \in RawCids /\ cid \in Cids
    <2>1. Len(links[k][f].got) \in 0..MaxBlocks
      BY <1>1, BodyFacts
    <2>2. QED
      BY <1>1, <2>1, RawFacts, CidFacts DEF CidOf, Whole
  <1> HIDE DEF cid
  <1>3. /\ links' = [links EXCEPT ![k] = [links[k] EXCEPT ![f] = cid]]
        /\ links' \in [Commands -> Linkings]
    <2>1. [links[k] EXCEPT ![f] = cid] \in Linkings
      BY <1>1, <1>2, LinkSet
    <2>2. links' = [links EXCEPT ![k] = [links[k] EXCEPT ![f] = cid]]
      BY DEF FileStored, cid
    <2>3. QED
      BY <2>1, <2>2 DEF TransferTypeOK
  <1>4. UNCHANGED <<local, job, todo, saved, had, starts, changes>>
    BY DEF FileStored
  <1>5. CASE Store(k, cid, job[k].name)
    <2>1. job[k].name \in Names \cup {None}
      BY DEF TransferTypeOK
    <2>2. /\ stored' \subseteq Cids /\ names' \in [Names -> Cids \cup {None}]
          /\ uris' \subseteq [cid : Cids, name : Names \cup {None}]
          /\ result' \in [Commands -> Cids \cup {None}] /\ pc' \in [Commands -> Places]
          /\ stoodFor' \in [Commands -> SUBSET (Cids \cup {None})]
      BY <1>2, <1>4, <1>5, <2>1, TypeStore
    <2>3. QED
      BY <1>1, <1>2, <1>3, <1>4, <2>2 DEF TransferTypeOK, cid
  <1>6. CASE stored' = stored \cup {cid} /\ UNCHANGED <<names, uris, result, pc, stoodFor>>
    BY <1>1, <1>2, <1>3, <1>4, <1>6 DEF TransferTypeOK, cid
  <1>7. QED
    BY <1>5, <1>6 DEF FileStored, cid

LEMMA TypeStoreRoot ==
    ASSUME TransferTypeOK, NEW k \in Commands, StoreRoot(k)
    PROVE  TransferTypeOK' /\ links[k] \in LinkMaps
  <1>1. /\ links[k] \in Linkings
        /\ \A f \in DOMAIN links[k] : links[k][f].type # "reading"
    BY DEF StoreRoot, Sending, TransferTypeOK
  <1>2. links[k] \in LinkMaps
    BY <1>1, MapFacts, RawFacts
  <1>3. Dag("cli", links[k]) \in Cids
    BY <1>2, DagFacts
  <1>4. UNCHANGED <<local, job, todo, links, saved, had, starts, changes>>
    BY DEF StoreRoot
  <1>5. Store(k, Dag("cli", links[k]), job[k].name) /\ job[k].name \in Names \cup {None}
    BY DEF StoreRoot, TransferTypeOK
  <1>6. /\ stored' \subseteq Cids /\ names' \in [Names -> Cids \cup {None}]
        /\ uris' \subseteq [cid : Cids, name : Names \cup {None}]
        /\ result' \in [Commands -> Cids \cup {None}] /\ pc' \in [Commands -> Places]
        /\ stoodFor' \in [Commands -> SUBSET (Cids \cup {None})]
    BY <1>3, <1>4, <1>5, TypeStore
  <1>7. QED
    BY <1>2, <1>4, <1>6 DEF TransferTypeOK

LEMMA TypeDownloads ==
    ASSUME TransferTypeOK, NEW k \in Commands, Fetching(k),
           ResolveName(k) \/ ReadDir(k) \/ ReadFile(k)
    PROVE  TransferTypeOK'
  <1>1. /\ job[k].of \in Names \cup Cids /\ ReadCid(k) = Resolved(job[k].of)
        /\ Resolved(job[k].of) \in Cids \cup {None}
        /\ pc[k] # "resolving" => ReadCid(k) \in Cids
    <2>1. job[k].of \in Names \cup Cids /\ (pc[k] # "resolving" => Resolved(job[k].of) # None)
      BY DEF Fetching, ResolveName, ReadDir, ReadFile
    <2>2. QED
      BY <2>1, ReadCidFacts, ResolvedFacts
  <1>2. CASE Fail(k) /\ UNCHANGED <<local, history, starts, changes>>
    BY <1>2, TypeFail
  <1>3. CASE ResolveName(k) /\ ~Fail(k)
    <2>1. /\ result' = [result EXCEPT ![k] = Resolved(job[k].of)]
          /\ Go(k, "reading dir") \/ Go(k, "reading file")
          /\ UNCHANGED <<local, cluster, job, todo, links, saved, history, starts, changes>>
      BY <1>3 DEF ResolveName
    <2>2. result' \in [Commands -> Cids \cup {None}] /\ pc' \in [Commands -> Places]
      BY <1>1, <2>1 DEF TransferTypeOK, Go, Places
    <2>3. QED
      BY <2>1, <2>2 DEF TransferTypeOK, cluster, history
  <1>4. CASE ReadDir(k) /\ ~Fail(k)
    <2>1. /\ IsCLIDir(ReadCid(k)) /\ links' = [links EXCEPT ![k] = ReadCid(k).links]
          /\ Go(k, "saving")
          /\ UNCHANGED <<local, cluster, job, todo, saved, result, history, starts, changes>>
      BY <1>4 DEF ReadDir
    <2>2. ReadCid(k) \in Cids /\ ReadCid(k).links \in Linkings
      BY <1>1, <1>4, <2>1, CidFacts, MapFacts DEF ReadDir, IsCLIDir
    <2>3. links' \in [Commands -> Linkings] /\ pc' \in [Commands -> Places]
      BY <2>1, <2>2 DEF TransferTypeOK, Go, Places
    <2>4. QED
      BY <2>1, <2>3 DEF TransferTypeOK, cluster, history
  <1>5. CASE ReadFile(k)
    <2>1. /\ saved' = [saved EXCEPT ![k] = Body(ReadCid(k))] /\ Go(k, "done")
          /\ UNCHANGED <<local, cluster, job, todo, links, result, history, starts, changes>>
      BY <1>5 DEF ReadFile
    <2>2. Body(ReadCid(k)) \in [{"body"} -> Cids]
      BY <1>1, <1>5 DEF ReadFile, Body
    <2>3. Body(ReadCid(k)) \in Savings
      BY <2>2 DEF Savings
    <2>4. saved' \in [Commands -> Savings] /\ pc' \in [Commands -> Places]
      BY <2>1, <2>3 DEF TransferTypeOK, Go, Places
    <2>5. QED
      BY <2>1, <2>4 DEF TransferTypeOK, cluster, history
  <1>6. ReadDir(k) => UNCHANGED <<local, history, starts, changes>>
    BY DEF ReadDir
  <1>7. ResolveName(k) => UNCHANGED <<local, history, starts, changes>>
    BY DEF ResolveName
  <1>8. QED
    BY <1>2, <1>3, <1>4, <1>5, <1>6, <1>7

LEMMA TypeSaves ==
    ASSUME TransferTypeOK, NEW k \in Commands,
           (\E f \in Files : SaveLink(k, f)) \/ SavedAll(k) \/ UploadFails(k) \/ DownloadFails(k)
    PROVE  TransferTypeOK'
  <1>1. ASSUME NEW f \in Files, SaveLink(k, f) PROVE TransferTypeOK'
    <2>1. links[k][f] \in Cids /\ saved[k] \in Savings
      BY <1>1 DEF SaveLink, TransferTypeOK
    <2>2. With(saved[k], f, links[k][f]) \in Savings
      BY <2>1, WithSaved
    <2>3. saved' \in [Commands -> Savings]
      BY <1>1, <2>2 DEF SaveLink, TransferTypeOK
    <2>4. QED
      BY <1>1, <2>3 DEF SaveLink, TransferTypeOK, cluster, history
  <1>2. CASE SavedAll(k)
    <2>1. pc' \in [Commands -> Places]
      BY <1>2 DEF SavedAll, TransferTypeOK, Go, Places
    <2>2. QED
      BY <1>2, <2>1 DEF SavedAll, TransferTypeOK, cluster, transfer, history
  <1>3. CASE UploadFails(k) \/ DownloadFails(k)
    BY <1>3, TypeFail DEF UploadFails, DownloadFails
  <1>4. QED
    BY <1>1, <1>2, <1>3

LEMMA TypeLocalChanges ==
    ASSUME TransferTypeOK, NEW f \in Files, NEW c \in Contents \cup {None}, LocalChanges(f, c),
           links' \in [Commands -> Linkings]
    PROVE  TransferTypeOK'
  <1>1. local' \in [Files -> Contents \cup {None}]
    BY DEF LocalChanges, TransferTypeOK
  <1>2. had' \in [Commands -> [Files -> SUBSET (Contents \cup {None})]]
    <2>1. \A k \in Commands :
             [had[k] EXCEPT ![f] = @ \cup {c}] \in [Files -> SUBSET (Contents \cup {None})]
      BY DEF TransferTypeOK
    <2>2. QED
      BY <2>1 DEF LocalChanges, TransferTypeOK
  <1>3. changes' \in 0..MaxChanges
    BY TransferAssumption DEF LocalChanges, TransferTypeOK
  <1>4. UNCHANGED <<stored, names, uris, pc, job, todo, saved, result, stoodFor, starts>>
    BY DEF LocalChanges, cluster
  <1>5. QED
    BY <1>1, <1>2, <1>3, <1>4 DEF TransferTypeOK

(* The streams that have a file open keep what it was when it is removed. *)
LEMMA KeptFacts ==
    ASSUME TransferTypeOK, NEW f \in Files, FileRemoved(f), NEW k \in Commands
    PROVE  \/ links'[k] = links[k]
           \/ /\ pc[k] \in {"walking", "sending"} /\ f \in DOMAIN links[k]
              /\ local[f] \in Contents /\ links[k][f] \in Readings
              /\ links'[k] = [links[k] EXCEPT ![f] = [links[k][f] EXCEPT !.kept = local[f]]]
              /\ [links[k][f] EXCEPT !.kept = local[f]] \in Readings
  <1>1. /\ local[f] # None
        /\ \/ links'[k] = links[k]
           \/ /\ Sending(k, f)
              /\ links'[k] = [links[k] EXCEPT ![f] = [links[k][f] EXCEPT !.kept = local[f]]]
    BY DEF FileRemoved, LocalChanges, Readers
  <1>2. local[f] \in Contents /\ links[k] \in Linkings
    BY <1>1 DEF TransferTypeOK
  <1>3. CASE Sending(k, f)
    <2>1. /\ pc[k] \in {"walking", "sending"} /\ f \in DOMAIN links[k]
          /\ links[k][f].type = "reading"
      BY <1>3 DEF Sending
    <2>2. links[k][f] \in Readings
      BY <1>2, <2>1, MapFacts, RawFacts
    <2>3. QED
      BY <1>1, <1>2, <2>1, <2>2, ReadingFacts
  <1>4. QED
    BY <1>1, <1>3

LEMMA TypeFiles ==
    ASSUME TransferTypeOK, NEW f \in Files,
           (\E content \in Contents : FileWritten(f, content)) \/ FileRemoved(f)
    PROVE  TransferTypeOK'
  <1>1. ASSUME NEW content \in Contents, FileWritten(f, content) PROVE TransferTypeOK'
    BY <1>1, TypeLocalChanges DEF FileWritten, TransferTypeOK
  <1>2. CASE FileRemoved(f)
    <2>1. ASSUME NEW k \in Commands PROVE links'[k] \in Linkings
      <3> DEFINE held == [links[k][f] EXCEPT !.kept = local[f]]
      <3>1. links[k] \in Linkings
        BY DEF TransferTypeOK
      <3>2. \/ links'[k] = links[k]
            \/ /\ f \in DOMAIN links[k] /\ held \in Readings
               /\ links'[k] = [links[k] EXCEPT ![f] = held]
        BY <1>2, KeptFacts
      <3> HIDE DEF held
      <3>3. QED
        BY <3>1, <3>2, LinkSet
    <2>2. links' \in [Commands -> Linkings]
      BY <1>2, <2>1 DEF FileRemoved
    <2>3. QED
      BY <1>2, <2>2, TypeLocalChanges DEF FileRemoved
  <1>3. QED
    BY <1>1, <1>2

LEMMA TypeNext ==
    ASSUME TransferInv, [Next]_vars
    PROVE  TransferTypeOK'
  <1> USE DEF TransferInv
  <1>1. ASSUME NEW k \in Commands PROVE Fetching(k)
    BY DEF CommandInv
  <1>2. CASE UNCHANGED vars
    BY <1>2 DEF vars, TransferTypeOK, cluster, transfer, history
  <1>3. CASE Next
    BY <1>1, <1>3, TypeUploads, TypeReads, TypeWalk, TypeReadBlock, TypeFileStored, TypeStoreRoot,
       TypeDownloads, TypeSaves, TypeFiles, TransferAssumption DEF Next
  <1>4. QED
    BY <1>2, <1>3

-----------------------------------------------------------------------------
(* What the other commands, and the files, do to a command j. *)
ReadsOn(j) ==
    /\ pc[j] \in {"walking", "sending"} /\ DOMAIN links'[j] = DOMAIN links[j]
    /\ \A f \in DOMAIN links[j] :
           \/ links'[j][f] = links[j][f]
           \/ links'[j][f] \in Readings /\ ReadingFrom(links'[j][f], had'[j][f])

Stays(j) ==
    /\ pc'[j] = pc[j] /\ job'[j] = job[j] /\ todo'[j] = todo[j]
    /\ links'[j] = links[j] \/ ReadsOn(j)
    /\ saved'[j] = saved[j] /\ result'[j] = result[j]
    /\ stored \subseteq stored' /\ stoodFor[j] \subseteq stoodFor'[j]
    /\ \A f \in Files : had[j][f] \subseteq had'[j][f]
    /\ Running(j) => \A f \in Files : local'[f] \in had'[j][f]
    /\ ~Running(j) => had'[j] = had[j]
    /\ \A n \in Names : names'[n] = None => names[n] = None
    /\ \A n \in Names : Running(j) /\ job[j].of = n => names'[n] \in stoodFor'[j] \/ names'[n] = names[n]

LEMMA StaysUpload ==
    ASSUME TransferTypeOK, NEW j \in Commands, CommandInv(j), Stays(j)
    PROVE  Walking(j)' /\ Linked(j)' /\ Complete(j)' /\ Watching(j)'
  <1> DOMAIN links[j] \subseteq Files
    BY MapFacts DEF TransferTypeOK
  <1> Visible \subseteq Files
    BY DEF Visible
  <1>1. Walking(j)'
    <2>1. DOMAIN links'[j] = DOMAIN links[j]
      BY DEF Stays, ReadsOn
    <2>2. Entries(todo[j])' = Entries(todo[j])
      BY DEF Stays, Entries
    <2>3. QED
      BY <2>1, <2>2 DEF Stays, CommandInv, Walking
  <1>2. Linked(j)'
    <2> SUFFICES ASSUME pc[j] \in {"walking", "sending"} PROVE Linked(j)'
      BY DEF Stays, Linked
    <2>1. Linked(j) /\ Running(j) /\ \A f \in Files : local[f] \in had[j][f]
      BY DEF CommandInv, Watching, Running
    <2>2. DOMAIN links'[j] = DOMAIN links[j]
      BY DEF Stays, ReadsOn
    <2>3. ASSUME NEW f \in DOMAIN links[j]
          PROVE  \/ links'[j][f] \in Readings /\ ReadingFrom(links'[j][f], had'[j][f])
                 \/ links'[j][f] \in stored' \cap RawCids /\ ReadFrom(links'[j][f], had'[j][f])
      <3>1. had[j][f] \subseteq had'[j][f] /\ had[j][f] # {} /\ stored \subseteq stored'
        BY <2>1 DEF Stays
      <3>2. \/ links'[j][f] = links[j][f]
            \/ links'[j][f] \in Readings /\ ReadingFrom(links'[j][f], had'[j][f])
        BY DEF Stays, ReadsOn
      <3>3. \/ links[j][f] \in Readings /\ ReadingFrom(links[j][f], had[j][f])
            \/ links[j][f] \in stored \cap RawCids /\ ReadFrom(links[j][f], had[j][f])
        BY <2>1 DEF Linked
      <3>4. /\ \A file : ReadingFrom(file, had[j][f]) => ReadingFrom(file, had'[j][f])
            /\ \A cid : ReadFrom(cid, had[j][f]) => ReadFrom(cid, had'[j][f])
        BY <3>1, SeenGrows
      <3>5. QED
        BY <3>1, <3>2, <3>3, <3>4
    <2>4. pc'[j] = pc[j] /\ job'[j] = job[j]
      BY DEF Stays
    <2>5. QED
      BY <2>1, <2>2, <2>3, <2>4 DEF Linked
  <1>3. Complete(j)'
    BY DEF Stays, CommandInv, Complete, Running
  <1>4. Watching(j)'
    BY DEF Stays, Watching, Running
  <1>5. QED
    BY <1>1, <1>2, <1>3, <1>4

LEMMA StaysRead ==
    ASSUME TransferTypeOK, NEW j \in Commands, CommandInv(j), Stays(j)
    PROVE  Fetching(j)' /\ Saving(j)' /\ Fetched(j)' /\ ReadBack(j)'
  <1>1. Fetching(j)'
    <2> SUFFICES ASSUME pc[j] \in {"resolving", "reading dir", "reading file", "saving"}
                 PROVE  Fetching(j)'
      BY DEF Stays, Fetching
    <2>1. Running(j) /\ Fetching(j)
      BY DEF Running, CommandInv
    <2>2. job[j].of \in Names \cup Cids
      BY <2>1 DEF Fetching
    <2>3. Resolved(job[j].of)' \in stoodFor'[j]
          /\ (pc[j] # "resolving" => Resolved(job[j].of)' # None)
      <3>1. CASE job[j].of \in Names
        <4>1. Resolved(job[j].of) = names[job[j].of] /\ Resolved(job[j].of)' = names'[job[j].of]
          BY <3>1 DEF Resolved, Stays
        <4>2. QED
          BY <2>1, <3>1, <4>1 DEF Stays, Fetching
      <3>2. CASE job[j].of \notin Names
        <4>1. Resolved(job[j].of) = job[j].of /\ Resolved(job[j].of)' = job[j].of
          BY <3>2 DEF Resolved, Stays
        <4>2. QED
          BY <2>1, <4>1 DEF Stays, Fetching
      <3>3. QED
        BY <3>1, <3>2
    <2>4. QED
      BY <2>1, <2>3 DEF Stays, Fetching
  <1>2. Saving(j)'
    BY DEF Stays, ReadsOn, CommandInv, Saving
  <1>3. Fetched(j)'
    BY DEF Stays, CommandInv, Fetched
  <1>4. ReadBack(j)'
    BY DEF Stays, CommandInv, ReadBack
  <1>5. QED
    BY <1>1, <1>2, <1>3, <1>4

LEMMA StaysInv ==
    ASSUME TransferTypeOK, NEW j \in Commands, CommandInv(j), Stays(j)
    PROVE  CommandInv(j)'
  BY StaysUpload, StaysRead DEF CommandInv

-----------------------------------------------------------------------------
(* A command that starts leaves the others alone. *)
LEMMA BeginOthers ==
    ASSUME TransferInv, NEW k \in Commands, NEW kind, NEW of, NEW name, NEW where,
           Begin(k, kind, of, name), Go(k, where),
           \A j \in Commands \ {k} : todo'[j] = todo[j] /\ links'[j] = links[j] /\ result'[j] = result[j]
    PROVE  \A j \in Commands \ {k} : CommandInv(j)'
  <1>1. TransferTypeOK /\ \A j \in Commands : CommandInv(j)
    BY DEF TransferInv
  <1>2. ASSUME NEW j \in Commands \ {k} PROVE CommandInv(j)'
    <2>1. /\ pc'[j] = pc[j] /\ job'[j] = job[j] /\ saved'[j] = saved[j]
          /\ stoodFor'[j] = stoodFor[j] /\ had'[j] = had[j]
          /\ local' = local /\ stored' = stored /\ names' = names
      BY <1>1 DEF TransferTypeOK, Begin, Go, cluster
    <2>2. Running(j) => \A f \in Files : local[f] \in had[j][f]
      BY <1>1 DEF CommandInv, Watching
    <2>3. Stays(j)
      BY <2>1, <2>2 DEF Stays
    <2>4. QED
      BY <1>1, <2>3, StaysInv
  <1>3. QED
    BY <1>2

(* It has seen what there is, and nothing else yet. *)
LEMMA BeginOwn ==
    ASSUME TransferInv, NEW k \in Commands, NEW kind, NEW of, NEW name, NEW where,
           Begin(k, kind, of, name), Go(k, where)
    PROVE  /\ stored' = stored /\ pc'[k] = where /\ job'[k].kind = kind /\ job'[k].of = of
           /\ saved'[k] = <<>>
           /\ \A f \in Files : had'[k][f] = {local[f]} /\ local'[f] = local[f]
           /\ of \in Names \cup Cids => stoodFor'[k] = {Resolved(of)} /\ Resolved(of)' = Resolved(of)
           /\ Watching(k)'
  <1>1. TransferTypeOK
    BY DEF TransferInv
  <1>2. /\ stored' = stored /\ pc'[k] = where /\ job'[k].kind = kind /\ job'[k].of = of
        /\ saved'[k] = <<>> /\ local' = local /\ names' = names
    BY <1>1 DEF TransferTypeOK, Begin, Go, cluster
  <1>3. had'[k] = [f \in Files |-> {local[f]}]
    BY <1>1 DEF TransferTypeOK, Begin
  <1>4. ASSUME of \in Names \cup Cids
        PROVE  stoodFor'[k] = {Resolved(of)} /\ Resolved(of)' = Resolved(of)
    <2>1. of \notin Files \cup Dirs
      BY <1>4, CidAssumption
    <2>2. QED
      BY <1>1, <1>2, <2>1 DEF TransferTypeOK, Begin, Resolved
  <1>5. Watching(k)'
    BY <1>2, <1>3 DEF Watching
  <1>6. QED
    BY <1>2, <1>3, <1>4, <1>5

LEMMA UploadsStart ==
    ASSUME TransferInv, NEW k \in Commands, NEW n \in Names \cup {None},
           UploadDir(k, n) \/ \E f \in Files : UploadFile(k, f, n)
    PROVE  StoredWhole' /\ \A j \in Commands : CommandInv(j)'
  <1>1. CASE UploadDir(k, n)
    <2> DEFINE first == Listing(Source)
    <2>1. /\ Begin(k, "upload dir", Source, n) /\ Go(k, "walking") /\ Source \in Dirs
          /\ \A j \in Commands \ {k} : todo'[j] = todo[j] /\ links'[j] = links[j] /\ result'[j] = result[j]
          /\ todo'[k] = <<first>> /\ links'[k] = <<>>
      BY <1>1, TransferAssumption DEF UploadDir, TransferInv, TransferTypeOK
    <2>2. /\ stored' = stored /\ pc'[k] = "walking" /\ job'[k].kind = "upload dir"
          /\ \A f \in Files : had'[k][f] = {local[f]} /\ local'[f] = local[f]
          /\ Watching(k)'
      <3>1. PICK kind, where : kind = "upload dir" /\ where = "walking"
        OBVIOUS
      <3>2. Begin(k, kind, Source, n) /\ Go(k, where)
        BY <2>1, <3>1
      <3>3. /\ stored' = stored /\ pc'[k] = where /\ job'[k].kind = kind
            /\ \A g \in Files : had'[k][g] = {local[g]} /\ local'[g] = local[g]
            /\ Watching(k)'
        BY <3>2, BeginOwn
      <3>4. QED
        BY <3>1, <3>3
    <2>3. first \in SUBSET (Files \cup Dirs) /\ first \subseteq Children[Source]
      BY <2>1, ListingType
    <2>4. Entries(todo[k])' = first
      BY <2>1, <2>3, OneLevel
    <2>5. Children[Source] \in SUBSET (Files \cup Dirs)
      BY <2>1, TransferAssumption
    <2>6. first \ Hidden \subseteq Within(Children[Source])
      BY <2>3, <2>5, WithinStart
    <2>7. ASSUME NEW f \in Visible, None \notin had'[k][f] PROVE f \in Within(first)
      <3> DEFINE A == {a \in Files : local[a] = None}
      <3>1. f \in Files /\ f \in Within(Children[Source]) /\ f \notin A
        BY <2>2, <2>7 DEF Visible
      <3>2. f \in Within(Children[Source] \ A)
        BY <2>5, <3>1, WithoutFiles
      <3>3. (Children[Source] \ A) \ Hidden \subseteq first
        BY <2>5 DEF Listing
      <3>4. QED
        <4> HIDE DEF first, A
        <4>1. QED
          BY <2>3, <2>5, <3>2, <3>3, WithinMonotone
    <2>8. Walking(k)'
      <3>1. DOMAIN links'[k] = {}
        BY <2>1, EmptyMap
      <3>2. QED
        BY <2>2, <2>4, <2>6, <2>7, <3>1 DEF Walking
    <2>9. Linked(k)'
      BY <2>1, <2>2, EmptyMap DEF Linked
    <2>10. Complete(k)' /\ Fetching(k)' /\ Saving(k)' /\ Fetched(k)' /\ ReadBack(k)'
      BY <2>2 DEF Complete, Fetching, Saving, Fetched, ReadBack
    <2>11. \A j \in Commands \ {k} : CommandInv(j)'
      BY <2>1, BeginOthers
    <2>12. QED
      BY <2>2, <2>8, <2>9, <2>10, <2>11 DEF CommandInv, TransferInv, StoredWhole
  <1>2. ASSUME NEW f \in Files, UploadFile(k, f, n)
        PROVE  StoredWhole' /\ \A j \in Commands : CommandInv(j)'
    <2>1. /\ Begin(k, "upload file", f, n) /\ Go(k, "sending")
          /\ \A j \in Commands \ {k} : todo'[j] = todo[j] /\ links'[j] = links[j] /\ result'[j] = result[j]
          /\ links'[k] = [p \in {f} |-> Sent(f)]
      BY <1>2 DEF UploadFile, TransferInv, TransferTypeOK
    <2>2. /\ stored' = stored /\ pc'[k] = "sending" /\ job'[k].kind = "upload file"
          /\ job'[k].of = f /\ had'[k][f] = {local[f]} /\ Watching(k)'
      <3>1. PICK kind, where : kind = "upload file" /\ where = "sending"
        OBVIOUS
      <3>2. Begin(k, kind, f, n) /\ Go(k, where)
        BY <2>1, <3>1
      <3>3. /\ stored' = stored /\ pc'[k] = where /\ job'[k].kind = kind /\ job'[k].of = f
            /\ \A g \in Files : had'[k][g] = {local[g]} /\ local'[g] = local[g]
            /\ Watching(k)'
        BY <3>2, BeginOwn
      <3>4. QED
        BY <3>1, <3>3
    <2>3. Sent(f) \in Readings /\ ReadingFrom(Sent(f), had'[k][f])
      <3>1. TransferTypeOK /\ local[f] # None
        BY <1>2 DEF UploadFile, TransferInv
      <3>2. \A contents : (\A c \in contents \ {None} : contents = {c} => c = local[f])
                            => ReadingFrom(Sent(f), contents)
        BY <3>1, SentFacts
      <3>3. \A c \in had'[k][f] \ {None} : had'[k][f] = {c} => c = local[f]
        BY <2>2
      <3>4. QED
        BY <3>1, <3>2, <3>3, SentFacts
    <2>4. Linked(k)'
      <3>1. DOMAIN links'[k] = {f} /\ links'[k][f] = Sent(f)
        BY <2>1
      <3>2. QED
        BY <2>2, <2>3, <3>1 DEF Linked
    <2>5. Walking(k)' /\ Complete(k)' /\ Fetching(k)' /\ Saving(k)' /\ Fetched(k)' /\ ReadBack(k)'
      BY <2>2 DEF Walking, Complete, Fetching, Saving, Fetched, ReadBack
    <2>6. \A j \in Commands \ {k} : CommandInv(j)'
      BY <2>1, BeginOthers
    <2>7. QED
      BY <2>2, <2>4, <2>5, <2>6 DEF CommandInv, TransferInv, StoredWhole
  <1>3. QED
    BY <1>1, <1>2

LEMMA ReadsStart ==
    ASSUME TransferInv, NEW k \in Commands,
           (\E source \in Names \cup stored : Download(k, source)) \/ (\E uri \in uris : ReadUri(k, uri))
    PROVE  StoredWhole' /\ \A j \in Commands : CommandInv(j)'
  <1>1. ASSUME NEW source \in Names \cup stored, Download(k, source)
        PROVE  StoredWhole' /\ \A j \in Commands : CommandInv(j)'
    <2>1. /\ Begin(k, "download", source, None) /\ Go(k, "resolving") /\ source \in Names \cup Cids
          /\ \A j \in Commands \ {k} : todo'[j] = todo[j] /\ links'[j] = links[j] /\ result'[j] = result[j]
      BY <1>1 DEF Download, TransferInv, TransferTypeOK
    <2>2. /\ stored' = stored /\ pc'[k] = "resolving" /\ job'[k].kind = "download" /\ job'[k].of = source
          /\ saved'[k] = <<>> /\ stoodFor'[k] = {Resolved(source)} /\ Resolved(source)' = Resolved(source)
          /\ Watching(k)'
      BY <2>1, BeginOwn
    <2>3. Fetching(k)'
      BY <2>1, <2>2 DEF Fetching
    <2>4. /\ Walking(k)' /\ Linked(k)' /\ Complete(k)' /\ Saving(k)' /\ Fetched(k)' /\ ReadBack(k)'
      BY <2>2 DEF Walking, Linked, Complete, Saving, Fetched, ReadBack
    <2>5. \A j \in Commands \ {k} : CommandInv(j)'
      BY <2>1, BeginOthers
    <2>6. QED
      BY <2>2, <2>3, <2>4, <2>5 DEF CommandInv, TransferInv, StoredWhole
  <1>2. ASSUME NEW uri \in uris, ReadUri(k, uri)
        PROVE  StoredWhole' /\ \A j \in Commands : CommandInv(j)'
    <2>1. uri.cid \in Cids /\ uri.name \in Names \cup {None}
      BY <1>2 DEF TransferInv, TransferTypeOK
    <2>2. /\ Begin(k, "read", uri.cid, uri.name) /\ Go(k, "done")
          /\ \A j \in Commands \ {k} : todo'[j] = todo[j] /\ links'[j] = links[j] /\ result'[j] = result[j]
          /\ result'[k] = Resolved(CidOrName(uri))
      BY <1>2 DEF ReadUri, TransferInv, TransferTypeOK
    <2>3. /\ stored' = stored /\ pc'[k] = "done" /\ job'[k].kind = "read" /\ job'[k].of = uri.cid
          /\ Watching(k)'
      BY <2>1, <2>2, BeginOwn
    <2>4. Resolved(CidOrName(uri)) = uri.cid
      BY <2>1, ResolvedFacts, CidFacts DEF CidOrName, TransferInv
    <2>5. ReadBack(k)'
      BY <2>2, <2>3, <2>4 DEF ReadBack
    <2>6. /\ Walking(k)' /\ Linked(k)' /\ Complete(k)' /\ Fetching(k)' /\ Saving(k)' /\ Fetched(k)'
      BY <2>3 DEF Walking, Linked, Complete, Fetching, Saving, Fetched
    <2>7. \A j \in Commands \ {k} : CommandInv(j)'
      BY <2>2, BeginOthers
    <2>8. QED
      BY <2>3, <2>5, <2>6, <2>7 DEF CommandInv, TransferInv, StoredWhole
  <1>3. QED
    BY <1>1, <1>2

-----------------------------------------------------------------------------
(* A step of one command on its own leaves the others as they are. *)
LEMMA OthersStay ==
    ASSUME TransferInv, NEW j \in Commands,
           pc'[j] = pc[j], job'[j] = job[j], todo'[j] = todo[j],
           links'[j] = links[j], saved'[j] = saved[j], result'[j] = result[j],
           UNCHANGED <<local, stored, names, stoodFor, had>>
    PROVE  CommandInv(j)'
  <1>1. TransferTypeOK /\ CommandInv(j)
    BY DEF TransferInv
  <1>2. Running(j) => \A f \in Files : local[f] \in had[j][f]
    BY <1>1 DEF CommandInv, Watching
  <1>3. Stays(j)
    BY <1>2 DEF Stays
  <1>4. QED
    BY <1>1, <1>3, StaysInv

(* The walk goes on: what is taken from it is hidden, linked or replaced by
   what it holds. *)
LEMMA VisitWalks ==
    ASSUME TransferInv, NEW k \in Commands, NEW entry \in Files \cup Dirs, Visit(k, entry)
    PROVE  Walking(k)'
  <1> DEFINE all == Entries(todo[k])
             rest == <<Head(todo[k]) \ {entry}>> \o Tail(todo[k])
             Left == (Head(todo[k]) \ {entry}) \cup Entries(Tail(todo[k]))
  <1>1. TransferTypeOK /\ pc[k] = "walking" /\ Walking(k) /\ Watching(k) /\ Running(k)
    BY DEF Visit, TransferInv, CommandInv, Running
  <1>2. /\ job[k].kind = "upload dir"
        /\ all \ Hidden \subseteq Within(Children[Source])
        /\ DOMAIN links[k] \subseteq Visible
        /\ \A f \in Visible : None \notin had[k][f] => f \in DOMAIN links[k] \cup Within(all)
    BY <1>1 DEF Walking
  <1>3. /\ todo[k] \in Seq(SUBSET (Files \cup Dirs)) /\ todo[k] # <<>>
        /\ Head(todo[k]) \in SUBSET (Files \cup Dirs)
        /\ Tail(todo[k]) \in Seq(SUBSET (Files \cup Dirs))
        /\ all = Head(todo[k]) \cup Entries(Tail(todo[k]))
    BY <1>1, PoppedEntries DEF Visit, TransferTypeOK
  <1>4. rest \in Seq(SUBSET (Files \cup Dirs)) /\ Entries(rest) = Left
    BY <1>3, PushedEntries
  <1>5. /\ Left \in SUBSET (Files \cup Dirs) /\ all \in SUBSET (Files \cup Dirs)
        /\ all \ {entry} \subseteq Left /\ Left \subseteq all /\ entry \in all
    BY <1>3, <1>4, EntriesType DEF Visit
  <1>6. /\ UNCHANGED <<pc, job, had, local>>
        /\ pc'[k] = "walking" /\ job'[k].kind = "upload dir"
    BY <1>1, <1>2 DEF Visit, history
  <1> HIDE DEF all, rest, Left
  <1>7. CASE entry \in Hidden /\ todo' = [todo EXCEPT ![k] = rest] /\ UNCHANGED links
    <2>1. todo'[k] = rest /\ Entries(todo'[k]) = Left
      BY <1>1, <1>4, <1>7 DEF TransferTypeOK
    <2>2. Within(all) \subseteq Within(Left)
      BY <1>5, <1>7, WithinMonotone
    <2>3. QED
      BY <1>2, <1>5, <1>6, <1>7, <2>1, <2>2 DEF Walking
  <1>8. CASE /\ entry \in Dirs \ Hidden
             /\ todo' = [todo EXCEPT ![k] = <<Listing(entry)>> \o rest] /\ UNCHANGED links
    <2> DEFINE A == {a \in Files : local[a] = None}
               Next1 == (all \ {entry}) \cup Children[entry]
    <2>1. Listing(entry) \in SUBSET (Files \cup Dirs) /\ Listing(entry) \subseteq Children[entry]
      BY <1>8, ListingType
    <2>2. Entries(todo'[k]) = Listing(entry) \cup Left
      BY <1>1, <1>4, <1>8, <2>1, PushedEntries DEF TransferTypeOK
    <2>3. /\ Children[Source] \in SUBSET (Files \cup Dirs)
          /\ Children[entry] \in SUBSET (Files \cup Dirs)
      BY <1>8, TransferAssumption
    <2>4. Children[entry] \ Hidden \subseteq Within(Children[Source])
      BY <1>2, <1>5, <1>8, <2>3, WithinChildren
    <2>5. Entries(todo'[k]) \ Hidden \subseteq Within(Children[Source])
      BY <1>2, <1>5, <2>1, <2>2, <2>4
    <2>6. ASSUME NEW f \in Visible, None \notin had'[k][f], f \notin DOMAIN links[k]
          PROVE  f \in Within(Listing(entry) \cup Left)
      <3>1. f \in Files /\ f \in Within(all) /\ local[f] # None
        BY <1>1, <1>2, <1>6, <2>6 DEF Visible, Watching
      <3>2. Next1 \in SUBSET (Files \cup Dirs) /\ f \in Within(Next1)
        BY <1>5, <1>8, <2>3, <3>1, WithoutDir
      <3>3. f \in Within(Next1 \ A)
        BY <3>1, <3>2, WithoutFiles
      <3>4. Next1 \ A \subseteq Listing(entry) \cup Left
        BY <1>5, <2>3 DEF Listing
      <3>5. QED
        <4> HIDE DEF Next1, A
        <4>1. Within(Next1 \ A) \subseteq Within(Listing(entry) \cup Left)
          BY <1>5, <2>1, <3>2, <3>4, WithinMonotone
        <4>2. QED
          BY <3>3, <4>1
    <2>7. QED
      BY <1>2, <1>6, <1>8, <2>2, <2>5, <2>6 DEF Walking
  <1>9. CASE /\ entry \in Files \ Hidden /\ todo' = [todo EXCEPT ![k] = rest]
             /\ links' = [links EXCEPT ![k] = With(links[k], entry, Sent(entry))]
    <2>1. todo'[k] = rest /\ Entries(todo'[k]) = Left
      BY <1>1, <1>4, <1>9 DEF TransferTypeOK
    <2>2. DOMAIN links'[k] = DOMAIN links[k] \cup {entry}
      BY <1>1, <1>9, WithFacts DEF TransferTypeOK
    <2>3. entry \in Visible
      BY <1>2, <1>5, <1>9 DEF Visible
    <2>4. ASSUME NEW f \in Within(all), f # entry PROVE f \in Within(Left)
      <3>1. f \in Within(all \ {entry})
        BY <1>5, <1>9, <2>4, WithoutFiles
      <3>2. Within(all \ {entry}) \subseteq Within(Left)
        BY <1>5, WithinMonotone
      <3>3. QED
        BY <3>1, <3>2
    <2>5. QED
      BY <1>2, <1>5, <1>6, <2>1, <2>2, <2>3, <2>4 DEF Walking
  <1>10. QED
    BY <1>7, <1>8, <1>9 DEF Visit, rest

LEMMA WalkGoesOn ==
    ASSUME TransferInv, NEW k \in Commands,
           (\E entry \in Files \cup Dirs : Visit(k, entry)) \/ Return(k)
    PROVE  StoredWhole' /\ \A j \in Commands : CommandInv(j)'
  <1>1. TransferTypeOK /\ StoredWhole /\ CommandInv(k)
    BY DEF TransferInv
  <1>2. /\ pc[k] = "walking" /\ pc' = pc /\ UNCHANGED <<local, stored, names, job, saved, result, stoodFor, had>>
        /\ \A j \in Commands \ {k} : todo'[j] = todo[j] /\ links'[j] = links[j]
    BY <1>1 DEF Visit, Return, cluster, history, TransferTypeOK
  <1>3. \A j \in Commands \ {k} : CommandInv(j)'
    BY <1>2, OthersStay
  <1>4. Complete(k)' /\ Watching(k)' /\ Fetching(k)' /\ Saving(k)' /\ Fetched(k)' /\ ReadBack(k)'
    BY <1>1, <1>2 DEF CommandInv, Complete, Watching, Running, Fetching, Saving, Fetched, ReadBack
  <1>5. ASSUME NEW entry \in Files \cup Dirs, Visit(k, entry) PROVE Linked(k)'
    <2>1. CASE links' = links
      BY <1>1, <1>2, <2>1 DEF CommandInv, Linked
    <2>2. CASE /\ entry \in Files /\ local[entry] # None
               /\ links'[k] = With(links[k], entry, Sent(entry))
      <3>1. /\ DOMAIN links'[k] = DOMAIN links[k] \cup {entry}
            /\ \A p \in DOMAIN links[k] : links'[k][p] = links[k][p]
            /\ entry \notin DOMAIN links[k] => links'[k][entry] = Sent(entry)
        <4> DEFINE more == With(links[k], entry, Sent(entry))
        <4>1. /\ DOMAIN more = DOMAIN links[k] \cup {entry}
              /\ \A p \in DOMAIN links[k] : more[p] = links[k][p]
              /\ entry \notin DOMAIN links[k] => more[entry] = Sent(entry)
          BY WithFacts
        <4>2. QED
          BY <2>2, <4>1
      <3>2. Sent(entry) \in Readings /\ ReadingFrom(Sent(entry), had[k][entry])
        <4>1. local[entry] \in had[k][entry]
          BY <1>1, <1>2, <2>2 DEF CommandInv, Watching, Running
        <4>2. \A contents : (\A c \in contents \ {None} : contents = {c} => c = local[entry])
                              => ReadingFrom(Sent(entry), contents)
          BY <1>1, <2>2, SentFacts
        <4>3. \A c \in had[k][entry] \ {None} : had[k][entry] = {c} => c = local[entry]
          BY <4>1
        <4>4. QED
          BY <1>1, <2>2, <4>2, <4>3, SentFacts
      <3>3. ASSUME NEW f \in DOMAIN links'[k]
            PROVE  \/ links'[k][f] \in Readings /\ ReadingFrom(links'[k][f], had[k][f])
                   \/ links'[k][f] \in stored \cap RawCids /\ ReadFrom(links'[k][f], had[k][f])
        <4>1. CASE f \in DOMAIN links[k]
          BY <1>1, <1>2, <3>1, <4>1 DEF CommandInv, Linked
        <4>2. CASE f \notin DOMAIN links[k]
          BY <3>1, <3>2, <4>2
        <4>3. QED
          BY <4>1, <4>2
      <3>4. QED
        BY <1>2, <3>3 DEF Linked
    <2>3. QED
      BY <1>1, <1>5, <2>1, <2>2 DEF Visit, TransferTypeOK
  <1>6. CASE Return(k)
    <2>1. Linked(k)'
      BY <1>1, <1>2, <1>6 DEF Return, CommandInv, Linked
    <2>2. Entries(todo'[k]) = Entries(todo[k])
      BY <1>1, <1>6, PoppedEntries DEF Return, TransferTypeOK
    <2>3. Walking(k)'
      BY <1>1, <1>2, <1>6, <2>2 DEF Return, CommandInv, Walking
    <2>4. QED
      BY <1>1, <1>2, <1>3, <1>4, <2>1, <2>3 DEF CommandInv, StoredWhole
  <1>7. ASSUME NEW entry \in Files \cup Dirs, Visit(k, entry)
        PROVE  StoredWhole' /\ \A j \in Commands : CommandInv(j)'
    BY <1>1, <1>2, <1>3, <1>4, <1>5, <1>7, VisitWalks DEF CommandInv, StoredWhole
  <1>8. QED
    BY <1>6, <1>7

-----------------------------------------------------------------------------
(* A block is read of what the file is, or was when it was removed. *)
LEMMA StreamSeen ==
    ASSUME TransferInv, NEW k \in Commands, NEW f \in Files, Sending(k, f), InStream(k, f) # None
    PROVE  InStream(k, f) \in had[k][f] /\ ReadingFrom(links[k][f], had[k][f])
  <1>1. TransferTypeOK /\ Linked(k) /\ Watching(k) /\ Running(k)
    BY DEF TransferInv, CommandInv, Sending, Running
  <1>2. f \in DOMAIN links[k] /\ links[k][f] \in Readings
    BY <1>1, StreamFacts
  <1>3. ReadingFrom(links[k][f], had[k][f])
    BY <1>1, <1>2, RawFacts DEF Linked, Sending
  <1>4. QED
    BY <1>1, <1>3 DEF InStream, ReadingFrom, Watching

LEMMA BlocksAreRead ==
    ASSUME TransferInv, NEW k \in Commands, NEW f \in Files, ReadBlock(k, f)
    PROVE  StoredWhole' /\ \A j \in Commands : CommandInv(j)'
  <1> DEFINE file == links[k][f]
             more == BlockRead(k, f)
  <1>1. TransferTypeOK /\ StoredWhole
    BY DEF TransferInv
  <1>2. /\ pc[k] \in {"walking", "sending"} /\ Sending(k, f) /\ InStream(k, f) # None
        /\ UNCHANGED <<local, stored, names, pc, job, todo, saved, result, stoodFor, had>>
    BY DEF ReadBlock, Sending, cluster, history
  <1>3. InStream(k, f) \in had[k][f] /\ ReadingFrom(file, had[k][f])
    BY <1>2, StreamSeen
  <1>4. /\ links' = [links EXCEPT ![k] = [links[k] EXCEPT ![f] = more]]
        /\ more \in Readings /\ f \in DOMAIN links[k] /\ links[k] \in Linkings
        /\ more.size = file.size /\ more.kept = file.kept
        /\ \A i \in DOMAIN more.got :
              \/ i \in DOMAIN file.got /\ more.got[i] = file.got[i]
              \/ i \in DOMAIN InStream(k, f) /\ more.got[i] = InStream(k, f)[i]
    BY <1>1, TypeReadBlock DEF TransferTypeOK
  <1>5. ReadingFrom(more, had[k][f])
    <2> HIDE DEF more, file
    <2>1. InPlace(more.got, had[k][f])
      BY <1>2, <1>3, <1>4 DEF ReadingFrom, InPlace
    <2>2. QED
      BY <1>3, <1>4, <2>1 DEF ReadingFrom
  <1>6. ReadsOn(k)
    <2>1. links'[k] = [links[k] EXCEPT ![f] = more]
      BY <1>1, <1>4 DEF TransferTypeOK
    <2> HIDE DEF more, file
    <2>2. /\ DOMAIN links'[k] = DOMAIN links[k]
          /\ \A g \in DOMAIN links[k] : links'[k][g] = IF g = f THEN more ELSE links[k][g]
      BY <1>4, <2>1, LinkSet
    <2>3. QED
      BY <1>2, <1>4, <1>5, <2>2 DEF ReadsOn
  <1>7. ASSUME NEW j \in Commands PROVE CommandInv(j)'
    <2>1. CommandInv(j)
      BY DEF TransferInv
    <2>2. Running(j) => \A g \in Files : local[g] \in had[j][g]
      BY <2>1 DEF CommandInv, Watching
    <2>3. links'[j] = links[j] \/ ReadsOn(j)
      BY <1>1, <1>4, <1>6 DEF TransferTypeOK
    <2>4. Stays(j)
      BY <1>2, <2>2, <2>3 DEF Stays
    <2>5. QED
      BY <1>1, <2>1, <2>4, StaysInv
  <1>8. QED
    BY <1>1, <1>2, <1>7 DEF StoredWhole

(* What is stored of a file was read from it, and is it if it did not change. *)
LEMMA WhatIsStored ==
    ASSUME TransferInv, NEW k \in Commands, NEW f \in Files, FileStored(k, f)
    PROVE  ReadFrom(CidOf(links[k][f]), had[k][f])
  <1> DEFINE file == links[k][f]
             c == InStream(k, f)
  <1>1. TransferTypeOK /\ Sending(k, f) /\ c # None /\ Len(file.got) >= Len(c)
    BY DEF TransferInv, FileStored
  <1>2. /\ c \in had[k][f] /\ ReadingFrom(file, had[k][f])
        /\ c \in Bodies /\ file.got \in Bodies /\ file.size \in 0..MaxBlocks
    BY <1>1, StreamSeen, StreamFacts
  <1> HIDE DEF file, c
  <1>3. /\ Len(c) \in Nat /\ Len(file.got) \in Nat
        /\ DOMAIN c = 1..Len(c) /\ DOMAIN file.got = 1..Len(file.got)
        /\ c \in [1..Len(c) -> Blocks] /\ file.got \in [1..Len(file.got) -> Blocks]
        /\ Len(file.got) \in 0..MaxBlocks
    BY <1>2, BodyFacts, TransferAssumption
  <1>4. CidOf(file).body = file.got
    BY <1>2, <1>3, RawFacts DEF CidOf, Whole
  <1>5. ASSUME had[k][f] = {c} PROVE CidOf(file) = Whole(c)
    <2>1. file.size = Len(c) /\ \A i \in DOMAIN file.got : i \in DOMAIN c /\ file.got[i] = c[i]
      BY <1>1, <1>2, <1>5 DEF ReadingFrom, InPlace
    <2>2. Len(file.got) = Len(c)
      <3>1. Len(file.got) = 0 \/ Len(file.got) \in DOMAIN file.got
        BY <1>3
      <3>2. Len(file.got) <= Len(c)
        BY <1>3, <2>1, <3>1
      <3>3. QED
        BY <1>1, <1>3, <3>2
    <2>3. file.got = c
      BY <1>3, <2>1, <2>2
    <2>4. QED
      BY <2>1, <2>3 DEF CidOf, Whole
  <1>6. ASSUME NEW d \in had[k][f] \ {None}, had[k][f] = {d} PROVE CidOf(file) = Whole(d)
    BY <1>2, <1>5, <1>6
  <1>7. ReadFrom(CidOf(file), had[k][f])
    BY <1>2, <1>4, <1>6 DEF ReadFrom, ReadingFrom
  <1>8. QED
    BY <1>7 DEF file

(* What is stored, and named, is seen by those that use the name. *)
LEMMA StoreOthers ==
    ASSUME TransferInv, NEW k \in Commands, NEW cid \in Cids, NEW name \in Names \cup {None},
           Store(k, cid, name), UNCHANGED <<local, job, had, todo, saved>>,
           \A j \in Commands \ {k} : links'[j] = links[j]
    PROVE  \A j \in Commands \ {k} : CommandInv(j)'
  <1>1. TransferTypeOK /\ None \notin Cids
    BY CidFacts DEF TransferInv
  <1>2. ASSUME NEW j \in Commands \ {k} PROVE CommandInv(j)'
    <2>1. CommandInv(j)
      BY DEF TransferInv
    <2>2. pc'[j] = pc[j] /\ result'[j] = result[j] /\ stored \subseteq stored'
      BY <1>1 DEF Store, Go, TransferTypeOK
    <2>3. stoodFor'[j] = IF Running(j) /\ job[j].of \in Names THEN stoodFor[j] \cup {names'[job[j].of]}
                         ELSE stoodFor[j]
      <3>1. Watch
        BY DEF Store
      <3>2. QED
        BY <3>1 DEF Watch
    <2>4. \A n \in Names : names'[n] = names[n] \/ names'[n] = cid
      BY <1>1 DEF Store, TransferTypeOK
    <2>5. Running(j) => \A f \in Files : local[f] \in had[j][f]
      BY <2>1 DEF CommandInv, Watching
    <2>6. Stays(j)
      <3>1. \A n \in Names : names'[n] = None => names[n] = None
        BY <1>1, <2>4
      <3>2. stoodFor[j] \subseteq stoodFor'[j]
        BY <2>3
      <3>3. \A n \in Names : Running(j) /\ job[j].of = n => names'[n] \in stoodFor'[j]
        BY <2>3
      <3>4. QED
        BY <1>2, <2>2, <2>5, <3>1, <3>2, <3>3 DEF Stays
    <2>7. QED
      BY <1>1, <2>1, <2>6, StaysInv
  <1>3. QED
    BY <1>2

(* The store of a file, by itself or as a link of the walk. *)
LEMMA FileStoredWalks ==
    ASSUME TransferInv, NEW k \in Commands, NEW f \in Files, FileStored(k, f), pc[k] = "walking"
    PROVE  CommandInv(k)'
  <1>1. TransferTypeOK /\ CommandInv(k) /\ Running(k)
    BY DEF TransferInv, Running
  <1> DEFINE cid == CidOf(links[k][f])
  <1>2. /\ UNCHANGED <<local, names, job, had, todo, saved, result, stoodFor>> /\ pc' = pc
        /\ stored' = stored \cup {cid}
    BY <1>1 DEF FileStored, TransferTypeOK
  <1>3. cid \in RawCids /\ f \in DOMAIN links[k] /\ links[k] \in Linkings
    BY <1>1, TypeFileStored DEF TransferTypeOK
  <1>4. /\ DOMAIN links'[k] = DOMAIN links[k]
        /\ \A g \in DOMAIN links[k] : links'[k][g] = IF g = f THEN cid ELSE links[k][g]
    <2>1. links' = [links EXCEPT ![k] = [links[k] EXCEPT ![f] = cid]]
      BY <1>1, TypeFileStored
    <2>2. links'[k] = [links[k] EXCEPT ![f] = cid]
      BY <1>1, <2>1 DEF TransferTypeOK
    <2> HIDE DEF cid
    <2>3. QED
      BY <1>3, <2>2, LinkSet
  <1>5. ReadFrom(cid, had[k][f])
    BY WhatIsStored
  <1> HIDE DEF cid
  <1>6. Walking(k)'
    <2>1. Entries(todo[k])' = Entries(todo[k])
      BY <1>2
    <2>2. QED
      BY <1>1, <1>2, <1>4, <2>1 DEF CommandInv, Walking
  <1>7. Linked(k)'
    <2>1. ASSUME NEW g \in DOMAIN links[k]
          PROVE  \/ links'[k][g] \in Readings /\ ReadingFrom(links'[k][g], had[k][g])
                 \/ links'[k][g] \in stored' \cap RawCids /\ ReadFrom(links'[k][g], had[k][g])
      <3>1. CASE g = f
        BY <1>2, <1>3, <1>4, <1>5, <3>1
      <3>2. CASE g # f
        BY <1>1, <1>2, <1>4, <3>2 DEF CommandInv, Linked
      <3>3. QED
        BY <3>1, <3>2
    <2>2. QED
      BY <1>2, <1>4, <2>1 DEF Linked
  <1>8. Complete(k)' /\ Watching(k)' /\ Fetching(k)' /\ Saving(k)' /\ Fetched(k)' /\ ReadBack(k)'
    BY <1>1, <1>2 DEF CommandInv, Complete, Watching, Running, Fetching, Saving, Fetched, ReadBack
  <1>9. QED
    BY <1>6, <1>7, <1>8 DEF CommandInv

LEMMA FilesAreStored ==
    ASSUME TransferInv, NEW k \in Commands, NEW f \in Files, FileStored(k, f)
    PROVE  StoredWhole' /\ \A j \in Commands : CommandInv(j)'
  <1>1. TransferTypeOK /\ StoredWhole /\ CommandInv(k)
    BY DEF TransferInv
  <1> DEFINE cid == CidOf(links[k][f])
  <1>2. /\ UNCHANGED <<local, job, todo, saved, had>> /\ stored' = stored \cup {cid}
        /\ \A j \in Commands \ {k} : links'[j] = links[j]
    BY <1>1 DEF FileStored, TransferTypeOK, Store
  <1>3. cid \in Cids /\ cid.type = "raw" /\ f \in DOMAIN links[k] /\ ReadFrom(cid, had[k][f])
    BY <1>1, TypeFileStored, RawFacts, WhatIsStored
  <1> HIDE DEF cid
  <1>4. StoredWhole'
    BY <1>1, <1>2, <1>3 DEF StoredWhole
  <1>5. CASE pc[k] = "sending" /\ Store(k, cid, job[k].name)
    <2>1. job[k].name \in Names \cup {None} /\ job'[k].kind = "upload file" /\ job[k].of = f
      BY <1>1, <1>2, <1>3, <1>5 DEF TransferTypeOK, CommandInv, Linked
    <2>2. \A j \in Commands \ {k} : CommandInv(j)'
      BY <1>2, <1>3, <1>5, <2>1, StoreOthers
    <2>3. pc'[k] = "failed" \/ (pc'[k] = "done" /\ result'[k] = cid)
      <3>1. NewUri(cid, job[k].name).cid = cid
        BY <1>3, <2>1, UriFacts
      <3>2. QED
        BY <1>1, <1>5, <3>1 DEF Store, Go, TransferTypeOK
    <2>4. Complete(k)'
      BY <1>2, <1>3, <2>1, <2>3 DEF Complete
    <2>5. CommandInv(k)'
      BY <2>1, <2>3, <2>4 DEF CommandInv, Walking, Linked, Watching, Running, Fetching, Saving,
                              Fetched, ReadBack
    <2>6. QED
      BY <1>4, <2>2, <2>5
  <1>6. CASE pc[k] = "walking" /\ UNCHANGED <<names, uris, result, pc, stoodFor>>
    <2>1. ASSUME NEW j \in Commands \ {k} PROVE CommandInv(j)'
      <3>1. CommandInv(j)
        BY DEF TransferInv
      <3>2. Running(j) => \A g \in Files : local[g] \in had[j][g]
        BY <3>1 DEF CommandInv, Watching
      <3>3. Stays(j)
        BY <1>2, <1>6, <2>1, <3>2 DEF Stays
      <3>4. QED
        BY <1>1, <3>1, <3>3, StaysInv
    <2>2. QED
      BY <1>4, <1>6, <2>1, FileStoredWalks
  <1>7. QED
    BY <1>5, <1>6 DEF FileStored, cid

(* The root comes after what it leads to, and leads to all of it. *)
LEMMA RootsAreStored ==
    ASSUME TransferInv, NEW k \in Commands, StoreRoot(k)
    PROVE  StoredWhole' /\ \A j \in Commands : CommandInv(j)'
  <1> DEFINE root == Dag("cli", links[k])
  <1>1. TransferTypeOK /\ StoredWhole /\ CommandInv(k)
    BY DEF TransferInv
  <1>2. root \in Cids /\ root.links = links[k] /\ root.type = "dag-node"
    BY <1>1, TypeStoreRoot, DagFacts
  <1>3. /\ Store(k, root, job[k].name) /\ job[k].name \in Names \cup {None}
        /\ UNCHANGED <<local, job, todo, links, saved, had>>
        /\ pc[k] = "walking" /\ todo[k] = <<>>
        /\ \A f \in DOMAIN links[k] : ~Sending(k, f)
    BY <1>1 DEF StoreRoot, TransferTypeOK
  <1> HIDE DEF root
  <1>4. /\ job[k].kind = "upload dir" /\ DOMAIN links[k] \subseteq Visible
        /\ \A f \in Visible : None \notin had[k][f] => f \in DOMAIN links[k]
    BY <1>1, <1>3, NoEntries, WithinNothing DEF CommandInv, Walking
  <1>5. \A f \in DOMAIN links[k] : links[k][f] \in stored /\ ReadFrom(links[k][f], had[k][f])
    BY <1>1, <1>3, RawFacts DEF CommandInv, Linked, Sending
  <1>6. stored' = stored \cup {root}
    BY <1>3 DEF Store
  <1>7. StoredWhole'
    BY <1>1, <1>2, <1>5, <1>6 DEF StoredWhole
  <1>8. \A j \in Commands \ {k} : CommandInv(j)'
    BY <1>2, <1>3, StoreOthers
  <1>9. pc'[k] = "failed" \/ (pc'[k] = "done" /\ result'[k] = root)
    <2>1. NewUri(root, job[k].name).cid = root
      BY <1>2, <1>3, UriFacts
    <2>2. QED
      BY <1>1, <1>3, <2>1 DEF Store, Go, TransferTypeOK
  <1>10. Complete(k)'
    BY <1>2, <1>3, <1>4, <1>5, <1>6, <1>9 DEF Complete
  <1>11. /\ Walking(k)' /\ Linked(k)' /\ Watching(k)' /\ Fetching(k)' /\ Saving(k)' /\ Fetched(k)'
         /\ ReadBack(k)'
    BY <1>3, <1>4, <1>9 DEF Walking, Linked, Watching, Running, Fetching, Saving, Fetched, ReadBack
  <1>12. QED
    BY <1>7, <1>8, <1>10, <1>11 DEF CommandInv

-----------------------------------------------------------------------------
(* A command that fails promises nothing. *)
LEMMA FailInv ==
    ASSUME TransferInv, NEW k \in Commands, Fail(k), UNCHANGED <<local, history, starts, changes>>
    PROVE  StoredWhole' /\ \A j \in Commands : CommandInv(j)'
  <1>1. TransferTypeOK /\ StoredWhole
    BY DEF TransferInv
  <1>2. /\ UNCHANGED <<local, stored, names, job, stoodFor, had>> /\ pc'[k] = "failed"
        /\ \A j \in Commands \ {k} : /\ pc'[j] = pc[j] /\ todo'[j] = todo[j] /\ links'[j] = links[j]
                                     /\ saved'[j] = saved[j] /\ result'[j] = result[j]
    BY <1>1 DEF Fail, Go, Forget, cluster, history, TransferTypeOK
  <1>3. \A j \in Commands \ {k} : CommandInv(j)'
    BY <1>2, OthersStay
  <1>4. CommandInv(k)'
    BY <1>2 DEF CommandInv, Walking, Linked, Complete, Watching, Running, Fetching, Saving, Fetched,
                ReadBack
  <1>5. QED
    BY <1>1, <1>2, <1>3, <1>4 DEF StoredWhole

(* The steps of a download that succeed. *)
LEMMA DownloadFrame ==
    ASSUME TransferInv, NEW k \in Commands,
           UNCHANGED <<local, cluster, job, todo, history>>,
           \A j \in Commands \ {k} : pc'[j] = pc[j] /\ links'[j] = links[j] /\ saved'[j] = saved[j]
                                     /\ result'[j] = result[j]
    PROVE  StoredWhole' /\ \A j \in Commands \ {k} : CommandInv(j)'
  <1>1. UNCHANGED <<local, stored, names, job, todo, stoodFor, had>>
    BY DEF cluster, history
  <1>2. \A j \in Commands \ {k} : CommandInv(j)'
    BY <1>1, OthersStay
  <1>3. QED
    BY <1>1, <1>2 DEF TransferInv, StoredWhole

(* A name is resolved: the command goes on with what it stands for. *)
LEMMA NameIsResolved ==
    ASSUME TransferInv, NEW k \in Commands, ResolveName(k), ~Fail(k)
    PROVE  StoredWhole' /\ \A j \in Commands : CommandInv(j)'
  <1>1. TransferTypeOK /\ CommandInv(k)
    BY DEF TransferInv
  <1> DEFINE cid == Resolved(job[k].of)
  <1>2. /\ pc[k] = "resolving" /\ cid # None /\ result'[k] = cid
        /\ pc'[k] \in {"reading dir", "reading file"}
        /\ UNCHANGED <<local, cluster, job, todo, links, saved, history>>
        /\ \A j \in Commands \ {k} : pc'[j] = pc[j] /\ result'[j] = result[j]
    BY <1>1 DEF ResolveName, Go, TransferTypeOK
  <1>3. StoredWhole' /\ \A j \in Commands \ {k} : CommandInv(j)'
    BY <1>2, DownloadFrame
  <1>4. UNCHANGED <<local, stored, names, stoodFor, had>>
    BY <1>2 DEF cluster, history
  <1>5. Fetching(k)'
    <2>1. Resolved(job[k].of)' = cid
      BY <1>2, <1>4 DEF Resolved
    <2>2. /\ job[k].kind = "download" /\ job[k].of \in Names \cup Cids /\ cid \in stoodFor[k]
          /\ saved[k] = <<>>
      BY <1>1, <1>2 DEF CommandInv, Fetching
    <2>3. QED
      <3> HIDE DEF cid
      <3>1. QED
        BY <1>2, <1>4, <2>1, <2>2 DEF Fetching
  <1>6. /\ Walking(k)' /\ Linked(k)' /\ Complete(k)' /\ Saving(k)' /\ Fetched(k)' /\ ReadBack(k)'
    BY <1>2 DEF Walking, Linked, Complete, Saving, Fetched, ReadBack
  <1>7. Watching(k)'
    BY <1>1, <1>2, <1>4 DEF CommandInv, Watching, Running
  <1>8. QED
    BY <1>3, <1>5, <1>6, <1>7 DEF CommandInv

(* The root that is read is one the name stood for. *)
LEMMA DirIsRead ==
    ASSUME TransferInv, NEW k \in Commands, ReadDir(k), ~Fail(k)
    PROVE  StoredWhole' /\ \A j \in Commands : CommandInv(j)'
  <1>1. TransferTypeOK /\ CommandInv(k)
    BY DEF TransferInv
  <1> DEFINE cid == ReadCid(k)
  <1>2. /\ pc[k] = "reading dir" /\ IsCLIDir(cid) /\ links'[k] = cid.links /\ pc'[k] = "saving"
        /\ UNCHANGED <<local, cluster, job, todo, saved, result, history>>
        /\ \A j \in Commands \ {k} : pc'[j] = pc[j] /\ links'[j] = links[j]
    BY <1>1 DEF ReadDir, Go, TransferTypeOK
  <1>3. StoredWhole' /\ \A j \in Commands \ {k} : CommandInv(j)'
    BY <1>2, DownloadFrame
  <1>4. UNCHANGED <<local, stored, names, stoodFor, had>>
    BY <1>2 DEF cluster, history
  <1>5. /\ job[k].kind = "download" /\ job[k].of \in Names \cup Cids
        /\ Resolved(job[k].of) \in stoodFor[k] /\ Resolved(job[k].of) # None
        /\ result[k] \in stoodFor[k] /\ saved[k] = <<>>
    BY <1>1, <1>2 DEF CommandInv, Fetching
  <1>6. cid = Resolved(job[k].of)
    BY <1>1, <1>5, ReadCidFacts
  <1>7. Fetching(k)'
    <2>1. Resolved(job[k].of)' = Resolved(job[k].of)
      BY <1>2, <1>4 DEF Resolved
    <2>2. QED
      BY <1>2, <1>4, <1>5, <2>1 DEF Fetching
  <1>8. Saving(k)'
    <2>1. cid \in stoodFor'[k] \ {None} /\ cid.type = "dag-node" /\ links'[k] = cid.links
      BY <1>2, <1>4, <1>5, <1>6 DEF IsCLIDir
    <2>2. DOMAIN saved'[k] = {}
      BY <1>2, <1>5, EmptyMap
    <2>3. QED
      BY <2>1, <2>2 DEF Saving
  <1>9. /\ Walking(k)' /\ Linked(k)' /\ Complete(k)' /\ Fetched(k)' /\ ReadBack(k)'
    BY <1>2 DEF Walking, Linked, Complete, Fetched, ReadBack
  <1>10. Watching(k)'
    BY <1>1, <1>2, <1>4 DEF CommandInv, Watching, Running
  <1>11. QED
    BY <1>3, <1>7, <1>8, <1>9, <1>10 DEF CommandInv

LEMMA FileIsRead ==
    ASSUME TransferInv, NEW k \in Commands, ReadFile(k)
    PROVE  StoredWhole' /\ \A j \in Commands : CommandInv(j)'
  <1>1. TransferTypeOK /\ CommandInv(k)
    BY DEF TransferInv
  <1> DEFINE cid == ReadCid(k)
  <1>2. /\ pc[k] = "reading file" /\ saved'[k] = Body(cid) /\ pc'[k] = "done"
        /\ UNCHANGED <<local, cluster, job, todo, links, result, history>>
        /\ \A j \in Commands \ {k} : pc'[j] = pc[j] /\ saved'[j] = saved[j]
    BY <1>1 DEF ReadFile, Go, TransferTypeOK
  <1>3. StoredWhole' /\ \A j \in Commands \ {k} : CommandInv(j)'
    BY <1>2, DownloadFrame
  <1>4. /\ job[k].kind = "download" /\ job[k].of \in Names \cup Cids
        /\ Resolved(job[k].of) \in stoodFor[k] /\ Resolved(job[k].of) # None
        /\ result[k] \in stoodFor[k]
    BY <1>1, <1>2 DEF CommandInv, Fetching
  <1>5. cid = Resolved(job[k].of)
    BY <1>1, <1>4, ReadCidFacts
  <1>6. UNCHANGED stoodFor
    BY <1>2 DEF history
  <1>7. Fetched(k)'
    <2>1. cid \in stoodFor'[k] \ {None} /\ saved'[k] = Body(cid) /\ result'[k] \in stoodFor'[k]
      BY <1>2, <1>4, <1>5, <1>6
    <2>2. QED
      BY <2>1 DEF Fetched
  <1>8. /\ Walking(k)' /\ Linked(k)' /\ Complete(k)' /\ Watching(k)' /\ Fetching(k)' /\ Saving(k)'
        /\ ReadBack(k)'
    BY <1>2, <1>4 DEF Walking, Linked, Complete, Watching, Running, Fetching, Saving, ReadBack
  <1>9. QED
    BY <1>3, <1>7, <1>8 DEF CommandInv

LEMMA LinkIsSaved ==
    ASSUME TransferInv, NEW k \in Commands, NEW f \in Files, SaveLink(k, f)
    PROVE  StoredWhole' /\ \A j \in Commands : CommandInv(j)'
  <1>1. TransferTypeOK /\ CommandInv(k)
    BY DEF TransferInv
  <1> DEFINE more == With(saved[k], f, links[k][f])
  <1>2. /\ pc[k] = "saving" /\ saved'[k] = more /\ pc' = pc
        /\ f \in DOMAIN links[k] /\ f \notin DOMAIN saved[k]
        /\ UNCHANGED <<local, cluster, job, todo, links, result, history>>
        /\ \A j \in Commands \ {k} : saved'[j] = saved[j]
    BY <1>1 DEF SaveLink, TransferTypeOK
  <1>3. StoredWhole' /\ \A j \in Commands \ {k} : CommandInv(j)'
    BY <1>2, DownloadFrame
  <1>4. UNCHANGED <<local, stored, names, stoodFor, had>>
    BY <1>2 DEF cluster, history
  <1>5. /\ DOMAIN more = DOMAIN saved[k] \cup {f} /\ more[f] = links[k][f]
        /\ \A p \in DOMAIN saved[k] : more[p] = saved[k][p]
    <2>1. f \notin DOMAIN saved[k]
      BY <1>2
    <2>2. /\ DOMAIN more = DOMAIN saved[k] \cup {f}
          /\ \A p \in DOMAIN saved[k] : more[p] = saved[k][p]
          /\ f \notin DOMAIN saved[k] => more[f] = links[k][f]
      BY WithFacts
    <2>3. QED
      BY <2>1, <2>2
  <1>6. Saving(k)'
    <2>1. /\ \E cid \in stoodFor[k] \ {None} : cid.type = "dag-node" /\ links[k] = cid.links
          /\ \A p \in DOMAIN saved[k] : p \in DOMAIN links[k] /\ saved[k][p] = links[k][p]
      BY <1>1, <1>2 DEF CommandInv, Saving
    <2>2. \A p \in DOMAIN saved'[k] : p \in DOMAIN links[k] /\ saved'[k][p] = links[k][p]
      <3> HIDE DEF more
      <3>1. QED
        BY <1>2, <1>5, <2>1
    <2>3. QED
      BY <1>2, <1>4, <2>1, <2>2 DEF Saving
  <1>7. Fetching(k)'
    <2>1. Resolved(job[k].of)' = Resolved(job[k].of)
      BY <1>2, <1>4 DEF Resolved
    <2>2. QED
      BY <1>1, <1>2, <1>4, <2>1 DEF CommandInv, Fetching
  <1>8. /\ Walking(k)' /\ Linked(k)' /\ Complete(k)' /\ Fetched(k)' /\ ReadBack(k)'
    BY <1>2 DEF Walking, Linked, Complete, Fetched, ReadBack
  <1>9. Watching(k)'
    BY <1>1, <1>2, <1>4 DEF CommandInv, Watching, Running
  <1>10. QED
    BY <1>3, <1>6, <1>7, <1>8, <1>9 DEF CommandInv

LEMMA AllIsSaved ==
    ASSUME TransferInv, NEW k \in Commands, SavedAll(k)
    PROVE  StoredWhole' /\ \A j \in Commands : CommandInv(j)'
  <1>1. TransferTypeOK /\ CommandInv(k)
    BY DEF TransferInv
  <1>2. /\ pc[k] = "saving" /\ pc'[k] = "done" /\ DOMAIN saved[k] = DOMAIN links[k]
        /\ UNCHANGED <<local, cluster, job, todo, links, saved, result, history>>
        /\ \A j \in Commands \ {k} : pc'[j] = pc[j]
    BY <1>1 DEF SavedAll, Go, transfer, TransferTypeOK
  <1>3. StoredWhole' /\ \A j \in Commands \ {k} : CommandInv(j)'
    BY <1>2, DownloadFrame
  <1>4. UNCHANGED stoodFor
    BY <1>2 DEF history
  <1>5. /\ job[k].kind = "download" /\ result[k] \in stoodFor[k]
        /\ \E cid \in stoodFor[k] \ {None} : cid.type = "dag-node" /\ links[k] = cid.links
        /\ \A f \in DOMAIN saved[k] : saved[k][f] = links[k][f]
    BY <1>1, <1>2 DEF CommandInv, Fetching, Saving
  <1>6. saved[k] = links[k]
    <2>1. /\ links[k] \in [DOMAIN links[k] -> RawCids \cup Readings]
          /\ saved[k] \in [DOMAIN saved[k] -> Cids]
      BY <1>1, MapFacts DEF TransferTypeOK
    <2>2. QED
      BY <1>2, <1>5, <2>1
  <1>7. Fetched(k)'
    BY <1>2, <1>4, <1>5, <1>6 DEF Fetched
  <1>8. /\ Walking(k)' /\ Linked(k)' /\ Complete(k)' /\ Watching(k)' /\ Fetching(k)' /\ Saving(k)'
        /\ ReadBack(k)'
    BY <1>2, <1>5 DEF Walking, Linked, Complete, Watching, Running, Fetching, Saving, ReadBack
  <1>9. QED
    BY <1>3, <1>7, <1>8 DEF CommandInv

(* A local file changes: the commands that run have seen it, and those that
   have it open have seen what it was. *)
LEMMA KeptReadsOn ==
    ASSUME TransferInv, NEW f \in Files, FileRemoved(f), NEW j \in Commands
    PROVE  links'[j] = links[j] \/ ReadsOn(j)
  <1> DEFINE file == links[j][f]
             held == [file EXCEPT !.kept = local[f]]
  <1>1. TransferTypeOK /\ CommandInv(j)
    BY DEF TransferInv
  <1>2. SUFFICES ASSUME /\ pc[j] \in {"walking", "sending"} /\ f \in DOMAIN links[j]
                        /\ local[f] \in Contents /\ file \in Readings
                        /\ links'[j] = [links[j] EXCEPT ![f] = held] /\ held \in Readings
                 PROVE  ReadsOn(j)
    BY <1>1, KeptFacts
  <1>3. Running(j) /\ local[f] \in had[j][f] /\ ReadingFrom(file, had[j][f])
    BY <1>1, <1>2, RawFacts DEF CommandInv, Watching, Running, Linked
  <1>4. had[j][f] \subseteq had'[j][f]
    BY <1>1, <1>3 DEF FileRemoved, LocalChanges, TransferTypeOK
  <1>5. ReadingFrom(file, had'[j][f]) /\ local[f] \in had'[j][f]
    <2>1. had[j][f] # {}
      BY <1>3
    <2>2. \A r : ReadingFrom(r, had[j][f]) => ReadingFrom(r, had'[j][f])
      BY <1>4, <2>1, SeenGrows
    <2>3. QED
      BY <1>3, <1>4, <2>2
  <1>6. held.got = file.got /\ held.size = file.size /\ held.kept = local[f]
    BY <1>2, ReadingFacts
  <1>7. ReadingFrom(held, had'[j][f])
    <2> HIDE DEF held, file
    <2>1. QED
      BY <1>5, <1>6 DEF ReadingFrom
  <1>8. /\ DOMAIN links'[j] = DOMAIN links[j]
        /\ \A g \in DOMAIN links[j] : links'[j][g] = IF g = f THEN held ELSE links[j][g]
    <2>1. links[j] \in Linkings
      BY <1>1 DEF TransferTypeOK
    <2> HIDE DEF held, file
    <2>2. QED
      BY <1>2, <2>1, LinkSet
  <1>9. QED
    <2> HIDE DEF held, file
    <2>1. QED
      BY <1>2, <1>7, <1>8 DEF ReadsOn

LEMMA FilesChange ==
    ASSUME TransferInv, NEW f \in Files,
           (\E content \in Contents : FileWritten(f, content)) \/ FileRemoved(f)
    PROVE  StoredWhole' /\ \A j \in Commands : CommandInv(j)'
  <1>1. TransferTypeOK /\ StoredWhole
    BY DEF TransferInv
  <1>2. PICK c \in Contents \cup {None} : LocalChanges(f, c)
    BY DEF FileWritten, FileRemoved
  <1>3. /\ UNCHANGED <<stored, names, pc, job, todo, saved, result, stoodFor>>
        /\ local' = [local EXCEPT ![f] = c]
    BY <1>2 DEF LocalChanges, cluster
  <1>4. ASSUME NEW j \in Commands PROVE CommandInv(j)'
    <2>1. CommandInv(j)
      BY DEF TransferInv
    <2>2. had'[j] = IF Running(j) THEN [had[j] EXCEPT ![f] = @ \cup {c}] ELSE had[j]
      BY <1>2 DEF LocalChanges
    <2>3. \A g \in Files : had[j][g] \subseteq had'[j][g]
      BY <1>1, <2>2 DEF TransferTypeOK
    <2>4. Running(j) => \A g \in Files : local'[g] \in had'[j][g]
      BY <1>1, <1>3, <2>1, <2>2 DEF CommandInv, Watching, TransferTypeOK
    <2>5. links'[j] = links[j] \/ ReadsOn(j)
      BY KeptReadsOn DEF FileWritten
    <2>6. Stays(j)
      BY <1>3, <2>2, <2>3, <2>4, <2>5 DEF Stays
    <2>7. QED
      BY <1>1, <2>1, <2>6, StaysInv
  <1>5. QED
    BY <1>1, <1>3, <1>4 DEF StoredWhole

-----------------------------------------------------------------------------
LEMMA TransferInvInit == Init => TransferInv
  <1> SUFFICES ASSUME Init PROVE TransferInv
    OBVIOUS
  <1>1. TransferTypeOK
    BY TypeInit
  <1>2. StoredWhole
    <2>1. stored = {Foreign, Earlier} \cup {Earlier.links[f] : f \in DOMAIN Uploaded}
      BY DEF Init
    <2>2. \A f \in DOMAIN Uploaded : Earlier.links[f] \in RawCids
      BY EarlierFacts, MapFacts
    <2>3. \A f \in DOMAIN Uploaded : Earlier.links[f].type = "raw"
      BY <2>2, RawFacts
    <2>4. DOMAIN Foreign.links = {}
      BY EarlierFacts, EmptyMap
    <2>5. QED
      BY <2>1, <2>3, <2>4, EarlierFacts DEF StoredWhole
  <1>3. ASSUME NEW k \in Commands PROVE CommandInv(k)
    <2>1. pc[k] = "idle"
      BY DEF Init
    <2>2. QED
      BY <2>1 DEF CommandInv, Walking, Linked, Complete, Watching, Running, Fetching, Saving, Fetched,
                  ReadBack
  <1>4. QED
    BY <1>1, <1>2, <1>3 DEF TransferInv

LEMMA TransferInvNext == TransferInv /\ [Next]_vars => TransferInv'
  <1> SUFFICES ASSUME TransferInv, [Next]_vars PROVE TransferInv'
    OBVIOUS
  <1>1. TransferTypeOK'
    BY TypeNext
  <1>2. StoredWhole' /\ \A j \in Commands : CommandInv(j)'
    <2>1. CASE UNCHANGED vars
      <3>1. UNCHANGED <<local, stored, names, pc, job, todo, links, saved, result, stoodFor, had>>
        BY <2>1 DEF vars, cluster, transfer, history
      <3>2. \A j \in Commands : CommandInv(j)'
        BY <3>1, OthersStay
      <3>3. QED
        BY <3>1, <3>2 DEF TransferInv, StoredWhole
    <2>2. ASSUME NEW k \in Commands,
                 \E n \in Names \cup {None} : UploadDir(k, n) \/ \E f \in Files : UploadFile(k, f, n)
          PROVE  StoredWhole' /\ \A j \in Commands : CommandInv(j)'
      BY <2>2, UploadsStart
    <2>3. ASSUME NEW k \in Commands, (\E entry \in Files \cup Dirs : Visit(k, entry)) \/ Return(k)
          PROVE  StoredWhole' /\ \A j \in Commands : CommandInv(j)'
      BY <2>3, WalkGoesOn
    <2>4. ASSUME NEW k \in Commands,
                 \E f \in Files : ReadBlock(k, f) \/ FileStored(k, f) \/ SaveLink(k, f)
          PROVE  StoredWhole' /\ \A j \in Commands : CommandInv(j)'
      BY <2>4, BlocksAreRead, FilesAreStored, LinkIsSaved
    <2>5. ASSUME NEW k \in Commands, StoreRoot(k) \/ ReadFile(k) \/ SavedAll(k)
          PROVE  StoredWhole' /\ \A j \in Commands : CommandInv(j)'
      BY <2>5, RootsAreStored, FileIsRead, AllIsSaved
    <2>6. ASSUME NEW k \in Commands,
                 UploadFails(k) \/ DownloadFails(k) \/ ResolveName(k) \/ ReadDir(k)
          PROVE  StoredWhole' /\ \A j \in Commands : CommandInv(j)'
      <3>1. UNCHANGED <<local, history, starts, changes>>
        BY <2>6 DEF UploadFails, DownloadFails, ResolveName, ReadDir
      <3>2. CASE Fail(k)
        BY <3>1, <3>2, FailInv
      <3>3. CASE ~Fail(k)
        <4>1. ResolveName(k) \/ ReadDir(k)
          BY <2>6, <3>3 DEF UploadFails, DownloadFails
        <4>2. QED
          BY <3>3, <4>1, NameIsResolved, DirIsRead
      <3>4. QED
        BY <3>2, <3>3
    <2>7. ASSUME NEW k \in Commands,
                 \/ \E source \in Names \cup stored : Download(k, source)
                 \/ \E uri \in uris : ReadUri(k, uri)
          PROVE  StoredWhole' /\ \A j \in Commands : CommandInv(j)'
      BY <2>7, ReadsStart
    <2>8. ASSUME NEW f \in Changing,
                 (\E content \in Contents : FileWritten(f, content)) \/ FileRemoved(f)
          PROVE  StoredWhole' /\ \A j \in Commands : CommandInv(j)'
      BY <2>8, FilesChange, TransferAssumption
    <2>9. QED
      BY <2>1, <2>2, <2>3, <2>4, <2>5, <2>6, <2>7, <2>8 DEF Next
  <1>3. QED
    BY <1>1, <1>2 DEF TransferInv

LEMMA TransferInvAlways == Spec => []TransferInv
  BY TransferInvInit, TransferInvNext, PTL DEF Spec

-----------------------------------------------------------------------------
(* The state of Transfer has the types of TransferTypeOK: a link is of a raw  *)
(* piece or of a file that is being read, a name stands for a CID or for     *)
(* nothing.                                                                 *)
THEOREM TransferTypeCorrect == Spec => []TransferTypeOK
  <1>1. TransferInv => TransferTypeOK
    BY DEF TransferInv
  <1>2. QED
    BY <1>1, TransferInvAlways, PTL

(* Whatever fails, in whatever order files are read and stored, and whatever *)
(* is written to them or removed between two blocks, a root that can be     *)
(* found leads to stored files, and an upload that is done has linked each  *)
(* visible file that was there all the time and none that is hidden, with   *)
(* what the file was if it did not change, and if it did with blocks that   *)
(* were in their places (uploadDir.ts:41-88, uploadFile.ts:17-20), for any  *)
(* tree.                                                                    *)
THEOREM RootsAreComplete == Spec => []RootIsComplete
  <1>1. TransferInv => RootIsComplete
    BY DEF TransferInv, StoredWhole, CommandInv, Complete, RootIsComplete
  <1>2. QED
    BY <1>1, TransferInvAlways, PTL

(* However the names move on while it runs, a download saves one upload, and *)
(* a URI that store has returned reads what was stored                      *)
(* (download/index.ts:16-39, downloadDir.ts:20-40, DdcClient.ts:446-500).   *)
THEOREM ReadsAreOfOneUpload == Spec => []ReadIsOneUpload
  <1>1. ASSUME TransferInv PROVE SavedIsOneUpload
    BY <1>1 DEF TransferInv, CommandInv, Fetched, SavedIsOneUpload
  <1>2. ASSUME TransferInv PROVE UriReadsWhatWasStored
    BY <1>2 DEF TransferInv, CommandInv, ReadBack, UriReadsWhatWasStored
  <1>3. TransferInv => ReadIsOneUpload
    BY <1>1, <1>2 DEF ReadIsOneUpload
  <1>4. QED
    BY <1>3, TransferInvAlways, PTL
=============================================================================
