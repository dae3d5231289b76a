------------------------------- MODULE Transfer -------------------------------
(***************************************************************************)
(* The upload and download commands of packages/cli and the store and read *)
(* of DdcClient under them: a local file or a directory tree becomes raw   *)
(* pieces and one DAG node that links them, under a CNS name or none, and  *)
(* a CID or a name becomes local files again.  Several commands run at     *)
(* once, on the same names, while the local files change.                  *)
(*                                                                         *)
(* A CID is the content it stands for.  The cluster is external: one store *)
(* of contents and of names; that nodes lag behind each other is ReadPiece,*)
(* that a name and its content are stored in order is StorePiece, and that *)
(* all that is read of a file is stored is FileStorage.                    *)
(***************************************************************************)
EXTENDS Naturals, Sequences

CONSTANTS
    Commands,   \* commands that run at the same time
    Files, Dirs,
    Source,     \* the directory that is uploaded
    Children,   \* what a directory holds
    Hidden,     \* the files and directories whose name starts with a dot
    Blocks,     \* what is read of a file at a time
    Contents,   \* of a file: its blocks, one after the other
    MaxBlocks,  \* bound: blocks of a content
    PartSize,   \* a file of more blocks is stored in parts
    Changing,   \* bound: the files that others change
    Before,     \* bound: the contents of the files when the commands start
    Uploaded,   \* bound: the files of a directory that was uploaded before
    Names,
    None,
    MaxStarts,  \* bound: commands in a behaviour
    MaxChanges  \* bound: changes of local files

(* What may be read of a file that changes meanwhile. *)
Bodies == UNION {[1..n -> Blocks] : n \in 0..MaxBlocks}

ASSUME TransferAssumption ==
    /\ Source \in Dirs /\ Hidden \subseteq Files \cup Dirs /\ Files \cap Dirs = {}
    /\ Children \in [Dirs -> SUBSET (Files \cup Dirs)]
    /\ MaxBlocks \in Nat /\ PartSize \in Nat \ {0}
    /\ Contents \subseteq Bodies /\ None \notin Contents \cup Names
    /\ Changing \subseteq Files
    /\ Before \in [Files -> Contents \cup {None}]
    /\ DOMAIN Uploaded \subseteq Files
    /\ \A f \in DOMAIN Uploaded : Uploaded[f] \in Contents
    /\ MaxStarts \in Nat /\ MaxChanges \in Nat

VARIABLES
    local,    \* content of the local files, None for one that is not there
    stored,   \* the CIDs the cluster has
    names,    \* the CID each CNS name stands for
    pc,       \* per command: "idle", what it does, "done" or "failed"
    job,      \* per command: what it was asked for
    todo,     \* upload: entries still to visit, of each directory, the innermost first
    links,    \* upload, download: the links of the root, by path
    saved,    \* download: the CIDs saved so far, by path
    result,   \* per command: the CID it reports
    uris,     \* the URIs that store has returned
    stoodFor, \* history, per command: the CIDs its source stood for meanwhile
    had,      \* history, per command: the contents of each file meanwhile
    starts, changes

transfer == <<job, todo, links, saved, result>>
history == <<stoodFor, had>>
cluster == <<stored, names, uris>>
vars == <<local, cluster, pc, transfer, history, starts, changes>>

(* A piece, or parts and the size that is declared for them. *)
Raw(body, size) == [type |-> "raw", body |-> body, size |-> size]
Whole(content) == Raw(content, Len(content))
Dag(data, ls) == [type |-> "dag-node", data |-> data, links |-> ls]

(* What is stored already: an upload of the CLI, which may be under a name, and
   a node of another application. *)
Earlier == Dag("cli", [f \in DOMAIN Uploaded |-> Whole(Uploaded[f])])
Foreign == Dag("other", <<>>)

(* The CIDs there can be; no name of the program's looks like one. *)
RawCids == {Raw(body, size) : body \in Bodies, size \in 0..MaxBlocks}
Cids == RawCids \cup
        {Dag(data, ls) : data \in {"cli", "other"}, ls \in UNION {[D -> RawCids] : D \in SUBSET Files}}

ASSUME CidAssumption ==
    /\ (Names \cup Files \cup Dirs \cup {None}) \cap Cids = {}
    /\ Names \cap (Files \cup Dirs) = {}

(* A file that is being read: its size when the upload came to it, what has been
   read, and the content it had when it was removed under the open stream. *)
Reading(size) == [type |-> "reading", size |-> size, got |-> <<>>, kept |-> None]

(* DdcUri: cidOrName is kept as the one it is. *)
NewUri(cidOrName, name) ==
    IF cidOrName \in Names
    THEN [cid |-> None, name |-> IF name = None THEN cidOrName ELSE name]
    ELSE [cid |-> cidOrName, name |-> name]

CidOrName(uri) == IF uri.cid # None THEN uri.cid ELSE uri.name

(* resolveName: a CID stands for itself. *)
Resolved(cidOrName) == IF cidOrName \in Names THEN names[cidOrName] ELSE cidOrName

(* What is there for a path, unless something is already. *)
With(map, path, value) ==
    [p \in DOMAIN map \cup {path} |-> IF p \in DOMAIN map THEN map[p] ELSE value]

Body(cid) == [p \in {"body"} |-> cid]

Running(k) == pc[k] \notin {"idle", "done", "failed"}

-----------------------------------------------------------------------------
Init ==
    /\ local = Before
    /\ stored = {Foreign, Earlier} \cup {Earlier.links[f] : f \in DOMAIN Uploaded}
    /\ names \in [Names -> {None, Earlier}]
    /\ pc = [k \in Commands |-> "idle"]
    /\ job = [k \in Commands |-> [kind |-> "none", of |-> None, name |-> None]]
    /\ todo = [k \in Commands |-> <<>>]
    /\ links = [k \in Commands |-> <<>>]
    /\ saved = [k \in Commands |-> <<>>]
    /\ result = [k \in Commands |-> None]
    /\ uris = {NewUri(Earlier, n) : n \in Names}
    /\ stoodFor = [k \in Commands |-> {}]
    /\ had = [k \in Commands |-> [f \in Files |-> {}]]
    /\ starts = 0 /\ changes = 0

Go(k, where) == pc' = [pc EXCEPT ![k] = where]

(* A command that fails says only that it did. *)
Forget(k) ==
    /\ todo' = [todo EXCEPT ![k] = <<>>]
    /\ links' = [links EXCEPT ![k] = <<>>]
    /\ saved' = [saved EXCEPT ![k] = <<>>]
    /\ result' = [result EXCEPT ![k] = None]

Fail(k) == Go(k, "failed") /\ Forget(k) /\ UNCHANGED <<cluster, job>>

(* What a name stands for, for the commands that use it now. *)
Watch ==
    stoodFor' = [k \in Commands |->
        IF Running(k) /\ job[k].of \in Names THEN stoodFor[k] \cup {names'[job[k].of]}
        ELSE stoodFor[k]]

Begin(k, kind, of, name) ==
    /\ ~Running(k) /\ starts < MaxStarts
    /\ starts' = starts + 1
    /\ job' = [job EXCEPT ![k] = [kind |-> kind, of |-> of, name |-> name]]
    /\ saved' = [saved EXCEPT ![k] = <<>>]
    /\ stoodFor' = [stoodFor EXCEPT ![k] =
           IF of \in Files \cup Dirs THEN {} ELSE {Resolved(of)}]
    /\ had' = [had EXCEPT ![k] = [f \in Files |-> {local[f]}]]
    /\ UNCHANGED <<local, cluster, changes>>

(* fs.readdir, whose order is not defined *)
Listing(d) == {e \in Children[d] : e \in Files => local[e] # None}

(* fs.stat has been awaited, and the file is going to be read. *)
Sent(f) == Reading(Len(local[f]))

(* upload of a directory: its entries are read. *)
UploadDir(k, name) ==
    /\ Begin(k, "upload dir", Source, name)
    /\ todo' = [todo EXCEPT ![k] = <<Listing(Source)>>]
    /\ links' = [links EXCEPT ![k] = <<>>]
    /\ result' = [result EXCEPT ![k] = None]
    /\ Go(k, "walking")

(* upload of a file that is there. *)
UploadFile(k, f, name) ==
    /\ Begin(k, "upload file", f, name)
    /\ local[f] # None
    /\ links' = [links EXCEPT ![k] = [p \in {f} |-> Sent(f)]]
    /\ todo' = [todo EXCEPT ![k] = <<>>]
    /\ result' = [result EXCEPT ![k] = None]
    /\ Go(k, "sending")

(* The loop of uploadDirLinks: a file is left to be uploaded while the walk
   goes on, a directory is listed and walked before the entries that follow. *)
Visit(k, entry) ==
    /\ pc[k] = "walking" /\ todo[k] # <<>> /\ entry \in Head(todo[k])
    /\ LET rest == <<Head(todo[k]) \ {entry}>> \o Tail(todo[k])
           Onward(entries) == todo' = [todo EXCEPT ![k] = entries]
       IN \/ entry \in Hidden /\ Onward(rest) /\ UNCHANGED links
          \/ /\ entry \in Dirs \ Hidden
             /\ Onward(<<Listing(entry)>> \o rest) /\ UNCHANGED links
          \/ /\ entry \in Files \ Hidden
             /\ local[entry] # None
             /\ links' = [links EXCEPT ![k] = With(links[k], entry, Sent(entry))]
             /\ Onward(rest)
    /\ UNCHANGED <<local, cluster, pc, job, saved, result, history, starts, changes>>

(* The links of a directory are returned. *)
Return(k) ==
    /\ pc[k] = "walking" /\ todo[k] # <<>> /\ Head(todo[k]) = {}
    /\ todo' = [todo EXCEPT ![k] = Tail(todo[k])]
    /\ UNCHANGED <<local, cluster, pc, job, links, saved, result, history, starts, changes>>

(* client.store: the entity is stored, then named, and its URI is returned.
   The record may fail when the entity is stored. *)
Store(k, cid, name) ==
    /\ stored' = stored \cup {cid}
    /\ \/ /\ names' = IF name = None THEN names ELSE [names EXCEPT ![name] = cid]
          /\ uris' = uris \cup {NewUri(cid, name)}
          /\ result' = [result EXCEPT ![k] = NewUri(cid, name).cid]
          /\ Go(k, "done")
       \/ /\ name # None
          /\ Go(k, "failed") /\ UNCHANGED <<names, uris, result>>
    /\ Watch

(* createReadStream: the file is opened and read block by block, while others
   are; what is written into it meanwhile is read, what takes its place is not. *)
Sending(k, f) ==
    /\ pc[k] \in {"walking", "sending"}
    /\ f \in DOMAIN links[k] /\ links[k][f].type = "reading"

InStream(k, f) == IF links[k][f].kept = None THEN local[f] ELSE links[k][f].kept

ReadBlock(k, f) ==
    /\ Sending(k, f) /\ InStream(k, f) # None
    /\ LET got == links[k][f].got IN
       /\ Len(got) < Len(InStream(k, f))
       /\ links' = [links EXCEPT ![k][f].got = Append(got, InStream(k, f)[Len(got) + 1])]
    /\ UNCHANGED <<local, cluster, pc, job, todo, saved, result, history, starts, changes>>

(* FileStorage.store: the size of the file decides whether it is stored in
   parts, of which it is the total; a piece has the size of what was read, and
   cannot be empty or too large. *)
Storable(file) == file.size > PartSize \/ Len(file.got) \in 1..PartSize

CidOf(file) == IF file.size > PartSize THEN Raw(file.got, file.size) ELSE Whole(file.got)

(* The end of the file is read and it is stored: the pieces of a directory in
   any order, and without a name. *)
FileStored(k, f) ==
    /\ Sending(k, f) /\ InStream(k, f) # None
    /\ Len(links[k][f].got) >= Len(InStream(k, f))
    /\ Storable(links[k][f])
    /\ LET cid == CidOf(links[k][f]) IN
       /\ links' = [links EXCEPT ![k][f] = cid]
       /\ \/ pc[k] = "sending" /\ Store(k, cid, job[k].name)
          \/ /\ pc[k] = "walking"
             /\ stored' = stored \cup {cid}
             /\ UNCHANGED <<names, uris, result, pc, stoodFor>>
    /\ UNCHANGED <<local, job, todo, saved, had, starts, changes>>

(* Promise.all of the links, then the root. *)
StoreRoot_NotAwaited(k) ==
    /\ pc[k] = "walking" /\ todo[k] = <<>>
    /\ Store(k, Dag("cli", [f \in DOMAIN links[k] |->
                IF Sending(k, f) THEN CidOf(links[k][f]) ELSE links[k][f]]), job[k].name)
    /\ UNCHANGED <<local, job, todo, links, saved, had, starts, changes>>

StoreRoot(k) ==
    /\ pc[k] = "walking" /\ todo[k] = <<>>
    /\ \A f \in DOMAIN links[k] : ~Sending(k, f)
    /\ Store(k, Dag("cli", links[k]), job[k].name)
    /\ UNCHANGED <<local, job, todo, links, saved, had, starts, changes>>

(* A file is gone when it is looked at or opened, or it or the root cannot be
   stored: the command ends, whatever else is on the way. *)
UploadFails(k) ==
    /\ pc[k] \in {"walking", "sending"}
    /\ Fail(k)
    /\ UNCHANGED <<local, history, starts, changes>>

-----------------------------------------------------------------------------
Download(k, source) ==
    /\ Begin(k, "download", source, None)
    /\ links' = [links EXCEPT ![k] = <<>>]
    /\ result' = [result EXCEPT ![k] = None]
    /\ Go(k, "resolving") /\ UNCHANGED todo

(* resolveName, for the CID that is reported and for its type. *)
ResolveName(k) ==
    /\ pc[k] = "resolving"
    /\ LET cid == Resolved(job[k].of) IN
       \/ cid = None /\ Fail(k)
       \/ /\ cid # None
          /\ result' = [result EXCEPT ![k] = cid]
          /\ Go(k, IF cid.type = "dag-node" THEN "reading dir" ELSE "reading file")
          /\ UNCHANGED <<cluster, job, todo, links, saved>>
    /\ UNCHANGED <<local, history, starts, changes>>

(* client.read of the URI made of the source, which resolves the name again. *)
ReadCid(k) == Resolved(CidOrName(NewUri(job[k].of, None)))
IsCLIDir(cid) == cid.type = "dag-node" /\ cid.data = "cli"

(* downloadDir: the root is read once, and must be one of the CLI. *)
ReadDir(k) ==
    /\ pc[k] = "reading dir"
    /\ \/ /\ IsCLIDir(ReadCid(k))
          /\ links' = [links EXCEPT ![k] = ReadCid(k).links]
          /\ Go(k, "saving")
          /\ UNCHANGED <<cluster, job, todo, saved, result>>
       \/ ~IsCLIDir(ReadCid(k)) /\ Fail(k)
    /\ UNCHANGED <<local, history, starts, changes>>

(* downloadFile of the source.  What a node gives for the CID of a DAG node is
   its own business: bytes that belong to it, or an error. *)
ReadFile(k) ==
    /\ pc[k] = "reading file"
    /\ saved' = [saved EXCEPT ![k] = Body(ReadCid(k))]
    /\ Go(k, "done")
    /\ UNCHANGED <<local, cluster, job, todo, links, result, history, starts, changes>>

(* downloadFile of a link. *)
SaveLink_OfTheName(k, f) ==
    /\ pc[k] = "saving" /\ f \in DOMAIN links[k] \ DOMAIN saved[k]
    /\ IsCLIDir(ReadCid(k)) /\ f \in DOMAIN ReadCid(k).links
    /\ saved' = [saved EXCEPT ![k] = With(saved[k], f, ReadCid(k).links[f])]
    /\ UNCHANGED <<local, cluster, pc, job, todo, links, result, history, starts, changes>>

SaveLink(k, f) ==
    /\ pc[k] = "saving" /\ f \in DOMAIN links[k] \ DOMAIN saved[k]
    /\ links[k][f] \in stored
    /\ saved' = [saved EXCEPT ![k] = With(saved[k], f, links[k][f])]
    /\ UNCHANGED <<local, cluster, pc, job, todo, links, result, history, starts, changes>>

SavedAll(k) ==
    /\ pc[k] = "saving" /\ DOMAIN saved[k] = DOMAIN links[k]
    /\ Go(k, "done")
    /\ UNCHANGED <<local, cluster, transfer, history, starts, changes>>

DownloadFails(k) ==
    /\ pc[k] \in {"resolving", "reading dir", "reading file", "saving"}
    /\ Fail(k)
    /\ UNCHANGED <<local, history, starts, changes>>

(* client.read of a URI that store has returned. *)
ReadUri(k, uri) ==
    /\ Begin(k, "read", uri.cid, uri.name)
    /\ result' = [result EXCEPT ![k] = Resolved(CidOrName(uri))]
    /\ Go(k, "done") /\ UNCHANGED <<todo, links>>

-----------------------------------------------------------------------------
(* Another program creates a file, writes another content into it, or removes
   it. *)
LocalChanges(f, content) ==
    /\ changes < MaxChanges /\ local[f] # content
    /\ changes' = changes + 1
    /\ local' = [local EXCEPT ![f] = content]
    /\ had' = [k \in Commands |-> IF Running(k) THEN [had[k] EXCEPT ![f] = @ \cup {content}]
                                  ELSE had[k]]
    /\ UNCHANGED <<cluster, pc, job, todo, saved, result, stoodFor, starts>>

FileWritten(f, content) == LocalChanges(f, content) /\ UNCHANGED links

(* A stream that has the file open goes on with what it was; one that has read
   nothing yet may have opened it or not. *)
Readers(f) == {k \in Commands : Sending(k, f) /\ links[k][f].kept = None}

FileRemoved(f) ==
    /\ LocalChanges(f, None)
    /\ \E open \in SUBSET Readers(f) :
           /\ {k \in Readers(f) : links[k][f].got # <<>>} \subseteq open
           /\ links' = [k \in Commands |->
                  IF k \in open THEN [links[k] EXCEPT ![f].kept = local[f]] ELSE links[k]]

Next ==
    \/ \E k \in Commands :
           \/ \E n \in Names \cup {None} :
                  UploadDir(k, n) \/ \E f \in Files : UploadFile(k, f, n)
           \/ \E entry \in Files \cup Dirs : Visit(k, entry)
           \/ Return(k)
           \/ \E f \in Files : ReadBlock(k, f) \/ FileStored(k, f) \/ SaveLink(k, f)
           \/ StoreRoot(k)
           \/ UploadFails(k)
           \/ \E source \in Names \cup stored : Download(k, source)
           \/ ResolveName(k)
           \/ ReadDir(k)
           \/ ReadFile(k)
           \/ SavedAll(k)
           \/ DownloadFails(k)
           \/ \E uri \in uris : ReadUri(k, uri)
    \/ \E f \in Changing :
           (\E content \in Contents : FileWritten(f, content)) \/ FileRemoved(f)

Spec == Init /\ [][Next]_vars

-----------------------------------------------------------------------------
(* The entries a walk that starts with some comes to: those that are in every
   set which has the visible ones and, with a directory, what it shows. *)
Closed(set) == \A d \in set \cap Dirs : Children[d] \ Hidden \subseteq set

Within(entries) ==
    {e \in Files \cup Dirs :
        \A set \in SUBSET (Files \cup Dirs) :
            entries \ Hidden \subseteq set /\ Closed(set) => e \in set}

(* The files an upload takes: not hidden, and not under a hidden directory. *)
Visible == Files \cap Within(Children[Source])

(* What was stored of a file that had these contents meanwhile: the file, if it
   did not change, or else blocks that were in their places at some time. *)
InPlace(body, contents) ==
    \A i \in DOMAIN body : \E c \in contents \ {None} : i \in DOMAIN c /\ body[i] = c[i]

ReadFrom(cid, contents) ==
    /\ InPlace(cid.body, contents)
    /\ \A c \in contents \ {None} : contents = {c} => cid = Whole(c)

(* A root that can be found leads to stored files, whatever fails and
   whichever file is the last; and an upload that is done has linked every
   visible file that was there all the time, none that is hidden, each with what
   the file was, or with what it was block by block if it changed meanwhile
   (uploadDir.ts:41-88, uploadFile.ts:17-20). *)
RootIsComplete ==
    /\ \A cid \in stored : cid.type = "dag-node" =>
           \A f \in DOMAIN cid.links : cid.links[f] \in stored
    /\ \A k \in Commands :
           pc[k] = "done" /\ job[k].kind = "upload dir" =>
               /\ result[k] \in stored
               /\ DOMAIN result[k].links \subseteq Visible
               /\ \A f \in DOMAIN result[k].links : ReadFrom(result[k].links[f], had[k][f])
               /\ \A f \in Visible : None \notin had[k][f] => f \in DOMAIN result[k].links
    /\ \A k \in Commands :
           pc[k] = "done" /\ job[k].kind = "upload file" =>
               result[k] \in stored /\ ReadFrom(result[k], had[k][job[k].of])

(* Not kept by the code (README, section 4).  Claimed by FileStorage.ts:141
   ("Stores a file in the DDC"): what is stored is the file.  One that is written
   while it is read is stored as a mixture it never was, and one that is cut
   short as parts that are fewer than their total size says (uploadFile.ts:17-18,
   FileStorage.ts:116-138). *)
StoredIsOneContent ==
    \A k \in Commands :
        pc[k] = "done" /\ job[k].kind = "upload file" =>
            \E c \in had[k][job[k].of] \ {None} : result[k] = Whole(c)

(* A downloaded directory is one upload, with all its files and no file of
   another, even if the name comes to stand for another one meanwhile; and the
   CID that is reported is that of the upload, or the name has changed
   (download/index.ts:16-39, downloadDir.ts:20-40). *)
SavedIsOneUpload ==
    \A k \in Commands :
        pc[k] = "done" /\ job[k].kind = "download" =>
            /\ result[k] \in stoodFor[k]
            /\ \E cid \in stoodFor[k] \ {None} :
                   \/ cid.type = "dag-node" /\ saved[k] = cid.links
                   \/ saved[k] = Body(cid)

(* The URI that store returns reads what was stored, whatever its name stands
   for by then (DdcClient.ts:446-500, DdcUri.ts:36-59). *)
UriReadsWhatWasStored ==
    \A k \in Commands :
        pc[k] = "done" /\ job[k].kind = "read" => result[k] = job[k].of

(* Names move on while commands run; what is read, by a command or through a
   URI, is of one upload, and of the one that was meant. *)
ReadIsOneUpload == SavedIsOneUpload /\ UriReadsWhatWasStored
=============================================================================
