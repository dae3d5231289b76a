----------------------------- MODULE MCTransfer -----------------------------
(* A small instance of Transfer for TLC: a tree with a file of two blocks, which
   others change, and a directory with a small file and a hidden one; two
   commands at a time and one name. *)
EXTENDS Transfer, TLC

CONSTANTS fileA, fileB, hidden, top, sub, a, b

MCChildren == [d \in {top, sub} |-> IF d = top THEN {fileA, sub} ELSE {hidden, fileB}]

(* Files of one piece and files in parts. *)
MCContents == {<<>>, <<b>>, <<a, a>>, <<b, b>>}
MCBefore == fileA :> <<a, a>> @@ fileB :> <<b>> @@ hidden :> <<b>>
MCUploaded == fileA :> <<b>> @@ fileB :> <<b, b>>

(* Nothing tells two commands apart. *)
Symmetry == Permutations(Commands)
=============================================================================
