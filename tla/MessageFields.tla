---------------------------- MODULE MessageFields ----------------------------
(***************************************************************************)
(* How a field of a generated message class is declared: its number, its   *)
(* name, what it holds ("scalar" or the class of a message) and how it is  *)
(* written.                                                                *)
(***************************************************************************)

Field(no, name, kind, rule) ==
    [no |-> no, name |-> name, kind |-> kind, rule |-> rule]

Plain(no, name) == Field(no, name, "scalar", "plain")
Optional(no, name) == Field(no, name, "scalar", "optional")
Packed(no, name) == Field(no, name, "scalar", "packed")
Repeated(no, name) == Field(no, name, "scalar", "unpacked")
Message(no, name, kind) == Field(no, name, kind, "optional")
Messages(no, name, kind) == Field(no, name, kind, "unpacked")
Case(no, name, kind) == Field(no, name, kind, "case")
=============================================================================
