------------------------------ MODULE Protobuf ------------------------------
(***************************************************************************)
(* The types of protobuf messages: a message type is the sequence of its   *)
(* fields, field number 1 first, and a message is a record.                *)
(***************************************************************************)
EXTENDS Integers, Sequences, FiniteSets, TLC

CONSTANT Absent   \* the value of an optional field that is not set

F(name, kind, type) == [name |-> name, kind |-> kind, type |-> type]
Str(name) == F(name, "string", <<>>)
Opt(name) == F(name, "optional", <<>>)
Bool(name) == F(name, "bool", <<>>)
Num(name) == F(name, "int", <<>>)
Enum(name, size) == F(name, "enum", size)
Time(name) == F(name, "time", <<>>)
Strs(name) == F(name, "strings", <<>>)
List(name, type) == F(name, "list", type)

\* A record with some fields written over (new @@ old of module TLC).
With(new, old) ==
  [f \in DOMAIN new \cup DOMAIN old |-> IF f \in DOMAIN new THEN new[f] ELSE old[f]]

Names(type) == {type[i].name : i \in DOMAIN type}
Number(type, name) == CHOOSE i \in DOMAIN type : type[i].name = name

Default(f) == CASE f.kind = "string" -> ""
                [] f.kind = "bool" -> FALSE
                [] f.kind \in {"int", "enum"} -> 0
                [] f.kind \in {"optional", "time"} -> Absent
                [] f.kind \in {"strings", "list"} -> <<>>

\* if (f.length > 0), if (f !== 0), if (f) or if (f != null)
IsWritten(f, v) == v # Default(f)

=============================================================================
