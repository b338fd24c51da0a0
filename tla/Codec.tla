------------------------------- MODULE Codec --------------------------------
(***************************************************************************)
(* What protobuf's generated classes do with a message.  Of the wire only  *)
(* what is written under each field number counts, in its order.  A class   *)
(* calls those of its nested messages, which nest twice: the generated code *)
(* is the same at each level, and takes the level below as its parameter.   *)
(***************************************************************************)
EXTENDS Protobuf

\* No message nests deeper than IncomingMaybeFriend in GetMessagesResponse.
Leaf(type, msg) == msg

\* serializeBinaryToWriter: each element of a list is a field of its own.
FieldWritten(f, v, Nested(_, _)) ==
  IF f.kind = "strings" THEN v
  ELSE IF f.kind = "list" THEN [k \in DOMAIN v |-> Nested(f.type, v[k])]
  ELSE IF IsWritten(f, v) THEN <<v>> ELSE <<>>

ToWriter(type, msg, Nested(_, _)) ==
  [i \in DOMAIN type |-> FieldWritten(type[i], msg[type[i].name], Nested)]

\* Of IncomingMaybeFriend and its like, of IncomingMessage, of GetMessagesResponse.
serializeLeaf(type, msg) == ToWriter(type, msg, Leaf)
serializeItem(type, msg) == ToWriter(type, msg, serializeLeaf)
serializeBinary(type, msg) == ToWriter(type, msg, serializeItem)

\* deserializeBinaryFromReader: of a repeated number the last counts, or all for
\* a list; a number the type does not have is skipped.
FieldRead(f, vs, Nested(_, _)) ==
  IF f.kind = "strings" THEN vs
  ELSE IF f.kind = "list" THEN [k \in DOMAIN vs |-> Nested(f.type, vs[k])]
  ELSE IF vs = <<>> THEN Default(f) ELSE vs[Len(vs)]

FromReader(type, wire, Nested(_, _)) ==
  [n \in Names(type) |->
     LET i == Number(type, n)
     IN  FieldRead(type[i], IF i \in DOMAIN wire THEN wire[i] ELSE <<>>, Nested)]

deserializeLeaf(type, wire) == FromReader(type, wire, Leaf)
deserializeItem(type, wire) == FromReader(type, wire, deserializeLeaf)
deserializeBinary(type, wire) == FromReader(type, wire, deserializeItem)

\* toObject: an optional string that is not set reads as the empty string.
FieldShown(f, v, Nested(_, _)) ==
  IF f.kind = "list" THEN [k \in DOMAIN v |-> Nested(f.type, v[k])]
  ELSE IF f.kind = "optional" /\ v = Absent THEN "" ELSE v

AsObject(type, msg, Nested(_, _)) ==
  [n \in Names(type) |-> FieldShown(type[Number(type, n)], msg[n], Nested)]

objectOfLeaf(type, msg) == AsObject(type, msg, Leaf)
objectOfItem(type, msg) == AsObject(type, msg, objectOfLeaf)
toObject(type, msg) == AsObject(type, msg, objectOfItem)

\* A message as the daemon and the window fill it in: it has the fields of its type, the
\* optional ones are set, and the elements of its lists are messages again.
HasFields(type, msg, Nested(_, _)) ==
  /\ msg = [n \in Names(type) |-> msg[n]]
  /\ \A i \in DOMAIN type :
       LET v == msg[type[i].name]
       IN  /\ type[i].kind = "optional" => v # Absent
           /\ type[i].kind = "list" => /\ v = [k \in DOMAIN v |-> v[k]]
                                       /\ \A k \in DOMAIN v : Nested(type[i].type, v[k])

IsAny(type, msg) == TRUE
IsLeaf(type, msg) == HasFields(type, msg, IsAny)
IsItem(type, msg) == HasFields(type, msg, IsLeaf)
IsMessage(type, msg) == HasFields(type, msg, IsItem)

=============================================================================
