----------------------------- MODULE FieldTable -----------------------------
(***************************************************************************)
(* How a message class is written down in the modules that follow: as the  *)
(* set of its fields.  A field stands for all that the code repeats for it *)
(* - the member, what the constructor stores in it, set_x or add_x, get_x, *)
(* and the case of the parse function that reads it:                       *)
(*   id     the field number, the case label                               *)
(*   name   the member                                                     *)
(*   kind   what the case reads: "int", "bool", "string" or "message"      *)
(*   width  the width of the varint it reads (ReadVarint32, ReadVarint64)  *)
(*   many   TRUE for a vector, stored with add_x; FALSE for set_x          *)
(*   of     the class of a submessage                                      *)
(* A repeated integer has the two cases of a packed record and of a single *)
(* value.                                                                  *)
(*                                                                         *)
(* A number is the set of the positions of its one bits, so that all 64    *)
(* bits of a value are there; a string is a sequence of bytes; a pointer   *)
(* is a sequence of length 0 (null) or 1.                                  *)
(***************************************************************************)
EXTENDS Integers, Sequences

Field(id, name, kind, width, many, of) ==
  [id |-> id, name |-> name, kind |-> kind, width |-> width, many |-> many, of |-> of]

Int64(id, name)          == Field(id, name, "int", 64, FALSE, "")
Int32(id, name)          == Field(id, name, "int", 32, FALSE, "")
Bool(id, name)           == Field(id, name, "bool", 32, FALSE, "")
Bool64(id, name)         == Field(id, name, "bool", 64, FALSE, "")
Ints64(id, name)         == Field(id, name, "int", 64, TRUE, "")
Text(id, name)           == Field(id, name, "string", 0, FALSE, "")
Texts(id, name)          == Field(id, name, "string", 0, TRUE, "")
Pointer(id, name, class) == Field(id, name, "message", 0, FALSE, class)
Vector(id, name, class)  == Field(id, name, "message", 0, TRUE, class)

Names(fields) == {f.name : f \in fields}
Named(fields, name) == CHOOSE f \in fields : f.name = name

\* What a constructor leaves in a member: 0, false, "", nullptr, no element.
Default(f) == IF f.kind \in {"int", "bool"} /\ ~f.many THEN {} ELSE <<>>

NewObject(fields) == [n \in Names(fields) |-> Default(Named(fields, n))]

\* add_x puts the new element first.
StoreFirst(object, f, value) ==
  [object EXCEPT ![f.name] = IF f.many THEN <<value>> \o @
                             ELSE IF f.kind = "message" THEN <<value>> ELSE value]

\* set_x or add_x
Store(object, f, value) ==
  [object EXCEPT ![f.name] = IF f.many THEN Append(@, value)
                             ELSE IF f.kind = "message" THEN <<value>> ELSE value]
=============================================================================
