------------------------------ MODULE MCDacParse -------------------------------
(* DacParse on messages of a few short fields. Two or three bytes stand for    *)
(* any number: one for the tag, one for the length or for a value, the rest    *)
(* for what is inside.                                                         *)
EXTENDS DacParse

F(id, wire, bytes, isEmpty) ==
  [id |-> id, wire |-> wire, tag |-> 1, size |-> bytes, empty |-> isEmpty]

Location == F(4, Delimited, 3, FALSE)
String == F(6, Delimited, 3, FALSE)
Period == F(12, Varint, 2, FALSE)
Comments == F(Comment, Delimited, 3, FALSE)

MCFields == {Location, Period, Comments}
TwoFields == {Location, String}

\* A zero byte; fields of the schema that end before or beyond the end of the
\* message; a known field of the wrong wire type. An unknown field and a cut
\* varint take the branches of the third and the fourth.
Zero == F(NoTag, Varint, 1, TRUE)
MCStrays ==
  {Zero, F(5, Delimited, 3, FALSE), F(6, Delimited, 4, FALSE), F(4, Varint, 2, FALSE)}

NoStrays == {Zero}

\* A string that is long enough to hold two functions without fields.
LongString == {Location, F(6, Delimited, 7, FALSE)}
EmptyFunctions == {Zero, F(5, Delimited, 2, FALSE)}
================================================================================
