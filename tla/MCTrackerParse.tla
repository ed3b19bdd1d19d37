----------------------------- MODULE MCTrackerParse ----------------------------
(* TrackerParse on messages of a few fields. Two of the six repeated fields    *)
(* stand for the rest: sample, whose objects parseProfile makes, and location, *)
(* whose objects the loop makes.                                               *)
EXTENDS TrackerParse

F(id, wire, vals) == [id |-> id, wire |-> wire, vals |-> vals]

MCFields ==
  {F(2, Delimited, <<v>>) : v \in {1, 2}}
    \union {F(4, Delimited, <<v>>) : v \in {1, 2}}
    \union {F(6, Delimited, <<1>>), F(PeriodType, Delimited, <<1>>)}
    \union {F(12, Varint, <<v>>) : v \in {1, 2}}
    \union {F(Comment, Delimited, <<1, 2>>), F(Comment, Varint, <<3>>)}

\* One packed record, as encoders write it.
OneComment == {F(Comment, Delimited, <<1, 2>>)}

\* Several packed records, which decoders must take for one.
PackedComments == {F(Comment, Delimited, <<v>>) : v \in {1, 2, 3}}
================================================================================
