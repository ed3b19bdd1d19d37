----------------------------- MODULE ProfileFields -----------------------------
(* An encoded Profile as the parsers see it: a sequence of top-level fields,   *)
(* and what the sequential parser (src/sequential/profile.pbs.cpp) makes of it, *)
(* the result that the other parsers are compared with.                        *)
(*                                                                             *)
(* A field is [id, wire, vals]: vals holds one value, which stands for a       *)
(* number, a string or everything in a submessage, or, for a packed comment,   *)
(* any number of values. Values are positive; 0 is what the constructors store *)
(* in the scalars, and a null pointer.                                         *)
EXTENDS Integers, Sequences, SequencesExt

Varint == 0        \* wire types
Delimited == 2

\* sample_type, sample, mapping, location, function, string_table
Repeated == 1 .. 6
Scalars == {7, 8, 9, 10, 12, 14}
PeriodType == 11
Comment == 13

\* The fields of the schema, in the wire types an encoder gives them.
Known(f) ==
  \/ f.id \in Repeated \union {PeriodType} /\ f.wire = Delimited /\ Len(f.vals) = 1
  \/ f.id \in Scalars /\ f.wire = Varint /\ Len(f.vals) = 1
  \/ f.id = Comment /\ (f.wire = Delimited \/ (f.wire = Varint /\ Len(f.vals) = 1))

EmptyProfile ==
  [slots |-> [id \in Repeated |-> <<>>],
   scalars |-> [id \in Scalars |-> 0],
   periodType |-> 0,
   comment |-> <<>>]

SetScalar(p, id, v) == [p EXCEPT !.scalars[id] = v]

\* One turn of the loop in the sequential parseProfile. It knows a field by its
\* id and then by its wire type, and takes no notice of any other.
Apply(p, f) ==
  CASE f.id \in Repeated /\ f.wire = Delimited ->
         [p EXCEPT !.slots[f.id] = Append(@, f.vals[1])]
    [] f.id \in Scalars /\ f.wire = Varint -> SetScalar(p, f.id, f.vals[1])
    [] f.id = PeriodType /\ f.wire = Delimited -> [p EXCEPT !.periodType = f.vals[1]]
    [] f.id = Comment -> [p EXCEPT !.comment = @ \o f.vals]
    [] OTHER -> p

SequentialParse(msg) == FoldLeft(Apply, EmptyProfile, msg)
================================================================================
