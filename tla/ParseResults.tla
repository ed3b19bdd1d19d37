----------------------------- MODULE ParseResults -----------------------------
(***************************************************************************)
(* What the parse functions make of messages that Google's classes have    *)
(* written.  An input is a sequence of pieces, and its meaning that of the *)
(* pieces merged, as the wire format promises for concatenated messages.   *)
(*   message   a serialized message                                        *)
(*   value     one unpacked value of a repeated field, which means a       *)
(*             message with only that value                                *)
(*   unknown   a field that no class has, which means nothing; its payload *)
(*             bytes are among those that read as tags of field 0          *)
(***************************************************************************)
EXTENDS BulkParse
LOCAL INSTANCE SequencesExt

PB == INSTANCE PbsToPb

Piece(kind, bytes, means) == [kind |-> kind, bytes |-> bytes, means |-> means]

Cleared(class) ==
  CASE class = "Profile" -> GP!ProfileClear     [] class = "ValueType" -> GP!ValueTypeClear
    [] class = "Sample" -> GP!SampleClear       [] class = "Label" -> GP!LabelClear
    [] class = "Mapping" -> GP!MappingClear     [] class = "Location" -> GP!LocationClear
    [] class = "Line" -> GP!LineClear           [] class = "Function" -> GP!FunctionClear
    [] class = "Person" -> GE!PersonClear       [] class = "Address" -> GE!AddressClear

Serialize(class, m) == IF class = "Profile" THEN GP!ProfileSerialize(m) ELSE GE!PersonSerialize(m)
ByteSize(class, m)  == IF class = "Profile" THEN GP!ProfileByteSize(m) ELSE GE!PersonByteSize(m)
MergeFrom(class, to, from) ==
  IF class = "Profile" THEN GP!ProfileMergeFrom(to, from) ELSE GE!PersonMergeFrom(to, from)

Fields(in)   == Tables[in.copy][in.root]
Pointers(in) == {f \in Fields(in) : f.kind = "message" /\ ~f.many}

\* PBSkip has a set_x of a new object where Google merges into the one there.
Joined(in, to, from) ==
  LET kept == IF in.copy = "google" THEN to
              ELSE [n \in DOMAIN to |->
                      IF n \in Names(Pointers(in)) /\ from[n] # <<>> THEN <<>> ELSE to[n]]
  IN  MergeFrom(in.root, kept, from)

\* The meaning of the first k pieces.
Meaning(in, k) ==
  FoldLeft(LAMBDA o, p : Joined(in, o, p.means), Cleared(in.root), SubSeq(in.pieces, 1, k))
Expected == Meaning(input, Len(input.pieces))

\* dac ends with false at a field it does not know, and at an empty period_type.
Refused(p) ==
  /\ style = "dac"
  /\ p.kind = "unknown" \/ p.means.period_type = <<Cleared("ValueType")>>

\* Person of sequential takes the length of packed ages for their number, and
\* reads on behind them for those that are not there.
Miscounted ==
  /\ copy = "sequential" /\ input.root = "Person"
  /\ \E k \in DOMAIN input.pieces :
       LET ages == input.pieces[k].means.ages
       IN  \E i \in DOMAIN ages : ages[i] \ (0..6) # {}

\* The order in which the records of packed comments reach the vector, and the
\* zeros before them, are properties of TrackerParse.
SansComments(o) == IF Tracked THEN [o EXCEPT !.comment = <<>>] ELSE o

-----------------------------------------------------------------------------
(* Properties.                                                             *)

\* Every copy returns true with the message that was written - all values of all
\* 64 bits, in order, in the submessage they belong to - in one piece or several,
\* packed or not, with or without unknown fields.  dac alone returns false, and
\* for the reasons above only; and the ages of sequential's Person have to be of
\* one byte each, or else the process ends where the message does.
ParsesToMerge ==
  status # "parsing" /\ ~input.cut =>
    IF \E k \in DOMAIN input.pieces : Refused(input.pieces[k]) THEN status = "false"
    ELSE IF Miscounted THEN status = "exit"
    ELSE status = "true" /\ SansComments(Root) = SansComments(Expected)

\* A file that ends early costs at most one field: what was read before it is
\* right, what comes after it has its default, and of a repeated field only the
\* last element may be wrong.  While a tracked Profile has its records outside
\* the vectors nothing is said.
CutSpoilsOneField ==
  Len(input.pieces) = 1 /\ (Tracked => status = "true") =>
    LET o == SansComments(Root)
        e == SansComments(Expected)
    IN  \E g \in Fields(input) : \A f \in Fields(input) :
          CASE f.id < g.id -> o[f.name] = e[f.name]
            [] f.id > g.id -> o[f.name] = Default(f)
            [] f = g /\ f.many -> /\ Len(o[f.name]) <= Len(e[f.name])
                                  /\ IsPrefix(Front(<<0>> \o o[f.name]), <<0>> \o e[f.name])
            [] OTHER -> TRUE

\* ByteSizeLong is the length of what _InternalSerialize writes: it is what is
\* written as the length of a submessage before its bytes are.
SizesAreExact ==
  \A k \in DOMAIN input.pieces :
    LET p == input.pieces[k]
    IN  p.kind = "message" => ByteSize(input.root, p.means) = Len(p.bytes)

\* The tests' comparison can be trusted: what the conversion makes of a parsed
\* message is what Google's parser makes of the same bytes, if the singular
\* submessage is there, once.
Converted ==
  IF copy = "generator" THEN PB!GenerateClass(input.root, Root)
  ELSE IF input.root = "Profile" THEN PB!ProfileToPb(Root) ELSE PB!PersonToPb(Root)
ConversionMatches ==
  LET f == CHOOSE g \in Pointers(input) : TRUE
      n == Cardinality({k \in DOMAIN input.pieces : input.pieces[k].means[f.name] # <<>>})
  IN  status = "true" /\ ~input.cut /\ n = 1 => SansComments(Converted) = SansComments(Expected)

-----------------------------------------------------------------------------
(* MessageParse implements ValueStream: step by step and not only in the   *)
(* end.  The values of a piece are those of its fields, by id.             *)

Values(in, k) ==
  LET m == in.pieces[k].means
      ByFieldId(id) == CHOOSE f \in Fields(in) : f.id = id
      Of(f) == IF f.many THEN [i \in DOMAIN m[f.name] |-> [field |-> f, value |-> m[f.name][i]]]
               ELSE IF m[f.name] = Default(f) THEN <<>>
               ELSE <<[field |-> f, value |-> Meaning(in, k)[f.name]]>>
  IN  FlattenSeq([id \in 1..Cardinality(Fields(in)) |-> Of(ByFieldId(id))])

Grown(o, v) ==
  [o EXCEPT ![v.field.name] = IF v.field.many THEN Append(@, v.value) ELSE v.value]

Stages(in) ==
  FoldLeft(LAMBDA os, v : Append(os, Grown(Last(os), v)), <<Cleared(in.root)>>,
           FlattenSeq([k \in DOMAIN in.pieces |-> Values(in, k)]))

\* A tracked Profile is filled in another order, and a cut or miscounted one with
\* other values.
Stream == INSTANCE ValueStream WITH
  message <- input,
  object  <- IF Tracked \/ Miscounted \/ input.cut THEN Cleared(input.root) ELSE Root

\* The object grows by the values of the message, one by one and in their order,
\* whatever copy parses it.
StreamSpec == Stream!Spec
=============================================================================
