------------------------------- MODULE Encoding -------------------------------
(***************************************************************************)
(* What a writer of the wire format has put into the bytes of a whole      *)
(* message, by Google's tables (schema/*.pb.cc): which stretches of them   *)
(* are messages, packed records and the fields in them.  A part            *)
(* <<what, from, to>> says that the bytes from the position from up to to  *)
(* are fields of the class what, or the values of a packed record.  The    *)
(* parse functions are not used here, only the reading of a varint.        *)
(*                                                                         *)
(* PBSkip reads the payload of a field that it does not know as tags: a    *)
(* message with such fields is taken to be encoded when these bytes read   *)
(* as fields that nobody knows, too.                                       *)
(***************************************************************************)
EXTENDS BulkParse

Schema == Tables["google"]

\* A part that no message has.
Broken == <<"broken", 0, 0>>

\* A varint lies from p to the byte before q.
Lies(bytes, p, q) ==
  p < q /\ 7 \notin ByteAt(bytes, q - 1) /\ \A i \in p..(q - 2) : 7 \in ByteAt(bytes, i)

\* It has n bytes at most.
LiesIn(bytes, p, q, n) == Lies(bytes, p, q) /\ q - p <= n

\* The bytes from p to the one before q are varints.
Singles(bytes, p, q) == \A i \in p..(q - 1) : 7 \notin ByteAt(bytes, i)

\* Where the varint at p ends, if it does before e, and the low 32 bits of it.
EndAt(bytes, p, e) == ReadVarint64(bytes, [curr |-> p, end |-> e]).seek.curr
Worth(bytes, p, q) == ReadVarint32(bytes, [curr |-> p, end |-> q]).value

\* The bytes that a writer needs for the value of a field.
Room(f) == IF f.kind = "bool" THEN 1 ELSE IF f.width = 32 THEN 5 ELSE 10

\* The ages of sequential, of which each has to have one byte.
CountedIn(in, class, f) == in.copy = "sequential" /\ class = "Person" /\ f.name \in SQ!Counted

AsScalar(in, class, f, tag) == Scalar(f) /\ Wire(tag) = Bits(0) /\ ~CountedIn(in, class, f)
AsBytes(f, tag) == (~Scalar(f) \/ (f.kind = "int" /\ f.many)) /\ Wire(tag) = Bits(2)

Takers(in, class, tag) ==
  {f \in Schema[class] :
     Bits(f.id) = FieldId(tag) /\ (AsScalar(in, class, f, tag) \/ AsBytes(f, tag))}

\* The copies that leave out what they do not know: Google's everywhere, and the
\* scan of parallel and pthreads.
Skips(in, class) ==
  in.copy = "google" \/ (in.copy \in {"parallel", "pthreads"} /\ class = "Profile")

-----------------------------------------------------------------------------
\* A varint of at most n bytes at q, and then the other fields.
ScalarParts(in, class, q, e, n) ==
  LET r == EndAt(in.buffer, q, e)
  IN  IF r <= e /\ LiesIn(in.buffer, q, r, n) THEN {<<class, r, e>>} ELSE {Broken}

\* A length at q, and where as many bytes after it end.
Behind(in, q, e) ==
  LET r == EndAt(in.buffer, q, e) IN r + Number(Worth(in.buffer, q, r))
LengthFits(in, q, e) ==
  LET r == EndAt(in.buffer, q, e)
  IN  r <= e /\ LiesIn(in.buffer, q, r, 5) /\ Behind(in, q, e) <= e

\* The payload of f, from r up to t.
PayloadParts(in, class, f, r, t) ==
  IF f.kind = "message" THEN {<<f.of, r, t>>}
  ELSE IF f.kind = "string" THEN {}
  ELSE IF ~CountedIn(in, class, f) THEN {<<"packed", r, t>>}
  ELSE IF Singles(in.buffer, r, t) THEN {} ELSE {Broken}

FieldParts(in, class, f, tag, q, e) ==
  IF AsScalar(in, class, f, tag) THEN ScalarParts(in, class, q, e, Room(f))
  ELSE IF ~LengthFits(in, q, e) THEN {Broken}
  ELSE {<<class, Behind(in, q, e), e>>}
         \cup PayloadParts(in, class, f, EndAt(in.buffer, q, e), Behind(in, q, e))

\* A field that is in no table, or has a wire type that its case does not take.
\* ValueType of dac gives up the whole message then.
UnknownParts(in, class, tag, q, e) ==
  IF ~Skips(in, class)
  THEN IF in.copy = "dac" /\ class \in DC!ValueTypeIsClosed THEN {Broken} ELSE {<<class, q, e>>}
  ELSE IF in.copy = "google" /\ FieldId(tag) = {} THEN {Broken}
  ELSE IF Wire(tag) = Bits(0) THEN ScalarParts(in, class, q, e, 10)
  ELSE IF Wire(tag) = Bits(2)
  THEN IF LengthFits(in, q, e) THEN {<<class, Behind(in, q, e), e>>} ELSE {Broken}
  ELSE IF in.copy # "google" THEN {<<class, q, e>>}
  ELSE IF Wire(tag) = Bits(5) /\ q + 4 <= e THEN {<<class, q + 4, e>>} ELSE {Broken}

\* The parts that the first field, or the first value, of a part leads to.
PartsAfter(in, part) ==
  LET what == part[1]
      p    == part[2]
      e    == part[3]
      q    == EndAt(in.buffer, p, e)
      tag  == Worth(in.buffer, p, q)
  IN  IF p = e THEN {}
      ELSE IF what = "packed" THEN ScalarParts(in, what, p, e, 10)
      ELSE IF ~(q <= e /\ LiesIn(in.buffer, p, q, 5)) \/ tag = {} THEN {Broken}
      ELSE IF Takers(in, what, tag) = {} THEN UnknownParts(in, what, tag, q, e)
      ELSE UNION {FieldParts(in, what, f, tag, q, e) : f \in Takers(in, what, tag)}

\* The parts of a message, up to the last.
Encoded(in, parts) ==
  LET n == Len(in.buffer)
  IN  /\ <<in.root, 0, n>> \in parts
      /\ parts \subseteq (DOMAIN Schema \cup {"packed"}) \X (0..n) \X (0..n)
      /\ \A part \in parts : part[2] <= part[3] /\ PartsAfter(in, part) \subseteq parts

\* Somebody has written the input that is parsed.
Written == \E parts : Encoded(input, parts)
=============================================================================
