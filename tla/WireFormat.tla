----------------------------- MODULE WireFormat -----------------------------
(***************************************************************************)
(* The part of Google's library that writes the wire format, modelled from *)
(* how schema/profile.pb.cc and schema/person.pb.cc call it (external):    *)
(* WireFormatLite, EpsCopyOutputStream and the sizes they compute.         *)
(***************************************************************************)
EXTENDS Integers, Sequences
LOCAL INSTANCE FiniteSetsExt
LOCAL INSTANCE SequencesExt
LOCAL INSTANCE Seeker

VarintSize(v) == IF v = {} THEN 1 ELSE Max(v) \div 7 + 1

WriteVarint(v) ==
  LET n == VarintSize(v)
  IN  [k \in 1..n |-> {b \in 0..6 : 7 * (k - 1) + b \in v} \cup (IF k < n THEN {7} ELSE {})]

WriteTag(id, wire) == WriteVarint(Bits(8 * id + wire))

\* A singular field that has its default value is not written.
WriteInt(id, v)    == IF v = {} THEN <<>> ELSE WriteTag(id, 0) \o WriteVarint(v)
WriteBytes(id, s)  == WriteTag(id, 2) \o WriteVarint(Bits(Len(s))) \o s
WriteString(id, s) == IF s = <<>> THEN <<>> ELSE WriteBytes(id, s)
WriteStrings(id, ss) == FlattenSeq([k \in DOMAIN ss |-> WriteBytes(id, ss[k])])

Sum(sizes) == FoldLeft(LAMBDA a, b : a + b, 0, sizes)
DataSize(vs) == Sum([k \in DOMAIN vs |-> VarintSize(vs[k])])

\* A packed record: its length is the size computed before.
WritePacked(id, vs) ==
  IF vs = <<>> THEN <<>>
  ELSE WriteTag(id, 2) \o WriteVarint(Bits(DataSize(vs)))
         \o FlattenSeq([k \in DOMAIN vs |-> WriteVarint(vs[k])])

\* Submessages ms: the length of each is its cached ByteSizeLong.
WriteMessages(id, ms, Serialize(_), ByteSize(_)) ==
  FlattenSeq([k \in DOMAIN ms |->
                WriteTag(id, 2) \o WriteVarint(Bits(ByteSize(ms[k]))) \o Serialize(ms[k])])

IntSize(v) == IF v = {} THEN 0 ELSE 1 + VarintSize(v)
BytesSize(n) == 1 + VarintSize(Bits(n)) + n
StringSize(s) == IF s = <<>> THEN 0 ELSE BytesSize(Len(s))
StringsSize(ss) == Sum([k \in DOMAIN ss |-> BytesSize(Len(ss[k]))])
PackedSize(vs) == IF vs = <<>> THEN 0 ELSE BytesSize(DataSize(vs))
MessagesSize(ms, ByteSize(_)) == Sum([k \in DOMAIN ms |-> BytesSize(ByteSize(ms[k]))])

\* What MergeFrom does with a singular number, bool or string.
Merged(to, from, default) == IF from = default THEN to ELSE from
=============================================================================
